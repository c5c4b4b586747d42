---------------------------- MODULE AsyncSession ----------------------------
(***************************************************************************)
(* The session that introduces the asynchronous operations                 *)
(* (asio/4-async-api/src/core/session/Session.cc): three ways to write a   *)
(* message and two to read, each with a callback that goes on with what is *)
(* left.  One thread calls and runs the callbacks.  Three uses have no     *)
(* defined outcome, and a behaviour ends there: a callback that empties    *)
(* the queue takes its front all the same, and a second WriteToSocketErr   *)
(* or Read...  releases the buffer of the operation that is pending.       *)
(* (A caller keeps the string it passes until it is written.)              *)
(***************************************************************************)
EXTENDS Integers, SequencesExt

CONSTANTS
  Calls,   \* how many messages are written: a bound
  Parts,   \* in how many parts the kernel takes a message: a bound
  Room     \* in how many parts a read buffer is filled: a bound

VARIABLES
  way,        \* how messages are written: err, some or all
  called,     \* how many have been
  nodes,      \* _queue, or _send_node: messages, and the parts of each written
  sending,    \* sending
  pending,    \* the write under way: none, or the one message it is of
  connected,  \* operations fail on a connection that is lost
  delivered,  \* the parts the peer has got
  curLen,     \* _recv_node->_curLen
  receiving,  \* receiving
  reading,    \* the read under way: none, some or all
  undefined   \* history: a use without a defined outcome

asVars == <<way, called, nodes, sending, pending, connected, delivered, curLen,
            receiving, reading, undefined>>
writeVars == <<way, called, nodes, sending, pending, delivered>>
readVars == <<curLen, receiving, reading>>

AsInit ==
  /\ way \in {"err", "some", "all"}
  /\ called = 0
  /\ nodes = <<>>
  /\ sending = FALSE
  /\ pending = {}
  /\ connected = TRUE
  /\ delivered = <<>>
  /\ curLen = 0
  /\ receiving = FALSE
  /\ reading = "none"
  /\ undefined = FALSE

Node(m) == [msg |-> m, cur |-> 0]
Current == Head(nodes)
Write(m, from, n) == [i \in 1 .. n |-> <<m, from + i>>]

-----------------------------------------------------------------------------
(* Writing.                                                                *)

WriteToSocketErr ==
  /\ way = "err" /\ ~undefined /\ called < Calls
  /\ called' = called + 1
  /\ nodes' = <<Node(called + 1)>>
  /\ undefined' = (pending # {})
  /\ pending' = {called + 1}
  /\ UNCHANGED <<way, sending, connected, delivered, readVars>>

\* WriteToSocket and WriteAllToSocket until their operations differ.
Enqueue ==
  /\ ~undefined /\ called < Calls
  /\ called' = called + 1
  /\ nodes' = Append(nodes, Node(called + 1))
  /\ sending' = TRUE
  /\ pending' = IF sending THEN pending ELSE {called + 1}
  /\ UNCHANGED <<way, connected, delivered, undefined, readVars>>

WriteToSocket == way = "some" /\ Enqueue
WriteAllToSocket == way = "all" /\ Enqueue

\* How many parts an operation that may take fewer has taken.
Taken == IF connected THEN 1 .. (Parts - Current.cur) ELSE {0}
Takes(n) == delivered' = delivered \o Write(Current.msg, Current.cur, n)

WriteToSocketCbErr ==
  /\ way = "err" /\ ~undefined /\ pending # {}
  /\ \E n \in Taken :
       /\ Takes(n)
       /\ IF connected /\ n + Current.cur < Parts
            THEN nodes' = <<[Current EXCEPT !.cur = @ + n]>> /\ UNCHANGED pending
            ELSE pending' = {} /\ UNCHANGED nodes
  /\ UNCHANGED <<way, called, sending, connected, undefined, readVars>>

\* The front is done with: the next one, though there may be none.
PopAndGoOn ==
  /\ nodes' = Tail(nodes)
  /\ sending' = (nodes' # <<>>)
  /\ undefined' = (nodes' = <<>>)
  /\ pending' = IF nodes' = <<>> THEN {} ELSE {Head(nodes').msg}

\* What is left of the front is written next.  Mutant: all of it is.
GoOn_Whole(n) == nodes' = <<[Current EXCEPT !.cur = 0]>> \o Tail(nodes)
GoOn(n) == nodes' = <<[Current EXCEPT !.cur = @ + n]>> \o Tail(nodes)

WriteToSocketCb ==
  /\ way = "some" /\ ~undefined /\ pending # {}
  /\ \E n \in Taken :
       /\ Takes(n)
       /\ IF Current.cur + n < Parts
            THEN GoOn(n) /\ UNCHANGED <<sending, undefined, pending>>
            ELSE PopAndGoOn
  /\ UNCHANGED <<way, called, connected, readVars>>

\* async_write takes all, unless the connection is lost while it does.
WriteAllToSocketCb ==
  /\ way = "all" /\ ~undefined /\ pending # {}
  /\ Takes(IF connected THEN Parts ELSE 0)
  /\ PopAndGoOn
  /\ UNCHANGED <<way, called, connected, readVars>>

-----------------------------------------------------------------------------
(* Reading.                                                                *)

\* The buffer is replaced before receiving is looked at.
Read(kind) ==
  /\ ~undefined
  /\ curLen' = 0
  /\ undefined' = (reading # "none")
  /\ receiving' = TRUE
  /\ reading' = IF receiving THEN reading ELSE kind
  /\ UNCHANGED <<writeVars, connected>>

ReadFromSocket == Read("some")
ReadAllFromSocket == Read("all")

\* An error is logged, and the rest is read all the same.
ReadFromSocketCb ==
  /\ reading = "some" /\ ~undefined
  /\ \E n \in IF connected THEN 1 .. (Room - curLen) ELSE {0} : curLen' = curLen + n
  /\ receiving' = (curLen' < Room)
  /\ reading' = IF curLen' < Room THEN "some" ELSE "none"
  /\ UNCHANGED <<writeVars, connected, undefined>>

ReadAllFromSocketCb ==
  /\ reading = "all" /\ ~undefined
  /\ receiving' = FALSE
  /\ reading' = "none"
  /\ curLen' = 0
  /\ UNCHANGED <<writeVars, connected, undefined>>

Disconnect ==
  /\ connected
  /\ connected' = FALSE
  /\ UNCHANGED <<writeVars, readVars, undefined>>

AsNext ==
  \/ WriteToSocketErr \/ WriteToSocketCbErr
  \/ WriteToSocket \/ WriteToSocketCb
  \/ WriteAllToSocket \/ WriteAllToSocketCb
  \/ ReadFromSocket \/ ReadFromSocketCb
  \/ ReadAllFromSocket \/ ReadAllFromSocketCb
  \/ Disconnect

AsSpec == AsInit /\ [][AsNext]_asVars

-----------------------------------------------------------------------------
(* Properties.                                                             *)

\* As long as no use is undefined: the peer gets the messages part by part in
\* the order of the calls, and of every message that is not waiting all of it;
\* a message waits behind a write, which is of the front (lines 53-134); and
\* receiving tells whether a read is under way (lines 137-189).
SessionKeepsTrack ==
  ~undefined =>
    /\ LET all == FlattenSeq([m \in 1 .. called |-> Write(m, 0, Parts)])
       IN IsPrefix(delivered, all) /\ (connected /\ pending = {} => delivered = all)
    /\ way # "err" =>
         (sending <=> pending # {}) /\ (nodes # <<>> => pending = {Current.msg})
    /\ receiving <=> reading # "none"
=============================================================================
