--------------------------- MODULE CoroutineSend ---------------------------
(***************************************************************************)
(* The sending half of a session of the coroutine server                   *)
(* (asio/17-coroutine-server/src/core/session/Session.cc, Send).  Send     *)
(* spawns a coroutine if the queue was empty; the coroutine takes messages *)
(* out of the queue and writes each, until the queue is empty.  Unlike     *)
(* SendQueue's, the message being written is not in the queue any more, so *)
(* an empty queue does not mean that nobody is writing.                    *)
(***************************************************************************)
EXTENDS Integers, Sequences, FiniteSets

CONSTANTS
  Messages,   \* 1 .. n, what the logic worker sends, in this order: the bound
  Pieces,     \* into how many parts the kernel may cut a write
  MaxLen      \* SEND_QUEUE_MAX_LEN

VARIABLES
  send_queue,   \* _send_queue
  sender,       \* the message whose Send is about to spawn a coroutine, or none
  loops,        \* coroutines at the top of their loop, named by that message
  writing,      \* coroutines in async_write: name, message, pieces, failed
  closed,       \* _isClosed
  accepted,     \* history: the messages pushed, in order
  dropped,      \* history: the messages refused by a full queue
  wire          \* the pieces written to the socket

vars == <<send_queue, sender, loops, writing, closed, accepted, dropped, wire>>

Write == [by : Messages, msg : Messages, sent : 0 .. Pieces, failed : BOOLEAN]

TypeOK ==
  /\ send_queue \in Seq(Messages) /\ Len(send_queue) <= MaxLen
  /\ sender \subseteq Messages
  /\ loops \subseteq Messages
  /\ writing \subseteq Write
  /\ closed \in BOOLEAN
  /\ accepted \in Seq(Messages)
  /\ dropped \subseteq Messages
  /\ wire \in Seq(Messages \X (1 .. Pieces))

Init ==
  /\ send_queue = <<>>
  /\ sender = {}
  /\ loops = {}
  /\ writing = {}
  /\ closed = FALSE
  /\ accepted = <<>>
  /\ dropped = {}
  /\ wire = <<>>

-----------------------------------------------------------------------------
New(m) == m = Len(accepted) + Cardinality(dropped) + 1

\* Send's critical section.  Mutant: emptiness tested after the push.
Push_TestsAfter(m) ==
  /\ sender = {}
  /\ New(m)
  /\ Len(send_queue) < MaxLen
  /\ send_queue' = Append(send_queue, m)
  /\ accepted' = Append(accepted, m)
  /\ sender' = IF send_queue' = <<>> THEN {m} ELSE {}
  /\ UNCHANGED <<loops, writing, closed, dropped, wire>>

Push(m) ==
  /\ sender = {}
  /\ New(m)
  /\ Len(send_queue) < MaxLen
  /\ send_queue' = Append(send_queue, m)
  /\ accepted' = Append(accepted, m)
  /\ sender' = IF send_queue = <<>> THEN {m} ELSE {}
  /\ UNCHANGED <<loops, writing, closed, dropped, wire>>

Refuse(m) ==
  /\ sender = {}
  /\ New(m)
  /\ Len(send_queue) >= MaxLen
  /\ dropped' = dropped \cup {m}
  /\ UNCHANGED <<send_queue, sender, loops, writing, closed, accepted, wire>>

\* co_spawn: the coroutine will run on the io context.
Spawn ==
  /\ sender # {}
  /\ loops' = loops \cup sender
  /\ sender' = {}
  /\ UNCHANGED <<send_queue, writing, closed, accepted, dropped, wire>>

\* The critical section at the top of the loop, and the start of the write.
\* Mutant: the message stays in the queue.
TakeNext_NoPop(c) ==
  /\ c \in loops
  /\ send_queue # <<>>
  /\ writing' = writing \cup {[by |-> c, msg |-> Head(send_queue), sent |-> 0, failed |-> FALSE]}
  /\ loops' = loops \ {c}
  /\ UNCHANGED <<send_queue, sender, closed, accepted, dropped, wire>>

TakeNext(c) ==
  /\ c \in loops
  /\ send_queue # <<>>
  /\ writing' = writing \cup {[by |-> c, msg |-> Head(send_queue), sent |-> 0, failed |-> FALSE]}
  /\ send_queue' = Tail(send_queue)
  /\ loops' = loops \ {c}
  /\ UNCHANGED <<sender, closed, accepted, dropped, wire>>

Finish(c) ==
  /\ c \in loops
  /\ send_queue = <<>>
  /\ loops' = loops \ {c}
  /\ UNCHANGED <<send_queue, sender, writing, closed, accepted, dropped, wire>>

WriteSome(w) ==
  /\ ~closed
  /\ ~w.failed
  /\ w.sent < Pieces
  /\ wire' = Append(wire, <<w.msg, w.sent + 1>>)
  /\ writing' = (writing \ {w}) \cup {[w EXCEPT !.sent = @ + 1]}
  /\ UNCHANGED <<send_queue, sender, loops, closed, accepted, dropped>>

WriteFails(w) ==
  /\ ~w.failed
  /\ w.sent < Pieces
  /\ writing' = (writing \ {w}) \cup {[w EXCEPT !.failed = TRUE]}
  /\ UNCHANGED <<send_queue, sender, loops, closed, accepted, dropped, wire>>

\* co_await returns: back to the top of the loop.  Mutant: the coroutine ends
\* after one message.
Resume_Ends(w) ==
  /\ ~w.failed
  /\ w.sent = Pieces
  /\ writing' = writing \ {w}
  /\ UNCHANGED <<send_queue, sender, loops, closed, accepted, dropped, wire>>

Resume(w) ==
  /\ ~w.failed
  /\ w.sent = Pieces
  /\ writing' = writing \ {w}
  /\ loops' = loops \cup {w.by}
  /\ UNCHANGED <<send_queue, sender, closed, accepted, dropped, wire>>

\* co_await throws: the session is closed and the coroutine ends.
Throw(w) ==
  /\ w.failed
  /\ writing' = writing \ {w}
  /\ closed' = TRUE
  /\ UNCHANGED <<send_queue, sender, loops, accepted, dropped, wire>>

\* close() by the reading coroutine.
CloseElsewhere ==
  /\ ~closed
  /\ closed' = TRUE
  /\ UNCHANGED <<send_queue, sender, loops, writing, accepted, dropped, wire>>

Coroutine(c) == TakeNext(c) \/ Finish(c)
Io(w) == WriteSome(w) \/ WriteFails(w) \/ Resume(w) \/ Throw(w)

Next ==
  \/ \E m \in Messages : Push(m) \/ Refuse(m)
  \/ Spawn
  \/ \E c \in loops : Coroutine(c)
  \/ \E w \in writing : Io(w)
  \/ CloseElsewhere

\* The worker finishes a Send; the io context runs what is ready, each
\* coroutine and each write in turn.
Fairness ==
  /\ WF_vars(Spawn)
  /\ \A c \in Messages : /\ WF_vars(Coroutine(c))
                         /\ WF_vars(\E w \in writing : w.by = c /\ Io(w))

Spec == Init /\ [][Next]_vars /\ Fairness

-----------------------------------------------------------------------------
(* Properties.                                                             *)

\* A message waits in the queue only while a coroutine is about to look at it
\* or the session is closed (lines 122-142).
NothingStranded ==
  send_queue # <<>> /\ ~closed => sender # {} \/ loops # {} \/ writing # {}

\* No message is written twice, by one coroutine or by two.
WrittenOnce == \A i, j \in 1 .. Len(wire) : wire[i] = wire[j] => i = j

\* Every accepted message is written completely, or the session is closed:
\* with a bounded number of messages the coroutines catch up for good.
AllWritten ==
  <>[](closed \/ \A i \in 1 .. Len(accepted) :
                    \E j \in 1 .. Len(wire) : wire[j] = <<accepted[i], Pieces>>)

\* A peer reads a header and then the body it announces (client.cc lines
\* 45-60): accepted messages reach the wire whole and in order.
Stream == INSTANCE OrderedStream
ImplementsStream == Stream!Spec
=============================================================================
