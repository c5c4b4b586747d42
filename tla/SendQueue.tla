----------------------------- MODULE SendQueue -----------------------------
(***************************************************************************)
(* The sending half of a session of the asio servers                       *)
(* (asio/15-iothread_pool/src/core/session/Session.cc, Send and            *)
(* handle_write): messages wait in _send_queue, whose front is the one     *)
(* being written.  Send is called by the logic worker; it starts a write   *)
(* if the queue was empty, after it has released the mutex.  The handler   *)
(* of a write, on an io thread, takes the front away and starts the next.  *)
(***************************************************************************)
EXTENDS Integers, Sequences

CONSTANTS
  Messages,   \* what the logic worker sends, each once: the bound
  Pieces,     \* into how many parts the kernel may cut a write
  MaxLen      \* SEND_QUEUE_MAX_LEN

\* A write has a part, and the queue a place.
Sized == Pieces \in Nat \ {0} /\ MaxLen \in Nat \ {0}

VARIABLES
  send_queue,   \* _send_queue
  sender,       \* the logic worker: outside Send, or about to start a write
  writes,       \* the async_writes under way: message, pieces written, failed
  closed,       \* _is_closed
  accepted,     \* history: the messages pushed, in order
  dropped,      \* history: the messages refused by a full queue
  wire          \* the pieces written to the socket

sqVars == <<send_queue, sender, writes, closed, accepted, dropped, wire>>

AsyncWrite == [msg : Messages, sent : 0 .. Pieces, failed : BOOLEAN]

SqTypeOK ==
  /\ send_queue \in Seq(Messages) /\ Len(send_queue) <= MaxLen
  /\ sender \in {"idle", "start"}
  /\ writes \subseteq AsyncWrite
  /\ closed \in BOOLEAN
  /\ accepted \in Seq(Messages)
  /\ dropped \subseteq Messages
  /\ wire \in Seq(Messages \X (1 .. Pieces))

SqInit ==
  /\ send_queue = <<>>
  /\ sender = "idle"
  /\ writes = {}
  /\ closed = FALSE
  /\ accepted = <<>>
  /\ dropped = {}
  /\ wire = <<>>

-----------------------------------------------------------------------------
New(m) == m \notin dropped /\ \A i \in 1 .. Len(accepted) : accepted[i] # m

\* Send up to the end of its critical section.  Mutants: emptiness
\* tested after the push; a write started every time.
PushNode_TestsAfter(m) ==
  /\ sender = "idle"
  /\ New(m)
  /\ Len(send_queue) < MaxLen
  /\ send_queue' = Append(send_queue, m)
  /\ accepted' = Append(accepted, m)
  /\ sender' = IF send_queue' = <<>> THEN "start" ELSE "idle"
  /\ UNCHANGED <<writes, closed, dropped, wire>>

PushNode_AlwaysStarts(m) ==
  /\ sender = "idle"
  /\ New(m)
  /\ Len(send_queue) < MaxLen
  /\ send_queue' = Append(send_queue, m)
  /\ accepted' = Append(accepted, m)
  /\ sender' = "start"
  /\ UNCHANGED <<writes, closed, dropped, wire>>

PushNode(m) ==
  /\ sender = "idle"
  /\ New(m)
  /\ Len(send_queue) < MaxLen
  /\ send_queue' = Append(send_queue, m)
  /\ accepted' = Append(accepted, m)
  /\ sender' = IF send_queue = <<>> THEN "start" ELSE "idle"
  /\ UNCHANGED <<writes, closed, dropped, wire>>

RefuseNode(m) ==
  /\ sender = "idle"
  /\ New(m)
  /\ Len(send_queue) >= MaxLen
  /\ dropped' = dropped \cup {m}
  /\ UNCHANGED <<send_queue, sender, writes, closed, accepted, wire>>

\* async_write on the front of a queue.  Mutant: on its back.
Begin_Back(queue) == [msg |-> queue[Len(queue)], sent |-> 0, failed |-> FALSE]
Begin(queue) == [msg |-> Head(queue), sent |-> 0, failed |-> FALSE]

\* The rest of Send, outside the critical section.
StartWrite ==
  /\ sender = "start"
  /\ writes' = writes \cup {Begin(send_queue)}
  /\ sender' = "idle"
  /\ UNCHANGED <<send_queue, closed, accepted, dropped, wire>>

\* The kernel takes a part of the buffer.
WriteSome(w) ==
  /\ ~closed
  /\ ~w.failed
  /\ w.sent < Pieces
  /\ wire' = Append(wire, <<w.msg, w.sent + 1>>)
  /\ writes' = (writes \ {w}) \cup {[w EXCEPT !.sent = @ + 1]}
  /\ UNCHANGED <<send_queue, sender, closed, accepted, dropped>>

\* The connection breaks, or the socket has been closed.
WriteFails(w) ==
  /\ ~w.failed
  /\ w.sent < Pieces
  /\ writes' = (writes \ {w}) \cup {[w EXCEPT !.failed = TRUE]}
  /\ UNCHANGED <<send_queue, sender, closed, accepted, dropped, wire>>

\* handle_write.  Mutant: no next write is started.
HandleWrite_Stops(w) ==
  /\ ~w.failed
  /\ w.sent = Pieces
  /\ send_queue' = Tail(send_queue)
  /\ writes' = writes \ {w}
  /\ UNCHANGED <<sender, closed, accepted, dropped, wire>>

HandleWrite(w) ==
  /\ ~w.failed
  /\ w.sent = Pieces
  /\ send_queue' = Tail(send_queue)
  /\ writes' = (writes \ {w}) \cup (IF send_queue' = <<>> THEN {} ELSE {Begin(send_queue')})
  /\ UNCHANGED <<sender, closed, accepted, dropped, wire>>

\* handle_write with an error closes the session; the queue stays as it is.
HandleWriteError(w) ==
  /\ w.failed
  /\ closed' = TRUE
  /\ writes' = writes \ {w}
  /\ UNCHANGED <<send_queue, sender, accepted, dropped, wire>>

\* Close() by the reading half.
CloseElsewhere ==
  /\ ~closed
  /\ closed' = TRUE
  /\ UNCHANGED <<send_queue, sender, writes, accepted, dropped, wire>>

Io(w) == WriteSome(w) \/ WriteFails(w) \/ HandleWrite(w) \/ HandleWriteError(w)

SqNext ==
  \/ \E m \in Messages : PushNode(m) \/ RefuseNode(m)
  \/ StartWrite
  \/ \E w \in writes : Io(w)
  \/ CloseElsewhere

\* The worker finishes a Send it has begun; a write goes on or fails, and its
\* handler runs.
SqFairness ==
  /\ WF_sqVars(StartWrite)
  /\ WF_sqVars(\E w \in writes : Io(w))

SqSpec == SqInit /\ [][SqNext]_sqVars /\ SqFairness

-----------------------------------------------------------------------------
(* Properties.                                                             *)

\* At most one async_write is under way, and none while Send is about to start
\* one: two writes on one socket would mix their bytes (lines 61-66, 210-218).
OneWriter ==
  /\ \A v, w \in writes : v = w
  /\ sender = "start" => writes = {}

\* A message waits in the queue of an open session only while somebody is at
\* it: an empty queue seen by Send and by handle_write cannot cross.
NothingStranded == send_queue # <<>> /\ ~closed => sender = "start" \/ writes # {}

\* The front of the queue is the message being written: its buffer lives as
\* long as the write.
FrontIsWritten == \A w \in writes : send_queue # <<>> /\ w.msg = Head(send_queue)

\* Again and again, unless the session is closed, every message accepted so far
\* has been written completely: none waits for ever.
AllWritten ==
  []<>(closed \/ \A i \in 1 .. Len(accepted) :
                   \E j \in 1 .. Len(wire) : wire[j] = <<accepted[i], Pieces>>)

\* Accepted messages reach the wire whole and in order.
Stream == INSTANCE OrderedStream
ImplementsStream == Stream!Spec
=============================================================================
