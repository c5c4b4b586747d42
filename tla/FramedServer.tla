---------------------------- MODULE FramedServer ----------------------------
(***************************************************************************)
(* A connection of the asio servers 8 to 15, end to end: the receiving     *)
(* half of its session (SessionRead) hands complete messages on, up to 11  *)
(* to Send in the same handler, from 12 on to the logic layer              *)
(* (LogicSystem), whose worker answers with a Send; the sending half       *)
(* (SendQueue) writes the answers.  Only what the chapters do differently  *)
(* is added here; the i-th complete message, and its answer, is i.         *)
(***************************************************************************)
EXTENDS SessionRead

CONSTANTS
  Hello,      \* MSG_HELLO_WORLD, the one id with a handler
  Pieces,     \* into how many parts the kernel may cut a write
  MaxLen      \* SEND_QUEUE_MAX_LEN

ASSUME FramedServerAssumption == Pieces \in Nat \ {0} /\ MaxLen \in Nat \ {0}

VARIABLES
  started,                                                     \* Start has been called
  queue, mutex, b_stop, worker, inHand, owner, handled,        \* the logic layer
  send_queue, sender, writes, accepted, dropped, out           \* the sending half

readVars == <<chapter, sent, wire, reading, chunk, head, cur_len, node, head_parse,
              stores, overtaken, posted>>
logicVars == <<queue, mutex, b_stop, worker, inHand, owner, handled>>
sendVars == <<send_queue, sender, writes, accepted, dropped, out>>
allVars == <<started, readVars, closed, logicVars, sendVars>>

Numbers(n) == [i \in 1 .. n |-> i]

\* The logic layer of a server that keeps running, and the sending half with
\* and without a limit.
L == INSTANCE LogicSystem WITH
       Messages <- Nat, PostersOutlive <- FALSE, posted <- Numbers(Len(posted))
S == INSTANCE SendQueue WITH Messages <- Nat, wire <- out
Unlimited == INSTANCE SendQueue WITH Messages <- Nat, wire <- out, MaxLen <- 1000
N == INSTANCE MsgNodes

\* A session of each chapter as its constructor leaves it.
New == Init /\ S!SqInit
Session8 == chapter = 8 /\ New
Session9 == chapter = 9 /\ New
Session10 == chapter = 10 /\ New
Session11 == chapter = 11 /\ New
Session12 == chapter = 12 /\ New
Session13 == chapter = 13 /\ New
Session14 == chapter = 14 /\ New
Session15 == chapter = 15 /\ New

FramedInit ==
  /\ started = FALSE
  /\ \/ Session8 \/ Session9 \/ Session10 \/ Session11
     \/ Session12 \/ Session13 \/ Session14 \/ Session15
  /\ L!Init

-----------------------------------------------------------------------------
(* Start of each chapter: the first read, with everything cleared.         *)

Start == ~started /\ started' = TRUE /\ UNCHANGED <<readVars, closed, logicVars, sendVars>>
Start8 == chapter = 8 /\ Start
Start9 == chapter = 9 /\ Start
Start10 == chapter = 10 /\ Start
Start11 == chapter = 11 /\ Start
Start12 == chapter = 12 /\ Start
Start13 == chapter = 13 /\ Start
Start14 == chapter = 14 /\ Start
Start15 == chapter = 15 /\ Start

Starts ==
  \/ Start8 \/ Start9 \/ Start10 \/ Start11 \/ Start12 \/ Start13 \/ Start14 \/ Start15

-----------------------------------------------------------------------------
(* handle_read.                                                            *)

\* Up to 11 one thread does everything, and a Send it has begun comes first.
Free == chapter >= 12 \/ sender = "idle"

Parse ==
  \/ ReadSome \/ ReadError
  \/ HeadPart \/ HeadRejected \/ HeadThrows \/ BodyBegins \/ SetHeadParse \/ BodyPart
  \/ HeapBreaks
Complete == BodyAtOnce \/ BodyEnds

\* Send of each chapter up to the end of its critical section; the write it may
\* start is StartsWrite.
Send(m) == S!PushNode(m) \/ S!RefuseNode(m)
Send8(m) == chapter = 8 /\ Unlimited!PushNode(m)
Send9(m) == chapter = 9 /\ Send(m)
Send10(m) == chapter = 10 /\ Send(m)
Send11(m) == chapter = 11 /\ Send(m)
Send12(m) == chapter = 12 /\ Send(m)
Send13(m) == chapter = 13 /\ Send(m)
Send14(m) == chapter = 14 /\ Send(m)
Send15(m) == chapter = 15 /\ Send(m)

\* PostMsgToLogicQueue of each chapter.
Post12(m) == chapter = 12 /\ L!Post(m)
Post13(m) == chapter = 13 /\ L!Post(m)
Post14(m) == chapter = 14 /\ L!Post(m)
Post15(m) == chapter = 15 /\ L!Post(m)

Parses == Free /\ Parse /\ UNCHANGED <<logicVars, sendVars>>
SendsBack ==
  /\ Free /\ Complete
  /\ LET m == Len(posted) + 1
     IN Send8(m) \/ Send9(m) \/ Send10(m) \/ Send11(m)
  /\ UNCHANGED logicVars
PostsToLogic ==
  /\ Complete
  /\ LET m == Len(posted) + 1
     IN Post12(m) \/ Post13(m) \/ Post14(m) \/ Post15(m)
  /\ UNCHANGED sendVars

HandleRead8 == chapter = 8 /\ (Parses \/ SendsBack)
HandleRead9 == chapter = 9 /\ (Parses \/ SendsBack)
HandleRead10 == chapter = 10 /\ (Parses \/ SendsBack)
HandleRead11 == chapter = 11 /\ (Parses \/ SendsBack)
HandleRead12 == chapter = 12 /\ (Parses \/ PostsToLogic)
HandleRead13 == chapter = 13 /\ (Parses \/ PostsToLogic)
HandleRead14 == chapter = 14 /\ (Parses \/ PostsToLogic)
HandleRead15 == chapter = 15 /\ (Parses \/ PostsToLogic)

-----------------------------------------------------------------------------
(* The worker of the logic layer, which waits for its own Send to end.     *)
(* (Its spurious wakeups and its end are in LogicSystem.)                  *)

\* The handler of Hello sends its answer unless the body is not JSON; of the
\* bodies used here that is the empty one.  Another id has no handler.
Answered(m) == chapter <= 11 \/ (m.id = Hello /\ m.data # <<>>)

Works ==
  /\ sender = "idle"
  /\ UNCHANGED <<readVars, closed, sendVars>>
  /\ L!Loop \/ L!Predicate \/ L!Block \/ L!Acquire \/ L!Check

Answers ==
  /\ worker = "process" /\ sender = "idle"
  /\ UNCHANGED <<readVars, closed>>
  /\ L!Process
  /\ LET m == inHand[1]
     IN IF Answered(posted[m])
          THEN Send12(m) \/ Send13(m) \/ Send14(m) \/ Send15(m)
          ELSE UNCHANGED sendVars

Worker12 == chapter = 12 /\ (Works \/ Answers)
Worker13 == chapter = 13 /\ (Works \/ Answers)
Worker14 == chapter = 14 /\ (Works \/ Answers)
Worker15 == chapter = 15 /\ (Works \/ Answers)

-----------------------------------------------------------------------------
(* Writing.                                                                *)

StartsWrite == S!StartWrite /\ UNCHANGED <<readVars, logicVars>>

\* The kernel.
Writes ==
  /\ UNCHANGED <<readVars, logicVars>>
  /\ \E w \in writes : S!WriteSome(w) \/ S!WriteFails(w)

\* 8 logs an error, and takes the front away without one.
HandleWrite8 ==
  /\ chapter = 8 /\ Free
  /\ UNCHANGED <<readVars, logicVars>>
  /\ \E w \in writes :
       \/ S!HandleWrite(w)
       \/ /\ w.failed
          /\ writes' = writes \ {w}
          /\ UNCHANGED <<send_queue, sender, closed, accepted, dropped, out>>

HandleWrite ==
  /\ Free
  /\ UNCHANGED <<readVars, logicVars>>
  /\ \E w \in writes : S!HandleWrite(w) \/ S!HandleWriteError(w)

HandleWrite9 == chapter = 9 /\ HandleWrite
HandleWrite10 == chapter = 10 /\ HandleWrite
HandleWrite11 == chapter = 11 /\ HandleWrite
HandleWrite12 == chapter = 12 /\ HandleWrite
HandleWrite13 == chapter = 13 /\ HandleWrite
HandleWrite14 == chapter = 14 /\ HandleWrite
HandleWrite15 == chapter = 15 /\ HandleWrite

-----------------------------------------------------------------------------
ReadHandlers ==
  \/ HandleRead8 \/ HandleRead9 \/ HandleRead10 \/ HandleRead11
  \/ HandleRead12 \/ HandleRead13 \/ HandleRead14 \/ HandleRead15
Workers == Worker12 \/ Worker13 \/ Worker14 \/ Worker15
WriteHandlers ==
  \/ HandleWrite8 \/ HandleWrite9 \/ HandleWrite10 \/ HandleWrite11
  \/ HandleWrite12 \/ HandleWrite13 \/ HandleWrite14 \/ HandleWrite15

Runs ==
  (started /\ ReadHandlers) \/ Workers \/ StartsWrite \/ Writes \/ WriteHandlers

\* An exception in a handler of this connection ends all threads of the program.
InProgram == reading # "over" /\ UNCHANGED started

FramedNext == Starts \/ (InProgram /\ Runs)

\* A session that is accepted is started, handlers and the worker run; a write
\* completes or fails, and so does a read of bytes that are there.
FramedFairness ==
  /\ WF_allVars(Starts)
  /\ WF_allVars(started /\ InProgram /\ ReadHandlers /\ reading' # "failed")
  /\ WF_allVars(InProgram /\ Workers)
  /\ WF_allVars(InProgram /\ StartsWrite)
  /\ WF_allVars(InProgram /\ (Writes \/ WriteHandlers))

FramedSpec == FramedInit /\ [][FramedNext]_allVars /\ FramedFairness

-----------------------------------------------------------------------------
(* Properties.                                                             *)

\* What the peer should get of the i-th message it sent: all pieces of its
\* answer, if it has one and no full queue refused it; and of all messages.
Pieced(i) == [p \in 1 .. Pieces |-> <<i, p>>]
Reply(i, m) == IF Answered(m) /\ i \notin dropped THEN Pieced(i) ELSE <<>>
Expected == FlattenSeq([i \in 1 .. Len(sent) |-> Reply(i, sent[i])])

InStep == cur_len = 0 /\ ~overtaken

\* The node of an answer, as the bytes a write takes of it, is a header that
\* says what follows; the body of the message stands for that of its answer.
Readable(m) == N!Sent(N!Node(chapter, m.id, m.data)) = Bytes(m)

\* As long as the stream is read in step the answers reach the peer whole, in
\* the order of its messages and none twice, through the handler or the worker
\* and the queues of both; and a peer that reads them as the server reads its
\* messages finds the same ids, lengths and bodies.
EchoesInOrder ==
  /\ InStep => IsPrefix(out, Expected)
  /\ \A i \in 1 .. Len(posted) : Readable(posted[i])

\* A write of 8 has failed: nothing takes its message from the queue again.
Stuck == chapter = 8 /\ sender = "idle" /\ send_queue # <<>> /\ writes = {}

\* Every message is answered at last, or the connection is over: closed, or
\* refused up to 11, or failed in 8.
EveryMessageEchoed ==
  <>(out = Expected \/ closed \/ reading \in {"refused", "failed"} \/ Stuck \/ ~InStep)
=============================================================================
