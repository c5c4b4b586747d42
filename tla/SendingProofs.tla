--------------------------- MODULE SendingProofs ---------------------------
(***************************************************************************)
(* Proofs about what the servers send.  The sending half of a session      *)
(* (SendQueue), for every set of messages, every cut of the writes and     *)
(* every length of the queue: there is never a second writer, the front of *)
(* the queue is what is being written, no message of an open session is    *)
(* left to nobody, and what reaches the wire is the stream of the accepted *)
(* messages.  The nodes (MsgNodes), for every message: what is written of  *)
(* one is its message.  The two web servers (MyStore), for every form and  *)
(* every cut of the stream: their replies, and the values shown, are true. *)
(***************************************************************************)
EXTENDS SendQueue, MsgNodes, MyStore, SequenceLemmas

\* A Send about to start a write has a message to start it on.
SenderInv == sender = "start" => send_queue # <<>>

IInv ==
  /\ Sized
  /\ SqTypeOK
  /\ SenderInv
  /\ OneWriter
  /\ FrontIsWritten
  /\ NothingStranded

USE DEF AsyncWrite, Sized

LEMMA InitInv ==
  ASSUME Sized, SqInit
  PROVE  IInv
<1>1. /\ send_queue = <<>> /\ accepted = <<>> /\ wire = <<>>
      /\ Len(<<>>) = 0 /\ 0 <= MaxLen
  BY EmptySeq DEF SqInit
<1>2. /\ <<>> \in Seq(Messages) /\ <<>> \in Seq(Messages \X (1 .. Pieces))
      /\ writes \subseteq AsyncWrite /\ dropped \subseteq Messages
      /\ sender \in {"idle", "start"} /\ closed \in BOOLEAN
  BY EmptySeq DEF SqInit
<1>3. SqTypeOK
  BY <1>1, <1>2 DEF SqTypeOK
<1> QED
  BY <1>3 DEF SqInit, IInv, SenderInv, OneWriter, FrontIsWritten, NothingStranded

LEMMA PushInv ==
  ASSUME IInv, NEW m \in Messages, PushNode(m)
  PROVE  IInv'
<1>1. /\ send_queue \in Seq(Messages) /\ accepted \in Seq(Messages)
      /\ Len(send_queue) < MaxLen /\ MaxLen \in Nat
  BY DEF IInv, SqTypeOK, PushNode
<1>2. /\ send_queue' \in Seq(Messages) /\ accepted' \in Seq(Messages)
      /\ Len(send_queue') = Len(send_queue) + 1
      /\ send_queue' # <<>>
      /\ send_queue # <<>> => Head(send_queue') = Head(send_queue)
  BY <1>1, AppendProperties DEF PushNode
<1>3. Len(send_queue') <= MaxLen
  BY <1>1, <1>2, LenProperties
<1>4. /\ sender = "idle" /\ sender' \in {"idle", "start"}
      /\ sender' = "start" <=> send_queue = <<>>
      /\ UNCHANGED <<writes, closed, dropped, wire>>
  BY DEF PushNode
<1>5. SqTypeOK'
  BY <1>2, <1>3, <1>4 DEF IInv, SqTypeOK
<1>6. OneWriter'
  BY <1>4 DEF IInv, OneWriter, FrontIsWritten
<1>7. FrontIsWritten'
  BY <1>2, <1>4 DEF IInv, FrontIsWritten
<1>8. NothingStranded'
  BY <1>4 DEF IInv, NothingStranded
<1> QED
  BY <1>2, <1>5, <1>6, <1>7, <1>8 DEF IInv, SenderInv

LEMMA StartWriteInv ==
  ASSUME IInv, StartWrite
  PROVE  IInv'
<1>1. /\ send_queue \in Seq(Messages) /\ send_queue # <<>> /\ writes = {}
      /\ Pieces \in Nat
  BY DEF IInv, SqTypeOK, StartWrite, SenderInv, OneWriter
<1>2. Head(send_queue) \in Messages
  BY <1>1, HeadTailProperties
<1>3. /\ writes' = {Begin(send_queue)} /\ sender' = "idle"
      /\ UNCHANGED <<send_queue, closed, accepted, dropped, wire>>
  BY <1>1 DEF StartWrite
<1>4. Begin(send_queue) \in AsyncWrite /\ Begin(send_queue).msg = Head(send_queue)
  BY <1>1, <1>2 DEF Begin
<1>5. SqTypeOK'
  BY <1>3, <1>4 DEF IInv, SqTypeOK
<1> QED
  BY <1>1, <1>3, <1>4, <1>5 DEF IInv, SenderInv, OneWriter, FrontIsWritten, NothingStranded

\* A write that advances or fails stays the only one, on the same message.
LEMMA ProgressInv ==
  ASSUME IInv, NEW w \in writes, WriteSome(w) \/ WriteFails(w)
  PROVE  IInv'
<1>1. /\ w \in AsyncWrite /\ writes = {w} /\ sender # "start"
      /\ send_queue # <<>> /\ w.msg = Head(send_queue) /\ wire \in Seq(Messages \X (1 .. Pieces))
      /\ Pieces \in Nat
  BY DEF IInv, SqTypeOK, OneWriter, FrontIsWritten
<1>2. PICK v \in AsyncWrite : writes' = {v} /\ v.msg = w.msg
  <2>1. CASE WriteSome(w)
    <3> DEFINE v == [w EXCEPT !.sent = @ + 1]
    <3>1. w.sent + 1 \in 0 .. Pieces
      BY <1>1, <2>1 DEF WriteSome
    <3>2. v \in AsyncWrite /\ v.msg = w.msg
      BY <1>1, <3>1
    <3>3. writes' = {v}
      BY <1>1, <2>1 DEF WriteSome
    <3> QED
      BY <3>2, <3>3
  <2>2. CASE WriteFails(w)
    <3> DEFINE v == [w EXCEPT !.failed = TRUE]
    <3>1. v \in AsyncWrite /\ v.msg = w.msg
      BY <1>1
    <3>2. writes' = {v}
      BY <1>1, <2>2 DEF WriteFails
    <3> QED
      BY <3>1, <3>2
  <2> QED
    BY <2>1, <2>2
<1>3. wire' \in Seq(Messages \X (1 .. Pieces))
  <2>1. CASE WriteSome(w)
    <3>1. <<w.msg, w.sent + 1>> \in Messages \X (1 .. Pieces)
      BY <1>1, <2>1 DEF WriteSome
    <3> QED
      BY <1>1, <2>1, <3>1, AppendProperties DEF WriteSome
  <2>2. CASE WriteFails(w)
    BY <1>1, <2>2 DEF WriteFails
  <2> QED
    BY <2>1, <2>2
<1>4. UNCHANGED <<send_queue, sender, closed, accepted, dropped>>
  BY DEF WriteSome, WriteFails
<1>5. SqTypeOK'
  BY <1>2, <1>3, <1>4 DEF IInv, SqTypeOK
<1> QED
  BY <1>1, <1>2, <1>4, <1>5 DEF IInv, SenderInv, OneWriter, FrontIsWritten, NothingStranded

LEMMA HandleWriteInv ==
  ASSUME IInv, NEW w \in writes, HandleWrite(w)
  PROVE  IInv'
<1>1. /\ writes = {w} /\ sender = "idle"
      /\ send_queue \in Seq(Messages) /\ send_queue # <<>> /\ Len(send_queue) <= MaxLen
      /\ Pieces \in Nat /\ MaxLen \in Nat
  BY DEF IInv, SqTypeOK, OneWriter, FrontIsWritten
<1>2. /\ send_queue' \in Seq(Messages)
      /\ Len(send_queue') = Len(send_queue) - 1
  BY <1>1, HeadTailProperties DEF HandleWrite
<1>3. Len(send_queue') <= MaxLen
  BY <1>1, <1>2, LenProperties
<1>4. UNCHANGED <<sender, closed, accepted, dropped, wire>>
  BY DEF HandleWrite
<1>5. CASE send_queue' = <<>>
  <2>1. writes' = {}
    BY <1>1, <1>5 DEF HandleWrite
  <2>2. SqTypeOK'
    BY <1>2, <1>3, <1>4, <2>1 DEF IInv, SqTypeOK
  <2> QED
    BY <1>1, <1>4, <1>5, <2>1, <2>2 DEF IInv, SenderInv, OneWriter, FrontIsWritten, NothingStranded
<1>6. CASE send_queue' # <<>>
  <2>1. writes' = {Begin(send_queue')}
    BY <1>1, <1>6 DEF HandleWrite
  <2>2. Head(send_queue') \in Messages
    BY <1>2, <1>6, HeadTailProperties
  <2>3. Begin(send_queue') \in AsyncWrite /\ Begin(send_queue').msg = Head(send_queue')
    BY <1>1, <2>2 DEF Begin
  <2>4. SqTypeOK'
    BY <1>2, <1>3, <1>4, <2>1, <2>3 DEF IInv, SqTypeOK
  <2> QED
    BY <1>1, <1>4, <1>6, <2>1, <2>3, <2>4 DEF IInv, SenderInv, OneWriter, FrontIsWritten, NothingStranded
<1> QED
  BY <1>5, <1>6

\* A failed write, a Close and a refusal take no message away.
LEMMA OtherInv ==
  ASSUME IInv,
         \/ CloseElsewhere
         \/ \E w \in writes : HandleWriteError(w)
         \/ \E m \in Messages : RefuseNode(m)
         \/ UNCHANGED sqVars
  PROVE  IInv'
<1>1. /\ UNCHANGED <<send_queue, sender, accepted, wire>>
      /\ writes' \subseteq writes
      /\ closed' \in BOOLEAN
      /\ closed => closed'
      /\ writes' = writes \/ closed'
      /\ dropped' \subseteq Messages
  BY DEF IInv, SqTypeOK, CloseElsewhere, HandleWriteError, RefuseNode, sqVars
<1>2. SqTypeOK'
  BY <1>1 DEF IInv, SqTypeOK
<1> QED
  BY <1>1, <1>2 DEF IInv, SenderInv, OneWriter, FrontIsWritten, NothingStranded

\* The inductive invariant holds in every behaviour of the sending half.
THEOREM Invariance == ASSUME Sized PROVE SqSpec => []IInv
<1>1. IInv /\ [SqNext]_sqVars => IInv'
  <2> SUFFICES ASSUME IInv, [SqNext]_sqVars PROVE IInv'
    OBVIOUS
  <2>1. CASE \E m \in Messages : PushNode(m)
    BY <2>1, PushInv
  <2>2. CASE StartWrite
    BY <2>2, StartWriteInv
  <2>3. CASE \E w \in writes : WriteSome(w) \/ WriteFails(w)
    BY <2>3, ProgressInv
  <2>4. CASE \E w \in writes : HandleWrite(w)
    BY <2>4, HandleWriteInv
  <2> QED
    BY <2>1, <2>2, <2>3, <2>4, OtherInv DEF SqNext, Io
<1>2. SqInit => IInv
  BY InitInv
<1> QED
  BY <1>1, <1>2, PTL DEF SqSpec

\* The queue and its writes keep their types, and the queue its limit.
THEOREM TypeCorrect == ASSUME Sized PROVE SqSpec => []SqTypeOK
<1>1. IInv => SqTypeOK
  BY DEF IInv
<1>2. SqSpec => []IInv
  BY Invariance
<1> QED
  BY <1>1, <1>2, PTL

\* No second write is ever started on the socket (lines 61-66, 210-218).
THEOREM WritesAreExclusive == ASSUME Sized PROVE SqSpec => []OneWriter
<1>1. IInv => OneWriter
  BY DEF IInv
<1>2. SqSpec => []IInv
  BY Invariance
<1> QED
  BY <1>1, <1>2, PTL

\* Send and handle_write leave no message of an open session to nobody.
THEOREM NoneStranded == ASSUME Sized PROVE SqSpec => []NothingStranded
<1>1. IInv => NothingStranded
  BY DEF IInv
<1>2. SqSpec => []IInv
  BY Invariance
<1> QED
  BY <1>1, <1>2, PTL

(***************************************************************************)
(* The wire carries the accepted messages one after the other.             *)
(***************************************************************************)

\* How many messages have been written and taken from the queue.
Done == Len(accepted) - Len(send_queue)

\* The queue is the end of the accepted messages; the wire of an open session
\* holds the pieces of those before it and what the write has sent of the front.
StreamInv ==
  /\ Len(send_queue) <= Len(accepted)
  /\ \A i \in 1 .. Len(send_queue) : send_queue[i] = accepted[Done + i]
  /\ ~closed =>
       /\ \A w \in writes : Len(wire) = Pieces * Done + w.sent
       /\ writes = {} => Len(wire) = Pieces * Done

\* The pieces of one message and of the next do not overlap.
LEMMA Multiples ==
  ASSUME Pieces \in Nat \ {0}, NEW q \in Nat, NEW r \in Nat, q < r
  PROVE  Pieces * q + Pieces <= Pieces * r
<1>1. Pieces \in Nat /\ r - q - 1 \in Nat /\ r = q + 1 + (r - q - 1)
  OBVIOUS
<1>2. Pieces * (q + 1 + (r - q - 1)) = Pieces * q + Pieces + Pieces * (r - q - 1)
  BY <1>1
<1>3. Pieces * (r - q - 1) \in Nat /\ Pieces * q \in Nat
  BY <1>1
<1> QED
  BY <1>1, <1>2, <1>3

LEMMA PieceOfMessage ==
  ASSUME Pieces \in Nat \ {0}, NEW q \in Nat, NEW s \in Nat, s < Pieces
  PROVE  (Pieces * q + s) \div Pieces = q /\ (Pieces * q + s) % Pieces = s
<1> DEFINE k == Pieces * q + s
           d == k \div Pieces
           r == k % Pieces
<1>1. Pieces \in Nat \ {0} /\ Pieces * q \in Nat /\ k \in Nat
  OBVIOUS
<1>2. d \in Nat /\ r \in Nat /\ r < Pieces
  BY <1>1
<1>3. k = Pieces * d + r /\ Pieces * d \in Nat
  BY <1>1, <1>2
<1> HIDE DEF d, r
<1>4. CASE d = q
  <2>1. Pieces * d = Pieces * q
    BY <1>4
  <2> QED
    BY <1>1, <1>2, <1>3, <1>4, <2>1 DEF d, r
<1>5. CASE d < q
  BY <1>1, <1>2, <1>3, <1>5, Multiples
<1>6. CASE q < d
  BY <1>1, <1>2, <1>3, <1>6, Multiples
<1> QED
  BY <1>2, <1>4, <1>5, <1>6

LEMMA InitStream ==
  ASSUME Sized, SqInit
  PROVE  StreamInv
<1>1. /\ Len(send_queue) = 0 /\ Len(accepted) = 0 /\ Len(wire) = 0 /\ writes = {}
      /\ Pieces \in Nat
  BY EmptySeq DEF SqInit
<1> QED
  BY <1>1 DEF StreamInv, Done

\* What the types say about the lengths and the message at the front.
LEMMA Lengths ==
  ASSUME IInv, StreamInv
  PROVE  /\ send_queue \in Seq(Messages) /\ Len(send_queue) \in Nat
         /\ accepted \in Seq(Messages) /\ Len(accepted) \in Nat
         /\ wire \in Seq(Messages \X (1 .. Pieces)) /\ Len(wire) \in Nat
         /\ Pieces \in Nat \ {0} /\ Done \in Nat
         /\ Len(send_queue) + Done = Len(accepted)
         /\ \A w \in writes : w.sent \in 0 .. Pieces
<1>1. /\ send_queue \in Seq(Messages) /\ accepted \in Seq(Messages)
      /\ wire \in Seq(Messages \X (1 .. Pieces)) /\ Pieces \in Nat \ {0}
      /\ \A w \in writes : w.sent \in 0 .. Pieces
  BY DEF IInv, SqTypeOK
<1>2. Len(send_queue) \in Nat /\ Len(accepted) \in Nat /\ Len(wire) \in Nat
  BY <1>1, LenProperties
<1> QED
  BY <1>1, <1>2 DEF StreamInv, Done

LEMMA PushStream ==
  ASSUME IInv, StreamInv, NEW m \in Messages, PushNode(m)
  PROVE  StreamInv'
<1>1. /\ Len(send_queue') = Len(send_queue) + 1
      /\ Len(accepted') = Len(accepted) + 1
      /\ \A i \in 1 .. Len(send_queue) : send_queue'[i] = send_queue[i]
      /\ \A i \in 1 .. Len(accepted) : accepted'[i] = accepted[i]
      /\ send_queue'[Len(send_queue) + 1] = m
      /\ accepted'[Len(accepted) + 1] = m
      /\ UNCHANGED <<writes, closed, wire>>
  BY Lengths, AppendProperties DEF PushNode
<1>2. Done' = Done
  BY <1>1, Lengths DEF Done
<1>3. \A i \in 1 .. Len(send_queue') : send_queue'[i] = accepted'[Done' + i]
  <2> SUFFICES ASSUME NEW i \in 1 .. Len(send_queue')
               PROVE  send_queue'[i] = accepted'[Done + i]
    BY <1>2
  <2>1. CASE i \in 1 .. Len(send_queue)
    <3>1. Done + i \in 1 .. Len(accepted)
      BY <2>1, Lengths
    <3> QED
      BY <1>1, <2>1, <3>1 DEF StreamInv
  <2>2. CASE i = Len(send_queue) + 1
    <3>1. Done + i = Len(accepted) + 1
      BY <2>2, Lengths
    <3> QED
      BY <1>1, <2>2, <3>1
  <2> QED
    BY <1>1, <2>1, <2>2, Lengths
<1>4. Len(send_queue') <= Len(accepted')
  BY <1>1, Lengths DEF StreamInv
<1> QED
  BY <1>1, <1>2, <1>3, <1>4 DEF StreamInv

LEMMA StartWriteStream ==
  ASSUME IInv, StreamInv, StartWrite
  PROVE  StreamInv'
<1>1. /\ writes = {} /\ writes' = {Begin(send_queue)} /\ Begin(send_queue).sent = 0
      /\ UNCHANGED <<send_queue, closed, accepted, wire>>
  BY DEF IInv, OneWriter, StartWrite, Begin
<1>2. Pieces * Done \in Nat
  BY Lengths
<1> QED
  BY <1>1, <1>2 DEF StreamInv, Done

LEMMA WriteSomeStream ==
  ASSUME IInv, StreamInv, NEW w \in writes, WriteSome(w)
  PROVE  StreamInv'
<1>1. /\ writes = {w} /\ w \in AsyncWrite /\ ~closed
      /\ writes' = {[w EXCEPT !.sent = @ + 1]}
      /\ UNCHANGED <<send_queue, closed, accepted>>
  BY DEF IInv, SqTypeOK, OneWriter, WriteSome
<1>2. [w EXCEPT !.sent = @ + 1].sent = w.sent + 1 /\ w.sent \in Nat
  BY <1>1, Lengths
<1>3. Len(wire') = Len(wire) + 1
  <2>1. <<w.msg, w.sent + 1>> \in Messages \X (1 .. Pieces)
    <3>1. w.msg \in Messages /\ w.sent \in 0 .. Pieces
      BY <1>1
    <3>2. w.sent < Pieces /\ Pieces \in Nat \ {0}
      BY Lengths DEF WriteSome
    <3>3. w.sent + 1 \in 1 .. Pieces
      BY <3>1, <3>2
    <3> QED
      BY <3>1, <3>3
  <2>2. wire' = Append(wire, <<w.msg, w.sent + 1>>)
    BY DEF WriteSome
  <2>3. wire \in Seq(Messages \X (1 .. Pieces))
    BY Lengths
  <2> QED
    BY <2>1, <2>2, <2>3, AppendProperties
<1>4. Len(wire) = Pieces * Done + w.sent
  BY <1>1 DEF StreamInv
<1>5. Pieces * Done \in Nat
  BY Lengths
<1>6. Done' = Done
  BY <1>1 DEF Done
<1>7. Len(wire') = Pieces * Done' + (w.sent + 1)
  BY <1>2, <1>3, <1>4, <1>5, <1>6
<1> QED
  BY <1>1, <1>2, <1>6, <1>7 DEF StreamInv

LEMMA HandleWriteStream ==
  ASSUME IInv, StreamInv, NEW w \in writes, HandleWrite(w)
  PROVE  StreamInv'
<1>1. /\ writes = {w} /\ send_queue # <<>> /\ w.sent = Pieces
      /\ send_queue' = Tail(send_queue)
      /\ UNCHANGED <<closed, accepted, wire>>
      /\ writes' = IF send_queue' = <<>> THEN {} ELSE {Begin(send_queue')}
  BY DEF IInv, OneWriter, FrontIsWritten, HandleWrite
<1>2. /\ Len(send_queue') = Len(send_queue) - 1
      /\ \A i \in 1 .. Len(send_queue') : send_queue'[i] = send_queue[i + 1]
  BY <1>1, Lengths, HeadTailProperties
<1>3. Done' = Done + 1 /\ Len(send_queue') <= Len(accepted')
  BY <1>1, <1>2, Lengths DEF Done
<1>4. \A i \in 1 .. Len(send_queue') : send_queue'[i] = accepted'[Done' + i]
  <2> SUFFICES ASSUME NEW i \in 1 .. Len(send_queue')
               PROVE  send_queue'[i] = accepted[Done + 1 + i]
    BY <1>1, <1>3
  <2>1. i + 1 \in 1 .. Len(send_queue) /\ Done + (i + 1) = Done + 1 + i
    BY <1>2, Lengths
  <2> QED
    BY <1>2, <2>1 DEF StreamInv
<1>5. Pieces * Done' = Pieces * Done + Pieces
  BY <1>3, Lengths
<1>6. ~closed => Len(wire) = Pieces * Done + Pieces
  BY <1>1 DEF StreamInv
<1>7. \A v \in writes' : v.sent = 0
  BY <1>1 DEF Begin
<1>8. Pieces * Done' \in Nat
  BY <1>3, Lengths
<1> QED
  BY <1>1, <1>3, <1>4, <1>5, <1>6, <1>7, <1>8 DEF StreamInv

\* The other steps leave the queue and the wire, or close the session.
LEMMA OtherStream ==
  ASSUME IInv, StreamInv,
         \/ CloseElsewhere
         \/ \E w \in writes : WriteFails(w) \/ HandleWriteError(w)
         \/ \E m \in Messages : RefuseNode(m)
         \/ UNCHANGED sqVars
  PROVE  StreamInv'
<1>1. UNCHANGED <<send_queue, accepted, wire>>
  BY DEF CloseElsewhere, WriteFails, HandleWriteError, RefuseNode, sqVars
<1>2. Done' = Done
  BY <1>1 DEF Done
<1>3. CASE \E w \in writes : WriteFails(w)
  <2>1. PICK w \in writes : WriteFails(w)
    BY <1>3
  <2>2. /\ writes = {w} /\ w \in AsyncWrite
        /\ writes' = {[w EXCEPT !.failed = TRUE]} /\ closed' = closed
    BY <2>1 DEF IInv, SqTypeOK, OneWriter, WriteFails
  <2>3. [w EXCEPT !.failed = TRUE].sent = w.sent
    BY <2>2
  <2> QED
    BY <1>1, <1>2, <2>2, <2>3 DEF StreamInv
<1>4. CASE ~ \E w \in writes : WriteFails(w)
  <2>1. UNCHANGED <<writes, closed>> \/ closed'
    BY <1>4 DEF CloseElsewhere, HandleWriteError, RefuseNode, sqVars
  <2> QED
    BY <1>1, <1>2, <2>1 DEF StreamInv
<1> QED
  BY <1>3, <1>4

\* A part of a write that reaches the wire is the next piece of the stream.
LEMMA WriteSomeTransmits ==
  ASSUME IInv, StreamInv, NEW w \in writes, WriteSome(w)
  PROVE  Stream!Transmit
<1>1. /\ w \in AsyncWrite /\ ~closed /\ send_queue # <<>> /\ w.msg = Head(send_queue)
      /\ w.sent < Pieces /\ w.sent \in Nat
      /\ wire' = Append(wire, <<w.msg, w.sent + 1>>) /\ accepted' = accepted
  BY Lengths DEF IInv, SqTypeOK, FrontIsWritten, WriteSome
<1>2. Len(wire) = Pieces * Done + w.sent /\ Pieces * Done \in Nat
  BY <1>1, Lengths, SMTT(30) DEF StreamInv
<1>3. 1 \in 1 .. Len(send_queue) /\ Done < Len(accepted)
  BY <1>1, Lengths, EmptySeq
<1>4. Len(wire) < Pieces * Len(accepted)
  <2>1. Pieces * Done + Pieces <= Pieces * Len(accepted)
    BY <1>3, Lengths, Multiples
  <2> DEFINE a == Pieces * Done
             b == Pieces * Len(accepted)
  <2>2. a \in Nat /\ b \in Nat /\ Pieces \in Nat
    BY Lengths
  <2>3. Len(wire) = a + w.sent /\ a + Pieces <= b
    BY <1>2, <2>1
  <2> HIDE DEF a, b
  <2>4. Len(wire) < b
    BY <1>1, <2>2, <2>3
  <2> QED
    BY <2>4 DEF b
<1>5. w.msg = accepted[Done + 1]
  BY <1>1, <1>3 DEF StreamInv
<1>6. /\ (Len(wire) + 1 - 1) \div Pieces = Done
      /\ (Len(wire) + 1 - 1) % Pieces = w.sent
  <2>1. Len(wire) + 1 - 1 = Pieces * Done + w.sent
    BY <1>2, Lengths
  <2> QED
    BY <1>1, <2>1, Lengths, PieceOfMessage
<1>7. Stream!Piece(Len(wire) + 1) = <<w.msg, w.sent + 1>>
  BY <1>5, <1>6 DEF Stream!Piece
<1> QED
  BY <1>1, <1>4, <1>7 DEF Stream!Transmit

\* Whatever the cut of the writes and whenever they fail or the session closes,
\* the wire holds a prefix of the accepted messages, whole, in order and none
\* twice (Session.cc 47-71, 207-225).
THEOREM WireIsStream == ASSUME Sized PROVE SqSpec => ImplementsStream
<1>1. SqInit => Stream!Init
  BY DEF SqInit, Stream!Init
<1>2. IInv /\ StreamInv /\ [SqNext]_sqVars => StreamInv'
  <2> SUFFICES ASSUME IInv, StreamInv, [SqNext]_sqVars PROVE StreamInv'
    OBVIOUS
  <2>1. CASE \E m \in Messages : PushNode(m)
    BY <2>1, PushStream
  <2>2. CASE StartWrite
    BY <2>2, StartWriteStream
  <2>3. CASE \E w \in writes : WriteSome(w)
    BY <2>3, WriteSomeStream
  <2>4. CASE \E w \in writes : HandleWrite(w)
    BY <2>4, HandleWriteStream
  <2> QED
    BY <2>1, <2>2, <2>3, <2>4, OtherStream DEF SqNext, Io
<1>3. IInv /\ StreamInv /\ [SqNext]_sqVars => [Stream!Next]_Stream!vars
  <2> SUFFICES ASSUME IInv, StreamInv, [SqNext]_sqVars PROVE [Stream!Next]_Stream!vars
    OBVIOUS
  <2>1. CASE \E m \in Messages : PushNode(m)
    BY <2>1 DEF PushNode, Stream!Next, Stream!Accept
  <2>2. CASE \E w \in writes : WriteSome(w)
    BY <2>2, WriteSomeTransmits DEF Stream!Next
  <2>3. CASE \/ StartWrite
             \/ \E w \in writes : WriteFails(w) \/ HandleWrite(w) \/ HandleWriteError(w)
             \/ \E m \in Messages : RefuseNode(m)
             \/ CloseElsewhere
             \/ UNCHANGED sqVars
    BY <2>3 DEF StartWrite, WriteFails, HandleWrite, HandleWriteError, RefuseNode,
                CloseElsewhere, sqVars, Stream!vars
  <2> QED
    BY <2>1, <2>2, <2>3 DEF SqNext, Io
<1>4. SqInit => StreamInv
  BY InitStream
<1>5. SqSpec => []IInv
  BY Invariance
<1> QED
  BY <1>1, <1>2, <1>3, <1>4, <1>5, PTL DEF SqSpec, ImplementsStream, Stream!Spec

-----------------------------------------------------------------------------
(* The nodes.                                                              *)

\* The buffer of n bytes in which bytes lie over those of another, from a place on.
Overlaid(new, n, buffer, place, bytes) ==
  /\ new \in [1 .. n -> Int]
  /\ \A i \in 1 .. n :
       new[i] = IF place < i /\ i <= place + Len(bytes) THEN bytes[i - place] ELSE buffer[i]

LEMMA CopiedIs ==
  ASSUME NEW n, NEW buffer, NEW place, NEW bytes,
         n \in Nat, buffer \in [1 .. n -> Int], place \in Nat, bytes \in Seq(Int),
         place + Len(bytes) <= n
  PROVE  Overlaid(Copied(buffer, place, bytes), n, buffer, place, bytes)
<1> DEFINE new == Copied(buffer, place, bytes)
<1>1. Len(bytes) \in Nat /\ \A j \in 1 .. Len(bytes) : bytes[j] \in Int
  OBVIOUS
<1>2. new = [i \in 1 .. n |->
        IF i - place \in 1 .. Len(bytes) THEN bytes[i - place] ELSE buffer[i]]
  BY DEF Copied
<1>3. \A i \in 1 .. n :
        i - place \in 1 .. Len(bytes) <=> place < i /\ i <= place + Len(bytes)
  BY <1>1
<1>4. \A i \in 1 .. n : buffer[i] \in Int
  OBVIOUS
<1> HIDE DEF new
<1>5. \A i \in 1 .. n :
        new[i] = IF i - place \in 1 .. Len(bytes) THEN bytes[i - place] ELSE buffer[i]
  BY <1>2
<1>6. \A i \in 1 .. n : new[i] \in Int
  BY <1>1, <1>4, <1>5
<1>7. new \in [1 .. n -> Int]
  BY <1>2, <1>6
<1> QED
  BY <1>3, <1>5, <1>7 DEF new, Overlaid

LEMMA ZeroedIs ==
  ASSUME NEW n \in Nat
  PROVE  Zeroed(n) \in [1 .. n -> Int]
BY DEF Zeroed

\* What is sent of a buffer that holds s at its beginning.
Holds(node, buffer, n, m, s) ==
  /\ node.data = buffer /\ node.cur = 0 /\ node.len = m
  /\ n \in Nat /\ m \in 0 .. n /\ buffer \in [1 .. n -> Int]
  /\ s \in Seq(Int) /\ Len(s) = m /\ \A i \in 1 .. m : buffer[i] = s[i]

LEMMA SentOf ==
  ASSUME NEW node, NEW buffer, NEW n, NEW m, NEW s, Holds(node, buffer, n, m, s)
  PROVE  Sent(node) = s
<1> USE DEF Holds
<1>1. Sent(node) = SubSeq(buffer, 1, m)
  <2>1. node.cur + 1 = 1
    OBVIOUS
  <2> QED
    BY <2>1, Zenon DEF Sent
<1>2. \A i \in 1 .. m : buffer[i] \in Int
  OBVIOUS
<1>3. /\ SubSeq(buffer, 1, m) \in Seq(Int) /\ Len(SubSeq(buffer, 1, m)) = m
      /\ \A i \in 1 .. m : SubSeq(buffer, 1, m)[i] = buffer[i]
  BY <1>2, SubSeqProperties
<1> QED
  BY <1>1, <1>3, SeqEqual

LEMMA PlainNodeHolds ==
  ASSUME NEW bytes \in Seq(Int)
  PROVE  /\ Sent(Node(4, 0, bytes)) = bytes
         /\ Sent(Node(7, 0, bytes)) = bytes
<1> DEFINE n == Len(bytes)
           buffer == Copied(Zeroed(n), 0, bytes)
           node == [id |-> -1, len |-> n, cur |-> 0, data |-> buffer]
<1>1. n \in Nat
  OBVIOUS
<1>2. buffer \in [1 .. n -> Int] /\ \A i \in 1 .. n : buffer[i] = bytes[i]
  <2>1. n \in Nat /\ 0 \in Nat /\ 0 + Len(bytes) <= n /\ Zeroed(n) \in [1 .. n -> Int]
    BY <1>1, ZeroedIs
  <2>2. Overlaid(buffer, n, Zeroed(n), 0, bytes)
    BY <2>1, CopiedIs, Zenon
  <2>3. \A i \in 1 .. n : 0 < i /\ i <= 0 + Len(bytes) /\ i - 0 = i
    BY <1>1
  <2> HIDE DEF buffer
  <2> QED
    BY <2>2, <2>3 DEF Overlaid
<1>3. Node(4, 0, bytes) = node /\ Node(7, 0, bytes) = node
  BY DEF Node, MsgNode4, MsgNode7
<1>4. node.data = buffer /\ node.cur = 0 /\ node.len = n
  OBVIOUS
<1> HIDE DEF buffer, node
<1>5. Sent(node) = bytes
  <2>1. n \in 0 .. n /\ Len(bytes) = n
    BY <1>1
  <2>2. Holds(node, buffer, n, n, bytes)
    BY <1>1, <1>2, <1>4, <2>1, Zenon DEF Holds
  <2> QED
    BY <2>2, SentOf, Zenon
<1> QED
  BY <1>3, <1>5

\* The order of the wire, and the header of a message.
LEMMA NetShortIs ==
  ASSUME NEW x \in Nat
  PROVE  /\ NetShort(x) \in Seq(Int) /\ Len(NetShort(x)) = 2
         /\ NetShort(x)[1] = x \div 256 /\ NetShort(x)[2] = x % 256
BY DEF NetShort

\* The header of a message of n bytes, as it is on the wire.
HeadOf(ident, n) == <<ident \div 256, ident % 256, n \div 256, n % 256>>

LEMMA HeadedNodeHolds ==
  ASSUME NEW bytes \in Seq(Int), NEW ident \in Nat
  PROVE  Sent(SendNode(ident, bytes)) = HeadOf(ident, Len(bytes)) \o bytes
<1> DEFINE n == Len(bytes)
           m == n + 4
           ids == NetShort(ident)
           lens == NetShort(n)
           first == Copied(Zeroed(m + 1), 0, ids)
           second == Copied(first, 2, lens)
           buffer == Copied(second, 4, bytes)
           node == [id |-> ident, len |-> m, cur |-> 0, data |-> buffer]
           head == <<ident \div 256, ident % 256, n \div 256, n % 256>>
<1>1. n \in Nat /\ m \in Nat /\ m + 1 \in Nat /\ m = n + 4
  OBVIOUS
<1>2. SendNode(ident, bytes) = node
  <2> DEFINE empty == RecvNode(ident, m)
  <2>2. empty = [id |-> ident, len |-> m, cur |-> 0, data |-> Zeroed(m + 1)]
    BY DEF RecvNode, Empty
  <2>3. buffer = Copied(Copied(Copied(empty.data, 0, ids), 2, lens), 4, bytes)
    <3>1. empty.data = Zeroed(m + 1)
      BY <2>2
    <3> HIDE DEF empty
    <3> QED
      BY <3>1
  <2>4. SendNode(ident, bytes) = [empty EXCEPT !.data = buffer]
    BY <2>3, Zenon DEF SendNode, Holding, MSG_TYPE_LENGTH, MSG_HEAD_TOTAL_LEN
  <2> HIDE DEF empty, buffer, m
  <2> QED
    BY <2>2, <2>4
<1>3. node.data = buffer /\ node.cur = 0 /\ node.len = m
  OBVIOUS
<1>4. /\ ids \in Seq(Int) /\ Len(ids) = 2
      /\ ids[1] = ident \div 256 /\ ids[2] = ident % 256
      /\ lens \in Seq(Int) /\ Len(lens) = 2
      /\ lens[1] = n \div 256 /\ lens[2] = n % 256
  <2>1. /\ ids \in Seq(Int) /\ Len(ids) = 2
        /\ ids[1] = ident \div 256 /\ ids[2] = ident % 256
    BY NetShortIs, ZenonT(40)
  <2> HIDE DEF n
  <2>2. /\ lens \in Seq(Int) /\ Len(lens) = 2
        /\ lens[1] = n \div 256 /\ lens[2] = n % 256
    BY <1>1, NetShortIs, ZenonT(40)
  <2> QED
    BY <2>1, <2>2, Zenon
<1>5. /\ head \in Seq(Int) /\ Len(head) = 4
      /\ head[1] = ids[1] /\ head[2] = ids[2] /\ head[3] = lens[1] /\ head[4] = lens[2]
  <2>1. ident \div 256 \in Int /\ ident % 256 \in Int /\ n \div 256 \in Int /\ n % 256 \in Int
    BY <1>1
  <2> QED
    BY <1>4, <2>1
<1> HIDE DEF n, m, ids, lens, node, head
<1>6. /\ first \in [1 .. m + 1 -> Int]
      /\ \A i \in 1 .. m + 1 : first[i] =
           IF 0 < i /\ i <= 0 + 2 THEN ids[i - 0] ELSE Zeroed(m + 1)[i]
  <2>1. m + 1 \in Nat /\ 0 \in Nat /\ 0 + Len(ids) <= m + 1 /\ ids \in Seq(Int)
    BY <1>1, <1>4
  <2>2. Zeroed(m + 1) \in [1 .. m + 1 -> Int]
    BY <1>1, ZeroedIs
  <2>3. Overlaid(first, m + 1, Zeroed(m + 1), 0, ids)
    BY <2>1, <2>2, CopiedIs, Zenon
  <2>4. Len(ids) = 2
    BY <1>4
  <2> QED
    BY <2>3, <2>4, Zenon DEF Overlaid
<1> HIDE DEF first
<1>7. /\ second \in [1 .. m + 1 -> Int]
      /\ \A i \in 1 .. m + 1 : second[i] =
           IF 2 < i /\ i <= 2 + 2 THEN lens[i - 2] ELSE first[i]
  <2>1. m + 1 \in Nat /\ 2 \in Nat /\ 2 + Len(lens) <= m + 1 /\ lens \in Seq(Int)
    BY <1>1, <1>4
  <2>2. first \in [1 .. m + 1 -> Int]
    BY <1>6
  <2>3. Overlaid(second, m + 1, first, 2, lens)
    BY <2>1, <2>2, CopiedIs, Zenon
  <2>4. Len(lens) = 2
    BY <1>4
  <2> QED
    BY <2>3, <2>4, Zenon DEF Overlaid
<1> HIDE DEF second
<1>8. /\ buffer \in [1 .. m + 1 -> Int]
      /\ \A i \in 1 .. m + 1 : buffer[i] =
           IF 4 < i /\ i <= 4 + n THEN bytes[i - 4] ELSE second[i]
  <2>1. m + 1 \in Nat /\ 4 \in Nat /\ 4 + Len(bytes) <= m + 1 /\ bytes \in Seq(Int)
    BY <1>1, <1>4 DEF n
  <2>2. second \in [1 .. m + 1 -> Int]
    BY <1>7
  <2>3. Overlaid(buffer, m + 1, second, 4, bytes)
    BY <2>1, <2>2, CopiedIs, Zenon
  <2>4. Len(bytes) = n
    BY <1>4 DEF n
  <2> QED
    BY <2>3, <2>4, Zenon DEF Overlaid
<1> HIDE DEF buffer
<1>9. /\ head \o bytes \in Seq(Int) /\ Len(head \o bytes) = m
      /\ \A i \in 1 .. m : (head \o bytes)[i] = IF i <= 4 THEN head[i] ELSE bytes[i - 4]
  <2>1. /\ head \o bytes \in Seq(Int) /\ Len(head \o bytes) = 4 + n
        /\ \A i \in 1 .. 4 + n : (head \o bytes)[i] = IF i <= 4 THEN head[i] ELSE bytes[i - 4]
    <3>1. /\ head \o bytes \in Seq(Int) /\ Len(head \o bytes) = Len(head) + Len(bytes)
          /\ \A i \in 1 .. Len(head) + Len(bytes) : (head \o bytes)[i] =
               IF i <= Len(head) THEN head[i] ELSE bytes[i - Len(head)]
      BY <1>5, ConcatProperties, Zenon
    <3> QED
      BY <1>5, <3>1, Zenon DEF n
  <2>2. 4 + n = m
    BY <1>1
  <2> QED
    BY <2>1, <2>2
<1>10. ASSUME NEW i \in 1 .. m PROVE buffer[i] = (head \o bytes)[i]
  <2>1. i \in 1 .. m + 1 /\ i \in Nat
    BY <1>1
  <2>2. CASE i > 4
    <3>1. 4 < i /\ i <= 4 + n /\ ~(i <= 4)
      BY <1>1, <2>1, <2>2
    <3> QED
      BY <1>8, <1>9, <2>1, <3>1, Zenon
  <2>3. CASE i \in {3, 4}
    <3>1. second[i] = lens[i - 2] /\ buffer[i] = second[i]
      BY <1>7, <1>8, <2>1, <2>3
    <3> QED
      BY <1>5, <1>9, <2>3, <3>1
  <2>4. CASE i \in {1, 2}
    <3>1. first[i] = ids[i] /\ second[i] = first[i] /\ buffer[i] = second[i]
      BY <1>6, <1>7, <1>8, <2>1, <2>4
    <3>2. (head \o bytes)[i] = head[i] /\ head[i] = ids[i]
      BY <1>5, <1>9, <2>4
    <3> QED
      BY <3>1, <3>2, Zenon
  <2>5. i > 4 \/ i \in {3, 4} \/ i \in {1, 2}
    BY <1>1
  <2> QED
    BY <2>2, <2>3, <2>4, <2>5, Zenon
<1>11. Sent(node) = head \o bytes
  <2>1. m \in 0 .. m + 1 /\ m + 1 \in Nat
    BY <1>1
  <2>2. Holds(node, buffer, m + 1, m, head \o bytes)
    BY <1>3, <1>8, <1>9, <1>10, <2>1, Zenon DEF Holds
  <2> QED
    BY <2>2, SentOf, Zenon
<1> QED
  BY <1>2, <1>11, Zenon DEF head, n, HeadOf

\* What a byte holds, and what a short counts.
Bytes == 0 .. 255
Shorts == 0 .. 32767

LEMMA CountsAreNumbers == Bytes \subseteq Int /\ Shorts \subseteq Nat
BY DEF Bytes, Shorts

\* What is written of a node is its message: as it is in 4 and 7, and behind its
\* id and length, high byte first, in 12 to 15 and 17, for every message and id
\* that a short can count (4, 7 and 12 to 17 msg-node).
THEOREM NodesHoldMessages ==
  ASSUME NEW bytes \in Seq(Bytes), NEW ident \in Shorts,
         Len(bytes) + MSG_HEAD_TOTAL_LEN \in Shorts
  PROVE  /\ \A chapter \in {4, 7} : Sent(Node(chapter, 0, bytes)) = bytes
         /\ \A chapter \in {12, 13, 14, 15, 17} :
              Sent(Node(chapter, ident, bytes)) = HeadOf(ident, Len(bytes)) \o bytes
<1>1. bytes \in Seq(Int) /\ ident \in Nat
  <2>1. Bytes \subseteq Int /\ Shorts \subseteq Nat
    BY CountsAreNumbers
  <2>2. bytes \in Seq(Int)
    BY <2>1, SeqMonotonic, Zenon
  <2> QED
    BY <2>1, <2>2, Zenon
<1>2. \A chapter \in {12, 13, 14, 15, 17} :
        Node(chapter, ident, bytes) = SendNode(ident, bytes)
  BY DEF Node, MsgNode12, MsgNode13, MsgNode14, MsgNode15, MsgNode17
<1>3. \A chapter \in {4, 7} : Sent(Node(chapter, 0, bytes)) = bytes
  BY <1>1, PlainNodeHolds
<1>4. Sent(SendNode(ident, bytes)) = HeadOf(ident, Len(bytes)) \o bytes
  BY <1>1, HeadedNodeHolds, Zenon
<1> QED
  BY <1>2, <1>3, <1>4, Zenon

-----------------------------------------------------------------------------
(* The uploads and the cookies of the web server (pages-other/mystore).    *)

\* A form has finitely many files, a file has so many blocks, and nobody is not a
\* visitor.
Forms == IsFiniteSet(Names) /\ Blocks \in Nat /\ Nobody \notin Visitors

Writes(v, f) == copied[v] >= 0 /\ Head(saving[v]) = f

GinTypes ==
  /\ saving \in [Visitors -> Seq(Names)]
  /\ copied \in [Visitors -> Int]
  /\ DOMAIN asked = Visitors /\ DOMAIN ended = Visitors /\ DOMAIN answer = Visitors
  /\ DOMAIN disk = Names /\ DOMAIN latest = Names

\* A reply is complete when everything is saved; only uploads save.
Place(v) ==
  /\ ended[v] => saving[v] = <<>>
  /\ copied[v] >= -1 /\ copied[v] <= Blocks
  /\ copied[v] >= 0 => saving[v] # <<>>
  /\ ~ended[v] => asked[v] \in {"upload", "upload-more", "upload-nameless"}

\* A file that is not spoiled is written by at most one, who has written all of
\* it so far; when nobody writes it is all of the last one's.
FileRight(f) ==
  /\ \A v, w \in Visitors : Writes(v, f) /\ Writes(w, f) => v = w
  /\ \A v \in Visitors : Writes(v, f) => disk[f] = [i \in 1 .. copied[v] |-> v]
  /\ (\A v \in Visitors : ~Writes(v, f)) /\ latest[f] # "nobody" => disk[f] = Whole(latest[f])

GinFiles == \A f \in Names \ spoiled : FileRight(f)

\* Every file of an upload under way has been saved by somebody, or will be.
WillBeSaved(v) ==
  asked[v] = "upload-more" /\ (ended[v] => answer[v].status = 200) =>
    \A f \in Names : latest[f] # "nobody" \/ \E i \in 1 .. Len(saving[v]) : saving[v][i] = f

Honest(v) ==
  /\ ended[v] /\ answer[v].body # <<>> =>
       (answer[v].status = 200 <=> Head(answer[v].body) # "error")
  /\ asked[v] = "get-cookie" => (answer[v].status = 200 <=> v \in jar)

VisitorRight(v) == Place(v) /\ WillBeSaved(v) /\ Honest(v)
GinVisitors == \A v \in Visitors : VisitorRight(v)

GinInv == GinTypes /\ GinVisitors /\ GinFiles

LEMMA GinInitInv == Forms /\ GinInit => GinInv
<1> SUFFICES ASSUME Forms, GinInit PROVE GinInv
  OBVIOUS
<1> IsFiniteSet(Names) /\ Blocks \in Nat /\ "nobody" \notin Visitors
  BY DEF Forms, Nobody
<1> <<>> \in Seq(Names)
  BY EmptySeq
<1> QED
  BY DEF GinInit, Fresh, Nobody, GinInv, GinTypes, GinFiles, FileRight, Writes,
      GinVisitors, VisitorRight, Place, WillBeSaved, Honest

LEMMA GinShows == GinInv => RepliesAreTrue
<1> SUFFICES ASSUME GinInv PROVE RepliesAreTrue
  OBVIOUS
<1>1. ASSUME NEW f \in Names \ spoiled, \A v \in Visitors : ~(Open(v) /\ File(v) = f),
             latest[f] # Nobody
      PROVE  disk[f] = Whole(latest[f])
  BY <1>1 DEF GinInv, GinFiles, FileRight, Writes, Open, File, Nobody
<1>2. ASSUME NEW v \in Visitors, Uploaded(v), NEW f \in Names
      PROVE  latest[f] # Nobody
  <2>1. ended[v] /\ asked[v] = "upload-more" /\ answer[v].status = 200
    BY <1>2 DEF Uploaded
  <2>2. saving[v] = <<>> /\ Len(saving[v]) = 0
    BY <2>1, EmptySeq DEF GinInv, GinVisitors, VisitorRight, Place
  <2> QED
    BY <2>1, <2>2 DEF GinInv, GinVisitors, VisitorRight, WillBeSaved, Nobody
<1> QED
  BY <1>1, <1>2 DEF GinInv, GinVisitors, VisitorRight, Honest, RepliesAreTrue

\* A file stays right when nothing about it changes.
LEMMA FileStays ==
  ASSUME NEW f, FileRight(f), disk'[f] = disk[f], latest'[f] = latest[f],
         \A v \in Visitors : Writes(v, f)' <=> Writes(v, f),
         \A v \in Visitors : Writes(v, f) => copied'[v] = copied[v]
  PROVE  FileRight(f)'
<1>1. \A v, w \in Visitors : Writes(v, f)' /\ Writes(w, f)' => v = w
  BY DEF FileRight
<1>2. ASSUME NEW v \in Visitors, Writes(v, f)' PROVE disk'[f] = [i \in 1 .. copied'[v] |-> v]
  BY <1>2 DEF FileRight
<1>3. ASSUME \A v \in Visitors : ~Writes(v, f)', latest'[f] # "nobody"
      PROVE  disk'[f] = Whole(latest'[f])
  BY <1>3 DEF FileRight
<1>4. Whole(latest[f])' = Whole(latest'[f])
  BY DEF Whole
<1> QED
  BY <1>1, <1>2, <1>3, <1>4 DEF FileRight

\* And so is a visitor; what is saved stays saved.
LEMMA VisitorStays ==
  ASSUME NEW v, VisitorRight(v), asked'[v] = asked[v], saving'[v] = saving[v],
         copied'[v] = copied[v], answer'[v] = answer[v], ended'[v] = ended[v],
         v \in jar' <=> v \in jar,
         \A f \in Names : latest[f] # "nobody" => latest'[f] # "nobody"
  PROVE  VisitorRight(v)'
<1>1. Place(v)'
  BY DEF VisitorRight, Place
<1>2. WillBeSaved(v)'
  BY DEF VisitorRight, WillBeSaved
<1>3. Honest(v)'
  BY DEF VisitorRight, Honest
<1> QED
  BY <1>1, <1>2, <1>3 DEF VisitorRight

\* A asked that saves nothing, with its reply.
Answered(v, what, reply) ==
  /\ ended[v] /\ UNCHANGED ended /\ SavesNothing
  /\ asked' = [asked EXCEPT ![v] = what]
  /\ answer' = [answer EXCEPT ![v] = reply]
  /\ what # "upload-more"
  /\ \A w \in Visitors : w # v => (w \in jar' <=> w \in jar)
  /\ reply.status = 200 <=> Head(reply.body) # "error"
  /\ what = "get-cookie" => (reply.status = 200 <=> v \in jar')

LEMMA AnsweredKeeps ==
  ASSUME GinInv, NEW v \in Visitors, NEW what, NEW reply, Answered(v, what, reply)
  PROVE  GinInv'
<1> USE DEF Answered
<1>1. UNCHANGED <<saving, copied, disk, latest, spoiled, ended>>
  BY DEF SavesNothing
<1>2. GinTypes'
  BY <1>1 DEF GinInv, GinTypes
<1>3. \A w \in Visitors : w # v => asked'[w] = asked[w] /\ answer'[w] = answer[w]
  OBVIOUS
<1>4. asked'[v] = what /\ answer'[v] = reply
  BY DEF GinInv, GinTypes
<1>5. GinVisitors'
  <2>1. ASSUME NEW w \in Visitors, w # v PROVE VisitorRight(w)'
    <3>1. VisitorRight(w)
      BY DEF GinInv, GinVisitors
    <3> QED
      BY <1>1, <1>3, <2>1, <3>1, VisitorStays
  <2>2. Place(v)'
    BY <1>1 DEF GinInv, GinVisitors, VisitorRight, Place
  <2>3. WillBeSaved(v)' /\ Honest(v)'
    BY <1>4 DEF WillBeSaved, Honest
  <2> QED
    BY <2>1, <2>2, <2>3 DEF GinVisitors, VisitorRight
<1>6. GinFiles'
  <2>1. ASSUME NEW f \in Names \ spoiled PROVE FileRight(f)'
    <3>1. FileRight(f) /\ \A w \in Visitors : Writes(w, f)' <=> Writes(w, f)
      BY <1>1 DEF GinInv, GinFiles, Writes
    <3> QED
      BY <1>1, <3>1, FileStays
  <2> QED
    BY <1>1, <2>1 DEF GinFiles
<1> QED
  BY <1>2, <1>5, <1>6 DEF GinInv

\* What a reply of one piece and of more begins with.
LEMMA FirstPiece ==
  ASSUME NEW code, NEW text
  PROVE  /\ Reply(Fresh, code, text).status = code
         /\ Reply(Fresh, code, text).body = <<text>>
         /\ Head(Reply(Fresh, code, text).body) = text
BY DEF Reply, Fresh

LEMMA OnePiece ==
  ASSUME NEW S, NEW text \in S
  PROVE  <<text>> \in Seq(S) /\ <<text>> # <<>>
BY EmptySeq

LEMMA NextPiece ==
  ASSUME NEW S, NEW reply, reply.body \in Seq(S), reply.body # <<>>, NEW code, NEW text \in S
  PROVE  /\ Reply(reply, code, text).status = reply.status
         /\ Reply(reply, code, text).body \in Seq(S)
         /\ Reply(reply, code, text).body # <<>>
         /\ Head(Reply(reply, code, text).body) = Head(reply.body)
<1>1. /\ Reply(reply, code, text).status = reply.status
      /\ Reply(reply, code, text).body = Append(reply.body, text)
  BY DEF Reply
<1>2. Len(reply.body) > 0 /\ Head(reply.body) = reply.body[1]
  BY EmptySeq, LenProperties
<1>3. /\ Append(reply.body, text) \in Seq(S) /\ Append(reply.body, text) # <<>>
      /\ Append(reply.body, text)[1] = reply.body[1]
  BY <1>2, AppendProperties
<1> QED
  BY <1>1, <1>2, <1>3

LEMMA MorePieces ==
  ASSUME NEW code, NEW text, NEW second, NEW third
  PROVE  LET two == Reply(Reply(Fresh, code, text), 200, second)
             three == Reply(two, 200, third)
         IN /\ two.status = code /\ Head(two.body) = text
            /\ three.status = code /\ Head(three.body) = text
<1> DEFINE S == {text, second, third}
           one == Reply(Fresh, code, text)
           two == Reply(one, 200, second)
           three == Reply(two, 200, third)
<1>1. text \in S /\ second \in S /\ third \in S
  OBVIOUS
<1> HIDE DEF S
<1>2. one.status = code /\ one.body = <<text>> /\ Head(one.body) = text
  BY FirstPiece
<1>3. one.body \in Seq(S) /\ one.body # <<>>
  BY <1>1, <1>2, OnePiece
<1> HIDE DEF one
<1>4. /\ two.status = one.status /\ Head(two.body) = Head(one.body)
      /\ two.body \in Seq(S) /\ two.body # <<>>
  BY <1>1, <1>3, NextPiece
<1> HIDE DEF two
<1>5. three.status = two.status /\ Head(three.body) = Head(two.body)
  BY <1>1, <1>4, NextPiece
<1> QED
  BY <1>2, <1>4, <1>5, Zenon DEF one, two

\* The handlers that save nothing.
LEMMA VisitKeeps ==
  ASSUME GinInv, NEW v \in Visitors, Visit(v)
  PROVE  GinInv'
<1>1. /\ ended[v] /\ asked' = [asked EXCEPT ![v] = "page"]
      /\ SavesNothing /\ UNCHANGED <<jar, ended>>
  BY DEF Visit, Asks, Answers
<1>2. PICK reply :
        /\ answer' = [answer EXCEPT ![v] = reply]
        /\ \/ reply = Plain(Fresh)
           \/ \E bound \in BOOLEAN : reply = PostShould(bound)
           \/ \E name \in {"", "unknown", "chulan"} : reply = GetUserByName(name)
           \/ reply = InitMiddleware("page")
           \/ reply = NextUse("page")
  BY DEF Visit, Answers
<1>3. reply.status = 200 <=> Head(reply.body) # "error"
  <2>1. CASE reply = Plain(Fresh)
    BY <2>1, FirstPiece DEF Plain
  <2>2. ASSUME NEW bound \in BOOLEAN, reply = PostShould(bound)
        PROVE  reply.status = 200 <=> Head(reply.body) # "error"
    BY <2>2, FirstPiece DEF PostShould
  <2>3. ASSUME NEW name, reply = GetUserByName(name)
        PROVE  reply.status = 200 <=> Head(reply.body) # "error"
    <3>1. reply = Reply(Fresh, 400, "error") \/ reply = Reply(Fresh, 200, "user")
      BY <2>3 DEF GetUserByName
    <3>2. CASE reply = Reply(Fresh, 400, "error")
      <4>1. reply.status = 400 /\ Head(reply.body) = "error"
        BY <3>2, FirstPiece
      <4> QED
        BY <4>1
    <3>3. CASE reply = Reply(Fresh, 200, "user")
      <4>1. reply.status = 200 /\ Head(reply.body) = "user"
        BY <3>3, FirstPiece
      <4> QED
        BY <4>1
    <3> QED
      BY <3>1, <3>2, <3>3
  <2>4. CASE reply = InitMiddleware("page")
    <3>1. reply = Reply(Reply(Fresh, 200, "middleware"), 200, "page")
      BY <2>4 DEF InitMiddleware
    <3>2. reply.status = 200 /\ Head(reply.body) = "middleware"
      BY <3>1, MorePieces
    <3> QED
      BY <3>2
  <2>5. CASE reply = NextUse("page")
    <3>1. reply = Reply(Reply(Reply(Fresh, 200, "before"), 200, "page"), 200, "after")
      BY <2>5 DEF NextUse
    <3>2. reply.status = 200 /\ Head(reply.body) = "before"
      BY <3>1, MorePieces
    <3> QED
      BY <3>2
  <2> QED
    BY <1>2, <2>1, <2>2, <2>3, <2>4, <2>5
<1>4. \A w \in Visitors : w # v => (w \in jar' <=> w \in jar)
  BY <1>1
<1> QED
  <2>1. Answered(v, "page", reply)
    BY <1>1, <1>2, <1>3, <1>4 DEF Answered
  <2> QED
    BY <2>1, AnsweredKeeps

LEMMA CookiesKeep ==
  ASSUME GinInv, NEW v \in Visitors, Cookies(v)
  PROVE  GinInv'
<1>1. ended[v] /\ UNCHANGED ended /\ SavesNothing
  BY DEF Cookies, Asks, Answers
<1>2. ASSUME NEW what \in {"set-cookie", "delete-cookie"},
             asked' = [asked EXCEPT ![v] = what],
             answer' = [answer EXCEPT ![v] = Plain(Fresh)],
             \A w \in Visitors : w # v => (w \in jar' <=> w \in jar)
      PROVE  GinInv'
  <2>1. Plain(Fresh).status = 200 /\ Head(Plain(Fresh).body) # "error"
    BY FirstPiece DEF Plain
  <2>2. what # "upload-more" /\ what # "get-cookie"
    OBVIOUS
  <2> QED
    <3>1. Answered(v, what, Plain(Fresh))
      BY <1>1, <1>2, <2>1, <2>2 DEF Answered
    <3> QED
      BY <3>1, AnsweredKeeps
<1>3. ASSUME asked' = [asked EXCEPT ![v] = "get-cookie"],
             answer' = [answer EXCEPT ![v] = GetCookie(v)], UNCHANGED jar
      PROVE  GinInv'
  <2> DEFINE reply == GetCookie(v)
  <2>1. (reply.status = 200 <=> Head(reply.body) # "error") /\ (reply.status = 200 <=> v \in jar)
    <3>1. CASE v \in jar
      <4>1. reply = Reply(Fresh, 200, "cookie")
        BY <3>1 DEF GetCookie
      <4> QED
        BY <3>1, <4>1, FirstPiece
    <3>2. CASE v \notin jar
      <4> DEFINE nothing == ""
      <4>1. reply = Reply(Reply(Fresh, 400, "error"), 200, nothing)
        BY <3>2 DEF GetCookie
      <4> HIDE DEF nothing
      <4>2. reply.status = 400 /\ Head(reply.body) = "error"
        BY <4>1, MorePieces
      <4> QED
        BY <3>2, <4>2
    <3> QED
      BY <3>1, <3>2
  <2> HIDE DEF reply
  <2>2. /\ answer' = [answer EXCEPT ![v] = reply]
        /\ \A w \in Visitors : w # v => (w \in jar' <=> w \in jar)
        /\ reply.status = 200 <=> v \in jar'
    BY <1>3, <2>1 DEF reply
  <2> QED
    <3>1. Answered(v, "get-cookie", reply)
      BY <1>1, <1>3, <2>1, <2>2 DEF Answered
    <3> QED
      BY <3>1, AnsweredKeeps
<1> QED
  BY <1>2, <1>3 DEF Cookies, Asks, Answers

LEMMA BadUploadKeeps ==
  ASSUME GinInv, NEW v \in Visitors, BadUpload(v)
  PROVE  GinInv'
<1>1. /\ ended[v] /\ UNCHANGED <<ended, jar>> /\ SavesNothing
      /\ asked' = [asked EXCEPT ![v] = "upload"]
      /\ answer' = [answer EXCEPT ![v] = Reply(Fresh, 400, "error")]
  BY DEF BadUpload, Asks, Answers
<1>2. /\ Reply(Fresh, 400, "error").status = 400
      /\ Head(Reply(Fresh, 400, "error").body) = "error"
  BY FirstPiece
<1>3. \A w \in Visitors : w # v => (w \in jar' <=> w \in jar)
  BY <1>1
<1>4. Reply(Fresh, 400, "error").status # 200
  BY <1>2
<1>5. Answered(v, "upload", Reply(Fresh, 400, "error"))
  BY <1>1, <1>2, <1>3, <1>4 DEF Answered
<1> QED
  BY <1>5, AnsweredKeeps

\* The files of an upload are all to be saved.
LEMMA StartsKeeps ==
  ASSUME Forms, GinInv, NEW v \in Visitors, NEW what, NEW files, files \in Seq(Names),
         what \in {"upload", "upload-more", "upload-nameless"},
         what = "upload-more" => \A f \in Names : \E i \in 1 .. Len(files) : files[i] = f,
         Starts(v, what, files)
  PROVE  GinInv'
<1> IsFiniteSet(Names) /\ Blocks \in Nat /\ "nobody" \notin Visitors
  BY DEF Forms, Nobody
<1>1. /\ ended[v] /\ asked' = [asked EXCEPT ![v] = what]
      /\ saving' = [saving EXCEPT ![v] = files]
      /\ answer' = [answer EXCEPT ![v] = Fresh]
      /\ ended' = [ended EXCEPT ![v] = FALSE]
      /\ UNCHANGED <<copied, jar, disk, latest, spoiled>>
  BY DEF Starts, Asks
<1>2. GinTypes'
  BY <1>1 DEF GinInv, GinTypes
<1>3. /\ asked'[v] = what /\ saving'[v] = files /\ ~ended'[v]
      /\ \A w \in Visitors : w # v =>
           /\ asked'[w] = asked[w] /\ saving'[w] = saving[w] /\ answer'[w] = answer[w]
           /\ ended'[w] = ended[w]
  BY <1>1 DEF GinInv, GinTypes
<1>4. saving[v] = <<>> /\ copied[v] = -1
  <2>1. copied[v] \in Int
    BY DEF GinInv, GinTypes
  <2>2. saving[v] = <<>> /\ copied[v] >= -1 /\ (copied[v] >= 0 => saving[v] # <<>>)
    BY <1>1 DEF GinInv, GinVisitors, VisitorRight, Place
  <2> QED
    BY <2>1, <2>2
<1>5. GinVisitors'
  <2>1. ASSUME NEW w \in Visitors, w # v PROVE VisitorRight(w)'
    <3>1. VisitorRight(w)
      BY DEF GinInv, GinVisitors
    <3> QED
      BY <1>1, <1>3, <2>1, <3>1, VisitorStays
  <2>2. Place(v)'
    BY <1>1, <1>3, <1>4 DEF Place
  <2>3. WillBeSaved(v)'
    BY <1>3 DEF WillBeSaved
  <2>4. Honest(v)'
    BY <1>3 DEF Honest
  <2> QED
    BY <2>1, <2>2, <2>3, <2>4 DEF GinVisitors, VisitorRight
<1>6. GinFiles'
  <2>1. ASSUME NEW f \in Names \ spoiled PROVE FileRight(f)'
    <3>1. \A w \in Visitors : Writes(w, f)' <=> Writes(w, f)
      <4>1. ~Writes(v, f) /\ ~Writes(v, f)'
        BY <1>1, <1>4 DEF Writes
      <4>2. ASSUME NEW w \in Visitors, w # v PROVE Writes(w, f)' <=> Writes(w, f)
        BY <1>1, <1>3, <4>2 DEF Writes
      <4> QED
        BY <4>1, <4>2
    <3>2. FileRight(f)
      BY DEF GinInv, GinFiles
    <3> QED
      BY <1>1, <3>1, <3>2, FileStays
  <2> QED
    BY <1>1, <2>1 DEF GinFiles
<1> QED
  BY <1>2, <1>5, <1>6 DEF GinInv

LEMMA UploadKeeps ==
  ASSUME Forms, GinInv, NEW v \in Visitors, UploadFile(v) \/ UploadManyFile(v)
  PROVE  GinInv'
<1> IsFiniteSet(Names) /\ Blocks \in Nat /\ "nobody" \notin Visitors
  BY DEF Forms, Nobody
<1>1. ASSUME NEW f \in Names, Starts(v, "upload", <<f>>) PROVE GinInv'
  <2>1. <<f>> \in Seq(Names)
    OBVIOUS
  <2> QED
    BY <1>1, <2>1, StartsKeeps
<1>2. ASSUME NEW files \in SetToSeqs(Names),
             NEW what \in {"upload-more", "upload-nameless"}, Starts(v, what, files)
      PROVE  GinInv'
  <2> DEFINE n == Cardinality(Names)
  <2>1. /\ files \in [1 .. n -> Names] /\ n \in Nat
        /\ \A i, j \in 1 .. n : i # j => files[i] # files[j]
    BY FS_CardinalityType DEF SetToSeqs
  <2>2. files \in Injection(1 .. n, Names)
    BY <2>1 DEF Injection, IsInjective
  <2>3. IsFiniteSet(1 .. n) /\ Cardinality(1 .. n) = n
    <3>1. Cardinality(1 .. n) = IF 1 > n THEN 0 ELSE n - 1 + 1
      BY <2>1, FS_Interval
    <3> QED
      BY <2>1, <3>1, FS_Interval
  <2>4. files \in Surjection(1 .. n, Names)
    BY <2>2, <2>3, FS_Injection
  <2>5. files \in Seq(Names) /\ Len(files) = n
    BY ONLY <2>1
  <2>6. \A f \in Names : \E i \in 1 .. Len(files) : files[i] = f
    BY <2>4, <2>5 DEF Surjection
  <2> QED
    BY <1>2, <2>5, <2>6, StartsKeeps
<1> QED
  BY <1>1, <1>2 DEF UploadFile, UploadManyFile

LEMMA CreateFileKeeps ==
  ASSUME Forms, GinInv, NEW v \in Visitors, CreateFile(v)
  PROVE  GinInv'
<1> IsFiniteSet(Names) /\ Blocks \in Nat /\ "nobody" \notin Visitors
  BY DEF Forms, Nobody
<1>1. PICK f \in Names : f = Head(saving[v])
  <2>1. saving[v] # <<>> /\ saving[v] \in Seq(Names)
    BY DEF CreateFile, GinInv, GinTypes
  <2> QED
    BY <2>1
<1>2. /\ saving[v] # <<>> /\ ~(copied[v] >= 0)
      /\ copied' = [copied EXCEPT ![v] = 0]
      /\ disk' = [disk EXCEPT ![f] = <<>>]
      /\ spoiled' = IF \E w \in Visitors \ {v} : Writes(w, f)
                      THEN spoiled \cup {f} ELSE spoiled \ {f}
      /\ UNCHANGED <<asked, saving, answer, ended, jar, latest>>
  BY <1>1 DEF CreateFile, Open, File, Writes
<1>3. /\ copied'[v] = 0 /\ \A w \in Visitors : w # v => copied'[w] = copied[w]
      /\ disk'[f] = <<>> /\ \A g \in Names : g # f => disk'[g] = disk[g]
  BY <1>1, <1>2 DEF GinInv, GinTypes
<1>4. GinTypes'
  BY <1>2 DEF GinInv, GinTypes
<1>5. GinVisitors'
  <2>1. ASSUME NEW w \in Visitors, w # v PROVE VisitorRight(w)'
    <3>1. VisitorRight(w)
      BY DEF GinInv, GinVisitors
    <3> QED
      BY <1>1, <1>2, <1>3, <2>1, <3>1, VisitorStays
  <2>2. VisitorRight(v)
    BY DEF GinInv, GinVisitors
  <2>3. Place(v)'
    BY <1>1, <1>2, <1>3, <2>2 DEF VisitorRight, Place
  <2>4. WillBeSaved(v)'
    BY <1>1, <1>2, <2>2 DEF VisitorRight, WillBeSaved
  <2>5. Honest(v)'
    BY <1>1, <1>2, <2>2 DEF VisitorRight, Honest
  <2> QED
    BY <2>1, <2>3, <2>4, <2>5 DEF GinVisitors, VisitorRight
<1>6. GinFiles'
  <2>1. ASSUME NEW g \in Names \ spoiled', g # f PROVE FileRight(g)'
    <3>1. /\ \A w \in Visitors : Writes(w, g)' <=> Writes(w, g)
          /\ \A w \in Visitors : Writes(w, g) => copied'[w] = copied[w]
      BY <1>1, <1>2, <1>3, <2>1 DEF Writes
    <3>2. FileRight(g)
      BY <1>1, <1>2, <2>1 DEF GinInv, GinFiles
    <3> QED
      BY <1>1, <1>2, <1>3, <2>1, <3>1, <3>2, FileStays
  <2>2. ASSUME f \notin spoiled' PROVE FileRight(f)'
    <3>1. \A w \in Visitors : Writes(w, f)' => w = v
      <4>1. \A w \in Visitors \ {v} : ~Writes(w, f)
        BY <1>1, <1>2, <2>2
      <4>2. ASSUME NEW w \in Visitors \ {v} PROVE ~Writes(w, f)'
        BY <1>1, <1>2, <1>3, <4>1 DEF Writes
      <4> QED
        BY <4>2
    <3>2. Writes(v, f)'
      BY <1>1, <1>2, <1>3 DEF Writes
    <3>3. disk'[f] = [i \in 1 .. copied'[v] |-> v]
      BY <1>3
    <3>4. \A w, u \in Visitors : Writes(w, f)' /\ Writes(u, f)' => w = u
      BY <3>1
    <3>5. \A w \in Visitors : Writes(w, f)' => disk'[f] = [i \in 1 .. copied'[w] |-> w]
      BY <3>1, <3>3
    <3>6. (\A w \in Visitors : ~Writes(w, f)') => FALSE
      BY <3>2
    <3>7. FileRight(f)' <=>
            /\ \A w, u \in Visitors : Writes(w, f)' /\ Writes(u, f)' => w = u
            /\ \A w \in Visitors : Writes(w, f)' => disk'[f] = [i \in 1 .. copied'[w] |-> w]
            /\ (\A w \in Visitors : ~Writes(w, f)') /\ latest'[f] # "nobody"
                 => disk'[f] = Whole(latest[f])'
      BY DEF FileRight
    <3> QED
      BY <3>4, <3>5, <3>6, <3>7, Zenon
  <2> QED
    BY <2>1, <2>2 DEF GinFiles
<1> QED
  BY <1>4, <1>5, <1>6 DEF GinInv

\* What is copied so far.
LEMMA PrefixLength ==
  ASSUME NEW x, NEW n \in Nat
  PROVE  Len([i \in 1 .. n |-> x]) = n
OBVIOUS

LEMMA LastFilled ==
  ASSUME NEW x, NEW hole, NEW n \in Nat \ {0}
  PROVE  [[i \in 1 .. n |-> IF i <= n - 1 THEN x ELSE hole] EXCEPT ![n] = x]
           = [i \in 1 .. n |-> x]
<1> DEFINE p == [i \in 1 .. n |-> IF i <= n - 1 THEN x ELSE hole]
           q == [p EXCEPT ![n] = x]
<1>1. ASSUME NEW i \in 1 .. n PROVE q[i] = x
  <2>1. CASE i = n
    BY <2>1
  <2>2. CASE i # n
    BY <2>2
  <2> QED
    BY <2>1, <2>2
<1>2. q = [i \in 1 .. n |-> q[i]]
  OBVIOUS
<1> HIDE DEF q
<1>3. q = [i \in 1 .. n |-> x]
  BY <1>1, <1>2
<1> QED
  BY <1>3 DEF q

LEMMA CopyBlockKeeps ==
  ASSUME Forms, GinInv, NEW v \in Visitors, CopyBlock(v)
  PROVE  GinInv'
<1> IsFiniteSet(Names) /\ Blocks \in Nat /\ "nobody" \notin Visitors
  BY DEF Forms, Nobody
<1>0. PICK f \in Names : f = Head(saving[v])
  <2>1. saving[v] # <<>> /\ saving[v] \in Seq(Names)
    BY DEF CopyBlock, Open, GinInv, GinTypes, GinVisitors, VisitorRight, Place
  <2> QED
    BY <2>1
<1> DEFINE n == copied[v] + 1
           blocks == disk[f]
           long == IF Len(blocks) < n THEN n ELSE Len(blocks)
<1>1. /\ copied[v] >= 0 /\ copied[v] < Blocks
      /\ copied' = [copied EXCEPT ![v] = @ + 1]
      /\ disk' = [disk EXCEPT ![f] = [Padded(blocks, long) EXCEPT ![n] = v]]
      /\ UNCHANGED <<asked, saving, answer, ended, jar, latest, spoiled>>
  BY <1>0 DEF CopyBlock, Open, File
<1>2. copied[v] \in Nat
  <2>1. copied[v] \in Int
    BY DEF GinInv, GinTypes
  <2> QED
    BY <1>1, <2>1
<1>3. /\ copied'[v] = n /\ \A w \in Visitors : w # v => copied'[w] = copied[w]
      /\ disk'[f] = [Padded(blocks, long) EXCEPT ![n] = v]
      /\ \A g \in Names : g # f => disk'[g] = disk[g]
  BY <1>1, <1>2 DEF GinInv, GinTypes
<1>4. GinTypes'
  BY <1>1 DEF GinInv, GinTypes
<1>5. GinVisitors'
  <2>1. ASSUME NEW w \in Visitors, w # v PROVE VisitorRight(w)'
    <3>1. VisitorRight(w)
      BY DEF GinInv, GinVisitors
    <3> QED
      BY <1>1, <1>3, <2>1, <3>1, VisitorStays
  <2>2. VisitorRight(v)
    BY DEF GinInv, GinVisitors
  <2>3. Place(v)'
    BY <1>1, <1>2, <1>3, <2>2 DEF VisitorRight, Place
  <2>4. WillBeSaved(v)'
    BY <1>1, <2>2 DEF VisitorRight, WillBeSaved
  <2>5. Honest(v)'
    BY <1>1, <2>2 DEF VisitorRight, Honest
  <2> QED
    BY <2>1, <2>3, <2>4, <2>5 DEF GinVisitors, VisitorRight
<1>6. GinFiles'
  <2>1. ASSUME NEW g \in Names \ spoiled, g # f PROVE FileRight(g)'
    <3>1. /\ \A w \in Visitors : Writes(w, g)' <=> Writes(w, g)
          /\ \A w \in Visitors : Writes(w, g) => copied'[w] = copied[w]
      BY <1>0, <1>1, <1>2, <1>3, <2>1 DEF Writes
    <3>2. FileRight(g)
      BY DEF GinInv, GinFiles
    <3> QED
      BY <1>1, <1>3, <2>1, <3>1, <3>2, FileStays
  <2>2. ASSUME f \notin spoiled PROVE FileRight(f)'
    <3>1. FileRight(f)
      BY <1>2, <2>2 DEF GinInv, GinFiles
    <3>2. \A w \in Visitors : Writes(w, f)' <=> Writes(w, f)
      BY <1>0, <1>1, <1>2, <1>3 DEF Writes
    <3>3. Writes(v, f)
      BY <1>0, <1>1 DEF Writes
    <3>4. blocks = [i \in 1 .. copied[v] |-> v]
      BY <3>1, <3>3 DEF FileRight
    <3>5. Len(blocks) = copied[v] /\ long = n
      BY <1>2, <3>4, PrefixLength
    <3>6. disk'[f] = [i \in 1 .. n |-> v]
      <4>1. Padded(blocks, n) = [i \in 1 .. n |-> IF i <= copied[v] THEN v ELSE Hole]
        BY <1>2, <3>4, <3>5 DEF Padded
      <4>2. copied[v] = n - 1 /\ n \in Nat \ {0}
        BY <1>2
      <4> HIDE DEF n
      <4> QED
        BY <1>3, <3>5, <4>1, <4>2, LastFilled
    <3>7. \A w \in Visitors : Writes(w, f)' => w = v
      BY <3>1, <3>2, <3>3 DEF FileRight
    <3>8. \A w, u \in Visitors : Writes(w, f)' /\ Writes(u, f)' => w = u
      BY <3>7
    <3>9. \A w \in Visitors : Writes(w, f)' => disk'[f] = [i \in 1 .. copied'[w] |-> w]
      BY <1>3, <3>6, <3>7
    <3>10. Writes(v, f)'
      BY <3>2, <3>3
    <3>11. (\A w \in Visitors : ~Writes(w, f)') => FALSE
      BY <3>10
    <3>12. FileRight(f)' <=>
            /\ \A w, u \in Visitors : Writes(w, f)' /\ Writes(u, f)' => w = u
            /\ \A w \in Visitors : Writes(w, f)' => disk'[f] = [i \in 1 .. copied'[w] |-> w]
            /\ (\A w \in Visitors : ~Writes(w, f)') /\ latest'[f] # "nobody"
                 => disk'[f] = Whole(latest[f])'
      BY DEF FileRight
    <3> QED
      BY <3>8, <3>9, <3>11, <3>12, Zenon
  <2> QED
    BY <1>1, <2>1, <2>2 DEF GinFiles
<1> QED
  BY <1>4, <1>5, <1>6 DEF GinInv

\* Whoever saves a file, or gives up, does not write it any more, nor any other.
LEMMA WriterLeaves ==
  ASSUME GinInv, NEW v \in Visitors, copied' = [copied EXCEPT ![v] = -1],
         \A w \in Visitors : w # v => saving'[w] = saving[w], NEW f
  PROVE  /\ ~Writes(v, f)'
         /\ \A w \in Visitors : w # v => (Writes(w, f)' <=> Writes(w, f)) /\ copied'[w] = copied[w]
<1>1. copied'[v] = -1 /\ \A w \in Visitors : w # v => copied'[w] = copied[w]
  BY DEF GinInv, GinTypes
<1> QED
  BY <1>1 DEF Writes

LEMMA FileSavedKeeps ==
  ASSUME Forms, GinInv, NEW v \in Visitors, FileSaved(v)
  PROVE  GinInv'
<1> IsFiniteSet(Names) /\ Blocks \in Nat /\ "nobody" \notin Visitors
  BY DEF Forms, Nobody
<1>1. saving[v] \in Seq(Names) /\ saving[v] # <<>>
  BY DEF FileSaved, Open, GinInv, GinTypes, GinVisitors, VisitorRight, Place
<1>2. PICK f \in Names : f = Head(saving[v])
  BY <1>1
<1>3. /\ copied[v] >= 0 /\ copied[v] = Blocks
      /\ saving' = [saving EXCEPT ![v] = Tail(@)]
      /\ copied' = [copied EXCEPT ![v] = -1]
      /\ latest' = [latest EXCEPT ![f] = v]
      /\ ended' = [ended EXCEPT ![v] = (saving'[v] = <<>>)]
      /\ answer' = IF ended'[v] THEN [answer EXCEPT ![v] = LastReply(v)] ELSE answer
      /\ UNCHANGED <<asked, jar, disk, spoiled>>
  BY <1>2 DEF FileSaved, Open, File
<1>4. saving'[v] = Tail(saving[v]) /\ saving'[v] \in Seq(Names) /\ copied'[v] = -1
  BY <1>1, <1>3, HeadTailProperties DEF GinInv, GinTypes
<1>5. ended'[v] <=> saving'[v] = <<>>
  BY <1>3 DEF GinInv, GinTypes
<1>6. \A w \in Visitors : w # v =>
        /\ saving'[w] = saving[w] /\ copied'[w] = copied[w] /\ answer'[w] = answer[w]
        /\ ended'[w] = ended[w]
  BY <1>3 DEF GinInv, GinTypes
<1>7. latest'[f] = v /\ \A g \in Names : g # f => latest'[g] = latest[g]
  BY <1>2, <1>3 DEF GinInv, GinTypes
<1>8. GinTypes'
  <2>1. saving' \in [Visitors -> Seq(Names)]
    BY <1>3, <1>4 DEF GinInv, GinTypes
  <2> QED
    BY <1>3, <2>1 DEF GinInv, GinTypes
<1>9. \A g \in Names : latest[g] # "nobody" => latest'[g] # "nobody"
  BY <1>7
<1>10. VisitorRight(v)
  BY DEF GinInv, GinVisitors
<1>11. ~ended[v] /\ asked[v] \in {"upload", "upload-more", "upload-nameless"}
  BY <1>1, <1>10 DEF VisitorRight, Place
<1>12. GinVisitors'
  <2>1. ASSUME NEW w \in Visitors, w # v PROVE VisitorRight(w)'
    <3>1. VisitorRight(w)
      BY DEF GinInv, GinVisitors
    <3> QED
      BY <1>3, <1>6, <1>9, <2>1, <3>1, VisitorStays
  <2>2. Place(v)'
    BY <1>3, <1>4, <1>5, <1>11 DEF Place
  <2>3. WillBeSaved(v)'
    <3> SUFFICES ASSUME asked'[v] = "upload-more", NEW g \in Names, latest'[g] = "nobody"
                 PROVE  \E i \in 1 .. Len(saving'[v]) : saving'[v][i] = g
      BY DEF WillBeSaved
    <3>1. g # f /\ latest[g] = "nobody"
      BY <1>7
    <3>2. asked[v] = "upload-more"
      BY <1>3
    <3>3. PICK i \in 1 .. Len(saving[v]) : saving[v][i] = g
      BY <1>10, <1>11, <3>1, <3>2 DEF VisitorRight, WillBeSaved
    <3>4. i # 1 /\ Head(saving[v]) = saving[v][1]
      BY <1>1, <1>2, <3>1, <3>3
    <3>5. /\ i - 1 \in 1 .. Len(Tail(saving[v])) /\ Tail(saving[v])[i - 1] = saving[v][i]
      BY <1>1, <3>3, <3>4, HeadTailProperties
    <3> QED
      BY <1>4, <3>3, <3>5
  <2>4. Honest(v)'
    <3>1. ended'[v] => answer'[v] = LastReply(v)
      BY <1>3 DEF GinInv, GinTypes
    <3>2. \/ LastReply(v).body = <<>>
          \/ LastReply(v).status = 200 /\ Head(LastReply(v).body) # "error"
      <4>1. CASE asked[v] = "upload-nameless"
        <5>1. LastReply(v).body = <<>>
          BY <4>1 DEF LastReply, Fresh
        <5> QED
          BY <5>1
      <4>2. CASE asked[v] # "upload-nameless"
        <5>1. LastReply(v) = Reply(Fresh, 200, "success")
          BY <4>2 DEF LastReply
        <5>2. LastReply(v).status = 200 /\ Head(LastReply(v).body) = "success"
          BY <5>1, FirstPiece
        <5> QED
          BY <5>2
      <4> QED
        BY <4>1, <4>2
    <3>3. asked'[v] # "get-cookie"
      BY <1>3, <1>11
    <3> QED
      BY <3>1, <3>2, <3>3 DEF Honest
  <2> QED
    BY <2>1, <2>2, <2>3, <2>4 DEF GinVisitors, VisitorRight
<1>13. GinFiles'
  <2>1. ASSUME NEW g \in Names \ spoiled PROVE FileRight(g)'
    <3>1. FileRight(g)
      BY DEF GinInv, GinFiles
    <3>2. /\ ~Writes(v, g)'
          /\ \A w \in Visitors :
               w # v => (Writes(w, g)' <=> Writes(w, g)) /\ copied'[w] = copied[w]
      BY <1>3, <1>6, WriterLeaves
    <3>3. CASE g # f
      <4>1. ~Writes(v, g)
        BY <1>2, <3>3 DEF Writes
      <4>2. \A w \in Visitors : Writes(w, g)' <=> Writes(w, g)
        BY <3>2, <4>1
      <4>3. \A w \in Visitors : Writes(w, g) => copied'[w] = copied[w]
        BY <3>2, <4>1
      <4> QED
        BY <1>3, <1>7, <3>1, <3>3, <4>2, <4>3, FileStays
    <3>4. CASE g = f
      <4>1. Writes(v, f)
        BY <1>2, <1>3 DEF Writes
      <4>2. \A w \in Visitors : ~Writes(w, f)'
        BY <3>1, <3>2, <3>4, <4>1 DEF FileRight
      <4>3. disk[f] = [i \in 1 .. Blocks |-> v]
        BY <1>3, <3>1, <3>4, <4>1 DEF FileRight
      <4>4. disk'[f] = Whole(latest'[f])
        BY <1>3, <1>7, <4>3 DEF Whole
      <4>5. Whole(latest[f])' = Whole(latest'[f])
        BY DEF Whole
      <4>6. FileRight(f)'
        BY <4>2, <4>4, <4>5, Zenon DEF FileRight
      <4> QED
        BY <3>4, <4>6
    <3> QED
      BY <3>3, <3>4
  <2> QED
    BY <1>3, <2>1 DEF GinFiles
<1> QED
  BY <1>8, <1>12, <1>13 DEF GinInv

LEMMA SaveFailsKeeps ==
  ASSUME Forms, GinInv, NEW v \in Visitors, SaveFails(v)
  PROVE  GinInv'
<1> IsFiniteSet(Names) /\ Blocks \in Nat /\ "nobody" \notin Visitors
  BY DEF Forms, Nobody
<1>1. saving[v] \in Seq(Names) /\ saving[v] # <<>>
  BY DEF SaveFails, GinInv, GinTypes
<1>2. PICK f \in Names : f = Head(saving[v])
  BY <1>1
<1>3. PICK code : /\ code # 200
                  /\ answer' = [answer EXCEPT ![v] = Reply(Fresh, code, "error")]
  <2> DEFINE code == IF asked[v] = "upload" THEN 400 ELSE 500
  <2>1. code # 200 /\ answer' = [answer EXCEPT ![v] = Reply(Fresh, code, "error")]
    BY DEF SaveFails
  <2> HIDE DEF code
  <2> QED
    BY <2>1
<1>4. /\ spoiled' = IF copied[v] >= 0 THEN spoiled \cup {f} ELSE spoiled
      /\ saving' = [saving EXCEPT ![v] = <<>>]
      /\ copied' = [copied EXCEPT ![v] = -1]
      /\ ended' = [ended EXCEPT ![v] = TRUE]
      /\ UNCHANGED <<asked, jar, disk, latest>>
  BY <1>2 DEF SaveFails, Open, File
<1>5. /\ saving'[v] = <<>> /\ copied'[v] = -1 /\ ended'[v]
      /\ answer'[v] = Reply(Fresh, code, "error")
  BY <1>3, <1>4 DEF GinInv, GinTypes
<1>6. \A w \in Visitors : w # v =>
        /\ saving'[w] = saving[w] /\ copied'[w] = copied[w] /\ answer'[w] = answer[w]
        /\ ended'[w] = ended[w]
  BY <1>3, <1>4 DEF GinInv, GinTypes
<1>7. GinTypes'
  <2>1. <<>> \in Seq(Names)
    BY EmptySeq
  <2> QED
    BY <1>3, <1>4, <2>1 DEF GinInv, GinTypes
<1>8. GinVisitors'
  <2>1. ASSUME NEW w \in Visitors, w # v PROVE VisitorRight(w)'
    <3>1. VisitorRight(w)
      BY DEF GinInv, GinVisitors
    <3> QED
      BY <1>4, <1>6, <2>1, <3>1, VisitorStays
  <2>2. answer'[v].status = code /\ Head(answer'[v].body) = "error"
    BY <1>5, FirstPiece
  <2>3. asked'[v] \in {"upload", "upload-more", "upload-nameless"}
    BY <1>1, <1>4 DEF GinInv, GinVisitors, VisitorRight, Place
  <2>4. Place(v)'
    BY <1>5, <2>3 DEF Place
  <2>5. WillBeSaved(v)'
    BY <1>3, <1>5, <2>2 DEF WillBeSaved
  <2>6. Honest(v)'
    BY <1>3, <1>5, <2>2, <2>3 DEF Honest
  <2> QED
    BY <2>1, <2>4, <2>5, <2>6 DEF GinVisitors, VisitorRight
<1>9. GinFiles'
  <2>1. ASSUME NEW g \in Names \ spoiled' PROVE FileRight(g)'
    <3>1. FileRight(g) /\ (copied[v] >= 0 => g # f)
      BY <1>4 DEF GinInv, GinFiles
    <3>2. /\ ~Writes(v, g)'
          /\ \A w \in Visitors :
               w # v => (Writes(w, g)' <=> Writes(w, g)) /\ copied'[w] = copied[w]
      BY <1>4, <1>6, WriterLeaves
    <3>3. ~Writes(v, g)
      BY <1>2, <3>1 DEF Writes
    <3>4. \A w \in Visitors : Writes(w, g)' <=> Writes(w, g)
      BY <3>2, <3>3
    <3>5. \A w \in Visitors : Writes(w, g) => copied'[w] = copied[w]
      BY <3>2, <3>3
    <3> QED
      BY <1>4, <3>1, <3>4, <3>5, FileStays
  <2> QED
    BY <2>1 DEF GinFiles
<1> QED
  BY <1>7, <1>8, <1>9 DEF GinInv

LEMMA GinStepInv == Forms /\ GinInv /\ [GinNext]_ginVars => GinInv'
<1> SUFFICES ASSUME Forms, GinInv, [GinNext]_ginVars PROVE GinInv'
  OBVIOUS
<1>1. CASE UNCHANGED ginVars
  BY <1>1 DEF ginVars, GinInv, GinTypes, GinVisitors, VisitorRight, Place, WillBeSaved, Honest,
      GinFiles, FileRight, Writes, Whole
<1> QED
  BY <1>1, VisitKeeps, CookiesKeep, BadUploadKeeps, UploadKeeps, CreateFileKeeps,
     CopyBlockKeeps, FileSavedKeeps, SaveFailsKeeps DEF GinNext

\* What a reply of the web server says is so: after an upload that was answered
\* with success every file of it is there and is somebody's whole, unless two
\* copies met or one failed; a reply has the status of its first piece; the cookie
\* is read by who holds it (03-gin main.go lines 143-209).
THEOREM RepliesHold == ASSUME Forms PROVE GinSpec => []RepliesAreTrue
<1>1. GinInit => GinInv
  BY GinInitInv
<1>2. GinInv /\ [GinNext]_ginVars => GinInv'
  BY GinStepInv
<1>3. GinInv => RepliesAreTrue
  BY GinShows
<1> QED
  BY <1>1, <1>2, <1>3, PTL DEF GinSpec

-----------------------------------------------------------------------------
(* The events that are sent to the page (pages-other/mystore/01-sse).      *)

\* s is, place by place, nothing or the next of d, of which m have been taken.
Picks(S, s, d, m) ==
  /\ s \in Seq(Seq(S)) /\ d \in [Nat \ {0} -> S]
  /\ m \in [0 .. Len(s) -> Nat] /\ m[0] = 0
  /\ \A k \in 1 .. Len(s) :
       \/ s[k] = <<>> /\ m[k] = m[k - 1]
       \/ s[k] = <<d[m[k]]>> /\ m[k] = m[k - 1] + 1

\* What has been taken.
Picked(S, s, d, m) ==
  /\ FlattenSeq(s) \in Seq(S) /\ Len(FlattenSeq(s)) = m[Len(s)]
  /\ \A i \in 1 .. m[Len(s)] : FlattenSeq(s)[i] = d[i]

\* Flattening such a sequence gives what has been taken.
LEMMA FlattenPicks ==
  ASSUME NEW S, NEW s, NEW d, NEW m, Picks(S, s, d, m)
  PROVE  Picked(S, s, d, m)
<1> USE DEF Picks
<1> DEFINE First(k) == FlattenSeq(SubSeq(s, 1, k))
           Right(k) == /\ First(k) \in Seq(S) /\ Len(First(k)) = m[k]
                       /\ \A i \in 1 .. m[k] : First(k)[i] = d[i]
           T == {k \in Nat : k <= Len(s) => Right(k)}
<1>1. Len(s) \in Nat
  OBVIOUS
<1>2. 0 \in T
  <2>1. First(0) = <<>>
    <3>1. SubSeq(s, 1, 0) = <<>>
      BY SubSeqEmpty, 1 \in Int, 0 \in Int, 0 < 1
    <3> QED
      BY <3>1, FlattenEmpty, Zenon
  <2> HIDE DEF First
  <2>2. m[0] = 0 /\ <<>> \in Seq(S) /\ Len(<<>>) = 0
    BY EmptySeq
  <2>3. \A i \in 1 .. 0 : FALSE
    OBVIOUS
  <2>4. Right(0)
    BY <2>1, <2>2, <2>3, Zenon
  <2> HIDE DEF Right
  <2> QED
    BY <2>4
<1>3. ASSUME NEW k \in Nat, k \in T PROVE k + 1 \in T
  <2> SUFFICES ASSUME k + 1 <= Len(s) PROVE Right(k + 1)
    OBVIOUS
  <2>1. /\ SubSeq(s, 1, k) \in Seq(Seq(S)) /\ s[k + 1] \in Seq(S)
        /\ SubSeq(s, 1, k + 1) = Append(SubSeq(s, 1, k), s[k + 1])
    <3>1. k < Len(s) /\ s \in Seq(Seq(S))
      BY <1>1
    <3> QED
      BY <3>1, AppendLast
  <2>2. First(k + 1) = First(k) \o s[k + 1]
    BY <2>1, FlattenAppend
  <2>3. Right(k)
    BY <1>1, <1>3
  <2>4. k + 1 \in 1 .. Len(s) /\ (k + 1) - 1 = k /\ k \in 0 .. Len(s)
    BY <1>1
  <2> HIDE DEF First
  <2>5. CASE s[k + 1] = <<>> /\ m[k + 1] = m[k]
    BY <2>2, <2>3, <2>5, ConcatEmptySeq
  <2>6. CASE s[k + 1] = <<d[m[k + 1]]>> /\ m[k + 1] = m[k] + 1
    <3> DEFINE x == d[m[k + 1]]
    <3>1. m[k] \in Nat /\ x \in S
      <4>1. m[k] \in Nat
        BY <2>4
      <4>2. m[k] + 1 \in Nat \ {0}
        BY <4>1
      <4> QED
        BY <2>6, <4>1, <4>2
    <3>2. First(k + 1) = Append(First(k), x)
      <4>1. Append(First(k), x) = First(k) \o <<x>>
        BY <2>3, <3>1, AppendIsConcat
      <4> QED
        BY <2>2, <2>6, <4>1
    <3> HIDE DEF x
    <3>3. /\ First(k + 1) \in Seq(S) /\ Len(First(k + 1)) = m[k] + 1
          /\ \A i \in 1 .. m[k] : First(k + 1)[i] = First(k)[i]
          /\ First(k + 1)[m[k] + 1] = x
      <4> DEFINE before == First(k)
      <4>1. before \in Seq(S) /\ Len(before) = m[k]
        BY <2>3
      <4> HIDE DEF before
      <4>2. /\ Append(before, x) \in Seq(S) /\ Len(Append(before, x)) = m[k] + 1
            /\ \A i \in 1 .. m[k] : Append(before, x)[i] = before[i]
            /\ Append(before, x)[m[k] + 1] = x
        BY <3>1, <4>1, AppendProperties
      <4> QED
        BY <3>2, <4>2, Zenon DEF before
    <3>4. ASSUME NEW i \in 1 .. m[k] + 1 PROVE First(k + 1)[i] = d[i]
      <4>1. CASE i \in 1 .. m[k]
        BY <2>3, <3>3, <4>1
      <4>2. CASE i = m[k] + 1
        BY <2>6, <3>3, <4>2 DEF x
      <4> QED
        BY <3>1, <4>1, <4>2
    <3> QED
      BY <2>6, <3>3, <3>4
  <2>7. \/ s[k + 1] = <<>> /\ m[k + 1] = m[k]
        \/ s[k + 1] = <<d[m[k + 1]]>> /\ m[k + 1] = m[k] + 1
    BY <2>4
  <2> HIDE DEF Right
  <2> QED
    BY <2>5, <2>6, <2>7, Zenon
<1>4. \A k \in Nat : k \in T
  <2> HIDE DEF T
  <2> QED
    BY <1>2, <1>3, InductionOverSet
<1>5. SubSeq(s, 1, Len(s)) = s
  <2>1. \A i \in 1 .. Len(s) : s[i] \in Seq(S)
    OBVIOUS
  <2>2. /\ SubSeq(s, 1, Len(s)) \in Seq(Seq(S)) /\ Len(SubSeq(s, 1, Len(s))) = Len(s)
        /\ \A i \in 1 .. Len(s) : SubSeq(s, 1, Len(s))[i] = s[i]
    BY <1>1, <2>1, SubSeqProperties
  <2> QED
    BY <2>2, SeqEqual
<1>6. Right(Len(s))
  BY <1>1, <1>4
<1> QED
  BY <1>5, <1>6 DEF Picked

-----------------------------------------------------------------------------
(* The stream.                                                             *)

\* The parts of the endless stream, ten for an event, and the value of one.
Written(k) ==
  LET e == (k + 9) \div 10
      r == k % 10
  IN IF r = 1 THEN <<"event", "first", e>>
     ELSE IF r = 2 THEN <<"event", "second", e>>
     ELSE IF r = 4 THEN <<"id", "first", e>>
     ELSE IF r = 5 THEN <<"id", "second", e>>
     ELSE IF r = 7 THEN <<"data", "first", e>>
     ELSE IF r = 8 THEN <<"data", "second", e>>
     ELSE Newline

StreamParts == {Written(k) : k \in Nat}
Datum(e) == <<<<"data", "first", e>>, <<"data", "second", e>>>>
Data == {Datum(e) : e \in Nat}

\* s is what has been sent from a place on.
Follows(s, from) == s \in Seq(StreamParts) /\ \A i \in 1 .. Len(s) : s[i] = Written(from + i)

Gone == 10 * events - Len(stream)

SseInv ==
  /\ events \in Nat /\ Gone >= 0 /\ Follows(stream, Gone)
  /\ content \in Seq(Data)
  /\ \A i \in 1 .. Len(content) :
       Value(content[i]) \in Nat /\ 10 * Value(content[i]) <= Gone
  /\ \A i, j \in 1 .. Len(content) : i < j => Value(content[i]) < Value(content[j])
  /\ ~split => Gone = 10 * Len(content)

\* What is a newline, and where a line of data begins.
LEMMA WrittenIs ==
  ASSUME NEW k \in Nat
  PROVE  /\ Written(k) = Newline <=> k % 10 \in {0, 3, 6, 9}
         /\ k % 10 = 7 => Written(k) = <<"data", "first", (k + 9) \div 10>>
         /\ k % 10 = 8 => Written(k) = <<"data", "second", (k + 9) \div 10>>
         /\ Written(k) # Newline /\ Written(k)[1] = "data" /\ Written(k)[2] = "first" => k % 10 = 7
<1> DEFINE e == (k + 9) \div 10
           r == k % 10
<1>1. r \in 0 .. 9 /\ e \in Nat
  OBVIOUS
<1> HIDE DEF r, e
<1>2. /\ r = 1 => Written(k) = <<"event", "first", e>>
      /\ r = 2 => Written(k) = <<"event", "second", e>>
      /\ r = 4 => Written(k) = <<"id", "first", e>>
      /\ r = 5 => Written(k) = <<"id", "second", e>>
      /\ r = 7 => Written(k) = <<"data", "first", e>>
      /\ r = 8 => Written(k) = <<"data", "second", e>>
      /\ r \in {0, 3, 6, 9} => Written(k) = Newline
  BY DEF Written, r, e
<1>3. \A kind, half : <<kind, half, e>> # Newline
  BY DEF Newline
<1> QED
  BY <1>1, <1>2, <1>3 DEF r, e

LEMMA FollowsConcat ==
  ASSUME NEW from \in Nat, NEW s, NEW t, Follows(s, from), Follows(t, from + Len(s))
  PROVE  Follows(s \o t, from) /\ Len(s \o t) = Len(s) + Len(t)
<1>1. s \in Seq(StreamParts) /\ t \in Seq(StreamParts) /\ Len(s) \in Nat /\ Len(t) \in Nat
  BY DEF Follows
<1>2. /\ s \o t \in Seq(StreamParts) /\ Len(s \o t) = Len(s) + Len(t)
      /\ \A i \in 1 .. Len(s) + Len(t) :
           (s \o t)[i] = IF i <= Len(s) THEN s[i] ELSE t[i - Len(s)]
  BY <1>1, ConcatProperties
<1>3. ASSUME NEW i \in 1 .. Len(s) + Len(t) PROVE (s \o t)[i] = Written(from + i)
  <2>1. CASE i <= Len(s)
    BY <1>1, <1>2, <2>1 DEF Follows
  <2>2. CASE i > Len(s)
    <3>1. i - Len(s) \in 1 .. Len(t) /\ from + Len(s) + (i - Len(s)) = from + i
      BY <1>1, <2>2
    <3>2. t[i - Len(s)] = Written(from + Len(s) + (i - Len(s)))
      BY <3>1 DEF Follows
    <3> QED
      BY <1>1, <1>2, <2>2, <3>1, <3>2
  <2> QED
    BY <1>1, <2>1, <2>2
<1> QED
  BY <1>2, <1>3 DEF Follows

LEMMA SentParts == \A k \in Nat : Written(k) \in StreamParts
BY DEF StreamParts

LEMMA ThreeParts ==
  ASSUME NEW S, NEW a \in S, NEW b \in S, NEW c \in S
  PROVE  /\ <<a, b, c>> \in Seq(S) /\ Len(<<a, b, c>>) = 3
         /\ <<a, b, c>>[1] = a /\ <<a, b, c>>[2] = b /\ <<a, b, c>>[3] = c
OBVIOUS

LEMMA LineFollows ==
  ASSUME NEW e \in Nat, NEW kind, NEW off \in {0, 3, 6},
         kind = IF off = 0 THEN "event" ELSE IF off = 3 THEN "id" ELSE "data"
  PROVE  Follows(Line(kind, e + 1), 10 * e + off) /\ Len(Line(kind, e + 1)) = 3
<1> DEFINE k == 10 * e + off
<1>1. /\ (k + 1) % 10 = off + 1 /\ (k + 2) % 10 = off + 2 /\ (k + 3) % 10 = off + 3
      /\ (k + 1 + 9) \div 10 = e + 1 /\ (k + 2 + 9) \div 10 = e + 1
  OBVIOUS
<1>2. k + 1 \in Nat /\ k + 2 \in Nat /\ k + 3 \in Nat
  OBVIOUS
<1> HIDE DEF k
<1>3. Written(k + 1) = <<kind, "first", e + 1>>
  BY <1>1 DEF Written
<1>4. Written(k + 2) = <<kind, "second", e + 1>>
  BY <1>1 DEF Written
<1>5. Written(k + 3) = Newline
  BY <1>1 DEF Written
<1>6. Line(kind, e + 1) = <<Written(k + 1), Written(k + 2), Written(k + 3)>>
  BY <1>3, <1>4, <1>5, Zenon DEF Line
<1>7. Written(k + 1) \in StreamParts /\ Written(k + 2) \in StreamParts /\ Written(k + 3) \in StreamParts
  BY <1>2, SentParts
<1>8. /\ Line(kind, e + 1) \in Seq(StreamParts) /\ Len(Line(kind, e + 1)) = 3
      /\ Line(kind, e + 1)[1] = Written(k + 1) /\ Line(kind, e + 1)[2] = Written(k + 2)
      /\ Line(kind, e + 1)[3] = Written(k + 3)
  <2>1. \A a, b, c \in StreamParts :
          /\ <<a, b, c>> \in Seq(StreamParts) /\ Len(<<a, b, c>>) = 3
          /\ <<a, b, c>>[1] = a /\ <<a, b, c>>[2] = b /\ <<a, b, c>>[3] = c
    BY ThreeParts
  <2>2. PICK a, b, c \in StreamParts :
          a = Written(k + 1) /\ b = Written(k + 2) /\ c = Written(k + 3)
    BY <1>7
  <2>3. Line(kind, e + 1) = <<a, b, c>>
    BY <1>6, <2>2
  <2>4. /\ <<a, b, c>> \in Seq(StreamParts) /\ Len(<<a, b, c>>) = 3
        /\ <<a, b, c>>[1] = a /\ <<a, b, c>>[2] = b /\ <<a, b, c>>[3] = c
    BY <2>1
  <2> QED
    BY <2>2, <2>3, <2>4, Zenon
<1>9. \A i \in 1 .. 3 : i = 1 \/ i = 2 \/ i = 3
  OBVIOUS
<1>10. \A i \in 1 .. 3 : Line(kind, e + 1)[i] = Written(k + i)
  BY <1>8, <1>9, Zenon
<1>11. Follows(Line(kind, e + 1), k)
  BY <1>8, <1>10, Zenon DEF Follows
<1> QED
  BY <1>8, <1>11 DEF k

LEMMA SseInitInv == SseInit => SseInv
<1> SUFFICES ASSUME SseInit PROVE SseInv
  OBVIOUS
<1>1. events = 0 /\ stream = <<>> /\ content = <<>> /\ Len(<<>>) = 0
  BY EmptySeq DEF SseInit
<1>2. <<>> \in Seq(StreamParts) /\ <<>> \in Seq(Data)
  BY EmptySeq
<1>3. Follows(<<>>, 0)
  BY <1>1, <1>2 DEF Follows
<1>4. Gone = 0
  <2>1. Len(stream) = 0 /\ events = 0
    BY <1>1
  <2> QED
    BY <2>1 DEF Gone
<1> QED
  BY <1>1, <1>2, <1>3, <1>4 DEF SseInv

\* An event goes behind what is there.
LEMMA TickKeeps ==
  ASSUME SseInv, Tick
  PROVE  SseInv'
<1> DEFINE e == events
           one == Line("event", e + 1)
           two == Line("id", e + 1)
           three == Line("data", e + 1)
           last == <<Newline>>
<1>1. /\ events' = e + 1 /\ UNCHANGED <<split, content>>
      /\ stream' = stream \o one \o two \o three \o last
  BY DEF Tick
<1>2. e \in Nat /\ Gone \in Nat /\ Follows(stream, Gone) /\ Len(stream) \in Nat
      /\ Gone + Len(stream) = 10 * e
  BY DEF SseInv, Gone, Follows
<1>3. /\ Follows(one, 10 * e) /\ Len(one) = 3
      /\ Follows(two, 10 * e + 3) /\ Len(two) = 3
      /\ Follows(three, 10 * e + 6) /\ Len(three) = 3
  <2>1. Follows(one, 10 * e + 0) /\ Len(one) = 3
    BY <1>2, LineFollows
  <2>2. Follows(two, 10 * e + 3) /\ Len(two) = 3
    BY <1>2, LineFollows
  <2>3. Follows(three, 10 * e + 6) /\ Len(three) = 3
    BY <1>2, LineFollows
  <2>4. 10 * e + 0 = 10 * e
    BY <1>2
  <2> HIDE DEF one, two, three
  <2> QED
    BY <2>1, <2>2, <2>3, <2>4
<1>4. Follows(last, 10 * e + 9) /\ Len(last) = 1
  <2>1. (10 * e + 9 + 1) % 10 = 0 /\ 10 * e + 9 + 1 \in Nat
    BY <1>2
  <2>2. Written(10 * e + 9 + 1) = Newline
    BY <2>1, WrittenIs
  <2>3. Newline \in StreamParts
    BY <2>1, <2>2, SentParts
  <2>4. last \in Seq(StreamParts) /\ Len(last) = 1 /\ last[1] = Newline
    BY <2>3
  <2>5. \A i \in 1 .. 1 : i = 1
    OBVIOUS
  <2> HIDE DEF last
  <2> QED
    BY <2>2, <2>4, <2>5 DEF Follows
<1> HIDE DEF one, two, three, last
<1>5. Follows(stream \o one, Gone) /\ Len(stream \o one) = Len(stream) + 3
  <2>1. Follows(one, Gone + Len(stream))
    BY <1>2, <1>3, Zenon
  <2>2. /\ Follows(stream \o one, Gone)
        /\ Len(stream \o one) = Len(stream) + Len(one)
    BY <1>2, <2>1, FollowsConcat, ZenonT(40)
  <2> QED
    BY <1>3, <2>2
<1>6. /\ Follows(stream \o one \o two, Gone)
      /\ Len(stream \o one \o two) = Len(stream) + 6
  <2>1. Gone + Len(stream \o one) = 10 * e + 3
    BY <1>2, <1>5
  <2>2. Follows(two, Gone + Len(stream \o one))
    BY <1>3, <2>1, Zenon
  <2>3. /\ Follows(stream \o one \o two, Gone)
        /\ Len(stream \o one \o two) = Len(stream \o one) + Len(two)
    BY <1>2, <1>5, <2>2, FollowsConcat, ZenonT(40)
  <2> QED
    BY <1>2, <1>3, <1>5, <2>3
<1>7. /\ Follows(stream \o one \o two \o three, Gone)
      /\ Len(stream \o one \o two \o three) = Len(stream) + 9
  <2>1. Gone + Len(stream \o one \o two) = 10 * e + 6
    BY <1>2, <1>6
  <2>2. Follows(three, Gone + Len(stream \o one \o two))
    BY <1>3, <2>1, Zenon
  <2>3. /\ Follows(stream \o one \o two \o three, Gone)
        /\ Len(stream \o one \o two \o three) = Len(stream \o one \o two) + Len(three)
    BY <1>2, <1>6, <2>2, FollowsConcat, ZenonT(40)
  <2> QED
    BY <1>2, <1>3, <1>6, <2>3
<1>8. Follows(stream', Gone) /\ Len(stream') = Len(stream) + 10
  <2>1. Gone + Len(stream \o one \o two \o three) = 10 * e + 9
    BY <1>2, <1>7
  <2> DEFINE t == stream \o one \o two \o three
  <2>2. Follows(last, Gone + Len(t))
    BY <1>4, <2>1, Zenon
  <2>a. Follows(t, Gone) /\ Gone \in Nat
    BY <1>2, <1>7
  <2>3. Follows(t \o last, Gone) /\ Len(t \o last) = Len(t) + Len(last)
    <3> HIDE DEF t
    <3> QED
      BY <2>a, <2>2, FollowsConcat
  <2>4. stream' = t \o last
    BY <1>1
  <2>5. Len(t) + Len(last) = Len(stream) + 10
    BY <1>2, <1>4, <1>7
  <2> QED
    BY <2>3, <2>4, <2>5, Zenon
<1>9. Gone' = Gone
  BY <1>1, <1>2, <1>8 DEF Gone
<1>10. Follows(stream, Gone)'
  BY <1>8, <1>9 DEF Follows, Written, StreamParts, Newline
<1> QED
  BY <1>1, <1>2, <1>9, <1>10 DEF SseInv, Value

-----------------------------------------------------------------------------
(* What the page shows of a chunk.                                         *)

\* A chunk of n parts that begins behind the first c of the stream.
Chunk(chunk, c, n) == c \in Nat /\ n \in Nat /\ Len(chunk) = n /\ Follows(chunk, c)

LEMMA ChunkParts ==
  ASSUME NEW c, NEW n, NEW chunk, Chunk(chunk, c, n), NEW p \in 1 .. n
  PROVE  /\ chunk[p] = Written(c + p) /\ c + p \in Nat
         /\ chunk[p] = Newline <=> (c + p) % 10 \in {0, 3, 6, 9}
BY WrittenIs DEF Chunk, Follows

LEMMA MinIs ==
  ASSUME NEW X \in SUBSET Nat, NEW m \in X, \A x \in X : m <= x
  PROVE  Min(X) = m
<1> DEFINE Least(z) == z \in X /\ \A y \in X : z =< y
<1>1. Least(m)
  OBVIOUS
<1>2. \A z : Least(z) => z = m
  OBVIOUS
<1>3. Min(X) = CHOOSE z : Least(z)
  BY DEF Min
<1> HIDE DEF Least
<1> QED
  BY <1>1, <1>2, <1>3

\* The newlines behind the beginning of a line of data.
LEMMA NewlinesOfData ==
  ASSUME NEW c, NEW n, NEW chunk, Chunk(chunk, c, n), NEW p \in 1 .. n, (c + p) % 10 = 7
  PROVE  /\ Newlines(chunk, p) \subseteq p + 2 .. n
         /\ p + 2 <= n => p + 2 \in Newlines(chunk, p)
         /\ p + 3 <= n => p + 3 \in Newlines(chunk, p)
         /\ Begins(chunk, p)
<1>1. c \in Nat /\ n \in Nat /\ Len(chunk) = n
  BY DEF Chunk
<1>2. \A q \in 1 .. n : chunk[q] = Newline <=> (c + q) % 10 \in {0, 3, 6, 9}
  BY ChunkParts
<1>3. /\ (c + (p + 1)) % 10 = 8 /\ (c + (p + 2)) % 10 = 9 /\ (c + (p + 3)) % 10 = 0
      /\ p > 1 => (c + (p - 1)) % 10 = 6
  BY <1>1
<1>4. \A q \in p .. n : (q = p \/ q = p + 1) \/ q \in p + 2 .. n
  BY <1>1
<1>5. \A q : q \in Newlines(chunk, p) <=> q \in p .. n /\ chunk[q] = Newline
  BY <1>1 DEF Newlines
<1>6. p .. n \subseteq 1 .. n /\ (p > 1 => p - 1 \in 1 .. n)
  BY <1>1
<1>7. Begins(chunk, p)
  <2>1. CASE p = 1
    BY <2>1 DEF Begins
  <2>2. CASE p > 1
    BY <1>2, <1>3, <1>6, <2>2 DEF Begins
  <2> QED
    BY <1>1, <2>1, <2>2
<1>8. p + 2 <= n => p + 2 \in Newlines(chunk, p)
  BY <1>1, <1>2, <1>3, <1>5
<1>9. p + 3 <= n => p + 3 \in Newlines(chunk, p)
  BY <1>1, <1>2, <1>3, <1>5
<1>10. ASSUME NEW q \in Newlines(chunk, p) PROVE q \in p + 2 .. n
  BY <1>2, <1>3, <1>4, <1>5, <1>6
<1> QED
  BY <1>7, <1>8, <1>9, <1>10

\* What is shown of a place of a chunk: a datum where a line of data begins that
\* has two newlines behind it, and nothing anywhere else.
LEMMA DataIsShown ==
  ASSUME NEW c, NEW n, NEW chunk, Chunk(chunk, c, n), NEW p \in 1 .. n,
         (c + p) % 10 = 7, p + 3 <= n
  PROVE  /\ Begins(chunk, p) /\ Stays(chunk, p)
         /\ Fragment(chunk, p) = Datum((c + p + 3) \div 10)
         /\ IsData(Fragment(chunk, p))
<1>1. c \in Nat /\ n \in Nat /\ Len(chunk) = n /\ chunk \in Seq(StreamParts)
  BY DEF Chunk, Follows
<1> DEFINE X == Newlines(chunk, p)
           e == (c + p + 3) \div 10
<1>2. X \subseteq p + 2 .. n /\ p + 2 \in X /\ p + 3 \in X /\ Begins(chunk, p)
  <2>1. /\ X \subseteq p + 2 .. n /\ Begins(chunk, p)
        /\ p + 2 <= n => p + 2 \in X
        /\ p + 3 <= n => p + 3 \in X
    BY NewlinesOfData, Zenon
  <2>2. p + 2 <= n
    BY <1>1
  <2> QED
    BY <2>1, <2>2, Zenon
<1>3. Stays(chunk, p)
  BY <1>1, <1>2 DEF Stays
<1> HIDE DEF X
<1>4. Min(X) = p + 2
  <2>1. X \in SUBSET Nat /\ \A x \in X : p + 2 <= x
    BY <1>1, <1>2
  <2> QED
    BY <1>2, <2>1, MinIs
<1>5. Fragment(chunk, p) = SubSeq(chunk, p, p + 1)
  <2>1. Min(X) - 1 = p + 1
    BY <1>1, <1>4
  <2> QED
    BY <2>1, Zenon DEF Fragment, X
<1>6. /\ SubSeq(chunk, p, p + 1) \in Seq(StreamParts) /\ Len(SubSeq(chunk, p, p + 1)) = 2
      /\ SubSeq(chunk, p, p + 1)[1] = chunk[p]
      /\ SubSeq(chunk, p, p + 1)[2] = chunk[p + 1]
  BY <1>1
<1>7. chunk[p] = <<"data", "first", e>> /\ chunk[p + 1] = <<"data", "second", e>>
  <2>1. /\ (c + p + 9) \div 10 = e /\ (c + (p + 1) + 9) \div 10 = e
        /\ (c + (p + 1)) % 10 = 8
    BY <1>1
  <2>2. p + 1 \in 1 .. n
    BY <1>1
  <2>3. /\ chunk[p] = Written(c + p) /\ c + p \in Nat
        /\ chunk[p + 1] = Written(c + (p + 1)) /\ c + (p + 1) \in Nat
    BY <2>2, ChunkParts
  <2> HIDE DEF e
  <2> QED
    BY <2>1, <2>3, WrittenIs
<1> HIDE DEF e
<1>8. Fragment(chunk, p) = Datum(e)
  <2>1. /\ Datum(e) \in Seq(StreamParts) /\ Len(Datum(e)) = 2
        /\ Datum(e)[1] = <<"data", "first", e>> /\ Datum(e)[2] = <<"data", "second", e>>
    <3>1. chunk[p] \in StreamParts /\ chunk[p + 1] \in StreamParts
      BY <1>1
    <3>2. <<"data", "first", e>> \in StreamParts /\ <<"data", "second", e>> \in StreamParts
      BY <1>7, <3>1
    <3> QED
      BY <3>2 DEF Datum
  <2>2. \A i \in 1 .. 2 : i = 1 \/ i = 2
    OBVIOUS
  <2>3. \A i \in 1 .. 2 : SubSeq(chunk, p, p + 1)[i] = Datum(e)[i]
    BY <1>6, <1>7, <2>1, <2>2, Zenon
  <2>4. SubSeq(chunk, p, p + 1) = Datum(e)
    <3>1. /\ SubSeq(chunk, p, p + 1) \in Seq(StreamParts)
          /\ Len(SubSeq(chunk, p, p + 1)) = Len(Datum(e))
          /\ \A i \in 1 .. Len(SubSeq(chunk, p, p + 1)) : SubSeq(chunk, p, p + 1)[i] = Datum(e)[i]
      BY <1>6, <2>1, <2>3
    <3> QED
      BY <2>1, <3>1, SeqEqual, Zenon
  <2> QED
    BY <1>5, <2>4
<1>9. IsData(Datum(e))
  BY DEF IsData, Datum
<1> QED
  BY <1>2, <1>3, <1>8, <1>9 DEF e

LEMMA OnlyDataIsShown ==
  ASSUME NEW c, NEW n, NEW chunk, Chunk(chunk, c, n), NEW p \in 1 .. n,
         Stays(chunk, p), IsData(Fragment(chunk, p))
  PROVE  (c + p) % 10 = 7 /\ p + 3 <= n
<1>1. c \in Nat /\ n \in Nat /\ Len(chunk) = n /\ chunk \in Seq(StreamParts)
  BY DEF Chunk, Follows
<1> DEFINE X == Newlines(chunk, p)
<1>2. X \subseteq p .. n
  BY <1>1 DEF Newlines
<1>3. PICK q, r \in X : q < r
  BY DEF Stays
<1>4. PICK m \in X : \A x \in X : m <= x
  <2>1. X \in SUBSET Nat /\ X # {}
    BY <1>1, <1>2, <1>3
  <2> HIDE DEF X
  <2> QED
    BY <2>1, LeastNatural
<1> HIDE DEF X
<1>5. m \in p .. n /\ Min(X) = m
  <2>1. X \in SUBSET Nat
    BY <1>1, <1>2
  <2> QED
    BY <1>2, <1>4, <2>1, MinIs
<1>6. Fragment(chunk, p) = SubSeq(chunk, p, m - 1)
  BY <1>5, Zenon DEF Fragment, X
<1>7. m # p
  <2> SUFFICES ASSUME m = p PROVE FALSE
    OBVIOUS
  <2>1. SubSeq(chunk, p, m - 1) = <<>>
    BY <1>1, <1>5, SubSeqEmpty
  <2> QED
    BY <1>6, <2>1 DEF IsData
<1>8. SubSeq(chunk, p, m - 1)[1] = chunk[p]
  BY <1>1, <1>5, <1>7
<1>9. p \notin X
  BY <1>1, <1>5, <1>7, <1>4
<1>10. chunk[p] # Newline
  BY <1>1, <1>9 DEF X, Newlines
<1>11. chunk[p] = Written(c + p) /\ c + p \in Nat
  BY ChunkParts
<1>12. Written(c + p)[1] = "data" /\ Written(c + p)[2] = "first"
  BY <1>6, <1>8, <1>11 DEF IsData
<1>13. (c + p) % 10 = 7
  BY <1>10, <1>11, <1>12, WrittenIs
<1>14. p + 3 <= n
  <2>1. X \subseteq p + 2 .. n
    BY <1>13, NewlinesOfData DEF X
  <2> QED
    BY <1>1, <1>3, <2>1
<1> QED
  BY <1>13, <1>14
\* How much of the stream before its place k has been shown whole, of a chunk
\* of n parts behind the first c.
Reach(c, n, k) == IF k + 3 <= n THEN c + k + 3 ELSE IF 3 <= n THEN c + n ELSE c + 3
Tens(c, n, k) == (Reach(c, n, k) \div 10) - ((c + 3) \div 10)

LEMMA TensGrow ==
  ASSUME NEW c \in Nat, NEW n \in Nat
  PROVE  /\ Tens(c, n, 0) = 0
         /\ \A k \in 0 .. n : Tens(c, n, k) \in Nat
         /\ \A k \in 1 .. n :
              IF (c + k) % 10 = 7 /\ k + 3 <= n
                THEN /\ Tens(c, n, k) = Tens(c, n, k - 1) + 1
                     /\ ((c + 3) \div 10) + Tens(c, n, k) = (c + k + 3) \div 10
                ELSE Tens(c, n, k) = Tens(c, n, k - 1)
<1>1. Tens(c, n, 0) = 0
  BY DEF Tens, Reach
<1>2. ASSUME NEW k \in 0 .. n PROVE Tens(c, n, k) \in Nat
  <2>1. Reach(c, n, k) \in Nat /\ Reach(c, n, k) >= c + 3
    BY DEF Reach
  <2> QED
    BY <2>1 DEF Tens
<1>3. ASSUME NEW k \in 1 .. n
      PROVE  IF (c + k) % 10 = 7 /\ k + 3 <= n
                THEN /\ Tens(c, n, k) = Tens(c, n, k - 1) + 1
                     /\ ((c + 3) \div 10) + Tens(c, n, k) = (c + k + 3) \div 10
                ELSE Tens(c, n, k) = Tens(c, n, k - 1)
  <2>1. CASE k + 3 <= n
    <3>1. Reach(c, n, k) = c + k + 3 /\ Reach(c, n, k - 1) = c + k + 2
      BY <2>1 DEF Reach
    <3>2. (c + k + 3) \div 10 =
            IF (c + k) % 10 = 7 THEN ((c + k + 2) \div 10) + 1 ELSE (c + k + 2) \div 10
      OBVIOUS
    <3> QED
      BY <2>1, <3>1, <3>2 DEF Tens
  <2>2. CASE k + 3 > n
    <3>1. Reach(c, n, k) = Reach(c, n, k - 1)
      BY <2>2 DEF Reach
    <3> QED
      BY <2>2, <3>1 DEF Tens
  <2> QED
    BY <2>1, <2>2
<1> QED
  BY <1>1, <1>2, <1>3

\* A chunk shows the data of which it has the line and a newline more.
LEMMA ShownIs ==
  ASSUME NEW c, NEW n, NEW chunk, Chunk(chunk, c, n)
  PROVE  /\ Shown(chunk) \in Seq(Data) /\ Len(Shown(chunk)) = Tens(c, n, n)
         /\ \A i \in 1 .. Tens(c, n, n) : Shown(chunk)[i] = Datum(((c + 3) \div 10) + i)
<1>1. c \in Nat /\ n \in Nat /\ Len(chunk) = n
  BY DEF Chunk
<1> DEFINE a == (c + 3) \div 10
           Here(p) == Begins(chunk, p) /\ Stays(chunk, p) /\ IsData(Fragment(chunk, p))
           s == [p \in 1 .. n |-> IF Here(p) THEN <<Fragment(chunk, p)>> ELSE <<>>]
           d == [i \in Nat \ {0} |-> Datum(a + i)]
           m == [k \in 0 .. n |-> Tens(c, n, k)]
<1>2. Shown(chunk) = FlattenSeq(s)
  BY <1>1, Zenon DEF Shown
<1>3. a \in Nat
  BY <1>1
<1>4. ASSUME NEW p \in 1 .. n
      PROVE  IF (c + p) % 10 = 7 /\ p + 3 <= n
               THEN Here(p) /\ Fragment(chunk, p) = Datum((c + p + 3) \div 10)
               ELSE ~Here(p)
  BY DataIsShown, OnlyDataIsShown, Zenon
<1> HIDE DEF Here
<1>5. ASSUME NEW p \in 1 .. n
      PROVE  IF (c + p) % 10 = 7 /\ p + 3 <= n
               THEN s[p] = <<Datum((c + p + 3) \div 10)>>
               ELSE s[p] = <<>>
  BY <1>4, <1>5
<1>6. s = [p \in 1 .. n |-> s[p]] /\ DOMAIN s = 1 .. n
  OBVIOUS
<1> HIDE DEF s
<1>7. \A e \in Nat : Datum(e) \in Data
  BY DEF Data
<1>8. d \in [Nat \ {0} -> Data] /\ \A i \in Nat \ {0} : d[i] = Datum(a + i)
  <2> HIDE DEF a
  <2> QED
    BY <1>3, <1>7
<1>9. /\ m \in [0 .. n -> Nat] /\ m[0] = 0 /\ m[n] = Tens(c, n, n)
      /\ \A k \in 0 .. n : m[k] = Tens(c, n, k)
  <2>1. Tens(c, n, 0) = 0 /\ \A k \in 0 .. n : Tens(c, n, k) \in Nat
    BY <1>1, TensGrow
  <2>2. 0 \in 0 .. n /\ n \in 0 .. n
    BY <1>1
  <2> QED
    BY <2>1, <2>2
<1> HIDE DEF d, m
<1>10. s \in Seq(Seq(Data)) /\ Len(s) = n
  <2>1. \A p \in 1 .. n : s[p] \in Seq(Data)
    <3> SUFFICES ASSUME NEW p \in 1 .. n PROVE s[p] \in Seq(Data)
      OBVIOUS
    <3>1. (c + p + 3) \div 10 \in Nat
      BY <1>1
    <3>2. Datum((c + p + 3) \div 10) \in Data
      BY <3>1, <1>7
    <3>3. <<Datum((c + p + 3) \div 10)>> \in Seq(Data) /\ <<>> \in Seq(Data)
      BY <3>2
    <3> QED
      BY <1>5, <3>3, Zenon
  <2> QED
    BY <1>1, <1>6, <2>1
<1>11. ASSUME NEW k \in 1 .. n
       PROVE  \/ s[k] = <<>> /\ m[k] = m[k - 1]
              \/ s[k] = <<d[m[k]]>> /\ m[k] = m[k - 1] + 1
  <2>1. m[k] = Tens(c, n, k) /\ m[k - 1] = Tens(c, n, k - 1) /\ m[k - 1] \in Nat
    BY <1>1, <1>9
  <2>2. CASE (c + k) % 10 = 7 /\ k + 3 <= n
    <3>1. m[k] = m[k - 1] + 1 /\ a + m[k] = (c + k + 3) \div 10
      BY <1>1, <2>1, <2>2, TensGrow
    <3>2. d[m[k]] = Datum((c + k + 3) \div 10)
      <4>1. m[k] \in Nat \ {0}
        BY <2>1, <3>1
      <4> QED
        BY <1>8, <3>1, <4>1
    <3> QED
      BY <1>5, <2>2, <3>1, <3>2, Zenon
  <2>3. CASE ~((c + k) % 10 = 7 /\ k + 3 <= n)
    <3>1. m[k] = m[k - 1]
      BY <1>1, <2>1, <2>3, TensGrow
    <3> QED
      BY <1>5, <2>3, <3>1, Zenon
  <2> QED
    BY <2>2, <2>3
<1>12. /\ FlattenSeq(s) \in Seq(Data) /\ Len(FlattenSeq(s)) = m[n]
       /\ \A i \in 1 .. m[n] : FlattenSeq(s)[i] = d[i]
  <2>1. m \in [0 .. Len(s) -> Nat] /\ m[Len(s)] = m[n]
    BY <1>9, <1>10
  <2>2. \A k \in 1 .. Len(s) :
          \/ s[k] = <<>> /\ m[k] = m[k - 1]
          \/ s[k] = <<d[m[k]]>> /\ m[k] = m[k - 1] + 1
    BY <1>10, <1>11
  <2>3. /\ FlattenSeq(s) \in Seq(Data) /\ Len(FlattenSeq(s)) = m[Len(s)]
        /\ \A i \in 1 .. m[Len(s)] : FlattenSeq(s)[i] = d[i]
    <3>1. Picks(Data, s, d, m)
      BY <1>8, <1>9, <1>10, <2>1, <2>2, Zenon DEF Picks
    <3>2. Picked(Data, s, d, m)
      BY <3>1, FlattenPicks
    <3> QED
      BY <3>2, Zenon DEF Picked
  <2> QED
    BY <2>1, <2>3
<1>13. \A i \in 1 .. m[n] : i \in Nat \ {0}
  BY <1>1, <1>9
<1> QED
  BY <1>2, <1>8, <1>9, <1>12, <1>13

\* What lies behind the first n of a stream.
LEMMA FollowsTail ==
  ASSUME NEW from \in Nat, NEW s, Follows(s, from), NEW n \in 0 .. Len(s)
  PROVE  /\ Follows(SubSeq(s, n + 1, Len(s)), from + n)
         /\ Len(SubSeq(s, n + 1, Len(s))) = Len(s) - n
<1>1. s \in Seq(StreamParts) /\ Len(s) \in Nat /\ n \in Nat
  BY DEF Follows
<1>2. /\ SubSeq(s, n + 1, Len(s)) \in Seq(StreamParts)
      /\ Len(SubSeq(s, n + 1, Len(s))) = Len(s) - n
      /\ \A i \in 1 .. Len(s) - n : SubSeq(s, n + 1, Len(s))[i] = s[n + i]
  BY <1>1
<1>3. \A i \in 1 .. Len(s) - n : n + i \in 1 .. Len(s) /\ from + (n + i) = from + n + i
  BY <1>1
<1>4. \A i \in 1 .. Len(s) : s[i] = Written(from + i)
  BY DEF Follows
<1>5. \A i \in 1 .. Len(s) - n : SubSeq(s, n + 1, Len(s))[i] = Written(from + n + i)
  BY <1>2, <1>3, <1>4
<1> QED
  BY <1>2, <1>5 DEF Follows

LEMMA FollowsHead ==
  ASSUME NEW from \in Nat, NEW s, Follows(s, from), NEW n \in 0 .. Len(s)
  PROVE  Chunk(SubSeq(s, 1, n), from, n)
<1>1. s \in Seq(StreamParts) /\ Len(s) \in Nat /\ n \in Nat
  BY DEF Follows
<1>2. /\ SubSeq(s, 1, n) \in Seq(StreamParts) /\ Len(SubSeq(s, 1, n)) = n
      /\ \A i \in 1 .. n : SubSeq(s, 1, n)[i] = s[i]
  BY <1>1
<1>3. \A i \in 1 .. Len(s) : s[i] = Written(from + i)
  BY DEF Follows
<1>4. \A i \in 1 .. n : SubSeq(s, 1, n)[i] = Written(from + i)
  BY <1>1, <1>2, <1>3
<1>5. Follows(SubSeq(s, 1, n), from)
  BY <1>2, <1>4 DEF Follows
<1> QED
  BY <1>1, <1>2, <1>5 DEF Chunk

LEMMA DatumIs ==
  \A e \in Nat : Datum(e) \in Data /\ Value(Datum(e)) = e /\ Len(Datum(e)) = 2
BY DEF Data, Datum, Value

\* Reading a chunk shows what follows what has been shown.
LEMMA ReadChunkKeeps ==
  ASSUME SseInv, ReadChunk
  PROVE  SseInv'
<1>1. PICK n \in 1 .. Len(stream) :
        /\ content' = content \o Shown(SubSeq(stream, 1, n))
        /\ stream' = SubSeq(stream, n + 1, Len(stream))
        /\ split' = (split \/ Len(stream') % 10 # 0)
        /\ UNCHANGED events
  BY DEF ReadChunk
<1> DEFINE c == Gone
           a == (c + 3) \div 10
           new == Shown(SubSeq(stream, 1, n))
           k == Tens(c, n, n)
           was == Len(content)
<1>2. /\ events \in Nat /\ c \in Nat /\ Follows(stream, c) /\ Len(stream) \in Nat
      /\ c = 10 * events - Len(stream) /\ content \in Seq(Data) /\ was \in Nat
  BY DEF SseInv, Gone, Follows
<1>3. /\ \A i \in 1 .. was : Value(content[i]) \in Nat /\ 10 * Value(content[i]) <= c
      /\ \A i, j \in 1 .. was : i < j => Value(content[i]) < Value(content[j])
      /\ ~split => c = 10 * was
  BY DEF SseInv
<1>4. n \in Nat /\ n >= 1 /\ n \in 0 .. Len(stream)
  BY <1>2
<1> HIDE DEF c
<1>5. Follows(stream', c + n) /\ Len(stream') = Len(stream) - n
  BY <1>1, <1>2, <1>4, FollowsTail
<1>6. Gone' = c + n
  <2>1. events' = events
    BY <1>1
  <2>2. Gone' = 10 * events' - Len(stream')
    BY DEF Gone
  <2> QED
    BY <1>2, <1>4, <1>5, <2>1, <2>2
<1>7. /\ new \in Seq(Data) /\ Len(new) = k
      /\ \A i \in 1 .. k : new[i] = Datum(a + i)
  <2>1. Chunk(SubSeq(stream, 1, n), c, n)
    BY <1>2, <1>4, FollowsHead
  <2> QED
    BY <2>1, ShownIs, Zenon
<1>8. k \in Nat
  BY <1>2, <1>4, TensGrow
<1>9. a \in Nat /\ c < 10 * a + 7 /\ (k > 0 => 10 * (a + k) <= c + n)
  <2>1. a \in Nat /\ c < 10 * a + 7
    BY <1>2
  <2>2. CASE n >= 3
    <3>1. k = ((c + n) \div 10) - a
      BY <1>4, <2>2 DEF Tens, Reach
    <3>2. 10 * ((c + n) \div 10) <= c + n /\ (c + n) \div 10 \in Nat
      BY <1>2, <1>4
    <3> HIDE DEF a, k
    <3> QED
      BY <2>1, <3>1, <3>2
  <2>3. CASE n < 3
    <3>1. Reach(c, n, n) = c + 3
      BY <1>4, <2>3 DEF Reach
    <3>2. k = a - a
      BY <3>1, Zenon DEF Tens
    <3>3. k = 0
      <4> HIDE DEF a, k
      <4> QED
        BY <2>1, <3>2
    <3> HIDE DEF a, k
    <3> QED
      BY <2>1, <3>3
  <2> QED
    BY <1>4, <2>1, <2>2, <2>3
<1>10. /\ ~split /\ Len(stream') % 10 = 0 => c + n = 10 * (was + k)
  <2> SUFFICES ASSUME ~split, Len(stream') % 10 = 0 PROVE c + n = 10 * (was + k)
    OBVIOUS
  <2>1. c = 10 * was /\ a = was
    BY <1>2, <1>3
  <2> PICK x \in Nat : Len(stream') = 10 * x
    <3>1. Len(stream') \in Nat
      BY <1>2, <1>4, <1>5
    <3> QED
      BY <3>1
  <2>2. n = 10 * (events - x - was)
    BY <1>2, <1>5, <2>1
  <2>3. n >= 10
    BY <1>2, <1>4, <2>2
  <2>4. k = ((c + n) \div 10) - was
    <3>1. Reach(c, n, n) = c + n
      BY <1>4, <2>3 DEF Reach
    <3>2. Tens(c, n, n) = ((c + n) \div 10) - a
      BY <3>1, Zenon DEF Tens
    <3> HIDE DEF a
    <3> QED
      BY <2>1, <3>2
  <2>5. (c + n) \div 10 = events - x /\ c + n = 10 * (events - x)
    <3>1. c + n = 10 * (events - x) /\ events - x \in Int
      BY <1>2, <1>4, <2>1, <2>2
    <3>2. \A y \in Int : (10 * y) \div 10 = y
      OBVIOUS
    <3> QED
      BY <3>1, <3>2
  <2>6. events - x \in Int
    BY <1>2
  <2> HIDE DEF k, was
  <2> QED
    BY <1>2, <2>4, <2>5, <2>6
<1> HIDE DEF a, k, new, was
<1>11. /\ content' \in Seq(Data) /\ Len(content') = was + k
       /\ \A i \in 1 .. was : content'[i] = content[i]
       /\ \A i \in 1 .. k : content'[was + i] = Datum(a + i)
  <2>1. content' = content \o new
    BY <1>1 DEF new
  <2>2. /\ content \o new \in Seq(Data) /\ Len(content \o new) = Len(content) + Len(new)
        /\ \A i \in 1 .. Len(content) + Len(new) : (content \o new)[i] =
             IF i <= Len(content) THEN content[i] ELSE new[i - Len(content)]
    BY <1>2, <1>7, ConcatProperties
  <2>3. Len(content) = was
    BY DEF was
  <2>4. \A i \in 1 .. k : was + i \in 1 .. was + k /\ was + i > was /\ was + i - was = i
    BY <1>2, <1>8
  <2>5. /\ content' \in Seq(Data) /\ Len(content') = was + k
        /\ \A i \in 1 .. was + k : content'[i] =
             IF i <= was THEN content[i] ELSE new[i - was]
    BY <1>7, <2>1, <2>2, <2>3
  <2>6. \A i \in 1 .. was : content'[i] = content[i]
    BY <1>2, <1>8, <2>5
  <2>7. \A i \in 1 .. k : content'[was + i] = new[i]
    BY <1>2, <1>8, <2>4, <2>5
  <2> QED
    BY <1>7, <2>5, <2>6, <2>7
<1> DEFINE val == [i \in 1 .. was + k |-> Value(content'[i])]
<1>12. \A i \in 1 .. was + k :
         \/ i \in 1 .. was /\ val[i] = Value(content[i])
         \/ i \in was + 1 .. was + k /\ val[i] = a + (i - was)
  <2> SUFFICES ASSUME NEW i \in 1 .. was + k
               PROVE  \/ i \in 1 .. was /\ val[i] = Value(content[i])
                      \/ i \in was + 1 .. was + k /\ val[i] = a + (i - was)
    OBVIOUS
  <2>1. CASE i <= was
    BY <1>2, <1>11, <2>1
  <2>2. CASE i > was
    <3>1. i - was \in 1 .. k /\ was + (i - was) = i /\ a + (i - was) \in Nat
      BY <1>2, <1>8, <1>9, <2>2
    <3>2. content'[i] = Datum(a + (i - was))
      BY <1>11, <3>1
    <3>3. val[i] = a + (i - was)
      BY <3>1, <3>2, DatumIs
    <3> QED
      BY <1>2, <2>2, <3>3
  <2> QED
    BY <1>2, <2>1, <2>2
<1>13. \A i \in 1 .. was + k : val[i] = Value(content'[i])
  OBVIOUS
<1> HIDE DEF val
<1>14. \A i \in 1 .. was + k : val[i] \in Nat /\ 10 * val[i] <= c + n
  <2> SUFFICES ASSUME NEW i \in 1 .. was + k PROVE val[i] \in Nat /\ 10 * val[i] <= c + n
    OBVIOUS
  <2>1. CASE i \in 1 .. was /\ val[i] = Value(content[i])
    <3>1. val[i] \in Nat /\ 10 * val[i] <= c
      BY <1>3, <2>1
    <3> QED
      BY <1>2, <1>4, <3>1
  <2>2. CASE i \in was + 1 .. was + k /\ val[i] = a + (i - was)
    BY <1>2, <1>4, <1>8, <1>9, <2>2
  <2> QED
    BY <1>12, <2>1, <2>2
<1>15. ASSUME NEW i \in 1 .. was + k, NEW j \in 1 .. was + k, i < j
       PROVE  val[i] < val[j]
  <2>1. CASE j \in 1 .. was
    BY <1>2, <1>3, <1>8, <1>12, <1>15, <2>1
  <2>2. CASE j \notin 1 .. was
    <3>1. val[j] = a + (j - was) /\ j - was >= 1
      BY <1>2, <1>8, <1>12, <2>2
    <3>2. CASE i \in 1 .. was
      <4>1. 10 * val[i] <= c /\ val[i] \in Nat
        <5>1. val[i] = Value(content[i])
          BY <1>2, <1>12, <3>2
        <5> QED
          BY <1>3, <3>2, <5>1
      <4> QED
        BY <1>2, <1>8, <1>9, <3>1, <4>1
    <3>3. CASE i \notin 1 .. was
      <4>1. val[i] = a + (i - was)
        BY <1>12, <3>3
      <4> QED
        BY <1>2, <1>8, <1>9, <1>15, <3>1, <4>1
    <3> QED
      BY <3>2, <3>3
  <2> QED
    BY <2>1, <2>2
<1>16. /\ \A i \in 1 .. Len(content') :
            Value(content'[i]) \in Nat /\ 10 * Value(content'[i]) <= Gone'
       /\ \A i, j \in 1 .. Len(content') : i < j => Value(content'[i]) < Value(content'[j])
  BY <1>6, <1>11, <1>13, <1>14, <1>15, Zenon
<1>17. ~split' => Gone' = 10 * Len(content')
  BY <1>1, <1>6, <1>10, <1>11
<1>18. events' \in Nat /\ Gone' >= 0
  BY <1>1, <1>2, <1>4, <1>6
<1>19. Follows(stream, Gone)'
  BY <1>5, <1>6 DEF Follows, Written, StreamParts, Newline
<1>20. Value(content[1])' = Value(content'[1])
  BY DEF Value
<1> QED
  BY <1>11, <1>16, <1>17, <1>18, <1>19, Zenon DEF SseInv, Value

LEMMA SseStepInv == SseInv /\ [SseNext]_sseVars => SseInv'
<1> SUFFICES ASSUME SseInv, [SseNext]_sseVars PROVE SseInv'
  OBVIOUS
<1>1. CASE Tick
  BY <1>1, TickKeeps
<1>2. CASE ReadChunk
  BY <1>2, ReadChunkKeeps
<1>3. CASE UNCHANGED sseVars
  BY <1>3 DEF sseVars, SseInv, Follows, Gone, Value
<1> QED
  BY <1>1, <1>2, <1>3 DEF SseNext

LEMMA SseShows == SseInv => ShowsWholeValues
<1> SUFFICES ASSUME SseInv PROVE ShowsWholeValues
  OBVIOUS
<1>1. content \in Seq(Data) /\ Len(content) \in Nat
  BY DEF SseInv
<1>2. \A i \in 1 .. Len(content) : Len(content[i]) = 2
  <2>1. \A i \in 1 .. Len(content) : content[i] \in Data
    BY <1>1
  <2>2. \A x \in Data : Len(x) = 2
    BY DatumIs DEF Data
  <2> QED
    BY <2>1, <2>2
<1>3. ASSUME ~split PROVE Len(content) = events - (Len(stream) \div 10)
  <2>1. /\ 10 * events - Len(stream) = 10 * Len(content) /\ events \in Nat
        /\ Len(stream) \in Nat
    BY <1>3 DEF SseInv, Gone, Follows
  <2> QED
    BY <1>1, <2>1
<1> QED
  BY <1>2, <1>3 DEF SseInv, ShowsWholeValues

\* However the stream of the events is cut, the page shows whole values, each at
\* most once and in order, and all of them while chunks end where events do
\* (01-sse index.ts lines 26-42).
THEOREM ValuesAreWhole == SseSpec => []ShowsWholeValues
<1>1. SseInit => SseInv
  BY SseInitInv
<1>2. SseInv /\ [SseNext]_sseVars => SseInv'
  BY SseStepInv
<1>3. SseInv => ShowsWholeValues
  BY SseShows
<1> QED
  BY <1>1, <1>2, <1>3, PTL DEF SseSpec
=============================================================================
