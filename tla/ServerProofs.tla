---------------------------- MODULE ServerProofs ----------------------------
(***************************************************************************)
(* Proofs about the servers, for every set of sessions and of messages,    *)
(* any cut of the writes and any bound of the queues: the coroutine server *)
(* (CoroutineServer, CoroutineSend), the registry of the callback servers  *)
(* (SessionRegistry), the WebSocket server (BeastServers), the synchronous *)
(* echo (EchoSession), the logic layer (LogicSystem), the logger that all  *)
(* of them use (Logger) and the first socket program (Clients).            *)
(* CoroutineServer and LogicSystem are taken by themselves, the others     *)
(* with the parts together, as MCServers has them.                         *)
(***************************************************************************)
EXTENDS MCServers, SequenceLemmas

-----------------------------------------------------------------------------
(* The sessions of the coroutine server.                                   *)

\* accepting names the session in handle_accept, which is not read from before
\* StartReading; the server is destroyed after its last handler.
AcceptorInv ==
  /\ acceptor \in {"waiting", "stopped"} => accepting = {}
  /\ acceptor = "read" => \A s \in accepting : reader[s] = "none"
  /\ server = "gone" => acceptor = "stopped"

\* A coroutine that closes has set _isClosed; no two do, and nobody has
\* removed a session that is still open.
CloserInv ==
  \A s \in Sessions :
    /\ Closing(s) => closed[s]
    /\ ~(reader[s] = "closing" /\ writer[s] = "closing")
    /\ ~closed[s] => removed[s] = 0

\* A message under way is within the bound.
BoundInv == \A s \in Sessions : reader[s] = "body" => posts[s] < MaxPosts

IInv ==
  /\ CsTypeOK
  /\ BoundInv
  /\ AcceptorInv
  /\ CloserInv
  /\ OpenIsRegistered
  /\ RemovedOnce

LEMMA InitInv == CsInit => IInv
BY CoroutineServerAssumption
DEF CsInit, IInv, CsTypeOK, ReaderStates, WriterStates, AcceptorInv, CloserInv, Closing,
    OpenIsRegistered, RemovedOnce, BoundInv

\* What no step of the acceptor touches, and what its steps do to a reader.
LEMMA AcceptorStep ==
  ASSUME IInv,
         \/ \E s \in Sessions : Accept(s)
         \/ StartReading \/ Insert \/ Stop \/ DestroyServer
  PROVE  IInv'
<1>1. UNCHANGED <<writer, closed, posts, removed, early>>
  BY DEF Accept, StartReading, Insert, Stop, DestroyServer
<1>2. CsTypeOK'
  BY DEF IInv, CsTypeOK, ReaderStates, Accept, StartReading, Insert, Stop, DestroyServer
<1>3. ASSUME NEW s \in Sessions
      PROVE  \/ reader'[s] = reader[s]
             \/ /\ reader[s] = "none" /\ reader'[s] = "top"
                /\ s \in accepting /\ StartReading
  BY DEF IInv, CsTypeOK, AcceptorInv, Accept, StartReading, Insert, Stop, DestroyServer
<1>4. AcceptorInv'
  BY <1>3 DEF IInv, CsTypeOK, AcceptorInv, Accept, StartReading, Insert, Stop, DestroyServer
<1>5. ASSUME NEW s \in Sessions
      PROVE  Closing(s)' <=> Closing(s)
  BY <1>1, <1>3 DEF Closing
<1>6. CloserInv'
  BY <1>1, <1>3, <1>5 DEF IInv, CloserInv
<1>7. RemovedOnce'
  BY <1>1, <1>5 DEF IInv, RemovedOnce
<1>9. BoundInv'
  BY <1>1, <1>3 DEF IInv, BoundInv
<1>8. OpenIsRegistered'
  <2> SUFFICES ASSUME NEW s \in Sessions, reader'[s] # "none", ~closed[s],
                      server' = "running"
               PROVE  s \in registry' \cup accepting'
    BY <1>1 DEF OpenIsRegistered
  <2>1. s \in registry \cup accepting
    BY <1>3 DEF IInv, OpenIsRegistered, Accept, StartReading, Insert, Stop, DestroyServer
  <2> QED
    BY <2>1 DEF IInv, AcceptorInv, Accept, StartReading, Insert, Stop, DestroyServer
<1> QED
  BY <1>2, <1>4, <1>6, <1>7, <1>8, <1>9 DEF IInv

\* A coroutine that reads or meets an error.
LEMMA ReaderStep ==
  ASSUME IInv, NEW s \in Sessions, Reader(s) \/ WriteThrows(s)
  PROVE  IInv'
<1>1. UNCHANGED <<acceptor, accepting, registry, server, closed, removed, early>>
  BY DEF Reader, Top, HeadRead, BodyRead, ReadThrows, Read, WriteThrows
<1>2. CsTypeOK'
  <2>1. posts' \in [Sessions -> 0 .. MaxPosts]
    <3>1. CASE BodyRead(s)
      <4>1. /\ reader[s] = "body" /\ posts' = [posts EXCEPT ![s] = posts[s] + 1]
            /\ posts[s] < MaxPosts
        BY <3>1 DEF IInv, BoundInv, BodyRead, Read
      <4> QED
        BY <4>1, CoroutineServerAssumption DEF IInv, CsTypeOK
    <3>2. CASE ~BodyRead(s)
      BY <3>2 DEF IInv, CsTypeOK, Reader, Top, HeadRead, ReadThrows, WriteThrows
    <3> QED
      BY <3>1, <3>2
  <2>2. reader' \in [Sessions -> ReaderStates] /\ writer' \in [Sessions -> WriterStates]
    BY DEF IInv, CsTypeOK, ReaderStates, WriterStates, Reader, Top, HeadRead, BodyRead,
           ReadThrows, Read, WriteThrows
  <2> QED
    BY <1>1, <2>1, <2>2 DEF IInv, CsTypeOK
<1>3. ASSUME NEW u \in Sessions
      PROVE  /\ reader'[u] = "none" <=> reader[u] = "none"
             /\ reader'[u] = "closing" <=> reader[u] = "closing"
             /\ writer'[u] = "closing" <=> writer[u] = "closing"
  BY DEF IInv, CsTypeOK, Reader, Top, HeadRead, BodyRead, ReadThrows, Read, WriteThrows
<1>4. AcceptorInv'
  BY <1>1, <1>3 DEF IInv, CsTypeOK, AcceptorInv
<1>5. CloserInv' /\ RemovedOnce' /\ OpenIsRegistered'
  BY <1>1, <1>3 DEF IInv, CloserInv, RemovedOnce, OpenIsRegistered, Closing
<1>6. BoundInv'
  BY DEF IInv, CsTypeOK, BoundInv, Reader, Top, HeadRead, BodyRead, ReadThrows, Read,
         WriteThrows
<1> QED
  BY <1>2, <1>4, <1>5, <1>6 DEF IInv

\* The compare-exchange: the first coroutine closes, another one leaves it be.
LEMMA CloseStep ==
  ASSUME IInv, NEW s \in Sessions, Close(s)
  PROVE  IInv'
<1>1. UNCHANGED <<acceptor, accepting, registry, server, posts, removed, early>>
  BY DEF Close
<1>2. CsTypeOK'
  BY DEF IInv, CsTypeOK, ReaderStates, WriterStates, Close, NextClose
<1>3. ASSUME NEW u \in Sessions
      PROVE  /\ reader'[u] = "none" <=> reader[u] = "none"
             /\ closed'[u] <=> closed[u] \/ u = s
             /\ u # s \/ closed[u] =>
                  /\ reader'[u] = "closing" <=> reader[u] = "closing"
                  /\ writer'[u] = "closing" <=> writer[u] = "closing"
  BY DEF IInv, CsTypeOK, Close, NextClose
<1>4. AcceptorInv'
  BY <1>1, <1>3 DEF IInv, CsTypeOK, AcceptorInv
<1>5. OpenIsRegistered'
  BY <1>1, <1>3 DEF IInv, OpenIsRegistered
<1>8. BoundInv'
  BY <1>1 DEF IInv, CsTypeOK, BoundInv, Close, NextClose
<1>6. CASE closed[s]
  BY <1>8, <1>1, <1>2, <1>3, <1>4, <1>5, <1>6 DEF IInv, CloserInv, RemovedOnce, Closing
<1>7. CASE ~closed[s]
  <2>1. /\ reader[s] # "closing" /\ writer[s] # "closing" /\ removed[s] = 0
        /\ \/ reader'[s] = "closing" /\ writer'[s] = writer[s]
           \/ writer'[s] = "closing" /\ reader'[s] = reader[s]
    BY <1>7 DEF IInv, CsTypeOK, CloserInv, Closing, Close, NextClose
  <2> QED
    BY <1>1, <1>2, <1>3, <1>4, <1>5, <1>8, <2>1 DEF IInv, CloserInv, RemovedOnce, Closing
<1> QED
  BY <1>6, <1>7

\* The one that closed removes the session, once.
LEMMA RemoveStep ==
  ASSUME IInv, NEW s \in Sessions, RemoveSession(s)
  PROVE  IInv'
<1>1. UNCHANGED <<acceptor, accepting, server, closed, posts>>
  BY DEF RemoveSession
<1>2. /\ Closing(s) /\ closed[s] /\ removed[s] = 0
      /\ removed' = [removed EXCEPT ![s] = 1]
  <2>1. Closing(s)
    BY DEF RemoveSession, Closing
  <2>2. closed[s]
    BY <2>1 DEF IInv, CloserInv
  <2>3. removed[s] = 0
    BY <2>1, <2>2 DEF IInv, CsTypeOK, RemovedOnce
  <2> QED
    BY <2>1, <2>2, <2>3 DEF RemoveSession
<1>3. CsTypeOK'
  BY <1>1, <1>2 DEF IInv, CsTypeOK, ReaderStates, WriterStates, RemoveSession, Erase
<1>4. ASSUME NEW u \in Sessions
      PROVE  /\ reader'[u] = "none" <=> reader[u] = "none"
             /\ u # s => Closing(u)' = Closing(u) /\ removed'[u] = removed[u]
             /\ u # s => reader'[u] = reader[u] /\ writer'[u] = writer[u]
             /\ u \in registry' <=> u \in registry /\ u # s
  BY <1>2 DEF IInv, CsTypeOK, RemoveSession, Erase, Closing
<1>5. ~Closing(s)' /\ removed'[s] = 1
  BY <1>2 DEF IInv, CsTypeOK, CloserInv, RemoveSession, Closing
<1>6. AcceptorInv'
  BY <1>1, <1>4 DEF IInv, CsTypeOK, AcceptorInv
<1>7. OpenIsRegistered'
  BY <1>1, <1>2, <1>4 DEF IInv, OpenIsRegistered
<1>8. RemovedOnce'
  BY <1>1, <1>4, <1>5 DEF IInv, RemovedOnce
<1>9. CloserInv'
  BY <1>1, <1>2, <1>4, <1>5 DEF IInv, CloserInv, Closing
<1>10. BoundInv'
  BY <1>1 DEF IInv, CsTypeOK, BoundInv, RemoveSession
<1> QED
  BY <1>3, <1>6, <1>7, <1>8, <1>9, <1>10 DEF IInv

LEMMA CsStepInv == IInv /\ [CsNext]_csVars => IInv'
<1> SUFFICES ASSUME IInv, [CsNext]_csVars PROVE IInv'
  OBVIOUS
<1>1. CASE UNCHANGED csVars
  BY <1>1 DEF csVars, IInv, CsTypeOK, AcceptorInv, CloserInv, OpenIsRegistered,
              RemovedOnce, Closing, BoundInv
<1> QED
  BY <1>1, AcceptorStep, ReaderStep, CloseStep, RemoveStep DEF CsNext, Acceptor

\* The inductive invariant holds in every behaviour of the server.
THEOREM Invariance == CsSpec => []IInv
BY InitInv, CsStepInv, PTL DEF CsSpec

\* Every session that is being served is in the registry or about to be put
\* there (Server.cc lines 35-45).
THEOREM ServedAreRegistered == CsSpec => []OpenIsRegistered
<1>1. IInv => OpenIsRegistered
  BY DEF IInv
<1> QED
  BY <1>1, Invariance, PTL

\* One coroutine removes a closed session, once (Session.cc lines 54-66).
THEOREM OneRemoval == CsSpec => []RemovedOnce
<1>1. IInv => RemovedOnce
  BY DEF IInv
<1> QED
  BY <1>1, Invariance, PTL

-----------------------------------------------------------------------------
(* Who stays in the registry.                                              *)

\* A session is read from, or closed, after StartReading only; the one in
\* handle_accept is not registered yet; and if it, or one that is, has been
\* closed, its closer has yet to remove it or has done so too early.
StaleInv ==
  /\ \A s \in Sessions :
       reader[s] = "none" => ~closed[s] /\ posts[s] = 0 /\ writer[s] = "fine"
  /\ \A s \in registry : reader[s] # "none" /\ s \notin accepting
  /\ acceptor = "insert" => \A s \in accepting : reader[s] # "none"
  /\ \A s \in registry \cup accepting : closed[s] => Closing(s) \/ s \in early

LEMMA StaleAcceptorStep ==
  ASSUME IInv, StaleInv,
         \/ \E s \in Sessions : Accept(s)
         \/ StartReading \/ Insert \/ Stop \/ DestroyServer
  PROVE  StaleInv'
<1>1. UNCHANGED <<writer, closed, posts, early>>
  BY DEF Accept, StartReading, Insert, Stop, DestroyServer
<1>2. CASE \E s \in Sessions : Accept(s)
  <2>1. PICK s \in Sessions : Accept(s)
    BY <1>2
  <2> QED
    BY <1>1, <2>1 DEF IInv, CsTypeOK, StaleInv, Accept, Closing
<1>3. CASE StartReading
  <2>1. ASSUME NEW s \in Sessions
        PROVE  /\ reader'[s] # "none" <=> reader[s] # "none" \/ s \in accepting
               /\ reader'[s] = "closing" <=> reader[s] = "closing"
    BY <1>3 DEF IInv, CsTypeOK, AcceptorInv, StartReading
  <2>2. registry \subseteq Sessions /\ accepting \subseteq Sessions
    BY DEF IInv, CsTypeOK
  <2>3. registry' = registry /\ accepting' = accepting /\ acceptor' = "insert"
    BY <1>3 DEF StartReading
  <2> QED
    BY <1>1, <2>1, <2>2, <2>3 DEF StaleInv, Closing
<1>4. CASE Insert
  BY <1>1, <1>4 DEF IInv, CsTypeOK, StaleInv, Insert, Closing
<1>5. CASE Stop \/ DestroyServer
  BY <1>1, <1>5 DEF IInv, CsTypeOK, StaleInv, Stop, DestroyServer, Closing
<1> QED
  BY <1>2, <1>3, <1>4, <1>5

LEMMA StaleReaderStep ==
  ASSUME IInv, StaleInv, NEW s \in Sessions, Reader(s) \/ WriteThrows(s)
  PROVE  StaleInv'
<1>1. UNCHANGED <<acceptor, accepting, registry, closed, early>>
  BY DEF Reader, Top, HeadRead, BodyRead, ReadThrows, Read, WriteThrows
<1>2. ASSUME NEW u \in Sessions
      PROVE  /\ reader'[u] = "none" <=> reader[u] = "none"
             /\ reader'[u] = "closing" <=> reader[u] = "closing"
             /\ writer'[u] = "closing" <=> writer[u] = "closing"
  BY DEF IInv, CsTypeOK, Reader, Top, HeadRead, BodyRead, ReadThrows, Read, WriteThrows
<1>3. ASSUME NEW u \in Sessions, reader[u] = "none"
      PROVE  posts'[u] = 0 /\ writer'[u] = "fine"
  <2>1. posts[u] = 0 /\ writer[u] = "fine"
    BY <1>3 DEF StaleInv
  <2> QED
    BY <1>3, <2>1 DEF IInv, CsTypeOK, Reader, Top, HeadRead, BodyRead, ReadThrows, Read,
                      WriteThrows
<1>4. registry \subseteq Sessions /\ accepting \subseteq Sessions
  BY DEF IInv, CsTypeOK
<1> QED
  BY <1>1, <1>2, <1>3, <1>4 DEF StaleInv, Closing

LEMMA StaleCloseStep ==
  ASSUME IInv, StaleInv, NEW s \in Sessions, Close(s)
  PROVE  StaleInv'
<1>1. UNCHANGED <<acceptor, accepting, registry, posts, early>>
  BY DEF Close
<1>2. reader[s] # "none"
  BY DEF Close, StaleInv
<1>3. ASSUME NEW u \in Sessions
      PROVE  /\ reader'[u] = "none" <=> reader[u] = "none"
             /\ u # s => closed'[u] = closed[u] /\ writer'[u] = writer[u]
             /\ Closing(u) => Closing(u)'
  BY DEF IInv, CsTypeOK, Close, NextClose, Closing
<1>4. ~closed[s] => Closing(s)'
  BY DEF IInv, CsTypeOK, Close, NextClose, Closing
<1>5. registry \subseteq Sessions /\ accepting \subseteq Sessions
  BY DEF IInv, CsTypeOK
<1> QED
  BY <1>1, <1>2, <1>3, <1>4, <1>5 DEF StaleInv

\* A session in handle_accept is not registered, so its removal is too early.
LEMMA StaleRemoveStep ==
  ASSUME IInv, StaleInv, NEW s \in Sessions, RemoveSession(s)
  PROVE  StaleInv'
<1>1. UNCHANGED <<acceptor, accepting, server, closed, posts>>
  BY DEF RemoveSession
<1>2. registry' = registry \ {s} /\ early \subseteq early'
  BY DEF RemoveSession, Erase
<1>3. s \in accepting => s \in early'
  BY DEF IInv, AcceptorInv, StaleInv, RemoveSession
<1>4. ASSUME NEW u \in Sessions
      PROVE  /\ reader'[u] = "none" <=> reader[u] = "none"
             /\ u # s => writer'[u] = writer[u] /\ Closing(u)' = Closing(u)
  BY DEF IInv, CsTypeOK, RemoveSession, Closing
<1>5. reader[s] # "none"
  BY DEF RemoveSession, StaleInv
<1>6. registry \subseteq Sessions /\ accepting \subseteq Sessions
  BY DEF IInv, CsTypeOK
<1> QED
  BY <1>1, <1>2, <1>3, <1>4, <1>5, <1>6 DEF StaleInv

LEMMA StaleInitInv == CsInit => StaleInv
BY DEF CsInit, StaleInv

LEMMA StaleStepInv == IInv /\ StaleInv /\ [CsNext]_csVars => StaleInv'
<1> SUFFICES ASSUME IInv, StaleInv, [CsNext]_csVars PROVE StaleInv'
  OBVIOUS
<1>1. CASE UNCHANGED csVars
  BY <1>1 DEF csVars, StaleInv, Closing
<1> QED
  BY <1>1, StaleAcceptorStep, StaleReaderStep, StaleCloseStep, StaleRemoveStep
  DEF CsNext, Acceptor

\* A closed session stays in the registry only if it closed, and was removed,
\* before handle_accept registered it (Server.cc lines 39-41).
THEOREM StayingIsEarly == CsSpec => []StaleOnlyIfEarly
<1>1. StaleInv => StaleOnlyIfEarly
  BY DEF StaleInv, StaleOnlyIfEarly
<1> QED
  BY <1>1, StaleInitInv, StaleStepInv, Invariance, PTL DEF CsSpec

-----------------------------------------------------------------------------
(* What is sent: the sending half of 17.                                   *)

Sending == [by : Messages, msg : Nat, sent : Nat, failed : BOOLEAN]

\* The number of the message that was sent last, pushed or refused.
LastSent == Len(accepted) + Cardinality(dropped)

SendTypes ==
  /\ send_queue \in Seq(Nat) /\ accepted \in Seq(Nat)
  /\ IsFiniteSet(dropped)
  /\ sender \subseteq Messages /\ loops \subseteq Messages
  /\ writing \subseteq Sending
  /\ wire \in Seq(Nat \X Nat)

\* No message comes before it is sent.
SendKnown ==
  /\ \A i \in 1 .. Len(send_queue) : send_queue[i] <= LastSent
  /\ \A w \in writing : w.msg <= LastSent
  /\ \A j \in 1 .. Len(wire) : wire[j][1] <= LastSent

\* A message is in one place of the queue or with one coroutine, and what is on
\* the wire of it is what that coroutine has written.
SendApart ==
  /\ \A i, j \in 1 .. Len(send_queue) : send_queue[i] = send_queue[j] => i = j
  /\ \A i \in 1 .. Len(send_queue) :
       /\ \A w \in writing : w.msg # send_queue[i]
       /\ \A j \in 1 .. Len(wire) : wire[j][1] # send_queue[i]
  /\ \A v, w \in writing : v.msg = w.msg => v = w
  /\ \A w \in writing : \A j \in 1 .. Len(wire) : wire[j][1] = w.msg => wire[j][2] <= w.sent

SendInv == SendTypes /\ SendKnown /\ SendApart /\ C!WrittenOnce /\ C!NothingStranded

LEMMA LastSentIsNat == SendTypes => LastSent \in Nat
BY FS_CardinalityType DEF SendTypes, LastSent

\* The number of elements, as CoroutineSend counts them.
LEMMA SameCardinality == \A S : C!Cardinality(S) = Cardinality(S)
BY DEF Cardinality, C!Cardinality, IsFiniteSet, C!IsFiniteSet

LEMMA C_PushKeeps ==
  ASSUME SendInv, NEW m \in Messages, C!Push(m)
  PROVE  SendInv'
<1> USE DEF SendInv
<1>1. /\ send_queue' = Append(send_queue, m) /\ accepted' = Append(accepted, m)
      /\ sender' = IF send_queue = <<>> THEN {m} ELSE {}
      /\ sender = {} /\ m = LastSent + 1
      /\ UNCHANGED <<loops, writing, sendClosed, dropped, wire>>
  <2>1. m = LastSent + 1
    <3>1. C!New(m)
      BY DEF C!Push
    <3>2. Len(accepted) \in Nat /\ Cardinality(dropped) \in Nat
      BY FS_CardinalityType DEF SendTypes
    <3> QED
      BY <3>1, <3>2, SameCardinality DEF C!New, LastSent
  <2> QED
    BY <2>1 DEF C!Push
<1>2. /\ LastSent \in Nat /\ m \in Nat
      /\ send_queue \in Seq(Nat) /\ Len(send_queue) \in Nat
      /\ accepted \in Seq(Nat) /\ Len(accepted) \in Nat
      /\ Len(send_queue') = Len(send_queue) + 1
      /\ wire \in Seq(Nat \X Nat) /\ writing \subseteq Sending
  BY <1>1, LastSentIsNat DEF SendTypes
<1>3. LastSent' = LastSent + 1
  <2>1. Len(accepted') = Len(accepted) + 1 /\ Cardinality(dropped') = Cardinality(dropped)
    BY <1>1, <1>2
  <2>2. Cardinality(dropped) \in Nat
    BY FS_CardinalityType DEF SendTypes
  <2> QED
    BY <1>2, <2>1, <2>2 DEF LastSent
<1>4. /\ \A i \in 1 .. Len(send_queue) : send_queue'[i] = send_queue[i]
      /\ send_queue'[Len(send_queue) + 1] = m
      /\ \A i \in 1 .. Len(send_queue') : i \in 1 .. Len(send_queue) \/ i = Len(send_queue) + 1
  BY <1>1, <1>2
<1>5. /\ \A i \in 1 .. Len(send_queue) : send_queue[i] \in Nat /\ send_queue[i] < m
      /\ \A w \in writing : w.msg \in Nat /\ w.msg < m
      /\ \A j \in 1 .. Len(wire) : wire[j][1] \in Nat /\ wire[j][1] < m
  <2>1. \A i \in 1 .. Len(send_queue) : send_queue[i] \in Nat
    BY <1>2
  <2>2. \A w \in writing : w.msg \in Nat
    BY <1>2 DEF Sending
  <2>3. \A j \in 1 .. Len(wire) : wire[j][1] \in Nat
    BY <1>2
  <2>4. /\ \A i \in 1 .. Len(send_queue) : send_queue[i] <= LastSent
        /\ \A w \in writing : w.msg <= LastSent
        /\ \A j \in 1 .. Len(wire) : wire[j][1] <= LastSent
    BY DEF SendKnown
  <2>5. m = LastSent + 1 /\ LastSent \in Nat
    BY <1>1, <1>2
  <2> QED
    BY <2>1, <2>2, <2>3, <2>4, <2>5
<1>6. SendTypes'
  BY <1>1, <1>2 DEF SendTypes
<1>7. SendKnown'
  <2>1. LastSent' = m /\ m \in Nat
    BY <1>1, <1>2, <1>3
  <2>2. \A i \in 1 .. Len(send_queue') : send_queue'[i] <= m
    <3> SUFFICES ASSUME NEW i \in 1 .. Len(send_queue') PROVE send_queue'[i] <= m
      OBVIOUS
    <3>1. CASE i \in 1 .. Len(send_queue)
      BY <1>4, <1>5, <2>1, <3>1
    <3>2. CASE i = Len(send_queue) + 1
      BY <1>4, <2>1, <3>2
    <3> QED
      BY <1>4, <3>1, <3>2
  <2>3. \A w \in writing' : w.msg <= m
    BY <1>1, <1>5, <2>1
  <2>4. \A j \in 1 .. Len(wire') : wire'[j][1] <= m
    BY <1>1, <1>5, <2>1
  <2> QED
    BY <2>1, <2>2, <2>3, <2>4 DEF SendKnown
<1>8. SendApart'
  <2>1. \A i, j \in 1 .. Len(send_queue') : send_queue'[i] = send_queue'[j] => i = j
    BY <1>4, <1>5 DEF SendApart
  <2>2. ASSUME NEW i \in 1 .. Len(send_queue')
        PROVE  /\ \A w \in writing' : w.msg # send_queue'[i]
               /\ \A j \in 1 .. Len(wire') : wire'[j][1] # send_queue'[i]
    <3>1. CASE i \in 1 .. Len(send_queue)
      BY <1>1, <1>4, <3>1 DEF SendApart
    <3>2. CASE i = Len(send_queue) + 1
      <4>1. send_queue'[i] = m
        BY <1>4, <3>2
      <4>2. \A w \in writing : w.msg # m
        BY <1>2, <1>5
      <4>3. \A j \in 1 .. Len(wire) : wire[j][1] # m
        BY <1>2, <1>5, SMTT(30)
      <4> QED
        BY <1>1, <4>1, <4>2, <4>3
    <3> QED
      BY <1>4, <3>1, <3>2
  <2> QED
    BY <1>1, <2>1, <2>2 DEF SendApart
<1>9. C!NothingStranded'
  BY <1>1 DEF C!NothingStranded
<1> QED
  BY <1>1, <1>6, <1>7, <1>8, <1>9 DEF C!WrittenOnce

LEMMA C_RefuseKeeps ==
  ASSUME SendInv, NEW m \in Messages, C!Refuse(m)
  PROVE  SendInv'
<1> USE DEF SendInv
<1>1. /\ dropped' = dropped \cup {m}
      /\ UNCHANGED <<send_queue, sender, loops, writing, sendClosed, accepted, wire>>
  BY DEF C!Refuse
<1>2. /\ IsFiniteSet(dropped') /\ LastSent \in Nat /\ LastSent' \in Nat
      /\ LastSent <= LastSent'
  <2>1. /\ IsFiniteSet(dropped') /\ Cardinality(dropped) \in Nat
        /\ Cardinality(dropped') \in Nat /\ Cardinality(dropped) <= Cardinality(dropped')
    <3>1. IsFiniteSet(dropped)
      BY DEF SendTypes
    <3>2. /\ IsFiniteSet(dropped \cup {m})
          /\ Cardinality(dropped \cup {m}) =
               IF m \in dropped THEN Cardinality(dropped) ELSE Cardinality(dropped) + 1
      BY <3>1, FS_AddElement
    <3>3. Cardinality(dropped) \in Nat
      BY <3>1, FS_CardinalityType
    <3> QED
      BY <1>1, <3>2, <3>3
  <2>2. Len(accepted) \in Nat /\ accepted' = accepted
    BY <1>1 DEF SendTypes
  <2> QED
    BY <2>1, <2>2 DEF LastSent
<1>3. SendTypes' /\ SendApart' /\ C!WrittenOnce' /\ C!NothingStranded'
  BY <1>1, <1>2 DEF SendTypes, SendApart, C!WrittenOnce, C!NothingStranded
<1>4. SendKnown'
  <2>1. \A i \in 1 .. Len(send_queue) : send_queue[i] \in Nat
    BY DEF SendTypes
  <2>2. \A w \in writing : w.msg \in Nat
    BY DEF SendTypes, Sending
  <2>3. \A j \in 1 .. Len(wire) : wire[j][1] \in Nat
    BY DEF SendTypes
  <2> QED
    BY <1>1, <1>2, <2>1, <2>2, <2>3 DEF SendKnown
<1> QED
  BY <1>3, <1>4

\* The steps that leave the queue, the writes and the wire alone.
LEMMA C_SettledKeeps ==
  ASSUME SendInv,
         C!Spawn \/ C!CloseElsewhere \/ (\E c \in loops : C!Finish(c))
  PROVE  SendInv'
<1> USE DEF SendInv
<1>1. UNCHANGED <<send_queue, writing, accepted, dropped, wire>>
  BY DEF C!Spawn, C!CloseElsewhere, C!Finish
<1>2. sender' \subseteq Messages /\ loops' \subseteq Messages
  BY DEF SendTypes, C!Spawn, C!CloseElsewhere, C!Finish
<1>3. C!NothingStranded'
  BY DEF C!NothingStranded, C!Spawn, C!CloseElsewhere, C!Finish
<1>4. LastSent' = LastSent
  BY <1>1 DEF LastSent
<1> QED
  BY <1>1, <1>2, <1>3, <1>4 DEF SendTypes, SendKnown, SendApart, C!WrittenOnce

\* The message goes from the queue to the coroutine.
LEMMA C_TakeNextKeeps ==
  ASSUME SendInv, NEW c \in loops, C!TakeNext(c)
  PROVE  SendInv'
<1> USE DEF SendInv
<1>1. PICK new : new = [by |-> c, msg |-> Head(send_queue), sent |-> 0, failed |-> FALSE]
  OBVIOUS
<1>2. /\ send_queue # <<>> /\ send_queue' = Tail(send_queue)
      /\ writing' = writing \cup {new} /\ loops' = loops \ {c}
      /\ UNCHANGED <<sender, sendClosed, accepted, dropped, wire>>
  BY <1>1 DEF C!TakeNext
<1>3. /\ send_queue \in Seq(Nat) /\ Len(send_queue) \in Nat \ {0}
      /\ send_queue' \in Seq(Nat) /\ Len(send_queue') = Len(send_queue) - 1
      /\ \A i \in 1 .. Len(send_queue') :
           i + 1 \in 1 .. Len(send_queue) /\ send_queue'[i] = send_queue[i + 1]
      /\ 1 \in 1 .. Len(send_queue) /\ new.msg = send_queue[1] /\ new.sent = 0
      /\ new \in Sending
  <2>1. send_queue \in Seq(Nat) /\ Len(send_queue) \in Nat \ {0} /\ c \in Messages
    BY <1>2 DEF SendTypes
  <2>2. Head(send_queue) = send_queue[1] /\ send_queue[1] \in Nat
    BY <1>2, <2>1
  <2> QED
    BY <1>1, <1>2, <2>1, <2>2 DEF Sending
<1>4. LastSent' = LastSent
  BY <1>2 DEF LastSent
<1>5. SendTypes'
  BY <1>2, <1>3 DEF SendTypes
<1>6. SendKnown'
  BY <1>2, <1>3, <1>4 DEF SendKnown
<1>7. SendApart'
  <2>1. ASSUME NEW i \in 1 .. Len(send_queue'), NEW j \in 1 .. Len(send_queue'),
               send_queue'[i] = send_queue'[j]
        PROVE  i = j
    <3>1. /\ i + 1 \in 1 .. Len(send_queue) /\ j + 1 \in 1 .. Len(send_queue)
          /\ send_queue[i + 1] = send_queue[j + 1]
      BY <1>3, <2>1
    <3>2. i + 1 = j + 1
      BY <3>1 DEF SendApart
    <3> QED
      BY <1>3, <3>2
  <2>2. ASSUME NEW i \in 1 .. Len(send_queue')
        PROVE  /\ \A w \in writing' : w.msg # send_queue'[i]
               /\ \A j \in 1 .. Len(wire') : wire'[j][1] # send_queue'[i]
    <3>0. i + 1 \in 1 .. Len(send_queue) /\ 1 \in 1 .. Len(send_queue) /\ i + 1 # 1
      BY <1>3
    <3>1. send_queue[i + 1] # send_queue[1]
      BY <3>0 DEF SendApart
    <3> QED
      BY <1>2, <1>3, <3>1 DEF SendApart
  <2>3. \A w \in writing : w.msg # new.msg
    BY <1>3 DEF SendApart
  <2>4. \A j \in 1 .. Len(wire) : wire[j][1] # new.msg
    BY <1>3 DEF SendApart
  <2>5. \A v, w \in writing' : v.msg = w.msg => v = w
    BY <1>2, <2>3 DEF SendApart
  <2>6. \A w \in writing' : \A j \in 1 .. Len(wire') :
          wire'[j][1] = w.msg => wire'[j][2] <= w.sent
    BY <1>2, <2>4 DEF SendApart
  <2> QED
    BY <2>1, <2>2, <2>5, <2>6 DEF SendApart
<1>8. C!NothingStranded' /\ C!WrittenOnce'
  BY <1>2 DEF C!NothingStranded, C!WrittenOnce
<1> QED
  BY <1>5, <1>6, <1>7, <1>8

\* One piece more of what a coroutine writes.
LEMMA C_WriteSomeKeeps ==
  ASSUME SendInv, NEW w \in writing, C!WriteSome(w)
  PROVE  SendInv'
<1> USE DEF SendInv
<1>1. PICK new : new = [w EXCEPT !.sent = w.sent + 1]
  OBVIOUS
<1>2. /\ wire' = Append(wire, <<w.msg, w.sent + 1>>)
      /\ writing' = (writing \ {w}) \cup {new}
      /\ UNCHANGED <<send_queue, sender, loops, sendClosed, accepted, dropped>>
  BY <1>1 DEF C!WriteSome
<1>3. /\ w.msg \in Nat /\ w.sent \in Nat /\ new \in Sending
      /\ new.msg = w.msg /\ new.sent = w.sent + 1
      /\ writing \subseteq Sending
  <2>1. w \in Sending /\ writing \subseteq Sending
    BY DEF SendTypes
  <2>2. w.msg \in Nat /\ w.sent \in Nat /\ w.sent + 1 \in Nat
    BY <2>1 DEF Sending
  <2>3. new = [by |-> w.by, msg |-> w.msg, sent |-> w.sent + 1, failed |-> w.failed]
    BY <1>1, <2>1 DEF Sending
  <2> QED
    BY <2>1, <2>2, <2>3 DEF Sending
<1>4. /\ wire \in Seq(Nat \X Nat) /\ Len(wire) \in Nat
      /\ wire' \in Seq(Nat \X Nat) /\ Len(wire') = Len(wire) + 1
      /\ wire'[Len(wire) + 1] = <<w.msg, w.sent + 1>>
      /\ \A j \in 1 .. Len(wire) : wire'[j] = wire[j]
      /\ \A j \in 1 .. Len(wire') : j \in 1 .. Len(wire) \/ j = Len(wire) + 1
  BY <1>2, <1>3 DEF SendTypes
<1>5. LastSent' = LastSent
  BY <1>2 DEF LastSent
<1>6. SendTypes'
  BY <1>2, <1>3, <1>4 DEF SendTypes
<1>7. SendKnown'
  BY <1>2, <1>3, <1>4, <1>5 DEF SendKnown
<1>8. ASSUME NEW j \in 1 .. Len(wire)
      PROVE  wire[j][1] \in Nat /\ wire[j][2] \in Nat /\ wire[j] # <<w.msg, w.sent + 1>>
  <2>1. wire[j] \in Nat \X Nat
    BY <1>4
  <2>2. wire[j][1] = w.msg => wire[j][2] <= w.sent
    BY DEF SendApart
  <2> QED
    BY <1>3, <2>1, <2>2
<1>9. SendApart'
  <2>1. ASSUME NEW i \in 1 .. Len(send_queue')
        PROVE  /\ \A v \in writing' : v.msg # send_queue'[i]
               /\ \A j \in 1 .. Len(wire') : wire'[j][1] # send_queue'[i]
    BY <1>2, <1>3, <1>4 DEF SendApart
  <2>2. \A u, v \in writing' : u.msg = v.msg => u = v
    BY <1>2, <1>3 DEF SendApart
  <2>3. ASSUME NEW v \in writing', NEW j \in 1 .. Len(wire'), wire'[j][1] = v.msg
        PROVE  wire'[j][2] <= v.sent
    <3>1. CASE v = new
      <4>1. CASE j = Len(wire) + 1
        BY <1>3, <1>4, <3>1, <4>1
      <4>2. CASE j \in 1 .. Len(wire)
        <5>1. wire'[j] = wire[j] /\ wire[j][1] = w.msg
          BY <1>3, <1>4, <2>3, <3>1, <4>2
        <5>2. wire[j][2] <= w.sent /\ wire[j][2] \in Nat
          BY <1>8, <4>2, <5>1 DEF SendApart
        <5> QED
          BY <1>3, <3>1, <5>1, <5>2
      <4> QED
        BY <1>4, <4>1, <4>2
    <3>2. CASE v # new
      <4>1. v \in writing /\ v # w /\ v.msg # w.msg
        BY <1>2, <3>2 DEF SendApart
      <4>2. j # Len(wire) + 1
        BY <1>4, <2>3, <4>1
      <4>3. j \in 1 .. Len(wire) /\ wire[j][1] = v.msg /\ wire'[j] = wire[j]
        BY <1>4, <2>3, <4>2
      <4> QED
        BY <4>1, <4>3 DEF SendApart
    <3> QED
      BY <3>1, <3>2
  <2> QED
    BY <1>2, <2>1, <2>2, <2>3 DEF SendApart
<1>10. C!WrittenOnce'
  BY <1>4, <1>8 DEF C!WrittenOnce
<1>11. C!NothingStranded'
  BY <1>2 DEF C!NothingStranded
<1> QED
  BY <1>6, <1>7, <1>9, <1>10, <1>11

\* A write fails, or its coroutine goes on.
LEMMA C_EndWriteKeeps ==
  ASSUME SendInv, NEW w \in writing, C!WriteFails(w) \/ C!Resume(w) \/ C!Throw(w)
  PROVE  SendInv'
<1> USE DEF SendInv
<1>1. UNCHANGED <<send_queue, sender, accepted, dropped, wire>> /\ LastSent' = LastSent
  BY DEF C!WriteFails, C!Resume, C!Throw, LastSent
<1>2. w \in Sending
  BY DEF SendTypes
<1>3. PICK new : new = [w EXCEPT !.failed = TRUE]
  OBVIOUS
<1>4. new \in Sending /\ new.msg = w.msg /\ new.sent = w.sent
  BY <1>2, <1>3 DEF Sending
<1>5. writing' = writing \ {w} \/ writing' = (writing \ {w}) \cup {new}
  BY <1>3 DEF C!WriteFails, C!Resume, C!Throw
<1>6. loops' \subseteq Messages
  BY <1>2 DEF SendTypes, Sending, C!WriteFails, C!Resume, C!Throw
<1>7. SendTypes'
  BY <1>1, <1>4, <1>5, <1>6 DEF SendTypes
<1>8. SendKnown'
  BY <1>1, <1>4, <1>5 DEF SendKnown
<1>9. SendApart'
  BY <1>1, <1>4, <1>5 DEF SendApart
<1>10. C!NothingStranded' /\ C!WrittenOnce'
  BY <1>1 DEF C!NothingStranded, C!WrittenOnce, C!WriteFails, C!Resume, C!Throw
<1> QED
  BY <1>7, <1>8, <1>9, <1>10

LEMMA SendInitInv == C!Init => SendInv
<1> SUFFICES ASSUME C!Init PROVE SendInv
  OBVIOUS
<1>1. IsFiniteSet(dropped)
  BY FS_EmptySet DEF C!Init
<1> QED
  BY <1>1 DEF C!Init, SendInv, SendTypes, SendKnown, SendApart, C!WrittenOnce, C!NothingStranded

LEMMA SendStepInv == SendInv /\ [C!Next]_cVars => SendInv'
<1> SUFFICES ASSUME SendInv, [C!Next]_cVars PROVE SendInv'
  OBVIOUS
<1>1. CASE UNCHANGED cVars
  <2>1. UNCHANGED <<send_queue, sender, loops, writing, sendClosed, accepted, dropped, wire>>
    BY <1>1 DEF cVars
  <2> QED
    BY <2>1 DEF SendInv, SendTypes, SendKnown, SendApart, LastSent, C!WrittenOnce,
                C!NothingStranded
<1>2. CASE C!Next
  BY <1>2, C_PushKeeps, C_RefuseKeeps, C_SettledKeeps, C_TakeNextKeeps, C_WriteSomeKeeps,
     C_EndWriteKeeps
  DEF C!Next, C!Coroutine, C!Io
<1> QED
  BY <1>1, <1>2

\* A coroutine of 19 looks at what is queued.
LEMMA QueuedStep ==
  spawned \in Nat /\ B!QueuedIsSent /\ [B!WsNext]_wVars => spawned' \in Nat /\ B!QueuedIsSent'
<1> SUFFICES ASSUME spawned \in Nat, B!QueuedIsSent, [B!WsNext]_wVars
             PROVE  spawned' \in Nat /\ B!QueuedIsSent'
  OBVIOUS
<1> USE DEF B!QueuedIsSent
<1>1. CASE UNCHANGED wVars
  BY <1>1 DEF wVars
<1>2. CASE B!StartAccept \/ B!Handshake \/ B!ReadError \/ B!Signal
  BY <1>2 DEF B!StartAccept, B!Handshake, B!ReadError, B!Signal
<1>3. CASE B!ReadMessage
  <2>1. /\ UNCHANGED <<writes, failed>>
        /\ spawned' = IF unsent = <<>> THEN spawned + 1 ELSE spawned
    BY <1>3 DEF B!ReadMessage
  <2> QED
    BY <2>1
<1>4. CASE B!TakeNext
  <2>1. spawned > 0 /\ spawned' = spawned - 1 /\ failed' = failed
    BY <1>4 DEF B!TakeNext
  <2>2. unsent' = <<>> \/ writes' # {}
    BY <1>4 DEF B!TakeNext
  <2> QED
    BY <2>1, <2>2
<1>5. CASE \E m \in writes : B!MessageWritten(m) \/ B!WriteError(m)
  <2>1. (spawned' = spawned \/ spawned' = spawned + 1) /\ (failed' \/ spawned' > 0)
    BY <1>5 DEF B!MessageWritten, B!WriteError
  <2> QED
    BY <2>1
<1> QED
  BY <1>1, <1>2, <1>3, <1>4, <1>5 DEF B!WsNext

-----------------------------------------------------------------------------
(* A step of all the parts is one of each part, or leaves it be.           *)

LEMMA PartsStep ==
  [MCNext]_allVars =>
    /\ [CsNext]_csVars /\ [C!Next]_cVars /\ [R!RegNext]_rVars
    /\ [B!WsNext]_wVars /\ [L!LgNext]_lVars
BY DEF MCNext, allVars, OfServer, OfSend, OfLogic, OfRegistry, OfEcho, OfHttp, OfWebSocket,
       OfAsync, OfClient, OfGin, OfSse, OfSync, OfEndpoints, OfLogger

\* No accepted message of 17 or 19 waits for a coroutine that will not come,
\* and no piece of a message of 17 is written twice, although Send, the
\* coroutines it spawns and the failures of either interleave at will
\* (17 Session.cc lines 105-147, 19 server.cc lines 80-115).
THEOREM EachIsSentOnce == MCSpec => []SendsOnce
<1> DEFINE I == SendInv /\ spawned \in Nat /\ B!QueuedIsSent
<1>1. MCInit => I
  <2>1. B!WsInit => spawned \in Nat /\ B!QueuedIsSent
    BY DEF B!WsInit, B!QueuedIsSent
  <2> QED
    BY <2>1, SendInitInv DEF MCInit
<1>2. I /\ [MCNext]_allVars => I'
  BY PartsStep, SendStepInv, QueuedStep
<1>3. I => SendsOnce
  BY DEF SendInv, SendsOnce
<1> QED
  BY <1>1, <1>2, <1>3, PTL DEF MCSpec

-----------------------------------------------------------------------------
(* The registry of 6 to 15.                                                *)

HalfStates == {"none", "pending", "erase", "inside", "close", "done"}

RegTypes ==
  /\ at \in [Sessions -> [R!Halves -> HalfStates]]
  /\ shut \in [Sessions -> BOOLEAN]
  /\ sessions \subseteq Sessions /\ incoming \subseteq Sessions

\* Only the main thread of 14 and 15 has a session that is not registered yet.
IncomingKnown == main = "waiting" \/ edition \notin {14, 15} => incoming = {}

\* What has not been accepted has no state.
AcceptedOnce ==
  \A s \in Sessions : at[s]["read"] = "none" =>
    at[s]["write"] = "none" /\ ~shut[s] /\ s \notin sessions \cup incoming \cup premature

\* The session will not be in the registry, unless it was erased too early.
Left(s) == s \in premature \/ s \notin sessions \cup incoming

\* Who shuts a session erases it, or has done so: 14 erases before it closes.
ShutLeaves ==
  /\ \A s \in Sessions :
       shut[s] => (\E h \in R!Halves : at[s][h] \in {"erase", "inside"}) \/ Left(s)
  /\ edition = 14 => \A s \in Sessions, h \in R!Halves : at[s][h] = "close" => Left(s)

RegInv ==
  RegTypes /\ IncomingKnown /\ AcceptedOnce /\ ShutLeaves /\ R!LiveIsRegistered

\* One half goes to its next state.
LEMMA HalfGoes ==
  ASSUME RegTypes, NEW s \in Sessions, NEW h \in R!Halves, NEW from, NEW to \in HalfStates,
         R!Goes(s, h, from, to)
  PROVE  /\ at[s][h] = from /\ at'[s][h] = to
         /\ at' \in [Sessions -> [R!Halves -> HalfStates]]
         /\ \A u \in Sessions, k \in R!Halves : u # s \/ k # h => at'[u][k] = at[u][k]
<1>1. at \in [Sessions -> [R!Halves -> HalfStates]]
  BY DEF RegTypes
<1>2. at[s][h] = from /\ at' = [at EXCEPT ![s] = [at[s] EXCEPT ![h] = to]]
  BY DEF R!Goes
<1>3. PICK f : f = [at[s] EXCEPT ![h] = to]
  OBVIOUS
<1>4. /\ f \in [R!Halves -> HalfStates] /\ f[h] = to
      /\ \A k \in R!Halves : k # h => f[k] = at[s][k]
  BY <1>1, <1>3
<1>5. at' = [at EXCEPT ![s] = f]
  BY <1>2, <1>3
<1> QED
  BY <1>1, <1>2, <1>4, <1>5

\* A half that has begun goes on, nothing is registered, and the session is not
\* live any more, or was shut before.
LEMMA HalfKeeps ==
  ASSUME RegInv, NEW s \in Sessions, NEW h \in R!Halves,
         NEW from \in HalfStates \ {"none"}, NEW to \in HalfStates \ {"none", "pending"},
         R!Goes(s, h, from, to),
         sessions' \subseteq sessions, sessions \ {s} \subseteq sessions',
         incoming' = incoming, UNCHANGED <<edition, main>>,
         premature' = premature \/ premature' = premature \cup (incoming \cap {s}),
         shut' \in [Sessions -> BOOLEAN], torn => torn',
         \A u \in Sessions : u # s \/ shut[u] => shut'[u] = shut[u],
         shut'[s] => Left(s)' \/ \E k \in R!Halves : at'[s][k] \in {"erase", "inside"},
         edition = 14 => \A k \in R!Halves : at'[s][k] = "close" => Left(s)'
  PROVE  RegInv'
<1> USE DEF RegInv
<1>h. R!Halves = {"read", "write"}
  BY DEF R!Halves
<1>1. /\ at[s][h] = from /\ at'[s][h] = to
      /\ at' \in [Sessions -> [R!Halves -> HalfStates]]
      /\ \A u \in Sessions, k \in R!Halves : u # s \/ k # h => at'[u][k] = at[u][k]
  BY HalfGoes
<1>2. RegTypes' /\ IncomingKnown'
  BY <1>1 DEF RegTypes, IncomingKnown
<1>3. at[s]["read"] # "none" /\ at'[s]["read"] # "none"
  BY <1>h, <1>1 DEF AcceptedOnce
<1>4. AcceptedOnce'
  <2> SUFFICES ASSUME NEW u \in Sessions, at'[u]["read"] = "none"
               PROVE  /\ at'[u]["write"] = "none" /\ ~shut'[u]
                      /\ u \notin sessions' \cup incoming' \cup premature'
    BY DEF AcceptedOnce
  <2>1. u # s
    BY <1>3
  <2>2. at[u]["read"] = "none" /\ at'[u]["write"] = at[u]["write"]
    BY <1>h, <1>1, <2>1
  <2> QED
    BY <2>1, <2>2 DEF AcceptedOnce
<1>5. ASSUME NEW u \in Sessions, u # s, Left(u) PROVE Left(u)'
  BY <1>5 DEF Left
<1>6. ShutLeaves'
  <2>1. ASSUME NEW u \in Sessions, shut'[u]
        PROVE  (\E k \in R!Halves : at'[u][k] \in {"erase", "inside"}) \/ Left(u)'
    <3>1. CASE u = s
      BY <2>1, <3>1
    <3>2. CASE u # s
      <4>1. (\E k \in R!Halves : at[u][k] \in {"erase", "inside"}) \/ Left(u)
        BY <2>1, <3>2 DEF ShutLeaves
      <4> QED
        BY <1>1, <1>5, <3>2, <4>1
    <3> QED
      BY <3>1, <3>2
  <2>2. ASSUME NEW u \in Sessions, NEW k \in R!Halves, edition = 14, at'[u][k] = "close"
        PROVE  Left(u)'
    <3>1. CASE u = s
      BY <2>2, <3>1
    <3>2. CASE u # s
      <4>1. at[u][k] = "close"
        BY <1>1, <2>2, <3>2
      <4> QED
        BY <1>5, <2>2, <3>2, <4>1 DEF ShutLeaves
    <3> QED
      BY <3>1, <3>2
  <2>3. edition' = edition
    OBVIOUS
  <2> QED
    BY <2>1, <2>2, <2>3 DEF ShutLeaves
<1>7. R!LiveIsRegistered'
  <2> SUFFICES ASSUME NEW u \in Sessions, ~torn', main' \notin {"returned", "ended"}, ~shut'[u],
                      at'[u]["read"] = "pending", at'[u]["write"] \in {"none", "pending"}
               PROVE  u \in sessions' \cup incoming'
    BY DEF R!LiveIsRegistered
  <2>1. u # s
    BY <1>h, <1>1
  <2>2. at[u]["read"] = "pending" /\ at[u]["write"] \in {"none", "pending"} /\ ~shut[u]
    BY <1>h, <1>1, <2>1
  <2> QED
    BY <2>1, <2>2 DEF R!LiveIsRegistered
<1> QED
  BY <1>2, <1>4, <1>6, <1>7

\* A session is accepted: registered at once, or incoming.
LEMMA AcceptedKeeps ==
  ASSUME RegInv, NEW s \in Sessions, R!Goes(s, "read", "none", "pending"),
         main = "waiting",
         \/ /\ edition \notin {14, 15} /\ sessions' = sessions \cup {s}
            /\ incoming' = incoming /\ main' = main
         \/ /\ edition \in {14, 15} /\ sessions' = sessions
            /\ incoming' = {s} /\ main' = "insert",
         UNCHANGED <<edition, shut, torn, premature>>
  PROVE  RegInv'
<1> USE DEF RegInv
<1>h. R!Halves = {"read", "write"} /\ "pending" \in HalfStates /\ "read" \in R!Halves
  BY DEF R!Halves, HalfStates
<1>1. /\ at[s]["read"] = "none" /\ at'[s]["read"] = "pending"
      /\ at' \in [Sessions -> [R!Halves -> HalfStates]]
      /\ \A u \in Sessions, k \in R!Halves : u # s \/ k # "read" => at'[u][k] = at[u][k]
  BY <1>h, HalfGoes
<1>2. incoming = {} /\ sessions' \cup incoming' = sessions \cup incoming \cup {s}
  BY DEF IncomingKnown
<1>3. RegTypes' /\ IncomingKnown'
  BY <1>1 DEF RegTypes, IncomingKnown
<1>4. at[s]["write"] = "none" /\ at'[s]["write"] = "none" /\ ~shut[s]
  BY <1>h, <1>1 DEF AcceptedOnce
<1>5. ASSUME NEW u \in Sessions, u # s
      PROVE  /\ at'[u]["read"] = at[u]["read"] /\ at'[u]["write"] = at[u]["write"]
             /\ Left(u)' <=> Left(u)
             /\ u \in sessions' \cup incoming' <=> u \in sessions \cup incoming
  BY <1>h, <1>1, <1>2, <1>5 DEF Left
<1>6. AcceptedOnce'
  BY <1>1, <1>5 DEF AcceptedOnce
<1>7. ShutLeaves'
  BY <1>h, <1>1, <1>4, <1>5 DEF ShutLeaves
<1>8. R!LiveIsRegistered'
  BY <1>2, <1>5 DEF R!LiveIsRegistered
<1> QED
  BY <1>3, <1>6, <1>7, <1>8

\* The steps of the main thread, and of its end.
LEMMA MainKeeps ==
  ASSUME RegInv, R!Accepts \/ R!Main
  PROVE  RegInv'
<1> USE DEF RegInv
<1>1. UNCHANGED <<edition, at, shut, premature>> /\ (torn => torn')
  <2>1. CASE R!EnterInsert
    BY <2>1 DEF R!EnterInsert, R!Enters
  <2>2. CASE R!LeaveInsert \/ R!Main
    BY <2>2 DEF R!LeaveInsert, R!Main, R!Signal, R!DestroyServer, R!DestroyMember, R!Exit,
                R!EndThreads
  <2> QED
    BY <2>1, <2>2 DEF R!Accepts
<1>2. /\ sessions' \cup incoming' \subseteq sessions \cup incoming
      /\ sessions' \subseteq Sessions /\ incoming' \subseteq Sessions
      /\ \/ main' \in {"returned", "ended"}
         \/ /\ sessions' \cup incoming' = sessions \cup incoming
            /\ main \notin {"returned", "ended"}
  BY DEF RegTypes, R!Accepts, R!EnterInsert, R!LeaveInsert, R!Main, R!Signal, R!DestroyServer,
         R!DestroyMember, R!Exit, R!EndThreads
<1>3. RegTypes'
  BY <1>1, <1>2 DEF RegTypes
<1>4. IncomingKnown'
  BY <1>1 DEF IncomingKnown, R!Accepts, R!EnterInsert, R!LeaveInsert, R!Main, R!Signal,
     R!DestroyServer, R!DestroyMember, R!Exit, R!EndThreads
<1>5. AcceptedOnce' /\ ShutLeaves'
  BY <1>1, <1>2 DEF AcceptedOnce, ShutLeaves, Left
<1>6. R!LiveIsRegistered'
  BY <1>1, <1>2 DEF R!LiveIsRegistered
<1> QED
  BY <1>3, <1>4, <1>5, <1>6

LEMMA AnswerKeeps ==
  ASSUME RegInv, NEW s \in Sessions, R!Answer(s)
  PROVE  RegInv'
<1> USE DEF RegInv
<1>h. R!Halves = {"read", "write"} /\ "pending" \in HalfStates /\ "write" \in R!Halves
  BY DEF R!Halves, HalfStates
<1>0. /\ R!Goes(s, "write", "none", "pending") /\ at[s]["read"] # "none"
      /\ UNCHANGED <<edition, main, incoming, sessions, shut, torn, premature>>
  BY DEF R!Answer
<1>1. /\ at[s]["write"] = "none" /\ at'[s]["write"] = "pending"
      /\ at' \in [Sessions -> [R!Halves -> HalfStates]]
      /\ \A u \in Sessions, k \in R!Halves : u # s \/ k # "write" => at'[u][k] = at[u][k]
  BY <1>h, <1>0, HalfGoes
<1>2. \A u \in Sessions : at'[u]["read"] = at[u]["read"]
  BY <1>h, <1>1
<1>3. RegTypes' /\ IncomingKnown'
  BY <1>0, <1>1 DEF RegTypes, IncomingKnown
<1>4. AcceptedOnce'
  BY <1>h, <1>0, <1>1, <1>2 DEF AcceptedOnce
<1>5. ShutLeaves'
  <2>1. \A u \in Sessions : Left(u)' = Left(u)
    BY <1>0 DEF Left
  <2>2. \A u \in Sessions, k \in R!Halves :
          /\ at[u][k] \in {"erase", "inside"} => at'[u][k] = at[u][k]
          /\ at'[u][k] = "close" => at[u][k] = "close"
    BY <1>1
  <2> QED
    BY <1>0, <2>1, <2>2 DEF ShutLeaves
<1>6. R!LiveIsRegistered'
  <2>1. \A u \in Sessions : at'[u]["write"] \in {"none", "pending"} =>
                              at[u]["write"] \in {"none", "pending"}
    BY <1>h, <1>1
  <2> QED
    BY <1>0, <1>2, <2>1 DEF R!LiveIsRegistered
<1> QED
  BY <1>3, <1>4, <1>5, <1>6

\* A handler of 6 to 13: the half ends, and from 9 on the session is erased.
LEMMA HandlerKeeps ==
  ASSUME RegInv, NEW s \in Sessions, NEW h \in R!Halves,
         R!LogError(s, h) \/ (R!HandleError(s, h) /\ edition \notin {14, 15})
  PROVE  RegInv'
<1>1. /\ R!Goes(s, h, "pending", "done")
      /\ "pending" \in HalfStates \ {"none"} /\ "done" \in HalfStates \ {"none", "pending"}
      /\ UNCHANGED <<edition, main, incoming, torn, premature>>
  BY DEF R!LogError, R!HandleError, HalfStates
<1>2. "done" \in HalfStates
  BY <1>1
<1>3. /\ at[s][h] = "pending" /\ at'[s][h] = "done"
      /\ \A u \in Sessions, k \in R!Halves : u # s \/ k # h => at'[u][k] = at[u][k]
  BY <1>1, <1>2, HalfGoes DEF RegInv
<1>4. CASE R!LogError(s, h)
  <2>1. UNCHANGED <<sessions, shut>>
    BY <1>4 DEF R!LogError
  <2>2. shut'[s] => Left(s)' \/ \E k \in R!Halves : at'[s][k] \in {"erase", "inside"}
    BY <1>1, <1>3, <2>1 DEF RegInv, ShutLeaves, Left
  <2>3. edition = 14 => \A k \in R!Halves : at'[s][k] = "close" => Left(s)'
    BY <1>1, <1>3, <2>1 DEF RegInv, ShutLeaves, Left
  <2>4. shut' \in [Sessions -> BOOLEAN]
    BY <2>1 DEF RegInv, RegTypes
  <2> QED
    BY <1>1, <2>1, <2>2, <2>3, <2>4, HalfKeeps
<1>5. CASE R!HandleError(s, h) /\ edition \notin {14, 15}
  <2>1. sessions' = sessions \ {s} /\ shut' = [shut EXCEPT ![s] = TRUE]
    BY <1>5 DEF R!HandleError
  <2>2. Left(s)'
    BY <1>1, <1>5, <2>1 DEF RegInv, IncomingKnown, Left
  <2>3. /\ shut' \in [Sessions -> BOOLEAN]
        /\ \A u \in Sessions : u # s \/ shut[u] => shut'[u] = shut[u]
    BY <2>1 DEF RegInv, RegTypes
  <2> QED
    BY <1>1, <1>5, <2>1, <2>2, <2>3, HalfKeeps
<1> QED
  BY <1>4, <1>5

\* The steps of a failed half of 14 and 15.
LEMMA FailKeeps ==
  ASSUME RegInv, NEW s \in Sessions, NEW h \in R!Halves, R!Fail(s, h)
  PROVE  RegInv'
<1>1. PICK to : to = IF edition = 14 THEN "erase" ELSE "close"
  OBVIOUS
<1>2. /\ R!Goes(s, h, "pending", to)
      /\ "pending" \in HalfStates \ {"none"} /\ to \in HalfStates \ {"none", "pending"}
      /\ UNCHANGED <<edition, main, incoming, sessions, shut, torn, premature>>
  BY <1>1 DEF R!Fail, HalfStates
<1>3. /\ at[s][h] = "pending" /\ at'[s][h] = to
      /\ \A u \in Sessions, k \in R!Halves : u # s \/ k # h => at'[u][k] = at[u][k]
  BY <1>2, HalfGoes DEF RegInv
<1>4. shut'[s] => Left(s)' \/ \E k \in R!Halves : at'[s][k] \in {"erase", "inside"}
  BY <1>2, <1>3 DEF RegInv, ShutLeaves, Left
<1>5. edition = 14 => \A k \in R!Halves : at'[s][k] = "close" => Left(s)'
  BY <1>1, <1>2, <1>3 DEF RegInv, ShutLeaves, Left
<1>6. shut' \in [Sessions -> BOOLEAN]
  BY <1>2 DEF RegInv, RegTypes
<1> QED
  BY <1>2, <1>4, <1>5, <1>6, HalfKeeps

LEMMA EnterEraseKeeps ==
  ASSUME RegInv, NEW s \in Sessions, NEW h \in R!Halves, R!EnterErase(s, h)
  PROVE  RegInv'
<1>2. /\ R!Goes(s, h, "erase", "inside")
      /\ "erase" \in HalfStates \ {"none"} /\ "inside" \in HalfStates \ {"none", "pending"}
      /\ UNCHANGED <<edition, main, incoming, sessions, shut, premature>>
      /\ torn => torn'
  BY DEF R!EnterErase, R!Enters, HalfStates
<1>3. /\ at[s][h] = "erase" /\ at'[s][h] = "inside"
      /\ \A u \in Sessions, k \in R!Halves : u # s \/ k # h => at'[u][k] = at[u][k]
  BY <1>2, HalfGoes DEF RegInv
<1>4. shut'[s] => Left(s)' \/ \E k \in R!Halves : at'[s][k] \in {"erase", "inside"}
  BY <1>3
<1>5. edition = 14 => \A k \in R!Halves : at'[s][k] = "close" => Left(s)'
  BY <1>2, <1>3 DEF RegInv, ShutLeaves, Left
<1>6. shut' \in [Sessions -> BOOLEAN]
  BY <1>2 DEF RegInv, RegTypes
<1> QED
  BY <1>2, <1>4, <1>5, <1>6, HalfKeeps

LEMMA LeaveEraseKeeps ==
  ASSUME RegInv, NEW s \in Sessions, NEW h \in R!Halves, R!LeaveErase(s, h)
  PROVE  RegInv'
<1>1. PICK to : to = IF edition = 14 THEN "close" ELSE "done"
  OBVIOUS
<1>2. /\ R!Goes(s, h, "inside", to)
      /\ "inside" \in HalfStates \ {"none"} /\ to \in HalfStates \ {"none", "pending"}
      /\ sessions' = sessions \ {s} /\ premature' = premature \cup (incoming \cap {s})
      /\ UNCHANGED <<edition, main, incoming, shut, torn>>
  BY <1>1 DEF R!LeaveErase, HalfStates
<1>3. Left(s)'
  BY <1>2 DEF Left
<1>4. shut' \in [Sessions -> BOOLEAN]
  BY <1>2 DEF RegInv, RegTypes
<1> QED
  BY <1>2, <1>3, <1>4, HalfKeeps

\* In 14 the session has been erased; in 15 the half that shuts it goes on to
\* erase it.
LEMMA RegCloseKeeps ==
  ASSUME RegInv, NEW s \in Sessions, NEW h \in R!Halves, R!Close(s, h),
         edition \in {14, 15}
  PROVE  RegInv'
<1>1. PICK to : to = IF edition = 15 /\ ~shut[s] THEN "erase" ELSE "done"
  OBVIOUS
<1>2. /\ R!Goes(s, h, "close", to)
      /\ "close" \in HalfStates \ {"none"} /\ to \in HalfStates \ {"none", "pending"}
      /\ shut' = [shut EXCEPT ![s] = TRUE]
      /\ UNCHANGED <<edition, main, incoming, sessions, torn, premature>>
  BY <1>1 DEF R!Close, HalfStates
<1>3. /\ at[s][h] = "close" /\ at'[s][h] = to
      /\ \A u \in Sessions, k \in R!Halves : u # s \/ k # h => at'[u][k] = at[u][k]
  BY <1>2, HalfGoes DEF RegInv
<1>4. Left(s)' \/ \E k \in R!Halves : at'[s][k] \in {"erase", "inside"}
  <2>1. CASE edition = 14
    BY <1>2, <1>3, <2>1 DEF RegInv, ShutLeaves, Left
  <2>2. CASE edition = 15 /\ ~shut[s]
    BY <1>1, <1>3, <2>2
  <2>3. CASE shut[s]
    BY <1>2, <1>3, <2>3 DEF RegInv, ShutLeaves, Left
  <2> QED
    BY <2>1, <2>2, <2>3
<1>5. edition = 14 => \A k \in R!Halves : at'[s][k] = "close" => Left(s)'
  BY <1>1, <1>2, <1>3 DEF RegInv, ShutLeaves, Left
<1>6. /\ shut' \in [Sessions -> BOOLEAN]
      /\ \A u \in Sessions : u # s \/ shut[u] => shut'[u] = shut[u]
  BY <1>2 DEF RegInv, RegTypes
<1> QED
  BY <1>2, <1>4, <1>5, <1>6, HalfKeeps

LEMMA RegInitInv == R!RegInit => RegInv
BY DEF R!RegInit, RegInv, RegTypes, HalfStates, R!Halves, IncomingKnown, AcceptedOnce,
       ShutLeaves, R!LiveIsRegistered

LEMMA RegStepInv == RegInv /\ [R!RegNext]_rVars => RegInv'
<1> SUFFICES ASSUME RegInv, [R!RegNext]_rVars PROVE RegInv'
  OBVIOUS
<1>1. CASE UNCHANGED rVars
  BY <1>1 DEF rVars, RegInv, RegTypes, IncomingKnown, AcceptedOnce, ShutLeaves, Left,
              R!LiveIsRegistered
<1>2. ASSUME NEW s \in Sessions, R!HandleAccept(s), edition \notin {14, 15} PROVE RegInv'
  BY <1>2, AcceptedKeeps DEF R!HandleAccept, R!Goes
<1>3. ASSUME NEW s \in Sessions, R!Start(s), edition \in {14, 15} PROVE RegInv'
  BY <1>3, AcceptedKeeps DEF R!Start, R!Goes
<1>4. ASSUME NEW s \in Sessions, edition \notin {14, 15},
             \/ R!HandleAccept(s) \/ R!Refuse(s) \/ R!Closing(s)
             \/ \E h \in R!Halves : R!LogError(s, h)
      PROVE  RegInv'
  BY <1>2, <1>4, HandlerKeeps DEF R!Refuse, R!Closing, R!Halves
<1>5. CASE \/ R!Server6 \/ R!Server7 \/ R!Server8 \/ R!Server9 \/ R!Server10
           \/ R!Server11 \/ R!Server12 \/ R!Server13
  BY <1>4, <1>5 DEF R!Server6, R!Server7, R!Server8, R!Server9, R!Server10, R!Server11,
                    R!Server12, R!Server13, R!Forgiving
<1>6. CASE R!Server14 \/ R!Server15
  BY <1>3, <1>6, MainKeeps, FailKeeps, EnterEraseKeeps, LeaveEraseKeeps, RegCloseKeeps
  DEF R!Server14, R!Server15, R!Ends
<1>7. CASE R!Main
  BY <1>7, MainKeeps
<1>8. CASE \E s \in Sessions : R!Answer(s)
  BY <1>8, AnswerKeeps
<1> QED
  BY <1>1, <1>5, <1>6, <1>7, <1>8 DEF R!RegNext

\* Who has been shut is being erased, has been, or was erased too early.
LEMMA RegInvLeaves == RegInv => R!FailedLeaves
<1> SUFFICES ASSUME RegInv, NEW s \in sessions, shut[s] PROVE R!Busy(s) \/ s \in premature
  BY DEF R!FailedLeaves
<1>1. s \in Sessions
  BY DEF RegInv, RegTypes
<1> QED
  BY <1>1 DEF RegInv, ShutLeaves, Left, R!Busy

-----------------------------------------------------------------------------
(* The registry of 19, and the logger.                                     *)

\* Before the handshake the connection has nothing.
WsInv ==
  /\ registered \in BOOLEAN /\ failed \in BOOLEAN /\ spawned \in Nat
  /\ reads \in {"listening", "handshake"} =>
       ~failed /\ ~registered /\ writes = {} /\ spawned = 0
  /\ B!WorkingAreRegistered

LEMMA WsStepInv == WsInv /\ [B!WsNext]_wVars => WsInv'
<1> SUFFICES ASSUME WsInv, [B!WsNext]_wVars PROVE WsInv'
  OBVIOUS
<1> USE DEF WsInv, B!WorkingAreRegistered
<1>1. CASE UNCHANGED wVars
  BY <1>1 DEF wVars
<1>2. CASE B!StartAccept \/ B!Handshake
  <2>1. /\ reads \in {"listening", "handshake"} /\ UNCHANGED <<spawned, writes, failed>>
        /\ \/ reads' = "open" /\ registered' = TRUE
           \/ reads' \in {"listening", "handshake", "failed"} /\ registered' = registered
    BY <1>2 DEF B!StartAccept, B!Handshake, B!AddConnection
  <2>2. failed = FALSE /\ registered = FALSE /\ writes = {} /\ spawned = 0
    BY <2>1
  <2>3. /\ failed' = FALSE /\ registered' \in BOOLEAN /\ writes' = {} /\ spawned' = 0
        /\ registered' <=> reads' = "open"
    BY <2>1, <2>2
  <2> QED
    BY <2>1, <2>3
<1>3. CASE B!ReadError \/ B!Signal
  BY <1>3 DEF B!ReadError, B!Signal, B!RemoveConnection
<1>4. CASE B!ReadMessage
  <2>1. /\ reads = "open" /\ (spawned' = spawned \/ spawned' = spawned + 1)
        /\ UNCHANGED <<reads, failed, registered>>
    BY <1>4 DEF B!ReadMessage
  <2> QED
    BY <2>1
<1>5. CASE B!TakeNext
  <2>1. /\ spawned > 0 /\ spawned' = spawned - 1
        /\ UNCHANGED <<reads, failed, registered>>
    BY <1>5 DEF B!TakeNext
  <2> QED
    BY <2>1
<1>6. CASE \E m \in writes : B!MessageWritten(m)
  <2>1. spawned' = spawned + 1 /\ writes # {} /\ UNCHANGED <<reads, failed, registered>>
    BY <1>6 DEF B!MessageWritten
  <2> QED
    BY <2>1
<1>7. CASE \E m \in writes : B!WriteError(m)
  <2>1. /\ spawned' = spawned /\ writes # {} /\ reads' = reads
        /\ failed' = TRUE /\ registered' = FALSE
    BY <1>7 DEF B!WriteError, B!RemoveConnection
  <2> QED
    BY <2>1
<1> QED
  BY <1>1, <1>2, <1>3, <1>4, <1>5, <1>6, <1>7 DEF B!WsNext

\* The logger is the first static object that is built and the last that goes;
\* a thread of the pool or of the logic layer logs while that lives.
LoggerInv ==
  /\ part \in [L!Threads -> Int]
  /\ statics \in Seq({"logger", "pool", "logic"})
  /\ statics # <<>> => statics[1] = "logger"
  /\ life = "starts" => statics = <<>> /\ built = {}
  /\ life \in {"accepts", "serves", "returns"} => statics # <<>>
  /\ \A t \in L!Threads : L!Logging(t) => statics # <<>> /\ L!Runs(t)

LEMMA AliveIsThere ==
  \A s : L!Alive(s) <=> \E i \in DOMAIN statics : statics[i] = s
BY DEF L!Alive, L!Range

\* An object comes at the end, if it comes.
LEMMA UsesKeeps ==
  ASSUME LoggerInv, NEW s \in {"logger", "pool", "logic"}, L!Uses(s),
         statics # <<>> \/ (s = "logger" /\ s \notin built)
  PROVE  /\ statics' \in Seq({"logger", "pool", "logic"})
         /\ statics' # <<>> /\ statics'[1] = "logger"
         /\ \A t \in L!Threads : L!Runs(t) => L!Runs(t)'
<1>1. statics \in Seq({"logger", "pool", "logic"}) /\ (statics # <<>> => statics[1] = "logger")
  BY DEF LoggerInv
<1>2. CASE statics' = statics
  <2>1. statics # <<>>
    BY <1>2, AppendProperties DEF L!Uses
  <2>2. \A x : L!Alive(x)' <=> L!Alive(x)
    BY <1>2 DEF L!Alive, L!Range
  <2> QED
    BY <1>1, <1>2, <2>1, <2>2 DEF L!Runs
<1>3. CASE statics' = Append(statics, s)
  <2>1. /\ statics' \in Seq({"logger", "pool", "logic"}) /\ Len(statics') = Len(statics) + 1
        /\ Len(statics) \in Nat /\ statics'[Len(statics) + 1] = s
        /\ \A i \in 1 .. Len(statics) : statics'[i] = statics[i]
        /\ DOMAIN statics = 1 .. Len(statics) /\ DOMAIN statics' = 1 .. Len(statics) + 1
    BY <1>1, <1>3
  <2>2. statics' # <<>> /\ statics'[1] = "logger"
    <3>1. CASE statics = <<>>
      BY <2>1, <3>1
    <3>2. CASE statics # <<>>
      BY <1>1, <2>1, <3>2
    <3> QED
      BY <3>1, <3>2
  <2>3. ASSUME NEW x, L!Alive(x) PROVE L!Alive(x)'
    <3>1. PICK i \in 1 .. Len(statics) : statics[i] = x
      BY <2>1, <2>3, AliveIsThere
    <3>2. i \in DOMAIN statics' /\ statics'[i] = x
      BY <2>1, <3>1
    <3> QED
      BY <3>2 DEF L!Alive, L!Range
  <2> QED
    BY <2>1, <2>2, <2>3 DEF L!Runs
<1> QED
  BY <1>2, <1>3 DEF L!Uses

\* Who runs finds the logger.
LEMMA RunsIsThere == LoggerInv => \A t \in {"io", "worker"} : L!Runs(t) => statics # <<>>
BY AliveIsThere DEF L!Runs

LEMMA BeginsKeeps ==
  ASSUME LoggerInv, NEW t \in L!Threads, L!Begins(t), L!Runs(t),
         statics # <<>> \/ (life = "starts" /\ t = "main"),
         life' # "starts"
  PROVE  LoggerInv'
<1>1. L!Uses("logger") /\ part' = [part EXCEPT ![t] = 1]
  BY DEF L!Begins
<1>2. /\ statics' \in Seq({"logger", "pool", "logic"})
      /\ statics' # <<>> /\ statics'[1] = "logger"
      /\ \A u \in L!Threads : L!Runs(u) => L!Runs(u)'
  BY <1>1, UsesKeeps DEF LoggerInv
<1>3. part' \in [L!Threads -> Int]
  BY <1>1 DEF LoggerInv
<1>4. \A u \in L!Threads : L!Logging(u)' => L!Logging(u) \/ u = t
  BY <1>1 DEF LoggerInv, L!Logging
<1>5. \A u \in L!Threads : L!Logging(u)' => L!Runs(u)'
  BY <1>2, <1>4 DEF LoggerInv
<1> QED
  BY <1>2, <1>3, <1>5 DEF LoggerInv

LEMMA LogsKeeps ==
  ASSUME LoggerInv, L!Logs
  PROVE  LoggerInv'
<1>1. ASSUME NEW t \in L!Threads, L!Entry(t) PROVE LoggerInv'
  <2>1. L!Begins(t) /\ L!Runs(t) /\ life' = life /\ (t = "main" => life = "serves")
    BY <1>1 DEF L!Entry
  <2>2. statics # <<>>
    BY <2>1, RunsIsThere DEF LoggerInv, L!Threads
  <2>3. life # "starts"
    BY <2>2 DEF LoggerInv
  <2> QED
    BY <2>1, <2>2, <2>3, BeginsKeeps
<1>2. ASSUME NEW t \in L!Threads, L!PrintPart(t) PROVE LoggerInv'
  <2>1. /\ L!Logging(t) /\ part' = [part EXCEPT ![t] = (part[t] + 1) % 4]
        /\ UNCHANGED <<statics, built, life>>
    BY <1>2 DEF L!PrintPart
  <2>2. part' \in [L!Threads -> Int]
    BY <2>1 DEF LoggerInv
  <2>3. \A u \in L!Threads : L!Logging(u)' => L!Logging(u)
    BY <2>1 DEF LoggerInv, L!Logging
  <2>4. \A u \in L!Threads : L!Runs(u)' <=> L!Runs(u)
    BY <2>1 DEF L!Runs, L!Alive, L!Range
  <2> QED
    BY <2>1, <2>2, <2>3, <2>4 DEF LoggerInv
<1> QED
  BY <1>1, <1>2 DEF L!Logs

LEMMA StagesKeep ==
  ASSUME LoggerInv,
         \/ L!ServerStarts \/ L!StartAccept \/ (\E t \in L!Threads : L!FirstPost(t))
         \/ L!SignalLogged \/ L!MainReturns \/ L!ReleasePool
  PROVE  LoggerInv'
<1>t. "main" \in L!Threads /\ L!Runs("main")
  BY DEF L!Threads, L!Runs
<1>1. CASE L!ServerStarts
  BY <1>t, <1>1, BeginsKeeps DEF L!ServerStarts, L!Goes
<1>2. CASE L!StartAccept
  <2>1. /\ life = "accepts" /\ life' = "serves" /\ part' = part
        /\ UNCHANGED <<statics, built>> \/ L!Uses("pool")
    BY <1>2 DEF L!StartAccept, L!Goes
  <2>2. CASE L!Uses("pool")
    <3>1. /\ statics' \in Seq({"logger", "pool", "logic"})
          /\ statics' # <<>> /\ statics'[1] = "logger"
          /\ \A t \in L!Threads : L!Runs(t) => L!Runs(t)'
      BY <2>1, <2>2, UsesKeeps DEF LoggerInv
    <3> QED
      BY <2>1, <3>1 DEF LoggerInv, L!Logging
  <2>3. CASE UNCHANGED <<statics, built>>
    BY <2>1, <2>3 DEF LoggerInv, L!Logging, L!Runs, L!Alive, L!Range
  <2> QED
    BY <2>1, <2>2, <2>3
<1>3. CASE \E t \in L!Threads : L!FirstPost(t)
  <2>1. PICK t \in L!Threads : L!FirstPost(t)
    BY <1>3
  <2>2. L!Uses("logic") /\ L!Runs(t) /\ part' = part /\ life' = life
    BY <2>1 DEF L!FirstPost
  <2>3. t = "io" \/ life = "serves"
    BY <2>1 DEF L!FirstPost
  <2>4. statics # <<>>
    BY <2>2, <2>3, RunsIsThere DEF LoggerInv
  <2>5. /\ statics' \in Seq({"logger", "pool", "logic"})
        /\ statics' # <<>> /\ statics'[1] = "logger"
        /\ \A u \in L!Threads : L!Runs(u) => L!Runs(u)'
    BY <2>2, <2>4, UsesKeeps
  <2>6. life # "starts"
    BY <2>4 DEF LoggerInv
  <2> QED
    BY <2>2, <2>5, <2>6 DEF LoggerInv, L!Logging
<1>4. CASE L!SignalLogged
  BY <1>t, <1>4, BeginsKeeps DEF L!SignalLogged, L!Goes, LoggerInv
<1>5. CASE L!MainReturns
  <2>1. life = "returns" /\ life' = "exits" /\ statics # <<>>
    BY <1>5 DEF L!MainReturns, L!Goes, LoggerInv
  <2>2. CASE L!Begins("main")
    BY <1>t, <2>1, <2>2, BeginsKeeps
  <2>3. CASE UNCHANGED <<statics, built, part, overlapped>>
    BY <2>1, <2>3 DEF LoggerInv, L!Logging, L!Runs, L!Alive, L!Range
  <2> QED
    BY <1>5, <2>2, <2>3 DEF L!MainReturns
<1>6. CASE L!ReleasePool
  BY <1>t, <1>6, BeginsKeeps DEF L!ReleasePool, L!Goes
<1> QED
  BY <1>1, <1>2, <1>3, <1>4, <1>5, <1>6

\* What goes is what nobody needs any more.
LEMMA DestroyStaticKeeps ==
  ASSUME LoggerInv, L!DestroyStatic
  PROVE  LoggerInv'
<1>1. /\ life = "exits" /\ ~L!Logging("main") /\ statics # <<>>
      /\ L!Last(statics) \in {"logger", "logic"}
      /\ L!Last(statics) = "logic" => ~L!Logging("worker")
      /\ statics' = L!Front(statics) /\ UNCHANGED <<life, part>>
  BY DEF L!DestroyStatic
<1>2. PICK n : n = Len(statics)
  OBVIOUS
<1>3. /\ statics \in Seq({"logger", "pool", "logic"}) /\ n \in Nat \ {0}
      /\ statics[1] = "logger" /\ DOMAIN statics = 1 .. n
      /\ L!Last(statics) = statics[n] /\ statics' = SubSeq(statics, 1, n - 1)
  BY <1>1, <1>2 DEF LoggerInv, L!Last, L!Front
<1>4. /\ statics' \in Seq({"logger", "pool", "logic"}) /\ DOMAIN statics' = 1 .. n - 1
      /\ Len(statics') = n - 1
      /\ \A i \in 1 .. n - 1 : statics'[i] = statics[i]
  BY <1>3
<1>5. ASSUME NEW x, L!Alive(x), x # L!Last(statics) PROVE L!Alive(x)'
  <2>1. PICK i \in 1 .. n : statics[i] = x
    BY <1>3, <1>5, AliveIsThere
  <2>2. i \in 1 .. n - 1
    BY <1>3, <1>5, <2>1
  <2>3. i \in DOMAIN statics' /\ statics'[i] = x
    BY <1>4, <2>1, <2>2
  <2> QED
    BY <2>3 DEF L!Alive, L!Range
<1>6. statics' # <<>> => statics'[1] = "logger"
  <2>1. CASE n = 1
    BY <1>4, <2>1
  <2>2. CASE n > 1
    BY <1>3, <1>4, <2>2
  <2> QED
    BY <1>3, <2>1, <2>2
<1>7. ASSUME NEW t \in L!Threads, L!Logging(t)'
      PROVE  statics' # <<>> /\ L!Runs(t)'
  <2>1. t \in {"io", "worker"} /\ L!Logging(t) /\ L!Runs(t)
    BY <1>1, <1>7 DEF LoggerInv, L!Threads, L!Logging
  <2>2. PICK x : x = IF t = "io" THEN "pool" ELSE "logic"
    OBVIOUS
  <2>3. L!Alive(x) /\ x # L!Last(statics)
    BY <1>1, <2>1, <2>2 DEF L!Runs
  <2>4. L!Alive(x)'
    BY <1>5, <2>3
  <2>5. L!Runs(t)'
    BY <2>1, <2>2, <2>4 DEF L!Runs
  <2>6. statics' # <<>>
    BY <2>4 DEF L!Alive, L!Range
  <2> QED
    BY <2>5, <2>6
<1> QED
  BY <1>1, <1>4, <1>6, <1>7 DEF LoggerInv

LEMMA LoggerInitInv == L!LgInit => LoggerInv
BY DEF L!LgInit, LoggerInv, L!Logging

LEMMA LoggerStepInv == LoggerInv /\ [L!LgNext]_lVars => LoggerInv'
<1> SUFFICES ASSUME LoggerInv, [L!LgNext]_lVars PROVE LoggerInv'
  OBVIOUS
<1>1. CASE UNCHANGED lVars
  BY <1>1 DEF lVars, LoggerInv, L!Logging, L!Runs, L!Alive, L!Range
<1>2. CASE L!LgNext
  BY <1>2, LogsKeeps, StagesKeep, DestroyStaticKeeps
  DEF L!LgNext, L!Log5, L!Log6, L!Log7, L!Log8, L!Log9, L!Log10, L!Log11, L!Log12, L!Log13,
      L!Log14, L!Log15, L!Log17
<1> QED
  BY <1>1, <1>2

LEMMA LoggerInvOutlives == LoggerInv => L!LoggerOutlives
<1> SUFFICES ASSUME LoggerInv, NEW t \in L!Threads, L!Logging(t) PROVE L!Alive("logger")
  BY DEF L!LoggerOutlives
<1>1. statics[1] = "logger" /\ 1 \in DOMAIN statics
  BY DEF LoggerInv
<1> QED
  BY <1>1, AliveIsThere

\* A session in use is in the registry that keeps it alive, in 17, in the
\* callback servers and in 19, however its halves, its coroutines, the main
\* thread and its end interleave; and the logger is there for every thread that logs, and for
\* the destructors that do (Server.cc, 19 server.cc, Singleton.hpp).
THEOREM UsedIsKept == MCSpec => []ServedAreKept
<1> DEFINE I == IInv /\ RegInv /\ WsInv /\ LoggerInv
<1>1. MCInit => I
  <2>1. B!WsInit => WsInv
    <3> SUFFICES ASSUME B!WsInit PROVE WsInv
      OBVIOUS
    <3>1. registered = FALSE /\ failed = FALSE /\ spawned = 0 /\ writes = {} /\ reads = "listening"
      BY DEF B!WsInit
    <3> QED
      BY <3>1 DEF WsInv, B!WorkingAreRegistered
  <2> QED
    BY <2>1, InitInv, RegInitInv, LoggerInitInv DEF MCInit
<1>2. I /\ [MCNext]_allVars => I'
  BY PartsStep, CsStepInv, RegStepInv, WsStepInv, LoggerStepInv
<1>3. I => ServedAreKept
  BY LoggerInvOutlives DEF IInv, RegInv, WsInv, ServedAreKept
<1> QED
  BY <1>1, <1>2, <1>3, PTL DEF MCSpec

\* A session that failed leaves the registry, unless it failed before
\* handle_accept put it there, in 9 to 15 and in 17 (Session.cc, Server.cc).
THEOREM FailedIsErased == MCSpec => []FailedLeave
<1> DEFINE I == IInv /\ StaleInv /\ RegInv
<1>1. MCInit => I
  BY InitInv, StaleInitInv, RegInitInv DEF MCInit
<1>2. I /\ [MCNext]_allVars => I'
  BY PartsStep, CsStepInv, StaleStepInv, RegStepInv
<1>3. I => FailedLeave
  BY RegInvLeaves DEF StaleInv, StaleOnlyIfEarly, FailedLeave
<1> QED
  BY <1>1, <1>2, <1>3, PTL DEF MCSpec

-----------------------------------------------------------------------------
(* The logic layer. *)

\* The worker holds the mutex from the predicate to the end of its critical
\* section, a message only while it processes one, and reaches the pop with
\* something to pop.
WorkerInv ==
  /\ mutex <=> worker \in {"predicate", "block", "check"}
  /\ inHand # <<>> => worker \in {"process", "processRest"}
  /\ worker = "check" /\ ~b_stop => queue # <<>>

LogicIInv ==
  /\ TypeOK
  /\ WorkerInv
  /\ HandledInOrder
  /\ SleepsOnlyWhenEmpty

LEMMA LogicInitInv == Init => LogicIInv
<1> SUFFICES ASSUME Init PROVE LogicIInv
  OBVIOUS
<1>1. /\ queue \in Seq(Messages)
      /\ inHand \in Seq(Messages)
      /\ posted \in Seq(Messages)
      /\ handled \in Seq(Messages)
  BY DEF Init
<1>2. posted = handled \o inHand \o queue
  BY <1>1, ConcatEmptySeq DEF Init
<1>3. Len(inHand) <= 1
  BY EmptySeq DEF Init
<1>4. TypeOK
  BY <1>1, <1>3 DEF Init, TypeOK, WorkerStates, OwnerStates
<1>5. WorkerInv /\ SleepsOnlyWhenEmpty
  BY DEF Init, WorkerInv, SleepsOnlyWhenEmpty
<1> QED
  BY <1>2, <1>4, <1>5 DEF LogicIInv, HandledInOrder

LEMMA PostInv ==
  ASSUME LogicIInv, NEW m \in Messages, Post(m)
  PROVE  LogicIInv'
<1> USE DEF LogicIInv
<1>1. /\ queue \in Seq(Messages)
      /\ inHand \in Seq(Messages)
      /\ posted \in Seq(Messages)
      /\ handled \in Seq(Messages)
  BY DEF TypeOK
<1>2. queue' \in Seq(Messages) /\ queue' # <<>> /\ posted' \in Seq(Messages)
  BY <1>1, AppendProperties DEF Post
<1>3. worker' \in WorkerStates
  BY DEF Post, Notified, TypeOK, WorkerStates
<1>4. TypeOK'
  BY <1>2, <1>3 DEF Post, TypeOK
<1>5. worker # "predicate" /\ worker # "block" /\ worker # "check"
  BY DEF Post, WorkerInv
<1>6. worker' = worker \/ (worker = "waiting" /\ worker' = "woken")
  <2>1. worker' = Notified \/ worker' = worker
    <3>1. CASE Len(queue') = 1
      BY <3>1 DEF Post
    <3>2. CASE Len(queue') # 1
      BY <3>2 DEF Post
    <3> QED
      BY <3>1, <3>2
  <2> QED
    BY <2>1 DEF Notified
<1>7. WorkerInv'
  BY <1>5, <1>6 DEF Post, WorkerInv
<1>8. HandledInOrder'
  <2> SUFFICES ASSUME ~MembersGone
               PROVE  posted' = handled \o inHand \o queue'
    BY DEF HandledInOrder, MembersGone, Post
  <2>1. posted = handled \o inHand \o queue
    BY DEF HandledInOrder
  <2>2. <<m>> \in Seq(Messages) /\ handled \o inHand \in Seq(Messages)
    BY <1>1, ConcatProperties
  <2>3. posted' = posted \o <<m>> /\ queue' = queue \o <<m>>
    BY <1>1, AppendIsConcat DEF Post
  <2>4. ((handled \o inHand) \o queue) \o <<m>>
          = (handled \o inHand) \o (queue \o <<m>>)
    BY <1>1, <2>2, ConcatAssociative, SMTT(30)
  <2> QED
    BY <2>1, <2>3, <2>4
<1>9. SleepsOnlyWhenEmpty'
  <2>1. worker = "waiting" => Len(queue') = 1
    BY <1>1, AppendProperties, EmptySeq DEF Post, SleepsOnlyWhenEmpty
  <2>2. worker' # "waiting"
    BY <2>1 DEF Post, Notified
  <2> QED
    BY <1>5, <1>6, <2>2 DEF SleepsOnlyWhenEmpty
<1> QED
  BY <1>4, <1>7, <1>8, <1>9

\* Taking the front moves it from the queue to the worker's hand.
LEMMA PopFrontInv ==
  ASSUME LogicIInv, queue # <<>>, inHand = <<>>, PopFront
  PROVE  /\ queue' \in Seq(Messages)
         /\ inHand' \in Seq(Messages)
         /\ Len(inHand') = 1
         /\ handled \o inHand \o queue = handled \o inHand' \o queue'
<1>1. queue \in Seq(Messages) /\ handled \in Seq(Messages)
  BY DEF LogicIInv, TypeOK
<1>2. Head(queue) \in Messages /\ Tail(queue) \in Seq(Messages)
  BY <1>1, HeadTailProperties
<1>3. /\ inHand' = <<Head(queue)>> /\ <<Head(queue)>> \in Seq(Messages)
      /\ queue' = Tail(queue)
  BY <1>2 DEF PopFront
<1>4. queue = <<Head(queue)>> \o Tail(queue)
  <2>1. Len(queue) \in Nat /\ 1 \in 1 .. Len(queue) /\ Len(queue) \in 1 .. Len(queue)
    BY <1>1, EmptySeq
  <2>2. SubSeq(queue, 1, Len(queue)) = <<queue[1]>> \o SubSeq(queue, 1 + 1, Len(queue))
    BY <1>1, <2>1, SubSeqRecursiveFirst
  <2>3. Tail(queue) = SubSeq(queue, 2, Len(queue)) /\ Head(queue) = queue[1]
    BY <1>1, TailIsSubSeq
  <2> QED
    BY <1>1, <2>2, <2>3, SubSeqFull
<1>5. handled \o inHand = handled
  BY <1>1, ConcatEmptySeq
<1>6. handled \o queue = (handled \o <<Head(queue)>>) \o Tail(queue)
  BY <1>1, <1>2, <1>3, <1>4, ConcatAssociative
<1> QED
  BY <1>2, <1>3, <1>5, <1>6

LEMMA WorkerStep ==
  ASSUME LogicIInv, Worker \/ SpuriousWakeup
  PROVE  LogicIInv'
<1> USE DEF LogicIInv
<1>1. /\ queue \in Seq(Messages)
      /\ inHand \in Seq(Messages)
      /\ handled \in Seq(Messages)
      /\ <<>> \in Seq(Messages) /\ Len(<<>>) = 0
  BY EmptySeq DEF TypeOK
<1>2. CASE Loop \/ Predicate \/ Block \/ SpuriousWakeup \/ Acquire
  <2>1. UNCHANGED <<queue, b_stop, inHand, owner, posted, handled>>
    BY <1>2 DEF Loop, Predicate, Block, SpuriousWakeup, Acquire
  <2>2. worker' \in WorkerStates /\ mutex' \in BOOLEAN
    BY <1>2 DEF Loop, Predicate, Block, SpuriousWakeup, Acquire, Move, WorkerStates, TypeOK
  <2>3. TypeOK' /\ HandledInOrder'
    BY <2>1, <2>2 DEF TypeOK, HandledInOrder, MembersGone
  <2>4. WorkerInv' /\ SleepsOnlyWhenEmpty'
    <3> HIDE DEF LogicIInv
    <3>1. WorkerInv /\ SleepsOnlyWhenEmpty
      BY DEF LogicIInv
    <3> QED
      BY <1>2, <2>1, <3>1 DEF Loop, Predicate, Block, SpuriousWakeup, Acquire, Move,
         WorkerInv, SleepsOnlyWhenEmpty
  <2> QED
    BY <2>3, <2>4
<1>3. CASE (Check /\ b_stop) \/ (Drain /\ queue = <<>>)
  <2>1. /\ UNCHANGED <<queue, b_stop, inHand, owner, posted, handled>>
        /\ worker' \in {"drain", "exited"} /\ worker \in {"check", "drain"}
        /\ mutex' = FALSE
    BY <1>3 DEF Check, Drain, Move, WorkerInv, TypeOK
  <2>2. TypeOK' /\ HandledInOrder'
    BY <2>1 DEF TypeOK, HandledInOrder, MembersGone, WorkerStates
  <2>3. WorkerInv' /\ SleepsOnlyWhenEmpty'
    BY <2>1 DEF WorkerInv, SleepsOnlyWhenEmpty
  <2> QED
    BY <2>2, <2>3
<1>4. CASE (Check /\ ~b_stop) \/ (Drain /\ queue # <<>>)
  <2>1. /\ worker \in {"check", "drain"} /\ worker' \in {"process", "processRest"}
        /\ PopFront /\ ~mutex' /\ mutex' \in BOOLEAN
        /\ UNCHANGED <<b_stop, owner, posted, handled>>
    <3>0. mutex \in BOOLEAN
      BY DEF TypeOK
    <3>1. CASE Check /\ ~b_stop
      BY <3>1 DEF Check, Move
    <3>2. CASE Drain /\ queue # <<>>
      BY <3>0, <3>2 DEF Drain, Move
    <3> QED
      BY <1>4, <3>1, <3>2
  <2>2. inHand = <<>> /\ queue # <<>>
    BY <1>4, <2>1 DEF WorkerInv, Check, Move
  <2>3. /\ queue' \in Seq(Messages)
        /\ inHand' \in Seq(Messages) /\ Len(inHand') = 1
        /\ handled \o inHand \o queue = handled \o inHand' \o queue'
    BY <2>1, <2>2, PopFrontInv
  <2>4. TypeOK'
    <3>1. worker' \in WorkerStates
      BY <2>1 DEF WorkerStates
    <3> QED
      BY <2>1, <2>3, <3>1 DEF TypeOK
  <2>5. HandledInOrder'
    BY <2>1, <2>3 DEF HandledInOrder, MembersGone
  <2> QED
    BY <2>1, <2>4, <2>5 DEF WorkerInv, SleepsOnlyWhenEmpty
<1>5. CASE Process \/ ProcessRest
  <2>1. /\ worker' \in {"loop", "drain"} /\ worker \in {"process", "processRest"}
        /\ inHand' = <<>>
        /\ handled' = handled \o inHand \/ (MembersGone /\ handled' = handled)
        /\ UNCHANGED <<queue, mutex, b_stop, owner, posted>>
    BY <1>5 DEF Process, ProcessRest, ProcessMessage, Move
  <2>2. handled \o inHand \in Seq(Messages)
    BY <1>1, ConcatProperties
  <2>3. TypeOK'
    <3>1. worker' \in WorkerStates
      BY <2>1 DEF WorkerStates
    <3>2. inHand' \in Seq(Messages) /\ Len(inHand') <= 1 /\ handled' \in Seq(Messages)
      <4>1. inHand' = <<>> /\ (handled' = handled \o inHand \/ handled' = handled)
        BY <2>1
      <4>2. inHand' \in Seq(Messages) /\ Len(inHand') = 0
        BY <1>1, <4>1
      <4>3. handled' \in Seq(Messages)
        BY <1>1, <2>2, <4>1
      <4> QED
        BY <4>2, <4>3
    <3> QED
      BY <2>1, <3>1, <3>2 DEF TypeOK
  <2>4. HandledInOrder'
    <3>1. (handled \o inHand) \o <<>> = handled \o inHand
      BY <2>2, ConcatEmptySeq
    <3> QED
      BY <2>1, <3>1 DEF HandledInOrder, MembersGone
  <2> QED
    BY <2>1, <2>3, <2>4 DEF WorkerInv, SleepsOnlyWhenEmpty
<1> QED
  BY <1>2, <1>3, <1>4, <1>5 DEF Worker

LEMMA DestructorInv ==
  ASSUME LogicIInv, Destructor
  PROVE  LogicIInv'
<1> USE DEF LogicIInv
<1>1. worker' = worker \/ (worker = "waiting" /\ worker' = "woken")
  <2>1. worker' = Notified \/ worker' = worker
    BY Zenon DEF Destructor, StoreStop, NotifyStop, DestroyMembers, RequestStop, Join
  <2> QED
    BY <2>1 DEF Notified
<1>2. /\ UNCHANGED <<queue, mutex, inHand, posted, handled>>
      /\ owner' \in OwnerStates
      /\ b_stop' \in BOOLEAN
      /\ b_stop' = b_stop \/ b_stop' = TRUE
      /\ MembersGone => MembersGone'
  BY DEF Destructor, StoreStop, NotifyStop, DestroyMembers, RequestStop, Join,
         Advance, OwnerStates, MembersGone, TypeOK
<1>3. worker' \in WorkerStates
  BY <1>1 DEF TypeOK, WorkerStates
<1>4. TypeOK'
  BY <1>2, <1>3 DEF TypeOK
<1>5. WorkerInv'
  BY <1>1, <1>2 DEF WorkerInv
<1>6. HandledInOrder' /\ SleepsOnlyWhenEmpty'
  BY <1>1, <1>2 DEF HandledInOrder, SleepsOnlyWhenEmpty
<1> QED
  BY <1>4, <1>5, <1>6

\* The inductive invariant holds in every behaviour of the logic layer.
THEOREM LogicInvariance == Spec => []LogicIInv
<1>1. LogicIInv /\ [Next]_vars => LogicIInv'
  <2> SUFFICES ASSUME LogicIInv, [Next]_vars PROVE LogicIInv'
    OBVIOUS
  <2>1. CASE UNCHANGED vars
    BY <2>1 DEF vars, LogicIInv, TypeOK, WorkerInv, HandledInOrder, SleepsOnlyWhenEmpty,
                MembersGone
  <2> QED
    BY <2>1, PostInv, WorkerStep, DestructorInv DEF Next
<1> QED
  BY <1>1, LogicInitInv, PTL DEF Spec

\* Posted messages are handled, in hand or queued, in the order of the posts,
\* also while the worker stops (LogicSystem.cc 50-85, 133-140).
THEOREM OrderKept == Spec => []HandledInOrder
<1>1. LogicIInv => HandledInOrder
  BY DEF LogicIInv
<1> QED
  BY <1>1, LogicInvariance, PTL

\* Notifying only when the queue was empty never leaves the worker asleep on a
\* message (line 137).
THEOREM NoMissedMessage == Spec => []SleepsOnlyWhenEmpty
<1>1. LogicIInv => SleepsOnlyWhenEmpty
  BY DEF LogicIInv
<1> QED
  BY <1>1, LogicInvariance, PTL

-----------------------------------------------------------------------------
(* The answers of the WebSocket server are what has come, in order.        *)

\* The messages behind the n-th are queued, in order.
Queued(n) ==
  /\ n + Len(unsent) = arrived
  /\ \A i \in 1 .. Len(unsent) : unsent[i] = n + i

\* The answers, the write under way and the queue hold what has arrived, in order.
WsOrder ==
  /\ arrived \in Nat /\ unsent \in Seq(Nat) /\ replies \in Seq(Nat)
  /\ writes \subseteq Nat
  /\ ~collided =>
       /\ Len(replies) <= arrived
       /\ \A i \in 1 .. Len(replies) : replies[i] = i
       /\ \/ failed
          \/ writes = {} /\ Queued(Len(replies))
          \/ writes = {Len(replies) + 1} /\ Queued(Len(replies) + 1)

LEMMA AppendTo ==
  ASSUME NEW s \in Seq(Nat), NEW x \in Nat
  PROVE  /\ Append(s, x) \in Seq(Nat) /\ Len(Append(s, x)) = Len(s) + 1
         /\ \A i \in 1 .. Len(s) : Append(s, x)[i] = s[i]
         /\ Append(s, x)[Len(s) + 1] = x
BY AppendProperties

LEMMA TailOf ==
  ASSUME NEW s \in Seq(Nat), s # <<>>
  PROVE  /\ Head(s) = s[1] /\ Head(s) \in Nat /\ 1 \in 1 .. Len(s)
         /\ Tail(s) \in Seq(Nat) /\ Len(Tail(s)) = Len(s) - 1
         /\ \A i \in 1 .. Len(s) - 1 : Tail(s)[i] = s[i + 1]
BY HeadTailProperties, EmptySeq, LenProperties, ElementOfSeq

LEMMA WsOrderInit == B!WsInit => WsOrder
<1> SUFFICES ASSUME B!WsInit PROVE WsOrder
  OBVIOUS
<1>1. /\ arrived = 0 /\ unsent = <<>> /\ replies = <<>> /\ writes = {}
      /\ <<>> \in Seq(Nat) /\ Len(<<>>) = 0
  BY EmptySeq DEF B!WsInit
<1> QED
  BY <1>1 DEF WsOrder, Queued

LEMMA WsOrderStep == WsOrder /\ [B!WsNext]_wVars => WsOrder'
<1> SUFFICES ASSUME WsOrder, [B!WsNext]_wVars PROVE WsOrder'
  OBVIOUS
<1>0. /\ arrived \in Nat /\ unsent \in Seq(Nat) /\ replies \in Seq(Nat) /\ writes \subseteq Nat
      /\ Len(replies) \in Nat /\ Len(unsent) \in Nat
  BY LenProperties DEF WsOrder
<1>00. arrived \in Nat /\ Len(replies) \in Nat /\ Len(unsent) \in Nat
  BY <1>0
<1>1. CASE \/ UNCHANGED wVars
           \/ B!StartAccept \/ B!Handshake \/ B!ReadError \/ B!Signal
  <2>1. UNCHANGED <<arrived, unsent, writes, failed, collided, replies>>
    BY <1>1 DEF wVars, B!StartAccept, B!Handshake, B!ReadError, B!Signal
  <2> QED
    BY <2>1 DEF WsOrder, Queued
<1>2. CASE B!ReadMessage
  <2>1. /\ arrived' = arrived + 1 /\ unsent' = Append(unsent, arrived + 1)
        /\ UNCHANGED <<writes, failed, collided, replies>>
    BY <1>2 DEF B!ReadMessage
  <2>2. /\ unsent' \in Seq(Nat) /\ Len(unsent') = Len(unsent) + 1
        /\ \A i \in 1 .. Len(unsent) : unsent'[i] = unsent[i]
        /\ unsent'[Len(unsent) + 1] = arrived + 1
    BY <2>1, AppendTo DEF WsOrder
  <2>3. ASSUME NEW n \in Nat, Queued(n) PROVE Queued(n)'
    <3>1. n + Len(unsent) = arrived /\ \A i \in 1 .. Len(unsent) : unsent[i] = n + i
      BY <2>3 DEF Queued
    <3>2. n + Len(unsent') = arrived'
      <4>1. arrived' = arrived + 1 /\ Len(unsent') = Len(unsent) + 1 /\ n + Len(unsent) = arrived
        BY <2>1, <2>2, <3>1
      <4> QED
        BY <1>00, <4>1
    <3>3. ASSUME NEW i \in 1 .. Len(unsent') PROVE unsent'[i] = n + i
      BY <1>0, <2>1, <2>2, <3>1
    <3> QED
      BY <3>2, <3>3 DEF Queued
  <2> QED
    BY <1>0, <2>1, <2>2, <2>3 DEF WsOrder
<1>3. CASE B!TakeNext
  <2>1. CASE unsent = <<>>
    <3>1. UNCHANGED <<arrived, unsent, writes, failed, collided, replies>>
      BY <1>3, <2>1 DEF B!TakeNext
    <3> QED
      BY <3>1 DEF WsOrder, Queued
  <2>2. CASE unsent # <<>>
    <3>1. /\ unsent' = Tail(unsent) /\ writes' = writes \cup {Head(unsent)}
          /\ collided' = (collided \/ writes # {})
          /\ UNCHANGED <<arrived, failed, replies>>
      BY <1>3, <2>2 DEF B!TakeNext
    <3>2. /\ Head(unsent) = unsent[1] /\ 1 \in 1 .. Len(unsent)
          /\ unsent' \in Seq(Nat) /\ Len(unsent') = Len(unsent) - 1
          /\ \A i \in 1 .. Len(unsent) - 1 : unsent'[i] = unsent[i + 1]
      BY <2>2, <3>1, TailOf DEF WsOrder
    <3>3. ASSUME NEW n \in Nat, Queued(n)
          PROVE  Head(unsent) = n + 1 /\ Queued(n + 1)'
      <4>1. n + Len(unsent) = arrived /\ \A i \in 1 .. Len(unsent) : unsent[i] = n + i
        BY <3>3 DEF Queued
      <4>2. Head(unsent) = n + 1 /\ n + 1 + Len(unsent') = arrived'
        BY <1>0, <3>1, <3>2, <4>1
      <4>3. ASSUME NEW i \in 1 .. Len(unsent') PROVE unsent'[i] = n + 1 + i
        BY <1>0, <3>1, <3>2, <4>1
      <4> QED
        BY <4>2, <4>3 DEF Queued
    <3>4. /\ unsent' \in Seq(Nat) /\ writes' \subseteq Nat /\ arrived' \in Nat /\ replies' \in Seq(Nat)
      <4>1. Head(unsent) \in Nat
        BY <1>0, <2>2, TailOf
      <4> QED
        BY <1>0, <3>1, <3>2, <4>1
    <3>5. ASSUME ~collided' PROVE WsOrder'
      <4>1. ~collided /\ writes = {}
        BY <3>1, <3>5
      <4>2. CASE failed
        BY <3>1, <3>4, <4>1, <4>2 DEF WsOrder
      <4>3. CASE ~failed
        <5>1. Queued(Len(replies))
          BY <4>1, <4>3 DEF WsOrder
        <5>2. Head(unsent) = Len(replies) + 1 /\ Queued(Len(replies) + 1)'
          BY <1>00, <3>1, <3>3, <5>1
        <5>3. writes' = {Len(replies) + 1}
          BY <3>1, <4>1, <5>2
        <5> QED
          BY <3>1, <3>4, <4>1, <5>2, <5>3 DEF WsOrder
      <4> QED
        BY <4>2, <4>3
    <3> QED
      BY <3>4, <3>5 DEF WsOrder
  <2> QED
    BY <2>1, <2>2
<1>4. CASE \E m \in writes : B!MessageWritten(m)
  <2>1. PICK m \in writes : B!MessageWritten(m)
    BY <1>4
  <2>2. /\ ~failed /\ writes' = writes \ {m} /\ replies' = Append(replies, m)
        /\ UNCHANGED <<arrived, unsent, failed, collided>>
    BY <2>1 DEF B!MessageWritten
  <2>3. /\ replies' \in Seq(Nat) /\ Len(replies') = Len(replies) + 1
        /\ \A i \in 1 .. Len(replies) : replies'[i] = replies[i]
        /\ replies'[Len(replies) + 1] = m
    BY <1>0, <2>1, <2>2, AppendTo
  <2>4. ASSUME ~collided
        PROVE  m = Len(replies) + 1 /\ Queued(m) /\ writes' = {}
    BY <1>0, <2>1, <2>2, <2>4 DEF WsOrder
  <2>5. ASSUME ~collided
        PROVE  Queued(Len(replies))' /\ Len(replies') <= arrived'
    <3>1. Queued(Len(replies) + 1)
      BY <2>4, <2>5
    <3>2. Queued(Len(replies))'
      <4> DEFINE n == Len(replies) + 1
      <4>1. /\ n + Len(unsent) = arrived
            /\ \A i \in 1 .. Len(unsent) : unsent[i] = n + i
        BY <3>1 DEF Queued
      <4>2. Len(replies') = n /\ unsent' = unsent /\ arrived' = arrived
        BY <2>2, <2>3
      <4> HIDE DEF n
      <4> QED
        BY <4>1, <4>2 DEF Queued
    <3>3. Len(replies) + 1 <= arrived
      <4>1. Len(replies) + 1 + Len(unsent) = arrived
        BY <3>1 DEF Queued
      <4> QED
        BY <1>00, <4>1
    <3> QED
      BY <2>2, <2>3, <3>2, <3>3
  <2>6. /\ unsent' \in Seq(Nat) /\ writes' \subseteq Nat /\ arrived' \in Nat
    BY <1>0, <2>2
  <2>7. ASSUME ~collided PROVE \A i \in 1 .. Len(replies') : replies'[i] = i
    <3>1. \A i \in 1 .. Len(replies) : replies[i] = i
      BY <2>7 DEF WsOrder
    <3>2. Len(replies') = Len(replies) + 1 /\ replies'[Len(replies) + 1] = Len(replies) + 1
      BY <2>3, <2>4, <2>7
    <3>3. ASSUME NEW i \in 1 .. Len(replies'), i # Len(replies) + 1 PROVE i \in 1 .. Len(replies)
      BY <1>00, <3>2, <3>3
    <3> QED
      BY <2>3, <3>1, <3>2, <3>3
  <2> QED
    BY <2>2, <2>3, <2>4, <2>5, <2>6, <2>7 DEF WsOrder
<1>5. CASE \E m \in writes : B!WriteError(m)
  <2>1. /\ failed' = TRUE /\ writes' \subseteq writes
        /\ UNCHANGED <<arrived, unsent, collided, replies>>
    BY <1>5 DEF B!WriteError
  <2> QED
    BY <2>1 DEF WsOrder
<1> QED
  BY <1>1, <1>2, <1>3, <1>4, <1>5 DEF B!WsNext

LEMMA WsOrderShows == WsOrder => B!RepliesInOrder
<1> SUFFICES ASSUME WsOrder, ~collided PROVE B!IsPrefix(replies, [i \in 1 .. arrived |-> i])
  BY DEF B!RepliesInOrder
<1> DEFINE all == [i \in 1 .. arrived |-> i]
<1>1. /\ arrived \in Nat /\ replies \in Seq(Nat) /\ Len(replies) \in Nat
      /\ Len(replies) <= arrived /\ \A i \in 1 .. Len(replies) : replies[i] = i
  BY LenProperties DEF WsOrder
<1>2. all \in Seq(Nat) /\ Len(all) = arrived /\ \A i \in 1 .. arrived : all[i] = i
  BY <1>1
<1>3. SubSeq(replies, 1, Len(replies)) = SubSeq(all, 1, Len(replies))
  BY <1>1, <1>2
<1> QED
  BY <1>1, <1>2, <1>3 DEF B!IsPrefix

-----------------------------------------------------------------------------
(* The synchronous echo (3): what the client gets back is the line.        *)

\* The byte at place i of what the client reads may be v.
MayBe(i, v) == i > length \/ v = i \/ (cut /\ v = 0)

SyncTypes ==
  /\ length \in 0 .. Width - 1 /\ sentBytes \in Nat /\ returned \in Nat
  /\ upward \in Seq(Nat) /\ downward \in Seq(Nat) /\ got \in Seq(Nat)
  /\ receive \in [1 .. Width -> Nat]
  /\ cut \in BOOLEAN

\* What has been written back is longer than the line unless the first buffer is
\* being written back, or the first part of the line has not been read.
SyncOrder ==
  LET back == Len(got) + Len(downward)
  IN /\ \A i \in 1 .. Len(downward) : MayBe(Len(got) + i, downward[i])
     /\ session = "writing" /\ back < Width =>
          returned = back /\ \A i \in 1 .. Width : MayBe(i, receive[i])
     /\ session # "writing" /\ back < Width =>
          /\ back = 0 /\ sentBytes = Len(upward)
          /\ \A i \in 1 .. Len(upward) : upward[i] = i

SyncInv ==
  /\ SyncTypes
  /\ \A i \in 1 .. Len(got) : MayBe(i, got[i])
  /\ Len(got) <= length
  /\ client # "gone" => SyncOrder

LEMMA SyncInitInv == E!SyncInit => SyncInv
<1> SUFFICES ASSUME E!SyncInit PROVE SyncInv
  OBVIOUS
<1>1. /\ got = <<>> /\ downward = <<>> /\ upward = <<>> /\ sentBytes = 0 /\ returned = 0
      /\ cut = FALSE /\ session = "accepting" /\ length \in 0 .. Width - 1
      /\ receive \in [1 .. Width -> Nat]
  BY DEF E!SyncInit, E!Cleared
<1>2. got \in Seq(Nat) /\ Len(got) = 0 /\ Len(downward) = 0 /\ Len(upward) = 0
  BY <1>1
<1>3. Width \in Nat /\ length \in Nat
  BY <1>1, ServersAssumption DEF ServersAssumption
<1>4. SyncTypes
  BY <1>1, <1>2 DEF SyncTypes
<1>5. SyncOrder
  BY <1>1, <1>2 DEF SyncOrder
<1> QED
  BY <1>2, <1>3, <1>4, <1>5 DEF SyncInv

\* A part of a sequence.
LEMMA PartOf ==
  ASSUME NEW s \in Seq(Nat), NEW m \in Nat, NEW n \in Nat, m <= n, n <= Len(s)
  PROVE  /\ SubSeq(s, m + 1, n) \in Seq(Nat) /\ Len(SubSeq(s, m + 1, n)) = n - m
         /\ \A i \in 1 .. n - m : SubSeq(s, m + 1, n)[i] = s[m + i]
BY SubSeqProperties

LEMMA Joined ==
  ASSUME NEW s \in Seq(Nat), NEW t \in Seq(Nat)
  PROVE  /\ s \o t \in Seq(Nat) /\ Len(s \o t) = Len(s) + Len(t)
         /\ Len(s) \in Nat /\ Len(t) \in Nat
         /\ \A i \in 1 .. Len(s) : (s \o t)[i] = s[i]
         /\ \A i \in 1 .. Len(t) : (s \o t)[Len(s) + i] = t[i]
BY ConcatProperties, LenProperties

LEMMA ReceiveKeeps ==
  ASSUME SyncInv, E!ReadFromSocket
  PROVE  SyncInv'
<1> DEFINE d == Len(downward)
           g == Len(got)
<1>1. PICK n \in 1 .. d :
        /\ g + n <= length
        /\ got' = got \o SubSeq(downward, 1, n)
        /\ downward' = SubSeq(downward, n + 1, d)
  BY DEF E!ReadFromSocket
<1>2. /\ UNCHANGED <<length, client, session, sentBytes, upward, receive, returned, cut>>
      /\ client # "gone"
  BY DEF E!ReadFromSocket
<1>3. downward \in Seq(Nat) /\ got \in Seq(Nat) /\ d \in Nat /\ g \in Nat /\ length \in Nat /\ n \in Nat
  <2>1. Width \in Nat
    BY ServersAssumption DEF ServersAssumption
  <2> QED
    BY <2>1, LenProperties DEF SyncInv, SyncTypes
<1>4. /\ SubSeq(downward, 1, n) \in Seq(Nat) /\ Len(SubSeq(downward, 1, n)) = n
      /\ \A i \in 1 .. n : SubSeq(downward, 1, n)[i] = downward[i]
  BY <1>3, SubSeqProperties
<1>5. /\ downward' \in Seq(Nat) /\ Len(downward') = d - n
      /\ \A i \in 1 .. d - n : downward'[i] = downward[n + i]
  <2>1. n <= d /\ d <= Len(downward)
    BY <1>3
  <2> HIDE DEF g
  <2> QED
    BY <1>1, <1>3, <2>1, PartOf, Zenon
<1>6. /\ got' \in Seq(Nat) /\ Len(got') = g + n
      /\ \A i \in 1 .. g : got'[i] = got[i]
      /\ \A i \in 1 .. n : got'[g + i] = downward[i]
  BY <1>1, <1>3, <1>4, Joined, SMTT(30)
<1> HIDE DEF d, g
<1>7. /\ \A i \in 1 .. g : MayBe(i, got[i])
      /\ \A i \in 1 .. d : MayBe(g + i, downward[i])
  BY <1>2 DEF SyncInv, SyncOrder, d, g
<1>8. ASSUME NEW i, NEW v, MayBe(i, v) PROVE MayBe(i, v)'
  BY <1>2, <1>8 DEF MayBe
<1>9. \A i \in 1 .. g + n : MayBe(i, got'[i])
  <2> SUFFICES ASSUME NEW i \in 1 .. g + n PROVE MayBe(i, got'[i])
    OBVIOUS
  <2>1. CASE i \in 1 .. g
    BY <1>6, <1>7, <2>1
  <2>2. CASE i \notin 1 .. g
    <3>1. i - g \in 1 .. n /\ i - g \in 1 .. d /\ g + (i - g) = i
      BY <1>3, <2>2
    <3>2. got'[i] = downward[i - g]
      BY <1>6, <3>1
    <3> QED
      BY <1>7, <3>1, <3>2
  <2> QED
    BY <2>1, <2>2
<1>10. \A i \in 1 .. d - n : MayBe(g + n + i, downward'[i])
  <2> SUFFICES ASSUME NEW i \in 1 .. d - n PROVE MayBe(g + n + i, downward'[i])
    OBVIOUS
  <2>1. n + i \in 1 .. d /\ g + (n + i) = g + n + i
    BY <1>3
  <2> QED
    BY <1>5, <1>7, <2>1
<1>11. SyncOrder'
  <2>1. Len(got') + Len(downward') = g + d
    BY <1>3, <1>5, <1>6
  <2>2. /\ session = "writing" /\ g + d < Width =>
             returned = g + d /\ \A i \in 1 .. Width : MayBe(i, receive[i])
        /\ session # "writing" /\ g + d < Width =>
             /\ g + d = 0 /\ sentBytes = Len(upward)
             /\ \A i \in 1 .. Len(upward) : upward[i] = i
    BY <1>2 DEF SyncInv, SyncOrder, d, g
  <2> QED
    BY <1>2, <1>5, <1>6, <1>8, <1>10, <2>1, <2>2 DEF SyncOrder
<1> QED
  BY <1>1, <1>2, <1>3, <1>5, <1>6, <1>9, <1>11 DEF SyncInv, SyncTypes, MayBe

\* The client writes, and goes on; the server accepts and ends: nothing that has
\* been written back moves.
LEMMA ClientKeeps ==
  ASSUME SyncInv, E!WriteToSocket \/ E!ClientGoesOn \/ E!AcceptClient \/ E!SessionEnds
                    \/ E!WriteIgnored
  PROVE  SyncInv'
<1>1. /\ UNCHANGED <<length, receive, returned, downward, got, cut>>
      /\ client' # "gone" => client # "gone"
  BY DEF E!WriteToSocket, E!ClientGoesOn, E!AcceptClient, E!SessionEnds, E!WriteIgnored
<1>2. length \in Nat /\ sentBytes \in Nat /\ Len(got) \in Nat /\ Len(downward) \in Nat
  <2>1. Width \in Nat
    BY ServersAssumption DEF ServersAssumption
  <2> QED
    BY <2>1, LenProperties DEF SyncInv, SyncTypes
<1>3. CASE E!WriteToSocket
  <2>1. PICK n \in 1 .. length - sentBytes :
          /\ upward' = upward \o [i \in 1 .. n |-> sentBytes + i]
          /\ sentBytes' = sentBytes + n
    BY <1>3 DEF E!WriteToSocket
  <2>2. session' = session /\ client' = client
    BY <1>3 DEF E!WriteToSocket
  <2>3. n \in Nat /\ upward \in Seq(Nat)
    BY <1>2, <2>1 DEF SyncInv, SyncTypes
  <2> DEFINE more == [i \in 1 .. n |-> sentBytes + i]
  <2>4. more \in Seq(Nat) /\ Len(more) = n /\ \A i \in 1 .. n : more[i] = sentBytes + i
    BY <1>2, <2>3
  <2> HIDE DEF more
  <2>5. /\ upward' \in Seq(Nat) /\ Len(upward') = Len(upward) + n /\ Len(upward) \in Nat
        /\ \A i \in 1 .. Len(upward) : upward'[i] = upward[i]
        /\ \A i \in 1 .. n : upward'[Len(upward) + i] = sentBytes + i
    BY <2>1, <2>3, <2>4, Joined DEF more
  <2>6. ASSUME sentBytes = Len(upward), \A i \in 1 .. Len(upward) : upward[i] = i
        PROVE  sentBytes' = Len(upward') /\ \A i \in 1 .. Len(upward') : upward'[i] = i
    <3>1. sentBytes' = Len(upward')
      BY <2>1, <2>5, <2>6
    <3>2. ASSUME NEW i \in 1 .. Len(upward') PROVE upward'[i] = i
      <4>1. CASE i \in 1 .. Len(upward)
        BY <2>5, <2>6, <4>1
      <4>2. CASE i \notin 1 .. Len(upward)
        <5>1. i - Len(upward) \in 1 .. n /\ Len(upward) + (i - Len(upward)) = i
          BY <2>3, <2>5, <4>2
        <5>2. upward'[i] = sentBytes + (i - Len(upward))
          BY <2>5, <5>1
        <5> QED
          BY <2>6, <5>1, <5>2
      <4> QED
        BY <4>1, <4>2
    <3> QED
      BY <3>1, <3>2
  <2>7. sentBytes' \in Nat
    BY <1>2, <2>1, <2>3
  <2>8. SyncOrder => SyncOrder'
    BY <1>1, <2>2, <2>6 DEF SyncOrder, MayBe
  <2> QED
    BY <1>1, <2>2, <2>5, <2>7, <2>8 DEF SyncInv, SyncTypes, MayBe
<1>4. CASE ~E!WriteToSocket
  <2>1. UNCHANGED <<upward, sentBytes>>
    BY <1>4 DEF E!ClientGoesOn, E!AcceptClient, E!SessionEnds, E!WriteIgnored
  <2>2. client' # "gone" => (session' = "writing" <=> session = "writing")
    BY <1>4 DEF E!ClientGoesOn, E!AcceptClient, E!SessionEnds, E!WriteIgnored
  <2>3. SyncOrder /\ client' # "gone" => SyncOrder'
    BY <1>1, <2>1, <2>2 DEF SyncOrder, MayBe
  <2> QED
    BY <1>1, <2>1, <2>3 DEF SyncInv, SyncTypes, MayBe
<1> QED
  BY <1>3, <1>4

LEMMA ReadsKeep ==
  ASSUME SyncInv, E!SessionReads
  PROVE  SyncInv'
<1>1. PICK n \in 1 .. Len(upward) :
        /\ receive' = [i \in 1 .. Width |-> IF i <= n THEN upward[i] ELSE 0]
        /\ upward' = SubSeq(upward, n + 1, Len(upward))
        /\ cut' = (cut \/ n # length)
  BY DEF E!SessionReads
<1>2. /\ session = "reading" /\ session' = "writing" /\ returned' = 0
      /\ UNCHANGED <<length, client, sentBytes, downward, got>>
  BY DEF E!SessionReads
<1>3. /\ upward \in Seq(Nat) /\ Len(upward) \in Nat /\ n \in Nat /\ n <= Len(upward)
      /\ Width \in Nat /\ length \in Nat
  BY LenProperties, ServersAssumption DEF SyncInv, SyncTypes, ServersAssumption
<1>4. upward' \in Seq(Nat)
  BY <1>1, <1>3, SubSeqProperties
<1>5. receive' \in [1 .. Width -> Nat]
  <2>1. ASSUME NEW i \in 1 .. Width, i <= n PROVE upward[i] \in Nat
    BY <1>3, <2>1, ElementOfSeq
  <2> QED
    BY <1>1, <2>1
<1>6. ASSUME NEW i, NEW v, MayBe(i, v) PROVE MayBe(i, v)'
  BY <1>1, <1>2, <1>6 DEF MayBe
<1>7. ASSUME \A i \in 1 .. Len(upward) : upward[i] = i, NEW i \in 1 .. Width
      PROVE  MayBe(i, receive[i])'
  <2>1. CASE i <= n
    <3>1. i \in 1 .. Len(upward) /\ receive'[i] = upward[i]
      BY <1>1, <1>3, <2>1
    <3> QED
      BY <1>7, <3>1 DEF MayBe
  <2>2. CASE ~(i <= n)
    <3>1. receive'[i] = 0
      BY <1>1, <2>2
    <3>2. i > length \/ cut'
      <4>1. i > n
        BY <1>3, <2>2
      <4> QED
        BY <1>1, <4>1
    <3> QED
      BY <1>2, <3>1, <3>2 DEF MayBe
  <2> QED
    BY <2>1, <2>2
<1>8. SyncOrder => SyncOrder'
  <2> SUFFICES ASSUME SyncOrder PROVE SyncOrder'
    OBVIOUS
  <2>1. /\ \A i \in 1 .. Len(downward) : MayBe(Len(got) + i, downward[i])
        /\ Len(got) + Len(downward) < Width =>
             Len(got) + Len(downward) = 0 /\ \A i \in 1 .. Len(upward) : upward[i] = i
    BY <1>2 DEF SyncOrder
  <2>2. \A i \in 1 .. Len(downward) : MayBe(Len(got) + i, downward[i])'
    BY <1>2, <1>6, <2>1
  <2>3. Len(got) + Len(downward) < Width =>
          /\ Len(got) + Len(downward) = 0
          /\ \A i \in 1 .. Width : MayBe(i, receive[i])'
    BY <1>7, <2>1
  <2> QED
    BY <1>2, <2>2, <2>3 DEF SyncOrder
<1>9. SyncTypes'
  BY <1>1, <1>2, <1>4, <1>5 DEF SyncInv, SyncTypes
<1>10. \A i \in 1 .. Len(got) : MayBe(i, got[i])'
  BY <1>2, <1>6 DEF SyncInv
<1> QED
  BY <1>2, <1>8, <1>9, <1>10 DEF SyncInv

LEMMA WritesKeep ==
  ASSUME SyncInv, E!SessionWrites
  PROVE  SyncInv'
<1> DEFINE d == Len(downward)
           g == Len(got)
<1>1. PICK n \in 1 .. Width - returned :
        /\ downward' = downward \o SubSeq(receive, returned + 1, returned + n)
        /\ returned' = returned + n
  BY DEF E!SessionWrites
<1>2. /\ session = "writing" /\ session' = IF returned' = Width THEN "reading" ELSE "writing"
      /\ UNCHANGED <<length, client, sentBytes, upward, receive, got, cut>>
  BY DEF E!SessionWrites
<1>3. /\ downward \in Seq(Nat) /\ d \in Nat /\ g \in Nat /\ Width \in Nat
      /\ returned \in Nat /\ receive \in [1 .. Width -> Nat]
  BY LenProperties, ServersAssumption DEF SyncInv, SyncTypes, ServersAssumption
<1>4. n \in Nat /\ returned + n <= Width /\ returned <= returned + n /\ returned + n \in Nat
  BY <1>3
<1>5. receive \in Seq(Nat) /\ Len(receive) = Width
  BY <1>3
<1> DEFINE piece == SubSeq(receive, returned + 1, returned + n)
<1>6. piece \in Seq(Nat) /\ Len(piece) = n /\ \A i \in 1 .. n : piece[i] = receive[returned + i]
  <2>1. (returned + n) - returned = n /\ returned + n <= Len(receive)
    BY <1>3, <1>4, <1>5
  <2> QED
    BY <1>3, <1>4, <1>5, <2>1, PartOf
<1> HIDE DEF piece
<1>7. /\ downward' \in Seq(Nat) /\ Len(downward') = d + n
      /\ \A i \in 1 .. d : downward'[i] = downward[i]
      /\ \A i \in 1 .. n : downward'[d + i] = receive[returned + i]
  BY <1>1, <1>3, <1>6, Joined DEF piece
<1>8. SyncTypes'
  BY <1>1, <1>2, <1>3, <1>4, <1>7 DEF SyncInv, SyncTypes
<1>9. SyncOrder => SyncOrder'
  <2> SUFFICES ASSUME SyncOrder PROVE SyncOrder'
    OBVIOUS
  <2> HIDE DEF d, g
  <2>1. /\ \A i \in 1 .. d : MayBe(g + i, downward[i])
        /\ g + d < Width =>
             returned = g + d /\ \A i \in 1 .. Width : MayBe(i, receive[i])
    BY <1>2 DEF SyncOrder, d, g
  <2>2. ASSUME NEW i \in 1 .. d + n PROVE MayBe(g + i, downward'[i])
    <3>1. CASE i \in 1 .. d
      BY <1>7, <2>1, <3>1
    <3>2. CASE i \notin 1 .. d
      <4>1. i - d \in 1 .. n /\ d + (i - d) = i
        BY <1>3, <1>4, <3>2
      <4>2. downward'[i] = receive[returned + (i - d)]
        BY <1>7, <4>1
      <4>3. CASE g + d < Width
        <5>1. returned + (i - d) = g + i /\ g + i \in 1 .. Width
          BY <1>3, <1>4, <2>1, <4>1, <4>3
        <5> QED
          BY <2>1, <4>2, <4>3, <5>1
      <4>4. CASE ~(g + d < Width)
        <5>1. length \in Nat /\ length < Width
          BY <1>3 DEF SyncInv, SyncTypes
        <5>2. g + i > length
          BY <1>3, <4>1, <4>4, <5>1
        <5> QED
          BY <5>2 DEF MayBe
      <4> QED
        BY <4>3, <4>4
    <3> QED
      BY <3>1, <3>2
  <2>3. g + (d + n) < Width => returned' = g + (d + n) /\ session' = "writing"
    <3> SUFFICES ASSUME g + (d + n) < Width PROVE returned' = g + (d + n) /\ session' = "writing"
      OBVIOUS
    <3>1. returned = g + d
      BY <1>3, <1>4, <2>1
    <3>2. returned' = g + (d + n) /\ returned' # Width
      BY <1>1, <1>3, <1>4, <3>1
    <3> QED
      BY <1>2, <3>2
  <2>4. g + (d + n) < Width => g + d < Width
    BY <1>3, <1>4
  <2>5. Len(got') = g /\ Len(downward') = d + n
    BY <1>2, <1>7 DEF g
  <2>6. \A i, v : MayBe(i, v) => MayBe(i, v)'
    BY <1>2 DEF MayBe
  <2> QED
    BY <1>2, <2>1, <2>2, <2>3, <2>4, <2>5, <2>6 DEF SyncOrder
<1>10. \A i \in 1 .. g : MayBe(i, got[i])'
  BY <1>2 DEF SyncInv, MayBe
<1> QED
  BY <1>2, <1>8, <1>9, <1>10 DEF SyncInv

LEMMA SyncStepInv == SyncInv /\ [E!SyncNext]_yVars => SyncInv'
<1>1. SyncInv /\ UNCHANGED yVars => SyncInv'
  BY DEF yVars, SyncInv, SyncTypes, SyncOrder, MayBe
<1> QED
  BY <1>1, ReceiveKeeps, ClientKeeps, ReadsKeep, WritesKeep DEF E!SyncNext, E!Client, E!Serve

LEMMA SyncShows == SyncInv => E!EchoesOrZeros
<1> SUFFICES ASSUME SyncInv, NEW i \in 1 .. Len(got) PROVE got[i] = i \/ (cut /\ got[i] = 0)
  BY DEF E!EchoesOrZeros
<1>1. Len(got) <= length /\ length \in Nat /\ Len(got) \in Nat
  BY LenProperties, ServersAssumption DEF SyncInv, SyncTypes, ServersAssumption
<1> QED
  BY <1>1 DEF SyncInv, MayBe

-----------------------------------------------------------------------------
(* The lines of the log are whole while no two threads log at once.        *)

\* What of its entry a thread has printed.
Printed(t) ==
  CASE part[t] = 2 -> <<<<t, 1>>>>
    [] part[t] = 3 -> <<<<t, 1>>, <<t, 2>>>>
    [] OTHER -> <<>>

\* As long as no two threads have logged at once, the last line is what one
\* thread has printed; up to 11 there is no thread but main.
LineInv ==
  /\ version \in Nat
  /\ part \in [L!Threads -> 0 .. 3]
  /\ version <= 11 =>
       /\ statics \in Seq({"logger"})
       /\ part["io"] = 0 /\ part["worker"] = 0 /\ ~overlapped
  /\ ~overlapped =>
       /\ ~garbled
       /\ \A t, u \in L!Threads : L!Logging(t) /\ L!Logging(u) => t = u
       /\ \A t \in L!Threads : L!Logging(t) => screen = Printed(t)
       /\ (\A t \in L!Threads : ~L!Logging(t)) => screen = <<>>

LEMMA LineInitInv == L!LgInit => LineInv
<1> SUFFICES ASSUME L!LgInit PROVE LineInv
  OBVIOUS
<1>1. /\ statics = <<>> /\ part = [t \in L!Threads |-> 0] /\ screen = <<>>
      /\ overlapped = FALSE /\ garbled = FALSE /\ version \in Nat
  BY ServersAssumption DEF L!LgInit, ServersAssumption
<1> QED
  BY <1>1 DEF LineInv, L!Threads, L!Logging

\* A thread begins an entry.
LEMMA LineBegins ==
  ASSUME LineInv, NEW t \in L!Threads, L!Begins(t), UNCHANGED <<version, screen, garbled>>,
         version <= 11 => t = "main"
  PROVE  LineInv'
<1>1. /\ ~L!Logging(t) /\ part' = [part EXCEPT ![t] = 1]
      /\ overlapped' = (overlapped \/ \E u \in L!Threads : L!Logging(u))
      /\ statics' = IF "logger" \in built THEN statics ELSE Append(statics, "logger")
  BY DEF L!Begins, L!Uses
<1>2. part' \in [L!Threads -> 0 .. 3]
  BY <1>1 DEF LineInv
<1>3. version <= 11 => statics' \in Seq({"logger"})
  BY <1>1 DEF LineInv
<1>4. version <= 11 => part'["io"] = 0 /\ part'["worker"] = 0 /\ ~overlapped'
  BY <1>1 DEF LineInv, L!Threads, L!Logging
<1>5. ASSUME ~overlapped'
      PROVE  /\ ~overlapped /\ ~garbled /\ screen = <<>>
             /\ \A u \in L!Threads : ~L!Logging(u)
  BY <1>1, <1>5 DEF LineInv
<1>6. /\ part'[t] = 1
      /\ \A u \in L!Threads : u # t => part'[u] = part[u]
  BY <1>1 DEF LineInv
<1>7. ASSUME ~overlapped'
      PROVE  /\ \A u \in L!Threads : L!Logging(u)' => u = t
             /\ \A u \in L!Threads : L!Logging(u)' => screen' = Printed(u)'
             /\ L!Logging(t)'
  BY <1>5, <1>6, <1>7 DEF L!Logging, Printed
<1> QED
  BY <1>2, <1>3, <1>4, <1>5, <1>7 DEF LineInv

LEMMA ThreePrints ==
  \A a, b, c : Append(<<a, b>>, c) = <<a, b, c>>
<1> SUFFICES ASSUME NEW a, NEW b, NEW c PROVE Append(<<a, b>>, c) = <<a, b, c>>
  OBVIOUS
<1> DEFINE S == {a, b, c}
<1>1. /\ <<a, b>> \in Seq(S) /\ c \in S /\ <<a, b, c>> \in Seq(S)
      /\ Len(<<a, b>>) = 2 /\ Len(<<a, b, c>>) = 3
  OBVIOUS
<1>2. /\ Append(<<a, b>>, c) \in Seq(S) /\ Len(Append(<<a, b>>, c)) = 3
      /\ \A i \in 1 .. 2 : Append(<<a, b>>, c)[i] = <<a, b>>[i]
      /\ Append(<<a, b>>, c)[3] = c
  BY <1>1, AppendProperties
<1> DEFINE s == Append(<<a, b>>, c)
<1>3. s[1] = a /\ s[2] = b /\ s[3] = c
  BY <1>2
<1>4. \A i \in 1 .. 3 : s[i] = <<a, b, c>>[i]
  BY <1>3
<1> QED
  BY <1>1, <1>2, <1>4, SeqEqual

LEMMA LinePrints ==
  ASSUME LineInv, NEW t \in L!Threads, L!PrintPart(t)
  PROVE  LineInv'
<1>1. /\ part[t] # 0 /\ part' = [part EXCEPT ![t] = (@ + 1) % 4]
      /\ UNCHANGED <<version, statics, overlapped>>
  BY DEF L!PrintPart, L!Logging
<1>2. /\ part[t] \in {1, 2, 3}
      /\ part'[t] = IF part[t] = 3 THEN 0 ELSE part[t] + 1
      /\ \A u \in L!Threads : u # t => part'[u] = part[u]
  <2>1. part[t] \in 0 .. 3
    BY DEF LineInv
  <2> QED
    BY <1>1, <2>1 DEF LineInv
<1>3. part' \in [L!Threads -> 0 .. 3]
  <2>1. part'[t] \in 0 .. 3
    BY <1>2
  <2>2. (part[t] + 1) % 4 = part'[t]
    BY <1>1 DEF LineInv
  <2> QED
    BY <1>1, <2>1, <2>2 DEF LineInv
<1>4. version <= 11 => t = "main"
  BY <1>1 DEF LineInv, L!Threads
<1>5. version <= 11 => part'["io"] = 0 /\ part'["worker"] = 0
  BY <1>2, <1>4 DEF LineInv, L!Threads
<1>6. ASSUME ~overlapped
      PROVE  /\ screen = Printed(t) /\ ~garbled
             /\ \A u \in L!Threads : L!Logging(u) => u = t
  BY <1>1, <1>6 DEF LineInv, L!Logging
<1>7. ASSUME ~overlapped
      PROVE  /\ ~garbled'
             /\ L!Logging(t)' => screen' = Printed(t)'
             /\ ~L!Logging(t)' => screen' = <<>>
  <2>1. /\ part[t] < 3 => screen' = Append(screen, <<t, part[t]>>) /\ garbled' = garbled
        /\ ~(part[t] < 3) =>
             /\ screen' = <<>>
             /\ garbled' = (garbled \/ Append(screen, <<t, part[t]>>) # <<<<t, 1>>, <<t, 2>>, <<t, 3>>>>)
    BY DEF L!PrintPart
  <2>2. CASE part[t] = 1
    <3>1. screen = <<>> /\ part'[t] = 2
      BY <1>2, <1>6, <1>7, <2>2 DEF Printed
    <3>2. screen' = <<<<t, 1>>>> /\ garbled' = garbled
      BY <2>1, <2>2, <3>1
    <3> QED
      BY <1>6, <1>7, <3>1, <3>2 DEF Printed, L!Logging
  <2>3. CASE part[t] = 2
    <3>1. screen = <<<<t, 1>>>> /\ part'[t] = 3
      BY <1>2, <1>6, <1>7, <2>3 DEF Printed
    <3>2. screen' = <<<<t, 1>>, <<t, 2>>>> /\ garbled' = garbled
      BY <2>1, <2>3, <3>1
    <3> QED
      BY <1>6, <1>7, <3>1, <3>2 DEF Printed, L!Logging
  <2>4. CASE part[t] = 3
    <3>1. screen = <<<<t, 1>>, <<t, 2>>>> /\ part'[t] = 0
      BY <1>2, <1>6, <1>7, <2>4 DEF Printed
    <3>2. Append(screen, <<t, part[t]>>) = <<<<t, 1>>, <<t, 2>>, <<t, 3>>>>
      BY <2>4, <3>1, ThreePrints
    <3>3. screen' = <<>> /\ ~garbled'
      <4>1. ~(part[t] < 3)
        BY <2>4
      <4> QED
        BY <2>1, <3>2, <4>1, <1>6, <1>7 DEF LineInv
    <3> QED
      BY <1>6, <1>7, <3>1, <3>3 DEF L!Logging
  <2> QED
    BY <1>2, <2>2, <2>3, <2>4
<1>8. ASSUME ~overlapped PROVE \A u \in L!Threads : L!Logging(u)' => u = t
  BY <1>2, <1>6, <1>8 DEF L!Logging
<1> QED
  BY <1>1, <1>3, <1>5, <1>7, <1>8 DEF LineInv

\* The other steps print nothing; up to 11 only the logger is constructed.
LEMMA LineRests ==
  ASSUME LineInv, UNCHANGED <<version, part, screen, overlapped, garbled>>,
         version <= 11 => statics' \in Seq({"logger"})
  PROVE  LineInv'
BY DEF LineInv, L!Logging, Printed

LEMMA LineStepInv == LineInv /\ [L!LgNext]_lVars => LineInv'
<1> SUFFICES ASSUME LineInv, [L!LgNext]_lVars PROVE LineInv'
  OBVIOUS
<1>1. CASE UNCHANGED lVars
  BY <1>1, LineRests DEF lVars, LineInv
<1>2. ASSUME L!Logs PROVE LineInv'
  <2>1. PICK t \in L!Threads : L!Entry(t) \/ L!PrintPart(t)
    BY <1>2 DEF L!Logs
  <2>2. CASE L!Entry(t)
    <3>1. L!Runs(t) /\ L!Begins(t) /\ UNCHANGED <<version, screen, garbled>>
      BY <2>2 DEF L!Entry
    <3>2. version <= 11 => t = "main"
      <4> SUFFICES ASSUME version <= 11 PROVE t = "main"
        OBVIOUS
      <4>1. statics \in Seq({"logger"})
        BY DEF LineInv
      <4>2. ASSUME NEW s, s # "logger" PROVE ~L!Alive(s)
        BY <4>1, <4>2, ElementOfSeq, LenProperties DEF L!Alive, L!Range
      <4> QED
        BY <3>1, <4>2 DEF L!Runs, L!Threads
    <3> QED
      BY <3>1, <3>2, LineBegins
  <2> QED
    BY <2>1, <2>2, LinePrints
<1>3. CASE L!ServerStarts \/ L!SignalLogged \/ L!ReleasePool
  <2>1. L!Begins("main") /\ UNCHANGED <<version, screen, garbled>>
    BY <1>3 DEF L!ServerStarts, L!SignalLogged, L!ReleasePool
  <2> QED
    BY <2>1, LineBegins DEF L!Threads
<1>4. CASE L!MainReturns
  <2>1. CASE version = 17
    <3>1. L!Begins("main") /\ UNCHANGED <<version, screen, garbled>>
      BY <1>4, <2>1 DEF L!MainReturns
    <3> QED
      BY <3>1, LineBegins DEF L!Threads
  <2>2. CASE version # 17
    <3>1. UNCHANGED <<version, statics, part, screen, overlapped, garbled>>
      BY <1>4, <2>2 DEF L!MainReturns
    <3> QED
      BY <3>1, LineRests DEF LineInv
  <2> QED
    BY <2>1, <2>2
<1>5. CASE L!StartAccept \/ \E t \in L!Threads : L!FirstPost(t)
  <2>1. /\ UNCHANGED <<version, part, screen, overlapped, garbled>>
        /\ statics' = statics \/ version >= 14 \/ version >= 12
    BY <1>5 DEF L!StartAccept, L!FirstPost
  <2>2. version <= 11 => statics' = statics
    BY <2>1 DEF LineInv
  <2> QED
    BY <2>1, <2>2, LineRests DEF LineInv
<1>6. CASE L!DestroyStatic
  <2>1. /\ UNCHANGED <<version, part, screen, overlapped, garbled>>
        /\ statics # <<>> /\ statics' = L!Front(statics)
    BY <1>6 DEF L!DestroyStatic
  <2>2. ASSUME NEW S, statics \in Seq(S) PROVE statics' \in Seq(S)
    BY <2>1, <2>2, SubSeqProperties, LenProperties, EmptySeq DEF L!Front
  <2> QED
    BY <2>1, <2>2, LineRests DEF LineInv
<1> QED
  BY <1>1, <1>2, <1>3, <1>4, <1>5, <1>6
  DEF L!LgNext, L!Log5, L!Log6, L!Log7, L!Log8, L!Log9, L!Log10, L!Log11, L!Log12, L!Log13,
      L!Log14, L!Log15, L!Log17

LEMMA LineShows == LineInv => L!LinesWhole
BY DEF LineInv, L!LinesWhole

-----------------------------------------------------------------------------
(* The functions of the first socket program (1).                          *)

\* How far a function has come is what its objects are; those that open twice,
\* or accept into a socket that is open, are left before their last call.
EpPlace ==
  /\ tried = "create_tcp_socket" =>
       \/ step = 1 /\ object["socket"] = "closed"
       \/ step = 2 /\ object["socket"] = "open"
  /\ tried = "create_appertor_socket" =>
       \/ step = 1 /\ object["acceptor"] = "closed"
       \/ step = 2 /\ object["acceptor"] = "open"
  /\ tried = "create_bind_socket" =>
       \/ step = 1 /\ object["acceptor"] = "closed"
       \/ step = 2 /\ object["acceptor"] = "open"
       \/ step = 3 /\ object["acceptor"] = "bound"
  /\ tried = "connect_to_endpoint" =>
       \/ step \in {1, 2} /\ object["socket"] = "closed"
       \/ step = 3 /\ object["socket"] = "open"
       \/ step = 4 /\ object["socket"] = "connected"
  /\ tried = "dns_connect_to_endpoint" =>
       \/ step \in {1, 2} /\ object["socket"] = "closed"
       \/ step = 3 /\ object["socket"] = "connected"
  /\ tried = "accept_new_connection" =>
       \/ step = 1 /\ object["acceptor"] = "closed" /\ object["socket"] = "closed"
       \/ step = 2 /\ object["acceptor"] = "open" /\ object["socket"] = "closed"
       \/ step = 3 /\ object["acceptor"] = "bound" /\ object["socket"] = "closed"
       \/ step = 4 /\ object["acceptor"] = "listening" /\ object["socket"] = "closed"
       \/ step = 5 /\ object["socket"] = "open"

EpFunctions ==
  {"client_endpoint", "server_endpoint", "create_tcp_socket", "create_appertor_socket",
   "create_bind_socket", "connect_to_endpoint", "dns_connect_to_endpoint",
   "accept_new_connection"}

EpInv ==
  /\ tried \in EpFunctions /\ step \in Nat
  /\ DOMAIN object = {"acceptor", "socket"}
  /\ outcome = "none" => EpPlace
  /\ K!ReturnsWithResult

LEMMA EpInitInv == K!EpInit => EpInv
<1> SUFFICES ASSUME K!EpInit PROVE EpInv
  OBVIOUS
<1>1. DOMAIN K!Tried = EpFunctions
  BY DEF K!Tried, EpFunctions
<1>2. object["acceptor"] = "closed" /\ object["socket"] = "closed"
  BY DEF K!EpInit
<1>3. EpPlace
  BY <1>2 DEF K!EpInit, EpPlace
<1> QED
  BY <1>1, <1>3 DEF K!EpInit, EpInv, K!ReturnsWithResult

\* The calls of each function.
LEMMA EpCalls ==
  /\ tried = "create_tcp_socket" => K!Tried[tried] = K!create_tcp_socket
  /\ tried = "create_appertor_socket" => K!Tried[tried] = K!create_appertor_socket
  /\ tried = "create_bind_socket" => K!Tried[tried] = K!create_bind_socket
  /\ tried = "connect_to_endpoint" => K!Tried[tried] = K!connect_to_endpoint
  /\ tried = "dns_connect_to_endpoint" => K!Tried[tried] = K!dns_connect_to_endpoint
  /\ tried = "accept_new_connection" => K!Tried[tried] = K!accept_new_connection
BY DEF K!Tried

LEMMA EpSucceedsKeeps ==
  ASSUME EpInv, K!Succeeds
  PROVE  EpInv'
<1> DEFINE calls == K!Tried[tried]
           call == calls[step]
<1>1. /\ outcome = "none" /\ outcome' = "none" /\ tried' = tried /\ step' = step + 1
      /\ step <= Len(calls) /\ object[call.on] \in call.from
      /\ object' = [object EXCEPT ![call.on] = call.to]
  BY DEF K!Succeeds, K!CallsLeft
<1>2. EpPlace /\ tried \in EpFunctions /\ step \in Nat /\ DOMAIN object = {"acceptor", "socket"}
  BY <1>1 DEF EpInv
<1>3. step' \in Nat /\ DOMAIN object' = {"acceptor", "socket"}
  BY <1>1, <1>2
<1> HIDE DEF calls
<1>4. EpPlace'
  <2>1. CASE tried = "create_tcp_socket"
    <3>1. calls = K!create_tcp_socket
      BY <2>1, EpCalls DEF calls
    <3>2. \/ step = 1 /\ object["socket"] = "closed"
          \/ step = 2 /\ object["socket"] = "open"
      BY <1>2, <2>1 DEF EpPlace
    <3>3. call = K!Open("socket")
      BY <3>1, <3>2 DEF K!create_tcp_socket
    <3>4. step = 1 /\ object'["socket"] = "open"
      BY <1>1, <1>2, <3>2, <3>3 DEF K!Open, K!Does
    <3> QED
      BY <1>1, <2>1, <3>4 DEF EpPlace
  <2>2. CASE tried = "create_appertor_socket"
    <3>1. calls = K!create_appertor_socket
      BY <2>2, EpCalls DEF calls
    <3>2. \/ step = 1 /\ object["acceptor"] = "closed"
          \/ step = 2 /\ object["acceptor"] = "open"
      BY <1>2, <2>2 DEF EpPlace
    <3>3. call = K!Open("acceptor")
      BY <3>1, <3>2 DEF K!create_appertor_socket
    <3>4. step = 1 /\ object'["acceptor"] = "open"
      BY <1>1, <1>2, <3>2, <3>3 DEF K!Open, K!Does
    <3> QED
      BY <1>1, <2>2, <3>4 DEF EpPlace
  <2>3. CASE tried = "create_bind_socket"
    <3>1. calls = <<K!Open("acceptor"), K!Bind("acceptor")>> /\ Len(calls) = 2
      BY <2>3, EpCalls DEF calls, K!create_bind_socket
    <3>2. \/ step = 1 /\ object["acceptor"] = "closed" /\ call = K!Open("acceptor")
          \/ step = 2 /\ object["acceptor"] = "open" /\ call = K!Bind("acceptor")
      BY <1>1, <1>2, <2>3, <3>1 DEF EpPlace
    <3>3. \/ step = 1 /\ object'["acceptor"] = "open"
          \/ step = 2 /\ object'["acceptor"] = "bound"
      BY <1>1, <1>2, <3>2 DEF K!Open, K!Bind, K!Does
    <3> QED
      BY <1>1, <2>3, <3>3 DEF EpPlace
  <2>4. CASE tried = "connect_to_endpoint"
    <3>1. calls = <<K!Parse, K!Open("socket"), K!Connect("socket")>> /\ Len(calls) = 3
      BY <2>4, EpCalls DEF calls, K!connect_to_endpoint
    <3>2. \/ step = 1 /\ object["socket"] = "closed" /\ call = K!Parse
          \/ step = 2 /\ object["socket"] = "closed" /\ call = K!Open("socket")
          \/ step = 3 /\ object["socket"] = "open" /\ call = K!Connect("socket")
      BY <1>1, <1>2, <2>4, <3>1 DEF EpPlace
    <3>3. \/ step = 1 /\ object'["socket"] = "closed"
          \/ step = 2 /\ object'["socket"] = "open"
          \/ step = 3 /\ object'["socket"] = "connected"
      BY <1>1, <1>2, <3>2 DEF K!Open, K!Parse, K!Connect, K!Does
    <3> QED
      BY <1>1, <2>4, <3>3 DEF EpPlace
  <2>5. CASE tried = "dns_connect_to_endpoint"
    <3>1. calls = <<K!Resolve, K!Connect("socket")>> /\ Len(calls) = 2
      BY <2>5, EpCalls DEF calls, K!dns_connect_to_endpoint
    <3>2. \/ step = 1 /\ object["socket"] = "closed" /\ call = K!Resolve
          \/ step = 2 /\ object["socket"] = "closed" /\ call = K!Connect("socket")
      BY <1>1, <1>2, <2>5, <3>1 DEF EpPlace
    <3>3. \/ step = 1 /\ object'["socket"] = "closed"
          \/ step = 2 /\ object'["socket"] = "connected"
      BY <1>1, <1>2, <3>2 DEF K!Resolve, K!Connect, K!Does
    <3> QED
      BY <1>1, <2>5, <3>3 DEF EpPlace
  <2>6. CASE tried = "accept_new_connection"
    <3>1. /\ calls = <<K!Open("acceptor"), K!Bind("acceptor"), K!Listen("acceptor"),
                       K!Open("socket"), K!Accept("socket")>>
          /\ Len(calls) = 5
      BY <2>6, EpCalls DEF calls, K!accept_new_connection
    <3>2. \/ /\ step = 1 /\ object["acceptor"] = "closed" /\ object["socket"] = "closed"
             /\ call = K!Open("acceptor")
          \/ /\ step = 2 /\ object["acceptor"] = "open" /\ object["socket"] = "closed"
             /\ call = K!Bind("acceptor")
          \/ /\ step = 3 /\ object["acceptor"] = "bound" /\ object["socket"] = "closed"
             /\ call = K!Listen("acceptor")
          \/ /\ step = 4 /\ object["acceptor"] = "listening" /\ object["socket"] = "closed"
             /\ call = K!Open("socket")
          \/ step = 5 /\ object["socket"] = "open" /\ call = K!Accept("socket")
      BY <1>1, <1>2, <2>6, <3>1 DEF EpPlace
    <3>3. \/ step = 1 /\ object'["acceptor"] = "open" /\ object'["socket"] = "closed"
          \/ step = 2 /\ object'["acceptor"] = "bound" /\ object'["socket"] = "closed"
          \/ step = 3 /\ object'["acceptor"] = "listening" /\ object'["socket"] = "closed"
          \/ step = 4 /\ object'["socket"] = "open"
      BY <1>1, <1>2, <3>2 DEF K!Open, K!Bind, K!Listen, K!Accept, K!Does
    <3> QED
      BY <1>1, <2>6, <3>3 DEF EpPlace
  <2> QED
    BY <1>1, <1>2, <2>1, <2>2, <2>3, <2>4, <2>5, <2>6 DEF EpPlace
<1> QED
  BY <1>1, <1>2, <1>3, <1>4 DEF EpInv, K!ReturnsWithResult

LEMMA EpReturnsKeeps ==
  ASSUME EpInv, K!Returns
  PROVE  EpInv'
<1> DEFINE calls == K!Tried[tried]
<1>1. /\ outcome = "none" /\ outcome' = "returned" /\ ~(step <= Len(calls))
      /\ UNCHANGED <<tried, step, object>>
  BY DEF K!Returns, K!CallsLeft
<1>2. EpPlace /\ tried \in EpFunctions
  BY <1>1 DEF EpInv
<1> HIDE DEF calls
<1>3. tried \notin {"create_tcp_socket", "create_appertor_socket", "accept_new_connection"}
  <2>1. ASSUME tried = "create_tcp_socket" PROVE FALSE
    <3>1. Len(calls) = 2
      BY <2>1, EpCalls DEF calls, K!create_tcp_socket
    <3> QED
      BY <1>1, <1>2, <2>1, <3>1 DEF EpPlace
  <2>2. ASSUME tried = "create_appertor_socket" PROVE FALSE
    <3>1. Len(calls) = 2
      BY <2>2, EpCalls DEF calls, K!create_appertor_socket
    <3> QED
      BY <1>1, <1>2, <2>2, <3>1 DEF EpPlace
  <2>3. ASSUME tried = "accept_new_connection" PROVE FALSE
    <3>1. Len(calls) = 5
      BY <2>3, EpCalls DEF calls, K!accept_new_connection
    <3> QED
      BY <1>1, <1>2, <2>3, <3>1 DEF EpPlace
  <2> QED
    BY <2>1, <2>2, <2>3
<1>4. tried = "create_bind_socket" => object["acceptor"] = "bound"
  <2> SUFFICES ASSUME tried = "create_bind_socket" PROVE object["acceptor"] = "bound"
    OBVIOUS
  <2>1. Len(calls) = 2
    BY EpCalls DEF calls, K!create_bind_socket
  <2> QED
    BY <1>1, <1>2, <2>1 DEF EpPlace
<1>5. tried = "connect_to_endpoint" => object["socket"] = "connected"
  <2> SUFFICES ASSUME tried = "connect_to_endpoint" PROVE object["socket"] = "connected"
    OBVIOUS
  <2>1. Len(calls) = 3
    BY EpCalls DEF calls, K!connect_to_endpoint
  <2> QED
    BY <1>1, <1>2, <2>1 DEF EpPlace
<1>6. tried = "dns_connect_to_endpoint" => object["socket"] = "connected"
  <2> SUFFICES ASSUME tried = "dns_connect_to_endpoint" PROVE object["socket"] = "connected"
    OBVIOUS
  <2>1. Len(calls) = 2
    BY EpCalls DEF calls, K!dns_connect_to_endpoint
  <2> QED
    BY <1>1, <1>2, <2>1 DEF EpPlace
<1>7. K!ReturnsWithResult'
  BY <1>1, <1>2, <1>3, <1>4, <1>5, <1>6 DEF K!ReturnsWithResult, EpFunctions
<1> QED
  BY <1>1, <1>7 DEF EpInv

LEMMA EpStepInv == EpInv /\ [K!EpNext]_pVars => EpInv'
<1> SUFFICES ASSUME EpInv, [K!EpNext]_pVars PROVE EpInv'
  OBVIOUS
<1>1. CASE K!CallThrows
  <2>1. /\ UNCHANGED <<tried, object>>
        /\ \/ tried = "client_endpoint" /\ step' = step + 1 /\ outcome' = outcome
           \/ outcome' = "terminated" /\ step' = step
    BY <1>1 DEF K!CallThrows
  <2>2. outcome = "none"
    BY <1>1 DEF K!CallThrows, K!CallsLeft
  <2> QED
    BY <2>1, <2>2 DEF EpInv, EpPlace, K!ReturnsWithResult
<1>2. CASE UNCHANGED pVars
  BY <1>2 DEF pVars, EpInv, EpPlace, K!ReturnsWithResult
<1> QED
  BY <1>1, <1>2, EpSucceedsKeeps, EpReturnsKeeps DEF K!EpNext
=============================================================================
