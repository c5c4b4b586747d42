-------------------------- MODULE WorkerProofs --------------------------
(***************************************************************************)
(* Proofs about the programs of worker threads and mailboxes.              *)
(*                                                                         *)
(* First ThreadPool, for any finite number of workers and any set of       *)
(* tasks: no task is lost or run twice, no task waits behind a busy worker *)
(* while another one sleeps, and at most one worker misses the stop.       *)
(*                                                                         *)
(* Then the order of MCWorkers, RunsInOrder: of the actor, for any         *)
(* messages; of the Go programs, for any number of processors, numbers and *)
(* places in a channel; and of the programs with channels, for any number  *)
(* of volleys and places.                                                  *)
(***************************************************************************)
EXTENDS MCWorkers, FiniteSetTheorems, SequenceTheorems, TLAPS

-----------------------------------------------------------------------------
(* The thread pool.                                                        *)

\* The mutex.
Exclusive == \A v, w \in Workers : Holding(v) /\ Holding(w) => v = w

\* What the worker that holds the mutex knows of the queue: it blocks on an
\* empty one only, and it takes from an empty one never.
HolderKnows ==
  \A w \in Workers :
    /\ worker[w] = "block" => tasks = <<>>
    /\ worker[w] = "check" => stop \/ tasks # <<>>

StopInv == stop <=> owner # "running"

\* A task has been pushed once if its committer is past the push, else never.
PushedOnce ==
  /\ \A t \in Tasks : (\E i \in 1 .. Len(pushed) : pushed[i] = t)
       => commit[t] \in {"pushed", "returned"}
  /\ \A i, j \in 1 .. Len(pushed) : pushed[i] = pushed[j] => i = j

Countable == IsFiniteSet(Notifying)

IInv ==
  /\ TypeOK
  /\ Exclusive
  /\ HolderKnows
  /\ StopInv
  /\ PushedOnce
  /\ Countable
  /\ TakenOnce
  /\ WorkIsSpread
  /\ AtMostOneMissesStop

-----------------------------------------------------------------------------
(* What the steps of the workers and of the committers have in common.     *)

\* A step moves worker w alone.
Moves(w, from, to) ==
  /\ worker[w] = from /\ worker'[w] = to
  /\ \A v \in Workers \ {w} : worker'[v] = worker[v]

LEMMA MoveMoves ==
  ASSUME TypeOK, NEW w \in Workers, NEW from, NEW to, Move(w, from, to)
  PROVE  Moves(w, from, to)
BY DEF Move, Moves, TypeOK

\* A notification moves one waiting worker, or none if none waits.
LEMMA WakeOneMoves ==
  ASSUME TypeOK, WakeOne
  PROVE  \/ Waiting = {} /\ worker' = worker
         \/ \E w \in Workers : Moves(w, "waiting", "woken")
<1>1. CASE Waiting = {}
  BY <1>1 DEF WakeOne
<1>2. CASE Waiting # {}
  <2>1. PICK w \in Waiting : worker' = [worker EXCEPT ![w] = "woken"]
    BY <1>2 DEF WakeOne
  <2>2. w \in Workers /\ worker[w] = "waiting"
    BY DEF Waiting
  <2> QED
    BY <2>1, <2>2 DEF Moves, TypeOK
<1> QED
  BY <1>1, <1>2

\* What a step Go does to the committers.
LEMMA GoMoves ==
  ASSUME TypeOK, NEW t \in Tasks, NEW from, NEW to, Go(t, from, to)
  PROVE  /\ commit[t] = from /\ commit'[t] = to
         /\ \A u \in Tasks \ {t} : commit'[u] = commit[u]
BY DEF Go, TypeOK

-----------------------------------------------------------------------------
LEMMA InitInv == Init => IInv
<1> SUFFICES ASSUME Init PROVE IInv
  OBVIOUS
<1>1. /\ tasks = <<>> /\ pushed = <<>> /\ taken = <<>>
      /\ <<>> \in Seq(Tasks) /\ Len(<<>>) = 0 /\ <<>> = <<>> \o <<>>
  BY EmptySeq, ConcatEmptySeq DEF Init
<1>2. TypeOK
  BY <1>1, ThreadPoolAssumption DEF Init, TypeOK
<1>3. /\ \A w \in Workers : worker[w] = "lock" /\ hand[w] = NoTask
      /\ \A t \in Tasks : commit[t] = "idle"
  BY DEF Init
<1>4. Exclusive /\ HolderKnows /\ StopInv /\ AtMostOneMissesStop
  BY <1>3 DEF Init, Exclusive, Holding, HolderKnows, StopInv, AtMostOneMissesStop
<1>5. PushedOnce
  BY <1>1 DEF PushedOnce
<1>6. Asleep = {} /\ Notifying = {}
  BY <1>3 DEF Asleep, Notifying
<1>7. Countable /\ WorkIsSpread
  BY <1>6, FS_EmptySet DEF Countable, WorkIsSpread
<1>8. TakenOnce
  BY <1>1, <1>3, ThreadPoolAssumption DEF Init, TakenOnce
<1> QED
  BY <1>2, <1>4, <1>5, <1>7, <1>8 DEF IInv

-----------------------------------------------------------------------------
(* Types.                                                                  *)

LEMMA TypeStep ==
  ASSUME IInv, Next
  PROVE  TypeOK'
<1> USE DEF TypeOK
<1> TypeOK
  BY DEF IInv
<1>1. ASSUME NEW t \in Tasks, TestStop(t) PROVE TypeOK'
  BY <1>1 DEF TestStop, Go
<1>2. ASSUME NEW t \in Tasks, Push(t) PROVE TypeOK'
  <2>1. tasks' \in Seq(Tasks) /\ pushed' \in Seq(Tasks)
    BY <1>2, AppendProperties DEF Push
  <2> QED
    BY <1>2, <2>1 DEF Push, Go
<1>3. ASSUME NEW t \in Tasks, Notify(t) PROVE TypeOK'
  BY <1>3 DEF Notify, Go, WakeOne, Waiting
<1>4. ASSUME NEW w \in Workers, Acquire(w) PROVE TypeOK'
  BY <1>4 DEF Acquire, Move
<1>5. ASSUME NEW w \in Workers, Predicate(w) PROVE TypeOK'
  BY <1>5 DEF Predicate, Move
<1>6. ASSUME NEW w \in Workers, Block(w) \/ SpuriousWakeup(w) \/ Leave(w) PROVE TypeOK'
  BY <1>6 DEF Block, SpuriousWakeup, Leave, Move
<1>7. ASSUME NEW w \in Workers, Take(w) PROVE TypeOK'
  <2>1. tasks # <<>>
    BY <1>7 DEF IInv, HolderKnows, Take, Move
  <2>2. /\ tasks' \in Seq(Tasks) /\ taken' \in Seq(Tasks)
        /\ Head(tasks) \in Tasks
    BY <1>7, <2>1, HeadTailProperties, AppendProperties DEF Take
  <2> QED
    BY <1>7, <2>2, ThreadPoolAssumption DEF Take, Move
<1>8. ASSUME NEW w \in Workers, Run(w) PROVE TypeOK'
  BY <1>8 DEF Run, Move
<1>9. ASSUME Destructor PROVE TypeOK'
  BY <1>9 DEF Destructor, StoreStop, NotifyStop, Join
<1> QED
  BY <1>1, <1>2, <1>3, <1>4, <1>5, <1>6, <1>7, <1>8, <1>9 DEF Next, Commit, Worker
-----------------------------------------------------------------------------
(* The mutex, and what its holder knows.                                   *)

\* A worker that holds the mutex after a step held it before, or took it.
LEMMA ExclusiveStep ==
  ASSUME IInv, Next
  PROVE  Exclusive'
<1> USE DEF Exclusive, Holding
<1> Exclusive /\ TypeOK
  BY DEF IInv
<1>1. ASSUME UNCHANGED worker PROVE Exclusive'
  BY <1>1
<1>2. ASSUME NEW t \in Tasks, Notify(t) PROVE Exclusive'
  <2>1. WakeOne
    BY <1>2 DEF Notify
  <2> QED
    BY <2>1, WakeOneMoves DEF Moves
<1>3. ASSUME NEW w \in Workers, Acquire(w) PROVE Exclusive'
  BY <1>3, MoveMoves DEF Acquire, Moves, Unlocked
<1>4. ASSUME NEW w \in Workers, Predicate(w) \/ Block(w) \/ Leave(w) \/ Take(w)
                                 \/ Run(w) \/ SpuriousWakeup(w)
      PROVE  Exclusive'
  BY <1>4, MoveMoves DEF Predicate, Block, Leave, Take, Run, SpuriousWakeup, Moves
<1>5. ASSUME NotifyStop PROVE Exclusive'
  BY <1>5 DEF NotifyStop
<1> QED
  BY <1>1, <1>2, <1>3, <1>4, <1>5
  DEF Next, Commit, Worker, Destructor, TestStop, Push, StoreStop, Join

LEMMA HolderStep ==
  ASSUME IInv, Next
  PROVE  HolderKnows'
<1> USE DEF HolderKnows, Holding
<1> HolderKnows /\ TypeOK /\ Exclusive
  BY DEF IInv
<1>1. ASSUME NEW t \in Tasks, TestStop(t) PROVE HolderKnows'
  BY <1>1 DEF TestStop
<1>2. ASSUME NEW t \in Tasks, Push(t) PROVE HolderKnows'
  BY <1>2 DEF Push, Unlocked
<1>3. ASSUME NEW t \in Tasks, Notify(t) PROVE HolderKnows'
  <2>1. WakeOne /\ UNCHANGED <<tasks, stop>>
    BY <1>3 DEF Notify
  <2> QED
    BY <2>1, WakeOneMoves DEF Moves
<1>4. ASSUME NEW w \in Workers, Acquire(w) \/ Block(w) \/ Leave(w) \/ Run(w)
                                 \/ SpuriousWakeup(w)
      PROVE  HolderKnows'
  BY <1>4, MoveMoves DEF Acquire, Block, Leave, Run, SpuriousWakeup, Moves
<1>5. ASSUME NEW w \in Workers, Predicate(w) PROVE HolderKnows'
  BY <1>5, MoveMoves DEF Predicate, Moves
<1>6. ASSUME NEW w \in Workers, Take(w) PROVE HolderKnows'
  <2>1. Moves(w, "check", "run") /\ stop' = stop
    BY <1>6, MoveMoves DEF Take
  <2>2. \A v \in Workers : worker'[v] \notin {"block", "check"}
    BY <2>1 DEF Exclusive, Moves
  <2> QED
    BY <2>2
<1>7. ASSUME Destructor PROVE HolderKnows'
  BY <1>7 DEF Destructor, StoreStop, NotifyStop, Join
<1> QED
  BY <1>1, <1>2, <1>3, <1>4, <1>5, <1>6, <1>7 DEF Next, Commit, Worker

LEMMA StopStep ==
  ASSUME IInv, Next
  PROVE  StopInv'
<1> USE DEF StopInv
<1> StopInv
  BY DEF IInv
<1>1. ASSUME NEW t \in Tasks, Commit(t) PROVE StopInv'
  BY <1>1 DEF Commit, TestStop, Push, Notify
<1>2. ASSUME NEW w \in Workers, Worker(w) \/ SpuriousWakeup(w) PROVE StopInv'
  BY <1>2 DEF Worker, Acquire, Predicate, Block, Leave, Take, Run, SpuriousWakeup
<1>3. ASSUME Destructor PROVE StopInv'
  BY <1>3 DEF Destructor, StoreStop, NotifyStop, Join
<1> QED
  BY <1>1, <1>2, <1>3 DEF Next

\* After the stop nobody falls asleep, and the notification of all leaves
\* asleep only a worker that holds the mutex.
LEMMA MissStep ==
  ASSUME IInv, Next
  PROVE  AtMostOneMissesStop'
<1> USE DEF AtMostOneMissesStop, Asleep
<1> AtMostOneMissesStop /\ TypeOK /\ StopInv /\ Exclusive
  BY DEF IInv
<1>1. ASSUME NEW t \in Tasks, TestStop(t) \/ Push(t) PROVE AtMostOneMissesStop'
  BY <1>1 DEF TestStop, Push
<1>2. ASSUME NEW t \in Tasks, Notify(t) PROVE AtMostOneMissesStop'
  <2>1. WakeOne /\ owner' = owner
    BY <1>2 DEF Notify
  <2> QED
    BY <2>1, WakeOneMoves DEF Moves
<1>3. ASSUME NEW w \in Workers, Acquire(w) \/ Block(w) \/ Leave(w) \/ Take(w) \/ Run(w)
                                 \/ SpuriousWakeup(w)
      PROVE  AtMostOneMissesStop'
  BY <1>3, MoveMoves DEF Acquire, Block, Leave, Take, Run, SpuriousWakeup, Moves
<1>4. ASSUME NEW w \in Workers, Predicate(w) PROVE AtMostOneMissesStop'
  BY <1>4, MoveMoves DEF Predicate, Moves, StopInv
<1>5. ASSUME NotifyStop PROVE AtMostOneMissesStop'
  BY <1>5 DEF NotifyStop, Exclusive, Holding
<1>6. ASSUME StoreStop \/ Join PROVE AtMostOneMissesStop'
  BY <1>6 DEF StoreStop, Join
<1> QED
  BY <1>1, <1>2, <1>3, <1>4, <1>5, <1>6 DEF Next, Commit, Worker, Destructor

-----------------------------------------------------------------------------
(* No task is lost or run twice.                                           *)

LEMMA PushedStep ==
  ASSUME IInv, Next
  PROVE  PushedOnce'
<1> USE DEF PushedOnce
<1> PushedOnce /\ TypeOK
  BY DEF IInv
<1>1. ASSUME NEW t \in Tasks, TestStop(t) PROVE PushedOnce'
  BY <1>1, GoMoves DEF TestStop
<1>2. ASSUME NEW t \in Tasks, Push(t) PROVE PushedOnce'
  <2>1. /\ commit[t] = "tested" /\ commit'[t] = "pushed"
        /\ \A u \in Tasks \ {t} : commit'[u] = commit[u]
    BY <1>2, GoMoves DEF Push
  <2>2. /\ Len(pushed) \in Nat /\ Len(pushed') = Len(pushed) + 1
        /\ \A i \in 1 .. Len(pushed) : pushed'[i] = pushed[i]
        /\ pushed'[Len(pushed) + 1] = t
    BY <1>2, AppendProperties, LenProperties DEF Push, TypeOK
  <2>3. \A i \in 1 .. Len(pushed) : pushed[i] # t
    BY <2>1
  <2>4. \A i, j \in 1 .. Len(pushed') : pushed'[i] = pushed'[j] => i = j
    BY <2>2, <2>3
  <2>5. ASSUME NEW u \in Tasks, NEW i \in 1 .. Len(pushed'), pushed'[i] = u
        PROVE  commit'[u] \in {"pushed", "returned"}
    BY <2>1, <2>2, <2>5
  <2> QED
    BY <2>4, <2>5
<1>3. ASSUME NEW t \in Tasks, Notify(t) PROVE PushedOnce'
  BY <1>3, GoMoves DEF Notify
<1>4. ASSUME NEW w \in Workers, Worker(w) \/ SpuriousWakeup(w) PROVE PushedOnce'
  BY <1>4 DEF Worker, Acquire, Predicate, Block, Leave, Take, Run, SpuriousWakeup
<1>5. ASSUME Destructor PROVE PushedOnce'
  BY <1>5 DEF Destructor, StoreStop, NotifyStop, Join
<1> QED
  BY <1>1, <1>2, <1>3, <1>4, <1>5 DEF Next, Commit

\* The front of the queue has not been taken before.
LEMMA FrontIsNew ==
  ASSUME TypeOK, PushedOnce, TakenOnce, tasks # <<>>
  PROVE  /\ Head(tasks) \in Tasks
         /\ \A i \in 1 .. Len(taken) : taken[i] # Head(tasks)
         /\ pushed = Append(taken, Head(tasks)) \o Tail(tasks)
<1>1. /\ tasks \in Seq(Tasks) /\ taken \in Seq(Tasks) /\ pushed = taken \o tasks
  BY DEF TypeOK, TakenOnce
<1>2. /\ Len(tasks) \in Nat \ {0} /\ Len(taken) \in Nat
  BY <1>1, EmptySeq, LenProperties
<1>3. Head(tasks) \in Tasks /\ Tail(tasks) \in Seq(Tasks) /\ Head(tasks) = tasks[1]
  BY <1>1, HeadTailProperties
<1>4. /\ Len(pushed) = Len(taken) + Len(tasks)
      /\ \A i \in 1 .. Len(taken) : pushed[i] = taken[i]
      /\ pushed[Len(taken) + 1] = Head(tasks)
  BY <1>1, <1>2, <1>3, ConcatProperties
<1>5. \A i \in 1 .. Len(taken) : taken[i] # Head(tasks)
  BY <1>2, <1>4 DEF PushedOnce
<1>6. tasks = <<Head(tasks)>> \o Tail(tasks)
  <2>1. SubSeq(tasks, 1, Len(tasks)) = <<tasks[1]>> \o SubSeq(tasks, 1 + 1, Len(tasks))
    BY <1>1, <1>2, SubSeqRecursiveFirst
  <2>2. Tail(tasks) = SubSeq(tasks, 2, Len(tasks))
    BY <1>1, TailIsSubSeq
  <2> QED
    BY <1>1, <1>3, <2>1, <2>2, SubSeqFull
<1>7. /\ <<Head(tasks)>> \in Seq(Tasks)
      /\ Append(taken, Head(tasks)) = taken \o <<Head(tasks)>>
  BY <1>1, <1>3, AppendIsConcat
<1>8. pushed = (taken \o <<Head(tasks)>>) \o Tail(tasks)
  BY <1>1, <1>3, <1>6, <1>7, ConcatAssociative
<1> QED
  BY <1>3, <1>5, <1>7, <1>8

LEMMA TakenStep ==
  ASSUME IInv, Next
  PROVE  TakenOnce'
<1> TakenOnce /\ TypeOK /\ PushedOnce
  BY DEF IInv
<1>1. ASSUME NEW t \in Tasks, Push(t) PROVE TakenOnce'
  <2>1. tasks \in Seq(Tasks) /\ taken \in Seq(Tasks) /\ <<t>> \in Seq(Tasks)
    BY DEF TypeOK
  <2>2. /\ tasks' = tasks \o <<t>> /\ pushed' = (taken \o tasks) \o <<t>>
        /\ UNCHANGED <<hand, taken, ran>>
    BY <1>1, <2>1, AppendIsConcat, ConcatProperties DEF Push, TakenOnce
  <2>3. pushed' = taken \o tasks'
    BY <2>1, <2>2, ConcatAssociative
  <2> QED
    BY <2>2, <2>3 DEF TakenOnce
<1>2. ASSUME NEW w \in Workers, Take(w) PROVE TakenOnce'
  <2> DEFINE t == Head(tasks)
  <2>1. tasks # <<>>
    BY <1>2 DEF IInv, HolderKnows, Take, Move
  <2>2. /\ t \in Tasks /\ \A i \in 1 .. Len(taken) : taken[i] # t
        /\ pushed = Append(taken, t) \o Tail(tasks)
    BY <2>1, FrontIsNew
  <2>3. pushed' = taken' \o tasks'
    BY <1>2, <2>2 DEF Take
  <2>4. /\ hand[w] = NoTask /\ hand'[w] = t /\ ran' = ran
        /\ \A v \in Workers \ {w} : hand'[v] = hand[v]
    BY <1>2 DEF Take, Move, TypeOK
  <2>5. t \notin ran /\ \A v \in Workers : hand[v] # t
    BY <2>2 DEF TakenOnce
  <2>6. /\ Len(taken) \in Nat /\ Len(taken') = Len(taken) + 1
        /\ \A i \in 1 .. Len(taken) : taken'[i] = taken[i]
        /\ taken'[Len(taken) + 1] = t
    BY <1>2, <2>2, AppendProperties, LenProperties DEF Take, TypeOK
  <2> HIDE DEF t
  <2>7. ASSUME NEW u \in Tasks
        PROVE  (\E i \in 1 .. Len(taken') : taken'[i] = u)
                 <=> (u = t \/ \E i \in 1 .. Len(taken) : taken[i] = u)
    BY <2>6
  <2>8. ASSUME NEW u \in Tasks
        PROVE  (\E v \in Workers : hand'[v] = u)
                 <=> (u = t \/ \E v \in Workers : hand[v] = u)
    BY <2>4, ThreadPoolAssumption
  <2>9. \A u \in Tasks : (\E i \in 1 .. Len(taken') : taken'[i] = u)
           <=> (u \in ran' \/ \E v \in Workers : hand'[v] = u)
    BY <2>4, <2>7, <2>8 DEF TakenOnce
  <2>10. \A v, x \in Workers : hand'[v] = hand'[x] /\ hand'[v] # NoTask => v = x
    <3>1. \A v, x \in Workers : hand[v] = hand[x] /\ hand[v] # NoTask => v = x
      BY DEF TakenOnce
    <3> QED
      BY ONLY <2>4, <2>5, <3>1
  <2>11. \A v \in Workers : hand'[v] \notin ran'
    <3>1. \A v \in Workers : hand[v] \notin ran
      BY DEF TakenOnce
    <3> QED
      BY ONLY <2>4, <2>5, <3>1
  <2> QED
    BY ONLY <2>3, <2>9, <2>10, <2>11 DEF TakenOnce
<1>3. ASSUME NEW w \in Workers, Run(w) PROVE TakenOnce'
  <2>1. /\ hand[w] # NoTask /\ hand'[w] = NoTask /\ ran' = ran \cup {hand[w]}
        /\ \A v \in Workers \ {w} : hand'[v] = hand[v]
        /\ UNCHANGED <<tasks, pushed, taken>>
        /\ hand[w] \in Tasks
    BY <1>3 DEF Run, Move, TypeOK
  <2>2. \A v \in Workers \ {w} : hand[v] # hand[w]
    BY <2>1 DEF TakenOnce
  <2>3. ran \subseteq Tasks
    BY DEF TypeOK
  <2>4. ASSUME NEW u \in Tasks
        PROVE  (u \in ran' \/ \E v \in Workers : hand'[v] = u)
                 <=> (u \in ran \/ \E v \in Workers : hand[v] = u)
    BY <2>1, ThreadPoolAssumption
  <2>5. \A v \in Workers : hand'[v] \notin ran'
    BY <2>1, <2>2, <2>3, ThreadPoolAssumption DEF TakenOnce
  <2>6. \A u, v \in Workers : hand'[u] = hand'[v] /\ hand'[u] # NoTask => u = v
    BY <2>1 DEF TakenOnce
  <2>7. pushed' = taken' \o tasks' /\ Len(taken') = Len(taken)
    BY <2>1 DEF TakenOnce
  <2>8. \A u \in Tasks : (\E i \in 1 .. Len(taken') : taken'[i] = u)
           <=> (u \in ran' \/ \E v \in Workers : hand'[v] = u)
    BY <2>1, <2>4 DEF TakenOnce
  <2> QED
    BY <2>5, <2>6, <2>7, <2>8 DEF TakenOnce
<1>4. ASSUME UNCHANGED <<tasks, pushed, hand, taken, ran>> PROVE TakenOnce'
  BY <1>4 DEF TakenOnce
<1> QED
  BY <1>1, <1>2, <1>3, <1>4
  DEF Next, Commit, Worker, Destructor, TestStop, Notify, Acquire, Predicate, Block, Leave,
      SpuriousWakeup, StoreStop, NotifyStop, Join

-----------------------------------------------------------------------------
(* No task waits behind a busy worker while another one sleeps.            *)

LEMMA FreeIsFinite ==
  /\ IsFiniteSet(Free) /\ Cardinality(Free) \in Nat
  /\ IsFiniteSet(Free') /\ Cardinality(Free') \in Nat
<1>1. Free \in SUBSET Workers /\ Free' \in SUBSET Workers
  BY DEF Free
<1>2. IsFiniteSet(Free) /\ IsFiniteSet(Free')
  BY <1>1, ThreadPoolAssumption, FS_Subset
<1> QED
  BY <1>2, FS_CardinalityType

LEMMA CountableStep ==
  ASSUME IInv, Next
  PROVE  Countable'
<1> Countable /\ TypeOK
  BY DEF IInv
<1>1. ASSUME UNCHANGED commit PROVE Countable'
  BY <1>1 DEF Countable, Notifying
<1>2. ASSUME NEW t \in Tasks, Commit(t) PROVE Countable'
  <2>1. \A u \in Tasks \ {t} : commit'[u] = commit[u]
    BY <1>2, GoMoves DEF Commit, TestStop, Push, Notify
  <2>2. Notifying' \in SUBSET (Notifying \cup {t})
    BY <2>1 DEF Notifying
  <2>3. IsFiniteSet(Notifying \cup {t})
    BY FS_AddElement DEF Countable
  <2> QED
    BY <2>2, <2>3, FS_Subset DEF Countable
<1> QED
  BY <1>1, <1>2
  DEF Next, Worker, Destructor, Acquire, Predicate, Block, Leave, Take, Run,
      SpuriousWakeup, StoreStop, NotifyStop, Join

\* A worker that joins the free ones, one that leaves them.
LEMMA FreeGrows ==
  ASSUME NEW w \in Workers, Free' = Free \cup {w}, w \notin Free
  PROVE  Cardinality(Free') = Cardinality(Free) + 1
BY FreeIsFinite, FS_AddElement

LEMMA FreeShrinks ==
  ASSUME NEW w \in Workers, Free' = Free \ {w}, w \in Free
  PROVE  Cardinality(Free') = Cardinality(Free) - 1
BY FreeIsFinite, FS_RemoveElement

LEMMA SpreadStep ==
  ASSUME IInv, Next
  PROVE  WorkIsSpread'
<1> DEFINE F == Cardinality(Free)
           N == Cardinality(Notifying)
<1>0. /\ WorkIsSpread /\ TypeOK /\ HolderKnows /\ HolderKnows'
      /\ Countable /\ Countable'
  BY HolderStep, CountableStep DEF IInv
<1>a. /\ F \in Nat /\ F' \in Nat /\ N \in Nat /\ N' \in Nat
      /\ Len(tasks) \in Nat
  BY <1>0, FreeIsFinite, FS_CardinalityType, LenProperties DEF Countable, TypeOK
<1>b. ASSUME NEW w \in Workers, worker'[w] = "block" PROVE WorkIsSpread'
  <2>1. Len(tasks') = 0
    BY <1>0, <1>b, EmptySeq DEF HolderKnows
  <2> QED
    BY <1>a, <2>1 DEF WorkIsSpread
<1> HIDE DEF F, N
<1>1. ASSUME NEW t \in Tasks, TestStop(t) PROVE WorkIsSpread'
  <2>1. /\ commit[t] = "idle" /\ commit'[t] \in {"tested", "refused"}
        /\ \A u \in Tasks \ {t} : commit'[u] = commit[u]
        /\ UNCHANGED <<tasks, worker>>
    BY <1>0, <1>1, GoMoves DEF TestStop
  <2>2. Notifying' = Notifying
    BY <2>1 DEF Notifying
  <2> QED
    BY <1>0, <2>1, <2>2 DEF WorkIsSpread, Asleep, Free
<1>2. ASSUME NEW t \in Tasks, Push(t) PROVE WorkIsSpread'
  <2>1. /\ commit[t] = "tested" /\ commit'[t] = "pushed"
        /\ \A u \in Tasks \ {t} : commit'[u] = commit[u]
    BY <1>0, <1>2, GoMoves DEF Push
  <2>2. Notifying' = Notifying \cup {t} /\ t \notin Notifying
    BY <2>1 DEF Notifying
  <2>3. N' = N + 1
    BY <1>0, <2>2, FS_AddElement DEF N, Countable
  <2>4. Len(tasks') = Len(tasks) + 1
    BY <1>0, <1>2, AppendProperties DEF Push, TypeOK
  <2>5. Asleep' = Asleep /\ F' = F
    BY <1>2 DEF Push, Asleep, Free, F
  <2> QED
    BY <1>0, <1>a, <2>3, <2>4, <2>5 DEF WorkIsSpread, F, N
<1>3. ASSUME NEW t \in Tasks, Notify(t) PROVE WorkIsSpread'
  <2>1. /\ commit[t] = "pushed" /\ commit'[t] = "returned"
        /\ \A u \in Tasks \ {t} : commit'[u] = commit[u]
        /\ tasks' = tasks
    BY <1>0, <1>3, GoMoves DEF Notify
  <2>2. Notifying' = Notifying \ {t} /\ t \in Notifying
    BY <2>1 DEF Notifying
  <2>3. N' = N - 1
    BY <1>0, <2>2, FS_RemoveElement DEF N, Countable
  <2>4. CASE Waiting = {} /\ worker' = worker
    <3>1. SUFFICES ASSUME NEW w \in Asleep' PROVE WorkIsSpread'
      BY DEF WorkIsSpread
    <3>2. w \in Workers /\ worker'[w] = "block"
      BY <2>4, <3>1 DEF Asleep, Waiting
    <3> QED
      BY <3>2, <1>b
  <2>5. ASSUME NEW w \in Workers, Moves(w, "waiting", "woken") PROVE WorkIsSpread'
    <3>1. Free' = Free \cup {w} /\ w \notin Free /\ Asleep # {}
      BY <2>5 DEF Moves, Free, Asleep
    <3>2. F' = F + 1
      BY <3>1, FreeGrows DEF F
    <3> QED
      BY <1>0, <1>a, <2>1, <2>3, <3>1, <3>2 DEF WorkIsSpread, F, N
  <2> QED
    BY <1>0, <1>3, <2>4, <2>5, WakeOneMoves DEF Notify
<1>4. ASSUME NEW w \in Workers, Acquire(w) \/ Block(w) PROVE WorkIsSpread'
  <2>1. /\ UNCHANGED <<tasks, commit>>
        /\ \/ Moves(w, "lock", "predicate") \/ Moves(w, "woken", "predicate")
           \/ Moves(w, "block", "waiting")
    BY <1>0, <1>4, MoveMoves DEF Acquire, Block
  <2>2. Free' = Free /\ Asleep' = Asleep /\ Notifying' = Notifying
    BY <2>1 DEF Moves, Free, Asleep, Notifying
  <2> QED
    BY <1>0, <2>1, <2>2 DEF WorkIsSpread
<1>5. ASSUME NEW w \in Workers, Predicate(w) PROVE WorkIsSpread'
  <2>1. CASE Moves(w, "predicate", "check")
    <3>1. Free' = Free /\ Asleep' = Asleep /\ Notifying' = Notifying /\ tasks' = tasks
      BY <1>5, <2>1 DEF Moves, Free, Asleep, Notifying, Predicate
    <3> QED
      BY <1>0, <3>1 DEF WorkIsSpread
  <2>2. CASE Moves(w, "predicate", "block")
    BY <2>2, <1>b DEF Moves
  <2> QED
    BY <1>0, <1>5, <2>1, <2>2, MoveMoves DEF Predicate
<1>6. ASSUME NEW w \in Workers, Leave(w) PROVE WorkIsSpread'
  <2>1. Len(tasks') = 0
    BY <1>6, EmptySeq DEF Leave
  <2> QED
    BY <1>a, <2>1 DEF WorkIsSpread, F, N
<1>7. ASSUME NEW w \in Workers, Take(w) PROVE WorkIsSpread'
  <2>1. Moves(w, "check", "run") /\ commit' = commit
    BY <1>0, <1>7, MoveMoves DEF Take
  <2>2. /\ Free' = Free \ {w} /\ w \in Free /\ Asleep' = Asleep
        /\ Notifying' = Notifying
    BY <2>1 DEF Moves, Free, Asleep, Notifying
  <2>3. F' = F - 1
    BY <2>2, FreeShrinks DEF F
  <2>4. tasks # <<>>
    BY <1>0, <1>7 DEF HolderKnows, Take, Move
  <2>5. Len(tasks') = Len(tasks) - 1
    BY <1>0, <1>7, <2>4, HeadTailProperties DEF Take, TypeOK
  <2> QED
    BY <1>0, <1>a, <2>2, <2>3, <2>5 DEF WorkIsSpread, F, N
<1>8. ASSUME NEW w \in Workers, Run(w) \/ SpuriousWakeup(w) PROVE WorkIsSpread'
  <2>1. /\ UNCHANGED <<tasks, commit>>
        /\ Moves(w, "run", "lock") \/ Moves(w, "waiting", "woken")
    BY <1>0, <1>8, MoveMoves DEF Run, SpuriousWakeup
  <2>2. /\ Free' = Free \cup {w} /\ w \notin Free /\ Asleep' \subseteq Asleep
        /\ Notifying' = Notifying
    BY <2>1 DEF Moves, Free, Asleep, Notifying
  <2>3. F' = F + 1
    BY <2>2, FreeGrows DEF F
  <2> QED
    BY <1>0, <1>a, <2>1, <2>2, <2>3 DEF WorkIsSpread, F, N
<1>9. ASSUME StoreStop \/ Join PROVE WorkIsSpread'
  BY <1>0, <1>9 DEF StoreStop, Join, WorkIsSpread, Asleep, Free, Notifying
<1>10. ASSUME NotifyStop PROVE WorkIsSpread'
  <2>1. SUFFICES ASSUME NEW w \in Asleep' PROVE WorkIsSpread'
    BY DEF WorkIsSpread
  <2>2. w \in Workers /\ worker'[w] = "block"
    BY <1>10, <2>1 DEF NotifyStop, Asleep
  <2> QED
    BY <2>2, <1>b
<1> QED
  BY <1>1, <1>2, <1>3, <1>4, <1>5, <1>6, <1>7, <1>8, <1>9, <1>10
  DEF Next, Commit, Worker, Destructor

-----------------------------------------------------------------------------
LEMMA StutterInv == IInv /\ UNCHANGED vars => IInv'
<1> SUFFICES ASSUME IInv, UNCHANGED vars PROVE IInv'
  OBVIOUS
<1>1. UNCHANGED <<tasks, stop, worker, hand, commit, owner, pushed, taken, ran>>
  BY DEF vars
<1>2. TypeOK'
  BY <1>1 DEF IInv, TypeOK
<1>3. Exclusive' /\ HolderKnows' /\ StopInv' /\ AtMostOneMissesStop'
  BY <1>1 DEF IInv, Exclusive, Holding, HolderKnows, StopInv, AtMostOneMissesStop, Asleep
<1>4. PushedOnce' /\ TakenOnce'
  BY <1>1 DEF IInv, PushedOnce, TakenOnce
<1>5. Countable' /\ WorkIsSpread'
  BY <1>1 DEF IInv, Countable, WorkIsSpread, Asleep, Free, Notifying
<1> QED
  BY <1>2, <1>3, <1>4, <1>5 DEF IInv

\* IInv is an invariant of the pool, for any workers and any tasks.
THEOREM Invariance == Spec => []IInv
<1>1. IInv /\ [Next]_vars => IInv'
  BY TypeStep, ExclusiveStep, HolderStep, StopStep, PushedStep, CountableStep, TakenStep,
     SpreadStep, MissStep, StutterInv DEF IInv
<1> QED
  BY InitInv, <1>1, PTL DEF Spec

\* No task is lost, run twice or taken out of turn (lines 38-52).
THEOREM NoTaskLost == Spec => []TakenOnce
<1>1. IInv => TakenOnce
  BY DEF IInv
<1> QED
  BY Invariance, <1>1, PTL

\* One blind notification per commit (line 87) keeps every queued task from
\* waiting while a worker sleeps.
THEOREM NotifyOneIsEnough == Spec => []WorkIsSpread
<1>1. IInv => WorkIsSpread
  BY DEF IInv
<1> QED
  BY Invariance, <1>1, PTL

\* The destructor's notify_all is missed by one worker at most (lines 25-28).
THEOREM OneMayMiss == Spec => []AtMostOneMissesStop
<1>1. IInv => AtMostOneMissesStop
  BY DEF IInv
<1> QED
  BY Invariance, <1>1, PTL

\* The variables keep their types.
THEOREM TypeCorrect == Spec => []TypeOK
<1>1. IInv => TypeOK
  BY DEF IInv
<1> QED
  BY Invariance, <1>1, PTL

-----------------------------------------------------------------------------
(* The head of a sequence.                                                 *)

LEMMA HeadFirst ==
  ASSUME NEW S, NEW s \in Seq(S), s # <<>>
  PROVE  /\ Head(s) \in S /\ Tail(s) \in Seq(S) /\ <<Head(s)>> \in Seq(S)
         /\ s = <<Head(s)>> \o Tail(s)
<1>1. Head(s) \in S /\ Tail(s) \in Seq(S) /\ <<Head(s)>> \in Seq(S)
  BY HeadTailProperties
<1>2. Len(s) \in Nat /\ 1 \in 1 .. Len(s) /\ Len(s) \in 1 .. Len(s)
  BY EmptySeq
<1>3. SubSeq(s, 1, Len(s)) = <<s[1]>> \o SubSeq(s, 1 + 1, Len(s))
  BY <1>2, SubSeqRecursiveFirst
<1>4. Tail(s) = SubSeq(s, 2, Len(s)) /\ Head(s) = s[1]
  BY TailIsSubSeq
<1> QED
  BY <1>1, <1>3, <1>4, SubSeqFull

-----------------------------------------------------------------------------
(* The actor.                                                              *)

\* What is boxed has run, is running or is still there; the thread leaves when it
\* has seen the stop and an empty box, and nothing is boxed after the stop.
AcInv ==
  /\ AcTypeOK
  /\ actor # "run" => running = <<>>
  /\ actor = "run" => Len(running) = 1
  /\ life # "alive" => built
  /\ actor = "exited" => Stopped
  /\ ActorInOrder

LEMMA ActorInitInv == AcInit => AcInv
<1> SUFFICES ASSUME AcInit PROVE AcInv
  OBVIOUS
<1>1. /\ <<>> \in Seq(Mails) /\ <<>> \o <<>> = <<>>
  BY EmptySeq, ConcatEmptySeq
<1>2. <<>> \o <<>> \o <<>> = <<>>
  BY <1>1
<1> QED
  BY <1>1, <1>2 DEF AcInit, AcInv, AcTypeOK, ActorInOrder

LEMMA ActorPushes ==
  ASSUME AcInv, NEW m \in Mails, PushMail(m)
  PROVE  AcInv'
<1>1. /\ msgBox' = Append(msgBox, m) /\ boxed' = Append(boxed, m)
      /\ mail' = [mail EXCEPT ![m] = "pushed"] /\ life = "alive" /\ built
      /\ UNCHANGED <<built, actor, running, life, finished>>
  BY DEF PushMail, Stopped
<1>2. /\ msgBox \in Seq(Mails) /\ boxed \in Seq(Mails) /\ running \in Seq(Mails)
      /\ finished \in Seq(Mails) /\ <<m>> \in Seq(Mails)
      /\ boxed = finished \o running \o msgBox
  BY DEF AcInv, AcTypeOK, ActorInOrder
<1>3. /\ msgBox' \in Seq(Mails) /\ boxed' \in Seq(Mails)
      /\ msgBox' = msgBox \o <<m>> /\ boxed' = boxed \o <<m>>
  BY <1>1, <1>2, AppendProperties, AppendIsConcat
<1>4. boxed' = finished \o running \o msgBox'
  <2>1. finished \o running \in Seq(Mails)
    BY <1>2, ConcatProperties
  <2>2. msgBox \in Seq(Mails) /\ <<m>> \in Seq(Mails)
    BY <1>2
  <2>3. ((finished \o running) \o msgBox) \o <<m>> = (finished \o running) \o (msgBox \o <<m>>)
    BY <2>1, <2>2, ConcatAssociative
  <2> QED
    BY <1>2, <1>3, <2>3, Zenon
<1>5. AcTypeOK' /\ mail'[m] = "pushed"
  BY <1>1, <1>3 DEF AcInv, AcTypeOK
<1>6. ActorInOrder'
  <2>1. boxed' = (finished \o running \o msgBox)'
    BY <1>1, <1>4
  <2>2. actor # "exited" /\ life' \in {"alive", "stopped"}
    BY <1>1 DEF AcInv, Stopped
  <2> QED
    BY <1>1, <1>5, <2>1, <2>2 DEF ActorInOrder
<1> QED
  BY <1>1, <1>5, <1>6 DEF AcInv, Stopped

LEMMA ActorTakes ==
  ASSUME AcInv, TakeMail
  PROVE  AcInv'
<1>1. /\ actor = "ready" /\ built /\ ~Destroyed /\ running = <<>>
      /\ UNCHANGED <<built, mail, life, boxed, finished>>
      /\ msgBox \in Seq(Mails) /\ finished \in Seq(Mails) /\ <<>> \in Seq(Mails)
      /\ boxed = finished \o <<>> \o msgBox
  BY EmptySeq DEF TakeMail, AcInv, AcTypeOK, ActorInOrder
<1>2. CASE msgBox # <<>>
  <2>1. actor' = "run" /\ running' = <<Head(msgBox)>> /\ msgBox' = Tail(msgBox)
    BY <1>2 DEF TakeMail
  <2>2. Head(msgBox) \in Mails /\ Tail(msgBox) \in Seq(Mails) /\ <<Head(msgBox)>> \in Seq(Mails)
    BY <1>1, <1>2, HeadTailProperties
  <2>3. msgBox = <<Head(msgBox)>> \o Tail(msgBox)
    BY <1>1, <1>2, HeadFirst
  <2>4. boxed = finished \o <<Head(msgBox)>> \o Tail(msgBox)
    <3>1. finished \o <<>> = finished
      BY <1>1, ConcatEmptySeq
    <3>2. finished \o (<<Head(msgBox)>> \o Tail(msgBox))
            = (finished \o <<Head(msgBox)>>) \o Tail(msgBox)
      BY <1>1, <2>2, ConcatAssociative
    <3>3. boxed = (finished \o <<>>) \o msgBox
      BY <1>1, Zenon
    <3> QED
      BY <2>3, <3>1, <3>2, <3>3, Zenon
  <2>5. AcTypeOK'
    BY <1>1, <2>1, <2>2 DEF AcInv, AcTypeOK
  <2>6. ActorInOrder'
    BY <1>1, <2>1, <2>4 DEF ActorInOrder
  <2> QED
    BY <1>1, <2>1, <2>5, <2>6 DEF AcInv, Stopped
<1>3. CASE msgBox = <<>>
  <2>1. /\ actor' = IF Stopped THEN "exited" ELSE "waiting"
        /\ UNCHANGED <<msgBox, running>>
    BY <1>3 DEF TakeMail
  <2>2. AcTypeOK'
    BY <1>1, <2>1 DEF AcInv, AcTypeOK
  <2>3. ActorInOrder'
    BY <1>1, <1>3, <2>1 DEF ActorInOrder, Stopped
  <2> QED
    BY <1>1, <2>1, <2>2, <2>3 DEF AcInv, Stopped
<1> QED
  BY <1>2, <1>3

LEMMA ActorRuns ==
  ASSUME AcInv, RunMail
  PROVE  AcInv'
<1>1. /\ actor = "run" /\ actor' = "ready" /\ finished' = finished \o running /\ running' = <<>>
      /\ UNCHANGED <<built, msgBox, mail, life, boxed>>
      /\ msgBox \in Seq(Mails) /\ finished \in Seq(Mails) /\ running \in Seq(Mails)
      /\ <<>> \in Seq(Mails) /\ boxed = finished \o running \o msgBox
  BY EmptySeq DEF RunMail, AcInv, AcTypeOK, ActorInOrder
<1>2. finished' \in Seq(Mails) /\ finished' \o <<>> = finished'
  BY <1>1, ConcatProperties, ConcatEmptySeq
<1>3. AcTypeOK'
  BY <1>1, <1>2 DEF AcInv, AcTypeOK
<1>4. ActorInOrder'
  BY <1>1, <1>2 DEF ActorInOrder
<1> QED
  BY <1>1, <1>3, <1>4 DEF AcInv, Stopped

LEMMA ActorStepInv == AcInv /\ [AcNext]_acVars => AcInv'
<1> SUFFICES ASSUME AcInv, [AcNext]_acVars PROVE AcInv'
  OBVIOUS
<1>1. CASE UNCHANGED acVars
  BY <1>1 DEF acVars, AcInv, AcTypeOK, ActorInOrder, Stopped
<1>2. CASE FinishConstructor \/ SetStop \/ DestroyMembers \/ JoinActor \/ WakeSpuriously
  BY <1>2 DEF FinishConstructor, SetStop, DestroyMembers, JoinActor, WakeSpuriously, Stopped,
     AcInv, AcTypeOK, ActorInOrder
<1>3. CASE NotifyActor
  BY <1>3 DEF NotifyActor, Woken, Stopped, AcInv, AcTypeOK, ActorInOrder
<1>4. CASE StartEarly \/ RunLate
  BY <1>4 DEF StartEarly, RunLate, Stopped, Destroyed, AcInv, AcTypeOK, ActorInOrder
<1>5. ASSUME NEW m \in Mails, Refuse(m) PROVE AcInv'
  <2>1. /\ mail' = [mail EXCEPT ![m] = "refused"] /\ mail[m] = "idle"
        /\ UNCHANGED <<built, msgBox, actor, running, life, boxed, finished>>
    BY <1>5 DEF Refuse
  <2>2. \A n \in Mails : mail[n] = "pushed" => mail'[n] = "pushed"
    BY <2>1 DEF AcInv, AcTypeOK
  <2> QED
    BY <2>1, <2>2 DEF Stopped, AcInv, AcTypeOK, ActorInOrder
<1>6. ASSUME NEW m \in Mails, NotifyMail(m) PROVE AcInv'
  BY <1>6 DEF NotifyMail, Woken, Stopped, AcInv, AcTypeOK, ActorInOrder
<1> QED
  BY <1>1, <1>2, <1>3, <1>4, <1>5, <1>6, ActorPushes, ActorTakes, ActorRuns DEF AcNext

-----------------------------------------------------------------------------
(* The Go programs.                                                        *)

\* All that is in the channel or was printed from it, and what that should be: the
\* goroutines that have printed, or the numbers that have been sent.
GoAll == printed \o channel
GoGiven ==
  CASE func = 2 -> {r \in G!Routines : routine[r] \in {"return", "done"}}
    [] func = 5 -> 0 .. at[1] - 1
    [] func = 6 -> {n \in Nat : G!isPrime(n) /\ \E r \in G!Routines : G!First(r) <= n /\ n < at[r]}
    [] func = 8 -> 0 .. Numbers - 1

GoTypes ==
  /\ func \in {2, 5, 6, 8}
  /\ main \in {"launch", "wait", "drain", "select", "done"}
  /\ routine \in [G!Routines -> {"none", "run", "return", "done"}]
  /\ at \in [G!Routines -> Nat]
  /\ printer \in {"none", "run", "done"}
  /\ channel \in Seq(Nat) /\ strings \in Seq(Nat)
  /\ printed \in Seq(Nat) /\ texts \in Seq(Nat)

\* The WaitGroups count the goroutines that run.
AtWork == {r \in G!Routines : routine[r] \in {"run", "return"}}
GoCounts ==
  /\ wg = Cardinality(AtWork) + IF func = 5 /\ printer = "run" THEN 1 ELSE 0
  /\ consumeWg = IF func = 6 /\ printer = "run" THEN 1 ELSE 0

\* Who has been started, and who has ended.
GoPlaces ==
  /\ func = 8 => main \in {"select", "done"} /\ printer = "none"
                 /\ \A r \in G!Routines : routine[r] = "none"
  /\ func # 8 => main # "select"
  /\ func # 8 /\ main = "launch" => printer = "none"
  /\ func = 5 => \A r \in G!Routines : r # 1 \/ main = "launch" => routine[r] = "none"
  /\ func = 5 /\ main # "launch" => routine[1] # "none" /\ printer # "none"
  /\ func \in {2, 6} /\ main # "launch" => \A r \in G!Routines : routine[r] # "none"
  /\ func = 2 => printer = "none"
  /\ func = 6 /\ main # "launch" => printer # "none"
  /\ main = "drain" => func = 6
  /\ main \in {"drain", "done"} => \A r \in G!Routines : routine[r] \in {"none", "done"}
  /\ main = "done" => printer \in {"none", "done"}

\* The channel is closed once nobody sends any more, and left when it is empty.
GoCloses ==
  /\ ~panicked
  /\ chanClosed => \/ func = 6 /\ main \in {"drain", "done"}
                   \/ func = 5 /\ routine[1] \in {"return", "done"}
  /\ func = 8 /\ main = "done" => channel = <<>> /\ strings = <<>>
  /\ func = 6 /\ printer = "done" => chanClosed /\ channel = <<>>
  /\ func = 5 /\ printer = "done" => Len(printed) = Numbers

\* A goroutine is within its share, or through with it.
GoShares ==
  func \in {5, 6} => \A r \in G!Routines :
    /\ G!First(r) <= at[r] /\ at[r] <= G!Beyond(r)
    /\ routine[r] \in {"return", "done"} => at[r] = G!Beyond(r)

GoValues ==
  /\ func = 2 => channel = <<>>
  /\ \A i \in 1 .. Len(GoAll) : GoAll[i] \in GoGiven
  /\ \A n \in GoGiven : \E i \in 1 .. Len(GoAll) : GoAll[i] = n
  /\ \A i, j \in 1 .. Len(GoAll) : GoAll[i] = GoAll[j] => i = j
  /\ func \in {5, 8} => G!InRising(GoAll, Nat)
  /\ func = 6 => \A r \in G!Routines : G!InRising(GoAll, G!First(r) .. G!Beyond(r) - 1)

GoTexts ==
  texts \o strings = IF func = 8 THEN [i \in 1 .. Numbers \div 2 |-> i - 1] ELSE <<>>

GoInv == GoTypes /\ GoCounts /\ GoPlaces /\ GoCloses /\ GoShares /\ GoValues /\ GoTexts

-----------------------------------------------------------------------------
(* Moving the head from one sequence to the end of another.                *)

LEMMA HeadMoves ==
  ASSUME NEW S, NEW s \in Seq(S), NEW t \in Seq(S), t # <<>>
  PROVE  /\ Append(s, Head(t)) \in Seq(S) /\ Tail(t) \in Seq(S)
         /\ Append(s, Head(t)) \o Tail(t) = s \o t
<1>1. Head(t) \in S /\ Tail(t) \in Seq(S) /\ <<Head(t)>> \in Seq(S) /\ t = <<Head(t)>> \o Tail(t)
  BY HeadFirst
<1>2. Append(s, Head(t)) \in Seq(S) /\ Append(s, Head(t)) = s \o <<Head(t)>>
  BY <1>1, AppendProperties, AppendIsConcat
<1> QED
  BY <1>1, <1>2, ConcatAssociative

LEMMA AppendsLast ==
  ASSUME NEW S, NEW s \in Seq(S), NEW t \in Seq(S), NEW v \in S
  PROVE  Append(t, v) \in Seq(S) /\ s \o Append(t, v) = Append(s \o t, v)
<1>1. /\ Append(t, v) \in Seq(S) /\ Append(t, v) = t \o <<v>> /\ <<v>> \in Seq(S)
      /\ s \o t \in Seq(S)
  BY AppendProperties, AppendIsConcat, ConcatProperties
<1>2. Append(s \o t, v) = (s \o t) \o <<v>>
  BY <1>1, AppendIsConcat
<1> QED
  BY <1>1, <1>2, ConcatAssociative

\* A sequence that holds every member of a set once is as long as the set.
LEMMA OnceEach ==
  ASSUME NEW S, NEW s \in Seq(S), NEW T,
         \A i \in 1 .. Len(s) : s[i] \in T,
         \A n \in T : \E i \in 1 .. Len(s) : s[i] = n,
         \A i, j \in 1 .. Len(s) : s[i] = s[j] => i = j
  PROVE  Cardinality(T) = Len(s)
<1>1. Len(s) \in Nat /\ DOMAIN s = 1 .. Len(s) /\ s \in [1 .. Len(s) -> S]
  BY LenProperties
<1>2. s \in [1 .. Len(s) -> T]
  BY <1>1
<1>3. s \in Bijection(1 .. Len(s), T)
  BY <1>1, <1>2 DEF Bijection, Injection, Surjection, IsInjective
<1>4. ExistsBijection(1 .. Len(s), T)
  BY <1>3 DEF ExistsBijection
<1>5. IsFiniteSet(1 .. Len(s)) /\ Cardinality(1 .. Len(s)) = Len(s)
  <2>1. Len(s) \in Int /\ 1 \in Int
    BY <1>1
  <2>2. /\ IsFiniteSet(1 .. Len(s))
        /\ Cardinality(1 .. Len(s)) = IF 1 > Len(s) THEN 0 ELSE Len(s) - 1 + 1
    BY <2>1, FS_Interval, Zenon
  <2> QED
    BY <1>1, <2>2
<1> QED
  BY <1>4, <1>5, FS_Bijection

\* The shares of the goroutines lie side by side.
LEMMA TimesGrows ==
  ASSUME NEW a \in Nat, NEW b \in Nat, NEW e \in Nat, a <= b
  PROVE  a * e <= b * e
<1>1. PICK d \in Nat : b = a + d
  <2>1. b - a \in Nat /\ b = a + (b - a)
    OBVIOUS
  <2> QED
    BY <2>1
<1>2. (a + d) * e = a * e + d * e
  OBVIOUS
<1>3. a * e \in Nat /\ d * e \in Nat
  OBVIOUS
<1> QED
  BY <1>1, <1>2, <1>3

LEMMA EachIsNat == G!eachCount \in Nat
BY WorkersAssumption DEF G!eachCount

LEMMA ShareIs ==
  ASSUME func = 6
  PROVE  \A r : G!First(r) = (r - 1) * G!eachCount /\ G!Beyond(r) = r * G!eachCount
<1>1. \A r : G!First(r) = (r - 1) * G!eachCount
  BY func = 6, Zenon DEF G!First
<1>2. \A r : G!Beyond(r) = r * G!eachCount
  BY func = 6 DEF G!Beyond
<1> QED
  BY <1>1, <1>2, Zenon

LEMMA SharesApart ==
  ASSUME func = 6, NEW r \in G!Routines, NEW q \in G!Routines, NEW n \in Nat,
         n \in G!First(r) .. G!Beyond(r) - 1, n \in G!First(q) .. G!Beyond(q) - 1
  PROVE  r = q
<1> DEFINE e == G!eachCount
<1>1. e \in Nat
  BY EachIsNat
<1> HIDE DEF e
<1>2. /\ r \in Nat /\ q \in Nat /\ r - 1 \in Nat /\ q - 1 \in Nat
      /\ (r - 1) * e <= n /\ n < r * e /\ (q - 1) * e <= n /\ n < q * e
      /\ r * e \in Nat /\ q * e \in Nat /\ (r - 1) * e \in Nat /\ (q - 1) * e \in Nat
  <2>1. r \in Nat /\ q \in Nat /\ r - 1 \in Nat /\ q - 1 \in Nat
    BY WorkersAssumption DEF G!Routines
  <2>2. r * e \in Nat /\ q * e \in Nat /\ (r - 1) * e \in Nat /\ (q - 1) * e \in Nat
    BY <1>1, <2>1
  <2> QED
    BY <2>1, <2>2 DEF G!First, G!Beyond, e
<1>3. CASE r < q
  <2>1. r <= q - 1
    BY <1>2, <1>3
  <2>2. r * e <= (q - 1) * e
    BY <1>1, <1>2, <2>1, TimesGrows
  <2> QED
    BY <1>2, <2>2
<1>4. CASE q < r
  <2>1. q <= r - 1
    BY <1>2, <1>4
  <2>2. q * e <= (r - 1) * e
    BY <1>1, <1>2, <2>1, TimesGrows
  <2> QED
    BY <1>2, <2>2
<1> QED
  BY <1>2, <1>3, <1>4

LEMMA SharesCover ==
  ASSUME func = 6, NEW n \in Nat
  PROVE  (\E r \in G!Routines : G!First(r) <= n /\ n < G!Beyond(r)) <=> n < CPUs * G!eachCount
<1> DEFINE e == G!eachCount
<1>1. e \in Nat /\ CPUs \in Nat /\ CPUs * e \in Nat
  BY EachIsNat, WorkersAssumption
<1>2. ASSUME NEW r \in G!Routines, n < G!Beyond(r) PROVE n < CPUs * e
  <2>1. r \in Nat /\ r <= CPUs /\ n < r * e
    BY <1>2 DEF G!Routines, G!Beyond
  <2> HIDE DEF e
  <2>2. r * e <= CPUs * e /\ r * e \in Nat
    BY <1>1, <2>1, TimesGrows
  <2> QED
    BY <1>1, <2>1, <2>2
<1>3. ASSUME n < CPUs * e
      PROVE  \E r \in G!Routines : G!First(r) <= n /\ n < G!Beyond(r)
  <2> HIDE DEF e
  <2>1. e # 0
    <3>1. CPUs * 0 = 0
      BY <1>1
    <3> QED
      BY <1>3, <3>1
  <2>2. PICK q \in Nat : n = e * q + (n % e) /\ n % e \in Nat /\ n % e < e
    <3>1. n \div e \in Nat /\ n = e * (n \div e) + (n % e) /\ n % e \in Nat /\ n % e < e
      BY <1>1, <2>1
    <3> QED
      BY <3>1
  <2>3. q * e <= n /\ n < (q + 1) * e
    <3>1. (q + 1) * e = e * q + e /\ q * e = e * q /\ e * q \in Nat
      BY <1>1, <2>2
    <3> QED
      BY <1>1, <2>2, <3>1
  <2>4. q < CPUs
    <3>1. CASE CPUs <= q
      <4>1. CPUs * e <= q * e /\ q * e \in Nat
        BY <1>1, <2>2, <3>1, TimesGrows
      <4> QED
        BY <1>1, <1>3, <2>3, <4>1
    <3> QED
      BY <1>1, <2>2, <3>1
  <2>5. q + 1 \in G!Routines
    BY <1>1, <2>2, <2>4 DEF G!Routines
  <2>6. G!First(q + 1) = q * e /\ G!Beyond(q + 1) = (q + 1) * e
    <3>1. (q + 1) - 1 = q
      BY <2>2
    <3>2. \A r : G!First(r) = (r - 1) * e /\ G!Beyond(r) = r * e
      BY func = 6, ShareIs DEF e
    <3>3. G!First(q + 1) = ((q + 1) - 1) * e
      BY <3>2, Zenon
    <3>4. G!Beyond(q + 1) = (q + 1) * e
      BY <3>2, Zenon
    <3> QED
      BY <3>1, <3>3, <3>4, Zenon
  <2> QED
    BY <2>3, <2>5, <2>6
<1> QED
  BY <1>2, <1>3

LEMMA BoundsAreNat ==
  \A r \in G!Routines : G!First(r) \in Nat /\ G!Beyond(r) \in Nat
<1> TAKE r \in G!Routines
<1>1. r \in Nat /\ r - 1 \in Nat /\ Numbers \in Nat
  BY WorkersAssumption DEF G!Routines
<1>2. (r - 1) * G!eachCount \in Nat /\ r * G!eachCount \in Nat
  BY <1>1, EachIsNat
<1> QED
  BY <1>1, <1>2 DEF G!First, G!Beyond

LEMMA BoundsStay ==
  ASSUME func' = func
  PROVE  \A r : G!First(r)' = G!First(r) /\ G!Beyond(r)' = G!Beyond(r)
BY DEF G!First, G!Beyond

\* What is printed and what is to be printed are unchanged, or one value is added.
LEMMA ValuesStay ==
  ASSUME GoValues, func' = func, GoAll' = GoAll, GoGiven' = GoGiven,
         func = 2 => channel' = <<>>
  PROVE  GoValues'
<1>1. \A r : G!First(r)' = G!First(r) /\ G!Beyond(r)' = G!Beyond(r)
  BY BoundsStay
<1> QED
  BY <1>1 DEF GoValues, G!InRising

LEMMA ValuesGrow ==
  ASSUME GoTypes, GoValues, func' = func, func # 8, func = 2 => channel' = <<>>,
         NEW v \in Nat, GoAll' = Append(GoAll, v), GoGiven' = GoGiven \cup {v},
         v \notin GoGiven,
         func = 5 => \A n \in GoGiven : n < v,
         func = 6 => \A r \in G!Routines : v \in G!First(r) .. G!Beyond(r) - 1
                       => \A n \in GoGiven \cap (G!First(r) .. G!Beyond(r) - 1) : n < v
  PROVE  GoValues'
<1> DEFINE s == GoAll
           t == GoAll'
<1>1. s \in Seq(Nat)
  BY ConcatProperties DEF GoTypes, GoAll
<1>2. /\ t = Append(s, v) /\ Len(t) = Len(s) + 1 /\ Len(s) \in Nat
      /\ \A i \in 1 .. Len(s) : t[i] = s[i]
      /\ t[Len(s) + 1] = v
  BY <1>1, AppendProperties
<1>3. /\ \A i \in 1 .. Len(s) : s[i] \in GoGiven
      /\ \A n \in GoGiven : \E i \in 1 .. Len(s) : s[i] = n
      /\ \A i, j \in 1 .. Len(s) : s[i] = s[j] => i = j
  BY DEF GoValues
<1> HIDE DEF s, t
<1>4. \A i \in 1 .. Len(t) : i \in 1 .. Len(s) \/ i = Len(s) + 1
  BY <1>2
<1>5. \A i \in 1 .. Len(s) : i \in 1 .. Len(t)
  BY <1>2
<1>6. Len(s) + 1 \in 1 .. Len(t)
  BY <1>2
<1>7. \A i \in 1 .. Len(t) : t[i] \in GoGiven \cup {v}
  BY <1>2, <1>3, <1>4
<1>8. \A n \in GoGiven \cup {v} : \E i \in 1 .. Len(t) : t[i] = n
  BY <1>2, <1>3, <1>5, <1>6
<1>9. ASSUME NEW i \in 1 .. Len(t), NEW j \in 1 .. Len(t), t[i] = t[j] PROVE i = j
  BY <1>2, <1>3, <1>4, <1>9
<1>10. ASSUME NEW Q, G!InRising(s, Q), v \in Q => \A n \in GoGiven \cap Q : n < v
       PROVE  G!InRising(t, Q)
  <2> SUFFICES ASSUME NEW i \in 1 .. Len(t), NEW j \in 1 .. Len(t), i < j, {t[i], t[j]} \subseteq Q
               PROVE  t[i] < t[j]
    BY DEF G!InRising
  <2>1. i \in 1 .. Len(s) /\ t[i] = s[i] /\ s[i] \in GoGiven
    BY <1>2, <1>3, <1>4
  <2>2. CASE j \in 1 .. Len(s)
    BY <1>2, <1>10, <2>1, <2>2 DEF G!InRising
  <2>3. CASE j = Len(s) + 1
    BY <1>2, <1>10, <2>1, <2>3
  <2> QED
    BY <1>4, <2>2, <2>3
<1>11. func = 5 => G!InRising(t, Nat)
  BY <1>10 DEF GoValues, s
<1>12. ASSUME func = 6, NEW r \in G!Routines
       PROVE  G!InRising(t, G!First(r) .. G!Beyond(r) - 1)
  BY <1>10, <1>12 DEF GoValues, s
<1>13. \A r : G!First(r)' = G!First(r) /\ G!Beyond(r)' = G!Beyond(r)
  BY BoundsStay
<1>14. G!InRising(GoAll, Nat)' <=> G!InRising(t, Nat)
  BY DEF G!InRising, t
<1>15. \A r : G!InRising(GoAll, G!First(r) .. G!Beyond(r) - 1)'
                <=> G!InRising(t, G!First(r) .. G!Beyond(r) - 1)
  BY <1>13 DEF G!InRising, t
<1>16. /\ (func = 2 => channel = <<>>)'
       /\ (\A i \in 1 .. Len(GoAll) : GoAll[i] \in GoGiven)'
       /\ (\A n \in GoGiven : \E i \in 1 .. Len(GoAll) : GoAll[i] = n)'
       /\ (\A i, j \in 1 .. Len(GoAll) : GoAll[i] = GoAll[j] => i = j)'
  BY <1>7, <1>8, <1>9 DEF t
<1>17. (func \in {5, 8} => G!InRising(GoAll, Nat))'
  BY <1>11, <1>14
<1>18. (func = 6 => \A r \in G!Routines : G!InRising(GoAll, G!First(r) .. G!Beyond(r) - 1))'
  BY <1>12, <1>15 DEF G!Routines
<1> QED
  BY <1>16, <1>17, <1>18 DEF GoValues

LEMMA WorkIsFinite == IsFiniteSet(AtWork) /\ Cardinality(AtWork) \in Nat
<1>1. IsFiniteSet(G!Routines)
  BY WorkersAssumption, FS_Interval DEF G!Routines
<1>2. AtWork \subseteq G!Routines
  BY DEF AtWork
<1> QED
  BY <1>1, <1>2, FS_Subset, FS_CardinalityType

LEMMA GoInitInv == G!GoInit => GoInv
<1> SUFFICES ASSUME G!GoInit PROVE GoInv
  OBVIOUS
<1>1. AtWork = {} /\ Cardinality(AtWork) = 0
  BY FS_EmptySet DEF AtWork, G!GoInit
<1>2. Numbers \in Nat /\ Numbers \div 2 \in Nat
  BY WorkersAssumption
<1>3. \A r \in G!Routines : G!First(r) \in Nat /\ at[r] = G!First(r)
  BY BoundsAreNat DEF G!GoInit
<1>4. GoTypes
  <2>1. channel \in Seq(Nat) /\ strings \in Seq(Nat)
    <3>1. CASE func = 8
      BY <1>2, <3>1 DEF G!GoInit
    <3>2. CASE func # 8
      BY <3>2 DEF G!GoInit
    <3> QED
      BY <3>1, <3>2
  <2>2. at \in [G!Routines -> Nat]
    BY <1>3 DEF G!GoInit
  <2> QED
    BY <2>1, <2>2 DEF GoTypes, G!GoInit
<1>5. GoCounts /\ GoPlaces /\ GoCloses
  BY <1>1 DEF GoCounts, GoPlaces, GoCloses, G!GoInit
<1>6. GoShares
  <2> SUFFICES ASSUME func \in {5, 6}, NEW r \in G!Routines
               PROVE  /\ G!First(r) <= at[r] /\ at[r] <= G!Beyond(r)
                      /\ routine[r] \notin {"return", "done"}
    BY DEF GoShares
  <2>1. r \in Nat /\ r - 1 \in Nat
    BY WorkersAssumption DEF G!Routines
  <2>2. G!First(r) <= G!Beyond(r)
    <3>1. CASE func = 6
      <4>1. (r - 1) * G!eachCount <= r * G!eachCount
        BY <2>1, EachIsNat, TimesGrows
      <4> QED
        BY <3>1, <4>1, ShareIs
    <3>2. CASE func = 5
      BY <1>2, <3>2 DEF G!First, G!Beyond
    <3> QED
      BY <3>1, <3>2
  <2> QED
    BY <1>3, <2>2 DEF G!GoInit
<1>7. GoValues
  <2>1. CASE func = 8
    <3>1. GoAll = [i \in 1 .. Numbers |-> i - 1]
      BY <1>2, <2>1 DEF GoAll, G!GoInit
    <3>2. Len(GoAll) = Numbers /\ \A i \in 1 .. Numbers : GoAll[i] = i - 1
      BY <1>2, <3>1
    <3>3. GoGiven = 0 .. Numbers - 1
      BY <2>1 DEF GoGiven
    <3>4. \A n \in GoGiven : n + 1 \in 1 .. Numbers /\ (n + 1) - 1 = n
      BY <1>2, <3>3
    <3>5. \A n \in GoGiven : \E i \in 1 .. Numbers : GoAll[i] = n
      BY <3>2, <3>4
    <3>6. \A i \in 1 .. Numbers : i - 1 \in GoGiven
      BY <1>2, <3>3
    <3>7. G!InRising(GoAll, Nat)
      BY <1>2, <3>2 DEF G!InRising
    <3>8. \A i, j \in 1 .. Numbers : i - 1 = j - 1 => i = j
      BY <1>2
    <3> QED
      BY <2>1, <3>2, <3>5, <3>6, <3>7, <3>8 DEF GoValues
  <2>2. CASE func # 8
    <3>1. GoAll = <<>> /\ channel = <<>>
      BY <2>2 DEF GoAll, G!GoInit
    <3>2. GoGiven = {}
      <4>1. CASE func = 2
        BY <4>1 DEF GoGiven, G!GoInit
      <4>2. CASE func = 5
        <5>1. 1 \in G!Routines
          BY WorkersAssumption DEF G!Routines
        <5>2. at[1] = 0
          BY <1>3, <4>2, <5>1 DEF G!First
        <5> QED
          BY <4>2, <5>2 DEF GoGiven
      <4>3. CASE func = 6
        <5>1. \A r \in G!Routines, n \in Nat : ~(G!First(r) <= n /\ n < at[r])
          BY <1>3
        <5> QED
          BY <4>3, <5>1 DEF GoGiven
      <4> QED
        BY <2>2, <4>1, <4>2, <4>3 DEF G!GoInit
    <3> QED
      BY <2>2, <3>1, <3>2 DEF GoValues, G!InRising
  <2> QED
    BY <2>1, <2>2
<1>8. GoTexts
  <2>1. texts = <<>>
    BY DEF G!GoInit
  <2>2. CASE func = 8
    BY <1>2, <2>1, <2>2 DEF GoTexts, G!GoInit
  <2>3. CASE func # 8
    BY <2>1, <2>3 DEF GoTexts, G!GoInit
  <2> QED
    BY <2>2, <2>3
<1> QED
  BY <1>4, <1>5, <1>6, <1>7, <1>8 DEF GoInv

LEMMA WorkStays ==
  ASSUME AtWork' = AtWork, GoCounts, UNCHANGED <<func, wg, consumeWg, printer>>
  PROVE  GoCounts'
BY DEF GoCounts

LEMMA GivenStays ==
  ASSUME func \in {2, 5, 6, 8}, func' = func, at' = at,
         func = 2 => \A r \in G!Routines : routine'[r] \in {"return", "done"}
                                            <=> routine[r] \in {"return", "done"}
  PROVE  GoGiven' = GoGiven
<1>1. CASE func = 2
  BY <1>1 DEF GoGiven, G!Routines
<1>2. CASE func = 6
  <2>1. \A r : G!First(r)' = G!First(r)
    BY BoundsStay
  <2>2. G!Routines' = G!Routines /\ \A n : G!isPrime(n)' <=> G!isPrime(n)
    BY DEF G!Routines, G!isPrime
  <2> QED
    BY <1>2, <2>1, <2>2 DEF GoGiven
<1>3. CASE func \in {5, 8}
  BY <1>3 DEF GoGiven
<1> QED
  BY <1>1, <1>2, <1>3

LEMMA LaunchKeeps ==
  ASSUME GoInv, NEW r \in G!Routines, G!Launch(r)
  PROVE  GoInv'
<1> USE DEF G!Launch
<1>1. GoTypes'
  BY DEF GoInv, GoTypes
<1>2. GoCounts'
  <2>1. r \notin AtWork /\ AtWork' = AtWork \cup {r}
    BY DEF AtWork, GoInv, GoTypes
  <2>2. Cardinality(AtWork') = Cardinality(AtWork) + 1
    BY <2>1, WorkIsFinite, FS_AddElement
  <2> QED
    BY <2>2, WorkIsFinite DEF GoInv, GoCounts, GoPlaces
<1>3. GoPlaces'
  BY DEF GoInv, GoPlaces, GoTypes
<1>4. GoCloses' /\ GoTexts'
  BY DEF GoInv, GoCloses, GoTexts, GoTypes
<1>5. GoShares'
  BY BoundsStay DEF GoInv, GoShares, GoTypes
<1>6. GoValues'
  <2>1. GoAll' = GoAll
    BY DEF GoAll
  <2>2. GoGiven' = GoGiven
    BY GivenStays DEF GoInv, GoTypes
  <2> QED
    BY <2>1, <2>2, ValuesStay DEF GoInv, GoValues
<1> QED
  BY <1>1, <1>2, <1>3, <1>4, <1>5, <1>6 DEF GoInv

LEMMA LaunchedKeeps ==
  ASSUME GoInv, G!Launched \/ G!LaunchBoth
  PROVE  GoInv'
<1>1. CASE G!Launched
  <2> USE <1>1 DEF G!Launched
  <2>1. GoTypes' /\ GoPlaces' /\ GoCloses' /\ GoTexts'
    BY DEF GoInv, GoTypes, GoPlaces, GoCloses, GoTexts
  <2>2. AtWork' = AtWork
    BY DEF AtWork, G!Routines
  <2>3. GoCounts'
    BY <2>2 DEF GoInv, GoCounts, GoPlaces
  <2>4. GoShares'
    BY BoundsStay DEF GoInv, GoShares, G!Routines
  <2>5. GoAll' = GoAll
    BY DEF GoAll
  <2>6. GoGiven' = GoGiven
    BY GivenStays DEF GoInv, GoTypes
  <2>7. GoValues'
    BY <2>5, <2>6, ValuesStay DEF GoInv, GoValues
  <2> QED
    BY <2>1, <2>3, <2>4, <2>7 DEF GoInv
<1>2. CASE G!LaunchBoth
  <2> USE <1>2 DEF G!LaunchBoth
  <2>1. 1 \in G!Routines
    BY WorkersAssumption DEF G!Routines
  <2>2. GoTypes'
    BY <2>1 DEF GoInv, GoTypes
  <2>3. AtWork = {} /\ AtWork' = {1}
    BY <2>1 DEF AtWork, GoInv, GoTypes, GoPlaces, G!Routines
  <2>4. GoCounts'
    <3>1. Cardinality(AtWork') = 1
      BY <2>3, FS_Singleton
    <3> QED
      BY <2>3, <3>1 DEF GoInv, GoCounts
  <2>5. GoPlaces'
    BY <2>1 DEF GoInv, GoPlaces, GoTypes, G!Routines
  <2>6. GoCloses' /\ GoTexts'
    BY <2>1 DEF GoInv, GoTypes, GoPlaces, GoCloses, GoTexts
  <2>7. GoShares'
    BY <2>1, BoundsStay DEF GoInv, GoShares, GoTypes, GoPlaces, G!Routines
  <2>8. GoAll' = GoAll
    BY DEF GoAll
  <2>9. GoGiven' = GoGiven
    BY GivenStays DEF GoInv, GoTypes
  <2>10. GoValues'
    BY <2>8, <2>9, ValuesStay DEF GoInv, GoValues
  <2> QED
    BY <2>2, <2>4, <2>5, <2>6, <2>7, <2>10 DEF GoInv
<1> QED
  BY <1>1, <1>2

LEMMA WaitKeeps ==
  ASSUME GoInv, G!Wait \/ G!Drained \/ G!SelectDefault
  PROVE  GoInv'
<1>1. /\ UNCHANGED <<func, wg, consumeWg, routine, at, printer, channel, strings, printed,
                     texts, panicked>>
  BY DEF G!Wait, G!Drained, G!SelectDefault
<1>2. GoTypes'
  BY <1>1 DEF G!Wait, G!Drained, G!SelectDefault, GoInv, GoTypes, G!Routines
<1>3. AtWork' = AtWork
  BY <1>1 DEF AtWork, G!Routines
<1>4. GoCounts'
  BY <1>1, <1>3 DEF GoInv, GoCounts
<1>5. ASSUME G!Wait PROVE GoPlaces' /\ GoCloses'
  <2>1. AtWork = {} /\ ~(func = 5 /\ printer = "run")
    BY <1>5, WorkIsFinite, FS_EmptySet DEF G!Wait, GoInv, GoCounts
  <2>2. \A r \in G!Routines : routine[r] \in {"none", "done"}
    BY <2>1 DEF AtWork, GoInv, GoTypes
  <2>3. GoPlaces'
    BY <1>1, <1>5, <2>1, <2>2 DEF G!Wait, GoInv, GoTypes, GoPlaces, G!Routines
  <2>4. chanClosed' <=> (chanClosed \/ func = 6)
    BY <1>5, Zenon DEF G!Wait
  <2>5. main' = (IF func = 6 THEN "drain" ELSE "done") /\ func # 8
    BY <1>5 DEF G!Wait, GoInv, GoPlaces
  <2>6. GoCloses'
    BY <1>1, <2>4, <2>5, <2>2 DEF GoInv, GoPlaces, GoCloses
  <2> QED
    BY <2>3, <2>6
<1>6. ASSUME G!Drained PROVE GoPlaces' /\ GoCloses'
  <2>1. GoPlaces'
    BY <1>1, <1>6 DEF G!Drained, GoInv, GoTypes, GoCounts, GoPlaces, G!Routines
  <2>2. GoCloses'
    BY <1>1, <1>6 DEF G!Drained, GoInv, GoPlaces, GoCloses
  <2> QED
    BY <2>1, <2>2
<1>7. ASSUME G!SelectDefault PROVE GoPlaces' /\ GoCloses'
  <2>1. GoPlaces' /\ GoCloses'
    BY <1>1, <1>7 DEF G!SelectDefault, GoInv, GoTypes, GoCounts, GoPlaces, GoCloses, G!Routines
  <2> QED
    BY <2>1
<1>8. GoShares' /\ GoTexts'
  BY <1>1, BoundsStay DEF GoInv, GoShares, GoTexts, G!Routines
<1>9. GoAll' = GoAll /\ GoGiven' = GoGiven
  BY <1>1, GivenStays DEF GoAll, GoInv, GoTypes
<1>10. GoValues'
  BY <1>1, <1>9, ValuesStay DEF GoInv, GoValues
<1> QED
  BY <1>2, <1>4, <1>5, <1>6, <1>7, <1>8, <1>10 DEF GoInv

LEMMA SelectKeeps ==
  ASSUME GoInv, G!SelectInt \/ G!SelectString
  PROVE  GoInv'
<1>1. func = 8 /\ main = "select"
  BY DEF G!SelectInt, G!SelectString, GoInv, GoPlaces
<1>2. UNCHANGED <<func, main, wg, consumeWg, routine, at, printer, chanClosed, panicked>>
  BY DEF G!SelectInt, G!SelectString
<1>3. /\ channel' \in Seq(Nat) /\ printed' \in Seq(Nat)
      /\ printed' \o channel' = printed \o channel
  <2>1. channel \in Seq(Nat) /\ printed \in Seq(Nat)
    BY DEF GoInv, GoTypes
  <2>2. CASE G!SelectInt
    <3>1. channel # <<>> /\ printed' = Append(printed, Head(channel)) /\ channel' = Tail(channel)
      BY <2>2 DEF G!SelectInt
    <3>2. /\ Append(printed, Head(channel)) \in Seq(Nat) /\ Tail(channel) \in Seq(Nat)
          /\ Append(printed, Head(channel)) \o Tail(channel) = printed \o channel
      BY <2>1, <3>1, HeadMoves
    <3> QED
      BY <3>1, <3>2, Zenon
  <2>3. CASE G!SelectString
    BY <2>1, <2>3 DEF G!SelectString
  <2> QED
    BY <2>2, <2>3
<1>4. /\ strings' \in Seq(Nat) /\ texts' \in Seq(Nat)
      /\ texts' \o strings' = texts \o strings
  <2>1. strings \in Seq(Nat) /\ texts \in Seq(Nat)
    BY DEF GoInv, GoTypes
  <2>2. CASE G!SelectString
    <3>1. strings # <<>> /\ texts' = Append(texts, Head(strings)) /\ strings' = Tail(strings)
      BY <2>2 DEF G!SelectString
    <3>2. /\ Append(texts, Head(strings)) \in Seq(Nat) /\ Tail(strings) \in Seq(Nat)
          /\ Append(texts, Head(strings)) \o Tail(strings) = texts \o strings
      BY <2>1, <3>1, HeadMoves
    <3> QED
      BY <3>1, <3>2, Zenon
  <2>3. CASE G!SelectInt
    BY <2>1, <2>3 DEF G!SelectInt
  <2> QED
    BY <2>2, <2>3
<1>5. GoTypes' /\ GoPlaces'
  BY <1>2, <1>3, <1>4 DEF GoInv, GoTypes, GoPlaces, G!Routines
<1>6. AtWork' = AtWork
  BY <1>2 DEF AtWork, G!Routines
<1>7. GoCounts' /\ GoCloses' /\ GoShares'
  BY <1>1, <1>2, <1>6 DEF GoInv, GoCounts, GoCloses, GoShares
<1>8. GoTexts'
  BY <1>2, <1>4 DEF GoInv, GoTexts
<1>9. GoAll' = GoAll
  BY <1>3 DEF GoAll
<1>10. GoGiven' = GoGiven
  BY <1>2, GivenStays DEF GoInv, GoTypes
<1>11. GoValues'
  BY <1>1, <1>2, <1>9, <1>10, ValuesStay DEF GoInv
<1> QED
  BY <1>5, <1>7, <1>8, <1>11 DEF GoInv

LEMMA PrintValueKeeps ==
  ASSUME GoInv, NEW r \in G!Routines, G!PrintValue(r)
  PROVE  GoInv'
<1> USE DEF G!PrintValue
<1>1. r \in Nat /\ GoTypes'
  BY WorkersAssumption DEF GoInv, GoTypes, G!Routines
<1>2. AtWork' = AtWork
  BY DEF AtWork, GoInv, GoTypes, G!Routines
<1>3. GoCounts' /\ GoCloses' /\ GoTexts'
  BY <1>2 DEF GoInv, GoTypes, GoCounts, GoCloses, GoTexts
<1>4. GoPlaces'
  BY DEF GoInv, GoTypes, GoPlaces, G!Routines
<1>5. GoShares'
  BY DEF GoShares
<1>6. GoAll' = Append(GoAll, r)
  <2>1. GoAll = printed /\ GoAll' = Append(printed, r)
    BY <1>1 DEF GoInv, GoTypes, GoValues, GoAll
  <2> QED
    BY <2>1
<1>7. r \notin GoGiven /\ GoGiven' = GoGiven \cup {r}
  BY DEF GoGiven, GoInv, GoTypes, G!Routines
<1>8. GoValues'
  BY <1>1, <1>6, <1>7, ValuesGrow DEF GoInv, GoValues
<1> QED
  BY <1>1, <1>3, <1>4, <1>5, <1>8 DEF GoInv

LEMMA DoneKeeps ==
  ASSUME GoInv, NEW r \in G!Routines, G!Done(r)
  PROVE  GoInv'
<1> USE DEF G!Done
<1>1. GoTypes'
  <2>1. wg' = wg - 1
    OBVIOUS
  <2> QED
    BY DEF GoInv, GoTypes, G!Routines
<1>2. GoCounts'
  <2>1. r \in AtWork /\ AtWork' = AtWork \ {r}
    BY DEF AtWork, GoInv, GoTypes, G!Routines
  <2>2. Cardinality(AtWork') = Cardinality(AtWork) - 1
    BY <2>1, WorkIsFinite, FS_RemoveElement
  <2> QED
    BY <2>2, WorkIsFinite DEF GoInv, GoCounts
<1>3. GoPlaces'
  BY DEF GoInv, GoPlaces, GoTypes, G!Routines
<1>4. GoCloses' /\ GoTexts'
  BY DEF GoInv, GoCloses, GoTexts, GoTypes, G!Routines
<1>5. GoShares'
  BY BoundsStay DEF GoInv, GoShares, GoTypes, G!Routines
<1>6. GoAll' = GoAll
  BY DEF GoAll
<1>7. GoGiven' = GoGiven
  BY GivenStays DEF GoInv, GoTypes
<1>8. GoValues'
  BY <1>6, <1>7, ValuesStay DEF GoInv, GoValues
<1> QED
  BY <1>1, <1>2, <1>3, <1>4, <1>5, <1>8 DEF GoInv

LEMMA FinishKeeps ==
  ASSUME GoInv, NEW r \in G!Routines, G!Finish(r)
  PROVE  GoInv'
<1>1. /\ func \in {5, 6} /\ routine[r] = "run" /\ at[r] = G!Beyond(r)
      /\ routine' = [routine EXCEPT ![r] = "return"]
      /\ UNCHANGED <<func, main, wg, consumeWg, at, printer, channel, strings, printed,
                     texts, panicked>>
  BY DEF G!Finish
<1>2. chanClosed' <=> (chanClosed \/ func = 5)
  BY Zenon DEF G!Finish
<1>3. GoTypes' /\ GoPlaces'
  BY <1>1 DEF GoInv, GoTypes, GoPlaces, G!Routines
<1>4. AtWork' = AtWork
  BY <1>1 DEF AtWork, GoInv, GoTypes, G!Routines
<1>5. GoCounts' /\ GoTexts'
  BY <1>1, <1>4 DEF GoInv, GoCounts, GoTexts
<1>6. func = 5 => r = 1
  BY <1>1 DEF GoInv, GoPlaces
<1>7. GoCloses'
  BY <1>1, <1>2, <1>6 DEF GoInv, GoTypes, GoCloses, G!Routines
<1>8. GoShares'
  BY <1>1, BoundsStay DEF GoInv, GoShares, GoTypes, G!Routines
<1>9. GoAll' = GoAll
  BY <1>1 DEF GoAll
<1>10. GoGiven' = GoGiven
  BY <1>1, GivenStays DEF GoInv, GoTypes
<1>11. GoValues'
  BY <1>1, <1>9, <1>10, ValuesStay DEF GoInv, GoValues
<1> QED
  BY <1>3, <1>5, <1>7, <1>8, <1>11 DEF GoInv

LEMMA ReceiveKeeps ==
  ASSUME GoInv, G!Receive
  PROVE  GoInv'
<1>1. /\ printer = "run" /\ channel # <<>>
      /\ printed' = Append(printed, Head(channel)) /\ channel' = Tail(channel)
      /\ UNCHANGED <<func, main, wg, consumeWg, routine, at, printer, strings, chanClosed,
                     texts, panicked>>
  BY DEF G!Receive
<1>2. channel \in Seq(Nat) /\ printed \in Seq(Nat) /\ func \in {5, 6}
  BY <1>1 DEF GoInv, GoTypes, GoPlaces
<1>3. /\ channel' \in Seq(Nat) /\ printed' \in Seq(Nat)
      /\ printed' \o channel' = printed \o channel
  BY ONLY <1>1, <1>2, HeadMoves, SMTT(30)
<1>4. GoTypes' /\ GoPlaces'
  BY <1>1, <1>3 DEF GoInv, GoTypes, GoPlaces, G!Routines
<1>5. AtWork' = AtWork
  BY <1>1 DEF AtWork, G!Routines
<1>6. GoCounts' /\ GoTexts'
  BY <1>1, <1>5 DEF GoInv, GoCounts, GoTexts
<1>7. GoCloses'
  BY <1>1, <1>2 DEF GoInv, GoCloses
<1>8. GoShares'
  BY <1>1, BoundsStay DEF GoInv, GoShares, G!Routines
<1>9. GoAll' = GoAll
  BY <1>3 DEF GoAll
<1>10. GoGiven' = GoGiven
  BY <1>1, GivenStays DEF GoInv, GoTypes
<1>11. GoValues'
  BY <1>1, <1>2, <1>9, <1>10, ValuesStay DEF GoInv
<1> QED
  BY <1>4, <1>6, <1>7, <1>8, <1>11 DEF GoInv

LEMMA EndOfRangeKeeps ==
  ASSUME GoInv, G!EndOfRange
  PROVE  GoInv'
<1>1. /\ printer = "run" /\ printer' = "done"
      /\ UNCHANGED <<func, main, routine, at, channel, strings, chanClosed, printed, texts,
                     panicked>>
      /\ func = 5 => Len(printed) = Numbers /\ wg' = wg - 1 /\ consumeWg' = consumeWg
      /\ func # 5 => chanClosed /\ channel = <<>> /\ consumeWg' = consumeWg - 1 /\ wg' = wg
  BY DEF G!EndOfRange
<1>2. func \in {5, 6}
  BY <1>1 DEF GoInv, GoTypes, GoPlaces
<1>3. GoTypes' /\ GoPlaces'
  BY <1>1 DEF GoInv, GoTypes, GoPlaces, G!Routines
<1>4. AtWork' = AtWork
  BY <1>1 DEF AtWork, G!Routines
<1>5. GoCounts'
  BY <1>1, <1>2, <1>4, WorkIsFinite DEF GoInv, GoCounts
<1>6. GoTexts' /\ GoCloses'
  BY <1>1, <1>2 DEF GoInv, GoCloses, GoTexts
<1>7. GoShares'
  BY <1>1, BoundsStay DEF GoInv, GoShares, G!Routines
<1>8. GoAll' = GoAll
  BY <1>1 DEF GoAll
<1>9. GoGiven' = GoGiven
  BY <1>1, GivenStays DEF GoInv, GoTypes
<1>10. GoValues'
  BY <1>1, <1>2, <1>8, <1>9, ValuesStay DEF GoInv
<1> QED
  BY <1>3, <1>5, <1>6, <1>7, <1>10 DEF GoInv

\* Sending or skipping a number brings a goroutine one further in its share.
LEMMA AdvanceKeeps ==
  ASSUME GoInv, NEW r \in G!Routines, func \in {5, 6}, routine[r] = "run",
         at[r] < G!Beyond(r), at' = [at EXCEPT ![r] = @ + 1],
         channel' \in Seq(Nat), func = 6 /\ printer = "done" => channel' = channel, ~panicked',
         UNCHANGED <<func, main, wg, consumeWg, routine, printer, strings, chanClosed,
                     printed, texts>>
  PROVE  GoTypes' /\ GoCounts' /\ GoPlaces' /\ GoCloses' /\ GoShares' /\ GoTexts'
<1>1. at[r] \in Nat /\ at[r] + 1 \in Nat /\ G!Beyond(r) \in Nat
  BY BoundsAreNat DEF GoInv, GoTypes
<1>2. GoTypes'
  BY <1>1 DEF GoInv, GoTypes, G!Routines
<1>3. AtWork' = AtWork
  BY DEF AtWork, G!Routines
<1>4. GoCounts' /\ GoTexts'
  BY <1>3 DEF GoInv, GoCounts, GoTexts
<1>5. GoPlaces' /\ GoCloses'
  BY DEF GoInv, GoPlaces, GoCloses, G!Routines
<1>6. GoShares'
  <2> SUFFICES ASSUME NEW q \in G!Routines
               PROVE  /\ G!First(q) <= at'[q] /\ at'[q] <= G!Beyond(q)
                      /\ routine[q] \in {"return", "done"} => at'[q] = G!Beyond(q)
    BY BoundsStay DEF GoShares, G!Routines
  <2>1. /\ G!First(q) <= at[q] /\ at[q] <= G!Beyond(q)
        /\ routine[q] \in {"return", "done"} => at[q] = G!Beyond(q)
    BY DEF GoInv, GoShares
  <2>2. CASE q = r
    <3>1. at'[q] = at[r] + 1
      BY <2>2 DEF GoInv, GoTypes
    <3>2. G!First(r) \in Nat
      BY BoundsAreNat
    <3> QED
      BY <1>1, <2>1, <2>2, <3>1, <3>2
  <2>3. CASE q # r
    BY <2>1, <2>3 DEF GoInv, GoTypes
  <2> QED
    BY <2>2, <2>3
<1> QED
  BY <1>2, <1>4, <1>5, <1>6

\* How the numbers that have been sent change with them, in func6.
LEMMA GivenAdvances ==
  ASSUME GoInv, NEW r \in G!Routines, func = 6, func' = func,
         at' = [at EXCEPT ![r] = @ + 1], at[r] < G!Beyond(r)
  PROVE  /\ at[r] \in Nat /\ at[r] \in G!First(r) .. G!Beyond(r) - 1
         /\ at[r] \notin GoGiven
         /\ GoGiven' = IF G!isPrime(at[r]) THEN GoGiven \cup {at[r]} ELSE GoGiven
<1>1. at \in [G!Routines -> Nat] /\ at[r] \in Nat
  BY DEF GoInv, GoTypes
<1>2. \A q \in G!Routines : G!First(q) \in Nat /\ G!Beyond(q) \in Nat
  BY BoundsAreNat
<1>3. \A q \in G!Routines : G!First(q) <= at[q] /\ at[q] <= G!Beyond(q)
  BY DEF GoInv, GoShares
<1>4. at[r] \in G!First(r) .. G!Beyond(r) - 1
  BY <1>1, <1>2, <1>3
<1>5. GoGiven = {n \in Nat : G!isPrime(n) /\ \E q \in G!Routines : G!First(q) <= n /\ n < at[q]}
  BY DEF GoGiven
<1>6. at[r] \notin GoGiven
  <2> SUFFICES ASSUME NEW q \in G!Routines, G!First(q) <= at[r], at[r] < at[q] PROVE FALSE
    BY <1>5
  <2>1. at[r] \in G!First(q) .. G!Beyond(q) - 1
    BY <1>1, <1>2, <1>3
  <2>2. r = q
    BY <1>1, <1>4, <2>1, SharesApart
  <2> QED
    BY <1>1, <2>2
<1>7. \A n : G!isPrime(n)' <=> G!isPrime(n)
  BY DEF G!isPrime
<1>8. GoGiven' = {n \in Nat : G!isPrime(n) /\ \E q \in G!Routines : G!First(q) <= n /\ n < at'[q]}
  <2>1. \A q : G!First(q)' = G!First(q)
    BY BoundsStay
  <2>2. G!Routines' = G!Routines
    BY DEF G!Routines
  <2> QED
    BY <1>7, <2>1, <2>2 DEF GoGiven
<1>9. ASSUME NEW n \in Nat
      PROVE  (\E q \in G!Routines : G!First(q) <= n /\ n < at'[q])
               <=> n = at[r] \/ \E q \in G!Routines : G!First(q) <= n /\ n < at[q]
  <2>1. \A q \in G!Routines : at'[q] = IF q = r THEN at[r] + 1 ELSE at[q]
    BY <1>1
  <2>2. n < at[r] + 1 <=> n < at[r] \/ n = at[r]
    BY <1>1
  <2> QED
    BY <1>2, <1>3, <2>1, <2>2
<1>10. GoGiven' = IF G!isPrime(at[r]) THEN GoGiven \cup {at[r]} ELSE GoGiven
  <2> DEFINE Sent(n) == \E q \in G!Routines : G!First(q) <= n /\ n < at[q]
             SentThen(n) == \E q \in G!Routines : G!First(q) <= n /\ n < at'[q]
  <2>1. \A n \in Nat : SentThen(n) <=> n = at[r] \/ Sent(n)
    BY <1>9
  <2>2. /\ GoGiven = {n \in Nat : G!isPrime(n) /\ Sent(n)}
        /\ GoGiven' = {n \in Nat : G!isPrime(n) /\ SentThen(n)}
    BY <1>5, <1>8
  <2> HIDE DEF Sent, SentThen
  <2> QED
    BY <1>1, <2>1, <2>2
<1> QED
  BY <1>1, <1>4, <1>6, <1>10

LEMMA SkipKeeps ==
  ASSUME GoInv, NEW r \in G!Routines, G!Skip(r)
  PROVE  GoInv'
<1>1. /\ func = 6 /\ routine[r] = "run" /\ at[r] < G!Beyond(r) /\ ~G!isPrime(at[r])
      /\ at' = [at EXCEPT ![r] = @ + 1]
      /\ UNCHANGED <<func, main, wg, consumeWg, routine, printer, channel, strings,
                     chanClosed, printed, texts, panicked>>
  BY DEF G!Skip
<1>2. channel' \in Seq(Nat) /\ ~panicked'
  BY <1>1 DEF GoInv, GoTypes, GoCloses
<1>3. GoTypes' /\ GoCounts' /\ GoPlaces' /\ GoCloses' /\ GoShares' /\ GoTexts'
  BY <1>1, <1>2, AdvanceKeeps
<1>4. GoAll' = GoAll
  BY <1>1 DEF GoAll
<1>5. GoGiven' = GoGiven
  BY <1>1, GivenAdvances
<1>6. GoValues'
  BY <1>1, <1>4, <1>5, ValuesStay DEF GoInv
<1> QED
  BY <1>3, <1>6 DEF GoInv

LEMMA SendKeeps ==
  ASSUME GoInv, NEW r \in G!Routines, G!Send(r)
  PROVE  GoInv'
<1>1. /\ func \in {5, 6} /\ routine[r] = "run" /\ at[r] < G!Beyond(r)
      /\ func = 6 => G!isPrime(at[r])
      /\ channel' = Append(channel, at[r]) /\ at' = [at EXCEPT ![r] = @ + 1]
      /\ UNCHANGED <<func, main, wg, consumeWg, routine, printer, strings, chanClosed,
                     printed, texts>>
  BY DEF G!Send
<1>2. panicked' <=> chanClosed
  BY Zenon DEF G!Send
<1>3. func = 5 => r = 1
  BY <1>1 DEF GoInv, GoPlaces
<1>4. ~chanClosed /\ ~panicked
  BY <1>1, <1>3 DEF GoInv, GoPlaces, GoCloses
<1>5. /\ channel \in Seq(Nat) /\ printed \in Seq(Nat)
      /\ at \in [G!Routines -> Nat] /\ at[r] \in Nat
  BY DEF GoInv, GoTypes
<1>6. /\ channel' \in Seq(Nat)
      /\ printed \o Append(channel, at[r]) = Append(printed \o channel, at[r])
  BY <1>1, <1>5, AppendsLast
<1>7. ~panicked' /\ ~(func = 6 /\ printer = "done")
  BY <1>2, <1>4 DEF GoInv, GoCloses
<1>8. GoTypes' /\ GoCounts' /\ GoPlaces' /\ GoCloses' /\ GoShares' /\ GoTexts'
  BY <1>1, <1>6, <1>7, AdvanceKeeps
<1>9. GoAll' = Append(GoAll, at[r])
  BY <1>1, <1>6 DEF GoAll
<1>10. CASE func = 6
  <2>1. /\ at[r] \notin GoGiven /\ GoGiven' = GoGiven \cup {at[r]}
        /\ at[r] \in G!First(r) .. G!Beyond(r) - 1
    BY <1>1, <1>10, GivenAdvances
  <2>2. ASSUME NEW q \in G!Routines, at[r] \in G!First(q) .. G!Beyond(q) - 1,
               NEW n \in GoGiven \cap (G!First(q) .. G!Beyond(q) - 1)
        PROVE  n < at[r]
    <3>1. q = r
      BY <1>5, <1>10, <2>1, <2>2, SharesApart
    <3>2. n \in Nat /\ \E p \in G!Routines : G!First(p) <= n /\ n < at[p]
      BY <1>10 DEF GoGiven
    <3>3. PICK p \in G!Routines : G!First(p) <= n /\ n < at[p]
      BY <3>2
    <3>4. at[p] <= G!Beyond(p) /\ at[p] \in Nat /\ G!Beyond(p) \in Nat /\ G!First(p) \in Nat
      BY <1>10, BoundsAreNat DEF GoInv, GoTypes, GoShares
    <3>5. n \in G!First(p) .. G!Beyond(p) - 1
      BY <3>2, <3>3, <3>4
    <3>6. p = q
      BY <1>10, <2>2, <3>2, <3>5, SharesApart
    <3> QED
      BY <3>1, <3>3, <3>6
  <2>3. func' = func /\ GoTypes /\ GoValues
    BY <1>1 DEF GoInv
  <2>4. \A q \in G!Routines : at[r] \in G!First(q) .. G!Beyond(q) - 1
          => \A n \in GoGiven \cap (G!First(q) .. G!Beyond(q) - 1) : n < at[r]
    BY <2>2
  <2>5. (func = 2 => channel' = <<>>) /\ func # 8 /\ func # 5
    BY <1>10
  <2>6. GoValues'
    BY ONLY <1>5, <1>9, <1>10, <2>1, <2>3, <2>4, <2>5, ValuesGrow
  <2> QED
    BY <1>8, <2>6 DEF GoInv
<1>11. CASE func = 5
  <2>1. r = 1 /\ GoGiven = 0 .. at[1] - 1 /\ at'[1] = at[1] + 1 /\ func' = 5
    BY <1>1, <1>3, <1>5, <1>11 DEF GoGiven
  <2>2. GoGiven' = 0 .. at'[1] - 1
    BY <2>1 DEF GoGiven
  <2>3. GoGiven' = GoGiven \cup {at[r]} /\ at[r] \notin GoGiven /\ \A n \in GoGiven : n < at[r]
    BY <1>5, <2>1, <2>2
  <2>4. func' = func /\ GoTypes /\ GoValues
    BY <1>1 DEF GoInv
  <2>5. GoValues'
    <3>1. at[r] \in Nat /\ GoAll' = Append(GoAll, at[r]) /\ func = 5
      BY <1>5, <1>9, <1>11
    <3>2. func # 8 /\ func # 2 /\ func # 6
      BY <1>11
    <3> QED
      BY ONLY <2>3, <2>4, <3>1, <3>2, ValuesGrow, ZenonT(30)
  <2> QED
    BY <1>8, <2>5 DEF GoInv
<1> QED
  BY <1>1, <1>10, <1>11

LEMMA GoStepInv == GoInv /\ [G!GoNext]_goVars => GoInv'
<1> SUFFICES ASSUME GoInv, [G!GoNext]_goVars PROVE GoInv'
  OBVIOUS
<1>1. CASE UNCHANGED goVars
  <2> USE <1>1 DEF goVars
  <2>1. GoTypes' /\ GoPlaces' /\ GoCloses' /\ GoTexts'
    BY DEF GoInv, GoTypes, GoPlaces, GoCloses, GoTexts, G!Routines
  <2>2. AtWork' = AtWork /\ GoAll' = GoAll
    BY DEF AtWork, GoAll, G!Routines
  <2>3. GoCounts'
    BY <2>2 DEF GoInv, GoCounts
  <2>4. GoShares'
    BY BoundsStay DEF GoInv, GoShares, G!Routines
  <2>5. GoGiven' = GoGiven
    BY GivenStays DEF GoInv, GoTypes
  <2>6. GoValues'
    BY <2>2, <2>5, ValuesStay DEF GoInv, GoValues
  <2> QED
    BY <2>1, <2>3, <2>4, <2>6 DEF GoInv
<1>2. CASE G!Main
  BY <1>2, LaunchKeeps, LaunchedKeeps, WaitKeeps, SelectKeeps DEF G!Main
<1>3. CASE G!Printer
  BY <1>3, ReceiveKeeps, EndOfRangeKeeps DEF G!Printer
<1>4. ASSUME NEW r \in G!Routines, G!Routine(r)
      PROVE  GoInv'
  BY <1>4, PrintValueKeeps, SendKeeps, SkipKeeps, FinishKeeps, DoneKeeps DEF G!Routine
<1> QED
  BY <1>1, <1>2, <1>3, <1>4 DEF G!GoNext

LEMMA GoSetsAreSizes == \A S : G!Cardinality(S) = Cardinality(S)
BY DEF G!Cardinality, Cardinality

\* When main is done, every value of the program has been sent and printed.
LEMMA GoShows == GoInv => G!EndPrintsAll
<1> SUFFICES ASSUME GoInv PROVE G!EndPrintsAll
  OBVIOUS
<1>1. /\ printed \in Seq(Nat) /\ channel \in Seq(Nat) /\ GoAll = printed \o channel
      /\ texts \in Seq(Nat) /\ strings \in Seq(Nat)
      /\ Numbers \in Nat /\ Numbers \div 2 \in Nat
  BY WorkersAssumption DEF GoInv, GoTypes, GoAll
<1>2. /\ GoAll \in Seq(Nat) /\ Len(GoAll) = Len(printed) + Len(channel)
      /\ \A i \in 1 .. Len(printed) : i \in 1 .. Len(GoAll) /\ GoAll[i] = printed[i]
  <2>1. GoAll \in Seq(Nat) /\ Len(GoAll) = Len(printed) + Len(channel)
    BY <1>1, ConcatProperties
  <2>2. Len(printed) \in Nat /\ Len(channel) \in Nat
    BY <1>1
  <2> QED
    BY <1>1, <2>1, <2>2, ConcatProperties
<1>3. ASSUME NEW Q, G!InRising(GoAll, Q) PROVE G!InRising(printed, Q)
  BY <1>2, <1>3 DEF G!InRising
<1>4. func \in {5, 8} => G!InRising(printed, Nat)
  BY <1>3 DEF GoInv, GoValues
<1>5. func = 6 => \A r \in G!Routines : G!InRising(printed, G!First(r) .. G!Beyond(r) - 1)
  BY <1>3 DEF GoInv, GoValues
<1>6. G!InRising(texts, Nat)
  <2>1. CASE func = 8
    <3>1. texts \o strings = [i \in 1 .. Numbers \div 2 |-> i - 1]
      BY <2>1 DEF GoInv, GoTexts
    <3>2. \A i \in 1 .. Len(texts) : i \in 1 .. Len(texts \o strings) /\ (texts \o strings)[i] = texts[i]
      <4>1. Len(texts \o strings) = Len(texts) + Len(strings)
        BY <1>1, ConcatProperties
      <4>2. Len(texts) \in Nat /\ Len(strings) \in Nat
        BY <1>1
      <4> QED
        BY <1>1, <4>1, <4>2, ConcatProperties
    <3>3. Len(texts \o strings) = Numbers \div 2
      BY <1>1, <3>1
    <3>4. \A i \in 1 .. Len(texts) : texts[i] = i - 1
      BY <3>1, <3>2, <3>3
    <3>5. Len(texts) \in Nat
      BY <1>1
    <3> QED
      BY <3>4, <3>5 DEF G!InRising
  <2>2. CASE func # 8
    <3>1. texts = <<>>
      <4>1. texts \o strings = <<>>
        BY <2>2 DEF GoInv, GoTexts
      <4>2. Len(texts \o strings) = Len(texts) + Len(strings) /\ Len(texts \o strings) = 0
        BY <1>1, <4>1, ConcatProperties
      <4>3. Len(texts) \in Nat /\ Len(strings) \in Nat
        BY <1>1
      <4>4. Len(texts) = 0
        BY <4>2, <4>3
      <4> QED
        BY <1>1, <4>4
    <3> QED
      BY <3>1 DEF G!InRising
  <2> QED
    BY <2>1, <2>2
<1>7. ASSUME main = "done"
      PROVE  /\ {printed[i] : i \in 1 .. Len(printed)} = G!Values
             /\ Len(printed) = Cardinality(G!Values)
  <2>1. \A r \in G!Routines : routine[r] \in {"none", "done"}
    BY <1>7 DEF GoInv, GoPlaces
  <2>2. /\ \A i \in 1 .. Len(GoAll) : GoAll[i] \in GoGiven
        /\ \A n \in GoGiven : \E i \in 1 .. Len(GoAll) : GoAll[i] = n
        /\ \A i, j \in 1 .. Len(GoAll) : GoAll[i] = GoAll[j] => i = j
    BY DEF GoInv, GoValues
  <2>3. Cardinality(GoGiven) = Len(GoAll)
    BY <1>2, <2>2, OnceEach
  <2>4. channel = <<>> /\ GoGiven = G!Values
    <3>1. CASE func = 2
      <4>1. \A r \in G!Routines : routine[r] = "done"
        BY <1>7, <2>1, <3>1 DEF GoInv, GoPlaces
      <4> QED
        BY <3>1, <4>1 DEF GoInv, GoValues, GoGiven, G!Values
    <3>2. CASE func = 5
      <4>1. 1 \in G!Routines
        BY WorkersAssumption DEF G!Routines
      <4>2. routine[1] = "done" /\ printer = "done" /\ Len(printed) = Numbers
        BY <1>7, <2>1, <3>2, <4>1 DEF GoInv, GoPlaces, GoCloses
      <4>3. at[1] = Numbers
        BY <3>2, <4>1, <4>2 DEF GoInv, GoShares, G!Beyond
      <4>4. GoGiven = 0 .. Numbers - 1 /\ G!Values = 0 .. Numbers - 1
        BY <3>2, <4>3 DEF GoGiven, G!Values
      <4>5. Cardinality(GoGiven) = Numbers
        <5>1. 0 \in Int /\ Numbers - 1 \in Int
          BY <1>1
        <5>2. Cardinality(0 .. Numbers - 1)
                = IF 0 > Numbers - 1 THEN 0 ELSE (Numbers - 1) - 0 + 1
          BY <5>1, FS_Interval, Zenon
        <5> QED
          BY <1>1, <4>4, <5>2
      <4>6. Len(channel) = 0
        BY <1>1, <1>2, <2>3, <4>2, <4>5
      <4> QED
        BY <1>1, <4>4, <4>6
    <3>3. CASE func = 6
      <4>1. channel = <<>> /\ \A r \in G!Routines : routine[r] = "done"
        BY <1>7, <2>1, <3>3 DEF GoInv, GoPlaces, GoCloses
      <4>2. \A r \in G!Routines : at[r] = G!Beyond(r)
        BY <3>3, <4>1 DEF GoInv, GoShares
      <4>3. GoGiven = {n \in Nat : G!isPrime(n)
                                     /\ \E r \in G!Routines : G!First(r) <= n /\ n < G!Beyond(r)}
        BY <3>3, <4>2 DEF GoGiven
      <4>4. \A n \in Nat : (\E r \in G!Routines : G!First(r) <= n /\ n < G!Beyond(r))
                             <=> n < CPUs * G!eachCount
        BY <3>3, SharesCover
      <4>5. CPUs * G!eachCount \in Nat
        BY EachIsNat, WorkersAssumption
      <4>6. GoGiven = {n \in Nat : G!isPrime(n) /\ n < CPUs * G!eachCount}
        BY <4>3, <4>4
      <4>7. \A n : n \in 0 .. CPUs * G!eachCount - 1 <=> n \in Nat /\ n < CPUs * G!eachCount
        BY <4>5
      <4>8. G!Values = {n \in 0 .. CPUs * G!eachCount - 1 : G!isPrime(n)}
        BY <3>3 DEF G!Values
      <4> QED
        BY <4>1, <4>6, <4>7, <4>8
    <3>4. CASE func = 8
      BY <1>7, <3>4 DEF GoInv, GoCloses, GoGiven, G!Values
    <3> QED
      BY <3>1, <3>2, <3>3, <3>4 DEF GoInv, GoTypes
  <2>5. GoAll = printed
    BY <1>1, <2>4
  <2> QED
    BY <2>2, <2>3, <2>4, <2>5
<1>8. main = "done" /\ func = 8 => Len(texts) = Numbers \div 2
  <2> SUFFICES ASSUME main = "done", func = 8 PROVE Len(texts) = Numbers \div 2
    OBVIOUS
  <2>1. texts \o strings = [i \in 1 .. Numbers \div 2 |-> i - 1] /\ strings = <<>>
    BY DEF GoInv, GoCloses, GoTexts
  <2>2. texts = [i \in 1 .. Numbers \div 2 |-> i - 1]
    BY <1>1, <2>1
  <2> QED
    BY <1>1, <2>2
<1>9. ~panicked
  BY DEF GoInv, GoCloses
<1> QED
  BY <1>4, <1>5, <1>6, <1>7, <1>8, <1>9, GoSetsAreSizes DEF G!EndPrintsAll

-----------------------------------------------------------------------------
(* The programs with channels.                                             *)

\* What is stored has been taken or is still there; the channel is closed when all
\* has been sent, and its end is told when it is closed and empty.
CpInv ==
  /\ example \in P!Examples
  /\ toBuffer \in Seq(P!To!Payloads) /\ toStored \in Seq(P!To!Payloads)
  /\ toTaken \in Seq(P!To!Payloads)
  /\ Len(toStored) = Len(toTaken) + Len(toBuffer) /\ Len(toStored) <= P!HowMany
  /\ toSender \in [{"sender"} -> {"idle", "waiting", "woken", "notify"}]
  /\ toReceiver \in [{"receiver"} -> {"idle", "waiting", "woken", "notify", "ended"}]
  /\ toCloser # "open" => P!SentAll
  /\ toReceiver["receiver"] = "ended" => toCloser # "open" /\ toBuffer = <<>>

LEMMA CpInitInv == P!CpInit => CpInv
<1> SUFFICES ASSUME P!CpInit PROVE CpInv
  OBVIOUS
<1>1. /\ example \in P!Examples /\ toBuffer = <<>> /\ toStored = <<>> /\ toTaken = <<>>
      /\ toCloser = "open" /\ toSender = [t \in {"sender"} |-> "idle"]
      /\ toReceiver = [t \in {"receiver"} |-> "idle"]
  BY DEF P!CpInit, P!To!ChInit
<1>2. <<>> \in Seq(P!To!Payloads) /\ Len(<<>>) = 0 /\ 0 <= P!HowMany
  BY EmptySeq, WorkersAssumption DEF P!HowMany
<1> QED
  BY <1>1, <1>2 DEF CpInv

LEMMA SentCounts ==
  ASSUME CpInv, P!To!Sent("sender") < Volleys
  PROVE  <<"sender", P!To!Sent("sender") + 1>> \in P!To!Payloads
<1>1. Len(toStored) \in Nat
  BY LenProperties DEF CpInv
<1> DEFINE T == {i \in 1 .. Len(toStored) : toStored[i][1] = "sender"}
<1>2. IsFiniteSet(1 .. Len(toStored)) /\ T \subseteq 1 .. Len(toStored)
  BY <1>1, FS_Interval
<1>3. Cardinality(T) \in Nat
  BY <1>2, FS_Subset, FS_CardinalityType
<1>4. P!To!Sent("sender") \in Nat
  <2>1. \A S : P!To!Cardinality(S) = Cardinality(S)
    BY DEF P!To!Cardinality, Cardinality
  <2>2. P!To!Sent("sender") = P!To!Cardinality(T)
    BY DEF P!To!Sent
  <2> QED
    BY <1>3, <2>1, <2>2
<1>5. P!To!Sent("sender") + 1 \in 1 .. Volleys
  BY <1>4, WorkersAssumption
<1> QED
  BY <1>5 DEF P!To!Payloads

\* The first thread sends.
LEMMA CpSends ==
  ASSUME CpInv, P!Sends, UNCHANGED example
  PROVE  CpInv'
<1>1. CASE P!To!NotifyReceiver("sender")
  <2>1. /\ toSender["sender"] = "notify" /\ toSender' = [toSender EXCEPT !["sender"] = "idle"]
        /\ toReceiver' \in P!To!OneWoken(toReceiver, {"receiver"})
        /\ UNCHANGED <<toBuffer, toCloser, toStored, toTaken>>
    BY <1>1 DEF P!To!NotifyReceiver
  <2>2. \/ toReceiver' = toReceiver
        \/ toReceiver["receiver"] = "waiting" /\ toReceiver' = [toReceiver EXCEPT !["receiver"] = "woken"]
    BY <2>1 DEF P!To!OneWoken, P!To!In
  <2>3. toCloser = "open"
    BY <2>1 DEF CpInv, P!SentAll
  <2> QED
    BY <2>1, <2>2, <2>3 DEF CpInv, P!HowMany
<1>2. ASSUME Len(toStored) < P!HowMany, P!To!CspSend("sender") \/ P!To!BufferedSend("sender")
      PROVE  CpInv'
  <2>1. toCloser = "open" /\ ~P!To!Closed /\ toReceiver["receiver"] # "ended"
    BY <1>2, LenProperties DEF CpInv, P!SentAll, P!To!Closed
  <2>2. /\ P!To!WaitToSend("sender") \/ P!To!StoreValue("sender")
        /\ P!To!Sent("sender") < Volleys /\ UNCHANGED <<toCloser, toReceiver, toTaken>>
    BY <1>2, <2>1 DEF P!To!CspSend, P!To!BufferedSend, P!To!RefuseValue
  <2>3. CASE P!To!WaitToSend("sender")
    BY <2>1, <2>2, <2>3 DEF CpInv, P!To!WaitToSend, P!HowMany
  <2>4. CASE P!To!StoreValue("sender")
    <3> DEFINE v == <<"sender", P!To!Sent("sender") + 1>>
    <3>1. /\ toBuffer' = Append(toBuffer, v) /\ toStored' = Append(toStored, v)
          /\ toSender' = [toSender EXCEPT !["sender"] = "notify"]
      BY <2>4 DEF P!To!StoreValue
    <3>2. v \in P!To!Payloads
      BY <2>2, SentCounts
    <3> HIDE DEF v
    <3>3. /\ toBuffer' \in Seq(P!To!Payloads) /\ Len(toBuffer') = Len(toBuffer) + 1
          /\ toStored' \in Seq(P!To!Payloads) /\ Len(toStored') = Len(toStored) + 1
      BY <3>1, <3>2, AppendProperties DEF CpInv
    <3>4. Len(toBuffer) \in Nat /\ Len(toStored) \in Nat /\ Len(toTaken) \in Nat /\ P!HowMany \in Nat
      BY LenProperties, WorkersAssumption DEF CpInv, P!HowMany
    <3>5. /\ Len(toStored') = Len(toTaken) + Len(toBuffer')
          /\ Len(toStored') <= P!HowMany
      BY <1>2, <3>3, <3>4 DEF CpInv
    <3> QED
      BY <2>1, <2>2, <3>1, <3>3, <3>5 DEF CpInv, P!HowMany
  <2> QED
    BY <2>2, <2>3, <2>4
<1> QED
  BY <1>1, <1>2 DEF P!Sends

LEMMA CpStops ==
  ASSUME CpInv, P!Stops, UNCHANGED example
  PROVE  CpInv'
<1>1. /\ P!SentAll /\ toCloser' # "open" /\ UNCHANGED <<toBuffer, toStored, toTaken>>
      /\ toSender' = toSender \/ toSender' = P!To!AllWoken(toSender, {"sender"})
      /\ toReceiver' = toReceiver \/ toReceiver' = P!To!AllWoken(toReceiver, {"receiver"})
  BY DEF P!Stops, P!To!SetClosed, P!To!TellSenders, P!To!TellReceivers
<1>2. toSender' = toSender
  BY <1>1 DEF CpInv, P!SentAll, P!To!AllWoken
<1>3. /\ toReceiver' \in [{"receiver"} -> {"idle", "waiting", "woken", "notify", "ended"}]
      /\ toReceiver'["receiver"] = "ended" => toReceiver["receiver"] = "ended"
  BY <1>1 DEF CpInv, P!To!AllWoken
<1>4. P!SentAll'
  BY <1>1, <1>2 DEF P!SentAll, P!HowMany
<1> QED
  BY <1>1, <1>2, <1>3, <1>4 DEF CpInv, P!HowMany

\* The second thread receives.
LEMMA CpTakes ==
  ASSUME CpInv, P!Takes, UNCHANGED example
  PROVE  CpInv'
<1>1. CASE P!To!NotifySender("receiver")
  <2>1. /\ toReceiver["receiver"] = "notify" /\ toReceiver' = [toReceiver EXCEPT !["receiver"] = "idle"]
        /\ toSender' \in P!To!OneWoken(toSender, {"sender"})
        /\ UNCHANGED <<toBuffer, toCloser, toStored, toTaken>>
    BY <1>1 DEF P!To!NotifySender
  <2>2. \/ toSender' = toSender
        \/ toSender["sender"] = "waiting" /\ toSender' = [toSender EXCEPT !["sender"] = "woken"]
    BY <2>1 DEF P!To!OneWoken, P!To!In
  <2> QED
    BY <2>1, <2>2 DEF CpInv, P!HowMany, P!SentAll
<1>2. CASE P!To!Receive("receiver")
  <2>1. /\ toReceiver["receiver"] \in {"idle", "woken"}
        /\ UNCHANGED <<toCloser, toSender, toStored>>
    BY <1>2 DEF P!To!Receive
  <2>2. CASE toBuffer = <<>>
    <3>1. /\ toReceiver' = [toReceiver EXCEPT !["receiver"] = IF P!To!Closed THEN "ended" ELSE "waiting"]
          /\ UNCHANGED <<toBuffer, toTaken>>
      BY <1>2, <2>2 DEF P!To!Receive
    <3> QED
      BY <2>1, <2>2, <3>1 DEF CpInv, P!HowMany, P!SentAll, P!To!Closed
  <2>3. CASE toBuffer # <<>>
    <3>1. /\ toTaken' = Append(toTaken, Head(toBuffer)) /\ toBuffer' = Tail(toBuffer)
          /\ toReceiver' = [toReceiver EXCEPT !["receiver"] = "notify"]
      BY <1>2, <2>3 DEF P!To!Receive
    <3>2. /\ Head(toBuffer) \in P!To!Payloads /\ toBuffer' \in Seq(P!To!Payloads)
          /\ Len(toBuffer') = Len(toBuffer) - 1
      BY <2>3, <3>1, HeadTailProperties DEF CpInv
    <3>3. toTaken' \in Seq(P!To!Payloads) /\ Len(toTaken') = Len(toTaken) + 1
      BY <3>1, <3>2, AppendProperties DEF CpInv
    <3>4. Len(toBuffer) \in Nat /\ Len(toTaken) \in Nat /\ Len(toStored) = Len(toTaken) + Len(toBuffer)
      BY LenProperties DEF CpInv
    <3>5. Len(toStored) = Len(toTaken') + Len(toBuffer')
      BY <3>2, <3>3, <3>4
    <3> QED
      BY <2>1, <3>1, <3>2, <3>3, <3>5 DEF CpInv, P!HowMany, P!SentAll
  <2> QED
    BY <2>2, <2>3
<1> QED
  BY <1>1, <1>2 DEF P!Takes

LEMMA CpStepInv == CpInv /\ [P!CpNext]_cpVars => CpInv'
<1> SUFFICES ASSUME CpInv, [P!CpNext]_cpVars PROVE CpInv'
  OBVIOUS
<1>1. ASSUME UNCHANGED <<example, P!toVars>> PROVE CpInv'
  BY <1>1 DEF P!toVars, CpInv, P!HowMany, P!SentAll
<1>2. CASE P!To!SpuriousWake /\ UNCHANGED example
  <2>1. /\ UNCHANGED <<toBuffer, toCloser, toStored, toTaken>>
        /\ \/ /\ toSender["sender"] = "waiting" /\ toSender' = [toSender EXCEPT !["sender"] = "woken"]
              /\ UNCHANGED toReceiver
           \/ /\ toReceiver["receiver"] = "waiting"
              /\ toReceiver' = [toReceiver EXCEPT !["receiver"] = "woken"]
              /\ UNCHANGED toSender
    BY <1>2 DEF P!To!SpuriousWake, P!To!In
  <2> QED
    BY <1>2, <2>1 DEF CpInv, P!HowMany, P!SentAll
<1>3. \/ UNCHANGED <<example, P!toVars>>
      \/ (P!Sends \/ P!Stops \/ P!Takes \/ P!To!SpuriousWake) /\ UNCHANGED example
  BY DEF P!CpNext, P!Producer, P!Thr1, P!Consumer, P!Thr2, P!WakesSpuriously, cpVars, P!toVars
<1> QED
  BY <1>1, <1>2, <1>3, CpSends, CpStops, CpTakes

LEMMA CpShows == CpInv => P!EndHasAll
<1> SUFFICES ASSUME CpInv PROVE P!EndHasAll
  OBVIOUS
<1>1. toReceiver["receiver"] = "ended" => Len(toTaken) = P!HowMany
  <2> SUFFICES ASSUME toReceiver["receiver"] = "ended" PROVE Len(toTaken) = P!HowMany
    OBVIOUS
  <2>1. Len(toStored) = P!HowMany /\ toBuffer = <<>> /\ Len(toStored) = Len(toTaken) + Len(toBuffer)
    BY DEF CpInv, P!SentAll
  <2>2. Len(toBuffer) = 0 /\ Len(toTaken) \in Nat
    BY <2>1, EmptySeq, LenProperties DEF CpInv
  <2> QED
    BY <2>1, <2>2
<1> QED
  BY <1>1 DEF CpInv, P!EndHasAll

-----------------------------------------------------------------------------
(* All of them.                                                            *)

OrderInv == AcInv /\ GoInv /\ CpInv

\* A step of one program is none of the others.
LEMMA PartsStep ==
  [MCNext]_allVars => [AcNext]_acVars /\ [G!GoNext]_goVars /\ [P!CpNext]_cpVars
<1> SUFFICES ASSUME [MCNext]_allVars
             PROVE  [AcNext]_acVars /\ [G!GoNext]_goVars /\ [P!CpNext]_cpVars
  OBVIOUS
<1>1. CASE UNCHANGED allVars
  BY <1>1 DEF allVars
<1>2. CASE OfActor /\ AcNext
  BY <1>2 DEF OfActor
<1>3. CASE OfGo /\ G!GoNext
  BY <1>3 DEF OfGo
<1>4. CASE OfChannels /\ P!CpNext
  BY <1>4 DEF OfChannels
<1>5. CASE OfPool \/ OfSession \/ OfLibrary \/ OfMemory \/ OfTest
  BY <1>5 DEF OfPool, OfSession, OfLibrary, OfMemory, OfTest
<1> QED
  BY <1>1, <1>2, <1>3, <1>4, <1>5 DEF MCNext

\* The actor runs each message once and in its turn, also when it is stopped; the Go
\* programs print each value once, every one by their end and those of a sender in
\* its order, and send on no closed channel; and who is told the end of a channel has
\* got all that was sent (actor.cc, main.go, csp.cc and buffercsp.cc).
THEOREM WorkRunsInOrder == MCSpec => []RunsInOrder
<1>1. MCInit => OrderInv
  BY ActorInitInv, GoInitInv, CpInitInv DEF MCInit, OrderInv
<1>2. OrderInv /\ [MCNext]_allVars => OrderInv'
  BY PartsStep, ActorStepInv, GoStepInv, CpStepInv DEF OrderInv
<1>3. OrderInv => RunsInOrder
  BY GoShows, CpShows DEF OrderInv, AcInv, RunsInOrder
<1> QED
  BY <1>1, <1>2, <1>3, PTL DEF MCSpec
=============================================================================
