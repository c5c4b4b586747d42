-------------------------- MODULE ContainerProofs --------------------------
(***************************************************************************)
(* Proofs about the containers under locks and the rings, for any threads, *)
(* capacity, nodes and keys: the two ends of the list and of the rings are *)
(* kept apart, no consumer of the list or of the containers under one      *)
(* mutex is forgotten, no walk through the list of nodes with mutexes      *)
(* loses a node, the hash table is the map it says it is, the spin lock    *)
(* has one holder at a time; and of SuperQueue, that its slots are         *)
(* exclusively owned, that pop moves out the element of its ticket, that   *)
(* the destructor leaves nothing alive, and that it is a bounded           *)
(* first-in-first-out queue.                                               *)
(*                                                                         *)
(* LockQueueInList comes first, then the containers under one mutex, the   *)
(* rings before SuperQueue, the list, the table, the lock, the channels    *)
(* and SuperQueue.                                                         *)
(***************************************************************************)
EXTENDS MCQueues, FineLocking, Channels, FiniteSetTheorems, SequenceTheorems,
        NaturalsInduction, TLAPS

-----------------------------------------------------------------------------
(* LockQueueInList. *)

Filling == \E p \in Pushers : pusher[p] = "filled"
Moving == \E p \in Pushers : pusher[p] = "moved"
Unlinking == \E c \in Poppers : popper[c] = "unlinked"
One(condition) == IF condition THEN 1 ELSE 0

\* One thread at a time is inside each of the two mutexes.
OneInside ==
  /\ \A p, q \in Pushers : {pusher[p], pusher[q]} \subseteq {"filled", "moved"} => p = q
  /\ \A c, d \in Poppers : {popper[c], popper[d]} \subseteq {"take", "unlinked"} => c = d

States ==
  /\ pusher \in [Pushers -> {"idle", "filled", "moved", "notify"}]
  /\ popper \in [Poppers -> {"idle", "pop", "take", "unlinked", "wait", "asleep"}]

\* Nodes are linked in the order they were made; the tail is the last, or the
\* last but one while a producer has filled it and not moved on.
Shape ==
  /\ next \in Seq(Nat) /\ head \in Nat \ {0} /\ tail \in Nat
  /\ head <= tail
  /\ Len(next) = tail + One(Filling)
  /\ \A i \in 1 .. Len(next) : next[i] = IF i < Len(next) THEN i + 1 ELSE 0
  /\ freed = 1 .. head - 1
  /\ popped \in Seq(Nat) /\ Len(popped) = head - 1
  /\ \A i \in 1 .. Len(popped) : popped[i] = i

\* The size counts the filled nodes, but not the one whose producer has still
\* to count it, and still the one whose consumer has not counted it off.
Counted ==
  /\ size \in Nat
  /\ size + One(Moving) = (tail - head) + One(Unlinking)
  /\ One(Moving) <= tail - head
  /\ Taking # {} => size > 0

LqInv == States /\ OneInside /\ Shape /\ Counted

LEMMA LqInitInv == LqInit => LqInv
<1> SUFFICES ASSUME LqInit PROVE LqInv
  OBVIOUS
<1>1. States /\ OneInside /\ ~Filling /\ ~Moving /\ ~Unlinking /\ Taking = {}
  BY DEF LqInit, States, OneInside, Filling, Moving, Unlinking, Taking
<1>2. /\ next \in Seq(Nat) /\ Len(next) = 1 /\ next[1] = 0
      /\ popped \in Seq(Nat) /\ Len(popped) = 0
  BY EmptySeq DEF LqInit
<1> QED
  BY <1>1, <1>2 DEF LqInit, LqInv, Shape, Counted, One

\* A producer's step, and what it leaves to the consumers.
LEMMA PusherStep ==
  ASSUME LqInv, NEW p \in Pushers, Fill(p) \/ MoveTail(p) \/ CountPushed(p) \/ NotifyPopper(p)
  PROVE  LqInv'
<1> USE DEF LqInv
<1>1. CASE Fill(p)
  <2>1. /\ pusher[p] = "idle" /\ pusher' = [pusher EXCEPT ![p] = "filled"]
        /\ UNCHANGED <<head, tail, size, freed, popper, popped>>
        /\ next' = Append([next EXCEPT ![tail] = Len(next) + 1], 0)
    BY <1>1 DEF Fill, PushTo
  <2>2. ~Filling /\ ~Moving
    BY <1>1 DEF Fill, TailFree, Filling, Moving
  <2>3. Filling' /\ ~Moving' /\ Unlinking' = Unlinking /\ Taking' = Taking
    BY <2>1, <2>2 DEF States, Filling, Moving, Unlinking, Taking
  <2>4. States' /\ OneInside'
    BY <2>1, <2>2 DEF States, OneInside, Filling, Moving
  <2>5. /\ Len(next) = tail /\ Len(next) + 1 \in Nat /\ tail \in 1 .. Len(next)
    BY <2>2 DEF Shape, One
  <2> DEFINE filled == [next EXCEPT ![tail] = Len(next) + 1]
  <2>6. /\ filled \in Seq(Nat) /\ Len(filled) = Len(next)
        /\ \A i \in 1 .. Len(next) : filled[i] = IF i = tail THEN Len(next) + 1 ELSE next[i]
    BY <2>5, ExceptSeq DEF Shape
  <2>a. next' = Append(filled, 0)
    BY <2>1
  <2> HIDE DEF filled
  <2>7. /\ next' \in Seq(Nat) /\ Len(next') = Len(next) + 1
        /\ \A i \in 1 .. Len(next) : next'[i] = filled[i]
        /\ next'[Len(next) + 1] = 0
    BY <2>a, <2>6, AppendProperties
  <2>8. \A i \in 1 .. Len(next') : next'[i] = IF i < Len(next') THEN i + 1 ELSE 0
    <3> SUFFICES ASSUME NEW i \in 1 .. Len(next')
                 PROVE  next'[i] = IF i < Len(next') THEN i + 1 ELSE 0
      OBVIOUS
    <3>0. \A j \in 1 .. tail : next[j] = IF j < tail THEN j + 1 ELSE 0
      BY <2>5 DEF Shape
    <3>1. CASE i \in 1 .. tail /\ i = tail
      <4>1. filled[i] = tail + 1 /\ next'[i] = filled[i]
        BY <2>5, <2>6, <2>7, <3>1
      <4> QED
        BY <2>5, <2>7, <3>1, <4>1
    <3>2. CASE i \in 1 .. tail /\ i # tail
      <4>1. filled[i] = next[i] /\ next'[i] = filled[i]
        BY <2>5, <2>6, <2>7, <3>2
      <4>2. i \in Nat /\ tail \in Nat /\ i < tail
        BY <2>5, <3>2
      <4>3. next[i] = i + 1
        BY <3>0, <3>2, <4>2
      <4> QED
        BY <2>5, <2>7, <4>1, <4>2, <4>3
    <3>3. CASE i = tail + 1
      BY <2>5, <2>7, <3>3
    <3> QED
      BY <2>5, <2>7, <3>1, <3>2, <3>3
  <2>9. Shape'
    BY <2>1, <2>3, <2>5, <2>7, <2>8 DEF Shape, One
  <2>10. Counted'
    BY <2>1, <2>2, <2>3 DEF Counted, One
  <2> QED
    BY <2>4, <2>9, <2>10
<1>2. CASE MoveTail(p)
  <2>1. /\ pusher[p] = "filled" /\ pusher' = [pusher EXCEPT ![p] = "moved"]
        /\ UNCHANGED <<next, head, size, freed, popper, popped>>
        /\ tail' = next[tail]
    BY <1>2 DEF MoveTail, PushTo
  <2>2. Filling /\ ~Moving /\ ~Filling' /\ Moving'
    BY <2>1 DEF States, OneInside, Filling, Moving
  <2>3. States' /\ OneInside'
    BY <2>1 DEF States, OneInside
  <2>4. tail' = tail + 1
    BY <2>1, <2>2 DEF Shape, One
  <2>5. Unlinking' = Unlinking /\ Taking' = Taking
    BY <2>1 DEF Unlinking, Taking
  <2>6. Shape'
    BY <2>1, <2>2, <2>4 DEF Shape, One
  <2>7. Counted'
    BY <2>1, <2>2, <2>4, <2>5 DEF Counted, Shape, One
  <2> QED
    BY <2>3, <2>6, <2>7
<1>3. CASE CountPushed(p)
  <2>1. /\ pusher[p] = "moved" /\ pusher' = [pusher EXCEPT ![p] = "notify"]
        /\ UNCHANGED <<next, head, tail, freed, popper, popped>>
        /\ size' = size + 1
    BY <1>3 DEF CountPushed, PushTo
  <2>2. Moving /\ ~Filling /\ ~Filling' /\ ~Moving'
    BY <2>1 DEF States, OneInside, Filling, Moving
  <2>3. States' /\ OneInside'
    BY <2>1 DEF States, OneInside
  <2>4. Unlinking' = Unlinking /\ Taking' = Taking
    BY <2>1 DEF Unlinking, Taking
  <2>5. Shape'
    BY <2>1, <2>2 DEF Shape, One
  <2>6. Counted'
    BY <2>1, <2>2, <2>4 DEF Counted, Shape, One
  <2> QED
    BY <2>3, <2>5, <2>6
<1>4. CASE NotifyPopper(p)
  <2>1. /\ pusher[p] = "notify" /\ pusher' = [pusher EXCEPT ![p] = "idle"]
        /\ UNCHANGED <<next, head, tail, size, freed, popped>>
        /\ \/ popper' = popper
           \/ \E c \in Poppers :
                popper[c] = "asleep" /\ popper' = [popper EXCEPT ![c] = "wait"]
    BY <1>4 DEF NotifyPopper, PushTo
  <2>2. Filling' = Filling /\ Moving' = Moving
    BY <2>1 DEF States, Filling, Moving
  <2>3. Unlinking' = Unlinking /\ Taking' = Taking
    BY <2>1 DEF States, Unlinking, Taking
  <2>4. States' /\ OneInside'
    BY <2>1 DEF States, OneInside
  <2> QED
    BY <2>1, <2>2, <2>3, <2>4 DEF Shape, Counted
<1> QED
  BY <1>1, <1>2, <1>3, <1>4

\* A consumer that does not touch the list.
LEMMA WaitingStep ==
  ASSUME LqInv, NEW c \in Poppers, CallPop(c) \/ SeeNothing(c) \/ SizeWait(c)
  PROVE  LqInv'
<1> USE DEF LqInv
<1>1. /\ popper[c] \in {"idle", "pop", "wait"}
      /\ \E to \in {"pop", "wait", "asleep"} : popper' = [popper EXCEPT ![c] = to]
      /\ UNCHANGED <<next, head, tail, size, freed, pusher, popped>>
  BY DEF CallPop, SeeNothing, SizeWait, PopTo
<1>2. Unlinking' = Unlinking /\ Taking' = Taking
  BY <1>1 DEF States, Unlinking, Taking
<1>3. Filling' = Filling /\ Moving' = Moving
  BY <1>1 DEF Filling, Moving
<1>4. States' /\ OneInside'
  BY <1>1 DEF States, OneInside
<1> QED
  BY <1>1, <1>2, <1>3, <1>4 DEF Shape, Counted

\* A consumer with _head_mtx: an element it has seen cannot be the node a
\* producer fills, since that one is not counted yet.
LEMMA TakingStep ==
  ASSUME LqInv, NEW c \in Poppers, SeeElement(c) \/ UnlinkHead(c) \/ CountPopped(c)
  PROVE  LqInv'
<1> USE DEF LqInv
<1>1. CASE SeeElement(c)
  <2>1. /\ popper' = [popper EXCEPT ![c] = "take"] /\ size > 0
        /\ UNCHANGED <<next, head, tail, size, freed, pusher, popped>>
    BY <1>1 DEF SeeElement, PopTo
  <2>2. \A d \in Poppers : popper[d] \notin {"take", "unlinked"}
    BY <1>1 DEF SeeElement, HeadFree
  <2>3. ~Unlinking /\ ~Unlinking'
    BY <2>1, <2>2 DEF States, Unlinking
  <2>4. States' /\ OneInside'
    BY <2>1, <2>2 DEF States, OneInside
  <2>5. Filling' = Filling /\ Moving' = Moving
    BY <2>1 DEF Filling, Moving
  <2> QED
    BY <2>1, <2>3, <2>4, <2>5 DEF Shape, Counted, One
<1>2. CASE UnlinkHead(c)
  <2>1. /\ popper[c] = "take" /\ popper' = [popper EXCEPT ![c] = "unlinked"]
        /\ head' = next[head] /\ popped' = Append(popped, head)
        /\ freed' = freed \cup {head}
        /\ UNCHANGED <<next, tail, size, pusher>>
    BY <1>2 DEF UnlinkHead, PopTo
  <2>2. ~Unlinking /\ Unlinking' /\ Taking # {} /\ Taking' = {}
    BY <2>1 DEF States, OneInside, Unlinking, Taking
  <2>3. States' /\ OneInside'
    BY <2>1 DEF States, OneInside
  <2>4. Filling' = Filling /\ Moving' = Moving
    BY <2>1 DEF Filling, Moving
  <2>5. head + One(Moving) < tail
    BY <2>2 DEF Shape, Counted, One
  <2>6. head' = head + 1
    BY <2>1, <2>5 DEF Shape, One
  <2>7. /\ popped' \in Seq(Nat) /\ Len(popped') = head
        /\ \A i \in 1 .. Len(popped) : popped'[i] = popped[i]
        /\ popped'[Len(popped) + 1] = head
    BY <2>1, AppendProperties DEF Shape
  <2>8. freed' = 1 .. head
    BY <2>1 DEF Shape
  <2>a. head' \in Nat \ {0} /\ head' <= tail /\ head' - 1 = head
    BY <2>5, <2>6 DEF Shape, One
  <2>b. \A i \in 1 .. Len(popped') : popped'[i] = i
    <3> SUFFICES ASSUME NEW i \in 1 .. Len(popped') PROVE popped'[i] = i
      OBVIOUS
    <3>1. /\ Len(popped) = head - 1 /\ head \in Nat \ {0}
          /\ \A j \in 1 .. Len(popped) : popped[j] = j
      BY DEF Shape
    <3>2. CASE i = head
      BY <2>7, <3>1, <3>2
    <3>3. CASE i # head
      <4>1. i \in 1 .. Len(popped)
        BY <2>7, <3>1, <3>3
      <4> QED
        BY <2>7, <3>1, <4>1
    <3> QED
      BY <3>2, <3>3
  <2>c. freed' = 1 .. head' - 1 /\ Len(popped') = head' - 1
    BY <2>7, <2>8, <2>a
  <2>d. /\ next' \in Seq(Nat) /\ tail' \in Nat
        /\ \A i \in 1 .. Len(next') : next'[i] = IF i < Len(next') THEN i + 1 ELSE 0
    BY <2>1 DEF Shape
  <2>e. Len(next') = tail' + One(Filling)'
    BY <2>1, <2>4 DEF Shape, One
  <2>9. Shape'
    <3> DEFINE linked == \A i \in 1 .. Len(next) : next[i] = IF i < Len(next) THEN i + 1 ELSE 0
               inOrder == \A i \in 1 .. Len(popped) : popped[i] = i
    <3>1. linked' /\ inOrder'
      BY <2>b, <2>d
    <3>2. /\ next' \in Seq(Nat) /\ head' \in Nat \ {0} /\ tail' \in Nat
          /\ head' <= tail'
          /\ Len(next') = tail' + One(Filling)'
          /\ freed' = 1 .. head' - 1
          /\ popped' \in Seq(Nat) /\ Len(popped') = head' - 1
      BY <2>1, <2>7, <2>a, <2>c, <2>d, <2>e
    <3>3. Shape' = (/\ next' \in Seq(Nat) /\ head' \in Nat \ {0} /\ tail' \in Nat
                    /\ head' <= tail'
                    /\ Len(next') = tail' + One(Filling)'
                    /\ linked'
                    /\ freed' = 1 .. head' - 1
                    /\ popped' \in Seq(Nat) /\ Len(popped') = head' - 1
                    /\ inOrder')
      BY DEF Shape
    <3> HIDE DEF linked, inOrder
    <3> QED
      BY <3>1, <3>2, <3>3
  <2>10. Counted'
    BY <2>1, <2>2, <2>4, <2>5, <2>6 DEF Counted, Shape, One
  <2> QED
    BY <2>3, <2>9, <2>10
<1>3. CASE CountPopped(c)
  <2>1. /\ popper[c] = "unlinked" /\ popper' = [popper EXCEPT ![c] = "idle"]
        /\ size' = size - 1
        /\ UNCHANGED <<next, head, tail, freed, pusher, popped>>
    BY <1>3 DEF CountPopped, PopTo
  <2>2. Unlinking /\ ~Unlinking' /\ Taking' = {}
    BY <2>1 DEF States, OneInside, Unlinking, Taking
  <2>3. States' /\ OneInside'
    BY <2>1 DEF States, OneInside
  <2>4. Filling' = Filling /\ Moving' = Moving
    BY <2>1 DEF Filling, Moving
  <2>5. Shape'
    BY <2>1, <2>4 DEF Shape
  <2>6. Counted'
    BY <2>1, <2>2, <2>4 DEF Counted, Shape, One
  <2> QED
    BY <2>3, <2>5, <2>6
<1> QED
  BY <1>1, <1>2, <1>3

LEMMA LqInvImplies == LqInv => SidesApart
<1> SUFFICES ASSUME LqInv PROVE SidesApart
  OBVIOUS
<1>1. head \notin freed /\ tail \notin freed
  BY DEF LqInv, Shape
<1>2. Taking # {} => ~Unlinking
  BY DEF LqInv, OneInside, Taking, Unlinking
<1>3. Taking # {} => head # tail
  BY <1>2 DEF LqInv, Shape, Counted, One
<1>4. Cardinality(Unlinked) = One(Unlinking)
  <2>1. CASE Unlinking
    <3>1. PICK c \in Poppers : popper[c] = "unlinked"
      BY <2>1 DEF Unlinking
    <3>2. Unlinked = {c}
      BY <3>1 DEF LqInv, OneInside, Unlinked
    <3> QED
      BY <2>1, <3>2, FS_Singleton DEF One
  <2>2. CASE ~Unlinking
    <3>1. Unlinked = {}
      BY <2>2 DEF Unlinking, Unlinked
    <3> QED
      BY <2>2, <3>1, FS_EmptySet DEF One
  <2> QED
    BY <2>1, <2>2
<1>5. size <= (tail - head) + Cardinality(Unlinked)
  BY <1>4 DEF LqInv, Shape, Counted, One
<1>6. popped = [i \in 1 .. Len(popped) |-> i]
  BY DEF LqInv, Shape
<1> QED
  BY <1>1, <1>3, <1>5, <1>6 DEF SidesApart

LEMMA LqStepInv == LqInv /\ [LqNext]_lqVars => LqInv'
<1> SUFFICES ASSUME LqInv, [LqNext]_lqVars PROVE LqInv'
  OBVIOUS
<1>1. CASE UNCHANGED lqVars
  BY <1>1 DEF lqVars, LqInv, States, OneInside, Shape, Counted, Filling, Moving,
              Unlinking, Taking
<1> QED
  BY <1>1, PusherStep, WaitingStep, TakingStep DEF LqNext

\* However many threads push and pop, the two sides of the list never meet on a
\* node, and elements leave in their order (queue.cc lines 143-211).
THEOREM EndsKeepApart == LqSpec => []SidesApart
BY LqInitInv, LqStepInv, LqInvImplies, PTL DEF LqSpec

-----------------------------------------------------------------------------
(* Consumers of the list that wait. *)

Awake == {c \in Poppers : popper[c] \notin {"idle", "asleep"}}
Notifying == {p \in Pushers : pusher[p] = "notify"}

LEMMA OneMore ==
  ASSUME NEW S, NEW x \in S, IsFiniteSet(S), NEW A \in SUBSET S, NEW B \in SUBSET S
  PROVE  /\ IsFiniteSet(A) /\ Cardinality(A) \in Nat
         /\ x \notin A /\ B = A \cup {x} => Cardinality(B) = Cardinality(A) + 1
         /\ x \in A /\ B = A \ {x} => Cardinality(B) = Cardinality(A) - 1
<1>1. IsFiniteSet(A)
  BY FS_Subset
<1> QED
  BY <1>1, FS_CardinalityType, FS_AddElement, FS_RemoveElement

\* What a step of a producer does to those who notify, and of a consumer to
\* those who are awake.
LEMMA PusherCounts ==
  ASSUME States, NEW p \in Pushers, NEW to,
         pusher' = [pusher EXCEPT ![p] = to]
  PROVE  /\ Cardinality(Notifying) \in Nat
         /\ pusher[p] # "notify" /\ to = "notify" =>
              Cardinality(Notifying') = Cardinality(Notifying) + 1
         /\ pusher[p] = "notify" /\ to # "notify" =>
              Cardinality(Notifying') = Cardinality(Notifying) - 1
         /\ (pusher[p] = "notify" <=> to = "notify") => Notifying' = Notifying
<1>1. Notifying' = IF to = "notify" THEN Notifying \cup {p} ELSE Notifying \ {p}
  BY DEF States, Notifying
<1>2. (p \in Notifying <=> pusher[p] = "notify") /\ Notifying \subseteq Pushers
  BY DEF Notifying
<1>3. Notifying' \subseteq Pushers
  BY DEF Notifying
<1> QED
  BY <1>1, <1>2, <1>3, OneMore, ListQueueAssumption

LEMMA PopperCounts ==
  ASSUME States, NEW c \in Poppers, NEW to,
         popper' = [popper EXCEPT ![c] = to]
  PROVE  /\ Cardinality(Awake) \in Nat
         /\ popper[c] \in {"idle", "asleep"} /\ to \notin {"idle", "asleep"} =>
              Cardinality(Awake') = Cardinality(Awake) + 1
         /\ popper[c] \notin {"idle", "asleep"} /\ to \in {"idle", "asleep"} =>
              Cardinality(Awake') = Cardinality(Awake) - 1
         /\ (popper[c] \in {"idle", "asleep"} <=> to \in {"idle", "asleep"}) =>
              Awake' = Awake
<1>1. Awake' = IF to \notin {"idle", "asleep"} THEN Awake \cup {c} ELSE Awake \ {c}
  BY DEF States, Awake
<1>2. (c \in Awake <=> popper[c] \notin {"idle", "asleep"}) /\ Awake \subseteq Poppers
  BY DEF Awake
<1>3. Awake' \subseteq Poppers
  BY DEF Awake
<1> QED
  BY <1>1, <1>2, <1>3, OneMore, ListQueueAssumption

Sleeping == \E c \in Poppers : popper[c] = "asleep"

\* However many consumers sleep, each element has a consumer that is awake or a
\* notification on its way (queue.cc lines 143-211).
THEOREM NotifyEachIsEnough == LqSpec => []NoPopperForgotten
<1> DEFINE Counts == Sleeping => size <= Cardinality(Awake) + Cardinality(Notifying)
<1>1. Counts <=> NoPopperForgotten
  BY DEF Sleeping, Awake, Notifying, NoPopperForgotten
<1>2. LqInit => Counts
  BY DEF LqInit, Sleeping
<1>3. ASSUME LqInv, Counts, [LqNext]_lqVars PROVE Counts'
  <2> USE DEF LqInv
  <2>0. size \in Nat /\ Cardinality(Awake) \in Nat /\ Cardinality(Notifying) \in Nat
    <3>1. Awake \subseteq Poppers /\ Notifying \subseteq Pushers
      BY DEF Awake, Notifying
    <3> QED
      BY <1>3, <3>1, ListQueueAssumption, FS_Subset, FS_CardinalityType DEF Counted
  <2>1. ASSUME NEW p \in Pushers, Fill(p) \/ MoveTail(p) PROVE Counts'
    <3>1. /\ \E to \in {"filled", "moved"} : pusher' = [pusher EXCEPT ![p] = to]
          /\ pusher[p] # "notify" /\ popper' = popper /\ size' = size
      BY <2>1 DEF Fill, MoveTail, PushTo
    <3>2. Notifying' = Notifying
      BY <1>3, <3>1, PusherCounts
    <3>3. Awake' = Awake /\ (Sleeping' <=> Sleeping)
      BY <3>1 DEF Awake, Sleeping
    <3> QED
      BY <1>3, <3>1, <3>2, <3>3
  <2>2. ASSUME NEW p \in Pushers, CountPushed(p) PROVE Counts'
    <3>1. /\ pusher' = [pusher EXCEPT ![p] = "notify"]
          /\ pusher[p] # "notify" /\ popper' = popper /\ size' = size + 1
      BY <2>2 DEF CountPushed, PushTo
    <3>2. Cardinality(Notifying') = Cardinality(Notifying) + 1
      BY <1>3, <3>1, PusherCounts
    <3>3. Awake' = Awake /\ (Sleeping' <=> Sleeping)
      BY <3>1 DEF Awake, Sleeping
    <3> QED
      BY <1>3, <2>0, <3>1, <3>2, <3>3
  <2>3. ASSUME NEW p \in Pushers, NotifyPopper(p) PROVE Counts'
    <3>0. pusher' = [pusher EXCEPT ![p] = "idle"] /\ pusher[p] = "notify"
      BY <2>3 DEF NotifyPopper, PushTo
    <3>1. /\ size' = size
          /\ \/ ~Sleeping /\ popper' = popper
             \/ \E c \in Poppers :
                  popper[c] = "asleep" /\ popper' = [popper EXCEPT ![c] = "wait"]
      BY <2>3 DEF NotifyPopper, PushTo, Sleeping
    <3>2. Cardinality(Notifying') = Cardinality(Notifying) - 1
      <4>1. PICK to : to = "idle" /\ pusher' = [pusher EXCEPT ![p] = to]
        BY <3>0
      <4> QED
        BY <1>3, <3>0, <4>1, PusherCounts
    <3>3. CASE ~Sleeping /\ popper' = popper
      BY <3>3 DEF Sleeping
    <3>4. ASSUME NEW c \in Poppers, popper[c] = "asleep",
                 popper' = [popper EXCEPT ![c] = "wait"]
          PROVE  Counts'
      <4>1. Cardinality(Awake') = Cardinality(Awake) + 1
        <5>1. PICK to : to = "wait" /\ popper' = [popper EXCEPT ![c] = to]
          BY <3>4
        <5> QED
          BY <1>3, <3>4, <5>1, PopperCounts
      <4>2. Sleeping
        BY <3>4 DEF Sleeping
      <4> QED
        BY <1>3, <2>0, <3>1, <3>2, <4>1, <4>2
    <3> QED
      BY <3>1, <3>3, <3>4
  <2>4. ASSUME NEW c \in Poppers,
               CallPop(c) \/ SeeElement(c) \/ SeeNothing(c) \/ SizeWait(c) \/ UnlinkHead(c)
                 \/ CountPopped(c)
        PROVE  Counts'
    <3>1. PICK to \in {"pop", "take", "wait", "asleep", "unlinked", "idle"} :
            /\ popper' = [popper EXCEPT ![c] = to] /\ popper[c] # "asleep"
            /\ to = "asleep" => size = 0 /\ size' = size
            /\ to = "idle" => size' = size - 1 /\ popper[c] = "unlinked"
            /\ to # "idle" => size' = size
            /\ pusher' = pusher
      BY <2>4 DEF CallPop, SeeElement, SeeNothing, SizeWait, UnlinkHead, CountPopped, PopTo
    <3>2. Notifying' = Notifying
      BY <3>1 DEF Notifying
    <3>3. CASE to = "asleep"
      <4>1. Awake' \subseteq Poppers
        BY DEF Awake
      <4>2. Cardinality(Awake') \in Nat
        BY <4>1, ListQueueAssumption, FS_Subset, FS_CardinalityType
      <4> QED
        BY <2>0, <3>1, <3>2, <3>3, <4>2
    <3>4. CASE to # "asleep"
      <4>1. Sleeping' <=> Sleeping
        BY <1>3, <3>1, <3>4 DEF Sleeping, States
      <4>2. \/ to = "idle" /\ Cardinality(Awake') = Cardinality(Awake) - 1
            \/ to # "idle" /\ Cardinality(Awake') = Cardinality(Awake) + 1
            \/ to # "idle" /\ Awake' = Awake
        BY <1>3, <3>1, <3>4, PopperCounts
      <4> QED
        BY <1>3, <2>0, <3>1, <3>2, <4>1, <4>2
    <3> QED
      BY <3>3, <3>4
  <2>5. CASE UNCHANGED lqVars
    BY <1>3, <2>5 DEF lqVars, Awake, Notifying, Sleeping
  <2> QED
    BY <1>3, <2>1, <2>2, <2>3, <2>4, <2>5 DEF LqNext
<1>4. LqInv /\ [LqNext]_lqVars => LqInv'
  BY LqStepInv
<1> QED
  BY <1>1, <1>2, <1>3, <1>4, LqInitInv, PTL DEF LqSpec

-----------------------------------------------------------------------------
(* The containers under one mutex. *)

Due(o) == {c \in Callers : caller[c] \in {"woken", "notify"} /\ target[c] = o}
Enough(o) == Sleepers(o) # {} => contents[o] <= Cardinality(Due(o))

\* Nobody waits on a stack.
LcInv ==
  /\ contents \in [Objects -> Nat]
  /\ caller \in [Callers -> {"idle", "notify", "waiting", "woken"}]
  /\ target \in [Callers -> Objects]
  /\ shape # "queue" => \A c \in Callers : caller[c] = "idle"
  /\ NoSleeperForgotten

LEMMA DueIsFinite ==
  ASSUME NEW o
  PROVE  /\ IsFiniteSet(Due(o)) /\ Cardinality(Due(o)) \in Nat
         /\ Cardinality(Due(o)') \in Nat
BY LockedContainersAssumption, FS_Subset, FS_CardinalityType DEF Due

LEMMA DueGrows ==
  ASSUME NEW o, NEW c \in Callers, c \notin Due(o), Due(o)' = Due(o) \cup {c}
  PROVE  Cardinality(Due(o)') = Cardinality(Due(o)) + 1
BY DueIsFinite, FS_AddElement

LEMMA DueShrinks ==
  ASSUME NEW o, NEW c \in Due(o), Due(o)' = Due(o) \ {c}
  PROVE  Cardinality(Due(o)') = Cardinality(Due(o)) - 1
BY DueIsFinite, FS_RemoveElement

LEMMA EachEnough == NoSleeperForgotten <=> \A o \in Objects : Enough(o)
BY DEF NoSleeperForgotten, Enough, Due

LEMMA LcInitInv == LcInit => LcInv
<1> SUFFICES ASSUME LcInit PROVE LcInv
  OBVIOUS
<1>1. (CHOOSE o \in Objects : TRUE) \in Objects
  BY LockedContainersAssumption
<1>2. \A o \in Objects : Enough(o)
  BY DEF LcInit, Enough, Sleepers
<1> QED
  BY <1>1, <1>2, EachEnough DEF LcInit, LcInv

\* push and emplace: the element has a notification of its own.
LEMMA PushKeeps ==
  ASSUME LcInv, NEW c \in Callers, NEW o \in Objects, QueuePush(c, o) \/ StackPush(c, o)
  PROVE  LcInv'
<1> USE DEF LcInv
<1>1. PICK to \in {"notify", "idle"} :
        /\ caller' = [caller EXCEPT ![c] = to] /\ target' = [target EXCEPT ![c] = o]
        /\ caller[c] = "idle" /\ contents' = [contents EXCEPT ![o] = contents[o] + 1]
        /\ shape' = shape
        /\ to = "notify" <=> shape = "queue"
  BY DEF QueuePush, StackPush, Insert, SendOff
<1>2. ASSUME NEW x \in Objects PROVE Enough(x)'
  <2>1. Sleepers(x)' = Sleepers(x)
    BY <1>1 DEF Sleepers
  <2>2. CASE x = o /\ to = "notify"
    <3>1. c \notin Due(x) /\ Due(x)' = Due(x) \cup {c}
      BY <1>1, <2>2 DEF Due
    <3>2. Cardinality(Due(x)') = Cardinality(Due(x)) + 1
      BY <3>1, DueGrows
    <3>3. contents'[x] = contents[x] + 1 /\ Enough(x)
      BY <1>1, <2>2, EachEnough
    <3> QED
      BY <2>1, <3>2, <3>3, DueIsFinite DEF Enough
  <2>3. CASE x = o /\ to # "notify"
    BY <1>1, <2>3 DEF Enough, Sleepers
  <2>4. CASE x # o
    <3>1. Due(x)' = Due(x) /\ contents'[x] = contents[x]
      BY <1>1, <2>4 DEF Due
    <3> QED
      BY <2>1, <3>1, EachEnough DEF Enough
  <2> QED
    BY <1>1, <2>2, <2>3, <2>4
<1>3. NoSleeperForgotten'
  BY <1>2 DEF NoSleeperForgotten, Enough, Due
<1> QED
  BY <1>1, <1>3

\* notify_one: a sleeper takes the place of the one who notifies it.
LEMMA NotifyKeeps ==
  ASSUME LcInv, NEW c \in Callers, NotifyOne(c)
  PROVE  LcInv'
<1> USE DEF LcInv
<1>1. /\ caller[c] = "notify" /\ contents' = contents /\ shape' = shape /\ target' = target
      /\ \/ /\ Sleepers(target[c]) = {}
            /\ caller' = [caller EXCEPT ![c] = "idle"]
         \/ \E s \in Sleepers(target[c]) :
              caller' = [[caller EXCEPT ![c] = "idle"] EXCEPT ![s] = "woken"]
  BY DEF NotifyOne
<1>2. /\ caller' \in [Callers -> {"idle", "notify", "waiting", "woken"}]
      /\ shape = "queue"
  BY <1>1 DEF Sleepers
<1>3. ASSUME NEW x \in Objects PROVE Enough(x)'
  <2>1. CASE x # target[c]
    <3>1. Sleepers(x)' = Sleepers(x) /\ Due(x)' = Due(x)
      BY <1>1, <2>1 DEF Sleepers, Due
    <3> QED
      BY <1>1, <3>1, EachEnough DEF Enough
  <2>2. CASE x = target[c] /\ Sleepers(x) = {}
    <3>1. Sleepers(x)' = {}
      BY <1>1, <2>2 DEF Sleepers
    <3> QED
      BY <3>1 DEF Enough
  <2>3. ASSUME NEW s \in Sleepers(x), x = target[c],
               caller' = [[caller EXCEPT ![c] = "idle"] EXCEPT ![s] = "woken"]
        PROVE  Enough(x)'
    <3>1. /\ s \in Callers /\ s # c /\ s \notin Due(x) /\ c \in Due(x)
          /\ Due(x)' = (Due(x) \cup {s}) \ {c}
      BY <1>1, <2>3 DEF Sleepers, Due
    <3>2. /\ IsFiniteSet(Due(x) \cup {s})
          /\ Cardinality(Due(x) \cup {s}) = Cardinality(Due(x)) + 1
      BY <3>1, DueIsFinite, FS_AddElement
    <3>3. Cardinality(Due(x)') = Cardinality(Due(x) \cup {s}) - 1
      BY <3>1, <3>2, FS_RemoveElement
    <3>4. contents[x] <= Cardinality(Due(x))
      BY <2>3, EachEnough DEF Enough
    <3> QED
      BY <1>1, <3>2, <3>3, <3>4, DueIsFinite DEF Enough
  <2> QED
    BY <1>1, <2>1, <2>2, <2>3
<1>4. NoSleeperForgotten'
  BY <1>3 DEF NoSleeperForgotten, Enough, Due
<1> QED
  BY <1>1, <1>2, <1>4

\* pop and try_pop: a woken consumer goes with the element, or finds none left.
LEMMA TakeKeeps ==
  ASSUME LcInv, NEW c \in Callers, NEW o \in Objects,
         QueuePop(c, o) \/ StackPop(c, o) \/ WaitInPop(c, o)
  PROVE  LcInv'
<1> USE DEF LcInv
<1>1. /\ caller[c] = "idle" \/ (caller[c] = "woken" /\ target[c] = o)
      /\ target' = [target EXCEPT ![c] = o] /\ shape' = shape
      /\ \/ /\ contents[o] > 0 /\ contents' = [contents EXCEPT ![o] = contents[o] - 1]
            /\ caller' = [caller EXCEPT ![c] = "idle"]
         \/ /\ contents[o] = 0 /\ contents' = contents /\ shape = "queue"
            /\ caller' = [caller EXCEPT ![c] = "waiting"]
  <2>1. CASE QueuePop(c, o) \/ StackPop(c, o)
    BY <2>1 DEF QueuePop, StackPop, RemoveOne, MayTake, SendOff
  <2>2. CASE WaitInPop(c, o)
    BY <2>2 DEF WaitInPop, MayTake, SendOff
  <2> QED
    BY <2>1, <2>2
<1>2. contents' \in [Objects -> Nat]
  BY <1>1
<1>3. ASSUME NEW x \in Objects PROVE Enough(x)'
  <2>1. CASE x # o
    <3>1. Sleepers(x)' = Sleepers(x) /\ Due(x)' = Due(x)
      BY <1>1, <2>1 DEF Sleepers, Due
    <3> QED
      BY <1>1, <2>1, <3>1, EachEnough DEF Enough
  <2>2. CASE x = o /\ contents'[o] = 0
    BY <2>2, DueIsFinite DEF Enough
  <2>3. CASE /\ x = o /\ contents[o] > 0
             /\ contents' = [contents EXCEPT ![o] = contents[o] - 1]
             /\ caller' = [caller EXCEPT ![c] = "idle"]
    <3>1. Sleepers(x)' = Sleepers(x)
      BY <1>1, <2>3 DEF Sleepers
    <3>2. contents'[x] = contents[x] - 1
      BY <2>3
    <3>3. CASE c \in Due(x)
      <4>1. Due(x)' = Due(x) \ {c}
        BY <1>1, <2>3 DEF Due
      <4>2. Cardinality(Due(x)') = Cardinality(Due(x)) - 1
        BY <3>3, <4>1, DueShrinks
      <4>3. Enough(x)
        BY EachEnough
      <4> QED
        BY <3>1, <3>2, <4>2, <4>3, DueIsFinite DEF Enough
    <3>4. CASE c \notin Due(x)
      <4>1. Due(x)' = Due(x)
        BY <1>1, <2>3, <3>4 DEF Due
      <4> QED
        BY <3>1, <3>2, <4>1, DueIsFinite, EachEnough DEF Enough
    <3> QED
      BY <3>3, <3>4
  <2> QED
    BY <1>1, <2>1, <2>2, <2>3
<1>4. NoSleeperForgotten'
  BY <1>3 DEF NoSleeperForgotten, Enough, Due
<1> QED
  BY <1>1, <1>2, <1>4

\* clear and the assignments: all elements go, or all sleepers are woken.
LEMMA AssignKeeps ==
  ASSUME LcInv, NEW c \in Callers, NEW o \in Objects, NEW from \in Objects,
         \/ QueueClear(c, o) \/ StackClear(c, o)
         \/ QueueCopy(c, o, from) \/ QueueMove(c, o, from)
         \/ StackCopy(c, o, from) \/ StackMove(c, o, from)
  PROVE  LcInv'
<1> USE DEF LcInv
<1>1. /\ target' = target /\ shape' = shape
      /\ \A x \in Objects : x # o => contents'[x] \in {contents[x], 0}
      /\ contents'[o] = 0 \/ (contents[from] > 0 /\ contents'[o] = contents[from])
      /\ contents' \in [Objects -> Nat]
  <2>1. CASE QueueClear(c, o) \/ StackClear(c, o)
    BY <2>1 DEF QueueClear, StackClear, Clear
  <2>2. CASE \/ QueueCopy(c, o, from) \/ QueueMove(c, o, from)
             \/ StackCopy(c, o, from) \/ StackMove(c, o, from)
    <3>1. /\ target' = target /\ shape' = shape /\ o # from
          /\ Copied(o, from) \/ Moved(o, from)
      BY <2>2 DEF QueueCopy, QueueMove, StackCopy, StackMove, QueueAssign, StackAssign
    <3> QED
      BY <3>1 DEF Copied, Moved
  <2> QED
    BY <2>1, <2>2
<1>2. \/ caller' = caller /\ (contents'[o] = 0 \/ shape # "queue")
      \/ /\ shape = "queue"
         /\ contents'[o] = contents[from]
         /\ caller' = [d \in Callers |->
                         IF contents[from] > 0 /\ d \in Sleepers(o) THEN "woken" ELSE caller[d]]
  <2>1. CASE QueueClear(c, o) \/ StackClear(c, o)
    BY <2>1 DEF QueueClear, StackClear, Clear
  <2>2. CASE StackCopy(c, o, from) \/ StackMove(c, o, from)
    BY <2>2 DEF StackCopy, StackMove, StackAssign
  <2>3. CASE QueueCopy(c, o, from) \/ QueueMove(c, o, from)
    BY <2>3 DEF QueueCopy, QueueMove, QueueAssign, Assigned, Copied, Moved
  <2> QED
    BY <2>1, <2>2, <2>3
<1>3. /\ caller' \in [Callers -> {"idle", "notify", "waiting", "woken"}]
      /\ shape # "queue" => \A d \in Callers : caller'[d] = "idle"
  BY <1>2
<1>4. ASSUME NEW x \in Objects PROVE Enough(x)'
  <2>1. CASE shape # "queue"
    BY <1>1, <1>3, <2>1 DEF Enough, Sleepers
  <2>2. CASE x = o /\ contents'[o] = 0
    BY <2>2, DueIsFinite DEF Enough
  <2>3. CASE x = o /\ contents'[o] # 0 /\ shape = "queue"
    <3>1. contents[from] > 0
      BY <1>1, <2>3
    <3>2. Sleepers(x)' = {}
      BY <1>1, <1>2, <2>3, <3>1 DEF Sleepers
    <3> QED
      BY <3>2 DEF Enough
  <2>4. CASE x # o
    <3>1. Sleepers(x)' = Sleepers(x) /\ Due(x)' = Due(x)
      BY <1>1, <1>2, <2>4 DEF Sleepers, Due
    <3>2. contents'[x] \in {contents[x], 0} /\ Enough(x)
      BY <1>1, <2>4, EachEnough
    <3> QED
      BY <3>1, <3>2, DueIsFinite DEF Enough
  <2> QED
    BY <1>1, <2>1, <2>2, <2>3, <2>4
<1>5. NoSleeperForgotten'
  BY <1>4 DEF NoSleeperForgotten, Enough, Due
<1> QED
  BY <1>1, <1>3, <1>5

LEMMA LcStepInv == LcInv /\ [LcNext]_lcVars => LcInv'
<1> SUFFICES ASSUME LcInv, [LcNext]_lcVars PROVE LcInv'
  OBVIOUS
<1>1. CASE LcNext
  <2>1. PICK c \in Callers :
          \/ NotifyOne(c)
          \/ \E o \in Objects :
               \/ QueuePush(c, o) \/ QueuePop(c, o) \/ WaitInPop(c, o) \/ QueueClear(c, o)
               \/ StackPush(c, o) \/ StackPop(c, o) \/ StackClear(c, o)
          \/ \E o, from \in Objects :
               \/ QueueCopy(c, o, from) \/ QueueMove(c, o, from)
               \/ StackCopy(c, o, from) \/ StackMove(c, o, from)
    BY <1>1 DEF LcNext
  <2> QED
    BY <2>1, NotifyKeeps, PushKeeps, TakeKeeps, AssignKeeps
<1>2. CASE UNCHANGED lcVars
  BY <1>2 DEF lcVars, LcInv, NoSleeperForgotten, Sleepers
<1> QED
  BY <1>1, <1>2

\* However many threads call, while a consumer sleeps each element of its queue
\* has a woken consumer or a notification on the way, also after an assignment
\* that brings several at once (queue.cc lines 13-141, stack.cc lines 9-86).
THEOREM AssignmentWakesAll == LcSpec => []NoSleeperForgotten
<1>1. LcInv => NoSleeperForgotten
  BY DEF LcInv
<1> QED
  BY <1>1, LcInitInv, LcStepInv, PTL DEF LcSpec

-----------------------------------------------------------------------------
(* The rings before SuperQueue. *)

\* The k-th cell from cell h on, once round at most.
Nth(h, k) == IF h + k <= Capacity THEN h + k ELSE h + k - Capacity - 1

Popping == taker.at \in {"moves", "destroys"}
Constructing == emplacer.at = "constructs"

\* The cells in use begin at Low.  From there on lie the elements accepted
\* after the first Passed: Stored of them, and Claimed with the one that is
\* being constructed.
Low == IF Popping THEN taker.pos ELSE headAt
Passed == Len(taken) - One(taker.at = "destroys")
Stored == Len(accepted) - Passed
Claimed == Stored + One(Constructing)

UqTypes ==
  /\ ring \in {"unlock", "lock"}
  /\ cells \in [U!Cells -> Nat]
  /\ headAt \in U!Cells /\ tailAt \in U!Cells
  /\ inside \in Int
  /\ emplacer \in [at : {"idle", "loaded", "claims", "constructs"}, pos : U!Cells]
  /\ taker \in [at : {"idle", "loaded", "claims", "moves", "destroys"}, pos : U!Cells]
  /\ offered \in Nat
  /\ accepted \in Seq(Nat \ {0})
  /\ taken \in Seq(Nat)
  /\ ring = "lock" => emplacer = U!Idle /\ taker = U!Idle /\ inside = Stored

\* Each end is moved by one thread only.
EndsKnown ==
  /\ emplacer.at \in {"loaded", "claims"} => emplacer.pos = tailAt
  /\ Constructing => tailAt = Nth(emplacer.pos, 1)
  /\ taker.at \in {"loaded", "claims"} => taker.pos = headAt
  /\ Popping => headAt = Nth(taker.pos, 1)

UqWindow ==
  /\ Passed \in Nat /\ Stored \in Nat
  /\ Claimed - One(Popping) \in 0 .. Capacity
  /\ tailAt = Nth(Low, Claimed)
  /\ emplacer.at = "claims" => Claimed - One(Popping) < Capacity
  /\ taker.at = "claims" => Claimed > 0
  /\ taker.at = "destroys" => Stored > 0

\* The lock-free ring destroys what it has moved out.
UqCells ==
  \A k \in 0 .. Capacity :
    /\ k < Stored => cells[Nth(Low, k)] = accepted[Passed + k + 1]
    /\ k >= Stored /\ ring = "unlock" => cells[Nth(Low, k)] = 0

UqOrder == \A i \in 1 .. Len(taken) : taken[i] = accepted[i]

UqSound == UqTypes /\ EndsKnown /\ UqWindow /\ UqCells /\ UqOrder

UqInv ==
  /\ early \in BOOLEAN
  /\ early => ring = "unlock"
  /\ early /\ Constructing => cells[emplacer.pos] = 0
  /\ ~early => UqSound

LEMMA Room == Capacity \in Nat /\ U!Cells = 0 .. Capacity
BY SuperQueueAssumption DEF U!Cells

LEMMA ModLap ==
  ASSUME NEW m \in Nat \ {0}, NEW x \in 0 .. m
  PROVE  x % m = IF x = m THEN 0 ELSE x
<1>1. PICK q \in Int : q = x \div m
  OBVIOUS
<1>2. x = m * q + (x % m) /\ x % m \in 0 .. m - 1
  BY <1>1
<1>3. CASE q < 0
  <2>1. m * (q + 1) <= 0 /\ m * (q + 1) = m * q + m
    BY <1>3
  <2> QED
    BY <1>2, <2>1
<1>4. CASE q = 0
  BY <1>2, <1>4
<1>5. CASE q = 1
  BY <1>2, <1>5
<1>6. CASE q > 1
  <2>1. m * (q - 2) >= 0 /\ m * (q - 2) = m * q - 2 * m
    BY <1>6
  <2> QED
    BY <1>2, <2>1
<1> QED
  BY <1>3, <1>4, <1>5, <1>6

LEMMA AfterIsNext ==
  ASSUME NEW i \in U!Cells
  PROVE  U!After(i) = Nth(i, 1)
<1>1. i + 1 \in 0 .. Capacity + 1 /\ Capacity + 1 \in Nat \ {0}
  BY Room
<1>2. (i + 1) % (Capacity + 1) = IF i + 1 = Capacity + 1 THEN 0 ELSE i + 1
  BY <1>1, ModLap
<1> QED
  BY <1>2, Room DEF U!After, Nth

LEMMA NthFacts ==
  ASSUME NEW h \in U!Cells
  PROVE  /\ \A k \in 0 .. Capacity + 1 : Nth(h, k) \in U!Cells
         /\ \A k \in 0 .. Capacity : Nth(Nth(h, 1), k) = Nth(h, k + 1)
         /\ Nth(h, 0) = h /\ Nth(h, Capacity + 1) = h
         /\ \A j, k \in 0 .. Capacity : Nth(h, j) = Nth(h, k) => j = k
BY Room DEF Nth

LEMMA LowIsCell ==
  ASSUME UqTypes
  PROVE  /\ Low \in U!Cells /\ emplacer.pos \in U!Cells /\ taker.pos \in U!Cells
         /\ Len(taken) \in Nat /\ Len(accepted) \in Nat
         /\ Passed \in Int /\ Stored \in Int /\ Claimed \in Int
BY DEF UqTypes, Low, Passed, Stored, Claimed, One

\* The steps that move neither end.
LEMMA LookAtEnds ==
  ASSUME UqSound, ~early, ring = "unlock",
         \/ U!LoadTail \/ U!TestHead \/ U!LoadHead \/ U!TestTail
  PROVE  UqSound' /\ early' = early /\ ring' = ring
<1> USE DEF UqSound
<1>1. /\ UNCHANGED <<ring, cells, headAt, tailAt, inside, accepted, taken, early>>
      /\ (~Constructing /\ ~Constructing') \/ emplacer' = emplacer
      /\ (~Popping /\ ~Popping') \/ taker' = taker
      /\ (taker.at # "destroys" /\ taker'.at # "destroys") \/ taker' = taker
  <2>1. CASE U!LoadTail \/ U!TestHead
    <3>1. /\ emplacer.at \in {"idle", "loaded"} /\ emplacer'.at \in {"idle", "loaded", "claims"}
          /\ taker' = taker
      BY <2>1 DEF U!LoadTail, U!TestHead, U!Idle, UqTypes
    <3> QED
      BY <2>1, <3>1 DEF U!LoadTail, U!TestHead, Constructing
  <2>2. CASE U!LoadHead \/ U!TestTail
    <3>1. /\ taker.at \in {"idle", "loaded"} /\ taker'.at \in {"idle", "loaded", "claims"}
          /\ emplacer' = emplacer
      BY <2>2 DEF U!LoadHead, U!TestTail, U!Idle, UqTypes
    <3> QED
      BY <2>2, <3>1 DEF U!LoadHead, U!TestTail, Popping
  <2> QED
    BY <2>1, <2>2
<1>2. /\ (Constructing' <=> Constructing) /\ (Popping' <=> Popping)
      /\ Low' = Low /\ Passed' = Passed /\ Stored' = Stored /\ Claimed' = Claimed
  BY <1>1 DEF Constructing, Popping, Low, Passed, Stored, Claimed, One
<1>3. UqTypes'
  <2>0. /\ headAt \in U!Cells /\ tailAt \in U!Cells
        /\ emplacer \in [at : {"idle", "loaded", "claims", "constructs"}, pos : U!Cells]
        /\ taker \in [at : {"idle", "loaded", "claims", "moves", "destroys"}, pos : U!Cells]
        /\ U!Idle = [at |-> "idle", pos |-> 0] /\ 0 \in U!Cells
    BY Room DEF UqTypes, U!Idle
  <2>1. emplacer' \in [at : {"idle", "loaded", "claims", "constructs"}, pos : U!Cells]
    <3>1. CASE U!LoadTail
      BY <2>0, <3>1 DEF U!LoadTail
    <3>2. CASE U!TestHead
      BY <2>0, <3>2 DEF U!TestHead
    <3>3. CASE U!LoadHead \/ U!TestTail
      BY <2>0, <3>3 DEF U!LoadHead, U!TestTail
    <3> QED
      BY <3>1, <3>2, <3>3
  <2>2. taker' \in [at : {"idle", "loaded", "claims", "moves", "destroys"}, pos : U!Cells]
    <3>1. CASE U!LoadHead
      BY <2>0, <3>1 DEF U!LoadHead
    <3>2. CASE U!TestTail
      BY <2>0, <3>2 DEF U!TestTail
    <3>3. CASE U!LoadTail \/ U!TestHead
      BY <2>0, <3>3 DEF U!LoadTail, U!TestHead
    <3> QED
      BY <3>1, <3>2, <3>3
  <2>3. offered' \in Nat
    BY DEF UqTypes, U!LoadTail, U!TestHead, U!LoadHead, U!TestTail
  <2> QED
    BY <1>1, <2>1, <2>2, <2>3 DEF UqTypes
<1>4. EndsKnown'
  BY <1>1, <1>2 DEF EndsKnown, UqTypes, U!LoadTail, U!TestHead, U!LoadHead, U!TestTail, U!Idle,
                    Constructing, Popping
<1>5. UqWindow'
  <2>1. emplacer'.at = "claims" => Claimed - One(Popping) < Capacity
    <3>1. CASE U!TestHead /\ emplacer'.at = "claims"
      <4>1. /\ emplacer.pos = tailAt /\ ~Constructing /\ U!After(tailAt) # headAt
            /\ tailAt \in U!Cells
        BY <1>1, <3>1 DEF U!TestHead, U!SeesFull, U!Idle, EndsKnown, Constructing, UqTypes
      <4>2. Nth(tailAt, 1) # headAt
        BY <4>1, AfterIsNext
      <4>3. /\ tailAt = Nth(Low, Claimed) /\ Low \in U!Cells /\ Claimed \in Int
            /\ Claimed - One(Popping) \in 0 .. Capacity
        BY LowIsCell DEF UqWindow
      <4>4. headAt = IF Popping THEN Nth(Low, 1) ELSE Low
        BY DEF Low, EndsKnown
      <4>5. CASE Popping
        BY <4>2, <4>3, <4>4, <4>5, Room DEF Nth, One
      <4>6. CASE ~Popping
        BY <4>2, <4>3, <4>4, <4>6, Room DEF Nth, One
      <4> QED
        BY <4>5, <4>6
    <3>2. CASE ~(U!TestHead /\ emplacer'.at = "claims")
      BY <3>2 DEF UqWindow, U!LoadTail, U!LoadHead, U!TestTail, U!TestHead, U!Idle
    <3> QED
      BY <3>1, <3>2
  <2>2. taker'.at = "claims" => Claimed > 0
    <3>1. CASE U!TestTail /\ taker'.at = "claims"
      <4>1. taker.pos = headAt /\ ~Popping /\ headAt # tailAt
        BY <3>1 DEF U!TestTail, U!Idle, EndsKnown, Popping
      <4>2. Low = headAt /\ tailAt = Nth(Low, Claimed) /\ Low \in U!Cells /\ Claimed \in Int
        BY <4>1, LowIsCell DEF UqWindow, Low
      <4>3. Claimed # 0 /\ Claimed \in 0 .. Capacity
        BY <4>1, <4>2, NthFacts DEF UqWindow, One
      <4> QED
        BY <4>3, Room
    <3>2. CASE ~(U!TestTail /\ taker'.at = "claims")
      BY <3>2 DEF UqWindow, U!LoadTail, U!LoadHead, U!TestTail, U!TestHead, U!Idle
    <3> QED
      BY <3>1, <3>2
  <2>3. taker'.at = "destroys" => Stored > 0
    BY <1>1 DEF UqWindow
  <2> QED
    BY <1>1, <1>2, <2>1, <2>2, <2>3 DEF UqWindow, One
<1>6. UqCells' /\ UqOrder'
  BY <1>1, <1>2 DEF UqCells, UqOrder
<1> QED
  BY <1>1, <1>3, <1>4, <1>5, <1>6

\* The ends move: the compare-exchanges succeed, as nobody else moves them.
LEMMA ClaimTailKeeps ==
  ASSUME UqSound, ~early, ring = "unlock", U!ClaimTail
  PROVE  UqSound' /\ early' = early /\ ring' = ring
<1> USE DEF UqSound
<1>1. /\ emplacer.at = "claims" /\ emplacer.pos = tailAt /\ tailAt \in U!Cells
      /\ tailAt' = Nth(tailAt, 1) /\ emplacer' = [emplacer EXCEPT !.at = "constructs"]
      /\ UNCHANGED <<ring, cells, headAt, inside, taker, offered, accepted, taken, early>>
  BY AfterIsNext DEF U!ClaimTail, EndsKnown, UqTypes
<1>2. emplacer' = [at |-> "constructs", pos |-> emplacer.pos]
  BY <1>1 DEF UqTypes
<1>3. /\ ~Constructing /\ Constructing' /\ (Popping' <=> Popping)
      /\ Low' = Low /\ Passed' = Passed /\ Stored' = Stored /\ Claimed' = Claimed + 1
  <2>1. ~Constructing /\ Constructing' /\ (Popping' <=> Popping)
    BY <1>1, <1>2 DEF Constructing, Popping
  <2>2. Low' = Low /\ Passed' = Passed /\ Stored' = Stored
    BY <1>1, <2>1 DEF Low, Passed, Stored, Popping
  <2> QED
    BY <2>1, <2>2, LowIsCell DEF Claimed, One
<1>4. UqTypes'
  <2>1. emplacer' \in [at : {"idle", "loaded", "claims", "constructs"}, pos : U!Cells]
    BY <1>1, <1>2
  <2>2. tailAt' \in U!Cells
    BY <1>1, NthFacts, Room
  <2> QED
    BY <1>1, <2>1, <2>2 DEF UqTypes
<1>5. EndsKnown'
  BY <1>1, <1>2, <1>3 DEF EndsKnown, Popping
<1>6. UqWindow'
  <2>1. /\ Claimed - One(Popping) \in 0 .. Capacity /\ Claimed - One(Popping) < Capacity
        /\ tailAt = Nth(Low, Claimed) /\ Low \in U!Cells /\ Claimed \in Int
    BY <1>1, LowIsCell DEF UqWindow
  <2>2. One(Popping) \in 0 .. 1 /\ One(Popping)' = One(Popping)
    BY <1>3 DEF One
  <2>3. Claimed + 1 - One(Popping) \in 0 .. Capacity /\ Claimed \in 0 .. Capacity
    BY <2>1, <2>2, Room
  <2>4. tailAt' = Nth(Low, Claimed + 1)
    <3>1. Nth(Nth(Low, Claimed), 1) = Nth(Low, Claimed + 1)
      BY <2>1, <2>3, Room DEF Nth
    <3> QED
      BY <1>1, <2>1, <3>1
  <2>5. /\ Passed' \in Nat /\ Stored' \in Nat
        /\ emplacer'.at # "claims"
        /\ taker'.at = "claims" => Claimed' > 0
        /\ taker'.at = "destroys" => Stored' > 0
    BY <1>1, <1>2, <1>3, <2>1, <2>3 DEF UqWindow
  <2> QED
    BY <1>3, <2>2, <2>3, <2>4, <2>5 DEF UqWindow
<1>7. UqCells' /\ UqOrder'
  BY <1>1, <1>3 DEF UqCells, UqOrder
<1> QED
  BY <1>1, <1>4, <1>5, <1>6, <1>7

LEMMA ClaimHeadKeeps ==
  ASSUME UqSound, ~early, ring = "unlock", U!ClaimHead
  PROVE  UqSound' /\ early' = early /\ ring' = ring
<1> USE DEF UqSound
<1>1. /\ taker.at = "claims" /\ taker.pos = headAt /\ headAt \in U!Cells
      /\ headAt' = Nth(headAt, 1) /\ taker' = [taker EXCEPT !.at = "moves"]
      /\ UNCHANGED <<ring, cells, tailAt, inside, emplacer, offered, accepted, taken, early>>
  BY AfterIsNext DEF U!ClaimHead, EndsKnown, UqTypes
<1>2. taker' = [at |-> "moves", pos |-> taker.pos]
  BY <1>1 DEF UqTypes
<1>3. /\ ~Popping /\ Popping' /\ (Constructing' <=> Constructing)
      /\ Low' = Low /\ Passed' = Passed /\ Stored' = Stored /\ Claimed' = Claimed
  <2>1. ~Popping /\ Popping' /\ (Constructing' <=> Constructing)
    BY <1>1, <1>2 DEF Constructing, Popping
  <2>2. Low' = Low /\ Passed' = Passed
    BY <1>1, <1>2, <2>1 DEF Low, Passed
  <2> QED
    BY <1>1, <2>1, <2>2 DEF Stored, Claimed, One
<1>4. UqTypes'
  <2>1. taker' \in [at : {"idle", "loaded", "claims", "moves", "destroys"}, pos : U!Cells]
    BY <1>1, <1>2
  <2>2. headAt' \in U!Cells
    BY <1>1, NthFacts, Room
  <2> QED
    BY <1>1, <2>1, <2>2 DEF UqTypes
<1>5. EndsKnown'
  BY <1>1, <1>2, <1>3 DEF EndsKnown
<1>6. UqWindow'
  <2>1. /\ Claimed \in 0 .. Capacity /\ Claimed > 0
        /\ emplacer.at = "claims" => Claimed < Capacity
    BY <1>1, <1>3, LowIsCell DEF UqWindow, One
  <2>2. One(Popping)' = 1
    BY <1>3 DEF One
  <2>3. /\ Claimed - 1 \in 0 .. Capacity
        /\ emplacer.at = "claims" => Claimed - 1 < Capacity
    BY <2>1, Room
  <2> QED
    BY <1>1, <1>2, <1>3, <2>2, <2>3 DEF UqWindow
<1>7. UqCells' /\ UqOrder'
  BY <1>1, <1>3 DEF UqCells, UqOrder
<1> QED
  BY <1>1, <1>4, <1>5, <1>6, <1>7

\* The cell that is constructed in is the first free one.
LEMMA ConstructHere ==
  ASSUME UqSound, Constructing
  PROVE  /\ Stored \in 0 .. Capacity /\ emplacer.pos = Nth(Low, Stored)
         /\ ring = "unlock" /\ cells[emplacer.pos] = 0
<1> USE DEF UqSound
<1>1. /\ Claimed = Stored + 1 /\ Stored \in Nat /\ Low \in U!Cells /\ emplacer.pos \in U!Cells
      /\ tailAt = Nth(Low, Claimed) /\ tailAt = Nth(emplacer.pos, 1)
      /\ Claimed - One(Popping) \in 0 .. Capacity /\ One(Popping) \in 0 .. 1
  BY LowIsCell DEF UqWindow, EndsKnown, Claimed, One
<1>2. Stored \in 0 .. Capacity
  BY <1>1, Room
<1>3. emplacer.pos = Nth(Low, Stored)
  BY <1>1, <1>2, Room DEF Nth
<1>4. ring = "unlock"
  BY DEF UqTypes, U!Idle, Constructing
<1> QED
  BY <1>2, <1>3, <1>4 DEF UqCells

\* An element is stored in the first free cell.
LEMMA StoreOne ==
  ASSUME UqSound, NEW v \in Nat \ {0}, Stored \in 0 .. Capacity,
         cells' = [cells EXCEPT ![Nth(Low, Stored)] = v], accepted' = Append(accepted, v),
         Low' = Low, UNCHANGED <<ring, taken>>, taker.at = taker'.at
  PROVE  /\ Passed' = Passed /\ Stored' = Stored + 1
         /\ UqCells' /\ UqOrder'
         /\ cells' \in [U!Cells -> Nat] /\ accepted' \in Seq(Nat \ {0})
<1> USE DEF UqSound
<1>1. /\ Low \in U!Cells /\ Passed \in Nat /\ Stored \in Nat /\ Capacity \in Nat
      /\ accepted \in Seq(Nat \ {0}) /\ Len(accepted) \in Nat /\ Len(taken) \in Nat
      /\ Passed + Stored = Len(accepted) /\ cells \in [U!Cells -> Nat]
      /\ taken \in Seq(Nat) /\ taker'.at = taker.at
  <2>1. Stored = Len(accepted) - Passed
    BY DEF Stored
  <2>2. Low \in U!Cells /\ Len(accepted) \in Nat /\ Len(taken) \in Nat /\ Capacity \in Nat
    BY LowIsCell, Room
  <2>3. Passed \in Nat /\ Stored \in Nat
    BY DEF UqWindow
  <2> QED
    BY <2>1, <2>2, <2>3 DEF UqTypes
<1>2. Passed' = Passed /\ Len(accepted') = Len(accepted) + 1
  BY <1>1 DEF Passed, One
<1>3. Stored' = Stored + 1
  BY <1>1, <1>2 DEF Stored
<1>4. Nth(Low, Stored) \in U!Cells
  BY <1>1, NthFacts
<1>5. cells' \in [U!Cells -> Nat] /\ accepted' \in Seq(Nat \ {0})
  BY <1>1, <1>4
<1>6. ASSUME NEW k \in 0 .. Capacity
      PROVE  /\ k < Stored + 1 => cells'[Nth(Low, k)] = accepted'[Passed + k + 1]
             /\ k >= Stored + 1 /\ ring = "unlock" => cells'[Nth(Low, k)] = 0
  <2>1. Nth(Low, k) \in U!Cells
    BY <1>1, NthFacts
  <2>2. CASE k = Stored
    BY <1>1, <1>4, <2>2
  <2>3. CASE k # Stored
    <3>1. Nth(Low, k) # Nth(Low, Stored)
      BY <1>1, <2>3, NthFacts
    <3>2. cells'[Nth(Low, k)] = cells[Nth(Low, k)]
      BY <1>1, <1>4, <2>1, <3>1
    <3>3. /\ k < Stored => cells[Nth(Low, k)] = accepted[Passed + k + 1]
          /\ k >= Stored /\ ring = "unlock" => cells[Nth(Low, k)] = 0
      BY DEF UqCells
    <3>4. k < Stored => accepted'[Passed + k + 1] = accepted[Passed + k + 1]
      BY <1>1
    <3> QED
      BY <1>1, <2>3, <3>2, <3>3, <3>4
  <2> QED
    BY <2>2, <2>3
<1>7. UqCells'
  BY <1>1, <1>2, <1>3, <1>6 DEF UqCells
<1>8. UqOrder'
  <2>1. Len(taken) <= Len(accepted)
    BY <1>1 DEF UqWindow, Passed, One
  <2> QED
    BY <1>1, <2>1, SMTT(30) DEF UqOrder
<1> QED
  BY <1>2, <1>3, <1>5, <1>7, <1>8

LEMMA ConstructKeeps ==
  ASSUME UqSound, ~early, ring = "unlock", U!ConstructAt
  PROVE  UqSound' /\ early' = early /\ ring' = ring
<1> USE DEF UqSound
<1>1. /\ emplacer.at = "constructs" /\ Constructing
      /\ offered \in Nat /\ offered' = offered + 1
      /\ cells' = [cells EXCEPT ![emplacer.pos] = offered + 1]
      /\ accepted' = Append(accepted, offered + 1)
      /\ emplacer' = [at |-> "idle", pos |-> 0]
      /\ UNCHANGED <<ring, headAt, tailAt, inside, taker, taken, early>>
  BY DEF U!ConstructAt, Constructing, UqTypes, U!Idle
<1>2. Stored \in 0 .. Capacity /\ emplacer.pos = Nth(Low, Stored)
  BY <1>1, ConstructHere
<1>3. ~Constructing' /\ (Popping' <=> Popping) /\ Low' = Low
  BY <1>1 DEF Constructing, Popping, Low
<1>4. /\ Passed' = Passed /\ Stored' = Stored + 1
      /\ UqCells' /\ UqOrder'
      /\ cells' \in [U!Cells -> Nat] /\ accepted' \in Seq(Nat \ {0})
  <2>1. /\ offered + 1 \in Nat \ {0} /\ taker.at = taker'.at /\ UNCHANGED <<ring, taken>>
        /\ cells' = [cells EXCEPT ![Nth(Low, Stored)] = offered + 1]
    BY <1>1, <1>2
  <2> QED
    BY <1>1, <1>2, <1>3, <2>1, StoreOne
<1>5. Claimed' = Claimed
  BY <1>1, <1>2, <1>3, <1>4 DEF Claimed, One
<1>6. UqTypes'
  <2>1. emplacer' \in [at : {"idle", "loaded", "claims", "constructs"}, pos : U!Cells]
    BY <1>1, Room
  <2> QED
    BY <1>1, <1>4, <2>1 DEF UqTypes
<1>7. EndsKnown'
  BY <1>1, <1>3 DEF EndsKnown
<1>8. UqWindow'
  BY <1>1, <1>2, <1>3, <1>4, <1>5 DEF UqWindow, One
<1> QED
  BY <1>1, <1>4, <1>6, <1>7, <1>8

\* A pop before the element is there has no outcome: the ring is left as it is.
LEMMA MoveOutKeeps ==
  ASSUME UqSound, ~early, ring = "unlock", U!MoveOut
  PROVE  UqInv'
<1> USE DEF UqSound
<1>1. /\ taker.at = "moves" /\ Popping /\ Low = taker.pos /\ Passed = Len(taken)
      /\ early' = (cells[Low] = 0)
      /\ taken' = Append(taken, cells[Low])
      /\ taker' = [taker EXCEPT !.at = "destroys"]
      /\ UNCHANGED <<ring, cells, headAt, tailAt, inside, emplacer, offered, accepted>>
  <2>1. taker.at = "moves" /\ taken \in Seq(Nat)
    BY DEF U!MoveOut, UqTypes
  <2> QED
    BY <2>1 DEF U!MoveOut, Popping, Low, Passed, One
<1>2. taker' = [at |-> "destroys", pos |-> taker.pos]
  BY <1>1 DEF UqTypes
<1>3. Constructing' => cells'[emplacer'.pos] = 0
  BY <1>1, ConstructHere DEF Constructing
<1>4. CASE cells[Low] = 0
  BY <1>1, <1>3, <1>4 DEF UqInv
<1>5. CASE cells[Low] # 0
  <2>1. /\ Low \in U!Cells /\ Capacity \in Nat /\ Stored \in Nat /\ Passed \in Nat
        /\ taken \in Seq(Nat) /\ cells[Low] \in Nat /\ accepted \in Seq(Nat \ {0})
        /\ Len(taken) + Stored = Len(accepted) /\ Len(accepted) \in Nat
    BY <1>1, LowIsCell, Room DEF UqTypes, UqWindow, Stored
  <2>2. Stored > 0 /\ cells[Low] = accepted[Len(taken) + 1]
    <3>1. Nth(Low, 0) = Low /\ 0 \in 0 .. Capacity
      BY <2>1, NthFacts
    <3>2. /\ 0 < Stored => cells[Nth(Low, 0)] = accepted[Passed + 0 + 1]
          /\ 0 >= Stored => cells[Nth(Low, 0)] = 0
      BY <3>1 DEF UqCells
    <3> QED
      BY <1>1, <1>5, <2>1, <3>1, <3>2
  <2>3. /\ taken' \in Seq(Nat) /\ Len(taken') = Len(taken) + 1
        /\ Passed' = Passed
    BY <1>1, <1>2, <2>1 DEF Passed, One
  <2>4. /\ Popping' /\ (Constructing' <=> Constructing) /\ Low' = Low
        /\ Stored' = Stored /\ Claimed' = Claimed
    <3>1. Popping' /\ (Constructing' <=> Constructing) /\ Low' = Low
      BY <1>1, <1>2 DEF Popping, Constructing, Low
    <3>2. Stored' = Stored
      BY <1>1, <2>3 DEF Stored
    <3> QED
      BY <3>1, <3>2 DEF Claimed, One
  <2>5. UqTypes'
    <3>1. taker' \in [at : {"idle", "loaded", "claims", "moves", "destroys"}, pos : U!Cells]
      BY <1>2, LowIsCell
    <3> QED
      BY <1>1, <2>3, <3>1 DEF UqTypes
  <2>6. EndsKnown'
    BY <1>1, <1>2, <2>4 DEF EndsKnown
  <2>7. UqWindow'
    BY <1>1, <1>2, <2>1, <2>2, <2>3, <2>4 DEF UqWindow, One
  <2>8. UqCells'
    BY <1>1, <2>3, <2>4 DEF UqCells
  <2>9. UqOrder'
    BY <1>1, <2>1, <2>2 DEF UqOrder
  <2> QED
    BY <1>1, <1>3, <1>5, <2>5, <2>6, <2>7, <2>8, <2>9 DEF UqInv
<1> QED
  BY <1>4, <1>5

LEMMA DestroyKeeps ==
  ASSUME UqSound, ~early, ring = "unlock", U!DestroyAt
  PROVE  UqSound' /\ early' = early /\ ring' = ring
<1> USE DEF UqSound
<1>1. /\ taker.at = "destroys" /\ Popping /\ Low = taker.pos /\ Passed = Len(taken) - 1
      /\ cells' = [cells EXCEPT ![Low] = 0]
      /\ taker' = [at |-> "idle", pos |-> 0]
      /\ UNCHANGED <<ring, headAt, tailAt, inside, emplacer, offered, accepted, taken, early>>
  <2>1. taker.at = "destroys"
    BY DEF U!DestroyAt
  <2> QED
    BY <2>1 DEF U!DestroyAt, Popping, Low, Passed, One, U!Idle
<1>2. /\ Low \in U!Cells /\ Capacity \in Nat /\ Stored \in Nat /\ Stored > 0
      /\ Passed \in Nat /\ cells \in [U!Cells -> Nat] /\ Len(accepted) \in Nat
      /\ Len(taken) \in Nat /\ Passed + Stored = Len(accepted)
  <2>1. Stored = Len(accepted) - Passed
    BY DEF Stored
  <2>2. Low \in U!Cells /\ Len(accepted) \in Nat /\ Len(taken) \in Nat /\ Capacity \in Nat
    BY LowIsCell, Room
  <2>3. Passed \in Nat /\ Stored \in Nat /\ Stored > 0
    BY <1>1 DEF UqWindow
  <2> QED
    BY <2>1, <2>2, <2>3 DEF UqTypes
<1>3. /\ ~Popping' /\ (Constructing' <=> Constructing) /\ Low' = headAt /\ headAt = Nth(Low, 1)
  BY <1>1 DEF Popping, Constructing, Low, EndsKnown
<1>4. Passed' = Passed + 1
  BY <1>1, <1>2 DEF Passed, One
<1>5. Stored' = Stored - 1
  BY <1>1, <1>2, <1>4 DEF Stored
<1>6. /\ Claimed' = Claimed - 1
      /\ Claimed \in 0 .. Capacity + 1 /\ Stored <= Claimed
  BY <1>1, <1>2, <1>3, <1>5 DEF UqWindow, Claimed, One
<1>7. UqTypes'
  <2>1. taker' \in [at : {"idle", "loaded", "claims", "moves", "destroys"}, pos : U!Cells]
    BY <1>1, Room
  <2>2. cells' \in [U!Cells -> Nat]
    BY <1>1, <1>2
  <2> QED
    BY <1>1, <2>1, <2>2 DEF UqTypes
<1>8. EndsKnown'
  BY <1>1, <1>3 DEF EndsKnown
<1>9. UqWindow'
  <2>1. tailAt = Nth(Low, Claimed) /\ Nth(Low, Claimed) = Nth(headAt, Claimed - 1)
    <3>1. Claimed - 1 \in 0 .. Capacity
      BY <1>2, <1>6
    <3>2. Nth(Nth(Low, 1), Claimed - 1) = Nth(Low, (Claimed - 1) + 1)
      BY <1>2, <3>1, NthFacts
    <3> QED
      BY <1>3, <1>6, <3>2 DEF UqWindow
  <2> QED
    BY <1>1, <1>2, <1>3, <1>4, <1>5, <1>6, <2>1 DEF UqWindow, One
<1>10. UqCells'
  <2> SUFFICES ASSUME NEW k \in 0 .. Capacity
               PROVE  /\ k < Stored - 1 => cells'[Nth(headAt, k)] = accepted[Passed + 1 + k + 1]
                      /\ k >= Stored - 1 => cells'[Nth(headAt, k)] = 0
    BY <1>1, <1>3, <1>4, <1>5 DEF UqCells
  <2>1. Nth(headAt, k) = Nth(Low, k + 1)
    BY <1>2, <1>3, NthFacts
  <2>2. CASE k = Capacity
    <3>1. Nth(Low, k + 1) = Low
      BY <1>2, <2>2, NthFacts
    <3> QED
      BY <1>1, <1>2, <1>6, <2>1, <2>2, <3>1
  <2>3. CASE k < Capacity
    <3>1. k + 1 \in 0 .. Capacity /\ 0 \in 0 .. Capacity
      BY <1>2, <2>3
    <3>2. Nth(Low, k + 1) # Low /\ Nth(Low, k + 1) \in U!Cells
      BY <1>2, <3>1, NthFacts
    <3>3. cells'[Nth(headAt, k)] = cells[Nth(Low, k + 1)]
      BY <1>1, <1>2, <2>1, <3>2
    <3>4. /\ k + 1 < Stored => cells[Nth(Low, k + 1)] = accepted[Passed + (k + 1) + 1]
          /\ k + 1 >= Stored => cells[Nth(Low, k + 1)] = 0
      BY <3>1 DEF UqCells
    <3> QED
      BY <1>2, <3>3, <3>4
  <2> QED
    BY <1>2, <2>2, <2>3
<1>11. UqOrder'
  BY <1>1 DEF UqOrder
<1> QED
  BY <1>1, <1>7, <1>8, <1>9, <1>10, <1>11

\* Under one mutex nobody stands between the steps.
LEMMA LockedRing ==
  ASSUME UqSound, ring = "lock"
  PROVE  /\ emplacer = U!Idle /\ taker = U!Idle
         /\ ~Constructing /\ ~Popping /\ Low = headAt
         /\ Passed = Len(taken) /\ Stored = inside /\ Claimed = inside
         /\ inside \in 0 .. Capacity /\ Len(taken) + inside = Len(accepted)
         /\ Len(taken) \in Nat /\ Len(accepted) \in Nat /\ tailAt = Nth(headAt, inside)
<1> USE DEF UqSound
<1>1. emplacer = U!Idle /\ taker = U!Idle /\ inside = Stored
  BY DEF UqTypes
<1>2. ~Constructing /\ ~Popping /\ taker.at # "destroys"
  BY <1>1 DEF Constructing, Popping, U!Idle
<1>3. Low = headAt /\ Len(taken) \in Nat /\ Len(accepted) \in Nat
  BY <1>2, LowIsCell DEF Low
<1>4. Passed = Len(taken)
  BY <1>2, <1>3 DEF Passed, One
<1>5. Stored \in Nat /\ Stored = Len(accepted) - Passed /\ Claimed = Stored
  BY <1>2 DEF UqWindow, Stored, Claimed, One
<1>6. Claimed \in 0 .. Capacity /\ tailAt = Nth(headAt, Claimed)
  BY <1>2, <1>3, <1>5, Room DEF UqWindow, One
<1> QED
  BY <1>1, <1>2, <1>3, <1>4, <1>5, <1>6

LEMMA EmplaceLockedKeeps ==
  ASSUME UqSound, ring = "lock", U!EmplaceLocked
  PROVE  UqSound' /\ early' = early /\ ring' = ring
<1> USE DEF UqSound
<1>1. /\ offered \in Nat /\ offered' = offered + 1 /\ offered + 1 \in Nat \ {0}
      /\ UNCHANGED <<ring, headAt, emplacer, taker, taken, early>>
      /\ ~Constructing' /\ ~Popping' /\ Low' = headAt /\ Capacity \in Nat
      /\ headAt \in U!Cells /\ emplacer' = U!Idle /\ taker' = U!Idle
      /\ taker'.at = "idle" /\ emplacer'.at = "idle" /\ taker.at = "idle"
  BY LockedRing, Room, SMTT(30) DEF U!EmplaceLocked, UqTypes, Constructing, Popping, Low, U!Idle
<1>2. EndsKnown'
  BY <1>1 DEF EndsKnown
<1>3. CASE inside = Capacity
  <2>1. UNCHANGED <<cells, tailAt, inside, accepted>>
    BY <1>3 DEF U!EmplaceLocked
  <2>2. /\ (Popping' <=> Popping) /\ (Constructing' <=> Constructing)
        /\ Low' = Low /\ Passed' = Passed /\ Stored' = Stored /\ Claimed' = Claimed
    BY <1>1, <2>1, LockedRing DEF Low, Passed, Stored, Claimed, One
  <2>3. UqTypes'
    BY <1>1, <2>1, <2>2 DEF UqTypes
  <2>4. UqWindow' /\ UqCells' /\ UqOrder'
    BY <1>1, <2>1, <2>2 DEF UqWindow, UqCells, UqOrder, One
  <2> QED
    BY <1>1, <1>2, <2>3, <2>4
<1>4. CASE inside # Capacity
  <2>1. /\ cells' = [cells EXCEPT ![tailAt] = offered + 1]
        /\ tailAt' = Nth(tailAt, 1)
        /\ inside' = inside + 1
        /\ accepted' = Append(accepted, offered + 1)
    BY <1>1, <1>4, AfterIsNext DEF U!EmplaceLocked, UqTypes
  <2>2. inside \in 0 .. Capacity - 1 /\ Stored = inside /\ Low = headAt /\ tailAt = Nth(Low, Stored)
    BY <1>1, <1>4, LockedRing
  <2>3. /\ Passed' = Passed /\ Stored' = Stored + 1
        /\ UqCells' /\ UqOrder'
        /\ cells' \in [U!Cells -> Nat] /\ accepted' \in Seq(Nat \ {0})
    <3>1. /\ taker.at = taker'.at /\ UNCHANGED <<ring, taken>> /\ Low' = Low
          /\ Stored \in 0 .. Capacity
          /\ cells' = [cells EXCEPT ![Nth(Low, Stored)] = offered + 1]
      BY <1>1, <2>1, <2>2
    <3> QED
      BY <1>1, <2>1, <3>1, StoreOne
  <2>4. Claimed' = inside + 1 /\ Stored' = inside + 1
    BY <1>1, <2>2, <2>3 DEF Claimed, One
  <2>5. tailAt' = Nth(headAt, inside + 1) /\ tailAt' \in U!Cells
    BY <1>1, <2>1, <2>2, Room DEF Nth
  <2>6. UqTypes'
    BY <1>1, <2>1, <2>3, <2>4, <2>5 DEF UqTypes
  <2>7. UqWindow'
    BY <1>1, <2>2, <2>3, <2>4, <2>5 DEF UqWindow, One
  <2> QED
    BY <1>1, <1>2, <2>3, <2>6, <2>7
<1> QED
  BY <1>3, <1>4

LEMMA PopLockedKeeps ==
  ASSUME UqSound, ring = "lock", U!PopLocked
  PROVE  UqSound' /\ early' = early /\ ring' = ring
<1> USE DEF UqSound
<1>1. /\ taken' = Append(taken, cells[headAt])
      /\ headAt' = Nth(headAt, 1) /\ inside' = inside - 1
      /\ UNCHANGED <<ring, cells, tailAt, emplacer, taker, offered, accepted, early>>
      /\ inside \in 1 .. Capacity /\ Capacity \in Nat /\ headAt \in U!Cells
      /\ cells \in [U!Cells -> Nat] /\ taken \in Seq(Nat) /\ accepted \in Seq(Nat \ {0})
  <2>1. inside \in 0 .. Capacity /\ inside # 0 /\ Capacity \in Nat
    BY LockedRing, Room DEF U!PopLocked
  <2> QED
    BY <2>1, AfterIsNext DEF U!PopLocked, UqTypes
<1>2. /\ ~Constructing' /\ ~Popping' /\ Low' = headAt' /\ emplacer' = U!Idle /\ taker' = U!Idle
      /\ taker'.at = "idle" /\ emplacer'.at = "idle"
  BY <1>1, LockedRing DEF Constructing, Popping, Low, U!Idle
<1>3. /\ Passed = Len(taken) /\ Stored = inside /\ Low = headAt
      /\ Len(taken) + inside = Len(accepted) /\ Len(taken) \in Nat /\ Len(accepted) \in Nat
      /\ tailAt = Nth(headAt, inside)
  BY LockedRing
<1>4. Len(taken') = Len(taken) + 1 /\ taken' \in Seq(Nat)
  BY <1>1
<1>5. Passed' = Passed + 1
  BY <1>2, <1>3, <1>4 DEF Passed, One
<1>6. Stored' = inside - 1 /\ Claimed' = inside - 1
  BY <1>1, <1>2, <1>3, <1>5 DEF Stored, Claimed, One
<1>7. UqTypes'
  <2>1. headAt' \in U!Cells
    BY <1>1, NthFacts
  <2> QED
    BY <1>1, <1>2, <1>4, <1>6, <2>1 DEF UqTypes
<1>8. EndsKnown'
  BY <1>2 DEF EndsKnown
<1>9. UqWindow'
  <2>1. inside - 1 \in 0 .. Capacity
    BY <1>1
  <2>2. Nth(headAt', inside - 1) = Nth(headAt, (inside - 1) + 1)
    BY <1>1, <2>1, NthFacts
  <2> QED
    BY <1>1, <1>2, <1>3, <1>5, <1>6, <2>1, <2>2 DEF UqWindow, One
<1>10. UqCells'
  <2> SUFFICES ASSUME NEW k \in 0 .. Capacity, k < inside - 1
               PROVE  cells[Nth(headAt', k)] = accepted[Passed + 1 + k + 1]
    BY <1>1, <1>2, <1>5, <1>6 DEF UqCells
  <2>1. Nth(headAt', k) = Nth(headAt, k + 1) /\ k + 1 \in 0 .. Capacity /\ k + 1 < Stored
    BY <1>1, <1>3, NthFacts
  <2>2. cells[Nth(headAt, k + 1)] = accepted[Passed + (k + 1) + 1]
    BY <1>3, <2>1 DEF UqCells
  <2> QED
    BY <1>3, <2>1, <2>2
<1>11. UqOrder'
  <2>1. cells[headAt] = accepted[Len(taken) + 1]
    <3>1. Nth(headAt, 0) = headAt /\ 0 \in 0 .. Capacity
      BY <1>1, NthFacts
    <3>2. cells[Nth(headAt, 0)] = accepted[Passed + 0 + 1]
      BY <1>1, <1>3, <3>1 DEF UqCells
    <3> QED
      BY <1>3, <3>1, <3>2
  <2> QED
    BY <1>1, <1>3, <2>1 DEF UqOrder
<1> QED
  BY <1>1, <1>7, <1>8, <1>9, <1>10, <1>11

LEMMA UqInitInv == U!UqInit => UqInv
<1> SUFFICES ASSUME U!UqInit PROVE UqInv
  OBVIOUS
<1>1. /\ emplacer = U!Idle /\ taker = U!Idle /\ headAt = 0 /\ tailAt = 0 /\ inside = 0
      /\ accepted = <<>> /\ taken = <<>> /\ early = FALSE /\ offered = 0
      /\ cells = [i \in U!Cells |-> 0] /\ ring \in {"unlock", "lock"}
      /\ 0 \in U!Cells /\ Capacity \in Nat
  BY Room DEF U!UqInit
<1>2. ~Constructing /\ ~Popping /\ emplacer.at = "idle" /\ taker.at = "idle" /\ Low = 0
  BY <1>1 DEF Constructing, Popping, Low, U!Idle
<1>3. Passed = 0 /\ Stored = 0 /\ Claimed = 0 /\ One(Popping) = 0
  BY <1>1, <1>2 DEF Passed, Stored, Claimed, One
<1>4. UqTypes
  <2>1. /\ U!Idle \in [at : {"idle", "loaded", "claims", "constructs"}, pos : U!Cells]
        /\ U!Idle \in [at : {"idle", "loaded", "claims", "moves", "destroys"}, pos : U!Cells]
    BY <1>1 DEF U!Idle
  <2> QED
    BY <1>1, <1>3, <2>1 DEF UqTypes
<1>5. EndsKnown
  BY <1>2 DEF EndsKnown
<1>6. UqWindow
  BY <1>1, <1>2, <1>3, NthFacts DEF UqWindow
<1>7. UqCells
  BY <1>1, <1>2, <1>3, NthFacts DEF UqCells
<1>8. UqOrder
  BY <1>1 DEF UqOrder
<1> QED
  BY <1>1, <1>4, <1>5, <1>6, <1>7, <1>8 DEF UqInv, UqSound

LEMMA UqStepInv == UqInv /\ [U!UqNext]_uVars => UqInv'
<1> SUFFICES ASSUME UqInv, [U!UqNext]_uVars PROVE UqInv'
  OBVIOUS
<1>1. CASE ring = "unlock" /\ ~early /\ (U!EmplaceUnlocked \/ U!PopUnlocked)
  <2>1. CASE U!MoveOut
    BY <1>1, <2>1, MoveOutKeeps DEF UqInv
  <2>2. CASE \/ U!LoadTail \/ U!TestHead \/ U!LoadHead \/ U!TestTail
             \/ U!ClaimTail \/ U!ConstructAt \/ U!ClaimHead \/ U!DestroyAt
    <3>1. UqSound' /\ early' = early /\ ring' = ring
      BY <1>1, <2>2, LookAtEnds, ClaimTailKeeps, ConstructKeeps, ClaimHeadKeeps, DestroyKeeps
         DEF UqInv
    <3> QED
      BY <1>1, <3>1 DEF UqInv
  <2> QED
    BY <1>1, <2>1, <2>2 DEF U!EmplaceUnlocked, U!PopUnlocked
<1>2. CASE ring = "lock" /\ (U!EmplaceLocked \/ U!PopLocked)
  <2>1. ~early /\ UqSound
    BY <1>2 DEF UqInv
  <2>2. UqSound' /\ early' = early /\ ring' = ring
    BY <1>2, <2>1, EmplaceLockedKeeps, PopLockedKeeps
  <2> QED
    BY <2>1, <2>2 DEF UqInv
<1>3. CASE UNCHANGED uVars
  <2>1. UNCHANGED <<ring, cells, headAt, tailAt, inside, emplacer, taker, offered, accepted,
                    taken, early>>
    BY <1>3 DEF uVars
  <2>2. /\ (Constructing' <=> Constructing) /\ (Popping' <=> Popping)
        /\ Low' = Low /\ Passed' = Passed /\ Stored' = Stored /\ Claimed' = Claimed
    BY <2>1 DEF Constructing, Popping, Low, Passed, Stored, Claimed, One
  <2>3. CASE UqSound
    <3>1. UqTypes'
      BY <2>1, <2>2, <2>3 DEF UqSound, UqTypes
    <3>2. EndsKnown'
      BY <2>1, <2>2, <2>3 DEF UqSound, EndsKnown
    <3>3. UqWindow'
      BY <2>1, <2>2, <2>3 DEF UqSound, UqWindow, One
    <3>4. UqCells' /\ UqOrder'
      BY <2>1, <2>2, <2>3 DEF UqSound, UqCells, UqOrder
    <3> QED
      BY <2>1, <2>2, <3>1, <3>2, <3>3, <3>4 DEF UqInv, UqSound
  <2>4. CASE ~UqSound
    BY <2>1, <2>2, <2>4 DEF UqInv
  <2> QED
    BY <2>3, <2>4
<1> QED
  BY <1>1, <1>2, <1>3 DEF U!UqNext

LEMMA SameBeginning ==
  ASSUME NEW s \in Seq(Nat), NEW t \in Seq(Nat), Len(s) <= Len(t),
         \A i \in 1 .. Len(s) : s[i] = t[i]
  PROVE  SubSeq(s, 1, Len(s)) = SubSeq(t, 1, Len(s))
<1>1. Len(s) \in Nat /\ Len(t) \in Nat /\ Len(s) - 1 + 1 = Len(s)
  BY LenProperties
<1>2. PICK n \in Nat : n = Len(s)
  BY <1>1
<1>3. \A i \in 1 .. n : s[i] \in Nat /\ t[i] \in Nat
  BY <1>1, <1>2, ElementOfSeq
<1>4. ASSUME NEW u \in Seq(Nat), \A i \in 1 .. n : u[i] \in Nat
      PROVE  /\ SubSeq(u, 1, n) \in Seq(Nat)
             /\ Len(SubSeq(u, 1, n)) = n
             /\ \A i \in 1 .. n : SubSeq(u, 1, n)[i] = u[i]
  <2>1. /\ SubSeq(u, 1, n) \in Seq(Nat)
        /\ Len(SubSeq(u, 1, n)) = IF 1 <= n THEN n - 1 + 1 ELSE 0
        /\ \A i \in 1 .. n - 1 + 1 : SubSeq(u, 1, n)[i] = u[1 + i - 1]
    BY <1>4, SubSeqProperties
  <2>2. n - 1 + 1 = n /\ (~(1 <= n) => n = 0) /\ (\A i \in 1 .. n : 1 + i - 1 = i)
    OBVIOUS
  <2> QED
    BY ONLY <2>1, <2>2
<1>5. SubSeq(s, 1, n) = SubSeq(t, 1, n)
  <2>1. \A i \in 1 .. n : SubSeq(s, 1, n)[i] = SubSeq(t, 1, n)[i]
    BY <1>2, <1>3, <1>4
  <2> QED
    BY <1>3, <1>4, <2>1, SeqEqual
<1> QED
  BY <1>2, <1>5

LEMMA UqInvApart == UqInv => U!CellsApart
<1> SUFFICES ASSUME UqInv PROVE U!CellsApart
  OBVIOUS
<1>1. emplacer.at = "constructs" => cells[emplacer.pos] = 0
  BY ConstructHere DEF UqInv, Constructing
<1>2. ASSUME ~early PROVE U!IsPrefix(taken, accepted)
  <2>1. /\ UqSound /\ taken \in Seq(Nat) /\ accepted \in Seq(Nat \ {0})
        /\ Len(taken) \in Nat /\ Len(accepted) \in Nat
    BY <1>2, LowIsCell DEF UqInv, UqSound, UqTypes
  <2>2. Len(taken) <= Len(accepted)
    BY <2>1 DEF UqSound, UqWindow, Stored, Passed, One
  <2>3. \A i \in 1 .. Len(taken) : taken[i] = accepted[i]
    BY <2>1 DEF UqSound, UqOrder
  <2>4. SubSeq(taken, 1, Len(taken)) = SubSeq(accepted, 1, Len(taken))
    <3>1. taken \in Seq(Nat) /\ accepted \in Seq(Nat)
      BY ONLY <2>1
    <3> QED
      BY ONLY <2>2, <2>3, <3>1, SameBeginning
  <2> QED
    BY <2>2, <2>4 DEF U!IsPrefix
<1> QED
  BY <1>1, <1>2 DEF U!CellsApart

-----------------------------------------------------------------------------
(* The containers with one or two ends, together. *)

LEMMA PartsStep ==
  [MCNext]_allVars => [LqNext]_lqVars /\ [LcNext]_lcVars /\ [U!UqNext]_uVars
BY DEF MCNext, allVars, AllAsleep

\* Threads at the two ends of a list or of a ring never touch the same node or
\* cell, whatever the capacity and however many threads push and pop
\* (queue.cc, unlock_queue.cc, lock_queue.cc).
THEOREM EndsNeverMeet == MCSpec => []EndsApart
<1>1. MCInit => LqInit /\ U!UqInit
  BY DEF MCInit
<1>2. MCSpec => []SidesApart
  <2>1. MCSpec => LqSpec
    BY <1>1, PartsStep, PTL DEF MCSpec, LqSpec
  <2> QED
    BY <2>1, EndsKeepApart
<1>3. MCSpec => []U!CellsApart
  BY <1>1, PartsStep, UqInitInv, UqStepInv, UqInvApart, PTL DEF MCSpec
<1> QED
  BY <1>2, <1>3, PTL DEF EndsApart

\* No consumer of the list or of the containers under one mutex is forgotten,
\* however many there are (queue.cc).
THEOREM NobodySleepsOn == MCSpec => []NobodyForgotten
<1>1. MCInit => LqInit /\ LcInit
  BY DEF MCInit
<1>2. MCSpec => LqSpec /\ LcSpec
  BY <1>1, PartsStep, PTL DEF MCSpec, LqSpec, LcSpec
<1> QED
  BY <1>2, NotifyEachIsEnough, AssignmentWakesAll, PTL DEF NobodyForgotten

-----------------------------------------------------------------------------
(* The list with a mutex in every node. *)

\* Nodes are pushed at the front, so each has a smaller number than the one
\* before it, and all are smaller than the number _head would have.
Alive == (1 .. made) \ dead
Rank(n) == IF n = 0 THEN made + 1 ELSE n

\* The next of a node of the list is the largest that is left below it.
LinksTo(n, m) ==
  /\ m \in {0} \cup Alive
  /\ m < Rank(n)
  /\ \A x \in Alive : x < Rank(n) => x <= m

Linked == \A n \in {0} \cup Alive : LinksTo(n, link[n])

\* A walker holds the locks of a node of the list, and of its next.
Walking(t) ==
  /\ walk[t] # "idle" => at[t] \in {0} \cup Alive
  /\ ahead[t] # 0 =>
       /\ walk[t] \in {"find", "each", "remove"}
       /\ ahead[t] = link[at[t]] /\ ahead[t] \in Alive

\* Where a remover is, or looks, nobody else is.
Shares(t, u) ==
  /\ walk[t] # "idle" /\ walk[u] # "idle"
  /\ \/ at[t] = at[u]
     \/ ahead[t] # 0 /\ (ahead[t] = at[u] \/ ahead[t] = ahead[u])
     \/ ahead[u] # 0 /\ ahead[u] = at[t]

Wanted(t) == (atStart[t] \cap Matching) \ dead
NotPassed(t) ==
  walk[t] \in {"find", "remove"} => \A m \in Wanted(t) : m < Rank(at[t])

LlInv ==
  /\ LlTypeOK
  /\ Linked
  /\ \A t \in Walkers : Walking(t)
  /\ \A t, u \in Walkers : t # u /\ Excluding(t) => ~Shares(t, u)
  /\ \A t \in Walkers : atStart[t] \subseteq 1 .. made
  /\ \A t \in Walkers : NotPassed(t)

LEMMA HolderFacts ==
  ASSUME NEW t \in Walkers, NEW u \in Walkers
  PROVE  /\ walk[t] # "idle" => t \in Holders(at[t])
         /\ walk[t] # "idle" /\ ahead[t] # 0 => t \in Holders(ahead[t])
         /\ \A n : t \in Holders(n) => walk[t] # "idle" /\ (at[t] = n \/ (ahead[t] = n /\ n # 0))
BY DEF Holders

\* What a node has behind it is what is left of the smaller ones.
LEMMA BehindIsBelow ==
  ASSUME LlTypeOK, Linked, NEW n \in {0} \cup Alive
  PROVE  Behind(n) = {m \in Alive : m < Rank(n)}
<1>1. /\ MaxNodes \in Nat /\ made \in 0 .. MaxNodes /\ Alive \subseteq 1 .. MaxNodes
      /\ n \in 0 .. MaxNodes /\ Rank(n) \in Nat /\ Alive \subseteq Nat
  BY LockListAssumption DEF LlTypeOK, Alive, Rank
<1>2. ASSUME NEW m \in Behind(n) PROVE m \in Alive /\ m < Rank(n)
  <2> DEFINE S == {x \in Alive : x < Rank(n)}
  <2>1. S \in SUBSET (1 .. MaxNodes)
    BY <1>1
  <2>2. HasNext(S, n)
    BY <1>1 DEF HasNext, Linked, LinksTo
  <2>3. ASSUME NEW x \in S PROVE HasNext(S, x)
    <3>1. LinksTo(x, link[x]) /\ x \in Nat /\ x # 0 /\ x < Rank(n)
      BY <1>1 DEF Linked
    <3>2. link[x] # 0 => link[x] \in Alive /\ link[x] < x
      BY <3>1 DEF LinksTo, Rank
    <3>3. ASSUME link[x] # 0 PROVE link[x] \in S
      <4>1. link[x] \in Nat /\ link[x] < x /\ link[x] \in Alive
        BY <1>1, <3>2, <3>3
      <4> QED
        BY <1>1, <3>1, <4>1
    <3> QED
      BY <3>3 DEF HasNext
  <2> QED
    BY <2>1, <2>2, <2>3 DEF Behind
<1>3. ASSUME NEW m \in Alive, m < Rank(n),
             NEW S \in SUBSET (1 .. MaxNodes), HasNext(S, n), \A x \in S : HasNext(S, x)
      PROVE  m \in S
  <2> SUFFICES ASSUME m \notin S PROVE FALSE
    OBVIOUS
  <2> DEFINE Above == {x \in Nat : m < x /\ (x = Rank(n) \/ x \in S \cap Alive)}
  <2>1. Rank(n) \in Above
    BY <1>1, <1>3
  <2>2. PICK x \in Above : \A y \in Above : x <= y
    <3> DEFINE Less == {ss \in Nat \X Nat : ss[1] < ss[2]}
    <3>1. IsWellFoundedOn(Less, Nat)
      BY NatLessThanWellFounded DEF OpToRel
    <3>2. \E x \in Above : \A y \in Above : ~(<<y, x>> \in Less)
      <4> HIDE DEF Less
      <4>1. Above \subseteq Nat /\ Above # {}
        BY <2>1
      <4> QED
        BY <3>1, <4>1, WFMin
    <3>3. PICK x \in Above : \A y \in Above : ~(<<y, x>> \in Less)
      BY <3>2
    <3>4. ASSUME NEW y \in Above PROVE x <= y
      <4>1. <<y, x>> \in Nat \X Nat /\ ~(y < x) /\ x \in Nat /\ y \in Nat
        BY <3>3
      <4> QED
        BY <4>1
    <3> QED
      BY <3>4
  <2>3. PICK k \in {0} \cup Alive : Rank(k) = x /\ HasNext(S, k)
    <3>1. CASE x = Rank(n)
      BY <1>3, <3>1
    <3>2. CASE x \in S \cap Alive
      BY <1>1, <1>3, <3>2 DEF Rank
    <3> QED
      BY <3>1, <3>2
  <2>4. LinksTo(k, link[k])
    BY DEF Linked
  <2>5. m <= link[k] /\ link[k] < x /\ link[k] \in {0} \cup Alive /\ m \in Nat /\ m # 0
    BY <1>1, <2>2, <2>3, <2>4 DEF LinksTo
  <2>6. link[k] \in S \cap Alive /\ link[k] \in Nat
    <3>1. link[k] # 0
      BY <2>5
    <3>2. link[k] \in S /\ link[k] \in Alive
      BY <2>3, <2>5, <3>1 DEF HasNext
    <3> QED
      BY <1>1, <3>2
  <2>7. m < link[k]
    BY <2>5, <2>6
  <2>8. link[k] \in Above
    BY <2>6, <2>7
  <2> QED
    BY <2>2, <2>5, <2>6, <2>8
<1> QED
  <2>1. Behind(n) \subseteq {m \in Alive : m < Rank(n)}
    BY <1>2
  <2>2. {m \in Alive : m < Rank(n)} \subseteq Behind(n)
    BY <1>1, <1>3 DEF Behind
  <2> QED
    BY <2>1, <2>2

LEMMA LlInvSafe == LlInv => NothingOvertaken
<1> SUFFICES ASSUME LlInv, NEW t \in Walkers, walk[t] \in {"find", "each", "remove"}
             PROVE  /\ at[t] \notin dead /\ ahead[t] \notin dead
                    /\ walk[t] # "each" =>
                         (atStart[t] \cap Matching) \ dead \subseteq Behind(at[t])
  BY DEF NothingOvertaken
<1> USE DEF LlInv
<1>1. at[t] \in {0} \cup Alive /\ ahead[t] \in {0} \cup Alive /\ 0 \notin dead
  BY DEF Walking, LlTypeOK
<1>2. at[t] \notin dead /\ ahead[t] \notin dead
  BY <1>1 DEF Alive
<1>3. ASSUME walk[t] # "each" PROVE Wanted(t) \subseteq Behind(at[t])
  <2>1. Behind(at[t]) = {m \in Alive : m < Rank(at[t])}
    BY <1>1, BehindIsBelow
  <2>2. Wanted(t) \subseteq Alive
    BY DEF Wanted, Alive
  <2>3. \A m \in Wanted(t) : m < Rank(at[t])
    BY <1>3 DEF NotPassed
  <2> QED
    BY <2>1, <2>2, <2>3
<1> QED
  BY <1>2, <1>3 DEF Wanted

LEMMA LlInitInv == LlInit => LlInv
<1> SUFFICES ASSUME LlInit PROVE LlInv
  OBVIOUS
<1>1. MaxNodes \in Nat /\ made = 0 /\ dead = {} /\ Alive = {}
  BY LockListAssumption DEF LlInit, Alive
<1>2. LlTypeOK
  BY <1>1 DEF LlInit, LlTypeOK
<1>3. Linked
  BY <1>1 DEF LlInit, Linked, LinksTo, Rank
<1>4. \A t \in Walkers : Walking(t) /\ ~Excluding(t) /\ atStart[t] = {} /\ NotPassed(t)
  BY DEF LlInit, Walking, Excluding, NotPassed
<1> QED
  BY <1>2, <1>3, <1>4 DEF LlInv

LEMMA PushFrontKeeps == LlInv /\ PushFront => LlInv'
<1> SUFFICES ASSUME LlInv, PushFront PROVE LlInv'
  OBVIOUS
<1> USE DEF LlInv
<1>1. /\ MaxNodes \in Nat /\ made \in 0 .. MaxNodes - 1 /\ made' = made + 1
      /\ link \in [0 .. MaxNodes -> 0 .. MaxNodes]
      /\ link' = [link EXCEPT ![made + 1] = link[0], ![0] = made + 1]
      /\ dead \subseteq 1 .. made
      /\ UNCHANGED <<dead, walk, at, ahead, atStart>>
  BY LockListAssumption DEF PushFront, LlTypeOK
<1>2. /\ Alive' = Alive \cup {made + 1} /\ Alive \subseteq 1 .. made /\ 0 \notin Alive
  <2>1. made \in Nat /\ made' = made + 1 /\ dead' = dead /\ dead \subseteq 1 .. made
    BY <1>1
  <2>2. 1 .. made + 1 = (1 .. made) \cup {made + 1} /\ made + 1 \notin dead
    BY <2>1
  <2>3. Alive' = (1 .. made + 1) \ dead
    BY <2>1 DEF Alive
  <2> QED
    BY <2>1, <2>2, <2>3 DEF Alive
<1>3. LlTypeOK'
  <2>1. made + 1 \in 0 .. MaxNodes /\ link[0] \in 0 .. MaxNodes /\ dead \subseteq 1 .. made + 1
    BY <1>1
  <2>2. link' \in [0 .. MaxNodes -> 0 .. MaxNodes]
    BY <1>1, <2>1
  <2> QED
    BY <1>1, <2>1, <2>2 DEF LlTypeOK
<1>4. /\ link'[0] = made + 1 /\ link'[made + 1] = link[0]
      /\ \A n \in Alive : link'[n] = link[n]
  <2>1. /\ 0 \in 0 .. MaxNodes /\ made + 1 \in 0 .. MaxNodes /\ made + 1 # 0
        /\ \A n \in Alive : n \in 0 .. MaxNodes /\ n # 0 /\ n # made + 1
    BY <1>1, <1>2
  <2> QED
    BY <1>1, <2>1
<1>5. Linked'
  <2>1. LinksTo(0, link[0])
    BY DEF Linked
  <2>2. LinksTo(0, link[0])'
    BY <1>1, <1>2, <1>4 DEF LinksTo, Rank
  <2>3. ASSUME NEW n, n = made + 1 PROVE LinksTo(n, link[n])'
    BY <1>1, <1>2, <1>4, <2>1, <2>3 DEF LinksTo, Rank
  <2>4. ASSUME NEW n \in Alive PROVE LinksTo(n, link[n])'
    <3>1. LinksTo(n, link[n]) /\ n \in 1 .. made
      BY <1>2 DEF Linked
    <3>2. /\ link[n] \in {0} \cup Alive /\ link[n] < n
          /\ \A x \in Alive : x < n => x <= link[n]
      BY <3>1 DEF LinksTo, Rank
    <3>3. \A x \in Alive' : x < n => x <= link[n]
      BY <1>1, <1>2, <3>1, <3>2
    <3> QED
      BY <1>2, <1>4, <3>1, <3>2, <3>3 DEF LinksTo, Rank
  <2> QED
    BY <1>2, <2>2, <2>3, <2>4 DEF Linked
<1>6. ASSUME NEW t \in Walkers PROVE Walking(t)' /\ NotPassed(t)' /\ (atStart[t] \subseteq 1 .. made)'
  <2>1. walk[t] # "idle" => at[t] # 0
    BY HolderFacts DEF PushFront, MayLock
  <2>2. Walking(t)'
    BY <1>1, <1>2, <1>4, <2>1 DEF Walking
  <2>3. NotPassed(t)'
    BY <1>1, <1>2, <2>1 DEF NotPassed, Wanted, Rank, Walking
  <2> QED
    BY <1>1, <2>2, <2>3
<1>7. \A t, u \in Walkers : Shares(t, u)' = Shares(t, u) /\ Excluding(t)' = Excluding(t)
  BY <1>1 DEF Shares, Excluding
<1> QED
  BY <1>3, <1>5, <1>6, <1>7

\* The steps of walkers that leave the list as it is.
LEMMA SteadyList ==
  ASSUME LlInv, UNCHANGED <<link, made, dead>>
  PROVE  Linked' /\ Alive' = Alive /\ (\A n : Rank(n)' = Rank(n))
BY DEF LlInv, Linked, LinksTo, Alive, Rank

\* Which of the walkers a step moves, and what the others keep.
LEMMA OthersKeep ==
  ASSUME LlInv, UNCHANGED <<link, made, dead>>, NEW t \in Walkers,
         \A u \in Walkers : u # t =>
           walk'[u] = walk[u] /\ at'[u] = at[u] /\ ahead'[u] = ahead[u] /\ atStart'[u] = atStart[u],
         LlTypeOK', Walking(t)', NotPassed(t)', (atStart[t] \subseteq 1 .. made)',
         \A u \in Walkers : u # t /\ (Excluding(t)' \/ Excluding(u)) =>
           ~Shares(t, u)'
  PROVE  LlInv'
<1> USE DEF LlInv
<1>1. Linked' /\ Alive' = Alive /\ (\A n : Rank(n)' = Rank(n))
  BY SteadyList
<1>2. ASSUME NEW u \in Walkers, u # t
      PROVE  Walking(u)' /\ NotPassed(u)' /\ (atStart[u] \subseteq 1 .. made)'
  BY <1>1, <1>2 DEF Walking, NotPassed, Wanted
<1>3. ASSUME NEW u \in Walkers, NEW w \in Walkers, u # w, Excluding(u)'
      PROVE  ~Shares(u, w)'
  <2>1. CASE u = t
    BY <1>3, <2>1 DEF Excluding
  <2>2. CASE w = t
    BY <1>3, <2>2 DEF Excluding, Shares
  <2>3. CASE u # t /\ w # t
    BY <1>3, <2>3 DEF Excluding, Shares
  <2> QED
    BY <2>1, <2>2, <2>3
<1> QED
  BY <1>1, <1>2, <1>3

LEMMA StartWalkKeeps ==
  ASSUME LlInv, NEW t \in Walkers, StartWalk(t)
  PROVE  LlInv'
<1> USE DEF LlInv
<1>1. PICK w \in {"find", "each", "remove"} :
        MayLock(0, w = "remove") /\ walk' = [walk EXCEPT ![t] = w]
  BY DEF StartWalk
<1>2. /\ walk[t] = "idle" /\ at' = [at EXCEPT ![t] = 0]
      /\ atStart' = [atStart EXCEPT ![t] = Behind(0)]
      /\ UNCHANGED <<link, made, dead, ahead>>
  BY DEF StartWalk
<1>3. /\ walk \in [Walkers -> {"idle", "find", "each", "remove", "look"}]
      /\ at \in [Walkers -> 0 .. MaxNodes] /\ MaxNodes \in Nat
      /\ atStart \in [Walkers -> SUBSET (1 .. MaxNodes)]
      /\ made \in 0 .. MaxNodes /\ ahead[t] = 0
  BY <1>2, LockListAssumption DEF LlTypeOK, Walking
<1>4. Linked' /\ Alive' = Alive /\ (\A n : Rank(n)' = Rank(n))
  BY <1>2, SteadyList
<1>5. Behind(0) = {m \in Alive : m < made + 1} /\ Alive \subseteq 1 .. made
  BY BehindIsBelow DEF Rank, Alive
<1>6. LlTypeOK'
  <2>1. at' \in [Walkers -> 0 .. MaxNodes]
    BY <1>2, <1>3
  <2>2. atStart' \in [Walkers -> SUBSET (1 .. MaxNodes)]
    <3>1. Behind(0) \in SUBSET (1 .. MaxNodes)
      BY DEF Behind
    <3> QED
      BY <1>2, <1>3, <3>1
  <2>3. walk' \in [Walkers -> {"idle", "find", "each", "remove", "look"}]
    BY <1>1, <1>3
  <2> QED
    BY <1>2, <2>1, <2>2, <2>3 DEF LlTypeOK
<1>7. Walking(t)' /\ (atStart[t] \subseteq 1 .. made)'
  BY <1>2, <1>3, <1>5 DEF Walking
<1>8. NotPassed(t)'
  <2>1. Wanted(t)' \subseteq Alive /\ at'[t] = 0
    BY <1>2, <1>3, <1>5 DEF Wanted
  <2>2. \A m \in Alive : m < Rank(0)'
    BY <1>3, <1>4, <1>5 DEF Rank
  <2> QED
    BY <2>1, <2>2 DEF NotPassed
<1>9. ASSUME NEW u \in Walkers, u # t, Excluding(t)' \/ Excluding(u)
      PROVE  ~Shares(t, u)'
  <2>1. u \notin Holders(0)
    BY <1>1, <1>3, <1>9 DEF MayLock, Excluding
  <2>2. walk[u] # "idle" => at[u] # 0
    BY <2>1, HolderFacts
  <2> QED
    BY <1>1, <1>2, <1>3, <1>9, <2>2 DEF Shares
<1>10. \A u \in Walkers : u # t =>
         walk'[u] = walk[u] /\ at'[u] = at[u] /\ ahead'[u] = ahead[u] /\ atStart'[u] = atStart[u]
  BY <1>1, <1>2, <1>3
<1> QED
  BY <1>2, <1>6, <1>7, <1>8, <1>9, <1>10, OthersKeep

\* Nobody else gets to a node where a remover is.
LEMMA LockNextKeeps ==
  ASSUME LlInv, NEW t \in Walkers, LockNext(t)
  PROVE  LlInv'
<1> USE DEF LlInv
<1>1. /\ walk[t] \in {"find", "each", "remove"} /\ ahead[t] = 0
      /\ link[at[t]] # 0 /\ MayLock(link[at[t]], Excluding(t))
      /\ ahead' = [ahead EXCEPT ![t] = link[at[t]]]
      /\ UNCHANGED <<link, made, dead, walk, at, atStart>>
  BY DEF LockNext
<1>2. at[t] \in {0} \cup Alive /\ link[at[t]] \in Alive
  BY <1>1 DEF Walking, Linked, LinksTo
<1>3. ahead \in [Walkers -> 0 .. MaxNodes] /\ Alive \subseteq 0 .. MaxNodes
  BY LockListAssumption, SMTT(30) DEF LlTypeOK, Alive
<1>4. LlTypeOK'
  <2>1. ahead' \in [Walkers -> 0 .. MaxNodes]
    BY <1>1, <1>2, <1>3
  <2> QED
    BY <1>1, <2>1 DEF LlTypeOK
<1>5. Alive' = Alive /\ (\A n : Rank(n)' = Rank(n))
  BY <1>1, SteadyList
<1>6. Walking(t)' /\ NotPassed(t)' /\ (atStart[t] \subseteq 1 .. made)'
  BY <1>1, <1>2, <1>3, <1>5 DEF Walking, NotPassed, Wanted
<1>7. ASSUME NEW u \in Walkers, u # t, Excluding(t)' \/ Excluding(u)
      PROVE  ~Shares(t, u)'
  <2>1. Excluding(t)' = Excluding(t) /\ walk[t] # "idle"
    BY <1>1 DEF Excluding
  <2>2. u \notin Holders(link[at[t]])
    BY <1>1, <1>7, <2>1 DEF MayLock, Excluding
  <2>3. walk[u] # "idle" => at[u] # link[at[t]] /\ ahead[u] # link[at[t]]
    BY <1>1, <2>2, HolderFacts
  <2>4. ~Shares(t, u)
    <3>1. ~Shares(t, u) \/ ~Shares(u, t)
      BY <1>7, <2>1
    <3> QED
      BY <3>1 DEF Shares
  <2> QED
    BY <1>1, <1>3, <1>7, <2>3, <2>4 DEF Shares
<1>8. \A u \in Walkers : u # t =>
        walk'[u] = walk[u] /\ at'[u] = at[u] /\ ahead'[u] = ahead[u] /\ atStart'[u] = atStart[u]
  BY <1>1, <1>3
<1> QED
  BY <1>1, <1>4, <1>6, <1>7, <1>8, OthersKeep

LEMMA GoOnKeeps ==
  ASSUME LlInv, NEW t \in Walkers, Advance(t) \/ Find(t)
  PROVE  LlInv'
<1> USE DEF LlInv
<1>1. /\ ahead[t] # 0
      /\ at' = [at EXCEPT ![t] = ahead[t]]
      /\ ahead' = [ahead EXCEPT ![t] = 0]
      /\ UNCHANGED <<link, made, dead, atStart>>
      /\ \/ walk' = walk /\ (walk[t] = "each" \/ ahead[t] \notin Matching)
         \/ walk' = [walk EXCEPT ![t] = "look"] /\ walk[t] = "find"
  <2>1. ahead[t] \in Matching => ahead[t] # 0
    BY LockListAssumption
  <2> QED
    BY <2>1 DEF Advance, Find
<1>2. /\ at[t] \in {0} \cup Alive /\ ahead[t] \in Alive /\ ahead[t] = link[at[t]]
      /\ walk[t] \in {"find", "each", "remove"}
  BY <1>1 DEF Walking
<1>3. /\ ahead \in [Walkers -> 0 .. MaxNodes] /\ at \in [Walkers -> 0 .. MaxNodes]
      /\ walk \in [Walkers -> {"idle", "find", "each", "remove", "look"}]
      /\ Alive \subseteq 1 .. made /\ made \in Nat
  BY LockListAssumption, SMTT(30) DEF LlTypeOK, Alive
<1>4. LlTypeOK'
  <2>1. at' \in [Walkers -> 0 .. MaxNodes] /\ ahead' \in [Walkers -> 0 .. MaxNodes]
    BY <1>1, <1>3, LockListAssumption
  <2>2. walk' \in [Walkers -> {"idle", "find", "each", "remove", "look"}]
    BY <1>1, <1>3
  <2> QED
    BY <1>1, <2>1, <2>2 DEF LlTypeOK
<1>5. Alive' = Alive /\ (\A n : Rank(n)' = Rank(n))
  BY <1>1, SteadyList
<1>6. Walking(t)' /\ (atStart[t] \subseteq 1 .. made)'
  BY <1>1, <1>2, <1>3, <1>5 DEF Walking
<1>7. NotPassed(t)'
  <2> SUFFICES ASSUME walk'[t] \in {"find", "remove"}, NEW m \in Wanted(t)
               PROVE  m < Rank(ahead[t])
    BY <1>1, <1>3, <1>5 DEF NotPassed, Wanted
  <2>1. walk[t] \in {"find", "remove"} /\ ahead[t] \notin Matching
    BY <1>1, <1>3
  <2>2. m < Rank(at[t]) /\ m \in Alive /\ m \in Matching
    BY <2>1 DEF NotPassed, Wanted, Alive
  <2>3. m <= link[at[t]]
    BY <1>2, <2>2 DEF Linked, LinksTo
  <2>4. m \in Nat /\ ahead[t] \in Nat /\ ahead[t] # 0
    BY <1>2, <1>3, <2>2
  <2>5. m # ahead[t]
    BY <2>1, <2>2
  <2> QED
    BY <1>2, <2>3, <2>4, <2>5 DEF Rank
<1>8. ASSUME NEW u \in Walkers, u # t, Excluding(t)' \/ Excluding(u)
      PROVE  ~Shares(t, u)'
  <2>1. Excluding(t)' => Excluding(t)
    BY <1>1, <1>3 DEF Excluding
  <2>2. ~Shares(t, u)
    <3>1. ~Shares(t, u) \/ ~Shares(u, t)
      BY <1>8, <2>1
    <3> QED
      BY <3>1 DEF Shares
  <2>3. at'[t] = ahead[t] /\ ahead'[t] = 0 /\ at'[u] = at[u] /\ ahead'[u] = ahead[u] /\ walk'[u] = walk[u]
    BY <1>1, <1>3, <1>8
  <2> QED
    BY <1>1, <1>2, <2>2, <2>3 DEF Shares
<1>9. \A u \in Walkers : u # t =>
        walk'[u] = walk[u] /\ at'[u] = at[u] /\ ahead'[u] = ahead[u] /\ atStart'[u] = atStart[u]
  BY <1>1, <1>3
<1> QED
  BY <1>1, <1>4, <1>6, <1>7, <1>8, <1>9, OthersKeep

LEMMA EndWalkKeeps ==
  ASSUME LlInv, NEW t \in Walkers, CopyOut(t) \/ EndOfList(t)
  PROVE  LlInv'
<1> USE DEF LlInv
<1>1. /\ walk' = [walk EXCEPT ![t] = "idle"] /\ ahead[t] = 0
      /\ UNCHANGED <<link, made, dead, at, ahead, atStart>>
  BY DEF CopyOut, EndOfList, Walking
<1>2. walk \in [Walkers -> {"idle", "find", "each", "remove", "look"}]
  BY DEF LlTypeOK
<1>3. LlTypeOK' /\ walk'[t] = "idle"
  BY <1>1, <1>2 DEF LlTypeOK
<1>4. Walking(t)' /\ NotPassed(t)' /\ (atStart[t] \subseteq 1 .. made)'
  BY <1>1, <1>3 DEF Walking, NotPassed
<1>5. \A u \in Walkers : ~Shares(t, u)'
  BY <1>3 DEF Shares
<1>6. \A u \in Walkers : u # t =>
        walk'[u] = walk[u] /\ at'[u] = at[u] /\ ahead'[u] = ahead[u] /\ atStart'[u] = atStart[u]
  BY <1>1, <1>2
<1> QED
  BY <1>1, <1>3, <1>4, <1>5, <1>6, OthersKeep

\* The node goes that only the remover is at; the one before it links past it.
LEMMA RemoveKeeps ==
  ASSUME LlInv, NEW t \in Walkers, RemoveNext(t)
  PROVE  LlInv'
<1> USE DEF LlInv
<1>1. PICK gone : gone = ahead[t]
  OBVIOUS
<1>2. PICK before : before = at[t]
  OBVIOUS
<1>3. /\ walk[t] = "remove" /\ gone \in Matching /\ gone # 0
      /\ link' = [link EXCEPT ![before] = link[gone]]
      /\ dead' = dead \cup {gone}
      /\ ahead' = [ahead EXCEPT ![t] = 0]
      /\ UNCHANGED <<made, walk, at, atStart>>
  BY <1>1, <1>2, LockListAssumption DEF RemoveNext
<1>4. /\ before \in {0} \cup Alive /\ gone \in Alive /\ gone = link[before]
  BY <1>1, <1>2, <1>3 DEF Walking
<1>5. /\ ahead \in [Walkers -> 0 .. MaxNodes] /\ link \in [0 .. MaxNodes -> 0 .. MaxNodes]
      /\ MaxNodes \in Nat /\ made \in 0 .. MaxNodes /\ dead \subseteq 1 .. made
      /\ Alive \subseteq 1 .. made /\ Alive \subseteq Nat /\ 0 \notin Alive
      /\ before \in 0 .. MaxNodes /\ gone \in 1 .. made
  <2>1. /\ ahead \in [Walkers -> 0 .. MaxNodes] /\ link \in [0 .. MaxNodes -> 0 .. MaxNodes]
        /\ MaxNodes \in Nat /\ made \in 0 .. MaxNodes /\ dead \subseteq 1 .. made
    BY LockListAssumption DEF LlTypeOK
  <2>2. Alive \subseteq 1 .. made /\ Alive \subseteq Nat /\ 0 \notin Alive
    BY <2>1 DEF Alive
  <2>3. before \in 0 .. MaxNodes
    <3>1. CASE before = 0
      BY <2>1, <3>1
    <3>2. CASE before \in 1 .. made
      BY <2>1, <3>2
    <3> QED
      BY <1>4, <2>2, <3>1, <3>2
  <2> QED
    BY <1>4, <2>1, <2>2, <2>3
<1>r. ASSUME NEW n \in {0} \cup Alive
      PROVE  /\ Rank(n) \in Nat /\ Rank(n) <= made + 1
             /\ Rank(n) = made + 1 <=> n = 0
             /\ n # 0 => Rank(n) = n /\ n \in Alive
  <2>1. made \in Nat
    BY <1>5
  <2>2. CASE n = 0
    BY <2>1, <2>2 DEF Rank
  <2>3. CASE n \in Alive
    <3>1. n \in 1 .. made /\ n # 0
      BY <1>5, <2>3
    <3> QED
      BY <2>1, <2>3, <3>1 DEF Rank
  <2> QED
    BY <2>2, <2>3
<1>6. Alive' = Alive \ {gone} /\ (\A n : Rank(n)' = Rank(n))
  BY <1>3 DEF Alive, Rank
<1>7. LlTypeOK'
  <2>1. link' \in [0 .. MaxNodes -> 0 .. MaxNodes] /\ ahead' \in [Walkers -> 0 .. MaxNodes]
    BY <1>3, <1>5
  <2>2. dead' \subseteq 1 .. made
    BY <1>3, <1>5
  <2> QED
    BY <1>3, <2>1, <2>2 DEF LlTypeOK
<1>8. /\ gone < Rank(before) /\ (\A x \in Alive : x < Rank(before) => x <= gone)
      /\ link[gone] \in {0} \cup Alive /\ link[gone] < gone
      /\ \A x \in Alive : x < gone => x <= link[gone]
  BY <1>4, <1>5 DEF Linked, LinksTo, Rank
<1>9. before # gone
  BY <1>5, <1>8 DEF Rank
<1>10. ASSUME NEW n \in {0} \cup Alive, n # gone PROVE LinksTo(n, link[n])'
  <2>1. CASE n = before
    <3>1. link'[n] = link[gone]
      BY <1>3, <1>5, <2>1
    <3>2. link[gone] \in {0} \cup Alive' /\ link[gone] < Rank(before)
      <4>0. gone \in 0 .. MaxNodes
        BY ONLY <1>5
      <4>1. link[gone] \in Nat /\ Rank(before) \in Nat /\ gone \in Nat
        <5>1. link[gone] \in 0 .. MaxNodes /\ MaxNodes \in Nat
          BY ONLY <1>5, <4>0
        <5>2. Rank(before) \in Nat
          BY ONLY <1>4, <1>r
        <5>3. link[gone] \in Nat
          BY ONLY <5>1
        <5> QED
          BY ONLY <4>0, <5>1, <5>2, <5>3
      <4>2. link[gone] < Rank(before) /\ link[gone] # gone
        BY ONLY <1>8, <4>1
      <4>3. link[gone] \in {0} \cup Alive'
        BY ONLY <1>6, <1>8, <4>2
      <4> QED
        BY <4>2, <4>3
    <3>3. ASSUME NEW x \in Alive', x < Rank(before) PROVE x <= link[gone]
      <4>1. x \in Alive /\ x # gone
        BY ONLY <1>6, <3>3
      <4>0. x \in Nat /\ gone \in Nat
        BY ONLY <1>4, <1>5, <4>1
      <4>2. x <= gone
        BY ONLY <1>8, <3>3, <4>1
      <4> QED
        BY ONLY <1>8, <4>0, <4>1, <4>2
    <3>4. /\ link'[n] \in {0} \cup Alive'
          /\ link'[n] < Rank(n)'
          /\ \A x \in Alive' : x < Rank(n)' => x <= link'[n]
      BY ONLY <1>6, <2>1, <3>1, <3>2, <3>3
    <3> QED
      BY ONLY <3>4 DEF LinksTo
  <2>2. CASE n # before
    <3>1. link'[n] = link[n] /\ LinksTo(n, link[n])
      <4>1. n \in 0 .. MaxNodes
        BY ONLY <1>5, <1>10
      <4>2. link'[n] = link[n]
        BY ONLY <1>3, <1>5, <2>2, <4>1
      <4>3. Linked
        OBVIOUS
      <4>4. LinksTo(n, link[n])
        BY ONLY <1>10, <4>3 DEF Linked
      <4> QED
        BY <4>2, <4>4
    <3>2. link[n] # gone
      <4>1. SUFFICES ASSUME link[n] = gone PROVE FALSE
        OBVIOUS
      <4>2. /\ gone < Rank(n) /\ \A x \in Alive : x < Rank(n) => x <= gone
        BY <3>1, <4>1 DEF LinksTo
      <4>3. Rank(n) \in Nat /\ Rank(before) \in Nat /\ Rank(n) # Rank(before)
        BY <1>4, <1>r, <1>10, <2>2
      <4>6. Rank(n) <= made + 1 /\ Rank(before) <= made + 1 /\ made \in Nat
        <5>1. made \in Nat
          BY <1>5
        <5>2. Rank(n) <= made + 1
          BY <1>10, <1>r
        <5>3. Rank(before) <= made + 1
          BY <1>4, <1>r
        <5> QED
          BY <5>1, <5>2, <5>3
      <4>4. CASE Rank(n) < Rank(before)
        <5>1. n \in Alive /\ Rank(n) = n
          <6>1. Rank(n) # made + 1
            BY <4>3, <4>4, <4>6
          <6>2. n # 0
            BY <1>10, <1>r, <6>1
          <6> QED
            BY <1>10, <1>r, <6>2
        <5>2. n <= gone /\ n \in Nat /\ gone \in Nat /\ gone < n
          BY <1>5, <1>8, <4>2, <4>4, <5>1
        <5> QED
          BY <5>2
      <4>5. CASE Rank(before) < Rank(n)
        <5>1. before \in Alive /\ Rank(before) = before
          <6>1. Rank(before) # made + 1
            BY <4>3, <4>5, <4>6
          <6>2. before # 0
            BY <1>4, <1>r, <6>1
          <6> QED
            BY <1>4, <1>r, <6>2
        <5>2. before <= gone /\ before \in Nat /\ gone \in Nat /\ gone < before
          BY <1>5, <1>8, <4>2, <4>5, <5>1
        <5> QED
          BY <5>2
      <4> QED
        BY <4>3, <4>4, <4>5
    <3> QED
      BY <1>6, <3>1, <3>2 DEF LinksTo
  <2> QED
    BY <2>1, <2>2
<1>11. Linked'
  BY <1>5, <1>6, <1>10 DEF Linked
<1>12. ASSUME NEW u \in Walkers, u # t
       PROVE  /\ walk[u] # "idle" => at[u] # gone /\ at[u] # before
              /\ ahead[u] # 0 => ahead[u] # gone /\ ahead[u] # before
  <2>1. ~Shares(t, u)
    BY <1>3, <1>12 DEF Excluding
  <2>2. ahead[u] # 0 => walk[u] # "idle"
    BY DEF Walking
  <2> QED
    BY <1>1, <1>2, <1>3, <2>1, <2>2 DEF Shares
<1>13. ASSUME NEW u \in Walkers
       PROVE  Walking(u)' /\ NotPassed(u)' /\ (atStart[u] \subseteq 1 .. made)'
  <2>1. NotPassed(u)' /\ (atStart[u] \subseteq 1 .. made)'
    BY <1>3, <1>6 DEF NotPassed, Wanted
  <2>2. CASE u = t
    BY <1>2, <1>3, <1>4, <1>5, <1>6, <1>9, <2>1, <2>2 DEF Walking
  <2>3. CASE u # t
    <3>1. /\ walk[u] # "idle" => at[u] \in {0} \cup Alive'
          /\ ahead[u] # 0 => ahead[u] \in Alive'
      BY <1>6, <1>12, <2>3 DEF Walking
    <3>2. ahead[u] # 0 => link'[at[u]] = link[at[u]]
      <4>1. ahead[u] # 0 => walk[u] # "idle"
        BY DEF Walking
      <4>2. ahead[u] # 0 => at[u] # before /\ at[u] \in {0} \cup Alive
        BY <1>12, <2>3, <4>1 DEF Walking
      <4>3. {0} \cup Alive \subseteq 0 .. MaxNodes
        BY ONLY <1>5, SMTT(30)
      <4> QED
        BY ONLY <1>3, <1>5, <4>2, <4>3
    <3>3. walk'[u] = walk[u] /\ at'[u] = at[u] /\ ahead'[u] = ahead[u]
      BY <1>3, <1>5, <2>3
    <3> QED
      BY <2>1, <3>1, <3>2, <3>3 DEF Walking
  <2> QED
    BY <2>2, <2>3
<1>14. ASSUME NEW u \in Walkers, NEW w \in Walkers, u # w, Excluding(u)'
       PROVE  ~Shares(u, w)'
  <2>1. ~Shares(u, w)
    BY <1>3, <1>14 DEF Excluding
  <2>2. \A x \in Walkers : ahead'[x] \in {ahead[x], 0}
    BY <1>3, <1>5
  <2> QED
    BY <1>3, <2>1, <2>2 DEF Shares
<1> QED
  BY <1>7, <1>11, <1>13, <1>14

\* However many threads walk and however many nodes there are, no walk loses a
\* node it is after or stands on one that has been freed (list.cc lines 47-90).
THEOREM WalksMissNothing == LlSpec => []NothingOvertaken
<1>1. LlInv /\ [LlNext]_llVars => LlInv'
  <2> SUFFICES ASSUME LlInv, [LlNext]_llVars PROVE LlInv'
    OBVIOUS
  <2>1. CASE PushFront
    BY <2>1, PushFrontKeeps
  <2>2. ASSUME NEW t \in Walkers, StartWalk(t) \/ Walk(t) PROVE LlInv'
    BY <2>2, StartWalkKeeps, LockNextKeeps, GoOnKeeps, EndWalkKeeps, RemoveKeeps DEF Walk
  <2>3. CASE UNCHANGED llVars
    <3>1. UNCHANGED <<link, made, dead, walk, at, ahead, atStart>>
      BY <2>3 DEF llVars
    <3>2. Linked' /\ Alive' = Alive /\ (\A n : Rank(n)' = Rank(n))
      BY <3>1, SteadyList
    <3> QED
      BY <3>1, <3>2 DEF LlInv, LlTypeOK, Walking, Shares, Excluding, NotPassed, Wanted
  <2> QED
    BY <2>1, <2>2, <2>3 DEF LlNext
<1> QED
  BY <1>1, LlInitInv, LlInvSafe, PTL DEF LlSpec

-----------------------------------------------------------------------------
(* The hash table. *)

\* A bucket has the pairs of the keys that hash to it, each key once and with
\* what it was last mapped to.
LtInv ==
  /\ LtTypeOK
  /\ \A bu \in Buckets : \A i \in 1 .. Len(pairs[bu]) :
       hash[pairs[bu][i][1]] = bu /\ mapped[pairs[bu][i][1]] = pairs[bu][i][2]
  /\ \A bu \in Buckets : \A i, j \in 1 .. Len(pairs[bu]) :
       pairs[bu][i][1] = pairs[bu][j][1] => i = j
  /\ \A k \in Keys : mapped[k] # Absent =>
       \E i \in 1 .. Len(pairs[hash[k]]) : pairs[hash[k]][i][1] = k

\* The key k is at this place among the pairs old, or, at 0, not among them.
IsPlace(old, place, k) ==
  /\ place = 0 => mapped[k] = Absent /\ \A i \in 1 .. Len(old) : old[i][1] # k
  /\ place # 0 => /\ place \in 1 .. Len(old)
                  /\ old[place] = <<k, mapped[k]>> /\ old[place][1] = k

\* A key that is mapped has one place, and find_entry_for returns it.
LEMMA PlaceOf ==
  ASSUME LtInv, NEW k \in Keys
  PROVE  \E old, place :
           /\ old = pairs[hash[k]] /\ place = FindEntry(k)
           /\ old \in Seq(Keys \X Contents) /\ Len(old) \in Nat
           /\ \A i, j \in 1 .. Len(old) : old[i][1] = old[j][1] => i = j
           /\ IsPlace(old, place, k)
<1> USE DEF LtInv
<1>p. PICK old, place : old = pairs[hash[k]] /\ place = FindEntry(k)
  OBVIOUS
<1>1. old \in Seq(Keys \X Contents) /\ hash[k] \in Buckets /\ Len(old) \in Nat
  BY <1>p DEF LtTypeOK
<1>2. PICK I : I = {i \in 1 .. Len(old) : old[i][1] = k}
  OBVIOUS
<1>3. place = IF I # {} THEN Min(I) ELSE 0
  BY <1>p, <1>2 DEF FindEntry, Bucket, SelectInSeq
<1>4. \A i, j \in 1 .. Len(old) : old[i][1] = old[j][1] => i = j
  BY <1>p, <1>1
<1>5. ASSUME I = {} PROVE IsPlace(old, place, k)
  <2>1. \A i \in 1 .. Len(old) : old[i][1] # k
    BY <1>2, <1>5
  <2>2. mapped[k] = Absent /\ place = 0
    BY <1>p, <1>1, <1>3, <1>5, <2>1
  <2> QED
    BY <2>1, <2>2 DEF IsPlace
<1>6. ASSUME NEW i \in I PROVE place = i /\ i \in 1 .. Len(old) /\ old[i] = <<k, mapped[k]>>
  <2>1. i \in 1 .. Len(old) /\ old[i][1] = k
    BY <1>2, <1>6
  <2>2. I = {i}
    BY <1>2, <1>4, <2>1
  <2>3. Min(I) = i
    BY <1>1, <2>1, <2>2 DEF Min
  <2>4. old[i] \in Keys \X Contents
    BY <1>1, <2>1
  <2>5. old[i] = <<k, old[i][2]>>
    BY <2>1, <2>4
  <2>6. mapped[k] = old[i][2]
    BY <1>p, <1>1, <2>1
  <2>7. place = i
    BY <1>3, <2>2, <2>3
  <2> QED
    BY <2>1, <2>5, <2>6, <2>7
<1>7. ASSUME I # {} PROVE IsPlace(old, place, k)
  <2>1. PICK i : i \in I
    BY <1>7
  <2>2. place = i /\ i \in 1 .. Len(old) /\ old[i] = <<k, mapped[k]>>
    BY <1>6, <2>1
  <2>3. place # 0 /\ old[place] = <<k, mapped[k]>> /\ old[place][1] = k
    BY <1>1, <2>2
  <2> QED
    BY <2>2, <2>3 DEF IsPlace
<1> QED
  BY <1>p, <1>1, <1>4, <1>5, <1>7

\* The pairs s are the pairs old with k mapped to v.
Replaces(old, s, k, v) ==
  /\ \A i \in 1 .. Len(s) :
       s[i] = <<k, v>> \/ (s[i][1] # k /\ \E j \in 1 .. Len(old) : s[i] = old[j])
  /\ \A i, j \in 1 .. Len(s) : s[i][1] = s[j][1] => i = j
  /\ \A j \in 1 .. Len(old) : old[j][1] # k => \E i \in 1 .. Len(s) : s[i] = old[j]
  /\ v # Absent => \E i \in 1 .. Len(s) : s[i] = <<k, v>>

\* One key is mapped anew, in its bucket.
LEMMA Remapped ==
  ASSUME LtInv, NEW k \in Keys, NEW v \in Contents \cup {Absent},
         NEW s \in Seq(Keys \X Contents), NEW old, old = pairs[hash[k]],
         pairs' = [pairs EXCEPT ![hash[k]] = s],
         mapped' = [mapped EXCEPT ![k] = v], hash' = hash, Replaces(old, s, k, v)
  PROVE  LtInv'
<1> USE DEF LtInv, Replaces
<1>1. /\ pairs \in [Buckets -> Seq(Keys \X Contents)] /\ hash \in [Keys -> Buckets]
      /\ mapped \in [Keys -> Contents \cup {Absent}] /\ hash[k] \in Buckets
      /\ old \in Seq(Keys \X Contents)
  BY DEF LtTypeOK
<1>2. LtTypeOK'
  BY <1>1 DEF LtTypeOK
<1>3. /\ pairs'[hash[k]] = s /\ mapped'[k] = v
      /\ \A bu \in Buckets : bu # hash[k] => pairs'[bu] = pairs[bu]
      /\ \A x \in Keys : x # k => mapped'[x] = mapped[x]
  BY <1>1
<1>4. ASSUME NEW bu \in Buckets, NEW i \in 1 .. Len(pairs'[bu])
      PROVE  hash[pairs'[bu][i][1]] = bu /\ mapped'[pairs'[bu][i][1]] = pairs'[bu][i][2]
  <2>1. CASE bu # hash[k]
    <3>1. /\ pairs'[bu] = pairs[bu] /\ i \in 1 .. Len(pairs[bu])
          /\ hash[pairs[bu][i][1]] = bu /\ mapped[pairs[bu][i][1]] = pairs[bu][i][2]
      BY <1>3, <2>1
    <3>2. pairs[bu][i] \in Keys \X Contents
      BY <1>1, <3>1
    <3> QED
      BY <1>3, <2>1, <3>1, <3>2
  <2>2. CASE bu = hash[k] /\ s[i] = <<k, v>>
    BY <1>3, <2>2
  <2>3. CASE bu = hash[k] /\ s[i] # <<k, v>>
    <3>1. PICK j \in 1 .. Len(old) : s[i] = old[j] /\ s[i][1] # k
      BY <1>3, <2>3
    <3>2. old[j] \in Keys \X Contents /\ hash[old[j][1]] = bu /\ mapped[old[j][1]] = old[j][2]
      BY <1>1, <2>3
    <3> QED
      BY <1>3, <2>3, <3>1, <3>2
  <2> QED
    BY <2>1, <2>2, <2>3
<1>5. ASSUME NEW bu \in Buckets, NEW i \in 1 .. Len(pairs'[bu]), NEW j \in 1 .. Len(pairs'[bu]),
             pairs'[bu][i][1] = pairs'[bu][j][1]
      PROVE  i = j
  BY <1>3, <1>5
<1>6. ASSUME NEW x \in Keys, mapped'[x] # Absent
      PROVE  \E i \in 1 .. Len(pairs'[hash[x]]) : pairs'[hash[x]][i][1] = x
  <2>1. CASE x = k
    BY <1>3, <1>6, <2>1
  <2>2. CASE x # k
    <3>1. PICK j \in 1 .. Len(pairs[hash[x]]) : pairs[hash[x]][j][1] = x
      BY <1>3, <1>6, <2>2
    <3>2. CASE hash[x] # hash[k]
      BY <1>1, <1>3, <3>1, <3>2
    <3>3. CASE hash[x] = hash[k]
      <4>1. PICK i \in 1 .. Len(s) : s[i] = old[j]
        BY <2>2, <3>1, <3>3
      <4> QED
        BY <1>3, <3>1, <3>3, <4>1
    <3> QED
      BY <3>2, <3>3
  <2> QED
    BY <2>1, <2>2
<1> QED
  BY <1>2, <1>4, <1>5, <1>6

LEMMA AddOrUpdateKeeps ==
  ASSUME LtInv, NEW k \in Keys, NEW v \in Contents, AddOrUpdate(k, v)
  PROVE  LtInv'
<1>1. PICK old, place :
        /\ old = pairs[hash[k]] /\ place = FindEntry(k)
        /\ old \in Seq(Keys \X Contents) /\ Len(old) \in Nat
        /\ \A i, j \in 1 .. Len(old) : old[i][1] = old[j][1] => i = j
        /\ IsPlace(old, place, k)
  BY PlaceOf
<1>2. PICK s : s = IF place = 0 THEN Append(old, <<k, v>>) ELSE [old EXCEPT ![place] = <<k, v>>]
  OBVIOUS
<1>3. /\ pairs' = [pairs EXCEPT ![hash[k]] = s]
      /\ mapped' = [mapped EXCEPT ![k] = v] /\ hash' = hash
  BY <1>1, <1>2 DEF AddOrUpdate, Bucket
<1>4. /\ old \in Seq(Keys \X Contents) /\ Len(old) \in Nat /\ <<k, v>> \in Keys \X Contents
      /\ \A i, j \in 1 .. Len(old) : old[i][1] = old[j][1] => i = j
  BY <1>1
<1>5. CASE place = 0
  <2>1. \A i \in 1 .. Len(old) : old[i][1] # k
    BY <1>1, <1>5 DEF IsPlace
  <2>2. s = Append(old, <<k, v>>)
    BY <1>2, <1>5
  <2>3. /\ s \in Seq(Keys \X Contents) /\ Len(s) = Len(old) + 1 /\ s[Len(s)] = <<k, v>>
        /\ \A i \in 1 .. Len(old) : s[i] = old[i]
    BY <1>4, <2>2
  <2>4. ASSUME NEW i \in 1 .. Len(s)
        PROVE  \/ i = Len(s) /\ s[i] = <<k, v>>
               \/ i \in 1 .. Len(old) /\ s[i] = old[i] /\ s[i][1] # k
    BY <1>4, <2>1, <2>3
  <2>5. ASSUME NEW i \in 1 .. Len(s), NEW j \in 1 .. Len(s), s[i][1] = s[j][1] PROVE i = j
    BY <1>4, <2>4, <2>5
  <2>6. \A j \in 1 .. Len(old) : \E i \in 1 .. Len(s) : s[i] = old[j]
    BY <1>4, <2>3
  <2>7. \E i \in 1 .. Len(s) : s[i] = <<k, v>>
    BY <1>4, <2>3
  <2>8. \A i \in 1 .. Len(s) :
          s[i] = <<k, v>> \/ (s[i][1] # k /\ \E j \in 1 .. Len(old) : s[i] = old[j])
    BY <2>4
  <2> QED
    <3>1. Replaces(old, s, k, v)
      BY <2>5, <2>6, <2>7, <2>8 DEF Replaces
    <3> QED
      BY <1>1, <1>3, <2>3, <3>1, Remapped
<1>6. CASE place # 0
  <2>1. place \in 1 .. Len(old) /\ old[place][1] = k
    BY <1>1, <1>6 DEF IsPlace
  <2>2. s = [old EXCEPT ![place] = <<k, v>>]
    BY <1>2, <1>6
  <2>3. /\ s \in Seq(Keys \X Contents) /\ Len(s) = Len(old) /\ s[place] = <<k, v>>
        /\ \A i \in 1 .. Len(old) : i # place => s[i] = old[i]
    BY <1>4, <2>1, <2>2
  <2>4. ASSUME NEW i \in 1 .. Len(s)
        PROVE  \/ i = place /\ s[i] = <<k, v>>
               \/ i \in 1 .. Len(old) /\ s[i] = old[i] /\ s[i][1] # k
    BY <1>4, <2>1, <2>3
  <2>5. ASSUME NEW i \in 1 .. Len(s), NEW j \in 1 .. Len(s), s[i][1] = s[j][1] PROVE i = j
    BY <1>4, <2>4, <2>5
  <2>6. \A j \in 1 .. Len(old) : old[j][1] # k => \E i \in 1 .. Len(s) : s[i] = old[j]
    BY <1>4, <2>1, <2>3
  <2>7. \E i \in 1 .. Len(s) : s[i] = <<k, v>>
    BY <2>1, <2>3
  <2>8. \A i \in 1 .. Len(s) :
          s[i] = <<k, v>> \/ (s[i][1] # k /\ \E j \in 1 .. Len(old) : s[i] = old[j])
    BY <2>4
  <2> QED
    <3>1. Replaces(old, s, k, v)
      BY <2>5, <2>6, <2>7, <2>8 DEF Replaces
    <3> QED
      BY <1>1, <1>3, <2>3, <3>1, Remapped
<1> QED
  BY <1>5, <1>6

\* The last pair moves to the place that is left.
LEMMA DeleteKeeps ==
  ASSUME LtInv, NEW k \in Keys, Delete(k)
  PROVE  LtInv'
<1>1. PICK old, place :
        /\ old = pairs[hash[k]] /\ place = FindEntry(k)
        /\ old \in Seq(Keys \X Contents) /\ Len(old) \in Nat
        /\ \A i, j \in 1 .. Len(old) : old[i][1] = old[j][1] => i = j
        /\ IsPlace(old, place, k)
  BY PlaceOf
<1>2. PICK s : s = IF place = 0 THEN old ELSE Front([old EXCEPT ![place] = Last(old)])
  OBVIOUS
<1>3. /\ pairs' = [pairs EXCEPT ![hash[k]] = s]
      /\ mapped' = [mapped EXCEPT ![k] = Absent] /\ hash' = hash
  BY <1>1, <1>2 DEF Delete, Bucket
<1>4. /\ old \in Seq(Keys \X Contents) /\ Len(old) \in Nat
      /\ \A i, j \in 1 .. Len(old) : old[i][1] = old[j][1] => i = j
  BY <1>1
<1>5. CASE place = 0
  <2>1. \A i \in 1 .. Len(old) : old[i][1] # k
    BY <1>1, <1>5 DEF IsPlace
  <2>2. s = old
    BY <1>2, <1>5
  <2>3. \A i \in 1 .. Len(s) :
          s[i] = <<k, Absent>> \/ (s[i][1] # k /\ \E j \in 1 .. Len(old) : s[i] = old[j])
    BY <2>1, <2>2
  <2>4. \A j \in 1 .. Len(old) : old[j][1] # k => \E i \in 1 .. Len(s) : s[i] = old[j]
    BY <2>2
  <2>5. /\ Absent \in Contents \cup {Absent} /\ s \in Seq(Keys \X Contents)
        /\ \A i, j \in 1 .. Len(s) : s[i][1] = s[j][1] => i = j
    BY <1>4, <2>2
  <2> QED
    <3>1. Replaces(old, s, k, Absent)
      BY <2>3, <2>4, <2>5 DEF Replaces
    <3> QED
      BY <1>1, <1>3, <2>5, <3>1, Remapped
<1>6. CASE place # 0
  <2>1. place \in 1 .. Len(old) /\ old[place][1] = k
    BY <1>1, <1>6 DEF IsPlace
  <2>2. s = SubSeq([old EXCEPT ![place] = old[Len(old)]], 1, Len(old) - 1)
    BY <1>2, <1>4, <1>6 DEF Front, Last
  <2>3. /\ s \in Seq(Keys \X Contents) /\ Len(s) = Len(old) - 1
        /\ \A i \in 1 .. Len(s) : s[i] = IF i = place THEN old[Len(old)] ELSE old[i]
    <3>1. /\ [old EXCEPT ![place] = old[Len(old)]] \in Seq(Keys \X Contents)
          /\ Len([old EXCEPT ![place] = old[Len(old)]]) = Len(old)
      BY <1>4, <2>1
    <3> QED
      BY <1>4, <2>1, <2>2, <3>1
  <2>4. ASSUME NEW i \in 1 .. Len(s)
        PROVE  \E j \in 1 .. Len(old) :
                 /\ s[i] = old[j] /\ j # place
                 /\ j = IF i = place THEN Len(old) ELSE i
    <3>1. i \in 1 .. Len(old) /\ i < Len(old) /\ Len(old) \in 1 .. Len(old)
      BY <1>4, <2>3
    <3>2. CASE i = place
      BY <2>3, <3>1, <3>2
    <3>3. CASE i # place
      BY <2>3, <3>1, <3>3
    <3> QED
      BY <3>2, <3>3
  <2>5. ASSUME NEW i \in 1 .. Len(s)
        PROVE  s[i][1] # k /\ \E j \in 1 .. Len(old) : s[i] = old[j]
    BY <1>4, <2>1, <2>4
  <2>6. ASSUME NEW i \in 1 .. Len(s), NEW j \in 1 .. Len(s), s[i][1] = s[j][1] PROVE i = j
    <3>1. PICK x \in 1 .. Len(old) : s[i] = old[x] /\ x = IF i = place THEN Len(old) ELSE i
      BY <2>4
    <3>2. PICK y \in 1 .. Len(old) : s[j] = old[y] /\ y = IF j = place THEN Len(old) ELSE j
      BY <2>4
    <3>3. x = y
      BY <1>4, <2>6, <3>1, <3>2
    <3>4. i < Len(old) /\ j < Len(old)
      BY <1>4, <2>3
    <3> QED
      BY <1>4, <3>1, <3>2, <3>3, <3>4
  <2>7. ASSUME NEW j \in 1 .. Len(old), old[j][1] # k PROVE \E i \in 1 .. Len(s) : s[i] = old[j]
    <3>1. CASE j = Len(old)
      <4>1. place \in 1 .. Len(s) /\ s[place] = old[j]
        BY <1>4, <2>1, <2>3, <2>7, <3>1
      <4> QED
        BY <4>1
    <3>2. CASE j # Len(old)
      <4>1. j \in 1 .. Len(s) /\ j # place
        BY <1>4, <2>1, <2>3, <2>7, <3>2
      <4> QED
        BY <2>3, <4>1
    <3> QED
      BY <3>1, <3>2
  <2>8. \A i \in 1 .. Len(s) :
          s[i] = <<k, Absent>> \/ (s[i][1] # k /\ \E j \in 1 .. Len(old) : s[i] = old[j])
    BY <2>5
  <2>9. Absent \in Contents \cup {Absent}
    OBVIOUS
  <2> QED
    <3>1. Replaces(old, s, k, Absent)
      BY <2>6, <2>7, <2>8 DEF Replaces
    <3> QED
      BY <1>1, <1>3, <2>3, <2>9, <3>1, Remapped
<1> QED
  BY <1>5, <1>6

\* Whatever the hash function and however many keys share a bucket, value_for
\* returns what its key was last mapped to (table.cc lines 33-54).
THEOREM TableIsTheMap == LtSpec => []IsTheMap
<1>1. LtInit => LtInv
  <2> SUFFICES ASSUME LtInit PROVE LtInv
    OBVIOUS
  <2>1. \A bu \in Buckets : pairs[bu] = <<>>
    BY DEF LtInit
  <2>2. LtTypeOK
    BY DEF LtInit, LtTypeOK
  <2>3. \A k \in Keys : mapped[k] = Absent
    BY DEF LtInit
  <2> QED
    BY <2>1, <2>2, <2>3 DEF LtInv
<1>2. LtInv /\ [LtNext]_ltVars => LtInv'
  <2> SUFFICES ASSUME LtInv, [LtNext]_ltVars PROVE LtInv'
    OBVIOUS
  <2>1. CASE LtNext
    BY <2>1, AddOrUpdateKeeps, DeleteKeeps DEF LtNext
  <2>2. CASE UNCHANGED ltVars
    <3>1. hash' = hash /\ pairs' = pairs /\ mapped' = mapped
      BY <2>2 DEF ltVars
    <3>2. LtTypeOK'
      BY <3>1 DEF LtInv, LtTypeOK
    <3>3. \A k \in Keys : mapped'[k] # Absent =>
            \E i \in 1 .. Len(pairs'[hash'[k]]) : pairs'[hash'[k]][i][1] = k
      BY <3>1 DEF LtInv
    <3> QED
      BY <3>1, <3>2, <3>3 DEF LtInv
  <2> QED
    BY <2>1, <2>2
<1>3. LtInv => IsTheMap
  BY PlaceOf DEF IsPlace, IsTheMap, ValueFor, Bucket
<1> QED
  BY <1>1, <1>2, <1>3, PTL DEF LtSpec

-----------------------------------------------------------------------------
(* The spin lock. *)

InLock(t) == spinner[t] \in {"won", "inside", "measured"}

\* Who is inside has set the flag, alone, and has stored its time.
SlInv ==
  /\ flag \in BOOLEAN
  /\ spinner \in [Spinners -> {"idle", "load", "exchange", "won", "inside", "measured"}]
  /\ \A t \in Spinners : InLock(t) => flag
  /\ \A s, t \in Spinners : InLock(s) /\ InLock(t) => s = t
  /\ \A t \in Spinners : spinner[t] \in {"inside", "measured"} => acquired = t

\* Any number of threads may spin: one holds the lock at a time, and measures
\* its own hold time (spin_lock.cc lines 34-53).
THEOREM LockExcludes == SlSpec => []OneHolder
<1>1. SlInit => SlInv
  BY DEF SlInit, SlInv, InLock
<1>2. SlInv /\ [SlNext]_slVars => SlInv'
  <2> SUFFICES ASSUME SlInv, [SlNext]_slVars PROVE SlInv'
    OBVIOUS
  <2>1. CASE UNCHANGED slVars
    BY <2>1 DEF slVars, SlInv, InLock
  <2>2. ASSUME NEW t \in Spinners,
               CallLock(t) \/ LoadFlag(t) \/ Exchange(t) \/ StoreTime(t) \/ Measure(t)
                 \/ ClearFlag(t)
        PROVE  SlInv'
    BY <2>2, ZenonT(40) DEF SlInv, InLock, Goes, CallLock, LoadFlag, Exchange, StoreTime, Measure,
                ClearFlag
  <2> QED
    BY <2>1, <2>2 DEF SlNext
<1>3. SlInv => OneHolder
  BY DEF SlInv, InLock, OneHolder
<1> QED
  BY <1>1, <1>2, <1>3, PTL DEF SlSpec

-----------------------------------------------------------------------------
(* The channels. *)

Sendable == Senders \X Nat
At(state, threads, place) == {t \in threads : state[t] = place}
Num(state, threads, place) == Cardinality(At(state, threads, place))
ChRoom == IF kind = "csp" THEN 1 ELSE ChCapacity

SenderPlaces == {"idle", "waiting", "woken", "notify", "refused"}
ReceiverPlaces == {"idle", "waiting", "woken", "notify", "ended"}

Places ==
  /\ kind \in {"csp", "buffered"}
  /\ closer \in {"open", "closed", "sendersTold", "done"}
  /\ sender \in [Senders -> SenderPlaces]
  /\ receiver \in [Receivers -> ReceiverPlaces]

Ordered ==
  /\ buffer \in Seq(Sendable) /\ stored \in Seq(Sendable) /\ received \in Seq(Sendable)
  /\ stored = received \o buffer

\* A receiver is told the end by a closed and empty channel, into which no
\* sender of the buffered one stores any more.
EndIsLast ==
  kind = "buffered" /\ (\E t \in Receivers : receiver[t] = "ended") => Closed /\ buffer = <<>>

Supplied ==
  \/ In(receiver, Receivers) = {} \/ closer \in {"closed", "sendersTold"}
  \/ Len(buffer) <= Num(receiver, Receivers, "woken") + Num(sender, Senders, "notify")

Drained ==
  \/ In(sender, Senders) = {} \/ closer = "closed"
  \/ ChRoom - Len(buffer) <= Num(sender, Senders, "woken") + Num(receiver, Receivers, "notify")

\* notify_all has woken everyone, and nobody waits after it; in the buffered
\* channel that holds for the senders before the receivers are told.
Told ==
  /\ closer = "done" => In(receiver, Receivers) = {}
  /\ kind = "buffered" /\ closer \in {"sendersTold", "done"} => In(sender, Senders) = {}

ChInv == Places /\ Ordered /\ EndIsLast /\ Supplied /\ Drained /\ Told

-----------------------------------------------------------------------------
(* Counting threads.                                                       *)

LEMMA NumType ==
  ASSUME NEW T, IsFiniteSet(T), NEW f, NEW c
  PROVE  Num(f, T, c) \in Nat
<1>1. At(f, T, c) \subseteq T
  BY DEF At
<1> QED
  BY <1>1, FS_Subset, FS_CardinalityType DEF Num

\* One thread goes from one place to another.
LEMMA OneMoves ==
  ASSUME NEW T, IsFiniteSet(T), NEW f, NEW g, NEW t \in T, f[t] # g[t],
         \A u \in T \ {t} : g[u] = f[u]
  PROVE  /\ Num(g, T, g[t]) = Num(f, T, g[t]) + 1
         /\ Num(g, T, f[t]) = Num(f, T, f[t]) - 1
<1>1. \A c : IsFiniteSet(At(f, T, c))
  <2>1. \A c : At(f, T, c) \subseteq T
    BY DEF At
  <2> QED
    BY <2>1, FS_Subset
<1>2. At(g, T, g[t]) = At(f, T, g[t]) \cup {t} /\ t \notin At(f, T, g[t])
  BY DEF At
<1>3. At(g, T, f[t]) = At(f, T, f[t]) \ {t} /\ t \in At(f, T, f[t])
  BY DEF At
<1>4. Cardinality(At(g, T, g[t])) = Cardinality(At(f, T, g[t])) + 1
  BY <1>1, <1>2, FS_AddElement
<1>5. Cardinality(At(g, T, f[t])) = Cardinality(At(f, T, f[t])) - 1
  BY <1>1, <1>3, FS_RemoveElement
<1> QED
  BY <1>4, <1>5 DEF Num

\* notify_all disturbs no thread but those that wait.
LEMMA AllMove ==
  ASSUME NEW T, NEW S, NEW f \in [T -> S]
  PROVE  /\ In(AllWoken(f, T), T) = {}
         /\ Num(AllWoken(f, T), T, "notify") = Num(f, T, "notify")
<1>1. In(AllWoken(f, T), T) = {} /\ At(AllWoken(f, T), T, "notify") = At(f, T, "notify")
  BY DEF In, AllWoken, At
<1> QED
  BY <1>1 DEF Num

-----------------------------------------------------------------------------
(* The steps.                                                              *)

LEMMA ChInitInv == ChInit => ChInv
<1> SUFFICES ASSUME ChInit PROVE ChInv
  OBVIOUS
<1>1. Places /\ EndIsLast /\ In(sender, Senders) = {} /\ In(receiver, Receivers) = {}
  BY DEF ChInit, Places, EndIsLast, In, SenderPlaces, ReceiverPlaces
<1>2. Ordered
  <2>1. <<>> \in Seq(Sendable) /\ <<>> \o <<>> = <<>>
    BY EmptySeq, ConcatEmptySeq
  <2> QED
    BY <2>1 DEF ChInit, Ordered
<1> QED
  BY <1>1, <1>2 DEF ChInv, Supplied, Drained, Told

\* The two channels' send, in one form.
LEMMA SendCases ==
  ASSUME NEW t \in Senders, CspSend(t) \/ BufferedSend(t)
  PROVE  /\ sender[t] \in {"idle", "woken"}
         /\ UNCHANGED <<kind, closer, receiver, received>>
         /\ \/ WaitToSend(t) /\ (kind = "buffered" => ~Closed)
            \/ StoreValue(t) /\ (kind = "buffered" => ~Closed)
            \/ RefuseValue(t) /\ (kind = "csp" => sender[t] = "idle")
<1>1. CASE CspSend(t)
  BY <1>1 DEF CspSend
<1>2. CASE BufferedSend(t)
  BY <1>2 DEF BufferedSend
<1> QED
  BY <1>1, <1>2

LEMMA OrderedStep ==
  ASSUME ChInv, ChNext
  PROVE  Ordered'
<1> USE DEF ChInv
<1>1. ASSUME NEW t \in Senders, StoreValue(t), UNCHANGED received
      PROVE  Ordered'
  <2> DEFINE value == <<t, Sent(t) + 1>>
  <2>1. value \in Sendable
    <3>1. IsFiniteSet(1 .. Len(stored))
      BY FS_Interval DEF Ordered
    <3>2. {i \in 1 .. Len(stored) : stored[i][1] = t} \subseteq 1 .. Len(stored)
      OBVIOUS
    <3>3. Sent(t) \in Nat
      BY <3>1, <3>2, FS_Subset, FS_CardinalityType DEF Sent
    <3> QED
      BY <3>3 DEF Sendable
  <2>2. buffer' = Append(buffer, value) /\ stored' = Append(stored, value)
    BY <1>1 DEF StoreValue
  <2> HIDE DEF value
  <2>3. /\ <<value>> \in Seq(Sendable)
        /\ buffer' = buffer \o <<value>> /\ stored' = (received \o buffer) \o <<value>>
    BY <2>1, <2>2, AppendIsConcat, ConcatProperties, SMTT(30) DEF Ordered
  <2>4. stored' = received' \o buffer'
    BY <1>1, <2>3, ConcatAssociative DEF Ordered
  <2>5. buffer' \in Seq(Sendable) /\ stored' \in Seq(Sendable)
    BY <2>1, <2>2, AppendProperties DEF Ordered
  <2> QED
    BY <1>1, <2>4, <2>5 DEF Ordered
<1>2. ASSUME buffer # <<>>, received' = Append(received, Head(buffer)),
             buffer' = Tail(buffer), stored' = stored
      PROVE  Ordered'
  <2>1. Len(buffer) \in Nat \ {0}
    BY <1>2, EmptySeq, LenProperties DEF Ordered
  <2>2. /\ Head(buffer) \in Sendable /\ Head(buffer) = buffer[1]
        /\ Tail(buffer) \in Seq(Sendable)
    BY <1>2, HeadTailProperties DEF Ordered
  <2>3. buffer = <<Head(buffer)>> \o Tail(buffer)
    <3>1. SubSeq(buffer, 1, Len(buffer)) = <<buffer[1]>> \o SubSeq(buffer, 1 + 1, Len(buffer))
      BY <2>1, SubSeqRecursiveFirst DEF Ordered
    <3>2. Tail(buffer) = SubSeq(buffer, 2, Len(buffer))
      BY <1>2, TailIsSubSeq DEF Ordered
    <3> QED
      BY <2>2, <3>1, <3>2, SubSeqFull DEF Ordered
  <2>4. /\ <<Head(buffer)>> \in Seq(Sendable)
        /\ received' = received \o <<Head(buffer)>>
    BY <1>2, <2>2, AppendIsConcat DEF Ordered
  <2>5. stored = (received \o <<Head(buffer)>>) \o Tail(buffer)
    BY <2>2, <2>3, <2>4, ConcatAssociative DEF Ordered
  <2>6. received' \in Seq(Sendable)
    BY <1>2, <2>2, AppendProperties DEF Ordered
  <2> QED
    BY <1>2, <2>2, <2>4, <2>5, <2>6 DEF Ordered
<1>3. UNCHANGED <<buffer, stored, received>> => Ordered'
  BY DEF Ordered
<1>4. ASSUME NEW t \in Senders, CspSend(t) \/ BufferedSend(t) PROVE Ordered'
  BY <1>1, <1>3, <1>4, SendCases DEF WaitToSend, RefuseValue
<1>5. ASSUME NEW t \in Receivers, Receive(t) PROVE Ordered'
  BY <1>2, <1>3, <1>5 DEF Receive
<1>6. ASSUME \/ \E t \in Senders : NotifyReceiver(t)
             \/ \E t \in Receivers : NotifySender(t)
             \/ SpuriousWake \/ SetClosed \/ TellSenders \/ TellReceivers
      PROVE  Ordered'
  BY <1>3, <1>6 DEF NotifyReceiver, NotifySender, SpuriousWake, SetClosed, TellSenders,
                    TellReceivers
<1> QED
  BY <1>4, <1>5, <1>6 DEF ChNext

\* A sender that waits has seen the channel full, one that stores will notify,
\* and one that is refused after a wake-up leaves to nobody.
LEMMA SendStep ==
  ASSUME ChInv, NEW t \in Senders, CspSend(t) \/ BufferedSend(t)
  PROVE  Places' /\ EndIsLast' /\ Supplied' /\ Drained' /\ Told'
<1> USE DEF ChInv
<1>1. /\ sender[t] \in {"idle", "woken"} /\ UNCHANGED <<kind, closer, receiver>>
      /\ sender \in [Senders -> SenderPlaces] /\ IsFiniteSet(Senders)
      /\ ChCapacity \in Nat /\ Len(buffer) \in Nat
  BY SendCases, ChannelsAssumption, LenProperties DEF Places, Ordered
<1>2. /\ \A c : Num(sender, Senders, c) \in Nat
      /\ \A c : Num(receiver, Receivers, c) \in Nat
  BY NumType, ChannelsAssumption
<1>a. /\ sender' \in [Senders -> SenderPlaces]
      /\ sender'[t] \in {"waiting", "notify", "refused"}
      /\ \A u \in Senders \ {t} : sender'[u] = sender[u]
  BY <1>1, SendCases DEF WaitToSend, StoreValue, RefuseValue, SenderPlaces
<1>3. /\ sender'[t] = "notify" =>
           Num(sender', Senders, "notify") = Num(sender, Senders, "notify") + 1
      /\ sender'[t] # "notify" =>
           Num(sender', Senders, "notify") = Num(sender, Senders, "notify")
      /\ Num(sender', Senders, "woken") =
           Num(sender, Senders, "woken") - (IF sender[t] = "woken" THEN 1 ELSE 0)
  <2>1. /\ Num(sender', Senders, sender'[t]) = Num(sender, Senders, sender'[t]) + 1
        /\ Num(sender', Senders, sender[t]) = Num(sender, Senders, sender[t]) - 1
    BY <1>1, <1>a, OneMoves
  <2>2. /\ sender'[t] # "notify" => At(sender', Senders, "notify") = At(sender, Senders, "notify")
        /\ sender[t] # "woken" => At(sender', Senders, "woken") = At(sender, Senders, "woken")
    BY <1>1, <1>a DEF At
  <2>3. /\ sender'[t] # "notify" =>
             Num(sender', Senders, "notify") = Num(sender, Senders, "notify")
        /\ sender[t] # "woken" =>
             Num(sender', Senders, "woken") = Num(sender, Senders, "woken")
    BY <2>2 DEF Num
  <2> QED
    BY <1>2, <2>1, <2>3
<1>4. Num(receiver', Receivers, "woken") = Num(receiver, Receivers, "woken")
      /\ Num(receiver', Receivers, "notify") = Num(receiver, Receivers, "notify")
      /\ In(receiver', Receivers) = In(receiver, Receivers) /\ ChRoom' = ChRoom
      /\ (Closed' <=> Closed)
  BY <1>1 DEF ChRoom, Closed
<1>5. CASE WaitToSend(t) /\ (kind = "buffered" => ~Closed)
  <2>1. sender'[t] = "waiting" /\ buffer' = buffer /\ Len(buffer) >= ChRoom
    BY <1>1, <1>5 DEF WaitToSend, Full, ChRoom
  <2>2. /\ Num(sender', Senders, "notify") = Num(sender, Senders, "notify")
        /\ Num(sender', Senders, "woken") \in Nat
    BY <1>3, <2>1, NumType, ChannelsAssumption
  <2>3. Places' /\ EndIsLast'
    BY <1>1, <1>a, <1>4, <2>1 DEF Places, EndIsLast
  <2>4. Supplied'
    BY <1>1, <1>4, <2>1, <2>2 DEF Supplied
  <2>5. Drained'
    BY <1>1, <1>2, <1>4, <2>1, <2>2 DEF Drained, ChRoom
  <2>6. Told'
    BY <1>1, <1>4, <1>5 DEF Told, Closed
  <2> QED
    BY <2>3, <2>4, <2>5, <2>6
<1>6. CASE StoreValue(t) /\ (kind = "buffered" => ~Closed)
  <2>1. sender'[t] = "notify" /\ Len(buffer) < ChRoom
    BY <1>1, <1>6 DEF StoreValue, Full, ChRoom
  <2>2. Len(buffer') = Len(buffer) + 1
    <3>1. buffer' = Append(buffer, <<t, Sent(t) + 1>>)
      BY <1>6 DEF StoreValue
    <3> QED
      BY <3>1 DEF Ordered
  <2>3. Num(sender', Senders, "notify") = Num(sender, Senders, "notify") + 1
    BY <1>3, <2>1
  <2>4. Num(sender', Senders, "woken") >= Num(sender, Senders, "woken") - 1
    BY <1>1, <1>2, <1>3, <2>1
  <2>5. In(sender', Senders) = In(sender, Senders)
    BY <1>1, <1>a, <2>1 DEF In
  <2>6. Places' /\ EndIsLast'
    BY <1>1, <1>a, <1>4, <1>6, <2>1 DEF Places, EndIsLast
  <2>7. Supplied'
    BY <1>1, <1>2, <1>4, <2>2, <2>3 DEF Supplied
  <2>8. Num(sender', Senders, "woken") \in Nat
    BY NumType, ChannelsAssumption
  <2>9. Drained'
    BY <1>1, <1>2, <1>4, <2>2, <2>4, <2>5, <2>8 DEF Drained, ChRoom
  <2>10. Told'
    BY <1>1, <1>4, <2>5 DEF Told
  <2> QED
    BY <2>6, <2>7, <2>9, <2>10
<1>7. CASE RefuseValue(t) /\ (kind = "csp" => sender[t] = "idle")
  <2>1. sender'[t] = "refused" /\ buffer' = buffer /\ Closed
    BY <1>1, <1>7 DEF RefuseValue
  <2>2. Num(sender', Senders, "notify") = Num(sender, Senders, "notify")
    BY <1>1, <1>3, <2>1
  <2>3. In(sender', Senders) = In(sender, Senders)
    BY <1>1, <1>a, <2>1 DEF In
  <2>4. Places' /\ EndIsLast'
    BY <1>1, <1>a, <1>4, <2>1 DEF Places, EndIsLast
  <2>5. Supplied'
    BY <1>1, <1>4, <2>1, <2>2 DEF Supplied
  <2>6. Told'
    BY <1>1, <1>4, <2>3 DEF Told
  <2>7. Drained'
    <3>1. CASE kind = "csp"
      <4>1. Num(sender', Senders, "woken") = Num(sender, Senders, "woken")
        <5>1. sender[t] # "woken" /\ Num(sender, Senders, "woken") \in Nat
          BY <1>2, <1>7, <3>1
        <5> QED
          BY <1>3, <5>1
      <4> QED
        BY <1>1, <1>4, <2>1, <2>3, <4>1 DEF Drained
    <3>2. CASE kind = "buffered"
      BY <1>1, <2>1, <2>3, <3>2 DEF Drained, Told, Closed, Places
    <3> QED
      BY <3>1, <3>2 DEF Places
  <2> QED
    BY <2>4, <2>5, <2>6, <2>7
<1> QED
  BY <1>5, <1>6, <1>7, SendCases

\* notify_one: if anyone waits, one more is on its way.
LEMMA Wakes ==
  ASSUME NEW T, IsFiniteSet(T), NEW S, NEW f \in [T -> S], "woken" \in S,
         NEW g, g \in OneWoken(f, T)
  PROVE  /\ g \in [T -> S]
         /\ In(f, T) = {} => g = f
         /\ In(f, T) # {} => Num(g, T, "woken") = Num(f, T, "woken") + 1
         /\ Num(g, T, "notify") = Num(f, T, "notify")
         /\ In(g, T) \subseteq In(f, T)
         /\ \A u \in T : g[u] = "ended" <=> f[u] = "ended"
<1>1. CASE In(f, T) = {}
  BY <1>1 DEF OneWoken
<1>2. CASE In(f, T) # {}
  <2>1. PICK t \in In(f, T) : g = [f EXCEPT ![t] = "woken"]
    BY <1>2 DEF OneWoken
  <2>2. /\ t \in T /\ f[t] = "waiting" /\ g[t] = "woken" /\ f[t] # g[t]
        /\ g \in [T -> S] /\ \A u \in T \ {t} : g[u] = f[u]
    BY <2>1 DEF In
  <2>3. Num(g, T, g[t]) = Num(f, T, g[t]) + 1
    BY <2>2, OneMoves
  <2>4. At(g, T, "notify") = At(f, T, "notify") /\ In(g, T) \subseteq In(f, T)
    BY <2>2 DEF At, In
  <2> QED
    BY <1>2, <2>2, <2>3, <2>4 DEF Num
<1> QED
  BY <1>1, <1>2

\* A notification for a value turns into a receiver on its way.
LEMMA NotifyReceiverStep ==
  ASSUME ChInv, NEW t \in Senders, NotifyReceiver(t)
  PROVE  Places' /\ EndIsLast' /\ Supplied' /\ Drained' /\ Told'
<1> USE DEF ChInv
<1>1. /\ sender[t] = "notify" /\ sender'[t] = "idle" /\ sender' \in [Senders -> SenderPlaces]
      /\ \A u \in Senders \ {t} : sender'[u] = sender[u]
      /\ receiver' \in OneWoken(receiver, Receivers)
      /\ UNCHANGED <<kind, buffer, closer>>
  BY DEF NotifyReceiver, Places, SenderPlaces
<1>2. /\ IsFiniteSet(Senders) /\ IsFiniteSet(Receivers) /\ Len(buffer) \in Nat
      /\ \A c : Num(sender, Senders, c) \in Nat /\ Num(receiver, Receivers, c) \in Nat
  BY NumType, ChannelsAssumption, LenProperties DEF Ordered
<1>3. /\ receiver' \in [Receivers -> ReceiverPlaces]
      /\ In(receiver, Receivers) = {} => receiver' = receiver
      /\ In(receiver, Receivers) # {} =>
           Num(receiver', Receivers, "woken") = Num(receiver, Receivers, "woken") + 1
      /\ Num(receiver', Receivers, "notify") = Num(receiver, Receivers, "notify")
      /\ In(receiver', Receivers) \subseteq In(receiver, Receivers)
      /\ \A u \in Receivers : receiver'[u] = "ended" <=> receiver[u] = "ended"
  <2>1. receiver \in [Receivers -> ReceiverPlaces] /\ "woken" \in ReceiverPlaces
    BY DEF Places, ReceiverPlaces
  <2> QED
    BY <1>1, <1>2, <2>1, Wakes
<1>4. Num(sender', Senders, "notify") = Num(sender, Senders, "notify") - 1
  <2>1. /\ IsFiniteSet(Senders) /\ sender[t] # sender'[t]
        /\ \A u \in Senders \ {t} : sender'[u] = sender[u]
    BY <1>1, <1>2
  <2>2. Num(sender', Senders, sender[t]) = Num(sender, Senders, sender[t]) - 1
    BY <2>1, OneMoves
  <2> QED
    BY <1>1, <2>2
<1>5. /\ In(sender', Senders) = In(sender, Senders)
      /\ Num(sender', Senders, "woken") = Num(sender, Senders, "woken")
  <2>1. /\ In(sender', Senders) = In(sender, Senders)
        /\ At(sender', Senders, "woken") = At(sender, Senders, "woken")
    BY <1>1 DEF In, At
  <2> QED
    BY <2>1 DEF Num
<1>6. Places' /\ EndIsLast' /\ Told'
  BY <1>1, <1>3, <1>5 DEF Places, EndIsLast, Told, Closed
<1>7. Supplied'
  BY <1>1, <1>2, <1>3, <1>4 DEF Supplied
<1>8. Drained'
  BY <1>1, <1>3, <1>5 DEF Drained, ChRoom
<1> QED
  BY <1>6, <1>7, <1>8

\* A notification for a place turns into a sender on its way.
LEMMA NotifySenderStep ==
  ASSUME ChInv, NEW t \in Receivers, NotifySender(t)
  PROVE  Places' /\ EndIsLast' /\ Supplied' /\ Drained' /\ Told'
<1> USE DEF ChInv
<1>1. /\ receiver[t] = "notify" /\ receiver'[t] = "idle"
      /\ receiver' \in [Receivers -> ReceiverPlaces]
      /\ \A u \in Receivers \ {t} : receiver'[u] = receiver[u]
      /\ sender' \in OneWoken(sender, Senders)
      /\ UNCHANGED <<kind, buffer, closer>>
  BY DEF NotifySender, Places, ReceiverPlaces
<1>2. /\ IsFiniteSet(Senders) /\ IsFiniteSet(Receivers) /\ Len(buffer) \in Nat
      /\ ChCapacity \in Nat
      /\ \A c : Num(sender, Senders, c) \in Nat /\ Num(receiver, Receivers, c) \in Nat
  BY NumType, ChannelsAssumption, LenProperties DEF Ordered
<1>3. /\ sender' \in [Senders -> SenderPlaces]
      /\ In(sender, Senders) = {} => sender' = sender
      /\ In(sender, Senders) # {} =>
           Num(sender', Senders, "woken") = Num(sender, Senders, "woken") + 1
      /\ Num(sender', Senders, "notify") = Num(sender, Senders, "notify")
      /\ In(sender', Senders) \subseteq In(sender, Senders)
  <2>1. sender \in [Senders -> SenderPlaces] /\ "woken" \in SenderPlaces
    BY DEF Places, SenderPlaces
  <2> QED
    BY <1>1, <1>2, <2>1, Wakes
<1>4. Num(receiver', Receivers, "notify") = Num(receiver, Receivers, "notify") - 1
  <2>1. /\ IsFiniteSet(Receivers) /\ receiver[t] # receiver'[t]
        /\ \A u \in Receivers \ {t} : receiver'[u] = receiver[u]
    BY <1>1, <1>2
  <2>2. Num(receiver', Receivers, receiver[t]) = Num(receiver, Receivers, receiver[t]) - 1
    BY <2>1, OneMoves
  <2> QED
    BY <1>1, <2>2
<1>5. /\ In(receiver', Receivers) = In(receiver, Receivers)
      /\ Num(receiver', Receivers, "woken") = Num(receiver, Receivers, "woken")
      /\ \A u \in Receivers : receiver'[u] = "ended" <=> receiver[u] = "ended"
  <2>1. /\ In(receiver', Receivers) = In(receiver, Receivers)
        /\ At(receiver', Receivers, "woken") = At(receiver, Receivers, "woken")
    BY <1>1 DEF In, At
  <2> QED
    BY <1>1, <2>1 DEF Num
<1>6. Places' /\ EndIsLast' /\ Told'
  BY <1>1, <1>3, <1>5 DEF Places, EndIsLast, Told, Closed
<1>7. Supplied'
  BY <1>1, <1>3, <1>5 DEF Supplied
<1>8. Drained'
  BY <1>1, <1>2, <1>3, <1>4 DEF Drained, ChRoom
<1> QED
  BY <1>6, <1>7, <1>8

\* A receiver that waits has seen the channel empty and not closed; one that
\* takes a value will notify.
LEMMA ReceiveStep ==
  ASSUME ChInv, NEW t \in Receivers, Receive(t)
  PROVE  Places' /\ EndIsLast' /\ Supplied' /\ Drained' /\ Told'
<1> USE DEF ChInv
<1>1. /\ receiver[t] \in {"idle", "woken"} /\ UNCHANGED <<kind, closer, sender>>
      /\ receiver' \in [Receivers -> ReceiverPlaces]
      /\ \A u \in Receivers \ {t} : receiver'[u] = receiver[u]
      /\ \/ /\ buffer = <<>> /\ buffer' = buffer
            /\ receiver'[t] = IF Closed THEN "ended" ELSE "waiting"
         \/ buffer # <<>> /\ buffer' = Tail(buffer) /\ receiver'[t] = "notify"
  BY DEF Receive, Places, ReceiverPlaces
<1>2. /\ IsFiniteSet(Receivers) /\ Len(buffer) \in Nat /\ ChCapacity \in Nat
      /\ \A c : Num(sender, Senders, c) \in Nat /\ Num(receiver, Receivers, c) \in Nat
      /\ Num(receiver', Receivers, "woken") \in Nat
  BY NumType, ChannelsAssumption, LenProperties DEF Ordered
<1>3. Places' /\ ChRoom' = ChRoom /\ (Closed' <=> Closed)
  BY <1>1 DEF Places, ChRoom, Closed
<1>4. receiver'[t] # "waiting" => In(receiver', Receivers) = In(receiver, Receivers)
  BY <1>1 DEF In
<1>5. Told'
  BY <1>1, <1>4 DEF Told, Closed
<1>6. CASE buffer = <<>>
  <2>1. Len(buffer) = 0 /\ buffer' = buffer /\ receiver'[t] # "notify"
    BY <1>1, <1>6
  <2>2. At(receiver', Receivers, "notify") = At(receiver, Receivers, "notify")
    BY <1>1, <2>1 DEF At
  <2>3. Num(receiver', Receivers, "notify") = Num(receiver, Receivers, "notify")
    BY <2>2 DEF Num
  <2>4. EndIsLast'
    BY <1>1, <1>6, <2>1 DEF EndIsLast, Closed
  <2>5. Supplied'
    BY <1>1, <1>2, <2>1 DEF Supplied
  <2>6. Drained'
    BY <1>1, <1>3, <2>1, <2>3 DEF Drained
  <2> QED
    BY <1>3, <1>5, <2>4, <2>5, <2>6
<1>7. CASE buffer # <<>>
  <2>1. buffer' = Tail(buffer) /\ receiver'[t] = "notify" /\ receiver[t] # receiver'[t]
    BY <1>1, <1>7
  <2>2. Len(buffer') = Len(buffer) - 1
    BY <1>7, <2>1 DEF Ordered
  <2>3. Num(receiver', Receivers, "notify") = Num(receiver, Receivers, "notify") + 1
    <3>1. Num(receiver', Receivers, receiver'[t]) = Num(receiver, Receivers, receiver'[t]) + 1
      BY <1>1, <1>2, <2>1, OneMoves
    <3> QED
      BY <2>1, <3>1
  <2>4. Num(receiver', Receivers, "woken") >= Num(receiver, Receivers, "woken") - 1
    <3>1. CASE receiver[t] = "woken"
      <4>1. Num(receiver', Receivers, receiver[t]) = Num(receiver, Receivers, receiver[t]) - 1
        BY <1>1, <1>2, <2>1, OneMoves
      <4> QED
        BY <1>2, <3>1, <4>1
    <3>2. CASE receiver[t] # "woken"
      <4>1. At(receiver', Receivers, "woken") = At(receiver, Receivers, "woken")
        BY <1>1, <2>1, <3>2 DEF At
      <4> QED
        BY <1>2, <4>1 DEF Num
    <3> QED
      BY <3>1, <3>2
  <2>5. EndIsLast'
    BY <1>1, <1>7, <2>1 DEF EndIsLast
  <2>6. Supplied'
    BY <1>1, <1>2, <1>4, <2>1, <2>2, <2>4 DEF Supplied
  <2>7. Drained'
    BY <1>1, <1>2, <1>3, <2>2, <2>3 DEF Drained, ChRoom
  <2> QED
    BY <1>3, <1>5, <2>5, <2>6, <2>7
<1> QED
  BY <1>6, <1>7

LEMMA SpuriousStep ==
  ASSUME ChInv, SpuriousWake
  PROVE  Places' /\ EndIsLast' /\ Supplied' /\ Drained' /\ Told'
<1> USE DEF ChInv
<1>1. /\ UNCHANGED <<kind, buffer, closer>> /\ IsFiniteSet(Senders) /\ IsFiniteSet(Receivers)
      /\ sender \in [Senders -> SenderPlaces] /\ "woken" \in SenderPlaces
      /\ receiver \in [Receivers -> ReceiverPlaces] /\ "woken" \in ReceiverPlaces
      /\ Len(buffer) \in Nat /\ ChCapacity \in Nat
  BY ChannelsAssumption, LenProperties
     DEF SpuriousWake, Places, SenderPlaces, ReceiverPlaces, Ordered
<1>2. \A c : Num(sender, Senders, c) \in Nat /\ Num(receiver, Receivers, c) \in Nat
  BY NumType, ChannelsAssumption
<1>3. CASE In(sender, Senders) # {} /\ sender' \in OneWoken(sender, Senders) /\ receiver' = receiver
  <2>1. /\ sender' \in [Senders -> SenderPlaces]
        /\ Num(sender', Senders, "woken") = Num(sender, Senders, "woken") + 1
        /\ Num(sender', Senders, "notify") = Num(sender, Senders, "notify")
        /\ In(sender', Senders) \subseteq In(sender, Senders)
    BY <1>1, <1>3, Wakes
  <2>2. Places' /\ EndIsLast' /\ Told' /\ Supplied'
    BY <1>1, <1>3, <2>1 DEF Places, EndIsLast, Told, Closed, Supplied
  <2>3. Drained'
    BY <1>1, <1>2, <1>3, <2>1 DEF Drained, ChRoom
  <2> QED
    BY <2>2, <2>3
<1>4. CASE /\ In(receiver, Receivers) # {} /\ receiver' \in OneWoken(receiver, Receivers)
           /\ sender' = sender
  <2>1. /\ receiver' \in [Receivers -> ReceiverPlaces]
        /\ Num(receiver', Receivers, "woken") = Num(receiver, Receivers, "woken") + 1
        /\ Num(receiver', Receivers, "notify") = Num(receiver, Receivers, "notify")
        /\ In(receiver', Receivers) \subseteq In(receiver, Receivers)
        /\ \A u \in Receivers : receiver'[u] = "ended" <=> receiver[u] = "ended"
    BY <1>1, <1>4, Wakes
  <2>2. Places' /\ EndIsLast' /\ Told' /\ Drained'
    BY <1>1, <1>4, <2>1 DEF Places, EndIsLast, Told, Closed, Drained, ChRoom
  <2>3. Supplied'
    BY <1>1, <1>2, <1>4, <2>1 DEF Supplied
  <2> QED
    BY <2>2, <2>3
<1> QED
  BY <1>3, <1>4 DEF SpuriousWake, OneWoken

LEMMA CloseStep ==
  ASSUME ChInv, SetClosed \/ TellSenders \/ TellReceivers
  PROVE  Places' /\ EndIsLast' /\ Supplied' /\ Drained' /\ Told'
<1> USE DEF ChInv
<1>1. CASE SetClosed
  BY <1>1 DEF SetClosed, Places, EndIsLast, Supplied, Drained, Told, Closed
<1>2. CASE TellSenders
  <2>1. /\ sender' = AllWoken(sender, Senders) /\ closer' = "sendersTold"
        /\ UNCHANGED <<kind, buffer, receiver>> /\ closer = "closed"
    BY <1>2 DEF TellSenders
  <2>2. In(sender', Senders) = {}
    BY <2>1 DEF In, AllWoken
  <2>3. Places'
    BY <2>1 DEF Places, AllWoken, SenderPlaces
  <2> QED
    BY <2>1, <2>2, <2>3 DEF EndIsLast, Supplied, Drained, Told, Closed
<1>3. CASE TellReceivers
  <2>1. /\ receiver' = AllWoken(receiver, Receivers) /\ closer' = "done"
        /\ UNCHANGED <<kind, buffer, sender>> /\ closer = "sendersTold"
    BY <1>3 DEF TellReceivers
  <2>2. /\ In(receiver', Receivers) = {}
        /\ At(receiver', Receivers, "notify") = At(receiver, Receivers, "notify")
    BY <2>1 DEF In, AllWoken, At
  <2>3. Places'
    BY <2>1 DEF Places, AllWoken, ReceiverPlaces
  <2>4. \A u \in Receivers : receiver'[u] = "ended" <=> receiver[u] = "ended"
    BY <2>1 DEF AllWoken
  <2> QED
    BY <2>1, <2>2, <2>3, <2>4 DEF EndIsLast, Supplied, Drained, Told, Closed, Num, ChRoom
<1> QED
  BY <1>1, <1>2, <1>3

LEMMA ChannelInvariant == ChSpec => []ChInv
<1>1. ChInv /\ [ChNext]_chVars => ChInv'
  <2> SUFFICES ASSUME ChInv, [ChNext]_chVars PROVE ChInv'
    OBVIOUS
  <2>1. CASE UNCHANGED chVars
    BY <2>1 DEF chVars, ChInv, Places, Ordered, EndIsLast, Supplied, Drained, Told, Closed, ChRoom
  <2>2. CASE ChNext
    <3>1. Ordered'
      BY <2>2, OrderedStep
    <3>2. Places' /\ EndIsLast' /\ Supplied' /\ Drained' /\ Told'
      BY <2>2, SendStep, NotifyReceiverStep, ReceiveStep, NotifySenderStep, SpuriousStep,
         CloseStep DEF ChNext
    <3> QED
      BY <3>1, <3>2 DEF ChInv
  <2> QED
    BY <2>1, <2>2
<1> QED
  BY <1>1, ChInitInv, PTL DEF ChSpec

-----------------------------------------------------------------------------
(* The theorems.                                                           *)

\* For any threads and capacity the values come out in the order they went in,
\* and whoever is told the end of the buffered channel has missed none
\* (csp.cc, buffercsp.cc).
THEOREM EndIsEmpty == ChSpec => []EndMeansEmpty
<1>1. ChInv => EndMeansEmpty
  BY DEF ChInv, Ordered, EndIsLast, EndMeansEmpty
<1> QED
  BY <1>1, ChannelInvariant, PTL

\* For any threads and capacity no wake-up is lost: one notification for one
\* value and one place, sent without the mutex, is enough, and stop or close
\* leaves nobody asleep whom it should wake (csp.cc, buffercsp.cc).
THEOREM NoWakeupLost == ChSpec => []NoneForgotten
<1>1. ChInv => NoneForgotten
  BY DEF ChInv, Supplied, Drained, Told, Num, At, ChRoom, NoneForgotten
<1> QED
  BY <1>1, ChannelInvariant, PTL

-----------------------------------------------------------------------------
(* SuperQueue. *)

(***************************************************************************)
(* Slots and tickets: two tickets of one slot are at least a lap apart.    *)
(***************************************************************************)
LEMMA SlotType == ASSUME NEW k \in Nat PROVE Slot(k) \in Slots
  BY SuperQueueAssumption DEF Slot, Slots

LEMMA SlotLap ==
  ASSUME NEW k \in Nat
  PROVE  \E q \in Nat : k = Capacity * q + Slot(k)
<1>1. k \div Capacity \in Nat
  BY SuperQueueAssumption
<1>2. k = Capacity * (k \div Capacity) + (k % Capacity)
  BY SuperQueueAssumption
<1> QED
  BY <1>1, <1>2 DEF Slot

LEMMA LapsApart ==
  ASSUME NEW q \in Nat, NEW r \in Nat, q < r
  PROVE  Capacity * r >= Capacity * q + Capacity
<1>1. Capacity \in Nat
  BY SuperQueueAssumption
<1>2. r - q - 1 \in Nat
  OBVIOUS
<1>3. r = q + 1 + (r - q - 1)
  OBVIOUS
<1>4. Capacity * (q + 1 + (r - q - 1))
        = Capacity * q + Capacity + Capacity * (r - q - 1)
  BY <1>1, <1>2
<1>5. Capacity * (r - q - 1) \in Nat
  BY <1>1, <1>2
<1>6. Capacity * q \in Nat
  BY <1>1
<1> QED
  BY <1>1, <1>3, <1>4, <1>5, <1>6

LEMMA SlotUnique ==
  ASSUME NEW k \in Nat, NEW q \in Nat, NEW s \in Slots, k = Capacity * q + s
  PROVE  Slot(k) = s
<1>1. /\ Capacity \in Nat
      /\ s \in Nat
      /\ s < Capacity
      /\ Capacity * q \in Nat
  BY SuperQueueAssumption DEF Slots
<1>2. PICK r \in Nat : k = Capacity * r + Slot(k)
  BY SlotLap
<1>3. Slot(k) \in Nat /\ Slot(k) < Capacity
  BY <1>1, SlotType DEF Slots
<1>4. Capacity * r \in Nat
  BY <1>1
<1>5. CASE q = r
  <2>1. Capacity * q = Capacity * r
    BY <1>5
  <2> QED
    BY <2>1, <1>1, <1>2, <1>3
<1>6. CASE q < r
  <2>1. Capacity * r >= Capacity * q + Capacity
    BY <1>6, LapsApart
  <2> QED
    BY <2>1, <1>1, <1>2, <1>3, <1>4
<1>7. CASE r < q
  <2>1. Capacity * q >= Capacity * r + Capacity
    BY <1>7, LapsApart
  <2> QED
    BY <2>1, <1>1, <1>2, <1>3, <1>4
<1> QED
  BY <1>5, <1>6, <1>7

LEMMA SlotNextLap == ASSUME NEW k \in Nat PROVE Slot(k + Capacity) = Slot(k)
<1>1. PICK q \in Nat : k = Capacity * q + Slot(k)
  BY SlotLap
<1>2. Capacity \in Nat /\ Slot(k) \in Slots /\ Slot(k) \in Nat
  BY SlotType, SuperQueueAssumption DEF Slots
<1>3. q + 1 \in Nat /\ k + Capacity \in Nat
  BY <1>2
<1>4. Capacity * (q + 1) = Capacity * q + Capacity
  BY <1>2
<1>5. k + Capacity = Capacity * (q + 1) + Slot(k)
  BY <1>1, <1>2, <1>4
<1> QED
  BY <1>2, <1>3, <1>5, SlotUnique

LEMMA SameSlot ==
  ASSUME NEW k \in Nat, NEW l \in Nat, Slot(k) = Slot(l), k < l
  PROVE  l >= k + Capacity
<1>1. PICK q \in Nat : k = Capacity * q + Slot(k)
  BY SlotLap
<1>2. PICK r \in Nat : l = Capacity * r + Slot(l)
  BY SlotLap
<1>3. Capacity \in Nat /\ Slot(k) \in Nat
  BY SlotType, SuperQueueAssumption DEF Slots
<1>4. Capacity * q \in Nat /\ Capacity * r \in Nat
  BY <1>3
<1>5. q < r
  <2>1. CASE r < q
    BY <2>1, LapsApart, <1>1, <1>2, <1>3, <1>4
  <2>2. CASE r = q
    BY <2>2, <1>1, <1>2, <1>3, <1>4
  <2> QED
    BY <2>1, <2>2
<1>6. Capacity * r >= Capacity * q + Capacity
  BY <1>5, LapsApart
<1> QED
  BY <1>1, <1>2, <1>3, <1>4, <1>6

LEMMA SlotOfSlot == ASSUME NEW s \in Slots PROVE Slot(s) = s
<1>1. s \in Nat /\ s = Capacity * 0 + s
  BY SuperQueueAssumption DEF Slots
<1> QED
  BY <1>1, SlotUnique

LEMMA NextTicketOtherSlot ==
  ASSUME NEW k \in Nat, Capacity > 1
  PROVE  Slot(k + 1) # Slot(k)
<1>1. Slot(k) = Slot(k + 1) => k + 1 >= k + Capacity
  BY SameSlot
<1> QED
  BY <1>1, SuperQueueAssumption

(***************************************************************************)
(* The invariant holds initially.                                          *)
(***************************************************************************)
LEMMA InitInv == Init => IInv
<1> SUFFICES ASSUME Init PROVE IInv
  OBVIOUS
<1>1. TypeOK
  <2>1. sequence \in [Slots -> Nat] /\ storage \in [Slots -> Values \cup {Raw}]
    BY SuperQueueAssumption DEF Init, Slots
  <2>2. put \in Seq(Values)
    BY DEF Init
  <2> QED
    BY <2>1, <2>2 DEF Init, TypeOK
<1>2. Program /\ SawTurn /\ Turn /\ Unique /\ Gone
  BY DEF Init, Program, SawTurn, Turn, Unique, Gone, Drew, Took, Threads
<1>3. Window
  BY SuperQueueAssumption DEF Init, Window
<1>4. ASSUME NEW s \in Slots PROVE Vacant(s, sequence[s])
  <2>1. sequence[s] = s /\ s \in Nat /\ s < Capacity
    BY SuperQueueAssumption DEF Init, Slots
  <2>2. Slot(s) = s
    BY SlotOfSlot
  <2> QED
    BY <2>1, <2>2, SuperQueueAssumption DEF Init, Vacant
<1> QED
  BY <1>1, <1>2, <1>3, <1>4 DEF IInv, SlotStates

(***************************************************************************)
(* A step of a thread outside every slot that stays outside, and keeps its *)
(* view of the turn honest, disturbs nothing.                              *)
(***************************************************************************)
LEMMA OutsideStep ==
  ASSUME IInv, ~destroyed,
         NEW t \in Threads,
         UNCHANGED <<enqueue_pos, dequeue_pos, sequence, storage, destroyed, put>>,
         NEW l \in {"idle", "load", "cas", "reload"},
         pc[t] \in {"idle", "load", "cas", "reload"},
         pc' = [pc EXCEPT ![t] = l],
         NEW k \in Nat,
         pos' = [pos EXCEPT ![t] = k],
         NEW v \in Values \cup {Raw},
         item' = [item EXCEPT ![t] = v],
         t \in Producers /\ l # "idle" => v \in Values,
         l = "cas" => sequence[Slot(k)] >= IF t \in Producers THEN k ELSE k + 1
  PROVE  IInv'
<1> USE DEF IInv
<1>1. TypeOK'
  BY DEF TypeOK
<1>2. Program'
  BY DEF Program, TypeOK, Threads
<1>3. Window'
  BY DEF Window
<1>4. SawTurn'
  BY SuperQueueAssumption DEF SawTurn, TypeOK, Threads
<1>5. \A u \in Threads : /\ Drew(u)' <=> Drew(u)
                         /\ Took(u)' <=> Took(u)
                         /\ Drew(u) \/ Took(u) => /\ pos'[u] = pos[u]
                                                  /\ item'[u] = item[u]
                                                  /\ pc'[u] = pc[u]
  BY DEF Drew, Took, TypeOK
<1>6. Turn'
  BY <1>5 DEF Turn, Threads
<1>7. Unique'
  BY <1>5 DEF Unique, Threads
<1>8. SlotStates'
  BY <1>5 DEF SlotStates, Vacant, Filled, Threads
<1>9. Gone'
  BY DEF Gone
<1> QED
  BY <1>1, <1>2, <1>3, <1>4, <1>6, <1>7, <1>8, <1>9

LEMMA QuietSteps ==
  ASSUME IInv, ~destroyed, NEW t \in Threads,
         \/ t \in Producers /\ StartEmplace(t)
         \/ t \in Producers /\ LoadSequence(t, EnqueueTurn(pos[t]))
         \/ t \in Producers /\ (Reload(t, enqueue_pos) \/ CasFails(t, enqueue_pos))
         \/ t \in Consumers /\ StartPop(t)
         \/ t \in Consumers /\ LoadSequence(t, DequeueTurn(pos[t]))
         \/ t \in Consumers /\ (Reload(t, dequeue_pos) \/ CasFails(t, dequeue_pos))
  PROVE  IInv'
<1> USE DEF IInv
<1>1. /\ pos \in [Threads -> Nat]
      /\ item \in [Threads -> Values \cup {Raw}]
      /\ enqueue_pos \in Nat
      /\ dequeue_pos \in Nat
      /\ sequence \in [Slots -> Nat]
      /\ Slot(pos[t]) \in Slots
      /\ t \in Producers => t \notin Consumers
  BY SlotType, SuperQueueAssumption DEF TypeOK
<1>2. CASE t \in Producers /\ StartEmplace(t)
  <2>1. PICK k \in pos[t] .. enqueue_pos : pos' = [pos EXCEPT ![t] = k]
    BY <1>2 DEF StartEmplace, LoadPos
  <2>2. PICK v \in Values : item' = [item EXCEPT ![t] = v]
    BY <1>2 DEF StartEmplace
  <2>3. k \in Nat
    BY <1>1
  <2> QED
    BY <1>1, <1>2, <2>1, <2>2, <2>3, OutsideStep DEF StartEmplace, Goto
<1>3. CASE t \in Consumers /\ StartPop(t)
  <2>1. PICK k \in pos[t] .. dequeue_pos : pos' = [pos EXCEPT ![t] = k]
    BY <1>3 DEF StartPop, LoadPos
  <2>2. k \in Nat
    BY <1>1
  <2> QED
    BY <1>1, <1>3, <2>1, <2>2, OutsideStep DEF StartPop, Goto
<1>4. ASSUME NEW turn \in Nat, LoadSequence(t, turn),
             turn = IF t \in Producers THEN pos[t] ELSE pos[t] + 1
      PROVE  IInv'
  <2>1. PICK seq \in SequenceHistory(Slot(pos[t])) :
          \/ seq = turn /\ Goto(t, "load", "cas")
          \/ seq < turn /\ Goto(t, "load", "idle")
          \/ seq > turn /\ Goto(t, "load", "reload")
    BY <1>4 DEF LoadSequence
  <2>2. seq \in Int /\ seq <= sequence[Slot(pos[t])]
    BY <1>1 DEF SequenceHistory, Slots
  <2>3. PICK l \in {"idle", "cas", "reload"} :
          /\ pc' = [pc EXCEPT ![t] = l]
          /\ l = "cas" => seq = turn
    BY <2>1 DEF Goto
  <2>4. pos' = [pos EXCEPT ![t] = pos[t]] /\ item' = [item EXCEPT ![t] = item[t]]
    BY <1>1, <1>4 DEF LoadSequence
  <2>5. pc[t] = "load"
    BY <2>1 DEF Goto
  <2>6. t \in Producers => item[t] \in Values
    BY <2>5 DEF Program
  <2>7. l = "cas" => sequence[Slot(pos[t])]
                       >= IF t \in Producers THEN pos[t] ELSE pos[t] + 1
    BY <1>1, <1>4, <2>2, <2>3
  <2>8. UNCHANGED <<enqueue_pos, dequeue_pos, sequence, storage, destroyed, put>>
    BY <1>4 DEF LoadSequence
  <2>9. pos[t] \in Nat /\ item[t] \in Values \cup {Raw}
    BY <1>1
  <2> QED
    BY <2>3, <2>4, <2>5, <2>6, <2>7, <2>8, <2>9, OutsideStep
<1>5. ASSUME NEW counter \in Nat, Reload(t, counter) \/ CasFails(t, counter)
      PROVE  IInv'
  <2>1. PICK k \in pos[t] .. counter : pos' = [pos EXCEPT ![t] = k]
    BY <1>5 DEF Reload, CasFails, LoadPos
  <2>2. k \in Nat
    BY <1>1
  <2>3. pc[t] \in {"reload", "cas"} /\ pc' = [pc EXCEPT ![t] = "load"]
    BY <1>5 DEF Reload, CasFails, Goto
  <2>4. item' = [item EXCEPT ![t] = item[t]]
    BY <1>1, <1>5 DEF Reload, CasFails
  <2>5. t \in Producers => item[t] \in Values
    BY <2>3 DEF Program
  <2>6. UNCHANGED <<enqueue_pos, dequeue_pos, sequence, storage, destroyed, put>>
    BY <1>5 DEF Reload, CasFails
  <2>7. item[t] \in Values \cup {Raw}
    BY <1>1
  <2> QED
    BY <2>1, <2>2, <2>3, <2>4, <2>5, <2>6, <2>7, OutsideStep
<1> QED
  BY <1>1, <1>2, <1>3, <1>4, <1>5 DEF EnqueueTurn, DequeueTurn

(***************************************************************************)
(* Drawing a producer's ticket.                                            *)
(***************************************************************************)
LEMMA ClaimEnqueueStep ==
  ASSUME Capacity > 1, IInv, NEW p \in Producers, ClaimEnqueue(p)
  PROVE  IInv'
<1> USE DEF IInv
<1> DEFINE k == enqueue_pos
           s == Slot(k)
<1>1. /\ p \in Threads
      /\ k \in Nat
      /\ s \in Slots
      /\ sequence \in [Slots -> Nat]
      /\ pos[p] = k
      /\ pc[p] = "cas"
      /\ pc' = [pc EXCEPT ![p] = "construct"]
      /\ item[p] \in Values
      /\ sequence[s] >= k
      /\ ~destroyed
  BY SlotType DEF ClaimEnqueue, Goto, TypeOK, Threads, SawTurn, Program, Gone
<1>2. ~ (sequence[s] > 0 /\ Filled(s, sequence[s] - 1))
  <2> SUFFICES ASSUME sequence[s] > 0, Filled(s, sequence[s] - 1)
               PROVE  FALSE
    OBVIOUS
  <2>1. sequence[s] = k /\ k - 1 \in Nat /\ Slot(k - 1) = s
    BY <1>1 DEF Filled
  <2>2. Slot((k - 1) + 1) # Slot(k - 1)
    BY <2>1, NextTicketOtherSlot
  <2> QED
    BY <1>1, <2>1, <2>2
<1>3. Vacant(s, sequence[s])
  BY <1>1, <1>2 DEF SlotStates
<1>4. sequence[s] = k
  <2>1. Slot(sequence[s]) = Slot(k) /\ sequence[s] < dequeue_pos + Capacity
    BY <1>3 DEF Vacant
  <2>2. sequence[s] > k => sequence[s] >= k + Capacity
    BY <1>1, <2>1, SameSlot
  <2> QED
    BY <1>1, <2>1, <2>2, SuperQueueAssumption DEF Window, TypeOK
<1>5. storage[s] = Raw /\ dequeue_pos <= k /\ k < dequeue_pos + Capacity
  BY <1>1, <1>3, <1>4 DEF Vacant
<1>6. /\ enqueue_pos' = k + 1
      /\ put' = Append(put, item[p])
      /\ Len(put') = k + 1
      /\ put'[k + 1] = item[p]
      /\ \A i \in 1 .. k : put'[i] = put[i]
  BY <1>1 DEF ClaimEnqueue, TypeOK, Window
<1>7. TypeOK'
  BY <1>1 DEF ClaimEnqueue, TypeOK
<1>8. Program'
  BY <1>1, SuperQueueAssumption DEF Program, ClaimEnqueue, TypeOK, Threads
<1>9. Window'
  BY <1>1, <1>5, <1>6, SuperQueueAssumption DEF Window, ClaimEnqueue, TypeOK
<1>10. SawTurn'
  BY <1>1 DEF SawTurn, ClaimEnqueue, TypeOK, Threads
<1>11. Turn'
  <2>1. ASSUME NEW q \in Producers, Drew(q)'
        PROVE  /\ pos'[q] < enqueue_pos'
               /\ sequence'[Slot(pos'[q])] = pos'[q]
               /\ item'[q] = put'[pos'[q] + 1]
               /\ pc'[q] = "construct" => storage'[Slot(pos'[q])] = Raw
               /\ pc'[q] = "publish" => storage'[Slot(pos'[q])] = put'[pos'[q] + 1]
    <3>1. CASE q = p
      BY <1>1, <1>4, <1>5, <1>6, <3>1 DEF ClaimEnqueue, TypeOK
    <3>2. CASE q # p
      <4>1. Drew(q) /\ pc'[q] = pc[q] /\ q \in Threads
        BY <1>1, <2>1, <3>2 DEF Drew, TypeOK, Threads
      <4>2. pos[q] \in Nat /\ pos[q] + 1 \in 1 .. k
        BY <1>1, <4>1 DEF Turn, TypeOK
      <4> QED
        BY <1>1, <1>6, <4>1, <4>2, SMTT(30) DEF Turn, ClaimEnqueue
    <3> QED
      BY <3>1, <3>2
  <2>2. ASSUME NEW c \in Consumers, Took(c)'
        PROVE  /\ pos'[c] < dequeue_pos'
               /\ enqueue_pos' <= pos'[c] + Capacity
               /\ sequence'[Slot(pos'[c])] = pos'[c] + 1
               /\ pc'[c] # "move" => item'[c] = put'[pos'[c] + 1]
               /\ pc'[c] # "release" => storage'[Slot(pos'[c])] = put'[pos'[c] + 1]
               /\ pc'[c] = "release" => storage'[Slot(pos'[c])] = Raw
    <3>1. c # p /\ c \in Threads
      BY SuperQueueAssumption DEF Threads
    <3>2. Took(c) /\ pc'[c] = pc[c]
      BY <1>1, <2>2, <3>1 DEF Took, TypeOK
    <3>3. /\ pos[c] \in Nat
          /\ pos[c] < dequeue_pos
          /\ k <= pos[c] + Capacity
          /\ sequence[Slot(pos[c])] = pos[c] + 1
      BY <3>1, <3>2 DEF Turn, TypeOK
    <3>4. pos[c] + 1 \in 1 .. k
      BY <1>1, <3>3 DEF Window, TypeOK
    <3>5. k # pos[c] + Capacity
      <4>1. Slot(pos[c] + Capacity) = Slot(pos[c])
        BY <3>3, SlotNextLap
      <4> QED
        BY <1>1, <1>4, <3>3, <4>1, SuperQueueAssumption
    <3>6. UNCHANGED <<dequeue_pos, sequence, storage, pos, item>>
      BY DEF ClaimEnqueue
    <3>7. enqueue_pos' <= pos[c] + Capacity
      BY <1>1, <1>6, <3>3, <3>5, SuperQueueAssumption
    <3>8. put'[pos[c] + 1] = put[pos[c] + 1]
      BY <1>6, <3>4
    <3> QED
      BY <3>2, <3>3, <3>6, <3>7, <3>8 DEF Turn
  <2> QED
    BY <2>1, <2>2 DEF Turn
<1>12. Unique'
  <2>1. ASSUME NEW q \in Producers, Drew(q) PROVE pos[q] < k
    BY <2>1 DEF Turn
  <2>2. \A q \in Threads : q # p => pc'[q] = pc[q]
    BY <1>1 DEF TypeOK
  <2>3. pos' = pos
    BY DEF ClaimEnqueue
  <2>4. \A c \in Consumers : c # p /\ (Took(c)' <=> Took(c))
    BY <2>2, SuperQueueAssumption DEF Took, Threads
  <2>5. \A q \in Producers : q # p => (Drew(q)' <=> Drew(q))
    BY <2>2 DEF Drew, Threads
  <2>6. \A q, r \in Producers :
          Drew(q)' /\ Drew(r)' /\ pos[q] = pos[r] => q = r
    BY <1>1, <2>1, <2>5 DEF Unique, TypeOK, Threads
  <2> QED
    BY <2>3, <2>4, <2>6 DEF Unique
<1>13. SlotStates'
  <2>1. \A q \in Producers : Drew(q) => Drew(q)'
    BY <1>1 DEF Drew, TypeOK, Threads
  <2>2. \A c \in Consumers : Took(c) => Took(c)'
    BY <1>1 DEF Took, TypeOK, Threads
  <2>3. Drew(p)' /\ pos'[p] = k
    BY <1>1 DEF Drew, ClaimEnqueue, TypeOK
  <2>4. ASSUME NEW z \in Slots, Vacant(z, sequence[z])
        PROVE  Vacant(z, sequence[z])'
    <3>1. CASE sequence[z] = k
      BY <1>1, <1>5, <1>6, <2>3, <2>4, <3>1 DEF Vacant, ClaimEnqueue
    <3>2. CASE sequence[z] # k
      <4>1. sequence[z] \in Nat
        BY <1>1
      <4> QED
        BY <1>1, <1>6, <2>1, <2>4, <3>2, <4>1 DEF Vacant, ClaimEnqueue
    <3> QED
      BY <3>1, <3>2
  <2>5. ASSUME NEW z \in Slots, sequence[z] > 0, Filled(z, sequence[z] - 1)
        PROVE  Filled(z, sequence[z] - 1)'
    <3>1. sequence[z] \in 1 .. k
      BY <1>1, <2>5 DEF Filled
    <3> QED
      BY <1>1, <1>6, <2>2, <2>5, <3>1 DEF Filled, ClaimEnqueue
  <2> QED
    BY <2>4, <2>5 DEF SlotStates, ClaimEnqueue
<1>14. Gone'
  BY <1>1 DEF Gone, ClaimEnqueue
<1> QED
  BY <1>7, <1>8, <1>9, <1>10, <1>11, <1>12, <1>13, <1>14

(***************************************************************************)
(* The sequences keep the threads apart.                                   *)
(***************************************************************************)
LEMMA Exclusive ==
  ASSUME Capacity > 1, IInv
  PROVE  SlotExclusive
<1> SUFFICES ASSUME NEW t \in Threads, NEW u \in Threads, t # u,
                    Inside(t), Inside(u), Slot(pos[t]) = Slot(pos[u])
             PROVE  FALSE
  BY DEF SlotExclusive
<1>1. pos[t] \in Nat /\ pos[u] \in Nat
  BY DEF IInv, TypeOK
<1>2. /\ t \in Producers => Drew(t) /\ sequence[Slot(pos[t])] = pos[t]
      /\ u \in Producers => Drew(u) /\ sequence[Slot(pos[u])] = pos[u]
      /\ t \in Consumers => Took(t) /\ sequence[Slot(pos[t])] = pos[t] + 1
      /\ u \in Consumers => Took(u) /\ sequence[Slot(pos[u])] = pos[u] + 1
  BY DEF IInv, Program, Inside, Drew, Took, Turn
<1>3. CASE t \in Producers /\ u \in Producers
  BY <1>2, <1>3 DEF IInv, Unique
<1>4. CASE t \in Consumers /\ u \in Consumers
  BY <1>1, <1>2, <1>4 DEF IInv, Unique
<1>5. CASE t \in Producers /\ u \in Consumers
  BY <1>1, <1>2, <1>5, NextTicketOtherSlot
<1>6. CASE t \in Consumers /\ u \in Producers
  BY <1>1, <1>2, <1>6, NextTicketOtherSlot
<1> QED
  BY <1>3, <1>4, <1>5, <1>6 DEF Threads

(***************************************************************************)
(* A step of a thread inside a slot changes that slot only; it is enough   *)
(* that the thread and the slot end in states the invariant allows.        *)
(***************************************************************************)
LEMMA InsideStep ==
  ASSUME Capacity > 1, IInv, ~destroyed,
         NEW t \in Threads, Inside(t),
         UNCHANGED <<enqueue_pos, dequeue_pos, pos, destroyed, put>>,
         NEW v \in Values \cup {Raw},
         storage' = [storage EXCEPT ![Slot(pos[t])] = v],
         NEW n \in Nat,
         n >= sequence[Slot(pos[t])],
         sequence' = [sequence EXCEPT ![Slot(pos[t])] = n],
         NEW l \in {"idle", "publish", "destroy", "release"},
         pc' = [pc EXCEPT ![t] = l],
         NEW e \in Values \cup {Raw},
         item' = [item EXCEPT ![t] = e],
         t \in Producers => l \in {"idle", "publish"} /\ e = item[t],
         t \in Consumers => l \in {"idle", "destroy", "release"},
         l = "publish" => n = pos[t] /\ v = put[pos[t] + 1],
         l \in {"destroy", "release"} => n = pos[t] + 1 /\ e = put[pos[t] + 1],
         l = "destroy" => v = put[pos[t] + 1],
         l = "release" => v = Raw,
         \/ Vacant(Slot(pos[t]), n)'
         \/ n > 0 /\ Filled(Slot(pos[t]), n - 1)'
  PROVE  IInv'
<1> USE DEF IInv
<1> DEFINE s == Slot(pos[t])
<1>1. /\ pos \in [Threads -> Nat]
      /\ pc \in [Threads -> {"idle", "load", "cas", "reload", "construct",
                             "publish", "move", "destroy", "release"}]
      /\ item \in [Threads -> Values \cup {Raw}]
      /\ sequence \in [Slots -> Nat]
      /\ storage \in [Slots -> Values \cup {Raw}]
      /\ s \in Slots
      /\ \A u \in Threads : Slot(pos[u]) \in Slots
  BY SlotType DEF TypeOK
<1>2. ASSUME NEW u \in Threads, u # t
      PROVE  pc'[u] = pc[u] /\ item'[u] = item[u]
             /\ (Drew(u)' <=> Drew(u)) /\ (Took(u)' <=> Took(u))
  BY <1>1, <1>2 DEF Drew, Took
<1>3. ASSUME NEW z \in Slots, z # s
      PROVE  sequence'[z] = sequence[z] /\ storage'[z] = storage[z]
  BY <1>1, <1>3
<1>4. sequence'[s] = n /\ storage'[s] = v
  BY <1>1
<1>5. ASSUME NEW u \in Threads, u # t, Inside(u)
      PROVE  Slot(pos[u]) # s
  BY <1>5, Exclusive DEF SlotExclusive
<1>6. TypeOK'
  BY <1>1 DEF TypeOK
<1>7. Program'
  BY <1>1, SuperQueueAssumption DEF Program, Threads, Inside
<1>8. Window'
  BY DEF Window
<1>9. SawTurn'
  <2>1. \A z \in Slots : sequence'[z] >= sequence[z]
    BY <1>1, <1>3, <1>4
  <2>2. \A u \in Threads : pc'[u] = "cas" => pc[u] = "cas"
    BY <1>1
  <2>3. \A z \in Slots : sequence'[z] \in Nat /\ sequence[z] \in Nat
    BY <1>1
  <2> QED
    BY <1>1, <2>1, <2>2, <2>3 DEF SawTurn, Threads
<1>10. Turn'
  <2>1. ASSUME NEW q \in Producers, Drew(q)'
        PROVE  /\ pos[q] < enqueue_pos
               /\ sequence'[Slot(pos[q])] = pos[q]
               /\ item'[q] = put[pos[q] + 1]
               /\ pc'[q] = "construct" => storage'[Slot(pos[q])] = Raw
               /\ pc'[q] = "publish" => storage'[Slot(pos[q])] = put[pos[q] + 1]
    <3>1. q \in Threads
      BY DEF Threads
    <3>2. CASE q = t
      <4>1. pc'[t] = l /\ item'[t] = item[t]
        BY <1>1, <3>2
      <4>2. l = "publish"
        BY <2>1, <3>2, <4>1 DEF Drew
      <4>3. Drew(t)
        BY <3>2 DEF Program, Inside, Drew
      <4> QED
        BY <1>4, <3>2, <4>1, <4>2, <4>3 DEF Turn
    <3>3. CASE q # t
      <4>1. Drew(q) /\ pc'[q] = pc[q] /\ item'[q] = item[q]
        BY <1>2, <2>1, <3>1, <3>3
      <4>2. Slot(pos[q]) # s /\ Slot(pos[q]) \in Slots
        BY <1>1, <1>5, <3>1, <3>3, <4>1 DEF Drew, Inside
      <4> QED
        BY <1>3, <4>1, <4>2 DEF Turn
    <3> QED
      BY <3>2, <3>3
  <2>2. ASSUME NEW c \in Consumers, Took(c)'
        PROVE  /\ pos[c] < dequeue_pos
               /\ enqueue_pos <= pos[c] + Capacity
               /\ sequence'[Slot(pos[c])] = pos[c] + 1
               /\ pc'[c] # "move" => item'[c] = put[pos[c] + 1]
               /\ pc'[c] # "release" => storage'[Slot(pos[c])] = put[pos[c] + 1]
               /\ pc'[c] = "release" => storage'[Slot(pos[c])] = Raw
    <3>1. c \in Threads
      BY DEF Threads
    <3>2. CASE c = t
      <4>1. pc'[t] = l /\ item'[t] = e
        BY <1>1
      <4>2. l \in {"destroy", "release"}
        BY <2>2, <3>2, <4>1 DEF Took
      <4>3. Took(t)
        BY <3>2 DEF Program, Inside, Took
      <4> QED
        BY <1>4, <3>2, <4>1, <4>2, <4>3 DEF Turn
    <3>3. CASE c # t
      <4>1. Took(c) /\ pc'[c] = pc[c] /\ item'[c] = item[c]
        BY <1>2, <2>2, <3>1, <3>3
      <4>2. Slot(pos[c]) # s /\ Slot(pos[c]) \in Slots
        BY <1>1, <1>5, <3>1, <3>3, <4>1 DEF Took, Inside
      <4> QED
        BY <1>3, <4>1, <4>2 DEF Turn
    <3> QED
      BY <3>2, <3>3
  <2> QED
    BY <2>1, <2>2 DEF Turn
<1>11. Unique'
  <2>1. \A p \in Producers : Drew(p)' => Drew(p)
    BY <1>1, <1>2 DEF Drew, Threads, Inside, Program
  <2>2. \A c \in Consumers : Took(c)' => Took(c)
    BY <1>1, <1>2 DEF Took, Threads, Inside, Program
  <2> QED
    BY <2>1, <2>2 DEF Unique
<1>12. SlotStates'
  <2> SUFFICES ASSUME NEW z \in Slots, z # s
               PROVE  \/ Vacant(z, sequence[z])'
                      \/ sequence[z] > 0 /\ Filled(z, sequence[z] - 1)'
    BY <1>3, <1>4 DEF SlotStates
  <2>1. sequence'[z] = sequence[z] /\ storage'[z] = storage[z]
    BY <1>3
  <2>2. CASE Vacant(z, sequence[z])
    <3>1. ASSUME NEW p \in Producers, Drew(p), pos[p] = sequence[z]
          PROVE  Drew(p)'
      BY <1>2, <2>2, <3>1 DEF Vacant, Threads
    <3> QED
      BY <2>1, <2>2, <3>1 DEF Vacant
  <2>3. CASE sequence[z] > 0 /\ Filled(z, sequence[z] - 1)
    <3>1. ASSUME NEW c \in Consumers, Took(c), pos[c] = sequence[z] - 1
          PROVE  Took(c)'
      BY <1>2, <2>3, <3>1 DEF Filled, Threads
    <3> QED
      BY <2>1, <2>3, <3>1 DEF Filled
  <2> QED
    BY <2>2, <2>3 DEF SlotStates
<1>13. Gone'
  BY DEF Gone
<1> QED
  BY <1>6, <1>7, <1>8, <1>9, <1>10, <1>11, <1>12, <1>13

(***************************************************************************)
(* The steps inside a slot.                                                *)
(***************************************************************************)
LEMMA ProducerInside ==
  ASSUME Capacity > 1, IInv, NEW p \in Producers, Drew(p)
  PROVE  /\ p \in Threads /\ Inside(p) /\ ~destroyed
         /\ Slot(pos[p]) \in Slots
         /\ pos[p] \in Nat
         /\ sequence[Slot(pos[p])] = pos[p]
         /\ pos[p] < enqueue_pos
         /\ item[p] \in Values
         /\ item[p] = put[pos[p] + 1]
         /\ dequeue_pos <= pos[p]
         /\ pos[p] < dequeue_pos + Capacity
<1> USE DEF IInv
<1> DEFINE k == pos[p]
           s == Slot(k)
<1>1. /\ p \in Threads
      /\ Inside(p)
      /\ ~destroyed
      /\ item[p] \in Values
      /\ k \in Nat
      /\ s \in Slots
      /\ sequence[s] = k
      /\ k < enqueue_pos
      /\ item[p] = put[k + 1]
  BY SlotType DEF Threads, Inside, Drew, Gone, Program, TypeOK, Turn
<1>2. ~ (k > 0 /\ Filled(s, k - 1))
  <2>1. k > 0 => Slot((k - 1) + 1) # Slot(k - 1)
    BY <1>1, NextTicketOtherSlot
  <2> QED
    BY <1>1, <2>1 DEF Filled
<1>3. Vacant(s, k)
  BY <1>1, <1>2 DEF SlotStates
<1> QED
  BY <1>1, <1>3 DEF Vacant

LEMMA ConsumerInside ==
  ASSUME Capacity > 1, IInv, NEW c \in Consumers, Took(c)
  PROVE  /\ c \in Threads /\ Inside(c) /\ ~destroyed
         /\ c \notin Producers
         /\ Slot(pos[c]) \in Slots
         /\ pos[c] \in Nat
         /\ sequence[Slot(pos[c])] = pos[c] + 1
         /\ pos[c] < dequeue_pos
         /\ dequeue_pos <= enqueue_pos
         /\ enqueue_pos <= pos[c] + Capacity
         /\ put[pos[c] + 1] \in Values
<1> USE DEF IInv
<1>1. /\ c \in Threads
      /\ Inside(c)
      /\ ~destroyed
      /\ c \notin Producers
      /\ pos[c] \in Nat
      /\ Slot(pos[c]) \in Slots
      /\ sequence[Slot(pos[c])] = pos[c] + 1
      /\ pos[c] < dequeue_pos
      /\ dequeue_pos <= enqueue_pos
      /\ enqueue_pos <= pos[c] + Capacity
  BY SlotType, SuperQueueAssumption
  DEF Threads, Inside, Took, Gone, TypeOK, Turn, Window
<1>2. pos[c] + 1 \in 1 .. Len(put)
  BY <1>1 DEF Window, TypeOK
<1>3. put[pos[c] + 1] \in Values
  BY <1>2 DEF TypeOK
<1> QED
  BY <1>1, <1>3

LEMMA ConstructStep ==
  ASSUME Capacity > 1, IInv, NEW p \in Producers, Construct(p)
  PROVE  IInv'
<1>1. Drew(p) /\ Drew(p)'
  BY DEF Construct, Goto, Drew, IInv, TypeOK, Threads
<1> DEFINE k == pos[p]
           s == Slot(k)
<1>2. Vacant(s, k)'
  BY <1>1, ProducerInside DEF Vacant, Construct
<1>3. sequence' = [sequence EXCEPT ![s] = k] /\ item' = [item EXCEPT ![p] = item[p]]
  BY <1>1, ProducerInside DEF Construct, IInv, TypeOK
<1>4. /\ UNCHANGED <<enqueue_pos, dequeue_pos, pos, destroyed, put>>
      /\ pc' = [pc EXCEPT ![p] = "publish"]
      /\ storage' = [storage EXCEPT ![s] = item[p]]
  BY DEF Construct, Goto
<1>5. /\ p \in Threads /\ Inside(p) /\ ~destroyed /\ p \notin Consumers
      /\ item[p] \in Values \cup {Raw}
      /\ item[p] = put[k + 1]
      /\ k \in Nat
      /\ k >= sequence[s]
  BY <1>1, ProducerInside, SuperQueueAssumption
<1> QED
  BY <1>2, <1>3, <1>4, <1>5, InsideStep

LEMMA PublishStep ==
  ASSUME Capacity > 1, IInv, NEW p \in Producers, Publish(p)
  PROVE  IInv'
<1>1. Drew(p) /\ pc[p] = "publish"
  BY DEF Publish, Goto, Drew
<1> DEFINE k == pos[p]
           s == Slot(k)
<1>2. storage[s] = put[k + 1] /\ storage[s] \in Values \cup {Raw}
  BY <1>1, ProducerInside DEF IInv, Turn, TypeOK
<1>3. storage' = [storage EXCEPT ![s] = storage[s]]
      /\ item' = [item EXCEPT ![p] = item[p]]
  BY <1>1, ProducerInside DEF Publish, IInv, TypeOK
<1>4. PICK n \in Nat : n = k + 1
  BY <1>1, ProducerInside
<1>5. n > 0 /\ n >= sequence[s] /\ n - 1 = k
  BY <1>1, <1>4, ProducerInside
<1>6. Filled(s, n - 1)'
  BY <1>1, <1>2, <1>5, ProducerInside DEF Filled, Publish
<1>7. sequence' = [sequence EXCEPT ![s] = n] /\ p \notin Consumers
  BY <1>4, SuperQueueAssumption DEF Publish, DequeueTurn
<1>8. UNCHANGED <<enqueue_pos, dequeue_pos, pos, destroyed, put>>
      /\ pc' = [pc EXCEPT ![p] = "idle"]
  BY DEF Publish, Goto
<1>9. p \in Threads /\ Inside(p) /\ ~destroyed /\ item[p] \in Values \cup {Raw}
  BY <1>1, ProducerInside
<1> QED
  BY <1>2, <1>3, <1>5, <1>6, <1>7, <1>8, <1>9, InsideStep

LEMMA MoveStep ==
  ASSUME Capacity > 1, IInv, NEW c \in Consumers, Move(c)
  PROVE  IInv'
<1>1. Took(c) /\ Took(c)' /\ pc[c] = "move"
  BY DEF Move, Goto, Took, IInv, TypeOK, Threads
<1> DEFINE k == pos[c]
           s == Slot(k)
<1>2. storage[s] = put[k + 1]
  BY <1>1 DEF IInv, Turn
<1>3. storage' = [storage EXCEPT ![s] = storage[s]]
      /\ sequence' = [sequence EXCEPT ![s] = k + 1]
  BY <1>1, ConsumerInside DEF Move, IInv, TypeOK
<1>4. PICK n \in Nat : n = k + 1
  BY <1>1, ConsumerInside
<1>5. n > 0 /\ n >= sequence[s] /\ n - 1 = k
      /\ sequence' = [sequence EXCEPT ![s] = n]
  BY <1>1, <1>3, <1>4, ConsumerInside
<1>6. Filled(s, n - 1)'
  BY <1>1, <1>5, ConsumerInside DEF Filled, Move, IInv, TypeOK
<1> QED
  BY <1>1, <1>2, <1>3, <1>4, <1>5, <1>6, ConsumerInside, InsideStep DEF Move, Goto

LEMMA DestroyMovedStep ==
  ASSUME Capacity > 1, IInv, NEW c \in Consumers, DestroyMoved(c)
  PROVE  IInv'
<1>1. Took(c) /\ Took(c)' /\ pc[c] = "destroy"
  BY DEF DestroyMoved, Goto, Took, IInv, TypeOK, Threads
<1> DEFINE k == pos[c]
           s == Slot(k)
<1>2. item[c] = put[k + 1]
  BY <1>1 DEF IInv, Turn
<1>3. item' = [item EXCEPT ![c] = item[c]]
      /\ sequence' = [sequence EXCEPT ![s] = k + 1]
  BY <1>1, ConsumerInside DEF DestroyMoved, IInv, TypeOK
<1>4. PICK n \in Nat : n = k + 1
  BY <1>1, ConsumerInside
<1>5. n > 0 /\ n >= sequence[s] /\ n - 1 = k
      /\ sequence' = [sequence EXCEPT ![s] = n]
  BY <1>1, <1>3, <1>4, ConsumerInside
<1>6. Filled(s, n - 1)'
  BY <1>1, <1>5, ConsumerInside DEF Filled, DestroyMoved, IInv, TypeOK
<1> QED
  BY <1>1, <1>2, <1>3, <1>4, <1>5, <1>6, ConsumerInside, InsideStep
  DEF DestroyMoved, Goto

LEMMA ReleaseStep ==
  ASSUME Capacity > 1, IInv, NEW c \in Consumers, Release(c)
  PROVE  IInv'
<1>1. Took(c) /\ pc[c] = "release"
  BY DEF Release, Goto, Took
<1> DEFINE k == pos[c]
           s == Slot(k)
<1>2. storage[s] = Raw /\ item[c] \in Values \cup {Raw}
  BY <1>1, ConsumerInside DEF IInv, Turn, TypeOK
<1>3. item' = [item EXCEPT ![c] = item[c]]
      /\ storage' = [storage EXCEPT ![s] = Raw]
  BY <1>1, <1>2, ConsumerInside DEF Release, IInv, TypeOK
<1>4. Slot(k + Capacity) = s
  BY <1>1, ConsumerInside, SlotNextLap
<1>5. /\ Capacity \in Nat
      /\ k + Capacity \in Nat
      /\ k + Capacity >= sequence[s]
  BY <1>1, ConsumerInside, SuperQueueAssumption
<1>6. dequeue_pos \in Nat /\ enqueue_pos \in Nat
  BY DEF IInv, TypeOK
<1>7. storage'[s] = Raw
  BY <1>1, <1>3, ConsumerInside DEF IInv, TypeOK
<1>8. PICK n \in Nat : n = k + Capacity
  BY <1>5
<1>9. n >= sequence[s] /\ sequence' = [sequence EXCEPT ![s] = n]
  BY <1>5, <1>8 DEF Release
<1>10. Vacant(s, n)'
  BY <1>1, <1>4, <1>5, <1>6, <1>7, <1>8, ConsumerInside DEF Vacant, Release
<1>11. UNCHANGED <<enqueue_pos, dequeue_pos, pos, destroyed, put>>
       /\ pc' = [pc EXCEPT ![c] = "idle"]
  BY DEF Release, Goto
<1>12. c \in Threads /\ Inside(c) /\ ~destroyed /\ c \notin Producers
  BY <1>1, ConsumerInside
<1>13. Raw \in Values \cup {Raw} /\ item[c] \in Values \cup {Raw}
  BY <1>2
<1> HIDE DEF k, s
<1> QED
  BY <1>3, <1>9, <1>10, <1>11, <1>12, <1>13, InsideStep DEF s, k

(***************************************************************************)
(* Drawing a consumer's ticket.                                            *)
(***************************************************************************)
LEMMA ClaimDequeueStep ==
  ASSUME Capacity > 1, IInv, NEW c \in Consumers, ClaimDequeue(c)
  PROVE  IInv'
<1> USE DEF IInv
<1> DEFINE k == dequeue_pos
           s == Slot(k)
<1>1. /\ c \in Threads /\ c \notin Producers
      /\ k \in Nat /\ enqueue_pos \in Nat /\ Capacity \in Nat
      /\ k <= enqueue_pos /\ enqueue_pos <= k + Capacity
      /\ s \in Slots
      /\ sequence \in [Slots -> Nat]
      /\ pos \in [Threads -> Nat]
      /\ pos[c] = k
      /\ pc[c] = "cas"
      /\ pc' = [pc EXCEPT ![c] = "move"]
      /\ sequence[s] >= k + 1
      /\ ~destroyed
  BY SlotType, SuperQueueAssumption
  DEF ClaimDequeue, Goto, TypeOK, Threads, SawTurn, Gone, Window
<1>2. ~ Vacant(s, sequence[s])
  <2> SUFFICES ASSUME Vacant(s, sequence[s]) PROVE FALSE
    OBVIOUS
  <2>1. Slot(sequence[s]) = Slot(k) /\ sequence[s] < k + Capacity
    BY DEF Vacant
  <2>2. sequence[s] >= k + Capacity
    BY <1>1, <2>1, SameSlot
  <2> QED
    BY <1>1, <2>1, <2>2
<1>3. sequence[s] > 0 /\ Filled(s, sequence[s] - 1)
  BY <1>1, <1>2 DEF SlotStates
<1>4. sequence[s] = k + 1
  <2>1. /\ sequence[s] - 1 \in Nat
        /\ Slot(sequence[s] - 1) = Slot(k)
        /\ sequence[s] - 1 < enqueue_pos
    BY <1>1, <1>3 DEF Filled
  <2>2. sequence[s] - 1 > k => sequence[s] - 1 >= k + Capacity
    BY <1>1, <2>1, SameSlot
  <2> QED
    BY <1>1, <2>1, <2>2
<1>5. (k + 1) - 1 = k
  BY <1>1
<1>6. storage[s] = put[k + 1] /\ k < enqueue_pos
  BY <1>1, <1>3, <1>4, <1>5 DEF Filled
<1>7. UNCHANGED <<enqueue_pos, sequence, storage, pos, item, destroyed, put>>
      /\ dequeue_pos' = k + 1
  BY DEF ClaimDequeue
<1>8. ASSUME NEW u \in Threads, u # c
      PROVE  pc'[u] = pc[u] /\ (Drew(u)' <=> Drew(u)) /\ (Took(u)' <=> Took(u))
  BY <1>1, <1>8 DEF Drew, Took, TypeOK
<1>9. Took(c)' /\ ~Took(c) /\ pc'[c] = "move"
  BY <1>1 DEF Took, TypeOK
<1>10. TypeOK'
  BY <1>1, <1>7 DEF TypeOK
<1>11. Program'
  BY <1>1, <1>7 DEF Program, TypeOK, Threads
<1>12. Window'
  BY <1>1, <1>6, <1>7 DEF Window
<1>13. SawTurn'
  BY <1>1, <1>7 DEF SawTurn, TypeOK, Threads
<1>14. Turn'
  <2>1. ASSUME NEW q \in Producers, Drew(q)'
        PROVE  Drew(q) /\ pc'[q] = pc[q]
    BY <1>1, <1>8, <2>1 DEF Threads
  <2>2. ASSUME NEW d \in Consumers, Took(d)'
        PROVE  /\ pos[d] < k + 1
               /\ enqueue_pos <= pos[d] + Capacity
               /\ sequence[Slot(pos[d])] = pos[d] + 1
               /\ pc'[d] # "move" => item[d] = put[pos[d] + 1]
               /\ pc'[d] # "release" => storage[Slot(pos[d])] = put[pos[d] + 1]
               /\ pc'[d] = "release" => storage[Slot(pos[d])] = Raw
    <3>1. CASE d = c
      BY <1>1, <1>4, <1>6, <1>9, <3>1
    <3>2. CASE d # c
      <4>1. d \in Threads /\ Took(d) /\ pc'[d] = pc[d]
        BY <1>8, <2>2, <3>2 DEF Threads
      <4>2. pos[d] \in Nat /\ pos[d] < k
        BY <1>1, <4>1 DEF Turn
      <4> QED
        BY <1>1, <4>1, <4>2 DEF Turn
    <3> QED
      BY <3>1, <3>2
  <2> QED
    BY <1>7, <2>1, <2>2 DEF Turn
<1>15. Unique'
  <2>1. \A d \in Consumers : Took(d) => pos[d] < k
    BY DEF Turn
  <2>2. \A p \in Producers : Drew(p)' => Drew(p)
    BY <1>1, <1>8 DEF Threads
  <2>3. \A d \in Consumers : d # c /\ Took(d)' => Took(d) /\ pos[d] # k
    BY <1>1, <1>8, <2>1 DEF Threads
  <2>4. \A d, e \in Consumers : Took(d)' /\ Took(e)' /\ pos[d] = pos[e] => d = e
    BY <1>1, <2>3 DEF Unique
  <2> QED
    BY <1>7, <2>2, <2>4 DEF Unique
<1>16. SlotStates'
  <2>1. ASSUME NEW z \in Slots, Vacant(z, sequence[z])
        PROVE  Vacant(z, sequence[z])'
    <3>1. sequence[z] # k
      BY <1>1, <1>4, <2>1 DEF Vacant
    <3>2. \A p \in Producers : Drew(p) => Drew(p)'
      BY <1>1, <1>8 DEF Threads
    <3>3. sequence[z] \in Nat
      BY <1>1
    <3> QED
      BY <1>1, <1>7, <2>1, <3>1, <3>2, <3>3 DEF Vacant
  <2>2. ASSUME NEW z \in Slots, sequence[z] > 0, Filled(z, sequence[z] - 1)
        PROVE  Filled(z, sequence[z] - 1)'
    <3>1. \A d \in Consumers : Took(d) => Took(d)'
      BY <1>8, <1>9 DEF Threads
    <3>2. sequence[z] - 1 \in Nat
      BY <1>1, <2>2
    <3>3. CASE sequence[z] - 1 = k
      BY <1>1, <1>7, <1>9, <2>2, <3>3 DEF Filled
    <3>4. CASE sequence[z] - 1 # k
      BY <1>1, <1>7, <2>2, <3>1, <3>2, <3>4 DEF Filled
    <3> QED
      BY <3>3, <3>4
  <2> QED
    BY <1>7, <2>1, <2>2 DEF SlotStates
<1>17. Gone'
  BY <1>1, <1>7 DEF Gone
<1> QED
  BY <1>10, <1>11, <1>12, <1>13, <1>14, <1>15, <1>16, <1>17

(***************************************************************************)
(* The destructor finds every live element.                                *)
(***************************************************************************)
LEMMA DestructorStep ==
  ASSUME Capacity > 1, IInv, Destructor
  PROVE  IInv'
<1> USE DEF IInv
<1>1. /\ ~destroyed /\ destroyed' = TRUE
      /\ \A t \in Threads : pc[t] = "idle"
      /\ storage' = [s \in Slots |-> IF s \in Unread THEN Raw ELSE storage[s]]
      /\ UNCHANGED <<enqueue_pos, dequeue_pos, sequence, pc, pos, item, put>>
  BY DEF Destructor
<1>2. (\A p \in Producers : ~Drew(p)) /\ (\A c \in Consumers : ~Took(c))
  BY <1>1 DEF Drew, Took, Threads
<1>3. ASSUME NEW s \in Slots, s \notin Unread
      PROVE  storage[s] = Raw
  <2>1. CASE Vacant(s, sequence[s])
    BY <1>2, <2>1 DEF Vacant
  <2>2. CASE sequence[s] > 0 /\ Filled(s, sequence[s] - 1)
    <3>1. PICK k \in Nat : k = sequence[s] - 1
      BY <2>2 DEF TypeOK
    <3>2. k \in dequeue_pos .. enqueue_pos - 1
          /\ Slot(k) = s /\ sequence[s] = DequeueTurn(k)
      BY <1>2, <2>2, <3>1 DEF Filled, TypeOK, DequeueTurn
    <3> QED
      BY <1>3, <3>2 DEF Unread
  <2> QED
    BY <2>1, <2>2 DEF SlotStates
<1>4. \A s \in Slots : storage'[s] = Raw
  BY <1>1, <1>3
<1>5. TypeOK'
  BY <1>1 DEF TypeOK
<1>6. Program' /\ Window' /\ SawTurn' /\ Turn' /\ Unique'
  BY <1>1, <1>2 DEF Program, Window, SawTurn, Turn, Unique, Drew, Took
<1>7. SlotStates'
  <2>1. \A s \in Slots : Vacant(s, sequence[s]) => Vacant(s, sequence[s])'
    BY <1>1, <1>2, <1>4 DEF Vacant
  <2>2. \A s \in Slots :
          Filled(s, sequence[s] - 1) => Filled(s, sequence[s] - 1)'
    BY <1>1, <1>2 DEF Filled
  <2> QED
    BY <1>1, <2>1, <2>2 DEF SlotStates
<1>8. Gone'
  BY <1>1, <1>4 DEF Gone
<1> QED
  BY <1>5, <1>6, <1>7, <1>8

(***************************************************************************)
(* The theorems.                                                           *)
(***************************************************************************)
LEMMA NextInv ==
  ASSUME Capacity > 1, IInv, [Next]_vars
  PROVE  IInv'
<1>1. CASE UNCHANGED vars
  BY <1>1 DEF vars, IInv, TypeOK, Program, Window, SawTurn, Turn, Unique,
              SlotStates, Vacant, Filled, Gone, Drew, Took
<1>2. ASSUME NEW p \in Producers, Emplace(p) PROVE IInv'
  <2>1. p \in Threads
    BY DEF Threads
  <2>2. ~destroyed
    BY <1>2, <2>1 DEF Emplace, StartEmplace, LoadSequence, Reload, CasFails,
                      ClaimEnqueue, Construct, Publish, Goto, IInv, Gone
  <2> QED
    BY <1>2, <2>1, <2>2, QuietSteps, ClaimEnqueueStep, ConstructStep, PublishStep
    DEF Emplace
<1>3. ASSUME NEW c \in Consumers, Pop(c) PROVE IInv'
  <2>1. c \in Threads
    BY DEF Threads
  <2>2. ~destroyed
    BY <1>3, <2>1 DEF Pop, StartPop, LoadSequence, Reload, CasFails,
                      ClaimDequeue, Move, DestroyMoved, Release, Goto, IInv, Gone
  <2> QED
    BY <1>3, <2>1, <2>2, QuietSteps, ClaimDequeueStep, MoveStep, DestroyMovedStep,
       ReleaseStep
    DEF Pop
<1>4. CASE Destructor
  BY <1>4, DestructorStep
<1>5. CASE Terminated
  BY <1>1, <1>5 DEF Terminated
<1> QED
  BY <1>1, <1>2, <1>3, <1>4, <1>5 DEF Next

\* The inductive invariant holds in every behaviour of the queue, of any
\* capacity above 1 (mpmc_queue.cc 50-192).
THEOREM Invariance ==
  ASSUME Capacity > 1
  PROVE  Spec => []IInv
<1>1. IInv /\ [Next]_vars => IInv'
  BY NextInv
<1> QED
  BY <1>1, InitInv, PTL DEF Spec

\* Positions, sequences, storages and locals keep their types.
THEOREM TypeCorrect ==
  ASSUME Capacity > 1
  PROVE  Spec => []TypeOK
<1>1. IInv => TypeOK
  BY DEF IInv
<1> QED
  BY <1>1, Invariance, PTL

\* No two threads are ever inside one slot: emplace and pop have no data race
\* on the storage (lines 141-145, 184-189).
THEOREM SlotsAreExclusive ==
  ASSUME Capacity > 1
  PROVE  Spec => []SlotExclusive
<1>1. IInv => SlotExclusive
  BY Exclusive
<1> QED
  BY <1>1, Invariance, PTL

\* An element is constructed only on a slot where nothing lives (line 142).
THEOREM NeverOverwrites ==
  ASSUME Capacity > 1
  PROVE  Spec => []ConstructsOnRaw
<1>1. IInv => ConstructsOnRaw
  BY DEF IInv, Turn, Drew, ConstructsOnRaw
<1> QED
  BY <1>1, Invariance, PTL

\* The k-th element popped is the k-th element put, whatever the interleaving
\* (line 185).
THEOREM PopsInTicketOrder ==
  ASSUME Capacity > 1
  PROVE  Spec => []MovesItsElement
<1>1. IInv => MovesItsElement
  <2> SUFFICES ASSUME IInv, NEW c \in Consumers, pc[c] = "move"
               PROVE  pos[c] < Len(put) /\ storage[Slot(pos[c])] = put[pos[c] + 1]
    BY DEF MovesItsElement
  <2>1. Took(c)
    BY DEF Took
  <2>2. pos[c] < dequeue_pos /\ storage[Slot(pos[c])] = put[pos[c] + 1]
    BY <2>1 DEF IInv, Turn
  <2>3. pos[c] \in Nat
    BY DEF IInv, TypeOK, Threads
  <2> QED
    BY <2>2, <2>3 DEF IInv, Window, TypeOK
<1> QED
  BY <1>1, Invariance, PTL

\* The destructor leaves no element alive (lines 89-104).
THEOREM DestructorFrees ==
  ASSUME Capacity > 1
  PROVE  Spec => []NoElementLeaks
<1>1. IInv => NoElementLeaks
  BY DEF IInv, Gone, NoElementLeaks
<1> QED
  BY <1>1, Invariance, PTL

\* A slot's sequence never decreases (lines 145 and 189).
THEOREM SequencesOnlyGrow ==
  ASSUME Capacity > 1
  PROVE  Spec => SequencesGrow
<1>1. IInv /\ [Next]_vars => [\A s \in Slots : sequence'[s] >= sequence[s]]_sequence
  <2> SUFFICES ASSUME IInv, [Next]_vars, sequence' # sequence, NEW s \in Slots
               PROVE  sequence'[s] >= sequence[s]
    OBVIOUS
  <2>1. sequence \in [Slots -> Nat]
    BY DEF IInv, TypeOK
  <2>2. ASSUME NEW p \in Producers, Emplace(p) PROVE sequence'[s] >= sequence[s]
    <3>1. Publish(p)
      BY <2>2 DEF Emplace, StartEmplace, LoadSequence, Reload, CasFails,
                  ClaimEnqueue, Construct
    <3>2. Drew(p)
      BY <3>1 DEF Publish, Goto, Drew
    <3> QED
      BY <2>1, <3>1, <3>2, ProducerInside DEF Publish, DequeueTurn
  <2>3. ASSUME NEW c \in Consumers, Pop(c) PROVE sequence'[s] >= sequence[s]
    <3>1. Release(c)
      BY <2>3 DEF Pop, StartPop, LoadSequence, Reload, CasFails, ClaimDequeue,
                  Move, DestroyMoved
    <3>2. Took(c)
      BY <3>1 DEF Release, Goto, Took
    <3> QED
      BY <2>1, <3>1, <3>2, ConsumerInside, SuperQueueAssumption DEF Release
  <2> QED
    BY <2>2, <2>3 DEF Next, Destructor, Terminated, vars
<1> QED
  BY <1>1, Invariance, PTL DEF Spec, SequencesGrow

(***************************************************************************)
(* The ring is the bounded FIFO of BoundedFifo: what is inside are the     *)
(* elements of the tickets between the two positions.                      *)
(***************************************************************************)
LEMMA SubSeqAppend ==
  ASSUME NEW S, NEW s \in Seq(S), NEW v \in S, NEW m \in 1 .. Len(s) + 1
  PROVE  SubSeq(Append(s, v), m, Len(s) + 1) = Append(SubSeq(s, m, Len(s)), v)
<1> DEFINE n == Len(s)
           t == Append(s, v)
<1>1. n \in Nat /\ m \in Int
  OBVIOUS
<1>2. t \in Seq(S) /\ Len(t) = n + 1 /\ t[n + 1] = v
  OBVIOUS
<1>3. m \in 1 .. Len(t) /\ Len(t) \in m .. Len(t)
  BY <1>1, <1>2
<1>4. SubSeq(t, m, n + 1) = SubSeq(t, m, n) \o <<v>>
  BY <1>2, <1>3, SubSeqRecursiveSecond
<1>5. SubSeq(t, m, n) = SubSeq(s, m, n)
  <2>1. \A i \in m .. n : t[i] = s[i] /\ s[i] \in S
    BY <1>1
  <2> QED
    BY <1>1, <2>1
<1>6. SubSeq(s, m, n) \in Seq(S)
  BY <1>1, SubSeqProperties
<1>7. SubSeq(s, m, n) \o <<v>> = Append(SubSeq(s, m, n), v)
  BY <1>6
<1> QED
  BY <1>4, <1>5, <1>7

LEMMA InitIsFifo == Init => Fifo!Init
<1> SUFFICES ASSUME Init PROVE Fifo!Init
  OBVIOUS
<1>1. SubSeq(put, dequeue_pos + 1, enqueue_pos) = <<>>
  BY SubSeqEmpty DEF Init
<1>2. \A c \in Consumers : Hand(c) = Raw
  BY DEF Init, Threads, Hand
<1> QED
  BY <1>1, <1>2 DEF Fifo!Init

\* Drawing a producer's ticket puts its element, and there is room for it.
LEMMA ClaimEnqueuePuts ==
  ASSUME Capacity > 1, IInv, NEW p \in Producers, ClaimEnqueue(p)
  PROVE  Fifo!Put(item[p]) /\ item[p] \in Values
<1>1. IInv'
  BY ClaimEnqueueStep
<1>2. /\ p \in Threads
      /\ pc[p] = "cas"
      /\ pc' = [pc EXCEPT ![p] = "construct"]
      /\ pos[p] = enqueue_pos
      /\ enqueue_pos' = enqueue_pos + 1
      /\ put' = Append(put, item[p])
      /\ UNCHANGED <<dequeue_pos, pos, item>>
  BY DEF ClaimEnqueue, Goto, Threads
<1>3. /\ item[p] \in Values
      /\ put \in Seq(Values)
      /\ enqueue_pos \in Nat
      /\ dequeue_pos \in Nat
      /\ Len(put) = enqueue_pos
      /\ dequeue_pos <= enqueue_pos
      /\ pos \in [Threads -> Nat]
  BY <1>2 DEF IInv, Program, TypeOK, Window
<1>4. enqueue_pos + 1 <= dequeue_pos + Capacity
  BY <1>1, <1>2 DEF IInv, Window
<1>5. Len(SubSeq(put, dequeue_pos + 1, enqueue_pos)) < Capacity
  <2>1. \A i \in dequeue_pos + 1 .. enqueue_pos : put[i] \in Values
    BY <1>3
  <2>2. Len(SubSeq(put, dequeue_pos + 1, enqueue_pos))
          = IF dequeue_pos + 1 <= enqueue_pos
            THEN enqueue_pos - (dequeue_pos + 1) + 1 ELSE 0
    BY <1>3, <2>1, SubSeqProperties
  <2> QED
    BY <1>3, <1>4, <2>2, SuperQueueAssumption
<1>6. SubSeq(put', dequeue_pos' + 1, enqueue_pos')
        = Append(SubSeq(put, dequeue_pos + 1, enqueue_pos), item[p])
  <2>1. dequeue_pos + 1 \in 1 .. Len(put) + 1
    BY <1>3
  <2> QED
    BY <1>2, <1>3, <2>1, SubSeqAppend
<1>7. ASSUME NEW c \in Consumers
      PROVE  Hand(c)' = Hand(c)
  <2>1. c # p /\ c \in Threads /\ pc'[c] = pc[c]
    BY <1>2, SuperQueueAssumption DEF Threads, IInv, TypeOK
  <2>2. CASE Took(c)
    <3>1. pos[c] + 1 \in 1 .. Len(put)
      BY <1>3, <2>1, <2>2 DEF IInv, Turn
    <3>2. put'[pos[c] + 1] = put[pos[c] + 1]
      BY <1>2, <1>3, <3>1
    <3> QED
      BY <1>2, <2>1, <3>2 DEF Hand
  <2>3. CASE ~Took(c)
    BY <2>1, <2>3 DEF Hand, Took
  <2> QED
    BY <2>2, <2>3
<1> QED
  BY <1>3, <1>5, <1>6, <1>7 DEF Fifo!Put

\* Drawing a consumer's ticket takes the oldest element inside.
LEMMA ClaimDequeueTakes ==
  ASSUME Capacity > 1, IInv, NEW c \in Consumers, ClaimDequeue(c)
  PROVE  Fifo!Take(c)
<1>1. IInv'
  BY ClaimDequeueStep
<1>2. /\ c \in Threads
      /\ pc[c] = "cas"
      /\ pc' = [pc EXCEPT ![c] = "move"]
      /\ pos[c] = dequeue_pos
      /\ dequeue_pos' = dequeue_pos + 1
      /\ UNCHANGED <<enqueue_pos, pos, item, put>>
  BY DEF ClaimDequeue, Goto, Threads
<1>3. /\ put \in Seq(Values)
      /\ enqueue_pos \in Nat
      /\ dequeue_pos \in Nat
      /\ Len(put) = enqueue_pos
  BY DEF IInv, TypeOK, Window
<1>4. dequeue_pos + 1 <= enqueue_pos
  BY <1>1, <1>2 DEF IInv, Window
<1>5. dequeue_pos + 1 \in 1 .. Len(put) /\ enqueue_pos \in dequeue_pos + 1 .. Len(put)
  BY <1>3, <1>4
<1> DEFINE within == SubSeq(put, dequeue_pos + 1, enqueue_pos)
<1>6. /\ Head(within) = put[dequeue_pos + 1]
      /\ Tail(within) = SubSeq(put, dequeue_pos + 1 + 1, enqueue_pos)
  BY <1>3, <1>5, HeadTailOfSubSeq
<1>7. within # <<>>
  <2>1. \A i \in dequeue_pos + 1 .. enqueue_pos : put[i] \in Values
    BY <1>3
  <2>2. Len(within) = enqueue_pos - (dequeue_pos + 1) + 1
    BY <1>3, <1>4, <2>1, SubSeqProperties
  <2> QED
    BY <1>3, <1>4, <2>2
<1>8. Hand(c) = Raw /\ Hand(c)' = put[dequeue_pos + 1]
  BY <1>2 DEF Hand, IInv, TypeOK
<1>9. \A d \in Consumers \ {c} : Hand(d)' = Hand(d)
  <2>1. \A d \in Consumers \ {c} : pc'[d] = pc[d]
    BY <1>2 DEF Threads, IInv, TypeOK
  <2> QED
    BY <1>2, <2>1 DEF Hand
<1>10. [d \in Consumers |-> Hand(d)]'
         = [[d \in Consumers |-> Hand(d)] EXCEPT ![c] = Head(within)]
  BY <1>6, <1>8, <1>9
<1> QED
  BY <1>2, <1>6, <1>7, <1>8, <1>10 DEF Fifo!Take

\* The store of the slot's next sequence ends the call: pop returns what it
\* moved out.
LEMMA ReleaseReturns ==
  ASSUME Capacity > 1, IInv, NEW c \in Consumers, Release(c)
  PROVE  Fifo!Return(c)
<1>1. /\ c \in Threads
      /\ pc[c] = "release"
      /\ pc' = [pc EXCEPT ![c] = "idle"]
      /\ UNCHANGED <<enqueue_pos, dequeue_pos, pos, item, put>>
  BY DEF Release, Goto, Threads
<1>2. Took(c)
  BY <1>1 DEF Took
<1>3. item[c] = put[pos[c] + 1] /\ put[pos[c] + 1] \in Values
  BY <1>1, <1>2, ConsumerInside DEF IInv, Turn
<1>4. Hand(c) # Raw /\ Hand(c)' = Raw
  BY <1>1, <1>3, SuperQueueAssumption DEF Hand, IInv, TypeOK
<1>5. \A d \in Consumers \ {c} : Hand(d)' = Hand(d)
  <2>1. \A d \in Consumers \ {c} : pc'[d] = pc[d]
    BY <1>1 DEF Threads, IInv, TypeOK
  <2> QED
    BY <1>1, <2>1 DEF Hand
<1>6. [d \in Consumers |-> Hand(d)]'
        = [[d \in Consumers |-> Hand(d)] EXCEPT ![c] = Raw]
  <2>1. \A d \in Consumers : Hand(d)' = IF d = c THEN Raw ELSE Hand(d)
    BY <1>4, <1>5
  <2> QED
    BY <2>1
<1> QED
  BY <1>1, <1>4, <1>6 DEF Fifo!Return

\* A step of one thread that draws no ticket and leaves what every consumer
\* holds is invisible.
LEMMA Stutters ==
  ASSUME UNCHANGED <<enqueue_pos, dequeue_pos, put>>,
         \A c \in Consumers : Hand(c)' = Hand(c)
  PROVE  UNCHANGED Fifo!vars
BY DEF Fifo!vars

LEMMA ProducerStutters ==
  ASSUME IInv, NEW p \in Producers, Emplace(p), ~ClaimEnqueue(p)
  PROVE  UNCHANGED Fifo!vars
<1>1. /\ UNCHANGED <<enqueue_pos, dequeue_pos, put>>
      /\ \A c \in Consumers :
           pc'[c] = pc[c] /\ pos'[c] = pos[c] /\ item'[c] = item[c]
  BY SuperQueueAssumption
  DEF Emplace, StartEmplace, LoadSequence, Reload, CasFails, Construct, Publish,
      Goto, LoadPos, IInv, TypeOK, Threads
<1> QED
  BY <1>1, Stutters DEF Hand

LEMMA ConsumerStutters ==
  ASSUME Capacity > 1, IInv, NEW c \in Consumers, Pop(c),
         ~ClaimDequeue(c), ~Release(c)
  PROVE  UNCHANGED Fifo!vars
<1>1. /\ pos \in [Threads -> Nat]
      /\ item \in [Threads -> Values \cup {Raw}]
      /\ Consumers \subseteq Threads
  BY DEF IInv, TypeOK, Threads
<1>2. UNCHANGED <<enqueue_pos, dequeue_pos, put>>
  BY DEF Pop, StartPop, LoadSequence, Reload, CasFails, Move, DestroyMoved
<1>3. ASSUME NEW d \in Consumers, d # c PROVE Hand(d)' = Hand(d)
  <2>1. pc'[d] = pc[d] /\ pos'[d] = pos[d] /\ item'[d] = item[d]
    BY <1>1, <1>3 DEF Pop, StartPop, LoadSequence, Reload, CasFails, Move,
                      DestroyMoved, Goto, LoadPos, IInv, TypeOK
  <2> QED
    BY <1>2, <2>1 DEF Hand
<1>4. Hand(c)' = Hand(c)
  <2>1. CASE Move(c)
    <3>1. /\ pc[c] = "move"
          /\ pc'[c] = "destroy"
          /\ item'[c] = storage[Slot(pos[c])]
      BY <1>1, <2>1 DEF Move, Goto, IInv, TypeOK
    <3>2. storage[Slot(pos[c])] = put[pos[c] + 1]
      BY <3>1 DEF IInv, Turn, Took
    <3> QED
      BY <3>1, <3>2 DEF Hand
  <2>2. CASE DestroyMoved(c)
    BY <1>1, <2>2 DEF DestroyMoved, Goto, Hand, IInv, TypeOK
  <2>3. CASE \/ StartPop(c) \/ LoadSequence(c, DequeueTurn(pos[c]))
             \/ Reload(c, dequeue_pos) \/ CasFails(c, dequeue_pos)
    <3>1. /\ pc[c] \in {"idle", "load", "cas", "reload"}
          /\ pc'[c] \in {"idle", "load", "cas", "reload"}
      BY <1>1, <2>3 DEF StartPop, LoadSequence, Reload, CasFails, Goto, IInv, TypeOK
    <3> QED
      BY <3>1 DEF Hand
  <2> QED
    BY <2>1, <2>2, <2>3 DEF Pop
<1> QED
  BY <1>2, <1>3, <1>4, Stutters

\* A producer's compare-exchange puts, a consumer's takes, its last store
\* returns, and every other access of either is invisible: the ring hands out
\* its elements first in, first out, each once, and never holds more than
\* Capacity (lines 107-191).
THEOREM RingIsFifo ==
  ASSUME Capacity > 1
  PROVE  Spec => ImplementsFifo
<1>1. IInv /\ [Next]_vars => [Fifo!Next]_Fifo!vars
  <2> SUFFICES ASSUME IInv, [Next]_vars PROVE [Fifo!Next]_Fifo!vars
    OBVIOUS
  <2>1. ASSUME NEW p \in Producers, Emplace(p) PROVE [Fifo!Next]_Fifo!vars
    <3>1. CASE ClaimEnqueue(p)
      BY <3>1, ClaimEnqueuePuts DEF Fifo!Next
    <3>2. CASE ~ClaimEnqueue(p)
      BY <2>1, <3>2, ProducerStutters
    <3> QED
      BY <3>1, <3>2
  <2>2. ASSUME NEW c \in Consumers, Pop(c) PROVE [Fifo!Next]_Fifo!vars
    <3>1. CASE ClaimDequeue(c)
      BY <3>1, ClaimDequeueTakes DEF Fifo!Next
    <3>2. CASE Release(c)
      BY <3>2, ReleaseReturns DEF Fifo!Next
    <3>3. CASE ~ClaimDequeue(c) /\ ~Release(c)
      BY <2>2, <3>3, ConsumerStutters
    <3> QED
      BY <3>1, <3>2, <3>3
  <2>3. CASE Destructor \/ UNCHANGED vars
    BY <2>3, Stutters DEF Destructor, vars, Hand
  <2> QED
    BY <2>1, <2>2, <2>3 DEF Next, Terminated
<1> QED
  BY <1>1, InitIsFifo, Invariance, PTL DEF Spec, ImplementsFifo, Fifo!Spec
=============================================================================
