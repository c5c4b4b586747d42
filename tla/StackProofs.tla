---------------------------- MODULE StackProofs ----------------------------
(***************************************************************************)
(* TreiberStack keeps both lists, and EliminationStack hands every element *)
(* to one pop, for any threads, elements, capacity and slots.              *)
(*                                                                         *)
(* The inductive invariant of the lists adds to ListsIntact, OneOwner and  *)
(* StorageLives what a thread may rely on at each point of its call.  The  *)
(* tag matters in TakeKnows: a head that still equals old_head has not     *)
(* been changed since, because no change gives the head an older tag, and  *)
(* then the node is in the list, where nobody writes its _next.            *)
(*                                                                         *)
(* The array adds where a node can be besides (SlotsHold, NoneLost) and    *)
(* what those at a slot know (Meeting).  With both, each step of the       *)
(* program is one of ElementStack's or none.                               *)
(***************************************************************************)
EXTENDS EliminationStack, SequenceTheorems, FiniteSetTheorems, TLAPS

\* The types of both stacks: TypeOK and ETypeOK without the array.
StackTypeOK ==
  /\ top \in [Lists -> Tagged]
  /\ next \in [Nodes -> Nodes \cup {Null}]
  /\ storage \in [Nodes -> Values \cup {Raw}]
  /\ call \in [Threads -> {"none", "emplace", "pop"}]
  /\ pc \in [Threads -> {"idle", "read", "take", "own", "link", "put", "answer",
                         "claim", "offer", "wait", "collect", "reload"}]
  /\ old \in [Threads -> TaggedSlot]
  /\ \A t \in Threads : pc[t] \in {"read", "take", "link", "put"} => old[t] \in Tagged
  /\ after \in [Threads -> Nodes \cup {Null}]
  /\ mine \in [Threads -> Nodes \cup {Null}]
  /\ item \in [Threads -> Values \cup {Raw}]
  /\ calls \in 0 .. MaxCalls
  /\ list \in [Lists -> Seq(Nodes)]

Has(t) == \/ pc[t] \in {"own", "link", "put", "answer"}
          \/ pc[t] = "reload" /\ call[t] = "emplace"

\* Where a thread is determines what it calls and what it has.
PcKnows ==
  \A t \in Threads :
    /\ pc[t] = "idle" <=> call[t] = "none"
    /\ call[t] = "emplace" => item[t] \in Values
    /\ mine[t] # Null <=> Has(t)

TakeKnows ==
  \A t \in Threads :
    /\ pc[t] \in {"read", "take"} => old[t].tag <= top[From(t)].tag
    /\ pc[t] = "take" => /\ old[t].ptr # Null
                         /\ old[t] = top[From(t)] => after[t] = next[old[t].ptr]

PutKnows ==
  \A t \in Threads :
    /\ pc[t] = "put" => next[mine[t]] = old[t].ptr
    /\ pc[t] = "own" /\ call[t] = "pop" => storage[mine[t]] \in Values
    /\ pc[t] \in {"link", "put", "answer", "reload"} /\ call[t] = "emplace" =>
         storage[mine[t]] \in Values
    /\ pc[t] \in {"link", "put"} /\ call[t] = "pop" =>
         storage[mine[t]] = Raw /\ item[t] \in Values

IInv ==
  /\ StackTypeOK
  /\ ListsIntact
  /\ OneOwner
  /\ StorageLives
  /\ PcKnows
  /\ TakeKnows
  /\ PutKnows

-----------------------------------------------------------------------------
(* Sequences.                                                              *)

LEMMA TailElements ==
  ASSUME NEW S, NEW s \in Seq(S), s # <<>>
  PROVE  /\ Tail(s) \in Seq(S)
         /\ Len(s) \in Nat \ {0}
         /\ Len(Tail(s)) = Len(s) - 1
         /\ \A i \in 1 .. Len(Tail(s)) : i + 1 \in 1 .. Len(s) /\ Tail(s)[i] = s[i + 1]
BY HeadTailProperties, EmptySeq, LenProperties

LEMMA ConsElements ==
  ASSUME NEW S, NEW s \in Seq(S), NEW x \in S
  PROVE  /\ <<x>> \o s \in Seq(S)
         /\ Len(s) \in Nat
         /\ Len(<<x>> \o s) = Len(s) + 1
         /\ (<<x>> \o s)[1] = x
         /\ \A i \in 1 .. Len(s) : (<<x>> \o s)[i + 1] = s[i]
         /\ \A i \in 2 .. Len(s) + 1 : (<<x>> \o s)[i] = s[i - 1]
OBVIOUS

LEMMA OneLess ==
  ASSUME NEW a \in Nat, a >= 1, NEW b, b = a - 1
  PROVE  b >= 1 \/ b = 0
OBVIOUS

LEMMA ListNat ==
  ASSUME StackTypeOK, NEW l \in Lists
  PROVE  /\ list[l] \in Seq(Nodes)
         /\ Len(list[l]) \in Nat
         /\ \A i \in 1 .. Len(list[l]) : list[l][i] \in Nodes
BY LenProperties DEF StackTypeOK

LEMMA Numbers == Capacity \in Nat \ {0} /\ Nodes \subseteq Nat \ {0} /\ Null = 0 /\ Null \notin Nodes
BY TreiberStackAssumption DEF Nodes, Null

LEMMA FromTo ==
  ASSUME NEW t \in Threads
  PROVE  From(t) \in Lists /\ To(t) \in Lists /\ From(t) # To(t)
BY DEF From, To, Lists

LEMMA TaggedInSlots == Tagged \subseteq TaggedSlot
BY DEF Tagged, TaggedSlot

-----------------------------------------------------------------------------
(* The nine steps.                                                         *)

LEMMA NextSteps ==
  ASSUME Next
  PROVE  \E t \in Threads :
           \/ \E v \in Values : Start(t, "emplace", v)
           \/ Start(t, "pop", Raw)
           \/ Empty(t) \/ ReadNext(t) \/ Take(t) \/ TakeFails(t)
           \/ Own(t) \/ Link(t) \/ Put(t) \/ PutFails(t)
BY DEF Next, Emplace, Acquire, Pop, Release, TakeSome, PutBack

LEMMA InitInv == Init => IInv
<1> SUFFICES ASSUME Init PROVE IInv
  OBVIOUS
<1> USE DEF Init
<1>0. /\ list["pool"] \in Seq(Nodes)
      /\ Len(list["pool"]) = Capacity
      /\ \A i \in 1 .. Capacity : list["pool"][i] = i
      /\ list["stack"] = <<>>
  BY Numbers DEF Lists, Nodes
<1>1. StackTypeOK
  <2>1. list \in [Lists -> Seq(Nodes)]
    BY <1>0, Numbers DEF Lists, Nodes
  <2>2. next \in [Nodes -> Nodes \cup {Null}]
    BY Numbers DEF Nodes
  <2>3. 1 \in Nodes
    BY Numbers DEF Nodes
  <2>4. top \in [Lists -> Tagged] /\ old \in [Threads -> Tagged]
    BY <2>3 DEF Tagged
  <2>5. calls \in 0 .. MaxCalls
    BY TreiberStackAssumption
  <2> QED
    BY <2>1, <2>2, <2>4, <2>5, TaggedInSlots DEF StackTypeOK
<1>2. ListsIntact
  <2>1. top["pool"].ptr = At("pool", 1) /\ top["stack"].ptr = At("stack", 1)
    BY <1>0, Numbers DEF At, Lists
  <2>2. ASSUME NEW i \in 1 .. Len(list["pool"])
        PROVE  next[list["pool"][i]] = At("pool", i + 1)
    <3>1. i \in 1 .. Capacity /\ list["pool"][i] = i /\ i \in Nodes
      BY <1>0, Numbers DEF Nodes
    <3>2. next[i] = IF i < Capacity THEN i + 1 ELSE Null
      BY <3>1
    <3>3. CASE i < Capacity
      <4>1. i + 1 \in 1 .. Capacity
        BY <3>1, <3>3, Numbers
      <4> QED
        BY <3>1, <3>2, <3>3, <4>1, <1>0, Numbers DEF At
    <3>4. CASE i = Capacity
      BY <3>1, <3>2, <3>4, <1>0, Numbers DEF At
    <3> QED
      BY <3>1, <3>3, <3>4, Numbers
  <2>3. \A i \in 1 .. Len(list["stack"]) : FALSE
    BY <1>0
  <2> QED
    BY <2>1, <2>2, <2>3 DEF ListsIntact, Lists
<1>3. OneOwner
  BY <1>0, Numbers DEF OneOwner, InList, Lists
<1>4. StorageLives
  BY <1>0, SMTT(30) DEF StorageLives, InList
<1> QED
  BY <1>1, <1>2, <1>3, <1>4, Numbers DEF IInv, PcKnows, TakeKnows, PutKnows, Has

-----------------------------------------------------------------------------
(* Steps that change neither list.                                         *)

\* No step of this kind touches a head, a _next, an element or a list.
LEMMA SameLists ==
  ASSUME ListsIntact, OneOwner, StorageLives,
         UNCHANGED <<top, next, storage, list>>, UNCHANGED mine
  PROVE  ListsIntact' /\ OneOwner' /\ StorageLives'
<1>1. ListsIntact'
  BY DEF ListsIntact, At
<1>2. OneOwner'
  BY DEF OneOwner, InList
<1>3. StorageLives'
  BY DEF StorageLives, InList
<1> QED
  BY <1>1, <1>2, <1>3

LEMMA StartStep ==
  ASSUME IInv, NEW t \in Threads, NEW c \in {"emplace", "pop"},
         NEW v \in Values \cup {Raw}, c = "emplace" => v \in Values,
         Start(t, c, v)
  PROVE  IInv'
<1> USE DEF IInv, Start, Go
<1>0. top[IF c = "emplace" THEN "pool" ELSE "stack"] \in Tagged
  BY DEF StackTypeOK, Lists
<1>1. StackTypeOK'
  <2>1. calls' \in 0 .. MaxCalls
    BY TreiberStackAssumption DEF StackTypeOK
  <2>2. call' \in [Threads -> {"none", "emplace", "pop"}]
    BY DEF StackTypeOK
  <2>3. /\ old' \in [Threads -> TaggedSlot]
        /\ \A u \in Threads :
             pc'[u] \in {"read", "take", "link", "put"} => old'[u] \in Tagged
    BY <1>0, TaggedInSlots DEF StackTypeOK
  <2> QED
    BY <2>1, <2>2, <2>3 DEF StackTypeOK
<1>2. ListsIntact' /\ OneOwner' /\ StorageLives'
  BY SameLists
<1>3. PcKnows'
  BY DEF PcKnows, Has, StackTypeOK
<1>4. TakeKnows'
  BY DEF TakeKnows, From, StackTypeOK, Lists, Tagged
<1>5. PutKnows'
  BY DEF PutKnows, StackTypeOK
<1> QED
  BY <1>1, <1>2, <1>3, <1>4, <1>5

LEMMA EmptyStep ==
  ASSUME IInv, NEW t \in Threads, Empty(t)
  PROVE  IInv'
<1> USE DEF IInv, Empty, Go
<1>1. StackTypeOK'
  BY DEF StackTypeOK
<1>2. ListsIntact' /\ OneOwner' /\ StorageLives'
  BY SameLists
<1>3. PcKnows'
  BY DEF PcKnows, Has, StackTypeOK
<1>4. TakeKnows'
  BY DEF TakeKnows, From, StackTypeOK
<1>5. PutKnows'
  BY DEF PutKnows, StackTypeOK
<1> QED
  BY <1>1, <1>2, <1>3, <1>4, <1>5

LEMMA ReadNextStep ==
  ASSUME IInv, NEW t \in Threads, ReadNext(t)
  PROVE  IInv'
<1> USE DEF IInv, ReadNext, Go
<1>1. StackTypeOK'
  BY DEF StackTypeOK, Tagged
<1>2. ListsIntact' /\ OneOwner' /\ StorageLives'
  BY SameLists
<1>3. PcKnows'
  BY DEF PcKnows, Has, StackTypeOK
<1>4. TakeKnows'
  BY DEF TakeKnows, From, StackTypeOK
<1>5. PutKnows'
  BY DEF PutKnows, StackTypeOK
<1> QED
  BY <1>1, <1>2, <1>3, <1>4, <1>5

LEMMA TakeFailsStep ==
  ASSUME IInv, NEW t \in Threads, TakeFails(t)
  PROVE  IInv'
<1> USE DEF IInv, TakeFails, Go
<1>0. top[From(t)] \in Tagged
  BY FromTo DEF StackTypeOK
<1>1. StackTypeOK'
  BY <1>0, TaggedInSlots DEF StackTypeOK
<1>2. ListsIntact' /\ OneOwner' /\ StorageLives'
  BY SameLists
<1>3. PcKnows'
  BY DEF PcKnows, Has, StackTypeOK
<1>4. TakeKnows'
  BY <1>0 DEF TakeKnows, From, StackTypeOK, Tagged
<1>5. PutKnows'
  BY DEF PutKnows, StackTypeOK
<1> QED
  BY <1>1, <1>2, <1>3, <1>4, <1>5

LEMMA PutFailsStep ==
  ASSUME IInv, NEW t \in Threads, PutFails(t)
  PROVE  IInv'
<1> USE DEF IInv, PutFails, Go
<1>0. top[To(t)] \in Tagged
  BY FromTo DEF StackTypeOK
<1>1. StackTypeOK'
  BY <1>0, TaggedInSlots DEF StackTypeOK
<1>2. ListsIntact' /\ OneOwner' /\ StorageLives'
  BY SameLists
<1>3. PcKnows'
  BY DEF PcKnows, Has, StackTypeOK
<1>4. TakeKnows'
  BY DEF TakeKnows, From, StackTypeOK
<1>5. PutKnows'
  BY DEF PutKnows, StackTypeOK
<1> QED
  BY <1>1, <1>2, <1>3, <1>4, <1>5

-----------------------------------------------------------------------------
(* Steps at a node that its thread has.                                    *)

LEMMA OwnStep ==
  ASSUME IInv, NEW t \in Threads, Own(t)
  PROVE  IInv'
<1> USE DEF IInv, Own, Go
<1>0. /\ top[To(t)] \in Tagged
      /\ mine[t] \in Nodes
      /\ \A l \in Lists : ~InList(mine[t], l)
      /\ \A u \in Threads : mine[u] = mine[t] => u = t
      /\ storage[mine[t]] \in Values \cup {Raw}
      /\ call[t] \in {"emplace", "pop"}
      /\ call[t] = "emplace" => item[t] \in Values
  BY FromTo DEF StackTypeOK, PcKnows, Has, OneOwner
<1>1. StackTypeOK'
  BY <1>0, TaggedInSlots DEF StackTypeOK
<1>2. ListsIntact'
  BY DEF ListsIntact, At
<1>3. OneOwner'
  BY DEF OneOwner, InList
<1>4. StorageLives'
  <2>1. ASSUME NEW n \in Nodes, n # mine[t]
        PROVE  storage'[n] = storage[n]
    BY <2>1
  <2>2. ASSUME NEW n \in Nodes, NEW l \in Lists
        PROVE  InList(n, l)' <=> InList(n, l)
    BY DEF InList
  <2> QED
    BY <1>0, <2>1, <2>2 DEF StorageLives, Lists
<1>5. PcKnows'
  BY <1>0 DEF PcKnows, Has, StackTypeOK
<1>6. TakeKnows'
  BY DEF TakeKnows, From, StackTypeOK
<1>7. PutKnows'
  <2>1. storage'[mine[t]] = IF call[t] = "emplace" THEN item[t] ELSE Raw
    BY <1>0 DEF StackTypeOK
  <2>2. \A u \in Threads : u # t => mine[u] # mine[t] /\ storage'[mine[u]] = storage[mine[u]]
    BY <1>0 DEF StackTypeOK
  <2> QED
    BY <1>0, <2>1, <2>2 DEF PutKnows, StackTypeOK
<1> QED
  BY <1>1, <1>2, <1>3, <1>4, <1>5, <1>6, <1>7

LEMMA LinkStep ==
  ASSUME IInv, NEW t \in Threads, Link(t)
  PROVE  IInv'
<1> USE DEF IInv, Link, Go
<1>0. /\ mine[t] \in Nodes
      /\ old[t].ptr \in Nodes \cup {Null}
      /\ \A l \in Lists : ~InList(mine[t], l)
      /\ \A u \in Threads : mine[u] = mine[t] => u = t
  BY DEF StackTypeOK, PcKnows, Has, OneOwner, Tagged
<1>1. StackTypeOK'
  BY <1>0 DEF StackTypeOK
<1>2. ListsIntact'
  <2>1. ASSUME NEW l \in Lists, NEW i \in 1 .. Len(list[l])
        PROVE  next'[list[l][i]] = next[list[l][i]]
    BY <1>0, ListNat DEF InList, StackTypeOK
  <2> QED
    BY <2>1 DEF ListsIntact, At
<1>3. OneOwner'
  BY DEF OneOwner, InList
<1>4. StorageLives'
  BY DEF StorageLives, InList
<1>5. PcKnows'
  BY DEF PcKnows, Has, StackTypeOK
<1>6. TakeKnows'
  <2> SUFFICES ASSUME NEW u \in Threads, pc'[u] = "take", old'[u] = top'[From(u)']
               PROVE  old[u].ptr # Null /\ after'[u] = next'[old'[u].ptr]
    BY DEF TakeKnows, From, StackTypeOK
  <2>1. pc[u] = "take" /\ old[u] = top[From(u)] /\ old[u].ptr # Null
    BY DEF StackTypeOK, TakeKnows, From
  <2>2. after[u] = next[old[u].ptr]
    BY <2>1 DEF TakeKnows
  <2>3. InList(old[u].ptr, From(u))
    BY <2>1, FromTo, ListNat DEF ListsIntact, At, InList
  <2>4. old[u].ptr # mine[t] /\ old[u].ptr \in Nodes
    BY <1>0, <2>1, <2>3, FromTo DEF StackTypeOK, Tagged
  <2> QED
    BY <2>1, <2>2, <2>4 DEF StackTypeOK
<1>7. PutKnows'
  BY <1>0 DEF PutKnows, PcKnows, Has, StackTypeOK
<1> QED
  BY <1>1, <1>2, <1>3, <1>4, <1>5, <1>6, <1>7

-----------------------------------------------------------------------------
(* The compare-exchanges that succeed.                                     *)

\* A head that changes gets a newer tag than any old_head of its list.
LEMMA NewerTag ==
  ASSUME IInv, NEW t \in Threads, NEW l \in Lists, NEW n \in Nodes \cup {Null},
         top[l] = old[t],
         top' = [top EXCEPT ![l] = NewHead(t, n)],
         UNCHANGED <<old, next, after>>,
         NEW u \in Threads, pc[u] \in {"read", "take"}
  PROVE  /\ old'[u].tag <= top'[From(u)].tag
         /\ pc[u] = "take" =>
               /\ old'[u].ptr # Null
               /\ old'[u] = top'[From(u)] => after'[u] = next'[old'[u].ptr]
<1>1. /\ old[u].tag <= top[From(u)].tag
      /\ old[u].tag \in Nat /\ top[From(u)].tag \in Nat /\ top[l].tag \in Nat
      /\ From(u) \in Lists
  BY FromTo DEF IInv, StackTypeOK, Tagged, TakeKnows
<1>2. CASE From(u) = l
  <2>1. top'[l].tag = top[l].tag + 1
    BY DEF IInv, StackTypeOK, NewHead
  <2>2. old'[u] # top'[From(u)]
    BY <1>1, <1>2, <2>1
  <2> QED
    BY <1>1, <1>2, <2>1, <2>2 DEF IInv, TakeKnows
<1>3. CASE From(u) # l
  <2>1. top'[From(u)] = top[From(u)]
    BY <1>1, <1>3 DEF IInv, StackTypeOK
  <2> QED
    BY <1>1, <2>1 DEF IInv, TakeKnows
<1> QED
  BY <1>2, <1>3

LEMMA TakeStep ==
  ASSUME IInv, NEW t \in Threads, Take(t)
  PROVE  IInv'
<1> USE DEF IInv, Take, Go
<1>0. PICK l \in Lists : l = From(t)
  BY FromTo
<1>1. PICK n \in Nodes : /\ n = old[t].ptr /\ n # Null /\ top[l] = old[t]
                         /\ after[t] = next[n] /\ after[t] \in Nodes \cup {Null}
  BY <1>0, Numbers DEF StackTypeOK, Tagged, TakeKnows
<1>2. /\ list[l] \in Seq(Nodes) /\ Len(list[l]) \in Nat
      /\ 1 \in 1 .. Len(list[l]) /\ list[l][1] = n
      /\ list[l] # <<>>
  BY <1>0, <1>1, ListNat, EmptySeq DEF ListsIntact, At
<1>3. /\ list'[l] = Tail(list[l]) /\ list'[l] \in Seq(Nodes)
      /\ Len(list'[l]) = Len(list[l]) - 1
      /\ \A i \in 1 .. Len(list'[l]) : i + 1 \in 1 .. Len(list[l]) /\ list'[l][i] = list[l][i + 1]
      /\ \A k \in Lists : k # l => list'[k] = list[k] /\ top'[k] = top[k]
  <2>1. list'[l] = Tail(list[l])
    BY <1>0 DEF StackTypeOK
  <2>2. \A k \in Lists : k # l => list'[k] = list[k] /\ top'[k] = top[k]
    BY <1>0 DEF StackTypeOK
  <2>3. /\ Tail(list[l]) \in Seq(Nodes)
        /\ Len(Tail(list[l])) = Len(list[l]) - 1
        /\ \A i \in 1 .. Len(Tail(list[l])) :
              i + 1 \in 1 .. Len(list[l]) /\ Tail(list[l])[i] = list[l][i + 1]
    BY <1>2, TailElements
  <2> QED
    BY <2>1, <2>2, <2>3
<1>4. top'[l] = [ptr |-> after[t], tag |-> old[t].tag + 1] /\ top'[l] \in Tagged
  BY <1>0, <1>1 DEF StackTypeOK, NewHead, Tagged
<1>5. \A k \in Lists, x \in Nodes : InList(x, k)' => InList(x, k)
  BY <1>3 DEF InList
<1>6. InList(n, l) /\ \A k \in Lists : k # l => ~InList(n, k)
  BY <1>0, <1>1, <1>2, SMTT(30) DEF InList, OneOwner, Lists
<1>7. \A k \in Lists : ~InList(n, k)'
  <2>1. ASSUME InList(n, l)' PROVE FALSE
    <3>1. PICK i \in 1 .. Len(list'[l]) : list'[l][i] = n
      BY <2>1 DEF InList
    <3>2. i + 1 \in 1 .. Len(list[l]) /\ list[l][i + 1] = list[l][1] /\ i + 1 # 1
      BY <1>2, <1>3, <3>1
    <3> QED
      BY <1>0, <1>2, <3>2 DEF OneOwner
  <2> QED
    BY <1>1, <1>5, <1>6, <2>1
<1>8. /\ mine'[t] = n
      /\ \A u \in Threads : u # t => mine'[u] = mine[u] /\ mine[u] # n
      /\ mine[t] = Null
  BY <1>0, <1>1, <1>6 DEF StackTypeOK, OneOwner, PcKnows, Has
<1>10. StackTypeOK'
  <2>1. list' \in [Lists -> Seq(Nodes)] /\ top' \in [Lists -> Tagged]
    BY <1>0, <1>3, <1>4 DEF StackTypeOK
  <2> QED
    BY <1>1, <2>1 DEF StackTypeOK
<1>11. ListsIntact'
  <2>1. ASSUME NEW i \in 1 .. Len(list'[l])
        PROVE  next'[list'[l][i]] = At(l, i + 1)'
    <3>1. i + 1 \in 1 .. Len(list[l]) /\ list'[l][i] = list[l][i + 1] /\ i \in Nat
      BY <1>3
    <3>2. next[list[l][i + 1]] = At(l, (i + 1) + 1)
      BY <1>0, <3>1 DEF ListsIntact
    <3>3. CASE i + 1 <= Len(list'[l])
      <4>1. i + 1 \in 1 .. Len(list'[l])
        BY <1>2, <1>3, <3>1, <3>3
      <4>2. list'[l][i + 1] = list[l][(i + 1) + 1]
        BY <1>3, <4>1
      <4> QED
        BY <1>2, <1>3, <3>1, <3>2, <3>3, <4>2 DEF At
    <3>4. CASE ~(i + 1 <= Len(list'[l]))
      BY <1>2, <1>3, <3>1, <3>2, <3>4 DEF At
    <3> QED
      BY <3>3, <3>4
  <2>2. top'[l].ptr = At(l, 1)'
    <3>1. after[t] = At(l, 2)
      BY <1>0, <1>1, <1>2 DEF ListsIntact
    <3>2. CASE Len(list'[l]) >= 1
      <4>1. list'[l][1] = list[l][1 + 1]
        BY <1>2, <1>3, <3>2
      <4> QED
        BY <1>2, <1>3, <1>4, <3>1, <3>2, <4>1 DEF At
    <3>3. CASE Len(list'[l]) = 0
      <4>1. after[t] = Null
        BY <1>2, <1>3, <3>1, <3>3 DEF At
      <4> QED
        BY <1>4, <3>3, <4>1 DEF At
    <3>4. Len(list'[l]) >= 1 \/ Len(list'[l]) = 0
      <4>1. Len(list'[l]) = Len(list[l]) - 1
        BY <1>3
      <4>2. Len(list[l]) \in Nat /\ Len(list[l]) >= 1
        BY <1>2
      <4> QED
        BY <4>1, <4>2, OneLess
    <3> QED
      BY <3>2, <3>3, <3>4
  <2>3. ASSUME NEW k \in Lists, k # l
        PROVE  /\ top'[k].ptr = At(k, 1)'
               /\ \A i \in 1 .. Len(list'[k]) : next'[list'[k][i]] = At(k, i + 1)'
    <3>1. list'[k] = list[k] /\ top'[k] = top[k]
      BY <1>3, <2>3
    <3> QED
      BY <3>1, ZenonT(40) DEF ListsIntact, At
  <2> QED
    BY <2>1, <2>2, <2>3 DEF ListsIntact
<1>12. OneOwner'
  <2>1. \A k \in Lists : \A i, j \in 1 .. Len(list'[k]) : list'[k][i] = list'[k][j] => i = j
    <3>1. ASSUME NEW i \in 1 .. Len(list'[l]), NEW j \in 1 .. Len(list'[l]),
                 list'[l][i] = list'[l][j]
          PROVE  i = j
      <4>1. /\ i + 1 \in 1 .. Len(list[l]) /\ j + 1 \in 1 .. Len(list[l])
            /\ list[l][i + 1] = list[l][j + 1]
        BY <1>3, <3>1
      <4>2. i + 1 = j + 1
        BY <1>0, <4>1 DEF OneOwner
      <4> QED
        BY <4>2
    <3> QED
      BY <1>3, <3>1 DEF OneOwner
  <2>2. \A x \in Nodes : ~(InList(x, "stack")' /\ InList(x, "pool")')
    BY <1>5 DEF OneOwner, Lists
  <2>3. ASSUME NEW u \in Threads, mine'[u] # Null, NEW k \in Lists
        PROVE  ~InList(mine[u], k)'
    <3>1. PICK x \in Nodes : x = mine'[u]
      BY <1>10, <2>3 DEF StackTypeOK
    <3>2. ~InList(x, k)'
      BY <1>5, <1>7, <1>8, <2>3, <3>1 DEF OneOwner
    <3> QED
      BY <3>1, <3>2 DEF InList
  <2>5. \A u, w \in Threads : mine'[u] = mine'[w] /\ mine'[u] # Null => u = w
    BY <1>8 DEF OneOwner
  <2> QED
    BY <2>1, <2>2, <2>3, <2>5 DEF OneOwner, InList
<1>13. StorageLives'
  BY <1>5 DEF StorageLives, Lists
<1>14. PcKnows'
  BY <1>1, <1>8, Numbers DEF PcKnows, Has, StackTypeOK
<1>15. TakeKnows'
  <2> SUFFICES ASSUME NEW u \in Threads, pc'[u] \in {"read", "take"}
               PROVE  /\ old'[u].tag <= top'[From(u)'].tag
                      /\ pc'[u] = "take" =>
                            /\ old'[u].ptr # Null
                            /\ old'[u] = top'[From(u)'] => after'[u] = next'[old'[u].ptr]
    BY DEF TakeKnows
  <2>1. pc[u] = pc'[u] /\ From(u)' = From(u)
    BY DEF StackTypeOK, From
  <2> QED
    BY <1>0, <1>1, <2>1, NewerTag
<1>16. PutKnows'
  <2>1. call[t] = "pop" => storage[n] \in Values
    BY <1>0, <1>1, <1>6 DEF StorageLives, From
  <2> QED
    BY <1>8, <2>1 DEF PutKnows, StackTypeOK
<1> QED
  BY <1>10, <1>11, <1>12, <1>13, <1>14, <1>15, <1>16

LEMMA PutStep ==
  ASSUME IInv, NEW t \in Threads, Put(t)
  PROVE  IInv'
<1> USE DEF IInv, Put, Return, Go
<1>0. PICK l \in Lists : l = To(t)
  BY FromTo
<1>1. PICK n \in Nodes : /\ n = mine[t] /\ n # Null /\ top[l] = old[t]
                         /\ next[n] = top[l].ptr
                         /\ call[t] = IF l = "stack" THEN "emplace" ELSE "pop"
  <2>1. mine[t] \in Nodes /\ mine[t] # Null
    BY DEF StackTypeOK, PcKnows, Has
  <2>2. top[l] = old[t] /\ next[mine[t]] = top[l].ptr
    BY <1>0 DEF PutKnows
  <2>3. call[t] = IF l = "stack" THEN "emplace" ELSE "pop"
    BY <1>0 DEF StackTypeOK, PcKnows, To
  <2> QED
    BY <2>1, <2>2, <2>3
<1>2. /\ \A k \in Lists : ~InList(n, k)
      /\ \A u \in Threads : mine[u] = n => u = t
  BY <1>1 DEF OneOwner
<1>3. /\ list'[l] \in Seq(Nodes) /\ Len(list[l]) \in Nat
      /\ Len(list'[l]) = Len(list[l]) + 1
      /\ list'[l][1] = n
      /\ \A i \in 1 .. Len(list[l]) : list'[l][i + 1] = list[l][i]
      /\ \A i \in 2 .. Len(list[l]) + 1 : list'[l][i] = list[l][i - 1]
  <2>1. list[l] \in Seq(Nodes) /\ list'[l] = <<n>> \o list[l]
    BY <1>0, <1>1 DEF StackTypeOK
  <2>2. /\ <<n>> \o list[l] \in Seq(Nodes) /\ Len(list[l]) \in Nat
        /\ Len(<<n>> \o list[l]) = Len(list[l]) + 1
        /\ (<<n>> \o list[l])[1] = n
        /\ \A i \in 1 .. Len(list[l]) : (<<n>> \o list[l])[i + 1] = list[l][i]
        /\ \A i \in 2 .. Len(list[l]) + 1 : (<<n>> \o list[l])[i] = list[l][i - 1]
    BY <2>1, ConsElements
  <2> QED
    BY <2>1, <2>2
<1>4. \A k \in Lists : k # l => list'[k] = list[k] /\ top'[k] = top[k]
  BY <1>0 DEF StackTypeOK
<1>5. top'[l] = [ptr |-> n, tag |-> old[t].tag + 1] /\ top'[l] \in Tagged
  BY <1>0, <1>1 DEF StackTypeOK, NewHead, Tagged
<1>6. \A k \in Lists, x \in Nodes : InList(x, k)' => InList(x, k) \/ (k = l /\ x = n)
  <2>1. ASSUME NEW x \in Nodes, InList(x, l)' PROVE InList(x, l) \/ x = n
    <3>1. PICK i \in 1 .. Len(list'[l]) : list'[l][i] = x
      BY <2>1 DEF InList
    <3>2. CASE i = 1
      BY <1>3, <3>1, <3>2
    <3>3. CASE i # 1
      <4>1. i \in 2 .. Len(list[l]) + 1 /\ i - 1 \in 1 .. Len(list[l])
        BY <1>3, <3>3
      <4> QED
        BY <1>3, <3>1, <4>1 DEF InList
    <3> QED
      BY <3>2, <3>3
  <2>2. ASSUME NEW k \in Lists, k # l, NEW x \in Nodes, InList(x, k)'
        PROVE  InList(x, k)
    <3>1. list'[k] = list[k]
      BY <1>4, <2>2
    <3> QED
      BY <2>2, <3>1 DEF InList
  <2> QED
    BY <2>1, <2>2
<1>7. /\ mine'[t] = Null
      /\ \A u \in Threads : u # t => mine'[u] = mine[u] /\ mine[u] # n
  BY <1>2 DEF StackTypeOK
<1>10. StackTypeOK'
  <2>1. list' \in [Lists -> Seq(Nodes)] /\ top' \in [Lists -> Tagged]
    BY <1>0, <1>3, <1>5 DEF StackTypeOK
  <2> QED
    BY <2>1 DEF StackTypeOK
<1>11. ListsIntact'
  <2>1. ASSUME NEW i \in 1 .. Len(list'[l])
        PROVE  next'[list'[l][i]] = At(l, i + 1)'
    <3>1. CASE i = 1
      <4>1. next'[list'[l][i]] = At(l, 1)
        BY <1>1, <1>3, <3>1 DEF ListsIntact
      <4>2. At(l, i + 1)' = At(l, 1)
        <5>1. CASE Len(list[l]) >= 1
          <6>1. list'[l][1 + 1] = list[l][1]
            BY <1>3, <5>1
          <6> QED
            BY <1>3, <3>1, <5>1, <6>1 DEF At
        <5>2. CASE Len(list[l]) = 0
          BY <1>3, <3>1, <5>2 DEF At
        <5> QED
          BY <1>3, <5>1, <5>2
      <4> QED
        BY <4>1, <4>2
    <3>2. CASE i # 1
      <4>1. PICK j \in 1 .. Len(list[l]) : i = j + 1
        <5>1. i - 1 \in 1 .. Len(list[l]) /\ i = (i - 1) + 1
          BY <1>3, <3>2
        <5> QED
          BY <5>1
      <4>2. next'[list'[l][i]] = At(l, j + 1)
        BY <1>3, <4>1 DEF ListsIntact
      <4>3. At(l, i + 1)' = At(l, j + 1)
        <5>1. CASE j + 1 <= Len(list[l])
          <6>1. j + 1 \in 1 .. Len(list[l])
            BY <1>3, <5>1
          <6>2. list'[l][(j + 1) + 1] = list[l][j + 1]
            BY <1>3, <6>1
          <6> QED
            BY <1>3, <4>1, <5>1, <6>2 DEF At
        <5>2. CASE ~(j + 1 <= Len(list[l]))
          BY <1>3, <4>1, <5>2 DEF At
        <5> QED
          BY <5>1, <5>2
      <4> QED
        BY <4>2, <4>3
    <3> QED
      BY <3>1, <3>2
  <2>2. top'[l].ptr = At(l, 1)'
    BY <1>3, <1>5 DEF At
  <2>3. ASSUME NEW k \in Lists, k # l
        PROVE  /\ top'[k].ptr = At(k, 1)'
               /\ \A i \in 1 .. Len(list'[k]) : next'[list'[k][i]] = At(k, i + 1)'
    <3>1. list'[k] = list[k] /\ top'[k] = top[k]
      BY <1>4, <2>3
    <3> QED
      BY <3>1, ZenonT(40) DEF ListsIntact, At
  <2> QED
    BY <2>1, <2>2, <2>3 DEF ListsIntact
<1>12. OneOwner'
  <2>1. ASSUME NEW i \in 1 .. Len(list'[l]), NEW j \in 1 .. Len(list'[l]),
               list'[l][i] = list'[l][j]
        PROVE  i = j
    <3>1. \A k \in 1 .. Len(list'[l]) :
            k # 1 => /\ k - 1 \in 1 .. Len(list[l])
                     /\ list'[l][k] = list[l][k - 1]
                     /\ list'[l][k] # n
      <4>1. ASSUME NEW k \in 1 .. Len(list'[l]), k # 1
            PROVE  /\ k - 1 \in 1 .. Len(list[l])
                   /\ list'[l][k] = list[l][k - 1]
        <5>1. k \in 2 .. Len(list[l]) + 1 /\ k - 1 \in 1 .. Len(list[l])
          BY <1>3, <4>1
        <5> QED
          BY <1>3, <5>1
      <4> QED
        BY <1>2, <4>1 DEF InList
    <3>2. CASE i = 1 \/ j = 1
      BY <1>3, <2>1, <3>1, <3>2
    <3>3. CASE i # 1 /\ j # 1
      <4>1. i - 1 = j - 1
        BY <2>1, <3>1, <3>3 DEF OneOwner
      <4> QED
        BY <4>1, <1>3
    <3> QED
      BY <3>2, <3>3
  <2>2. \A k \in Lists : \A i, j \in 1 .. Len(list'[k]) : list'[k][i] = list'[k][j] => i = j
    <3>1. ASSUME NEW k \in Lists, k # l
          PROVE  \A i, j \in 1 .. Len(list'[k]) : list'[k][i] = list'[k][j] => i = j
      <4>1. list'[k] = list[k]
        BY <1>4, <3>1
      <4>2. \A i, j \in 1 .. Len(list[k]) : list[k][i] = list[k][j] => i = j
        BY DEF OneOwner
      <4> QED
        BY <4>1, <4>2
    <3> QED
      BY <2>1, <3>1
  <2>3. \A x \in Nodes : ~(InList(x, "stack")' /\ InList(x, "pool")')
    BY <1>2, <1>6 DEF OneOwner, Lists
  <2>4. ASSUME NEW u \in Threads, mine'[u] # Null, NEW k \in Lists
        PROVE  ~InList(mine[u], k)'
    <3>1. PICK x \in Nodes : x = mine'[u] /\ x = mine[u] /\ x # n
      BY <1>7, <1>10, <2>4 DEF StackTypeOK
    <3>2. ~InList(x, k)'
      BY <1>6, <2>4, <3>1 DEF OneOwner
    <3> QED
      BY <3>1, <3>2 DEF InList
  <2>5. \A u, w \in Threads : mine'[u] = mine'[w] /\ mine'[u] # Null => u = w
    BY <1>7 DEF OneOwner
  <2> QED
    BY <2>2, <2>3, <2>4, <2>5, <1>7 DEF OneOwner, InList
<1>13. StorageLives'
  <2>1. l = "stack" => storage[n] \in Values
    BY <1>1 DEF PutKnows
  <2>2. l = "pool" => storage[n] = Raw
    BY <1>1 DEF PutKnows
  <2> QED
    BY <1>6, <2>1, <2>2 DEF StorageLives, Lists
<1>14. PcKnows'
  BY <1>7 DEF PcKnows, Has, StackTypeOK
<1>15. TakeKnows'
  <2> SUFFICES ASSUME NEW u \in Threads, pc'[u] \in {"read", "take"}
               PROVE  /\ old'[u].tag <= top'[From(u)'].tag
                      /\ pc'[u] = "take" =>
                            /\ old'[u].ptr # Null
                            /\ old'[u] = top'[From(u)'] => after'[u] = next'[old'[u].ptr]
    BY DEF TakeKnows
  <2>1. pc[u] = pc'[u] /\ From(u)' = From(u)
    BY DEF StackTypeOK, From
  <2> QED
    BY <1>0, <1>1, <2>1, NewerTag
<1>16. PutKnows'
  BY <1>7 DEF PutKnows, PcKnows, Has, StackTypeOK
<1> QED
  BY <1>10, <1>11, <1>12, <1>13, <1>14, <1>15, <1>16

-----------------------------------------------------------------------------
(* The theorems.                                                           *)

\* The invariant holds throughout every behaviour.
THEOREM Invariance == Spec => []IInv
<1>1. Init => IInv
  BY InitInv
<1>2. IInv /\ [Next]_vars => IInv'
  <2> SUFFICES ASSUME IInv, [Next]_vars PROVE IInv'
    OBVIOUS
  <2>1. CASE Next
    <3>1. PICK t \in Threads :
           \/ \E v \in Values : Start(t, "emplace", v)
           \/ Start(t, "pop", Raw)
           \/ Empty(t) \/ ReadNext(t) \/ Take(t) \/ TakeFails(t)
           \/ Own(t) \/ Link(t) \/ Put(t) \/ PutFails(t)
      BY <2>1, NextSteps
    <3>2. CASE \E v \in Values : Start(t, "emplace", v)
      <4>1. PICK v \in Values : Start(t, "emplace", v)
        BY <3>2
      <4> QED
        BY <4>1, StartStep
    <3>3. CASE Start(t, "pop", Raw)
      BY <3>3, StartStep
    <3>4. CASE Empty(t)
      BY <3>4, EmptyStep
    <3>5. CASE ReadNext(t)
      BY <3>5, ReadNextStep
    <3>6. CASE Take(t)
      BY <3>6, TakeStep
    <3>7. CASE TakeFails(t)
      BY <3>7, TakeFailsStep
    <3>8. CASE Own(t)
      BY <3>8, OwnStep
    <3>9. CASE Link(t)
      BY <3>9, LinkStep
    <3>10. CASE Put(t)
      BY <3>10, PutStep
    <3>11. CASE PutFails(t)
      BY <3>11, PutFailsStep
    <3> QED
      BY <3>1, <3>2, <3>3, <3>4, <3>5, <3>6, <3>7, <3>8, <3>9, <3>10, <3>11
  <2>2. CASE UNCHANGED vars
    BY <2>2 DEF vars, IInv, StackTypeOK, ListsIntact, OneOwner, StorageLives, PcKnows,
                TakeKnows, PutKnows, At, InList, From, Has
  <2> QED
    BY <2>1, <2>2
<1> QED
  BY <1>1, <1>2, PTL DEF Spec

\* However many threads use it and however often a node is used again, the
\* two heads and the _next pointers link exactly the nodes put and not taken
\* (acquire, release, emplace and pop; the tag defeats the ABA problem).
THEOREM TagsKeepLists == Spec => []ListsIntact
BY Invariance, PTL DEF IInv

\* A node is never in both lists, twice in one, or with two threads.
THEOREM NodesHaveOneOwner == Spec => []OneOwner
BY Invariance, PTL DEF IInv

\* An element lives in each node of the stack and in none of the pool: no
\* element is destroyed twice or constructed over a live one.
THEOREM ElementsLiveInStack == Spec => []StorageLives
BY Invariance, PTL DEF IInv

\* The variables keep their types.
THEOREM TypeCorrect == Spec => []TypeOK
<1> DEFINE Calls == {"idle", "read", "take", "own", "link", "put"}
           Own6 == pc \in [Threads -> Calls] /\ old \in [Threads -> Tagged]
<1>1. Init => Own6
  BY Numbers DEF Init, Tagged
<1>2. IInv /\ Own6 /\ [Next]_vars => Own6'
  <2> SUFFICES ASSUME IInv, Own6, [Next]_vars PROVE Own6'
    OBVIOUS
  <2>1. ASSUME NEW t \in Threads, NEW l \in Lists, NEW to \in Calls,
               pc' = [pc EXCEPT ![t] = to],
               old' = old \/ old' = [old EXCEPT ![t] = top[l]]
        PROVE  Own6'
    BY <2>1 DEF IInv, StackTypeOK
  <2>2. CASE Next
    <3>1. PICK t \in Threads :
           \/ \E v \in Values : Start(t, "emplace", v)
           \/ Start(t, "pop", Raw)
           \/ Empty(t) \/ ReadNext(t) \/ Take(t) \/ TakeFails(t)
           \/ Own(t) \/ Link(t) \/ Put(t) \/ PutFails(t)
      BY <2>2, NextSteps
    <3>2. "stack" \in Lists /\ "pool" \in Lists
      BY DEF Lists
    <3>3. From(t) \in Lists /\ To(t) \in Lists
      BY FromTo
    <3> QED
      BY <2>1, <3>1, <3>2, <3>3 DEF Start, Empty, ReadNext, Take, TakeFails, Own,
                                    Link, Put, PutFails, Return, Go
  <2>3. CASE UNCHANGED vars
    BY <2>3 DEF vars
  <2> QED
    BY <2>2, <2>3
<1>3. IInv /\ Own6 => TypeOK
  BY TreiberStackAssumption DEF IInv, StackTypeOK, TypeOK
<1> QED
  BY <1>1, <1>2, <1>3, Invariance, PTL DEF Spec

-----------------------------------------------------------------------------
(* The elimination array.  A node is in a list, in a slot or with a        *)
(* thread; a slot is read, and compared, by threads that know what they    *)
(* look for there.                                                         *)

ArrayTypeOK ==
  /\ slot \in [Slots -> TaggedSlot]
  /\ tried \in [Threads -> BOOLEAN]
  /\ idx \in [Threads -> Slots]
  /\ marked \in [Threads -> TaggedSlot]
  /\ \A t \in Threads : pc[t] = "idle" => ~tried[t]

\* What a thread has seen in the slot, and which marker it has put there.
Meeting ==
  \A t \in Threads :
    /\ pc[t] = "answer" => call[t] = "emplace" /\ old[t].ptr = Marker
    /\ pc[t] = "claim" => call[t] = "pop" /\ old[t].ptr \in Nodes
    /\ pc[t] = "offer" => call[t] = "pop" /\ old[t].ptr = Null
    /\ pc[t] \in {"wait", "collect"} => call[t] = "pop" /\ marked[t].ptr = Marker
    /\ pc[t] = "collect" => old[t].ptr # Marker

\* A node in a slot holds an element and is nowhere else.
SlotsHold ==
  /\ \A s \in Slots : slot[s].ptr \in Nodes =>
       /\ storage[slot[s].ptr] \in Values
       /\ \A l \in Lists : ~InList(slot[s].ptr, l)
       /\ \A t \in Threads : mine[t] # slot[s].ptr
  /\ \A r, s \in Slots : slot[r].ptr = slot[s].ptr /\ slot[r].ptr \in Nodes => r = s

NoneLost ==
  \A n \in Nodes :
    \/ \E l \in Lists : InList(n, l)
    \/ \E s \in Slots : slot[s].ptr = n
    \/ \E t \in Threads : mine[t] = n

EInv ==
  /\ IInv
  /\ ArrayTypeOK
  /\ Meeting
  /\ SlotsHold
  /\ NoneLost
  /\ MarkerHasPopper

LEMMA MarkerIsNoNode == Marker \notin Nodes /\ Marker # Null /\ Marker \in Nat
BY TreiberStackAssumption DEF Marker, Nodes, Null

LEMMA EInitInv == EInit => EInv
<1> SUFFICES ASSUME EInit PROVE EInv
  OBVIOUS
<1>1. IInv
  BY InitInv DEF EInit
<1>2. [ptr |-> Null, tag |-> 0] \in TaggedSlot
  BY DEF TaggedSlot
<1>3. ArrayTypeOK
  BY <1>2 DEF EInit, ArrayTypeOK
<1>4. Meeting
  BY DEF EInit, Init, Meeting
<1>5. SlotsHold /\ MarkerHasPopper
  BY Numbers, MarkerIsNoNode DEF EInit, SlotsHold, MarkerHasPopper
<1>6. NoneLost
  <2> SUFFICES ASSUME NEW n \in Nodes PROVE InList(n, "pool")
    BY DEF NoneLost, Lists
  <2>1. Len(list["pool"]) = Capacity /\ list["pool"][n] = n
    BY Numbers DEF EInit, Init, Lists, Nodes
  <2> QED
    BY <2>1 DEF InList, Nodes
<1> QED
  BY <1>1, <1>3, <1>4, <1>5, <1>6 DEF EInv

\* A step that moves no node leaves every node where it is.
LEMMA NodesStay ==
  ASSUME SlotsHold, NoneLost,
         list' = list, storage' = storage, mine' = mine,
         \A s \in Slots : \/ slot'[s].ptr = slot[s].ptr
                          \/ slot'[s].ptr \notin Nodes /\ slot[s].ptr \notin Nodes
  PROVE  SlotsHold' /\ NoneLost'
<1>1. \A l \in Lists : \A n : InList(n, l)' <=> InList(n, l)
  BY DEF InList
<1>2. SlotsHold'
  BY <1>1 DEF SlotsHold
<1>3. NoneLost'
  BY <1>1 DEF NoneLost
<1> QED
  BY <1>2, <1>3

\* A step of t that changes no slot leaves the marker of a waiting popper.
LEMMA MarkersStay ==
  ASSUME MarkerHasPopper, ArrayTypeOK, StackTypeOK, NEW t \in Threads,
         UNCHANGED slot,
         \A u \in Threads : u # t => pc'[u] = pc[u] /\ idx'[u] = idx[u] /\ marked'[u] = marked[u],
         \/ pc[t] \notin {"wait", "collect"}
         \/ pc'[t] \in {"wait", "collect"} /\ idx'[t] = idx[t] /\ marked'[t] = marked[t]
  PROVE  MarkerHasPopper'
BY DEF MarkerHasPopper

\* A step of one call between the stack and the array, or at the array, that
\* takes and gives no node.
LEMMA LocalStep ==
  ASSUME EInv, NEW t \in Threads, call[t] # "none",
         pc'[t] \in {"answer", "claim", "offer", "wait", "collect", "reload", "link", "read"},
         pc' = [pc EXCEPT ![t] = pc'[t]],
         old'[t] \in TaggedSlot,
         old' = [old EXCEPT ![t] = old'[t]],
         UNCHANGED <<top, next, storage, call, after, mine, item, calls, list>>,
         slot' \in [Slots -> TaggedSlot],
         idx' \in [Threads -> Slots],
         tried' \in [Threads -> BOOLEAN],
         \A u \in Threads : u # t => tried'[u] = tried[u],
         marked'[t] \in TaggedSlot,
         marked' = [marked EXCEPT ![t] = marked'[t]],
         call[t] = "emplace" => /\ pc[t] \in {"put", "answer", "reload"}
                                /\ pc'[t] \in {"answer", "reload", "link"},
         call[t] = "pop" => /\ pc[t] \notin {"own", "link", "put", "answer"}
                            /\ pc'[t] \in {"claim", "offer", "wait", "collect", "reload", "read"},
         pc'[t] \in {"read", "link"} => old'[t] = top["stack"],
         pc'[t] = "answer" => old'[t].ptr = Marker,
         pc'[t] = "claim" => old'[t].ptr \in Nodes,
         pc'[t] = "offer" => old'[t].ptr = Null,
         pc'[t] \in {"wait", "collect"} => marked'[t].ptr = Marker,
         pc'[t] = "collect" => old'[t].ptr # Marker
  PROVE  IInv' /\ ArrayTypeOK' /\ Meeting'
<1> USE DEF EInv, IInv
<1>0. /\ top["stack"] \in Tagged
      /\ call[t] = "emplace" \/ call[t] = "pop"
  BY DEF StackTypeOK, Lists
<1>1. StackTypeOK'
  <2>1. /\ pc' \in [Threads -> {"idle", "read", "take", "own", "link", "put", "answer",
                                "claim", "offer", "wait", "collect", "reload"}]
        /\ old' \in [Threads -> TaggedSlot]
    <3>1. pc \in [Threads -> {"idle", "read", "take", "own", "link", "put", "answer",
                             "claim", "offer", "wait", "collect", "reload"}]
      BY DEF StackTypeOK
    <3>2. old \in [Threads -> TaggedSlot]
      BY DEF StackTypeOK
    <3>3. pc'[t] \in {"idle", "read", "take", "own", "link", "put", "answer",
                     "claim", "offer", "wait", "collect", "reload"}
      OBVIOUS
    <3> QED
      BY <3>1, <3>2, <3>3
  <2>2. ASSUME NEW u \in Threads, pc'[u] \in {"read", "take", "link", "put"}
        PROVE  old'[u] \in Tagged
    <3>1. CASE u = t
      BY <1>0, <2>2, <3>1
    <3>2. CASE u # t
      BY <2>2, <3>2 DEF StackTypeOK
    <3> QED
      BY <3>1, <3>2
  <2> QED
    BY <2>1, <2>2 DEF StackTypeOK
<1>2. ListsIntact' /\ OneOwner' /\ StorageLives'
  BY SameLists
<1>3. PcKnows'
  BY <1>0 DEF PcKnows, Has, StackTypeOK
<1>4. TakeKnows'
  <2> SUFFICES ASSUME NEW u \in Threads, pc'[u] \in {"read", "take"}
               PROVE  /\ old'[u].tag <= top'[From(u)'].tag
                      /\ pc'[u] = "take" =>
                            /\ old'[u].ptr # Null
                            /\ old'[u] = top'[From(u)'] => after'[u] = next'[old'[u].ptr]
    BY DEF TakeKnows
  <2>1. From(u)' = From(u)
    BY DEF From
  <2>2. CASE u = t
    <3>1. pc'[u] = "read" /\ old'[u] = top["stack"] /\ From(u) = "stack"
      BY <1>0, <2>2 DEF From, StackTypeOK
    <3> QED
      BY <1>0, <2>1, <3>1 DEF Tagged
  <2>3. CASE u # t
    <3>1. pc'[u] = pc[u] /\ old'[u] = old[u]
      BY <2>3 DEF StackTypeOK
    <3> QED
      BY <2>1, <3>1 DEF TakeKnows
  <2> QED
    BY <2>2, <2>3
<1>5. PutKnows'
  BY <1>0 DEF PutKnows, StackTypeOK
<1>6. ArrayTypeOK'
  BY DEF ArrayTypeOK, StackTypeOK
<1>7. Meeting'
  BY <1>0 DEF Meeting, ArrayTypeOK, StackTypeOK
<1> QED
  BY <1>1, <1>2, <1>3, <1>4, <1>5, <1>6, <1>7

\* The types of what one thread sees, and which calls a place belongs to.
LEMMA ThreadFacts ==
  ASSUME EInv, NEW t \in Threads
  PROVE  /\ old[t] \in TaggedSlot /\ marked[t] \in TaggedSlot
         /\ idx[t] \in Slots /\ slot[idx[t]] \in TaggedSlot
         /\ top["stack"] \in TaggedSlot
         /\ [ptr |-> Null, tag |-> old[t].tag + 1] \in TaggedSlot
         /\ [ptr |-> Marker, tag |-> old[t].tag + 1] \in TaggedSlot
         /\ [ptr |-> Null, tag |-> slot[idx[t]].tag] \in TaggedSlot
         /\ [ptr |-> Null, tag |-> slot[idx[t]].tag + 1] \in TaggedSlot
         /\ tried \in [Threads -> BOOLEAN]
         /\ idx \in [Threads -> Slots]
         /\ slot \in [Slots -> TaggedSlot]
         /\ marked \in [Threads -> TaggedSlot]
         /\ marked = [marked EXCEPT ![t] = marked[t]]
         /\ old = [old EXCEPT ![t] = old[t]]
         /\ call[t] # "none" => call[t] = "emplace" \/ call[t] = "pop"
<1>1. /\ old \in [Threads -> TaggedSlot] /\ marked \in [Threads -> TaggedSlot]
      /\ idx \in [Threads -> Slots] /\ slot \in [Slots -> TaggedSlot]
      /\ top["stack"] \in Tagged /\ tried \in [Threads -> BOOLEAN]
      /\ call \in [Threads -> {"none", "emplace", "pop"}]
  BY DEF EInv, IInv, StackTypeOK, ArrayTypeOK, Lists
<1>2. /\ old[t] \in TaggedSlot /\ slot[idx[t]] \in TaggedSlot
      /\ old[t].tag \in Nat /\ slot[idx[t]].tag \in Nat
  BY <1>1 DEF TaggedSlot
<1>3. /\ [ptr |-> Null, tag |-> old[t].tag + 1] \in TaggedSlot
      /\ [ptr |-> Marker, tag |-> old[t].tag + 1] \in TaggedSlot
      /\ [ptr |-> Null, tag |-> slot[idx[t]].tag] \in TaggedSlot
      /\ [ptr |-> Null, tag |-> slot[idx[t]].tag + 1] \in TaggedSlot
  BY <1>2 DEF TaggedSlot
<1> QED
  BY <1>1, <1>2, <1>3, TaggedInSlots

LEMMA PopCalls ==
  ASSUME EInv, NEW t \in Threads
  PROVE  /\ pc[t] \in {"claim", "offer", "wait", "collect"} => call[t] = "pop"
         /\ pc[t] = "answer" => call[t] = "emplace"
         /\ pc[t] # "idle" => call[t] # "none"
BY DEF EInv, IInv, PcKnows, Meeting

\* The local steps that leave the slots alone.
LEMMA LooksStep ==
  ASSUME EInv, NEW t \in Threads,
         \/ Reload(t) \/ MeetPopper(t) \/ AnswerFails(t) \/ MeetPusher(t)
         \/ ClaimFails(t) \/ OfferFails(t) \/ Look(t) \/ CollectFails(t)
  PROVE  EInv'
<1>0. /\ pc \in [Threads -> {"idle", "read", "take", "own", "link", "put", "answer",
                             "claim", "offer", "wait", "collect", "reload"}]
      /\ old \in [Threads -> TaggedSlot]
  BY DEF EInv, IInv, StackTypeOK
<1>1. pc[t] # "idle" /\ call[t] # "none"
  BY PopCalls
  DEF Reload, MeetPopper, AnswerFails, MeetPusher, ClaimFails, OfferFails, Look,
      CollectFails, GiveUp, See, Go
<1>2. UNCHANGED <<top, next, storage, call, after, mine, item, calls, list>>
  BY DEF Reload, MeetPopper, AnswerFails, MeetPusher, ClaimFails, OfferFails, Look,
         CollectFails, GiveUp, See
<1>3. slot' = slot /\ marked' = marked
  BY DEF Reload, MeetPopper, AnswerFails, MeetPusher, ClaimFails, OfferFails, Look,
         CollectFails, evars
<1>4. tried' \in [Threads -> BOOLEAN] /\ \A u \in Threads : u # t => tried'[u] = tried[u]
  <2>1. tried' = tried \/ tried' = [tried EXCEPT ![t] = TRUE]
    BY DEF Reload, MeetPopper, AnswerFails, MeetPusher, ClaimFails, OfferFails, Look,
           CollectFails, GiveUp, See, evars
  <2> QED
    BY <2>1, ThreadFacts
<1>5. idx' \in [Threads -> Slots] /\ \A u \in Threads : u # t => idx'[u] = idx[u]
  <2>1. idx' = idx \/ \E s \in Slots : idx' = [idx EXCEPT ![t] = s]
    BY DEF Reload, MeetPopper, AnswerFails, MeetPusher, ClaimFails, OfferFails, Look,
           CollectFails, GiveUp, See, evars
  <2> QED
    BY <2>1, ThreadFacts
<1>6. pc' = [pc EXCEPT ![t] = pc'[t]] /\ old' = [old EXCEPT ![t] = old'[t]]
  BY <1>0
  DEF Reload, MeetPopper, AnswerFails, MeetPusher, ClaimFails, OfferFails, Look,
      CollectFails, GiveUp, See, Go
<1>7. old'[t] \in {old[t], top["stack"], [ptr |-> Null, tag |-> slot[idx[t]].tag]}
        \/ \E s \in Slots : old'[t] \in {slot[s], [ptr |-> Null, tag |-> slot[s].tag]}
  BY <1>0, ThreadFacts, ZenonT(40)
  DEF Reload, MeetPopper, AnswerFails, MeetPusher, ClaimFails, OfferFails, Look,
      CollectFails, GiveUp, See, Go, Slot, Vacant
<1>8. old'[t] \in TaggedSlot
  BY <1>7, ThreadFacts DEF TaggedSlot
<1>9. /\ call[t] = "emplace" => /\ pc[t] \in {"put", "answer", "reload"}
                                /\ pc'[t] \in {"answer", "reload", "link"}
      /\ call[t] = "pop" =>
           /\ pc[t] \notin {"own", "link", "put", "answer"}
           /\ pc'[t] \in {"claim", "offer", "wait", "collect", "reload", "read"}
  BY <1>0, PopCalls
  DEF Reload, MeetPopper, AnswerFails, MeetPusher, ClaimFails, OfferFails, Look,
      CollectFails, GiveUp, See, Go
<1>10. /\ pc'[t] \in {"read", "link"} => old'[t] = top["stack"]
       /\ pc'[t] = "answer" => old'[t].ptr = Marker
       /\ pc'[t] = "claim" => old'[t].ptr \in Nodes
       /\ pc'[t] = "offer" => old'[t].ptr = Null
       /\ pc'[t] = "collect" => old'[t].ptr # Marker
  BY <1>0
  DEF Reload, MeetPopper, AnswerFails, MeetPusher, ClaimFails, OfferFails, Look,
      CollectFails, GiveUp, See, Go, Slot, Vacant
<1>11. pc'[t] \in {"wait", "collect"} =>
         pc[t] \in {"wait", "collect"} /\ idx' = idx /\ marked[t].ptr = Marker
  BY <1>0
  DEF Reload, MeetPopper, AnswerFails, MeetPusher, ClaimFails, OfferFails, Look,
      CollectFails, GiveUp, See, Go, evars, EInv, Meeting
<1>12. pc[t] \in {"wait", "collect"} => pc'[t] \in {"wait", "collect"}
  BY <1>0
  DEF Reload, MeetPopper, AnswerFails, MeetPusher, ClaimFails, OfferFails, Look,
      CollectFails, GiveUp, See, Go
<1>13. pc'[t] \in {"answer", "claim", "offer", "wait", "collect", "reload", "link", "read"}
  BY <1>1, <1>9, ThreadFacts
<1>14. /\ slot' \in [Slots -> TaggedSlot]
       /\ marked'[t] \in TaggedSlot
       /\ marked' = [marked EXCEPT ![t] = marked'[t]]
       /\ pc'[t] \in {"wait", "collect"} => marked'[t].ptr = Marker
  BY <1>3, <1>11, ThreadFacts
<1>15. IInv' /\ ArrayTypeOK' /\ Meeting'
  BY <1>1, <1>2, <1>4, <1>5, <1>6, <1>8, <1>9, <1>10, <1>13, <1>14, LocalStep
<1>16. SlotsHold' /\ NoneLost'
  <2>1. SlotsHold /\ NoneLost
    BY DEF EInv
  <2>2. list' = list /\ storage' = storage /\ mine' = mine
    BY <1>2
  <2>3. \A s \in Slots : \/ slot'[s].ptr = slot[s].ptr
                         \/ slot'[s].ptr \notin Nodes /\ slot[s].ptr \notin Nodes
    BY <1>3
  <2> QED
    BY <2>1, <2>2, <2>3, NodesStay
<1>17. MarkerHasPopper'
  BY <1>0, <1>3, <1>5, <1>6, <1>11, <1>12, MarkersStay DEF EInv, IInv
<1> QED
  BY <1>15, <1>16, <1>17 DEF EInv

\* A popper puts its marker into an empty slot, or takes it back.
LEMMA OfferStep ==
  ASSUME EInv, NEW t \in Threads, Offer(t)
  PROVE  EInv'
<1> USE ThreadFacts, PopCalls
<1>1. /\ pc[t] = "offer" /\ call[t] = "pop" /\ slot[idx[t]] = old[t] /\ old[t].ptr = Null
      /\ pc' = [pc EXCEPT ![t] = "wait"]
      /\ slot' = [slot EXCEPT ![idx[t]] = [ptr |-> Marker, tag |-> old[t].tag + 1]]
      /\ marked' = [marked EXCEPT ![t] = [ptr |-> Marker, tag |-> old[t].tag + 1]]
      /\ UNCHANGED <<top, next, storage, call, after, mine, item, calls, list>>
      /\ UNCHANGED <<old, tried, idx>>
  BY DEF Offer, Swap, Slot, Go, NewHead, EInv, Meeting
<1>2. slot' \in [Slots -> TaggedSlot]
  BY <1>1
<1>3. IInv' /\ ArrayTypeOK' /\ Meeting'
  <2>1. /\ pc'[t] = "wait" /\ pc' = [pc EXCEPT ![t] = pc'[t]]
        /\ marked'[t] = [ptr |-> Marker, tag |-> old[t].tag + 1]
        /\ marked' = [marked EXCEPT ![t] = marked'[t]]
    BY <1>1 DEF EInv, IInv, StackTypeOK
  <2>2. old'[t] \in TaggedSlot /\ old' = [old EXCEPT ![t] = old'[t]]
    BY <1>1
  <2> QED
    BY <1>1, <1>2, <2>1, <2>2, LocalStep
<1>4. SlotsHold' /\ NoneLost'
  <2>1. \A s \in Slots : \/ slot'[s].ptr = slot[s].ptr
                         \/ slot'[s].ptr \notin Nodes /\ slot[s].ptr \notin Nodes
    BY <1>1, Numbers, MarkerIsNoNode
  <2> QED
    BY <1>1, <2>1, NodesStay DEF EInv
<1>5. MarkerHasPopper'
  <2> SUFFICES ASSUME NEW s \in Slots, slot'[s].ptr = Marker
               PROVE  \E u \in Threads : /\ pc'[u] \in {"wait", "collect"}
                                         /\ idx'[u] = s /\ marked'[u] = slot'[s]
    BY DEF MarkerHasPopper
  <2>1. pc \in [Threads -> {"idle", "read", "take", "own", "link", "put", "answer",
                            "claim", "offer", "wait", "collect", "reload"}]
    BY DEF EInv, IInv, StackTypeOK
  <2>2. CASE s = idx[t]
    BY <1>1, <2>1, <2>2
  <2>3. CASE s # idx[t]
    <3>1. slot'[s] = slot[s]
      BY <1>1, <2>3
    <3>2. PICK u \in Threads : /\ pc[u] \in {"wait", "collect"}
                               /\ idx[u] = s /\ marked[u] = slot[s]
      BY <2>3, <3>1 DEF EInv, MarkerHasPopper
    <3> QED
      BY <1>1, <2>1, <3>1, <3>2
  <2> QED
    BY <2>2, <2>3
<1> QED
  BY <1>3, <1>4, <1>5 DEF EInv

\* The popper gives up waiting, and takes its marker back if it is there; or
\* it finds that somebody has emptied the slot.
LEMMA GivesUpStep ==
  ASSUME EInv, NEW t \in Threads, Withdraw(t) \/ (Collect(t) /\ old[t].ptr = Null)
  PROVE  EInv'
<1> USE ThreadFacts, PopCalls
<1>1. /\ pc[t] \in {"wait", "collect"} /\ call[t] = "pop" /\ marked[t].ptr = Marker
      /\ pc' = [pc EXCEPT ![t] = "reload"]
      /\ tried' = [tried EXCEPT ![t] = TRUE]
      /\ UNCHANGED <<top, next, storage, call, after, mine, item, calls, list>>
      /\ UNCHANGED <<old, idx, marked>>
  BY Numbers DEF Withdraw, Collect, Leave, GiveUp, Go, EInv, Meeting
<1>2. PICK v \in TaggedSlot :
        /\ slot' = [slot EXCEPT ![idx[t]] = v]
        /\ \/ v = slot[idx[t]] /\ slot[idx[t]] # marked[t]
           \/ v.ptr = Null /\ slot[idx[t]].ptr \in {Null, Marker}
  <2>1. CASE Withdraw(t)
    BY <1>1, <2>1 DEF Withdraw, Slot
  <2>2. CASE Collect(t) /\ old[t].ptr = Null
    BY <1>1, <2>2 DEF Collect, Swap, Slot, NewHead
  <2> QED
    BY <2>1, <2>2
<1>3. IInv' /\ ArrayTypeOK' /\ Meeting'
  <2>1. slot' \in [Slots -> TaggedSlot] /\ tried' \in [Threads -> BOOLEAN]
    BY <1>1, <1>2
  <2>2. /\ pc'[t] = "reload" /\ pc' = [pc EXCEPT ![t] = pc'[t]]
        /\ \A u \in Threads : u # t => tried'[u] = tried[u]
    BY <1>1 DEF EInv, IInv, StackTypeOK
  <2>3. /\ old'[t] \in TaggedSlot /\ old' = [old EXCEPT ![t] = old'[t]]
        /\ marked'[t] \in TaggedSlot /\ marked' = [marked EXCEPT ![t] = marked'[t]]
        /\ idx' \in [Threads -> Slots]
    BY <1>1
  <2> QED
    BY <1>1, <2>1, <2>2, <2>3, LocalStep
<1>4. SlotsHold' /\ NoneLost'
  <2>1. \A s \in Slots : \/ slot'[s].ptr = slot[s].ptr
                         \/ slot'[s].ptr \notin Nodes /\ slot[s].ptr \notin Nodes
    BY <1>2, Numbers, MarkerIsNoNode
  <2> QED
    BY <1>1, <2>1, NodesStay DEF EInv
<1>5. MarkerHasPopper'
  <2> SUFFICES ASSUME NEW s \in Slots, slot'[s].ptr = Marker
               PROVE  \E u \in Threads : /\ pc'[u] \in {"wait", "collect"}
                                         /\ idx'[u] = s /\ marked'[u] = slot'[s]
    BY DEF MarkerHasPopper
  <2>1. /\ slot'[s] = slot[s]
        /\ s = idx[t] => slot[s] # marked[t]
    BY <1>2, Numbers, MarkerIsNoNode
  <2>2. PICK u \in Threads : /\ pc[u] \in {"wait", "collect"}
                             /\ idx[u] = s /\ marked[u] = slot[s]
    BY <2>1 DEF EInv, MarkerHasPopper
  <2>3. u # t /\ pc'[u] = pc[u]
    BY <1>1, <2>1, <2>2 DEF EInv, IInv, StackTypeOK
  <2> QED
    BY <1>1, <2>1, <2>2, <2>3
<1> QED
  BY <1>3, <1>4, <1>5 DEF EInv

\* A pusher replaces a marker by its node and returns.
LEMMA AnswerStep ==
  ASSUME EInv, NEW t \in Threads, Answer(t)
  PROVE  EInv'
<1> USE DEF EInv, IInv
<1>1. /\ pc[t] = "answer" /\ call[t] = "emplace"
      /\ slot[idx[t]] = old[t] /\ old[t].ptr = Marker
      /\ pc' = [pc EXCEPT ![t] = "idle"]
      /\ call' = [call EXCEPT ![t] = "none"]
      /\ item' = [item EXCEPT ![t] = Raw]
      /\ mine' = [mine EXCEPT ![t] = Null]
      /\ tried' = [tried EXCEPT ![t] = FALSE]
      /\ top' = top /\ next' = next /\ storage' = storage /\ old' = old
      /\ after' = after /\ calls' = calls /\ list' = list /\ idx' = idx /\ marked' = marked
  BY DEF Answer, Swap, Slot, Return, Go, Meeting
<1>2. PICK n \in Nodes : /\ n = mine[t] /\ n # Null /\ storage[n] \in Values
                         /\ slot' = [slot EXCEPT ![idx[t]] = [ptr |-> n, tag |-> old[t].tag + 1]]
  <2>1. mine[t] # Null /\ mine[t] \in Nodes
    BY <1>1 DEF PcKnows, Has, StackTypeOK
  <2>2. storage[mine[t]] \in Values
    BY <1>1 DEF PutKnows
  <2> QED
    BY <2>1, <2>2, <1>1 DEF Answer, Swap, NewHead
<1>3. /\ \A l \in Lists : ~InList(n, l)
      /\ \A u \in Threads : u # t => mine[u] # n /\ mine'[u] = mine[u]
      /\ mine'[t] = Null
      /\ \A l \in Lists : \A x : InList(x, l)' <=> InList(x, l)
  BY <1>1, <1>2 DEF OneOwner, StackTypeOK, InList
<1>4. /\ \A u \in Threads : u # t => /\ pc'[u] = pc[u] /\ call'[u] = call[u]
                                     /\ item'[u] = item[u]
      /\ pc'[t] = "idle" /\ call'[t] = "none"
  BY <1>1 DEF StackTypeOK
<1>5. /\ slot'[idx[t]] = [ptr |-> n, tag |-> old[t].tag + 1]
      /\ slot'[idx[t]] \in TaggedSlot
      /\ \A s \in Slots : s # idx[t] => slot'[s] = slot[s]
      /\ slot' \in [Slots -> TaggedSlot]
      /\ idx[t] \in Slots
  <2>1. /\ idx[t] \in Slots /\ slot \in [Slots -> TaggedSlot] /\ old[t] \in TaggedSlot
    BY ThreadFacts
  <2>2. [ptr |-> n, tag |-> old[t].tag + 1] \in TaggedSlot
    BY <2>1 DEF TaggedSlot
  <2> QED
    BY <1>2, <2>1, <2>2
<1>10. StackTypeOK'
  BY <1>1 DEF StackTypeOK
<1>11. ListsIntact' /\ StorageLives'
  BY <1>1, <1>3 DEF ListsIntact, At, StorageLives, Lists
<1>12. OneOwner'
  BY <1>1, <1>3 DEF OneOwner, InList
<1>13. PcKnows'
  BY <1>3, <1>4 DEF PcKnows, Has
<1>14. TakeKnows'
  BY <1>1, <1>4 DEF TakeKnows, From
<1>15. PutKnows'
  BY <1>1, <1>3, <1>4 DEF PutKnows
<1>16. ArrayTypeOK'
  BY <1>1, <1>4, <1>5 DEF ArrayTypeOK
<1>17. Meeting'
  BY <1>1, <1>4 DEF Meeting
<1>18. SlotsHold'
  <2>1. ASSUME NEW s \in Slots, slot'[s].ptr \in Nodes
        PROVE  /\ storage'[slot'[s].ptr] \in Values
               /\ \A l \in Lists : ~InList(slot[s].ptr, l)'
               /\ \A u \in Threads : mine'[u] # slot'[s].ptr
    <3>0. \A l \in Lists : InList(slot[s].ptr, l)' <=> InList(slot'[s].ptr, l)
      BY <1>1 DEF InList
    <3>1. CASE s = idx[t]
      <4>1. slot'[s].ptr = n
        BY <1>5, <3>1
      <4> QED
        BY <1>1, <1>2, <1>3, <3>0, <4>1
    <3>2. CASE s # idx[t]
      <4>1. slot'[s] = slot[s] /\ slot[s].ptr # Null
        BY <1>5, <2>1, <3>2, Numbers
      <4>2. /\ storage[slot[s].ptr] \in Values
            /\ \A l \in Lists : ~InList(slot[s].ptr, l)
            /\ \A u \in Threads : mine[u] # slot[s].ptr
        BY <2>1, <4>1 DEF SlotsHold
      <4>3. \A u \in Threads : mine'[u] # slot[s].ptr
        BY <1>3, <4>1, <4>2
      <4> QED
        BY <1>1, <3>0, <4>1, <4>2, <4>3
    <3> QED
      BY <3>1, <3>2
  <2>2. ASSUME NEW s \in Slots, s # idx[t] PROVE slot'[s].ptr # n
    BY <1>2, <1>5, <2>2 DEF SlotsHold
  <2>3. \A r, s \in Slots : slot'[r].ptr = slot'[s].ptr /\ slot'[r].ptr \in Nodes => r = s
    BY <1>5, <2>2 DEF SlotsHold
  <2> QED
    BY <2>1, <2>3 DEF SlotsHold
<1>19. NoneLost'
  <2> SUFFICES ASSUME NEW x \in Nodes
               PROVE  \/ \E l \in Lists : InList(x, l)'
                      \/ \E s \in Slots : slot'[s].ptr = x
                      \/ \E u \in Threads : mine'[u] = x
    BY DEF NoneLost, InList
  <2>1. CASE x = n
    BY <1>5, <2>1
  <2>2. CASE x # n
    <3>1. \A s \in Slots : slot[s].ptr = x => slot'[s].ptr = x
      BY <1>1, <1>5, MarkerIsNoNode
    <3>2. \A u \in Threads : mine[u] = x => mine'[u] = x
      BY <1>2, <1>3, <2>2
    <3> QED
      BY <1>3, <3>1, <3>2 DEF NoneLost
  <2> QED
    BY <2>1, <2>2
<1>20. MarkerHasPopper'
  <2> SUFFICES ASSUME NEW s \in Slots, slot'[s].ptr = Marker
               PROVE  \E u \in Threads : /\ pc'[u] \in {"wait", "collect"}
                                         /\ idx'[u] = s /\ marked'[u] = slot'[s]
    BY DEF MarkerHasPopper
  <2>1. slot'[s] = slot[s]
    BY <1>5, MarkerIsNoNode
  <2>2. PICK u \in Threads : /\ pc[u] \in {"wait", "collect"}
                             /\ idx[u] = s /\ marked[u] = slot[s]
    BY <2>1 DEF MarkerHasPopper
  <2> QED
    BY <1>1, <1>4, <2>1, <2>2
<1> QED
  BY <1>10, <1>11, <1>12, <1>13, <1>14, <1>15, <1>16, <1>17, <1>18, <1>19, <1>20

\* A popper takes the node it found in its slot, or that a pusher put in the
\* place of its marker.
LEMMA FetchStep ==
  ASSUME EInv, NEW t \in Threads, Claim(t) \/ (Collect(t) /\ old[t].ptr # Null)
  PROVE  EInv'
<1> USE DEF EInv, IInv
<1>1. /\ pc[t] \in {"claim", "collect"} /\ call[t] = "pop"
      /\ slot[idx[t]] = old[t] /\ old[t].ptr \in Nodes
      /\ pc' = [pc EXCEPT ![t] = "own"]
      /\ mine' = [mine EXCEPT ![t] = old[t].ptr]
      /\ slot' = [slot EXCEPT ![idx[t]] = [ptr |-> Null, tag |-> old[t].tag + 1]]
      /\ top' = top /\ next' = next /\ storage' = storage /\ old' = old /\ call' = call
      /\ item' = item /\ after' = after /\ calls' = calls /\ list' = list
      /\ tried' = tried /\ idx' = idx /\ marked' = marked
  <2>1. old[t].ptr \in Nodes \cup {Null, Marker}
    BY DEF StackTypeOK, TaggedSlot
  <2>2. pc[t] = "collect" => old[t].ptr # Marker
    BY DEF Meeting
  <2> QED
    BY <2>1, <2>2 DEF Claim, Collect, Leave, GiveUp, Swap, Slot, NewHead, Go, Meeting
<1>2. PICK n \in Nodes : n = old[t].ptr /\ n = slot[idx[t]].ptr /\ n # Null /\ n # Marker
  BY <1>1, Numbers, MarkerIsNoNode
<1>3. /\ idx[t] \in Slots
      /\ storage[n] \in Values
      /\ \A l \in Lists : ~InList(n, l)
      /\ \A u \in Threads : mine[u] # n
      /\ \A s \in Slots : s # idx[t] => slot[s].ptr # n
  <2>1. idx[t] \in Slots
    BY ThreadFacts
  <2> QED
    BY <1>2, <2>1 DEF SlotsHold
<1>4. /\ mine'[t] = n /\ pc'[t] = "own"
      /\ \A u \in Threads : u # t => mine'[u] = mine[u] /\ pc'[u] = pc[u]
      /\ \A l \in Lists : \A x : InList(x, l)' <=> InList(x, l)
  BY <1>1, <1>2 DEF StackTypeOK, InList
<1>5. /\ slot'[idx[t]].ptr = Null
      /\ \A s \in Slots : s # idx[t] => slot'[s] = slot[s]
      /\ slot' \in [Slots -> TaggedSlot]
  BY <1>1, <1>3, ThreadFacts
<1>10. StackTypeOK'
  BY <1>1 DEF StackTypeOK
<1>11. ListsIntact' /\ StorageLives'
  BY <1>1, <1>4 DEF ListsIntact, At, StorageLives, Lists
<1>12. OneOwner'
  BY <1>1, <1>3, <1>4 DEF OneOwner, InList
<1>13. PcKnows'
  BY <1>1, <1>2, <1>4 DEF PcKnows, Has
<1>14. TakeKnows'
  BY <1>1, <1>4 DEF TakeKnows, From
<1>15. PutKnows'
  BY <1>1, <1>3, <1>4 DEF PutKnows
<1>16. ArrayTypeOK'
  BY <1>1, <1>4, <1>5 DEF ArrayTypeOK
<1>17. Meeting'
  BY <1>1, <1>4 DEF Meeting
<1>18. SlotsHold'
  <2>1. ASSUME NEW s \in Slots, slot'[s].ptr \in Nodes
        PROVE  /\ s # idx[t] /\ slot'[s] = slot[s] /\ slot[s].ptr # n
               /\ \A u \in Threads : mine'[u] # slot[s].ptr
    <3>1. s # idx[t]
      BY <1>5, <2>1, Numbers
    <3> QED
      BY <1>3, <1>4, <1>5, <2>1, <3>1 DEF SlotsHold
  <2> QED
    BY <1>1, <1>4, <2>1 DEF SlotsHold, InList
<1>19. NoneLost'
  <2> SUFFICES ASSUME NEW x \in Nodes
               PROVE  \/ \E l \in Lists : InList(x, l)'
                      \/ \E s \in Slots : slot'[s].ptr = x
                      \/ \E u \in Threads : mine'[u] = x
    BY DEF NoneLost, InList
  <2>1. CASE x = n
    BY <1>4, <2>1
  <2>2. CASE x # n
    <3>1. \A s \in Slots : slot[s].ptr = x => slot'[s].ptr = x
      BY <1>2, <1>5, <2>2
    <3>2. \A u \in Threads : mine[u] = x => mine'[u] = x
      <4>1. mine[t] = Null /\ x # Null
        BY <1>1, Numbers DEF PcKnows, Has
      <4> QED
        BY <1>4, <4>1
    <3> QED
      BY <1>4, <3>1, <3>2 DEF NoneLost
  <2> QED
    BY <2>1, <2>2
<1>20. MarkerHasPopper'
  <2> SUFFICES ASSUME NEW s \in Slots, slot'[s].ptr = Marker
               PROVE  \E u \in Threads : /\ pc'[u] \in {"wait", "collect"}
                                         /\ idx'[u] = s /\ marked'[u] = slot'[s]
    BY DEF MarkerHasPopper
  <2>1. slot'[s] = slot[s] /\ s # idx[t]
    BY <1>5, MarkerIsNoNode
  <2>2. PICK u \in Threads : /\ pc[u] \in {"wait", "collect"}
                             /\ idx[u] = s /\ marked[u] = slot[s]
    BY <2>1 DEF MarkerHasPopper
  <2> QED
    BY <1>1, <1>4, <2>1, <2>2
<1> QED
  BY <1>10, <1>11, <1>12, <1>13, <1>14, <1>15, <1>16, <1>17, <1>18, <1>19, <1>20

-----------------------------------------------------------------------------
(* The steps at the stack, seen from the array.                            *)

\* The nodes in the lists and with one thread.
Around(t, x) == mine[t] = x \/ \E l \in Lists : InList(x, l)

\* What Take finds at the top of its list.
LEMMA TakeHead ==
  ASSUME IInv, NEW t \in Threads, Take(t)
  PROVE  /\ list[From(t)] \in Seq(Nodes) /\ list[From(t)] # <<>>
         /\ 1 \in 1 .. Len(list[From(t)])
         /\ old[t].ptr = list[From(t)][1] /\ old[t].ptr \in Nodes
         /\ From(t) \in Lists /\ mine[t] = Null
<1> USE DEF IInv, Take, Go
<1>0. PICK l \in Lists : l = From(t)
  BY FromTo
<1>1. old[t].ptr \in Nodes /\ old[t].ptr # Null /\ top[l] = old[t]
  BY <1>0, Numbers DEF StackTypeOK, Tagged, TakeKnows
<1>2. /\ list[l] \in Seq(Nodes) /\ Len(list[l]) \in Nat
      /\ 1 \in 1 .. Len(list[l]) /\ list[l][1] = old[t].ptr
      /\ list[l] # <<>>
  BY <1>0, <1>1, ListNat, EmptySeq DEF ListsIntact, At
<1> QED
  BY <1>0, <1>1, <1>2 DEF PcKnows, Has

LEMMA TakeAround ==
  ASSUME IInv, NEW t \in Threads, Take(t), NEW x \in Nodes
  PROVE  Around(t, x)' <=> Around(t, x)
<1>0. PICK l \in Lists, n \in Nodes, old_list \in Seq(Nodes) :
        l = From(t) /\ n = old[t].ptr /\ old_list = list[l]
  BY TakeHead
<1>1. /\ old_list \in Seq(Nodes) /\ old_list # <<>> /\ l \in Lists
      /\ n = old_list[1] /\ 1 \in 1 .. Len(old_list) /\ mine[t] = Null
  BY <1>0, TakeHead
<1>2. list'[l] = Tail(old_list) /\ (\A k \in Lists : k # l => list'[k] = list[k])
  BY <1>0, <1>1 DEF IInv, StackTypeOK, Take
<1>3. mine'[t] = n
  BY <1>0 DEF IInv, StackTypeOK, Take
<1>4. /\ Len(old_list) \in Nat
      /\ Len(Tail(old_list)) = Len(old_list) - 1
      /\ \A i \in 1 .. Len(Tail(old_list)) :
           i + 1 \in 1 .. Len(old_list) /\ Tail(old_list)[i] = old_list[i + 1]
  BY <1>1, TailElements
<1>5. InList(x, l) => x = n \/ InList(x, l)'
  <2> SUFFICES ASSUME NEW i \in 1 .. Len(old_list), old_list[i] = x, i # 1
               PROVE  \E j \in 1 .. Len(list'[l]) : list'[l][j] = x
    BY <1>0, <1>1 DEF InList
  <2>1. i - 1 \in 1 .. Len(Tail(old_list)) /\ (i - 1) + 1 = i
    BY <1>4
  <2>2. Tail(old_list)[i - 1] = old_list[i]
    BY <1>4, <2>1
  <2> QED
    BY <1>2, <2>1, <2>2
<1>6. InList(x, l)' => InList(x, l)
  <2> SUFFICES ASSUME NEW i \in 1 .. Len(list'[l]), list'[l][i] = x
               PROVE  \E j \in 1 .. Len(list[l]) : list[l][j] = x
    BY DEF InList
  <2> QED
    BY <1>0, <1>2, <1>4
<1>7. InList(n, l)
  BY <1>0, <1>1 DEF InList
<1>8. \A k \in Lists : k # l => (InList(x, k)' <=> InList(x, k))
  BY <1>2 DEF InList
<1>9. x # Null
  BY Numbers
<1> QED
  BY <1>1, <1>3, <1>5, <1>6, <1>7, <1>8, <1>9 DEF Around

LEMMA PutAround ==
  ASSUME IInv, NEW t \in Threads, Put(t), NEW x \in Nodes
  PROVE  Around(t, x)' <=> Around(t, x)
<1>0. mine[t] \in Nodes /\ mine[t] # Null
  BY DEF IInv, StackTypeOK, PcKnows, Has, Put, Return, Go
<1>1. PICK l \in Lists, n \in Nodes, old_list \in Seq(Nodes) :
        l = To(t) /\ n = mine[t] /\ n # Null /\ old_list = list[l]
  BY <1>0, FromTo, ListNat DEF IInv
<1>2. list'[l] = <<n>> \o old_list /\ (\A k \in Lists : k # l => list'[k] = list[k])
  BY <1>1 DEF IInv, StackTypeOK, Put
<1>3. mine'[t] = Null
  BY <1>1 DEF IInv, StackTypeOK, Put, Return
<1>4. /\ Len(old_list) \in Nat
      /\ Len(<<n>> \o old_list) = Len(old_list) + 1
      /\ (<<n>> \o old_list)[1] = n
      /\ \A i \in 1 .. Len(old_list) : (<<n>> \o old_list)[i + 1] = old_list[i]
      /\ \A i \in 2 .. Len(old_list) + 1 : (<<n>> \o old_list)[i] = old_list[i - 1]
  BY <1>1, ConsElements
<1>5. InList(x, l)' => x = n \/ InList(x, l)
  <2> SUFFICES ASSUME NEW i \in 1 .. Len(list'[l]), list'[l][i] = x, i # 1
               PROVE  \E j \in 1 .. Len(old_list) : old_list[j] = x
    BY <1>1, <1>2, <1>4 DEF InList
  <2>1. i \in 2 .. Len(old_list) + 1 /\ i - 1 \in 1 .. Len(old_list)
    BY <1>2, <1>4
  <2> QED
    BY <1>1, <1>2, <1>4, <2>1
<1>6. InList(x, l) => InList(x, l)'
  <2> SUFFICES ASSUME NEW i \in 1 .. Len(old_list), old_list[i] = x
               PROVE  \E j \in 1 .. Len(list'[l]) : list'[l][j] = x
    BY <1>1 DEF InList
  <2>1. i + 1 \in 1 .. Len(list'[l])
    BY <1>2, <1>4
  <2> QED
    BY <1>1, <1>2, <1>4, <2>1
<1>7. x = n => InList(x, l)'
  <2>1. 1 \in 1 .. Len(list'[l]) /\ list'[l][1] = n
    BY <1>2, <1>4
  <2> QED
    BY <2>1 DEF InList
<1>8. \A k \in Lists : k # l => (InList(x, k)' <=> InList(x, k))
  BY <1>2 DEF InList
<1>9. x # Null
  BY Numbers
<1> QED
  BY <1>1, <1>3, <1>5, <1>6, <1>7, <1>8, <1>9 DEF Around

Nine(t) ==
  \/ \E v \in Values : Start(t, "emplace", v)
  \/ Start(t, "pop", Raw)
  \/ Empty(t) \/ ReadNext(t) \/ Take(t) \/ TakeFails(t)
  \/ Own(t) \/ Link(t) \/ Put(t) \/ PutFails(t)

LEMMA NineInv ==
  ASSUME IInv, NEW t \in Threads, Nine(t)
  PROVE  IInv'
<1>1. CASE \E v \in Values : Start(t, "emplace", v)
  <2>1. PICK v \in Values : Start(t, "emplace", v)
    BY <1>1
  <2> QED
    BY <2>1, StartStep
<1> QED
  BY <1>1, StartStep, EmptyStep, ReadNextStep, TakeStep, TakeFailsStep, OwnStep, LinkStep,
     PutStep, PutFailsStep DEF Nine

LEMMA NineMoves ==
  ASSUME IInv, NEW t \in Threads, Nine(t)
  PROVE  /\ pc[t] \in {"idle", "read", "take", "own", "link", "put"}
         /\ pc'[t] \in {"idle", "read", "take", "own", "link", "put"}
         /\ \A u \in Threads : u # t => /\ pc'[u] = pc[u] /\ call'[u] = call[u]
                                        /\ old'[u] = old[u] /\ mine'[u] = mine[u]
                                        /\ item'[u] = item[u]
         /\ \A x \in Nodes : x # mine[t] => storage'[x] = storage[x]
         /\ \A x \in Nodes : Around(t, x)' <=> Around(t, x)
<1> USE DEF IInv, Nine
<1>1. /\ pc[t] \in {"idle", "read", "take", "own", "link", "put"}
      /\ pc'[t] \in {"idle", "read", "take", "own", "link", "put"}
  BY DEF StackTypeOK, Start, Empty, ReadNext, Take, TakeFails, Own, Link, Put, PutFails,
         Return, Go
<1>2. \A u \in Threads : u # t => pc'[u] = pc[u] /\ call'[u] = call[u] /\ item'[u] = item[u]
  BY DEF StackTypeOK, Start, Empty, ReadNext, Take, TakeFails, Own, Link, Put, PutFails,
         Return, Go
<1>3. \A u \in Threads : u # t => old'[u] = old[u] /\ mine'[u] = mine[u]
  BY DEF StackTypeOK, Start, Empty, ReadNext, Take, TakeFails, Own, Link, Put, PutFails,
         Return, Go
<1>4. \A x \in Nodes : x # mine[t] => storage'[x] = storage[x]
  BY DEF StackTypeOK, Start, Empty, ReadNext, Take, TakeFails, Own, Link, Put, PutFails
<1>5. ASSUME NEW x \in Nodes PROVE Around(t, x)' <=> Around(t, x)
  <2>1. CASE Take(t)
    BY <2>1, TakeAround
  <2>2. CASE Put(t)
    BY <2>2, PutAround
  <2>3. CASE ~Take(t) /\ ~Put(t)
    <3>1. list' = list /\ mine' = mine
      BY <2>3 DEF Start, Empty, ReadNext, TakeFails, Own, Link, PutFails
    <3> QED
      BY <3>1 DEF Around, InList
  <2> QED
    BY <2>1, <2>2, <2>3
<1> QED
  BY <1>1, <1>2, <1>3, <1>4, <1>5

LEMMA AtStackStep ==
  ASSUME EInv, NEW t \in Threads, AtStack(t)
  PROVE  EInv' /\ Nine(t)
<1> USE DEF EInv, IInv
<1>1. /\ Nine(t)
      /\ tried' = [tried EXCEPT ![t] = @ /\ pc'[t] # "idle"]
      /\ slot' = slot /\ idx' = idx /\ marked' = marked
  BY DEF AtStack, Nine, Emplace, PoolAcquire, Acquire, Pop, PoolRelease, Release, TakeSome,
         PutBack
<1>2. IInv'
  BY <1>1, NineInv
<1>3. /\ pc[t] \in {"idle", "read", "take", "own", "link", "put"}
      /\ pc'[t] \in {"idle", "read", "take", "own", "link", "put"}
      /\ \A u \in Threads : u # t => /\ pc'[u] = pc[u] /\ call'[u] = call[u]
                                     /\ old'[u] = old[u] /\ mine'[u] = mine[u]
      /\ \A x \in Nodes : x # mine[t] => storage'[x] = storage[x]
      /\ \A x \in Nodes : Around(t, x)' <=> Around(t, x)
  BY <1>1, NineMoves
<1>4. ArrayTypeOK'
  <2>1. tried \in [Threads -> BOOLEAN]
    BY DEF ArrayTypeOK
  <2>2. tried' \in [Threads -> BOOLEAN]
    BY <1>1, <2>1
  <2>3. \A u \in Threads : pc'[u] = "idle" => ~tried'[u]
    <3>1. pc'[t] = "idle" => ~tried'[t]
      BY <1>1, <2>1
    <3>2. \A u \in Threads : u # t => tried'[u] = tried[u]
      BY <1>1, <2>1
    <3> QED
      BY <1>3, <3>1, <3>2 DEF ArrayTypeOK
  <2> QED
    BY <1>1, <2>2, <2>3 DEF ArrayTypeOK
<1>5. Meeting'
  BY <1>1, <1>3 DEF Meeting
<1>6. SlotsHold'
  <2>1. ASSUME NEW s \in Slots, slot[s].ptr \in Nodes
        PROVE  /\ storage'[slot[s].ptr] \in Values
               /\ \A l \in Lists : ~InList(slot[s].ptr, l)'
               /\ \A u \in Threads : mine'[u] # slot[s].ptr
    <3>1. PICK x \in Nodes : x = slot[s].ptr
      BY <2>1
    <3>2. /\ storage[x] \in Values
          /\ \A l \in Lists : ~InList(x, l)
          /\ \A u \in Threads : mine[u] # x
      BY <2>1, <3>1 DEF SlotsHold
    <3>3. ~Around(t, x)' /\ storage'[x] \in Values
      BY <1>3, <3>2 DEF Around
    <3>4. /\ \A l \in Lists : ~InList(x, l)'
          /\ \A u \in Threads : mine'[u] # x
      BY <1>3, <3>2, <3>3 DEF Around
    <3>5. \A l \in Lists : InList(slot[s].ptr, l)' <=> InList(x, l)'
      BY <1>1, <3>1 DEF InList
    <3> QED
      BY <3>1, <3>3, <3>4, <3>5
  <2> QED
    BY <1>1, <2>1 DEF SlotsHold
<1>7. NoneLost'
  <2> SUFFICES ASSUME NEW x \in Nodes
               PROVE  \/ \E l \in Lists : InList(x, l)'
                      \/ \E s \in Slots : slot'[s].ptr = x
                      \/ \E u \in Threads : mine'[u] = x
    BY DEF NoneLost, InList
  <2>1. CASE Around(t, x)
    BY <1>3, <2>1 DEF Around
  <2>2. CASE ~Around(t, x)
    BY <1>1, <1>3, <2>2 DEF Around, NoneLost
  <2> QED
    BY <2>1, <2>2
<1>8. MarkerHasPopper'
  BY <1>1, <1>3, MarkersStay
<1> QED
  BY <1>1, <1>2, <1>4, <1>5, <1>6, <1>7, <1>8

-----------------------------------------------------------------------------
(* The theorems about the elimination stack.                               *)

LEMMA EStepInv ==
  ASSUME EInv, [ENext]_allVars
  PROVE  EInv'
<1>1. CASE ENext
  <2>1. PICK t \in Threads :
          AtStack(t) \/ TryEliminatePush(t) \/ TryEliminatePop(t) \/ Reload(t)
    BY <1>1 DEF ENext
  <2>2. CASE Collect(t)
    BY <2>2, FetchStep, GivesUpStep
  <2> QED
    BY <2>1, <2>2, AtStackStep, LooksStep, OfferStep, GivesUpStep, AnswerStep, FetchStep
    DEF TryEliminatePush, TryEliminatePop
<1>2. CASE UNCHANGED allVars
  BY <1>2
  DEF allVars, evars, vars, EInv, IInv, StackTypeOK, ListsIntact, OneOwner, StorageLives,
      PcKnows, TakeKnows, PutKnows, At, InList, From, Has, ArrayTypeOK, Meeting, SlotsHold,
      NoneLost, MarkerHasPopper
<1> QED
  BY <1>1, <1>2

\* The invariant of the stack with its array holds throughout.
THEOREM EInvariance == ESpec => []EInv
BY EInitInv, EStepInv, PTL DEF ESpec

\* The variables of the stack and of the array keep their types.
THEOREM ETypeCorrect == ESpec => []ETypeOK
<1>1. EInv => ETypeOK
  BY DEF EInv, IInv, StackTypeOK, ArrayTypeOK, PcKnows, Has, ETypeOK
<1> QED
  BY <1>1, EInvariance, PTL

\* The stack and the free list stay intact also while nodes change hands in the
\* array, past both lists.
THEOREM ArrayKeepsLists == ESpec => []ListsIntact
BY EInvariance, PTL DEF EInv, IInv

\* An element lives in each node of the stack and in none of the pool, also when
\* it has come through the array.
THEOREM ArrayKeepsElements == ESpec => []StorageLives
BY EInvariance, PTL DEF EInv, IInv

-----------------------------------------------------------------------------
(* Each node is counted once.                                              *)

LEMMA AtMostOne ==
  ASSUME NEW A, \A x, y \in A : x = y
  PROVE  Cardinality(A) = IF A = {} THEN 0 ELSE 1
<1>1. CASE A = {}
  BY <1>1, FS_EmptySet
<1>2. ASSUME NEW x \in A PROVE Cardinality(A) = 1
  <2>1. A = {x}
    OBVIOUS
  <2> QED
    BY <2>1, FS_Singleton
<1> QED
  BY <1>1, <1>2

LEMMA CountedOnce ==
  ASSUME EInv
  PROVE  EachNodeOnce
<1> SUFFICES ASSUME NEW n \in Nodes
             PROVE  Cardinality({i \in DOMAIN list["stack"] : list["stack"][i] = n})
                      + Cardinality({i \in DOMAIN list["pool"] : list["pool"][i] = n})
                      + Cardinality({s \in Slots : slot[s].ptr = n})
                      + Cardinality({t \in Threads : mine[t] = n}) = 1
  BY DEF EachNodeOnce
<1> DEFINE A == {i \in DOMAIN list["stack"] : list["stack"][i] = n}
           B == {i \in DOMAIN list["pool"] : list["pool"][i] = n}
           C == {s \in Slots : slot[s].ptr = n}
           D == {t \in Threads : mine[t] = n}
<1>1. "stack" \in Lists /\ "pool" \in Lists /\ n # Null
  BY Numbers DEF Lists
<1>2. /\ DOMAIN list["stack"] = 1 .. Len(list["stack"])
      /\ DOMAIN list["pool"] = 1 .. Len(list["pool"])
  BY <1>1, ListNat, LenProperties DEF EInv, IInv
<1>3. /\ A # {} <=> InList(n, "stack")
      /\ B # {} <=> InList(n, "pool")
      /\ C # {} <=> \E s \in Slots : slot[s].ptr = n
      /\ D # {} <=> \E t \in Threads : mine[t] = n
  BY <1>2 DEF InList
<1>4. (\A i, j \in A : i = j) /\ (\A i, j \in B : i = j)
  BY <1>1, <1>2 DEF EInv, IInv, OneOwner
<1>5. (\A r, s \in C : r = s) /\ (\A t, u \in D : t = u)
  BY <1>1 DEF EInv, IInv, OneOwner, SlotsHold
<1>6. /\ Cardinality(A) = IF A = {} THEN 0 ELSE 1
      /\ Cardinality(B) = IF B = {} THEN 0 ELSE 1
      /\ Cardinality(C) = IF C = {} THEN 0 ELSE 1
      /\ Cardinality(D) = IF D = {} THEN 0 ELSE 1
  <2> HIDE DEF A, B, C, D
  <2> QED
    BY <1>4, <1>5, AtMostOne
<1>7. /\ ~(InList(n, "stack") /\ InList(n, "pool"))
      /\ D # {} => ~InList(n, "stack") /\ ~InList(n, "pool")
  BY <1>1 DEF EInv, IInv, OneOwner
<1>8. C # {} => /\ ~InList(n, "stack") /\ ~InList(n, "pool")
                /\ D = {}
  BY <1>1 DEF EInv, SlotsHold
<1>9. InList(n, "stack") \/ InList(n, "pool") \/ C # {} \/ D # {}
  BY DEF EInv, NoneLost, Lists
<1> HIDE DEF A, B, C, D
<1>10. Cardinality(A) + Cardinality(B) + Cardinality(C) + Cardinality(D) = 1
  BY <1>3, <1>6, <1>7, <1>8, <1>9
<1> QED
  BY <1>10 DEF A, B, C, D

\* A node is at one place at a time, in a list, in a slot or with a thread, and
\* a marker in the array is that of a popper that is still there: also when the
\* popper takes it back while a pusher answers it.
THEOREM EliminationExact == ESpec => []EliminationIsExact
<1>1. EInv => EliminationIsExact
  BY CountedOnce DEF EInv, EliminationIsExact
<1> QED
  BY <1>1, EInvariance, PTL
-----------------------------------------------------------------------------
(* The elements: what ElementStack sees of the lists, the slots and the    *)
(* threads.                                                                *)

Stacked == [i \in 1 .. Len(list["stack"]) |-> storage[list["stack"][i]]]
Parked == [s \in Slots |-> IF slot[s].ptr \in Nodes THEN storage[slot[s].ptr] ELSE Raw]
Hands == [t \in Threads |-> Hand(t)]

LEMMA SameStacked ==
  ASSUME StackTypeOK, list'["stack"] = list["stack"],
         \A x \in Nodes : InList(x, "stack") => storage'[x] = storage[x]
  PROVE  Stacked' = Stacked
<1>1. \A i \in 1 .. Len(list["stack"]) :
        list["stack"][i] \in Nodes /\ InList(list["stack"][i], "stack")
  BY ListNat DEF Lists, InList
<1> QED
  BY <1>1 DEF Stacked

LEMMA SameParked ==
  ASSUME \A s \in Slots :
           \/ /\ slot'[s].ptr = slot[s].ptr
              /\ slot[s].ptr \in Nodes => storage'[slot[s].ptr] = storage[slot[s].ptr]
           \/ slot'[s].ptr \notin Nodes /\ slot[s].ptr \notin Nodes
  PROVE  Parked' = Parked
<1>1. \A s \in Slots : (IF slot'[s].ptr \in Nodes THEN storage'[slot'[s].ptr] ELSE Raw)
                         = (IF slot[s].ptr \in Nodes THEN storage[slot[s].ptr] ELSE Raw)
  OBVIOUS
<1> QED
  BY <1>1 DEF Parked

LEMMA OtherHands ==
  ASSUME EInv, NEW t \in Threads,
         \A u \in Threads : u # t => /\ pc'[u] = pc[u] /\ call'[u] = call[u]
                                     /\ mine'[u] = mine[u] /\ item'[u] = item[u],
         \A x \in Nodes : x # mine[t] => storage'[x] = storage[x]
  PROVE  /\ \A u \in Threads : u # t => Hand(u)' = Hand(u)
         /\ Hand(t)' = Hand(t) => Hands' = Hands
         /\ Hands' = [Hands EXCEPT ![t] = Hand(t)']
<1>1. ASSUME NEW u \in Threads, u # t PROVE Hand(u)' = Hand(u)
  <2>1. mine[u] # Null => mine[u] \in Nodes /\ mine[u] # mine[t]
    BY <1>1, Numbers DEF EInv, IInv, OneOwner, StackTypeOK
  <2> QED
    BY <1>1, <2>1 DEF Hand
<1> QED
  BY <1>1 DEF Hands

LEMMA TailIsShift ==
  ASSUME NEW S, NEW q \in Seq(S), q # <<>>
  PROVE  Tail(q) = [i \in 1 .. Len(q) - 1 |-> q[i + 1]]
<1>1. /\ Tail(q) \in Seq(S) /\ Len(q) \in Nat \ {0} /\ Len(Tail(q)) = Len(q) - 1
      /\ \A i \in 1 .. Len(Tail(q)) : Tail(q)[i] = q[i + 1]
  BY TailElements
<1>2. Tail(q) \in [1 .. Len(Tail(q)) -> S]
  BY <1>1, LenProperties
<1> QED
  BY <1>1, <1>2

LEMMA NothingSeen ==
  ASSUME Stacked' = Stacked, Parked' = Parked, Hands' = Hands
  PROVE  UNCHANGED Elements!vars
BY DEF Elements!vars, Stacked, Parked, Hands

\* At the array, whoever gives and takes no node shows nothing.
LEMMA LocalUnseen ==
  ASSUME EInv, NEW t \in Threads,
         list' = list, storage' = storage, mine' = mine, item' = item, call' = call,
         \A u \in Threads : u # t => pc'[u] = pc[u],
         call[t] = "emplace" \/ mine[t] = Null,
         \A s \in Slots : \/ slot'[s].ptr = slot[s].ptr
                          \/ slot'[s].ptr \notin Nodes /\ slot[s].ptr \notin Nodes
  PROVE  UNCHANGED Elements!vars
<1>1. Stacked' = Stacked
  BY DEF Stacked
<1>2. Parked' = Parked
  BY SameParked
<1>3. Hand(t)' = Hand(t)
  BY DEF Hand
<1>4. Hands' = Hands
  BY <1>3, OtherHands
<1> QED
  BY <1>1, <1>2, <1>4, NothingSeen
\* A step of the stack's own that is neither a pop's compare-exchange nor the
\* end of a call shows nothing.
LEMMA StackUnseen ==
  ASSUME EInv, NEW t \in Threads, Nine(t), slot' = slot,
         ~Put(t), ~(Take(t) /\ call[t] = "pop")
  PROVE  UNCHANGED Elements!vars
<1> USE DEF EInv, IInv
<1>1. /\ \A u \in Threads : u # t => /\ pc'[u] = pc[u] /\ call'[u] = call[u]
                                     /\ mine'[u] = mine[u] /\ item'[u] = item[u]
      /\ \A x \in Nodes : x # mine[t] => storage'[x] = storage[x]
  BY NineMoves
<1>2. storage' # storage => mine[t] # Null
  BY DEF Nine, Start, Empty, ReadNext, Take, TakeFails, Own, Link, PutFails, Go, PcKnows, Has
<1>3. Stacked' = Stacked
  <2>1. list'["stack"] = list["stack"]
    BY DEF Nine, Start, Empty, ReadNext, Take, TakeFails, Own, Link, PutFails, Go, From,
           StackTypeOK, Lists, PcKnows
  <2>2. \A x \in Nodes : InList(x, "stack") => storage'[x] = storage[x]
    BY <1>1, <1>2 DEF OneOwner, Lists
  <2> QED
    BY <2>1, <2>2, SameStacked
<1>4. Parked' = Parked
  BY <1>1, SameParked DEF SlotsHold
<1>5. Hand(t)' = Hand(t)
  <2>1. CASE Own(t)
    <3>1. /\ pc[t] = "own" /\ pc'[t] = "link" /\ call' = call /\ mine' = mine
          /\ call[t] = "pop" => item'[t] = storage[mine[t]]
      BY <2>1 DEF Own, Go, StackTypeOK
    <3> QED
      BY <3>1 DEF Hand
  <2>2. CASE Link(t) \/ PutFails(t)
    <3>1. /\ pc[t] # "own" /\ pc'[t] # "own" /\ call' = call /\ mine' = mine
          /\ item' = item
      BY <2>2 DEF Link, PutFails, Go, StackTypeOK
    <3> QED
      BY <3>1 DEF Hand
  <2>3. CASE Take(t)
    BY <2>3 DEF Take, Hand
  <2>4. CASE ~(Own(t) \/ Link(t) \/ PutFails(t) \/ Take(t))
    <3>1. mine[t] = Null /\ mine' = mine
      BY <2>4 DEF Nine, Start, Empty, ReadNext, TakeFails, Go, PcKnows, Has
    <3> QED
      BY <3>1 DEF Hand
  <2> QED
    BY <2>1, <2>2, <2>3, <2>4
<1> QED
  BY <1>1, <1>3, <1>4, <1>5, OtherHands, NothingSeen

\* The compare-exchange of a pop takes the top element.
LEMMA PopTakes ==
  ASSUME EInv, NEW t \in Threads, Take(t), call[t] = "pop", slot' = slot
  PROVE  Elements!Take(t)
<1> USE DEF EInv, IInv
<1>1. From(t) = "stack" /\ "stack" \in Lists
  BY DEF From, Lists
<1>2. /\ list["stack"] \in Seq(Nodes) /\ list["stack"] # <<>>
      /\ 1 \in 1 .. Len(list["stack"]) /\ mine[t] = Null
      /\ old[t].ptr = list["stack"][1] /\ old[t].ptr \in Nodes
  BY <1>1, TakeHead
<1>3. /\ pc'[t] = "own" /\ call' = call /\ storage' = storage /\ item' = item
      /\ mine'[t] = list["stack"][1] /\ list'["stack"] = Tail(list["stack"])
  BY <1>1, <1>2 DEF Take, Go, StackTypeOK
<1>4. /\ Len(list["stack"]) \in Nat \ {0}
      /\ Len(Tail(list["stack"])) = Len(list["stack"]) - 1
      /\ \A i \in 1 .. Len(Tail(list["stack"])) : Tail(list["stack"])[i] = list["stack"][i + 1]
  BY <1>2, TailElements
<1>5. Stacked # <<>> /\ Head(Stacked) = storage[list["stack"][1]] /\ Stacked' = Tail(Stacked)
  <2>1. /\ Stacked' = [i \in 1 .. Len(list["stack"]) - 1 |-> storage[Tail(list["stack"])[i]]]
    BY <1>3, <1>4 DEF Stacked
  <2>2. \A i \in 1 .. Len(list["stack"]) :
          list["stack"][i] \in Nodes /\ storage[list["stack"][i]] \in Values \cup {Raw}
    BY <1>1, ListNat DEF StackTypeOK
  <2>3. /\ Stacked \in Seq(Values \cup {Raw}) /\ Len(Stacked) = Len(list["stack"])
        /\ Stacked[1] = storage[list["stack"][1]]
    BY <1>2, <1>4, <2>2 DEF Stacked
  <2>4. Stacked # <<>> /\ Head(Stacked) = Stacked[1]
    BY <1>4, <2>3
  <2>5. Tail(Stacked) = [i \in 1 .. Len(Stacked) - 1 |-> Stacked[i + 1]]
    BY <2>3, <2>4, TailIsShift
  <2>6. \A i \in 1 .. Len(list["stack"]) - 1 :
          storage[Tail(list["stack"])[i]] = Stacked[i + 1]
    BY <1>4 DEF Stacked
  <2> QED
    BY <2>1, <2>3, <2>4, <2>5, <2>6
<1>6. Parked' = Parked
  BY <1>3 DEF Parked
<1>7. Hands[t] = Raw /\ Hand(t)' = storage[list["stack"][1]]
  BY <1>2, <1>3, Numbers DEF Hand, Hands
<1>8. Hands' = [Hands EXCEPT ![t] = Hand(t)']
  <2>1. \A u \in Threads : u # t => /\ pc'[u] = pc[u] /\ call'[u] = call[u]
                                    /\ mine'[u] = mine[u] /\ item'[u] = item[u]
    BY NineMoves DEF Nine
  <2> QED
    BY <1>3, <2>1, OtherHands
<1> QED
  BY <1>5, <1>6, <1>7, <1>8 DEF Elements!Take, Stacked, Parked, Hands

\* The compare-exchange that ends an emplace pushes its element; the one that
\* gives the pool a node back ends the pop, which returns the element.
LEMMA PutPushesOrReturns ==
  ASSUME EInv, NEW t \in Threads, Put(t), slot' = slot
  PROVE  \/ call[t] = "emplace" /\ \E v \in Values : Elements!Push(v)
         \/ call[t] = "pop" /\ Elements!Return(t)
<1> USE DEF EInv, IInv
<1>1. /\ pc[t] = "put" /\ pc'[t] = "idle" /\ mine'[t] = Null /\ storage' = storage
      /\ mine[t] \in Nodes /\ call[t] \in {"emplace", "pop"}
  BY DEF Put, Return, Go, StackTypeOK, PcKnows, Has
<1>2. Parked' = Parked
  BY <1>1 DEF Parked
<1>3. Hand(t)' = Raw
  BY <1>1 DEF Hand
<1>4. /\ Hand(t)' = Hand(t) => Hands' = Hands
      /\ Hands' = [Hands EXCEPT ![t] = Raw]
  <2>1. \A u \in Threads : u # t => /\ pc'[u] = pc[u] /\ call'[u] = call[u]
                                    /\ mine'[u] = mine[u] /\ item'[u] = item[u]
    BY NineMoves DEF Nine
  <2> QED
    BY <1>1, <1>3, <2>1, OtherHands
<1>5. CASE call[t] = "emplace"
  <2>1. "stack" \in Lists /\ To(t) = "stack"
    BY <1>5 DEF To, Lists
  <2>2. /\ list["stack"] \in Seq(Nodes)
        /\ list'["stack"] = <<mine[t]>> \o list["stack"]
        /\ storage[mine[t]] \in Values
    BY <1>1, <1>5, <2>1 DEF Put, StackTypeOK, PutKnows
  <2>3. /\ Len(list["stack"]) \in Nat
        /\ Len(<<mine[t]>> \o list["stack"]) = Len(list["stack"]) + 1
        /\ (<<mine[t]>> \o list["stack"])[1] = mine[t]
        /\ \A i \in 2 .. Len(list["stack"]) + 1 :
             (<<mine[t]>> \o list["stack"])[i] = list["stack"][i - 1]
    BY <1>1, <2>2, ConsElements
  <2>4. Stacked' = <<storage[mine[t]]>> \o Stacked
    <3>1. Stacked' = [i \in 1 .. Len(list["stack"]) + 1 |->
                        storage[(<<mine[t]>> \o list["stack"])[i]]]
      BY <1>1, <2>2, <2>3 DEF Stacked
    <3>2. \A i \in 1 .. Len(list["stack"]) :
            list["stack"][i] \in Nodes /\ storage[list["stack"][i]] \in Values \cup {Raw}
      BY <2>1, ListNat DEF StackTypeOK
    <3>3. Stacked \in Seq(Values \cup {Raw}) /\ Len(Stacked) = Len(list["stack"])
      BY <2>3, <3>2 DEF Stacked
    <3>4. <<storage[mine[t]]>> \o Stacked
            = [i \in 1 .. Len(list["stack"]) + 1 |->
                 IF i = 1 THEN storage[mine[t]] ELSE Stacked[i - 1]]
      BY <2>2, <2>3, <3>3
    <3>5. \A i \in 1 .. Len(list["stack"]) + 1 :
            storage[(<<mine[t]>> \o list["stack"])[i]]
              = IF i = 1 THEN storage[mine[t]] ELSE Stacked[i - 1]
      BY <2>3 DEF Stacked
    <3> QED
      BY <3>1, <3>4, <3>5
  <2>5. Hand(t) = Raw
    BY <1>5 DEF Hand
  <2> QED
    BY <1>2, <1>3, <1>4, <1>5, <2>2, <2>4, <2>5 DEF Elements!Push, Stacked, Parked, Hands
<1>6. CASE call[t] = "pop"
  <2>1. list'["stack"] = list["stack"]
    BY <1>6 DEF Put, To, StackTypeOK, Lists
  <2>2. Stacked' = Stacked
    BY <1>1, <2>1 DEF Stacked
  <2>3. Hand(t) = item[t] /\ item[t] # Raw
    BY <1>1, <1>6, Numbers, TreiberStackAssumption DEF Hand, PutKnows
  <2> QED
    BY <1>2, <1>4, <1>6, <2>2, <2>3 DEF Elements!Return, Stacked, Parked, Hands
<1> QED
  BY <1>1, <1>5, <1>6
\* A pusher that answers a marker parks its element in the slot.
LEMMA AnswerParks ==
  ASSUME EInv, NEW t \in Threads, Answer(t)
  PROVE  \E v \in Values : Elements!Park(idx[t], v)
<1> USE DEF EInv, IInv
<1>1. /\ pc[t] = "answer" /\ call[t] = "emplace" /\ mine'[t] = Null
      /\ slot[idx[t]].ptr = Marker
      /\ slot' = [slot EXCEPT ![idx[t]] = [ptr |-> mine[t], tag |-> old[t].tag + 1]]
      /\ storage' = storage /\ list' = list
      /\ \A u \in Threads : u # t => /\ pc'[u] = pc[u] /\ call'[u] = call[u]
                                     /\ mine'[u] = mine[u] /\ item'[u] = item[u]
  BY DEF Answer, Swap, Slot, NewHead, Return, Go, Meeting, StackTypeOK
<1>2. /\ mine[t] \in Nodes /\ storage[mine[t]] \in Values
      /\ idx[t] \in Slots /\ slot \in [Slots -> TaggedSlot]
  BY <1>1 DEF PcKnows, Has, StackTypeOK, PutKnows, ArrayTypeOK
<1>3. Stacked' = Stacked
  BY <1>1 DEF Stacked
<1>4. Hands' = Hands
  <2>1. Hand(t)' = Hand(t)
    BY <1>1, Numbers DEF Hand
  <2> QED
    BY <1>1, <2>1, OtherHands
<1>5. Parked[idx[t]] = Raw
  BY <1>1, <1>2, MarkerIsNoNode DEF Parked
<1>6. Parked' = [Parked EXCEPT ![idx[t]] = storage[mine[t]]]
  <2>1. /\ slot'[idx[t]].ptr = mine[t]
        /\ \A s \in Slots : s # idx[t] => slot'[s] = slot[s]
    BY <1>1, <1>2
  <2>2. \A s \in Slots :
          (IF slot'[s].ptr \in Nodes THEN storage[slot'[s].ptr] ELSE Raw)
            = IF s = idx[t] THEN storage[mine[t]] ELSE Parked[s]
    BY <1>2, <2>1 DEF Parked
  <2> QED
    BY <1>1, <1>2, <2>2 DEF Parked
<1> QED
  BY <1>2, <1>3, <1>4, <1>5, <1>6 DEF Elements!Park, Stacked, Parked, Hands

\* A popper that empties a slot with a node in it fetches what is parked there.
LEMMA LeaveFetches ==
  ASSUME EInv, NEW t \in Threads, Claim(t) \/ (Collect(t) /\ old[t].ptr # Null)
  PROVE  \E p \in Slots : Elements!Fetch(t, p)
<1> USE DEF EInv, IInv
<1>1. /\ pc'[t] = "own" /\ call[t] = "pop" /\ call' = call /\ item' = item
      /\ slot[idx[t]] = old[t] /\ old[t].ptr \in Nodes /\ mine[t] = Null
      /\ mine' = [mine EXCEPT ![t] = old[t].ptr]
      /\ slot' = [slot EXCEPT ![idx[t]] = [ptr |-> Null, tag |-> old[t].tag + 1]]
      /\ storage' = storage /\ list' = list
      /\ \A u \in Threads : u # t => pc'[u] = pc[u]
  <2>1. old[t].ptr \in Nodes \cup {Null, Marker}
    BY DEF StackTypeOK, TaggedSlot
  <2>2. pc[t] = "collect" => old[t].ptr # Marker
    BY DEF Meeting
  <2>3. mine[t] = Null
    BY DEF Claim, Collect, Leave, GiveUp, Go, PcKnows, Has
  <2> QED
    BY <2>1, <2>2, <2>3
    DEF Claim, Collect, Leave, GiveUp, Swap, Slot, NewHead, Go, Meeting, StackTypeOK
<1>2. PICK n \in Nodes, p \in Slots :
        /\ n = old[t].ptr /\ p = idx[t] /\ slot[p].ptr = n /\ n # Null
        /\ storage[n] \in Values
  BY <1>1, Numbers DEF SlotsHold, ArrayTypeOK
<1>3. /\ mine'[t] = n
      /\ \A u \in Threads : u # t => mine'[u] = mine[u]
  BY <1>1, <1>2 DEF StackTypeOK
<1>4. Stacked' = Stacked
  BY <1>1 DEF Stacked
<1>5. Hands[t] = Raw /\ Hand(t)' = storage[n]
  BY <1>1, <1>2, <1>3 DEF Hands, Hand
<1>6. Hands' = [Hands EXCEPT ![t] = storage[n]]
  BY <1>1, <1>3, <1>5, OtherHands
<1>7. Parked[p] = storage[n] /\ storage[n] # Raw
  BY <1>2, TreiberStackAssumption DEF Parked
<1>8. Parked' = [Parked EXCEPT ![p] = Raw]
  <2>1. /\ slot'[p].ptr \notin Nodes
        /\ \A s \in Slots : s # p => slot'[s] = slot[s]
    BY <1>1, <1>2, Numbers DEF ArrayTypeOK
  <2>2. \A s \in Slots :
          (IF slot'[s].ptr \in Nodes THEN storage[slot'[s].ptr] ELSE Raw)
            = IF s = p THEN Raw ELSE Parked[s]
    BY <1>2, <2>1 DEF Parked
  <2> QED
    BY <1>1, <1>2, <2>2, ZenonT(40) DEF Parked
<1> QED
  BY <1>2, <1>4, <1>5, <1>6, <1>7, <1>8 DEF Elements!Fetch, Stacked, Parked, Hands

\* Every other step at the array shows nothing.
LEMMA ArrayUnseen ==
  ASSUME EInv, NEW t \in Threads,
         \/ Reload(t) \/ MeetPopper(t) \/ AnswerFails(t) \/ MeetPusher(t)
         \/ ClaimFails(t) \/ OfferFails(t) \/ Look(t) \/ CollectFails(t)
         \/ Offer(t) \/ Withdraw(t) \/ (Collect(t) /\ old[t].ptr = Null)
  PROVE  UNCHANGED Elements!vars
<1> USE DEF EInv, IInv
<1>1. /\ list' = list /\ storage' = storage /\ mine' = mine /\ item' = item /\ call' = call
      /\ \A u \in Threads : u # t => pc'[u] = pc[u]
  BY DEF Reload, MeetPopper, AnswerFails, MeetPusher, ClaimFails, OfferFails, Look,
         CollectFails, Offer, Withdraw, Collect, Leave, GiveUp, See, Go, StackTypeOK
<1>2. call[t] = "emplace" \/ mine[t] = Null
  BY DEF Reload, MeetPopper, AnswerFails, MeetPusher, ClaimFails, OfferFails, Look,
         CollectFails, Offer, Withdraw, Collect, Leave, GiveUp, See, Go, StackTypeOK,
         PcKnows, Has, Meeting
<1>3. \A s \in Slots : \/ slot'[s].ptr = slot[s].ptr
                       \/ slot'[s].ptr \notin Nodes /\ slot[s].ptr \notin Nodes
  <2>1. CASE Offer(t)
    BY <2>1, Numbers, MarkerIsNoNode
    DEF Offer, Swap, Slot, NewHead, Go, Meeting, ArrayTypeOK
  <2>2. CASE Collect(t) /\ old[t].ptr = Null
    BY <2>2, Numbers DEF Collect, Swap, Slot, NewHead, ArrayTypeOK
  <2>3. CASE Withdraw(t)
    <3>1. /\ marked[t].ptr = Marker /\ slot \in [Slots -> TaggedSlot] /\ idx[t] \in Slots
          /\ \/ slot' = slot
             \/ /\ slot[idx[t]] = marked[t]
                /\ slot' = [slot EXCEPT ![idx[t]] = [ptr |-> Null, tag |-> @.tag + 1]]
      BY <2>3 DEF Withdraw, Slot, GiveUp, Go, Meeting, ArrayTypeOK
    <3> QED
      BY <3>1, Numbers, MarkerIsNoNode
  <2>4. CASE \/ Reload(t) \/ MeetPopper(t) \/ AnswerFails(t) \/ MeetPusher(t)
             \/ ClaimFails(t) \/ OfferFails(t) \/ Look(t) \/ CollectFails(t)
    BY <2>4 DEF Reload, MeetPopper, AnswerFails, MeetPusher, ClaimFails, OfferFails, Look,
                CollectFails, evars
  <2> QED
    BY <2>1, <2>2, <2>3, <2>4
<1> QED
  BY <1>1, <1>2, <1>3, LocalUnseen

\* A compare-exchange at the stack pushes or takes, one at the array parks or
\* fetches, the end of a pop returns, and all other accesses are invisible:
\* elements leave the stack from its top, or the slot where they were parked,
\* each to one pop, which returns it unchanged.
THEOREM StackIsExact == ESpec => ImplementsElements
<1>1. EInit => Elements!Init
  <2> SUFFICES ASSUME EInit PROVE Elements!Init
    OBVIOUS
  <2>1. Stacked = <<>>
    BY DEF Stacked, EInit, Init, Lists
  <2>2. Parked = [p \in Slots |-> Raw]
    BY Numbers DEF Parked, EInit
  <2>3. Hands = [t \in Threads |-> Raw]
    BY DEF Hands, Hand, EInit, Init
  <2> QED
    BY <2>1, <2>2, <2>3 DEF Elements!Init, Stacked, Parked, Hands
<1>2. EInv /\ [ENext]_allVars => [Elements!Next]_Elements!vars
  <2> SUFFICES ASSUME EInv, [ENext]_allVars PROVE [Elements!Next]_Elements!vars
    OBVIOUS
  <2>1. ASSUME NEW t \in Threads, AtStack(t) PROVE [Elements!Next]_Elements!vars
    <3>1. Nine(t) /\ slot' = slot
      BY <2>1, AtStackStep DEF AtStack
    <3>2. CASE Take(t) /\ call[t] = "pop"
      BY <3>1, <3>2, PopTakes DEF Elements!Next
    <3>3. CASE Put(t)
      BY <3>1, <3>3, PutPushesOrReturns DEF Elements!Next
    <3> QED
      BY <3>1, <3>2, <3>3, StackUnseen
  <2>2. ASSUME NEW t \in Threads,
               TryEliminatePush(t) \/ TryEliminatePop(t) \/ Reload(t)
        PROVE  [Elements!Next]_Elements!vars
    <3>1. idx[t] \in Slots
      BY DEF EInv, ArrayTypeOK
    <3>2. CASE Answer(t)
      BY <3>1, <3>2, AnswerParks DEF Elements!Next
    <3>3. CASE Claim(t) \/ (Collect(t) /\ old[t].ptr # Null)
      BY <3>3, LeaveFetches DEF Elements!Next
    <3>4. CASE \/ Reload(t) \/ MeetPopper(t) \/ AnswerFails(t) \/ MeetPusher(t)
               \/ ClaimFails(t) \/ OfferFails(t) \/ Look(t) \/ CollectFails(t)
               \/ Offer(t) \/ Withdraw(t) \/ (Collect(t) /\ old[t].ptr = Null)
      BY <3>4, ArrayUnseen
    <3> QED
      BY <2>2, <3>2, <3>3, <3>4 DEF TryEliminatePush, TryEliminatePop
  <2>3. CASE UNCHANGED allVars
    BY <2>3, NothingSeen DEF allVars, vars, evars, Stacked, Parked, Hands, Hand
  <2> QED
    BY <2>1, <2>2, <2>3 DEF ENext
<1> QED
  BY <1>1, <1>2, EInvariance, PTL DEF ESpec, ImplementsElements, Elements!Spec
=============================================================================
