---------------------------- MODULE TreiberStack ----------------------------
(***************************************************************************)
(* The lock-free stack of concurrent/11-unlock-stack/treiber_stack.cc and  *)
(* the pool its nodes come from.  The stack and the free list of the pool  *)
(* are two linked lists of the same shape: a head with a tag, changed by   *)
(* compare-exchange, over nodes that are used again and again.  A call     *)
(* takes a node from one list and puts it on the other: emplace takes from *)
(* the pool, constructs an element in the node and puts it on the stack;   *)
(* pop takes from the stack, moves the element out and puts the node back. *)
(*                                                                         *)
(* One action per access to shared memory.  Between the load of a head and *)
(* the compare-exchange the node may be taken, used and put back by other  *)
(* threads; the thread still reads its _next.  compare_exchange_weak may   *)
(* fail for no reason.  A relaxed load that returns an older head than the *)
(* current one makes the compare-exchange fail, or a call report a list    *)
(* empty that was.  The tag is wide enough never to come round.            *)
(***************************************************************************)
EXTENDS Integers, Sequences

CONSTANTS
  Threads,    \* the callers of emplace and pop
  Values,     \* the elements
  Raw,        \* what a node's storage holds when no element lives there
  Capacity,   \* the template argument: how many nodes there are
  MaxCalls    \* bound: how many calls may start

ASSUME TreiberStackAssumption ==
  /\ Capacity \in Nat \ {0}
  /\ MaxCalls \in Nat
  /\ Raw \notin Values

Nodes == 1 .. Capacity
Null == 0
Lists == {"stack", "pool"}

VARIABLES
  top,        \* the two _head: a node or Null, and the tag
  next,       \* _next of each node
  storage,    \* _storage of each node: an element or Raw
  call,       \* what each thread is calling
  pc,         \* where it is in that call
  old,        \* its old_head
  after,      \* its new_head._ptr while it takes a node
  mine,       \* the node it has taken and not put yet, or Null
  item,       \* the argument of its emplace; the value its pop has moved out
  calls,      \* how many calls have started
  list        \* history: the nodes of each list, the top first

vars == <<top, next, storage, call, pc, old, after, mine, item, calls, list>>

Init ==
  /\ top = [l \in Lists |-> [ptr |-> IF l = "pool" THEN 1 ELSE Null, tag |-> 0]]
  /\ next = [n \in Nodes |-> IF n < Capacity THEN n + 1 ELSE Null]
  /\ storage = [n \in Nodes |-> Raw]
  /\ call = [t \in Threads |-> "none"]
  /\ pc = [t \in Threads |-> "idle"]
  /\ old = [t \in Threads |-> [ptr |-> Null, tag |-> 0]]
  /\ after = [t \in Threads |-> Null]
  /\ mine = [t \in Threads |-> Null]
  /\ item = [t \in Threads |-> Raw]
  /\ calls = 0
  /\ list = [l \in Lists |-> IF l = "pool" THEN [i \in 1 .. Capacity |-> i] ELSE <<>>]

-----------------------------------------------------------------------------
(* What acquire, release, emplace and pop have in common.                  *)

\* The list a call takes a node from, and the one it puts it on.
From(t) == IF call[t] = "emplace" THEN "pool" ELSE "stack"
To(t) == IF call[t] = "emplace" THEN "stack" ELSE "pool"

\* Mutant: the tag stays, so that the pointer alone is compared.
NewHead_SameTag(t, n) == [ptr |-> n, tag |-> old[t].tag]

NewHead(t, n) == [ptr |-> n, tag |-> old[t].tag + 1]

Go(t, from, to) == pc[t] = from /\ pc' = [pc EXCEPT ![t] = to]

Start(t, c, v) ==
  /\ calls < MaxCalls
  /\ Go(t, "idle", "read")
  /\ calls' = calls + 1
  /\ call' = [call EXCEPT ![t] = c]
  /\ item' = [item EXCEPT ![t] = v]
  /\ old' = [old EXCEPT ![t] = top[IF c = "emplace" THEN "pool" ELSE "stack"]]
  /\ UNCHANGED <<top, next, storage, after, mine, list>>

\* The list to take from is empty: emplace returns false, pop nothing.
Empty(t) ==
  /\ old[t].ptr = Null
  /\ Go(t, "read", "idle")
  /\ call' = [call EXCEPT ![t] = "none"]
  /\ item' = [item EXCEPT ![t] = Raw]
  /\ UNCHANGED <<top, next, storage, old, after, mine, calls, list>>

ReadNext(t) ==
  /\ old[t].ptr # Null
  /\ Go(t, "read", "take")
  /\ after' = [after EXCEPT ![t] = next[old[t].ptr]]
  /\ UNCHANGED <<top, next, storage, call, old, mine, item, calls, list>>

Take(t) ==
  /\ top[From(t)] = old[t]
  /\ Go(t, "take", "own")
  /\ top' = [top EXCEPT ![From(t)] = NewHead(t, after[t])]
  /\ mine' = [mine EXCEPT ![t] = old[t].ptr]
  /\ list' = [list EXCEPT ![From(t)] = Tail(@)]
  /\ UNCHANGED <<next, storage, call, old, after, item, calls>>

TakeFails(t) ==
  /\ Go(t, "take", "read")
  /\ old' = [old EXCEPT ![t] = top[From(t)]]
  /\ UNCHANGED <<top, next, storage, call, after, mine, item, calls, list>>

\* Mutant: the element is moved out and not destroyed.
Own_NoDestroy(t) ==
  /\ Go(t, "own", "link")
  /\ storage' = [storage EXCEPT ![mine[t]] = IF call[t] = "emplace" THEN item[t] ELSE @]
  /\ item' = [item EXCEPT ![t] = IF call[t] = "pop" THEN storage[mine[t]] ELSE @]
  /\ old' = [old EXCEPT ![t] = top[To(t)]]
  /\ UNCHANGED <<top, next, call, after, mine, calls, list>>

\* The element is constructed in the node, or moved out and destroyed; then
\* the head of the other list is loaded.
Own(t) ==
  /\ Go(t, "own", "link")
  /\ storage' = [storage EXCEPT ![mine[t]] = IF call[t] = "emplace" THEN item[t] ELSE Raw]
  /\ item' = [item EXCEPT ![t] = IF call[t] = "pop" THEN storage[mine[t]] ELSE @]
  /\ old' = [old EXCEPT ![t] = top[To(t)]]
  /\ UNCHANGED <<top, next, call, after, mine, calls, list>>

Link(t) ==
  /\ Go(t, "link", "put")
  /\ next' = [next EXCEPT ![mine[t]] = old[t].ptr]
  /\ UNCHANGED <<top, storage, call, old, after, mine, item, calls, list>>

\* The call returns.
Return(t, from) ==
  /\ Go(t, from, "idle")
  /\ call' = [call EXCEPT ![t] = "none"]
  /\ item' = [item EXCEPT ![t] = Raw]
  /\ mine' = [mine EXCEPT ![t] = Null]

Put(t) ==
  /\ top[To(t)] = old[t]
  /\ Return(t, "put")
  /\ top' = [top EXCEPT ![To(t)] = NewHead(t, mine[t])]
  /\ list' = [list EXCEPT ![To(t)] = <<mine[t]>> \o @]
  /\ UNCHANGED <<next, storage, old, after, calls>>

PutFails(t) ==
  /\ Go(t, "put", "link")
  /\ old' = [old EXCEPT ![t] = top[To(t)]]
  /\ UNCHANGED <<top, next, storage, call, after, mine, item, calls, list>>

-----------------------------------------------------------------------------
(* The calls.                                                              *)

TakeSome(t) == ReadNext(t) \/ Take(t) \/ TakeFails(t)
PutBack(t) == Link(t) \/ Put(t) \/ PutFails(t)

Emplace(t) ==
  \/ \E v \in Values : Start(t, "emplace", v)
  \/ call[t] = "emplace" /\ (Own(t) \/ PutBack(t))

Acquire(t) == call[t] = "emplace" /\ (TakeSome(t) \/ Empty(t))

Pop(t) ==
  \/ Start(t, "pop", Raw)
  \/ call[t] = "pop" /\ (TakeSome(t) \/ Empty(t) \/ Own(t))

Release(t) == call[t] = "pop" /\ PutBack(t)

Next == \E t \in Threads : Emplace(t) \/ Acquire(t) \/ Pop(t) \/ Release(t)

Spec == Init /\ [][Next]_vars

-----------------------------------------------------------------------------
(* Properties.                                                             *)

Tagged == [ptr : Nodes \cup {Null}, tag : Nat]

TypeOK ==
  /\ top \in [Lists -> Tagged]
  /\ next \in [Nodes -> Nodes \cup {Null}]
  /\ storage \in [Nodes -> Values \cup {Raw}]
  /\ call \in [Threads -> {"none", "emplace", "pop"}]
  /\ pc \in [Threads -> {"idle", "read", "take", "own", "link", "put"}]
  /\ old \in [Threads -> Tagged]
  /\ after \in [Threads -> Nodes \cup {Null}]
  /\ mine \in [Threads -> Nodes \cup {Null}]
  /\ item \in [Threads -> Values \cup {Raw}]
  /\ calls \in Nat
  /\ list \in [Lists -> Seq(Nodes)]

\* The i-th node of a list, Null past its end.
At(l, i) == IF i <= Len(list[l]) THEN list[l][i] ELSE Null

\* Each head and the _next of each node link exactly the nodes that were put
\* on the list and not taken yet: a compare-exchange with a stale old_head
\* never succeeds, however often its node was used again (lines 86-122,
\* 147-205).
ListsIntact ==
  \A l \in Lists :
    /\ top[l].ptr = At(l, 1)
    /\ \A i \in 1 .. Len(list[l]) : next[list[l][i]] = At(l, i + 1)

InList(n, l) == \E i \in 1 .. Len(list[l]) : list[l][i] = n

\* A node has one owner: it is once in one of the lists, or one thread has it.
OneOwner ==
  /\ \A l \in Lists : \A i, j \in 1 .. Len(list[l]) : list[l][i] = list[l][j] => i = j
  /\ \A n \in Nodes : ~(InList(n, "stack") /\ InList(n, "pool"))
  /\ \A t \in Threads : mine[t] # Null => \A l \in Lists : ~InList(mine[t], l)
  /\ \A t, u \in Threads : mine[t] = mine[u] /\ mine[t] # Null => t = u

\* An element lives in every node of the stack and in none of the pool: none
\* is destroyed twice, leaked or constructed over another.
StorageLives ==
  \A n \in Nodes : /\ InList(n, "stack") => storage[n] \in Values
                   /\ InList(n, "pool") => storage[n] = Raw
=============================================================================
