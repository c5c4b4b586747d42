----------------------------- MODULE ListQueue -----------------------------
(***************************************************************************)
(* LockQueueInList of concurrent/08-stack-queue/queue.cc: a linked list    *)
(* that ends in an empty node.  Producers hold _tail_mtx and fill that     *)
(* node, consumers hold _head_mtx and free the first; what keeps the two   *)
(* sides apart when the list is short is the atomic _size alone, on which  *)
(* consumers also wait.  So inside the critical sections a step is one     *)
(* access to what the other side reads.                                    *)
(***************************************************************************)
EXTENDS Integers, Sequences, FiniteSets

CONSTANTS
  Pushers, Poppers,   \* the threads
  MaxPushes           \* how many elements are pushed: a bound

ASSUME ListQueueAssumption == IsFiniteSet(Pushers) /\ IsFiniteSet(Poppers)

VARIABLES
  next,       \* _next of every node: 0 is nullptr, nodes are 1, 2, ...
  head, tail, \* _head, _tail
  size,       \* _size
  freed,      \* the nodes that have been deleted
  pusher,     \* where each producer is
  popper,     \* where each consumer is
  popped      \* history: the nodes whose element was taken, in order

lqVars == <<next, head, tail, size, freed, pusher, popper, popped>>

Nodes == 1 .. Len(next)

LqTypeOK ==
  /\ next \in Seq(0 .. Len(next))
  /\ head \in Nodes /\ tail \in Nodes
  /\ size \in 0 .. MaxPushes
  /\ freed \subseteq Nodes
  /\ pusher \in [Pushers -> {"idle", "filled", "moved", "notify"}]
  /\ popper \in [Poppers -> {"idle", "pop", "take", "unlinked", "wait", "asleep"}]
  /\ popped \in Seq(Nodes)

\* One empty node, which the first push will fill.
LqInit ==
  /\ next = <<0>>
  /\ head = 1 /\ tail = 1
  /\ size = 0
  /\ freed = {}
  /\ pusher = [p \in Pushers |-> "idle"]
  /\ popper = [c \in Poppers |-> "idle"]
  /\ popped = <<>>

TailFree == \A p \in Pushers : pusher[p] \in {"idle", "notify"}
HeadFree == \A c \in Poppers : popper[c] \notin {"take", "unlinked"}

-----------------------------------------------------------------------------
(* push.                                                                   *)

PushTo(p, from, to) == pusher[p] = from /\ pusher' = [pusher EXCEPT ![p] = to]

\* The new node, and the old last one filled and linked to it.
Fill(p) ==
  /\ TailFree /\ Len(next) <= MaxPushes
  /\ PushTo(p, "idle", "filled")
  /\ next' = Append([next EXCEPT ![tail] = Len(next) + 1], 0)
  /\ UNCHANGED <<head, tail, size, freed, popper, popped>>

MoveTail(p) ==
  /\ PushTo(p, "filled", "moved")
  /\ tail' = next[tail]
  /\ UNCHANGED <<next, head, size, freed, popper, popped>>

CountPushed(p) ==
  /\ PushTo(p, "moved", "notify")
  /\ size' = size + 1
  /\ UNCHANGED <<next, head, tail, freed, popper, popped>>

\* Mutant: consumers are notified of the first element only.
NotifyPopper_WhenFirst(p) ==
  /\ PushTo(p, "notify", "idle")
  /\ \/ /\ size > 1 \/ \A c \in Poppers : popper[c] # "asleep"
        /\ UNCHANGED popper
     \/ size = 1 /\ \E c \in Poppers :
          popper[c] = "asleep" /\ popper' = [popper EXCEPT ![c] = "wait"]
  /\ UNCHANGED <<next, head, tail, size, freed, popped>>

NotifyPopper(p) ==
  /\ PushTo(p, "notify", "idle")
  /\ \/ (\A c \in Poppers : popper[c] # "asleep") /\ UNCHANGED popper
     \/ \E c \in Poppers :
          popper[c] = "asleep" /\ popper' = [popper EXCEPT ![c] = "wait"]
  /\ UNCHANGED <<next, head, tail, size, freed, popped>>

-----------------------------------------------------------------------------
(* pop and try_pop.                                                        *)

PopTo(c, from, to) == popper[c] = from /\ popper' = [popper EXCEPT ![c] = to]

CallPop(c) ==
  /\ PopTo(c, "idle", "pop")
  /\ UNCHANGED <<next, head, tail, size, freed, pusher, popped>>

\* Mutant: the lists' ends are compared in the place of the size.
SeeElement_ByLinks(c) ==
  /\ HeadFree
  /\ next[head] # 0
  /\ PopTo(c, "idle", "take") \/ PopTo(c, "pop", "take")
  /\ UNCHANGED <<next, head, tail, size, freed, pusher, popped>>

\* With _head_mtx, which is kept.  try_pop comes here from "idle", and returns
\* to it at once when there is nothing.
SeeElement(c) ==
  /\ HeadFree
  /\ size > 0
  /\ PopTo(c, "idle", "take") \/ PopTo(c, "pop", "take")
  /\ UNCHANGED <<next, head, tail, size, freed, pusher, popped>>

SeeNothing(c) ==
  /\ HeadFree
  /\ size = 0
  /\ PopTo(c, "pop", "wait")
  /\ UNCHANGED <<next, head, tail, size, freed, pusher, popped>>

\* _size.wait(0): it compares and sleeps in one step, and compares again when
\* it has been woken.
SizeWait(c) ==
  /\ IF size = 0 THEN PopTo(c, "wait", "asleep") ELSE PopTo(c, "wait", "pop")
  /\ UNCHANGED <<next, head, tail, size, freed, pusher, popped>>

\* pop_head, up to the delete.
UnlinkHead(c) ==
  /\ PopTo(c, "take", "unlinked")
  /\ head' = next[head]
  /\ popped' = Append(popped, head)
  /\ freed' = freed \cup {head}
  /\ UNCHANGED <<next, tail, size, pusher>>

CountPopped(c) ==
  /\ PopTo(c, "unlinked", "idle")
  /\ size' = size - 1
  /\ UNCHANGED <<next, head, tail, freed, pusher, popped>>

LqNext ==
  \/ \E p \in Pushers : Fill(p) \/ MoveTail(p) \/ CountPushed(p) \/ NotifyPopper(p)
  \/ \E c \in Poppers : CallPop(c) \/ SeeElement(c) \/ SeeNothing(c)
                          \/ SizeWait(c) \/ UnlinkHead(c) \/ CountPopped(c)

LqSpec == LqInit /\ [][LqNext]_lqVars

-----------------------------------------------------------------------------
(* Properties.                                                             *)

Taking == {c \in Poppers : popper[c] = "take"}
Unlinked == {c \in Poppers : popper[c] = "unlinked"}

\* The two mutexes exclude nothing from each other, and yet a consumer never
\* unlinks the node a producer is filling or has still to leave, and nobody
\* holds a deleted node: the size is increased last and decreased last (lines
\* 154-157, 206-211), so it never exceeds the filled nodes of the list.
SidesApart ==
  /\ head \notin freed /\ tail \notin freed
  /\ Taking # {} => head # tail
  /\ size <= (tail - head) + Cardinality(Unlinked)
  /\ popped = [i \in 1 .. Len(popped) |-> i]

\* One notify_one per push, sent without the mutex, is enough: while consumers
\* sleep, every element has an awake consumer or a notification on its way.
NoPopperForgotten ==
  (\E c \in Poppers : popper[c] = "asleep") =>
    size <= Cardinality({c \in Poppers : popper[c] \notin {"idle", "asleep"}})
              + Cardinality({p \in Pushers : pusher[p] = "notify"})
=============================================================================
