---------------------------- MODULE MemoryOrder ----------------------------
(***************************************************************************)
(* The functions of concurrent/07-atomic/main.cc: two flags, stored and    *)
(* loaded by threads with the memory orders of C++.                        *)
(*                                                                         *)
(* A flag is FALSE at first and TRUE is stored in it once, so what a       *)
(* thread may read is told by a set: a thread must see the flags in its    *)
(* view, and may see, or miss, any other flag that has been stored.  A     *)
(* store carries the flags that who acquires it must see from then on.  A  *)
(* load in the one order of all seq_cst operations misses nothing.         *)
(***************************************************************************)
EXTENDS Naturals, Sequences

CONSTANT Litmus      \* the functions looked at, by their numbers

VARIABLES
  litmus,      \* the function that runs
  step,        \* how far each thread is in it
  written,     \* the flags that have been stored
  view,        \* what a thread must see
  carried,     \* what a store carries
  fenced,      \* the view of a thread at its last release fence
  pending,     \* what the stores carried that a thread has read
  hits         \* the threads whose last load has found its flag set

moVars == <<litmus, step, written, view, carried, fenced, pending, hits>>

Flags == {"flag1", "flag2"}
ThreadNames == {"thr1", "thr2", "thr3", "thr4"}

Op(k, f, o) == [kind |-> k, flag |-> f, order |-> o]
Store(f, o) == Op("store", f, o)
Await(f, o) == Op("await", f, o)      \* while (!flag.load(order))
Test(f, o) == Op("test", f, o)        \* if (flag.load(order))
Fence(o) == Op("fence", "flag1", o)

\* thr1 sets flag1 and flag2, thr2 awaits flag2 and looks for flag1; what each
\* does between its two accesses, and the orders of those to flag2, differ.
Publish(release, acquire, between1, between2) ==
  [thr1 |-> <<Store("flag1", "relaxed")>> \o between1 \o <<Store("flag2", release)>>,
   thr2 |-> <<Await("flag2", acquire)>> \o between2 \o <<Test("flag1", "relaxed")>>]

\* thr1 and thr2 set a flag each, thr3 and thr4 look for both, in either order.
TwoWriters(release, acquire) ==
  [thr1 |-> <<Store("flag1", release)>>,
   thr2 |-> <<Store("flag2", release)>>,
   thr3 |-> <<Await("flag1", acquire), Test("flag2", acquire)>>,
   thr4 |-> <<Await("flag2", acquire), Test("flag1", acquire)>>]

func1 == Publish("relaxed", "relaxed", <<>>, <<>>)
func2 == Publish("release", "acquire", <<>>, <<>>)
func4 == TwoWriters("release", "acquire")
func5 == TwoWriters("seq_cst", "seq_cst")
func6 == Publish("relaxed", "relaxed", <<Fence("release")>>, <<Fence("acquire")>>)
func7 == Publish("relaxed", "relaxed", <<Fence("signal")>>, <<Fence("signal")>>)

Function == [f \in Litmus |->
  CASE f = 1 -> func1 [] f = 2 -> func2 [] f = 4 -> func4
    [] f = 5 -> func5 [] f = 6 -> func6 [] OTHER -> func7]

Program(t) == IF t \in DOMAIN Function[litmus] THEN Function[litmus][t] ELSE <<>>
Ended(t) == step[t] > Len(Program(t))
Current(t) == Program(t)[step[t]]

MoTypeOK ==
  /\ litmus \in Litmus
  /\ step \in [ThreadNames -> 1 .. 4]
  /\ {written} \cup {view[t] : t \in ThreadNames} \subseteq SUBSET Flags
  /\ \A f \in Flags : carried[f] \subseteq written
  /\ hits \subseteq ThreadNames

MoInit ==
  /\ litmus \in Litmus
  /\ step = [t \in ThreadNames |-> 1]
  /\ written = {} /\ hits = {}
  /\ view = [t \in ThreadNames |-> {}]
  /\ carried = [f \in Flags |-> {}]
  /\ fenced = view /\ pending = view

At(t, kind) ==
  /\ ~Ended(t) /\ Current(t).kind = kind
  /\ step' = [step EXCEPT ![t] = @ + 1]

\* A store carries the view of its thread if it is a release, else the view
\* its last release fence has kept.
StoreFlag(t) == LET op == Current(t) IN
  /\ At(t, "store")
  /\ written' = written \cup {op.flag}
  /\ view' = [view EXCEPT ![t] = @ \cup {op.flag}]
  /\ carried' = [carried EXCEPT ![op.flag] =
                   {op.flag} \cup IF op.order = "relaxed" THEN fenced[t] ELSE view[t]]
  /\ UNCHANGED <<litmus, fenced, pending, hits>>

\* Mutant: a relaxed load leaves nothing for a fence to acquire.
Sees_Forgets(t, op) ==
  /\ op.flag \in written
  /\ view' = [view EXCEPT ![t] = @ \cup {op.flag} \cup
                IF op.order = "relaxed" THEN {} ELSE carried[op.flag]]
  /\ pending' = pending

\* A load that reads TRUE takes over what the store carried, at once if it is
\* an acquire, at the next acquire fence if it is relaxed.
Sees(t, op) ==
  /\ op.flag \in written
  /\ view' = [view EXCEPT ![t] = @ \cup {op.flag} \cup
                IF op.order = "relaxed" THEN {} ELSE carried[op.flag]]
  /\ pending' = [pending EXCEPT ![t] = @ \cup carried[op.flag]]

\* A load may read FALSE unless its thread must see the flag.
Misses(t, op) ==
  /\ op.flag \notin view[t]
  /\ op.order = "seq_cst" => op.flag \notin written

AwaitFlag(t) ==
  /\ At(t, "await") /\ Sees(t, Current(t))
  /\ UNCHANGED <<litmus, written, carried, fenced, hits>>

TestHits(t) ==
  /\ At(t, "test") /\ Sees(t, Current(t))
  /\ hits' = hits \cup {t}
  /\ UNCHANGED <<litmus, written, carried, fenced>>

TestMisses(t) ==
  /\ At(t, "test") /\ Misses(t, Current(t))
  /\ UNCHANGED <<litmus, written, view, carried, fenced, pending, hits>>

\* A signal fence orders nothing between two threads.
PassFence(t) == LET order == Current(t).order IN
  /\ At(t, "fence")
  /\ fenced' = IF order = "release" THEN [fenced EXCEPT ![t] = view[t]] ELSE fenced
  /\ view' = IF order = "acquire" THEN [view EXCEPT ![t] = @ \cup pending[t]] ELSE view
  /\ UNCHANGED <<litmus, written, carried, pending, hits>>

MoThread(t) ==
  StoreFlag(t) \/ AwaitFlag(t) \/ TestHits(t) \/ TestMisses(t) \/ PassFence(t)

MoNext == \E t \in ThreadNames : MoThread(t)

\* A store is seen in a finite time: no thread waits for a flag for ever.
MoSpec == MoInit /\ [][MoNext]_moVars /\ \A t \in ThreadNames : WF_moVars(MoThread(t))

-----------------------------------------------------------------------------
(* Properties.                                                             *)

AllEnded == \A t \in ThreadNames : Ended(t)

\* counter, which thr2 increments when it has found flag1.
CounterIsOne == hits = {"thr2"}

\* counter == 1 where flag2 is released and acquired, by its accesses (func2,
\* line 55) or by fences (func6, line 160); and where all operations have one
\* order (func5) thr3 or thr4 finds both flags set.  Whether both do, and then
\* write z with nothing that orders their writes, is not asked here.
PublishedIsSeen == AllEnded =>
  /\ litmus \in {2, 6} => CounterIsOne
  /\ litmus = 5 => hits # {}

\* counter == 1 in every function that asserts it: func1, func2, func6 and func7
\* (lines 30, 55, 160 and 188).
AssertionsHold == AllEnded /\ litmus \in {1, 2, 6, 7} => CounterIsOne
=============================================================================
