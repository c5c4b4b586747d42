---------------------------- MODULE ElementStack ----------------------------
(***************************************************************************)
(* What a concurrent stack with an elimination array promises: elements    *)
(* leave the stack from its top, each to one thread.  An element may also  *)
(* be parked at a place, off the stack, for the thread that comes for it.  *)
(* A thread holds the element it took until its call returns.              *)
(***************************************************************************)
EXTENDS Naturals, Sequences

CONSTANTS
  Threads,    \* who takes elements
  Values,     \* the elements
  Places,     \* where elements may be parked
  Nothing     \* no element

VARIABLES
  stack,      \* the elements, the top first
  parked,     \* the element at each place, or Nothing
  hand        \* what each thread holds, or Nothing

vars == <<stack, parked, hand>>

Init ==
  /\ stack = <<>>
  /\ parked = [p \in Places |-> Nothing]
  /\ hand = [t \in Threads |-> Nothing]

Push(v) ==
  /\ stack' = <<v>> \o stack
  /\ UNCHANGED <<parked, hand>>

Park(p, v) ==
  /\ parked[p] = Nothing
  /\ parked' = [parked EXCEPT ![p] = v]
  /\ UNCHANGED <<stack, hand>>

Take(t) ==
  /\ stack # <<>> /\ hand[t] = Nothing
  /\ hand' = [hand EXCEPT ![t] = Head(stack)]
  /\ stack' = Tail(stack)
  /\ UNCHANGED parked

Fetch(t, p) ==
  /\ parked[p] # Nothing /\ hand[t] = Nothing
  /\ hand' = [hand EXCEPT ![t] = parked[p]]
  /\ parked' = [parked EXCEPT ![p] = Nothing]
  /\ UNCHANGED stack

Return(t) ==
  /\ hand[t] # Nothing
  /\ hand' = [hand EXCEPT ![t] = Nothing]
  /\ UNCHANGED <<stack, parked>>

Next ==
  \/ \E v \in Values : Push(v) \/ \E p \in Places : Park(p, v)
  \/ \E t \in Threads : Take(t) \/ Return(t) \/ \E p \in Places : Fetch(t, p)

Spec == Init /\ [][Next]_vars
=============================================================================
