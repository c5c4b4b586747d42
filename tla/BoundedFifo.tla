---------------------------- MODULE BoundedFifo ----------------------------
(***************************************************************************)
(* What a bounded multi-producer multi-consumer queue promises: elements   *)
(* leave in the order they entered, each to exactly one consumer, and at   *)
(* most Capacity of them are inside.  A consumer holds the element it took *)
(* until its call returns.                                                 *)
(***************************************************************************)
EXTENDS Naturals, Sequences

CONSTANTS
  Consumers,  \* The threads that take elements out.
  Values,     \* The elements.
  Nothing,    \* What a consumer holds between two calls.
  Capacity    \* How many elements fit.

VARIABLES
  queue,      \* The elements inside, oldest first.
  hand        \* What each consumer has taken and not yet returned.

vars == <<queue, hand>>

Init ==
  /\ queue = <<>>
  /\ hand = [c \in Consumers |-> Nothing]

Put(v) ==
  /\ Len(queue) < Capacity
  /\ queue' = Append(queue, v)
  /\ UNCHANGED hand

Take(c) ==
  /\ queue # <<>>
  /\ hand[c] = Nothing
  /\ hand' = [hand EXCEPT ![c] = Head(queue)]
  /\ queue' = Tail(queue)

Return(c) ==
  /\ hand[c] # Nothing
  /\ hand' = [hand EXCEPT ![c] = Nothing]
  /\ UNCHANGED queue

Next ==
  \/ \E v \in Values : Put(v)
  \/ \E c \in Consumers : Take(c) \/ Return(c)

Spec == Init /\ [][Next]_vars
=============================================================================
