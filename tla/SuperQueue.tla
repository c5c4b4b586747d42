----------------------------- MODULE SuperQueue -----------------------------
(***************************************************************************)
(* The lock-free multi-producer multi-consumer ring of                     *)
(* concurrent/10-unlock-queue/mpmc_queue.cc, one action per access to      *)
(* shared memory.                                                          *)
(*                                                                         *)
(* A call of emplace or pop draws a ticket by advancing _enqueue_pos or    *)
(* _dequeue_pos with a compare-exchange; ticket k owns slot k & (Capacity  *)
(* - 1).  The slot's _sequence says whose turn it is: k, the producer with *)
(* ticket k; k + 1, the consumer with ticket k; k + Capacity, the producer *)
(* of the next lap.                                                        *)
(*                                                                         *)
(* Memory order.  A load that is not part of a successful                  *)
(* compare-exchange may return any value of the variable's modification    *)
(* order that is not older than what the thread has already seen: the      *)
(* position loads are relaxed, and an acquire load of _sequence is no      *)
(* fresher.  Both counters and every _sequence only grow, so the values a  *)
(* load may return form an interval.                                       *)
(***************************************************************************)
EXTENDS Integers, Sequences

CONSTANTS
  Producers,    \* Threads that call emplace.
  Consumers,    \* Threads that call pop.
  Values,       \* The elements T.
  Raw,          \* What a slot's storage holds when no T lives there.
  Capacity,     \* The template argument.
  MaxEmplaced   \* Bound: no emplace starts once this many tickets are drawn.

ASSUME SuperQueueAssumption ==
  /\ Capacity \in Nat \ {0}
  /\ MaxEmplaced \in Nat
  /\ Raw \notin Values
  /\ Producers \cap Consumers = {}

VARIABLES
  enqueue_pos,  \* _enqueue_pos: the next ticket of a producer.
  dequeue_pos,  \* _dequeue_pos: the next ticket of a consumer.
  sequence,     \* _buffer[s]._sequence.
  storage,      \* _buffer[s]._storage: an element, or Raw.
  pc,           \* Where each thread is in its call.
  pos,          \* The local pos of each thread; between two calls, the
                \* oldest position a load of it may still return.
  item,         \* A producer's argument; what a consumer moved to result.
  destroyed,    \* The destructor has run.
  put           \* History: the element of each ticket drawn by a producer.

vars == <<enqueue_pos, dequeue_pos, sequence, storage, pc, pos, item,
          destroyed, put>>

Threads == Producers \cup Consumers
Slots == 0 .. Capacity - 1

\* pos & (Capacity - 1), for the powers of two the static_assert admits.
Slot(k) == k % Capacity

TypeOK ==
  /\ enqueue_pos \in Nat
  /\ dequeue_pos \in Nat
  /\ sequence \in [Slots -> Nat]
  /\ storage \in [Slots -> Values \cup {Raw}]
  /\ pc \in [Threads -> {"idle", "load", "cas", "reload", "construct",
                         "publish", "move", "destroy", "release"}]
  /\ pos \in [Threads -> Nat]
  /\ item \in [Threads -> Values \cup {Raw}]
  /\ destroyed \in BOOLEAN
  /\ put \in Seq(Values)

Init ==
  /\ enqueue_pos = 0
  /\ dequeue_pos = 0
  /\ sequence = [s \in Slots |-> s]
  /\ storage = [s \in Slots |-> Raw]
  /\ pc = [t \in Threads |-> "idle"]
  /\ pos = [t \in Threads |-> 0]
  /\ item = [t \in Threads |-> Raw]
  /\ destroyed = FALSE
  /\ put = <<>>

Goto(t, from, to) ==
  /\ pc[t] = from
  /\ pc' = [pc EXCEPT ![t] = to]

-----------------------------------------------------------------------------
(* The loads.                                                              *)

\* The values slot s has shown in _sequence so far: a ticket of the slot, or
\* its successor.
SequenceHistory(s) ==
  {v \in s .. sequence[s] : v % Capacity \in {s, (s + 1) % Capacity}}

\* A relaxed load of a position counter into the local pos.
LoadPos(t, counter) ==
  \E k \in pos[t] .. counter : pos' = [pos EXCEPT ![t] = k]

\* The sequence number that gives ticket k its turn.
EnqueueTurn(k) == k
DequeueTurn(k) == k + 1

\* The loop head: load the slot's sequence and branch on its difference to
\* the turn.  Below it, the call returns false.
LoadSequence(t, turn) ==
  /\ \E seq \in SequenceHistory(Slot(pos[t])) :
       \/ seq = turn /\ Goto(t, "load", "cas")
       \/ seq < turn /\ Goto(t, "load", "idle")
       \/ seq > turn /\ Goto(t, "load", "reload")
  /\ UNCHANGED <<enqueue_pos, dequeue_pos, sequence, storage, pos, item,
                 destroyed, put>>

\* Another thread has already taken the ticket: reload the position.
Reload(t, counter) ==
  /\ Goto(t, "reload", "load")
  /\ LoadPos(t, counter)
  /\ UNCHANGED <<enqueue_pos, dequeue_pos, sequence, storage, item,
                 destroyed, put>>

\* compare_exchange_weak fails, because the position has moved on or
\* spuriously, and leaves in pos what it saw.
CasFails(t, counter) ==
  /\ Goto(t, "cas", "load")
  /\ LoadPos(t, counter)
  /\ UNCHANGED <<enqueue_pos, dequeue_pos, sequence, storage, item,
                 destroyed, put>>

-----------------------------------------------------------------------------
(* emplace                                                                 *)

StartEmplace(p) ==
  /\ ~destroyed
  /\ enqueue_pos < MaxEmplaced
  /\ Goto(p, "idle", "load")
  /\ LoadPos(p, enqueue_pos)
  /\ \E v \in Values : item' = [item EXCEPT ![p] = v]
  /\ UNCHANGED <<enqueue_pos, dequeue_pos, sequence, storage, destroyed, put>>

\* Mutant: a plain store instead of the compare-exchange.
ClaimEnqueue_PlainStore(p) ==
  /\ Goto(p, "cas", "construct")
  /\ enqueue_pos' = pos[p] + 1
  /\ put' = Append(put, item[p])
  /\ UNCHANGED <<dequeue_pos, sequence, storage, pos, item, destroyed>>

ClaimEnqueue(p) ==
  /\ Goto(p, "cas", "construct")
  /\ enqueue_pos = pos[p]
  /\ enqueue_pos' = enqueue_pos + 1
  /\ put' = Append(put, item[p])
  /\ UNCHANGED <<dequeue_pos, sequence, storage, pos, item, destroyed>>

Construct(p) ==
  /\ Goto(p, "construct", "publish")
  /\ storage' = [storage EXCEPT ![Slot(pos[p])] = item[p]]
  /\ UNCHANGED <<enqueue_pos, dequeue_pos, sequence, pos, item, destroyed, put>>

Publish(p) ==
  /\ Goto(p, "publish", "idle")
  /\ sequence' = [sequence EXCEPT ![Slot(pos[p])] = DequeueTurn(pos[p])]
  /\ UNCHANGED <<enqueue_pos, dequeue_pos, storage, pos, item, destroyed, put>>

Emplace(p) ==
  \/ StartEmplace(p)
  \/ LoadSequence(p, EnqueueTurn(pos[p]))
  \/ Reload(p, enqueue_pos)
  \/ CasFails(p, enqueue_pos)
  \/ ClaimEnqueue(p)
  \/ Construct(p)
  \/ Publish(p)

-----------------------------------------------------------------------------
(* pop                                                                     *)

StartPop(c) ==
  /\ ~destroyed
  /\ Goto(c, "idle", "load")
  /\ LoadPos(c, dequeue_pos)
  /\ item' = [item EXCEPT ![c] = Raw]
  /\ UNCHANGED <<enqueue_pos, dequeue_pos, sequence, storage, destroyed, put>>

\* Mutant: a plain store instead of the compare-exchange.
ClaimDequeue_PlainStore(c) ==
  /\ Goto(c, "cas", "move")
  /\ dequeue_pos' = pos[c] + 1
  /\ UNCHANGED <<enqueue_pos, sequence, storage, pos, item, destroyed, put>>

ClaimDequeue(c) ==
  /\ Goto(c, "cas", "move")
  /\ dequeue_pos = pos[c]
  /\ dequeue_pos' = dequeue_pos + 1
  /\ UNCHANGED <<enqueue_pos, sequence, storage, pos, item, destroyed, put>>

\* Mutant: the moved-from element is not destroyed.
Move_NoDestroy(c) ==
  /\ Goto(c, "move", "release")
  /\ item' = [item EXCEPT ![c] = storage[Slot(pos[c])]]
  /\ UNCHANGED <<enqueue_pos, dequeue_pos, sequence, storage, pos, destroyed,
                 put>>

Move(c) ==
  /\ Goto(c, "move", "destroy")
  /\ item' = [item EXCEPT ![c] = storage[Slot(pos[c])]]
  /\ UNCHANGED <<enqueue_pos, dequeue_pos, sequence, storage, pos, destroyed,
                 put>>

DestroyMoved(c) ==
  /\ Goto(c, "destroy", "release")
  /\ storage' = [storage EXCEPT ![Slot(pos[c])] = Raw]
  /\ UNCHANGED <<enqueue_pos, dequeue_pos, sequence, pos, item, destroyed, put>>

Release(c) ==
  /\ Goto(c, "release", "idle")
  /\ sequence' = [sequence EXCEPT ![Slot(pos[c])] = pos[c] + Capacity]
  /\ UNCHANGED <<enqueue_pos, dequeue_pos, storage, pos, item, destroyed, put>>

Pop(c) ==
  \/ StartPop(c)
  \/ LoadSequence(c, DequeueTurn(pos[c]))
  \/ Reload(c, dequeue_pos)
  \/ CasFails(c, dequeue_pos)
  \/ ClaimDequeue(c)
  \/ Move(c)
  \/ DestroyMoved(c)
  \/ Release(c)

-----------------------------------------------------------------------------
(* The destructor, once every thread is out of its calls, walks the        *)
(* tickets between the two positions and destroys what was published.      *)

\* Mutant: the walk starts one ticket late.
Unread_SkipsFirst ==
  {s \in Slots : \E k \in dequeue_pos + 1 .. enqueue_pos - 1 :
                   Slot(k) = s /\ sequence[s] = DequeueTurn(k)}

Unread ==
  {s \in Slots : \E k \in dequeue_pos .. enqueue_pos - 1 :
                   Slot(k) = s /\ sequence[s] = DequeueTurn(k)}

Destructor ==
  /\ ~destroyed
  /\ \A t \in Threads : pc[t] = "idle"
  /\ destroyed' = TRUE
  /\ storage' = [s \in Slots |-> IF s \in Unread THEN Raw ELSE storage[s]]
  /\ UNCHANGED <<enqueue_pos, dequeue_pos, sequence, pc, pos, item, put>>

Terminated == destroyed /\ UNCHANGED vars

Next ==
  \/ \E p \in Producers : Emplace(p)
  \/ \E c \in Consumers : Pop(c)
  \/ Destructor
  \/ Terminated

Spec == Init /\ [][Next]_vars
-----------------------------------------------------------------------------
(* Properties.                                                             *)

Inside(t) == pc[t] \in {"construct", "publish", "move", "destroy", "release"}

\* A slot's storage is accessed without atomics, so at most one thread may be
\* between drawing a ticket and storing the slot's sequence
\* (emplace 141-145, pop 184-189): a second one would be a data race.
SlotExclusive ==
  \A t, u \in Threads :
    t # u /\ Inside(t) /\ Inside(u) => Slot(pos[t]) # Slot(pos[u])

\* construct_at (line 142) never runs over a live element: the consumer of the
\* lap before has moved it out and destroyed it.
ConstructsOnRaw ==
  \A p \in Producers : pc[p] = "construct" => storage[Slot(pos[p])] = Raw

\* What pop moves out of its slot (line 185) is the element of the producer
\* with the same ticket, constructed and not yet taken by anyone.
MovesItsElement ==
  \A c \in Consumers :
    pc[c] = "move" =>
      /\ pos[c] < Len(put)
      /\ storage[Slot(pos[c])] = put[pos[c] + 1]

\* After the destructor (lines 89-104) no element is alive: its walk over the
\* tickets destroys whatever was published and not popped.
NoElementLeaks == destroyed => \A s \in Slots : storage[s] = Raw

\* A slot's sequence only grows.  The comparisons at lines 117 and 160 tell a
\* past turn from a future one only because of it.
SequencesGrow == [][\A s \in Slots : sequence'[s] >= sequence[s]]_sequence

\* The queue is a FIFO of at most Capacity elements: an element enters when
\* its ticket is drawn and leaves, to one consumer, when the consumer draws
\* the same ticket.  What the consumer holds does not change until pop returns
\* it.
Hand(c) ==
  CASE pc[c] = "move" -> put[pos[c] + 1]
    [] pc[c] \in {"destroy", "release"} -> item[c]
    [] OTHER -> Raw

Fifo == INSTANCE BoundedFifo WITH
          queue <- SubSeq(put, dequeue_pos + 1, enqueue_pos),
          hand <- [c \in Consumers |-> Hand(c)],
          Nothing <- Raw

ImplementsFifo == Fifo!Spec
-----------------------------------------------------------------------------
(* The inductive invariant behind the safety properties.                   *)

Drew(p) == pc[p] \in {"construct", "publish"}
Took(c) == pc[c] \in {"move", "destroy", "release"}

\* Each thread runs the code of its call only, and a producer has its argument.
Program ==
  /\ \A p \in Producers :
       /\ pc[p] \in {"idle", "load", "cas", "reload", "construct", "publish"}
       /\ pc[p] # "idle" => item[p] \in Values
  /\ \A c \in Consumers :
       pc[c] \in {"idle", "load", "cas", "reload", "move", "destroy", "release"}

\* The tickets between the two positions fit the ring.
Window ==
  /\ Len(put) = enqueue_pos
  /\ dequeue_pos <= enqueue_pos
  /\ enqueue_pos <= dequeue_pos + Capacity

\* At the compare-exchange a thread has seen its turn, which may be over.
SawTurn ==
  /\ \A p \in Producers :
       pc[p] = "cas" => sequence[Slot(pos[p])] >= pos[p]
  /\ \A c \in Consumers :
       pc[c] = "cas" => sequence[Slot(pos[c])] >= pos[c] + 1

\* A thread inside a slot has its turn there.
Turn ==
  /\ \A p \in Producers : Drew(p) =>
       /\ pos[p] < enqueue_pos
       /\ sequence[Slot(pos[p])] = pos[p]
       /\ item[p] = put[pos[p] + 1]
       /\ pc[p] = "construct" => storage[Slot(pos[p])] = Raw
       /\ pc[p] = "publish" => storage[Slot(pos[p])] = put[pos[p] + 1]
  /\ \A c \in Consumers : Took(c) =>
       /\ pos[c] < dequeue_pos
       /\ enqueue_pos <= pos[c] + Capacity
       /\ sequence[Slot(pos[c])] = pos[c] + 1
       /\ pc[c] # "move" => item[c] = put[pos[c] + 1]
       /\ pc[c] # "release" => storage[Slot(pos[c])] = put[pos[c] + 1]
       /\ pc[c] = "release" => storage[Slot(pos[c])] = Raw

\* No ticket is drawn twice.
Unique ==
  /\ \A p, q \in Producers : Drew(p) /\ Drew(q) /\ pos[p] = pos[q] => p = q
  /\ \A c, d \in Consumers : Took(c) /\ Took(d) /\ pos[c] = pos[d] => c = d

\* A slot whose sequence is ticket k waits for the producer of k: it is empty
\* or that producer is inside.
Vacant(s, k) ==
  /\ Slot(k) = s
  /\ dequeue_pos <= k
  /\ k < dequeue_pos + Capacity
  /\ \/ enqueue_pos <= k /\ storage[s] = Raw
     \/ k < enqueue_pos /\ \E p \in Producers : Drew(p) /\ pos[p] = k

\* A slot whose sequence is k + 1 waits for the consumer of ticket k: it holds
\* the element of k or that consumer is inside.
Filled(s, k) ==
  /\ Slot(k) = s
  /\ k < enqueue_pos
  /\ \/ dequeue_pos <= k /\ (destroyed \/ storage[s] = put[k + 1])
     \/ k < dequeue_pos /\ \E c \in Consumers : Took(c) /\ pos[c] = k

SlotStates ==
  \A s \in Slots :
    \/ Vacant(s, sequence[s])
    \/ sequence[s] > 0 /\ Filled(s, sequence[s] - 1)

\* After the destructor nobody is in a call and nothing is alive.
Gone ==
  destroyed => /\ \A t \in Threads : pc[t] = "idle"
               /\ \A s \in Slots : storage[s] = Raw

\* The conjunction is inductive when Capacity > 1.
IInv ==
  /\ TypeOK
  /\ Program
  /\ Window
  /\ SawTurn
  /\ Turn
  /\ Unique
  /\ SlotStates
  /\ Gone
=============================================================================
