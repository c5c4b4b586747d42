---------------------------- MODULE UnlockQueue ----------------------------
(***************************************************************************)
(* The two rings that come before SuperQueue (concurrent/10): unlock_queue *)
(* with a compare-exchange on each position, access by access, and         *)
(* lock_queue under one mutex, call by call; with the two threads of their *)
(* mains, of which one emplaces and one pops.  The lock-free ring moves    *)
(* its tail before it constructs the element, so that a pop may move out   *)
(* of storage where nothing lives: no outcome is defined then, and the     *)
(* behaviour ends there.                                                   *)
(***************************************************************************)
EXTENDS Integers, SequencesExt

CONSTANTS
  Capacity,   \* how many elements the ring holds
  Attempts    \* how many messages the producer offers (20 in main): a bound

VARIABLES
  ring,       \* unlock or lock
  cells,      \* _data: per cell the message that lives there, or 0
  headAt,     \* _head
  tailAt,     \* _tail
  inside,     \* _size, of lock_queue
  emplacer,   \* where the producer stands, and the position it has loaded
  taker,      \* the same for the consumer
  offered,    \* messages the producer has offered
  accepted,   \* those for which emplace returned true
  taken,      \* those pop moved out
  early       \* history: moved out of a cell where nothing lived

uqVars == <<ring, cells, headAt, tailAt, inside, emplacer, taker, offered, accepted,
            taken, early>>

Cells == 0 .. Capacity
After(i) == (i + 1) % (Capacity + 1)
Idle == [at |-> "idle", pos |-> 0]

UqInit ==
  /\ ring \in {"unlock", "lock"}
  /\ cells = [i \in Cells |-> 0]
  /\ headAt = 0 /\ tailAt = 0 /\ inside = 0
  /\ emplacer = Idle /\ taker = Idle
  /\ offered = 0
  /\ accepted = <<>> /\ taken = <<>>
  /\ early = FALSE

-----------------------------------------------------------------------------
(* unlock_queue: the thread of main that emplaces.                         *)

\* The ring is full.  Mutant: the test is missing.
SeesFull_Never(tail) == FALSE
SeesFull(tail) == After(tail) = headAt

LoadTail ==
  /\ emplacer.at = "idle" /\ offered < Attempts
  /\ emplacer' = [at |-> "loaded", pos |-> tailAt]
  /\ UNCHANGED <<ring, cells, headAt, tailAt, inside, taker, offered, accepted, taken, early>>

TestHead ==
  /\ emplacer.at = "loaded"
  /\ IF SeesFull(emplacer.pos)
       THEN emplacer' = Idle /\ offered' = offered + 1
       ELSE emplacer' = [emplacer EXCEPT !.at = "claims"] /\ UNCHANGED offered
  /\ UNCHANGED <<ring, cells, headAt, tailAt, inside, taker, accepted, taken, early>>

ClaimTail ==
  /\ emplacer.at = "claims"
  /\ IF tailAt = emplacer.pos
       THEN /\ tailAt' = After(tailAt)
            /\ emplacer' = [emplacer EXCEPT !.at = "constructs"]
       ELSE emplacer' = Idle /\ UNCHANGED tailAt
  /\ UNCHANGED <<ring, cells, headAt, inside, taker, offered, accepted, taken, early>>

ConstructAt ==
  /\ emplacer.at = "constructs"
  /\ offered' = offered + 1
  /\ cells' = [cells EXCEPT ![emplacer.pos] = offered']
  /\ accepted' = Append(accepted, offered')
  /\ emplacer' = Idle
  /\ UNCHANGED <<ring, headAt, tailAt, inside, taker, taken, early>>

EmplaceUnlocked == LoadTail \/ TestHead \/ ClaimTail \/ ConstructAt

-----------------------------------------------------------------------------
(* unlock_queue: the thread that pops.                                     *)

LoadHead ==
  /\ taker.at = "idle" /\ Len(taken) < Attempts
  /\ taker' = [at |-> "loaded", pos |-> headAt]
  /\ UNCHANGED <<ring, cells, headAt, tailAt, inside, emplacer, offered, accepted, taken, early>>

TestTail ==
  /\ taker.at = "loaded"
  /\ taker' = IF taker.pos = tailAt THEN Idle ELSE [taker EXCEPT !.at = "claims"]
  /\ UNCHANGED <<ring, cells, headAt, tailAt, inside, emplacer, offered, accepted, taken, early>>

ClaimHead ==
  /\ taker.at = "claims"
  /\ IF headAt = taker.pos
       THEN headAt' = After(headAt) /\ taker' = [taker EXCEPT !.at = "moves"]
       ELSE taker' = Idle /\ UNCHANGED headAt
  /\ UNCHANGED <<ring, cells, tailAt, inside, emplacer, offered, accepted, taken, early>>

MoveOut ==
  /\ taker.at = "moves"
  /\ early' = (cells[taker.pos] = 0)
  /\ taken' = Append(taken, cells[taker.pos])
  /\ taker' = [taker EXCEPT !.at = "destroys"]
  /\ UNCHANGED <<ring, cells, headAt, tailAt, inside, emplacer, offered, accepted>>

DestroyAt ==
  /\ taker.at = "destroys"
  /\ cells' = [cells EXCEPT ![taker.pos] = 0]
  /\ taker' = Idle
  /\ UNCHANGED <<ring, headAt, tailAt, inside, emplacer, offered, accepted, taken, early>>

PopUnlocked == LoadHead \/ TestTail \/ ClaimHead \/ MoveOut \/ DestroyAt

-----------------------------------------------------------------------------
(* lock_queue.  Its pop leaves the moved-from element where it is.         *)

EmplaceLocked ==
  /\ offered < Attempts
  /\ offered' = offered + 1
  /\ IF inside = Capacity
       THEN UNCHANGED <<cells, tailAt, inside, accepted>>
       ELSE /\ cells' = [cells EXCEPT ![tailAt] = offered']
            /\ tailAt' = After(tailAt)
            /\ inside' = inside + 1
            /\ accepted' = Append(accepted, offered')
  /\ UNCHANGED <<ring, headAt, emplacer, taker, taken, early>>

PopLocked ==
  /\ Len(taken) < Attempts /\ inside # 0
  /\ taken' = Append(taken, cells[headAt])
  /\ headAt' = After(headAt)
  /\ inside' = inside - 1
  /\ UNCHANGED <<ring, cells, tailAt, emplacer, taker, offered, accepted, early>>

UqNext ==
  \/ ring = "unlock" /\ ~early /\ (EmplaceUnlocked \/ PopUnlocked)
  \/ ring = "lock" /\ (EmplaceLocked \/ PopLocked)

UqSpec == UqInit /\ [][UqNext]_uqVars

-----------------------------------------------------------------------------
(* Properties.                                                             *)

\* The positions move before the cells are used, and still the two threads
\* never meet on a cell but where a pop comes before the element: emplace
\* constructs where nothing lives, for the spare cell keeps it off the one the
\* pop has claimed, and until that pop what leaves is what was accepted, in
\* order (unlock_queue.cc lines 25-56, lock_queue.cc lines 22-42).
CellsApart ==
  /\ ring = "unlock" /\ emplacer.at = "constructs" => cells[emplacer.pos] = 0
  /\ ~early => IsPrefix(taken, accepted)
=============================================================================
