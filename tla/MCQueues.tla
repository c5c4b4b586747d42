------------------------------ MODULE MCQueues ------------------------------
(***************************************************************************)
(* The containers with one or two ends, for one run of TLC: a behaviour is *)
(* one of the lock-free ring, of its two predecessors, of the list with    *)
(* two mutexes or of the containers with one, and which is chosen at its   *)
(* start.                                                                  *)
(***************************************************************************)
EXTENDS SuperQueue, ListQueue, LockedContainers, TLC

CONSTANTS p1, p2, c1, c2, a, b, raw, Attempts

MCProducers == {p1, p2}
MCConsumers == {c1, c2}
MCValues == {a, b}
MCSymmetry == Permutations(MCProducers) \cup Permutations(MCConsumers)
                \cup Permutations(MCValues)

VARIABLES
  subject,
  ring, cells, headAt, tailAt, inside, emplacer, taker, offered, accepted, taken, early

uVars == <<ring, cells, headAt, tailAt, inside, emplacer, taker, offered, accepted,
           taken, early>>

U == INSTANCE UnlockQueue

allVars == <<subject, vars, lqVars, lcVars, uVars>>

MCInit ==
  /\ subject \in {"ring", "before", "list", "locked"}
  /\ Init /\ LqInit /\ LcInit /\ U!UqInit
  /\ subject # "locked" => shape = "queue"
  /\ subject # "before" => ring = "lock"

\* Every thread sleeps over an empty container: all elements of the list have
\* been pushed and popped, or nobody is left who might push.  The threads of
\* the rings before SuperQueue are through, or have no defined outcome.
AllAsleep ==
  /\ \/ /\ subject = "list" /\ Len(next) > MaxPushes
        /\ \A p \in Pushers : pusher[p] = "idle"
        /\ \A c \in Poppers : popper[c] = "asleep"
     \/ subject = "before" /\ (early \/ (offered = Attempts /\ inside = 0))
     \/ subject = "locked" /\ \A c \in Callers : caller[c] = "waiting"
  /\ UNCHANGED allVars

MCNext ==
  \/ subject = "ring" /\ Next /\ UNCHANGED <<subject, lqVars, lcVars, uVars>>
  \/ subject = "before" /\ U!UqNext /\ UNCHANGED <<subject, vars, lqVars, lcVars>>
  \/ subject = "list" /\ LqNext /\ UNCHANGED <<subject, vars, lcVars, uVars>>
  \/ subject = "locked" /\ LcNext /\ UNCHANGED <<subject, vars, lqVars, uVars>>
  \/ AllAsleep

MCSpec == MCInit /\ [][MCNext]_allVars

-----------------------------------------------------------------------------
(* Properties.                                                             *)

\* The threads at the two ends never meet on a cell or a node, in the list with
\* two mutexes (queue.cc) and in the rings before SuperQueue (unlock_queue.cc).
EndsApart == SidesApart /\ U!CellsApart

\* No consumer sleeps on, or goes to sleep over, a container that has elements
\* for it, of the list or of the containers under one mutex.
NobodyForgotten == NoPopperForgotten /\ NoSleeperForgotten
=============================================================================
