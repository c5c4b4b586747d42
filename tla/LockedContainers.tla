-------------------------- MODULE LockedContainers --------------------------
(***************************************************************************)
(* LockQueue (concurrent/08-stack-queue/queue.cc) and LockStack (stack.cc):*)
(* a container under one mutex.  A step is a critical section, or the      *)
(* notification that push and emplace send when they have left theirs.     *)
(* Which element comes out is up to std::queue and std::stack: contents    *)
(* counts.                                                                 *)
(* Only the queue has consumers that wait; it is copied and moved, whole,  *)
(* from another object of its kind, with both mutexes held.                *)
(***************************************************************************)
EXTENDS Integers, FiniteSets

CONSTANTS
  Objects,    \* the containers
  Callers,    \* the threads
  MaxLength   \* how many elements one of them holds: a bound

ASSUME LockedContainersAssumption == IsFiniteSet(Callers) /\ Objects # {}

VARIABLES
  shape,      \* what they are: "queue" or "stack"
  contents,   \* _queue, _stack: how many elements each object holds
  caller,     \* where each thread is
  target      \* the object its last call is about

lcVars == <<shape, contents, caller, target>>

LcTypeOK ==
  /\ shape \in {"queue", "stack"}
  /\ contents \in [Objects -> 0 .. MaxLength]
  /\ caller \in [Callers -> {"idle", "notify", "waiting", "woken"}]
  /\ target \in [Callers -> Objects]

LcInit ==
  /\ shape \in {"queue", "stack"}
  /\ contents = [o \in Objects |-> 0]
  /\ caller = [c \in Callers |-> "idle"]
  /\ target = [c \in Callers |-> CHOOSE o \in Objects : TRUE]

Sleepers(o) == {c \in Callers : caller[c] = "waiting" /\ target[c] = o}
SendOff(c, o, to) ==
  /\ caller' = [caller EXCEPT ![c] = to]
  /\ target' = [target EXCEPT ![c] = o]

-----------------------------------------------------------------------------
(* push, emplace; try_pop, pop, clear.                                     *)

Insert(c, o, then) ==
  /\ caller[c] = "idle" /\ contents[o] < MaxLength
  /\ contents' = [contents EXCEPT ![o] = @ + 1]
  /\ SendOff(c, o, then)
  /\ UNCHANGED shape

QueuePush(c, o) == shape = "queue" /\ Insert(c, o, "notify")
StackPush(c, o) == shape = "stack" /\ Insert(c, o, "idle")

NotifyOne(c) ==
  /\ caller[c] = "notify"
  /\ LET done == [caller EXCEPT ![c] = "idle"]
     IN caller' \in IF Sleepers(target[c]) = {} THEN {done}
                      ELSE {[done EXCEPT ![s] = "woken"] : s \in Sleepers(target[c])}
  /\ UNCHANGED <<shape, contents, target>>

\* A call that begins, or a pop that has been woken.
MayTake(c, o) == caller[c] = "idle" \/ (caller[c] = "woken" /\ target[c] = o)

\* The end of pop, or all of a try_pop, that finds an element: one that finds
\* none changes nothing.
RemoveOne(c, o) ==
  /\ MayTake(c, o)
  /\ contents[o] > 0
  /\ contents' = [contents EXCEPT ![o] = @ - 1]
  /\ SendOff(c, o, "idle")
  /\ UNCHANGED shape

QueuePop(c, o) == shape = "queue" /\ RemoveOne(c, o)
StackPop(c, o) == shape = "stack" /\ RemoveOne(c, o)

WaitInPop(c, o) ==
  /\ shape = "queue"
  /\ MayTake(c, o)
  /\ contents[o] = 0
  /\ SendOff(c, o, "waiting")
  /\ UNCHANGED <<shape, contents>>

Clear(c, o) ==
  /\ caller[c] = "idle"
  /\ contents' = [contents EXCEPT ![o] = 0]
  /\ UNCHANGED <<shape, caller, target>>

QueueClear(c, o) == shape = "queue" /\ Clear(c, o)
StackClear(c, o) == shape = "stack" /\ Clear(c, o)

-----------------------------------------------------------------------------
(* Assignment of one object from another, by copy and by move.  A          *)
(* constructor is the same, to an object nobody waits on yet.              *)

\* Mutant: one sleeper is woken however many elements have arrived.
Assigned_One(o, from) ==
  caller' \in IF contents[from] = 0 \/ Sleepers(o) = {} THEN {caller}
                ELSE {[caller EXCEPT ![s] = "woken"] : s \in Sleepers(o)}

\* All that wait are woken, when there is something to take.
Assigned(o, from) ==
  caller' = [c \in Callers |->
    IF contents[from] > 0 /\ c \in Sleepers(o) THEN "woken" ELSE caller[c]]

\* Nobody waits on a stack.
QueueAssign(c, o, from) ==
  /\ shape = "queue" /\ caller[c] = "idle" /\ o # from
  /\ Assigned(o, from)
  /\ UNCHANGED <<shape, target>>
StackAssign(c, o, from) ==
  /\ shape = "stack" /\ caller[c] = "idle" /\ o # from
  /\ UNCHANGED <<shape, caller, target>>

Copied(o, from) == contents' = [contents EXCEPT ![o] = contents[from]]
Moved(o, from) == contents' = [contents EXCEPT ![o] = contents[from], ![from] = 0]

QueueCopy(c, o, from) == QueueAssign(c, o, from) /\ Copied(o, from)
QueueMove(c, o, from) == QueueAssign(c, o, from) /\ Moved(o, from)
StackCopy(c, o, from) == StackAssign(c, o, from) /\ Copied(o, from)
StackMove(c, o, from) == StackAssign(c, o, from) /\ Moved(o, from)

LcNext ==
  \E c \in Callers :
    \/ NotifyOne(c)
    \/ \E o \in Objects :
         \/ QueuePush(c, o) \/ QueuePop(c, o) \/ WaitInPop(c, o) \/ QueueClear(c, o)
         \/ StackPush(c, o) \/ StackPop(c, o) \/ StackClear(c, o)
    \/ \E o, from \in Objects :
         \/ QueueCopy(c, o, from) \/ QueueMove(c, o, from)
         \/ StackCopy(c, o, from) \/ StackMove(c, o, from)

LcSpec == LcInit /\ [][LcNext]_lcVars

-----------------------------------------------------------------------------
(* Properties.                                                             *)

\* While a consumer sleeps in pop, every element of its queue has a woken
\* consumer or a notification of its own on the way, also when the elements
\* came all at once, by an assignment.
NoSleeperForgotten ==
  \A o \in Objects : Sleepers(o) # {} =>
    contents[o] <=
      Cardinality({c \in Callers : caller[c] \in {"woken", "notify"} /\ target[c] = o})
=============================================================================
