---------------------------- MODULE ThreadPool ----------------------------
(***************************************************************************)
(* The thread pool of concurrent/04-con-func/thread_pool.cc.  Any thread   *)
(* may commit a task; every worker waits for one, takes the oldest and     *)
(* runs it outside the mutex; the destructor of the singleton stops the    *)
(* workers and joins them.                                                 *)
(*                                                                         *)
(* The flag _stop is stored without the mutex and commit notifies after it *)
(* has released it, so the test of the flag, the push and the notification *)
(* are three steps of a committer, and the predicate of the condition wait *)
(* and the wait that follows are two steps of a worker that holds the      *)
(* mutex in between.  A relaxed load that returns an old value of _stop is *)
(* a load that was made earlier.                                           *)
(*                                                                         *)
(* The members are destroyed in the reverse of their declaration order:    *)
(* the vector of jthreads, which joins them, before the queue, the         *)
(* condition variable and the mutex, so these outlive the workers.         *)
(***************************************************************************)
EXTENDS Integers, Sequences, FiniteSets

CONSTANTS
  Workers,    \* the threads of _threads
  Tasks,      \* the tasks, each committed at most once: the bound
  NoTask      \* an empty Task

ASSUME ThreadPoolAssumption ==
  /\ IsFiniteSet(Workers)
  /\ NoTask \notin Tasks

VARIABLES
  tasks,      \* _tasks
  stop,       \* _stop
  worker,     \* where each worker is
  hand,       \* the local variable task of each worker
  commit,     \* where the call of commit is that brings each task
  owner,      \* where the destructor is
  pushed,     \* history: the tasks in the order they were pushed
  taken,      \* history: the tasks in the order they were popped
  ran         \* history: the tasks that have been run

vars == <<tasks, stop, worker, hand, commit, owner, pushed, taken, ran>>

TypeOK ==
  /\ tasks \in Seq(Tasks)
  /\ stop \in BOOLEAN
  /\ worker \in [Workers -> {"lock", "predicate", "block", "waiting", "woken",
                             "check", "run", "exited"}]
  /\ hand \in [Workers -> Tasks \cup {NoTask}]
  /\ \A w \in Workers : worker[w] = "run" <=> hand[w] # NoTask
  /\ commit \in [Tasks -> {"idle", "tested", "pushed", "returned", "refused"}]
  /\ owner \in {"running", "stopped", "joining", "joined"}
  /\ pushed \in Seq(Tasks)
  /\ taken \in Seq(Tasks)
  /\ ran \in SUBSET Tasks

Init ==
  /\ tasks = <<>>
  /\ stop = FALSE
  /\ worker = [w \in Workers |-> "lock"]
  /\ hand = [w \in Workers |-> NoTask]
  /\ commit = [t \in Tasks |-> "idle"]
  /\ owner = "running"
  /\ pushed = <<>>
  /\ taken = <<>>
  /\ ran = {}

Waiting == {w \in Workers : worker[w] = "waiting"}

\* _mtx is held: a commit holds it within one step only.
Holding(w) == worker[w] \in {"predicate", "block", "check"}
Unlocked == \A w \in Workers : ~Holding(w)

-----------------------------------------------------------------------------
(* commit.                                                                 *)

Go(t, from, to) ==
  /\ owner # "joined"
  /\ commit[t] = from
  /\ commit' = [commit EXCEPT ![t] = to]

\* The test of _stop, and the exception.
TestStop(t) ==
  /\ Go(t, "idle", IF stop THEN "refused" ELSE "tested")
  /\ UNCHANGED <<tasks, stop, worker, hand, owner, pushed, taken, ran>>

Push(t) ==
  /\ Go(t, "tested", "pushed")
  /\ Unlocked
  /\ tasks' = Append(tasks, t)
  /\ pushed' = Append(pushed, t)
  /\ UNCHANGED <<stop, worker, hand, owner, taken, ran>>

\* Mutant: a worker is notified only of a task that made the queue non-empty.
WakeOne_WhenFirst ==
  IF Waiting = {} \/ Len(tasks) > 1
    THEN worker' = worker
    ELSE \E w \in Waiting : worker' = [worker EXCEPT ![w] = "woken"]

\* notify_one: some waiting worker, if any, leaves the wait set.
WakeOne ==
  IF Waiting = {}
    THEN worker' = worker
    ELSE \E w \in Waiting : worker' = [worker EXCEPT ![w] = "woken"]

Notify(t) ==
  /\ Go(t, "pushed", "returned")
  /\ WakeOne
  /\ UNCHANGED <<tasks, stop, hand, owner, pushed, taken, ran>>

Commit(t) == TestStop(t) \/ Push(t) \/ Notify(t)

-----------------------------------------------------------------------------
(* A worker thread.                                                        *)

Move(w, from, to) ==
  /\ worker[w] = from
  /\ worker' = [worker EXCEPT ![w] = to]

Acquire(w) ==
  /\ Unlocked
  /\ Move(w, "lock", "predicate") \/ Move(w, "woken", "predicate")
  /\ UNCHANGED <<tasks, stop, hand, commit, owner, pushed, taken, ran>>

Predicate(w) ==
  /\ Move(w, "predicate", IF stop \/ tasks # <<>> THEN "check" ELSE "block")
  /\ UNCHANGED <<tasks, stop, hand, commit, owner, pushed, taken, ran>>

\* The wait releases the mutex and joins the wait set in one step.
Block(w) ==
  /\ Move(w, "block", "waiting")
  /\ UNCHANGED <<tasks, stop, hand, commit, owner, pushed, taken, ran>>

SpuriousWakeup(w) ==
  /\ Move(w, "waiting", "woken")
  /\ UNCHANGED <<tasks, stop, hand, commit, owner, pushed, taken, ran>>

\* Mutant: a stopped worker leaves the tasks that are still queued.
Leave_WithTasks(w) ==
  /\ stop
  /\ Move(w, "check", "exited")
  /\ UNCHANGED <<tasks, stop, hand, commit, owner, pushed, taken, ran>>

Leave(w) ==
  /\ stop /\ tasks = <<>>
  /\ Move(w, "check", "exited")
  /\ UNCHANGED <<tasks, stop, hand, commit, owner, pushed, taken, ran>>

\* Mutant: the front is copied out and not popped.
Take_NoPop(w) ==
  /\ ~(stop /\ tasks = <<>>)
  /\ Move(w, "check", "run")
  /\ hand' = [hand EXCEPT ![w] = Head(tasks)]
  /\ taken' = Append(taken, Head(tasks))
  /\ UNCHANGED <<tasks, stop, commit, owner, pushed, ran>>

Take(w) ==
  /\ ~(stop /\ tasks = <<>>)
  /\ Move(w, "check", "run")
  /\ hand' = [hand EXCEPT ![w] = Head(tasks)]
  /\ tasks' = Tail(tasks)
  /\ taken' = Append(taken, Head(tasks))
  /\ UNCHANGED <<stop, commit, owner, pushed, ran>>

\* task(), whatever it does, and the end of its scope.
Run(w) ==
  /\ Move(w, "run", "lock")
  /\ ran' = ran \cup {hand[w]}
  /\ hand' = [hand EXCEPT ![w] = NoTask]
  /\ UNCHANGED <<tasks, stop, commit, owner, pushed, taken>>

Worker(w) ==
  \/ Acquire(w) \/ Predicate(w) \/ Block(w)
  \/ Leave(w) \/ Take(w) \/ Run(w)

-----------------------------------------------------------------------------
(* The destructor.                                                         *)

StoreStop ==
  /\ owner = "running"
  /\ owner' = "stopped"
  /\ stop' = TRUE
  /\ UNCHANGED <<tasks, worker, hand, commit, pushed, taken, ran>>

\* Mutant: notify_one in the place of notify_all.
NotifyStop_One ==
  /\ owner = "stopped"
  /\ owner' = "joining"
  /\ WakeOne
  /\ UNCHANGED <<tasks, stop, hand, commit, pushed, taken, ran>>

NotifyStop ==
  /\ owner = "stopped"
  /\ owner' = "joining"
  /\ worker' = [w \in Workers |->
                  IF worker[w] = "waiting" THEN "woken" ELSE worker[w]]
  /\ UNCHANGED <<tasks, stop, hand, commit, pushed, taken, ran>>

Join ==
  /\ owner = "joining"
  /\ \A w \in Workers : worker[w] = "exited"
  /\ owner' = "joined"
  /\ UNCHANGED <<tasks, stop, worker, hand, commit, pushed, taken, ran>>

Destructor == StoreStop \/ NotifyStop \/ Join

Next ==
  \/ \E t \in Tasks : Commit(t)
  \/ \E w \in Workers : Worker(w) \/ SpuriousWakeup(w)
  \/ Destructor

\* The operating system runs every worker, and a committer that has pushed
\* its task goes on to notify; nobody has to commit, the program need not
\* end, and no wait has to wake up by itself.
Fairness ==
  /\ \A w \in Workers : WF_vars(Worker(w))
  /\ \A t \in Tasks : WF_vars(Notify(t))

Spec == Init /\ [][Next]_vars /\ Fairness

-----------------------------------------------------------------------------
(* Properties.                                                             *)

\* Tasks are popped in the order they were pushed, and a popped one is in the
\* hand of one worker or has been run, never both and never twice: no task is
\* lost or run again however many workers compete (lines 38-52).
TakenOnce ==
  /\ pushed = taken \o tasks
  /\ \A t \in Tasks : (\E i \in 1 .. Len(taken) : taken[i] = t)
       <=> (t \in ran \/ \E w \in Workers : hand[w] = t)
  /\ \A v, w \in Workers : hand[v] = hand[w] /\ hand[v] # NoTask => v = w
  /\ \A w \in Workers : hand[w] \notin ran

Asleep == {w \in Workers : worker[w] \in {"block", "waiting"}}
Free == {w \in Workers : worker[w] \in {"lock", "woken", "predicate", "check"}}
Notifying == {t \in Tasks : commit[t] = "pushed"}

\* commit notifies one worker, outside the mutex and without looking (line
\* 87).  That is enough: while a worker sleeps, every queued task has a free
\* worker on its way to the queue or a notification still to come, so no task
\* ever waits behind a busy worker while another one sleeps.
WorkIsSpread ==
  Asleep # {} => Len(tasks) <= Cardinality(Free) + Cardinality(Notifying)

\* The destructor stores _stop without the mutex, so its notify_all may come
\* between a worker's test of the flag and its wait.  The mutex the worker
\* holds there keeps all the others out of that window: at most one worker
\* misses the stop.
AtMostOneMissesStop ==
  owner \in {"joining", "joined"} =>
    \A v, w \in Asleep : v = w

\* A task that is queued before the stop is run, also when the stop comes
\* before a worker has taken it (line 45 leaves only an empty queue).
AcceptedTaskRuns ==
  \A t \in Tasks :
    (~stop /\ \E i \in 1 .. Len(tasks) : tasks[i] = t) ~> t \in ran
=============================================================================
