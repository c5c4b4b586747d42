---------------------------- MODULE ThreadLibrary ----------------------------
(***************************************************************************)
(* The functions of concurrent/01, 02, 03 and 04 that show the threading   *)
(* library, and the mains of three clients: for each, what its main thread *)
(* and the threads it starts do, one operation of the library or one       *)
(* access to shared data after the other, and below them what the          *)
(* operations do.  Sleeps and prints are left out: a thread may pause at   *)
(* any time.                                                               *)
(***************************************************************************)
EXTENDS Integers, Sequences, FiniteSets

CONSTANTS
  Items,        \* how many values condition_variable.cc hands over (20)
  RoomFor       \* how many its queue holds (10)

Do(what, on) == [what |-> what, on |-> on, arg |-> 0]
DoWith(what, on, arg) == [what |-> what, on |-> on, arg |-> arg]

Start(h, new) == DoWith("start", h, new)
Joins(h) == Do("join", h)
Lock(mutex) == Do("lock", mutex)
Unlock(mutex) == Do("unlock", mutex)
Read(data) == Do("read", data)
Write(data) == Do("write", data)
Ends(local) == Do("ends", local)             \* the lifetime of a local is over

\* The destructors: of a std::thread, and of a std::jthread, that stops and joins.
Destroy(h) == <<Do("destroy", h)>>
JThreadEnds(h) == <<Do("request_stop", h), Joins(h)>>

\* while (!stoken.stop_requested()) { body }, and for (i < times) { body }.
UntilStopped(body) ==
  <<DoWith("while", "stop", Len(body) + 3)>> \o body \o <<DoWith("back", "top", 1)>>
Times(times, body) ==
  <<DoWith("for", times, Len(body) + 3)>> \o body \o <<DoWith("back", "top", 1)>>

\* A std::thread that is started, joined and destroyed.
Joined == <<Start("thr", "t1"), Joins("thr")>> \o Destroy("thr")

-----------------------------------------------------------------------------
(* 01-thread-basic/main.cc.  The locals a thread refers to live until it   *)
(* has been joined.                                                        *)

basic_func1 == [main |-> Joined \o <<Ends("str")>>, t1 |-> <<Read("str")>>]

basic_func2 ==
  [main |-> <<Start("thr", "t1"), Joins("thr"), Start("thr2", "t2"), Joins("thr2")>>
            \o Destroy("thr2") \o Destroy("thr"),
   t1 |-> <<>>, t2 |-> <<>>]

basic_func3 == [main |-> Joined, t1 |-> <<>>]

basic_func4 == [main |-> Joined, t1 |-> <<>>]

basic_func5 == [main |-> Joined \o <<Ends("test")>>, t1 |-> <<Read("test")>>]

\* ~thread_guard
guardEnds == <<Do("join_if", "thr")>>

basic_func6 == [main |-> <<Start("thr", "t1")>> \o guardEnds \o Destroy("thr"), t1 |-> <<>>]

basic_func7 ==
  [main |-> <<Start("thr", "t1"), Do("request_stop", "thr")>> \o JThreadEnds("thr"),
   t1 |-> UntilStopped(<<>>)]

basic_func8 ==
  [main |-> <<Start("thr", "t1")>> \o JThreadEnds("thr") \o <<Ends("str")>>,
   t1 |-> <<Read("str")>>]

-----------------------------------------------------------------------------
(* 02-thread-control/main.cc.                                              *)

control_func1_err ==
  [main |-> <<Start("thr", "t1"), DoWith("move", "thr2", "thr"), Start("thr", "t2"),
              DoWith("move", "thr", "thr2"), Joins("thr")>>
            \o Destroy("thr2") \o Destroy("thr"),
   t1 |-> <<>>, t2 |-> <<>>]

control_func1 ==
  [main |-> <<Start("thr", "t1"), DoWith("move", "thr2", "thr"), Start("thr", "t2"),
              Do("detach", "thr"), DoWith("move", "thr", "thr2"), Joins("thr")>>
            \o Destroy("thr2") \o Destroy("thr"),
   t1 |-> <<>>, t2 |-> <<>>]

\* rvo_use starts its thread in the place of thr1; nrvo_use has a local handle,
\* from which it may be moved to thr2 (thr3 is that local).
nrvo_use == <<Start("thr3", "t2"), DoWith("move", "thr2", "thr3")>> \o Destroy("thr3")

control_func2 ==
  [main |-> <<Start("thr", "t1"), Joins("thr")>> \o nrvo_use \o <<Joins("thr2")>>
            \o Destroy("thr2") \o Destroy("thr"),
   t1 |-> <<>>, t2 |-> <<>>]

\* Each thread has a thread_local_var of its own.
control_func4 ==
  [main |-> <<Start("thr", "t1"), Read("var of main")>> \o JThreadEnds("thr"),
   t1 |-> <<Write("var of t1"), Read("var of t1")>>]

-----------------------------------------------------------------------------
(* 03-mutex.                                                               *)

\* Two threads that count up and down until main stops them.
Counting(body) ==
  [main |-> <<Start("thr", "t1"), Start("thr2", "t2")>>
            \o JThreadEnds("thr2") \o JThreadEnds("thr"),
   t1 |-> UntilStopped(body), t2 |-> UntilStopped(body)]

Counted == <<Read("shared_data"), Write("shared_data")>>

mutex_func1 == Counting(<<Lock("mtx")>> \o Counted \o <<Unlock("mtx")>>)

\* try_lock_for that gives up goes on behind the unlock.
timed_func == Counting(<<DoWith("try_lock_for", "mtx", 6)>> \o Counted \o <<Unlock("mtx")>>)

spin_func == Counting(<<Lock("spin_lock")>> \o Counted \o <<Unlock("spin_lock")>>)

lock_func1 ==
  [main |-> <<Start("thr", "t1")>> \o JThreadEnds("thr"),
   t1 |-> UntilStopped(<<Lock("mtx")>> \o Counted \o <<Unlock("mtx")>>)]

\* std::lock and scoped_lock take both mutexes or neither.
BothLocked == <<DoWith("lock_both", "mtx1", "mtx2")>> \o Counted \o
              <<Unlock("mtx2"), Unlock("mtx1")>>

lock_func2 == [main |-> <<Start("thr", "t1")>> \o JThreadEnds("thr"), t1 |-> BothLocked]

lock_func3 == [main |-> <<Start("thr", "t1")>> \o JThreadEnds("thr"), t1 |-> BothLocked]

increment == <<Lock("mtx"), Write("count"), Unlock("mtx")>>
decrement == <<Lock("mtx"), Write("count"), Unlock("mtx")>>
callAll == <<Lock("mtx")>> \o increment \o decrement \o <<Unlock("mtx")>>

\* A use of class error_use, that main does not make.
recursive_error == [main |-> callAll]

\* readFile returns before its unlock: a call leaves the mutex locked once more.
createFile == <<Lock("_rec_mtx"), Write("_files"), Unlock("_rec_mtx")>>
readFile == <<Lock("_rec_mtx"), Write("_files")>>
copyFile == <<Lock("_rec_mtx")>> \o readFile \o createFile \o <<Unlock("_rec_mtx")>>

recursive_main == [main |-> createFile \o createFile \o copyFile]

rwlock_write == <<Lock("shared_mutex"), Write("shared_entries"), Unlock("shared_mutex")>>

\* operator[] changes the map only for a key that is not in it: key1 and key2 are.
rwlock_read == <<Do("lock_shared", "shared_mutex"), Read("shared_entries"),
                 Do("unlock_shared", "shared_mutex")>>

rwlock_func1 ==
  [main |-> <<Write("shared_entries"), Start("thr", "t1"), Start("thr2", "t2"),
              Start("thr3", "t3")>>
            \o JThreadEnds("thr3") \o JThreadEnds("thr2") \o JThreadEnds("thr")
            \o <<Ends("shared_entries")>>,
   t1 |-> rwlock_read, t2 |-> rwlock_read, t3 |-> rwlock_write]

semaphore_func ==
  [main |-> <<Start("thr", "t1"), Do("release", "mts")>> \o JThreadEnds("thr"),
   t1 |-> <<Do("acquire", "mts")>>]

\* push and pop of condition_variable.cc.
cv_push == <<Lock("mtx"), Do("wait", "consume_cv"), DoWith("queue", "data_queue", 1),
             Do("notify_one", "produce_cv"), Unlock("mtx")>>
cv_pop == <<Lock("mtx"), Do("wait", "produce_cv"), DoWith("queue", "data_queue", 0),
            Do("notify_one", "consume_cv"), Unlock("mtx")>>

cv_func ==
  [main |-> <<Start("thr", "t1"), Start("thr2", "t2")>>
            \o JThreadEnds("thr2") \o JThreadEnds("thr") \o <<Ends("data_queue")>>,
   t1 |-> Times(Items, cv_push), t2 |-> Times(Items, cv_pop)]

-----------------------------------------------------------------------------
(* 04-con-func/main.cc.                                                    *)

\* The future of std::async waits for its thread when it is destroyed.
future_func1 ==
  [main |-> <<Start("thr", "t1"), Do("get", "res"), Joins("thr")>>,
   t1 |-> <<Do("set_value", "res")>>]

future_func2 ==
  [main |-> <<Start("thr", "t1"), Do("detach", "thr")>> \o Destroy("thr")
            \o <<Do("get", "res")>>,
   t1 |-> <<Do("set_value", "res")>>]

\* The promise is a local of func3 that the detached thread refers to.
future_func3 ==
  [main |-> <<Start("thr", "t1"), Do("detach", "thr")>> \o Destroy("thr")
            \o <<Do("get", "prom"), Ends("prom")>>,
   t1 |-> <<Do("set_value", "prom")>>]

-----------------------------------------------------------------------------
(* The clients of asio 14, 15 and 17 that load a server: three threads     *)
(* stand for the hundred.  Each has a connection of its own and catches    *)
(* what its calls throw; what it sends and reads is in Clients.            *)

StartAndJoin ==
  [main |-> <<Start("thr", "t1"), Start("thr2", "t2"), Start("thr3", "t3"),
              Joins("thr"), Joins("thr2"), Joins("thr3")>>
            \o Destroy("thr") \o Destroy("thr2") \o Destroy("thr3"),
   t1 |-> <<>>, t2 |-> <<>>, t3 |-> <<>>]

client14_main == StartAndJoin
client15_main == StartAndJoin
client17_main == StartAndJoin

-----------------------------------------------------------------------------

Programs ==
  [basic_func1 |-> basic_func1, basic_func2 |-> basic_func2, basic_func3 |-> basic_func3,
   basic_func4 |-> basic_func4, basic_func5 |-> basic_func5, basic_func6 |-> basic_func6,
   basic_func7 |-> basic_func7, basic_func8 |-> basic_func8,
   control_func1_err |-> control_func1_err, control_func1 |-> control_func1,
   control_func2 |-> control_func2, control_func4 |-> control_func4,
   mutex_func1 |-> mutex_func1, timed_func |-> timed_func, spin_func |-> spin_func,
   lock_func1 |-> lock_func1, lock_func2 |-> lock_func2, lock_func3 |-> lock_func3,
   recursive_error |-> recursive_error, recursive_main |-> recursive_main,
   rwlock_func1 |-> rwlock_func1, semaphore_func |-> semaphore_func, cv_func |-> cv_func,
   future_func1 |-> future_func1, future_func2 |-> future_func2,
   future_func3 |-> future_func3,
   client14_main |-> client14_main, client15_main |-> client15_main,
   client17_main |-> client17_main]

-----------------------------------------------------------------------------
(***************************************************************************)
(* What the operations do: std::thread and jthread, the mutexes, the       *)
(* condition variable, the semaphore and the future of the C++ library, as *)
(* these functions use them.                                               *)
(***************************************************************************)
CONSTANT MaxRounds     \* bound: how often a thread goes round before it is stopped

VARIABLES
  shown,        \* the function that runs
  line,         \* where each thread is, 0 before it is started
  handle,       \* the thread of each std::thread or jthread, or none
  stopped,      \* the threads whose stop token is set
  holder,        \* who has a mutex
  depth,        \* how often it has locked it
  sharers,      \* who has the shared mutex shared
  rounds,       \* how often each thread has gone round its loop
  filled,       \* data_queue.size()
  waiting,      \* who waits for a condition variable
  permits,      \* the counter of the semaphore
  ready,        \* whether the future has its value
  ended,        \* the locals whose lifetime is over
  terminated    \* std::terminate has been called

tlVars == <<shown, line, handle, stopped, holder, depth, sharers, rounds, filled,
            waiting, permits, ready, ended, terminated>>

Lines == {"main", "t1", "t2", "t3"}
Handles == {"thr", "thr2", "thr3"}
Mutexes == {"mtx", "mtx1", "mtx2", "spin_lock", "_rec_mtx", "shared_mutex"}
NoOne == "no thread"

Code(t) == IF t \in DOMAIN Programs[shown] THEN Programs[shown][t] ELSE <<>>
Running(t) == line[t] # 0 /\ line[t] <= Len(Code(t))
HasEnded(t) == line[t] > Len(Code(t))
Now(t) == Code(t)[line[t]]

TlTypeOK ==
  /\ shown \in DOMAIN Programs
  /\ line \in [Lines -> Nat] /\ rounds \in [Lines -> 0 .. MaxRounds + Items]
  /\ handle \in [Handles -> Lines \cup {NoOne}]
  /\ holder \in [Mutexes -> Lines \cup {NoOne}] /\ depth \in [Mutexes -> Nat]
  /\ stopped \cup sharers \cup waiting \subseteq Lines
  /\ filled \in 0 .. RoomFor /\ permits \in 0 .. 1
  /\ {ready, terminated} \subseteq BOOLEAN

TlInit ==
  /\ shown \in DOMAIN Programs
  /\ line = [t \in Lines |-> IF t = "main" THEN 1 ELSE 0]
  /\ handle = [h \in Handles |-> NoOne]
  /\ holder = [m \in Mutexes |-> NoOne]
  /\ depth = [m \in Mutexes |-> 0]
  /\ stopped = {} /\ sharers = {} /\ waiting = {} /\ ended = {}
  /\ rounds = [t \in Lines |-> 0]
  /\ filled = 0 /\ permits = 0
  /\ ready = FALSE /\ terminated = FALSE

\* Thread t is at such an operation, and goes on behind it or elsewhere.
AtOp(t, what) == ~terminated /\ Running(t) /\ Now(t).what = what
GoesTo(t, target) == line' = [line EXCEPT ![t] = target]
GoesOn(t) == GoesTo(t, line[t] + 1)

threadVars == <<handle, stopped, terminated>>
lockVars == <<holder, depth, sharers, waiting>>
dataVars == <<rounds, filled, permits, ready, ended>>

-----------------------------------------------------------------------------
(* Threads and their handles.  Whoever loses the only handle of a thread   *)
(* that is neither joined nor detached has the program terminated.         *)

\* thr = std::thread(...)
StartThread(t) == LET h == Now(t).on  new == Now(t).arg IN
  /\ AtOp(t, "start")
  /\ IF handle[h] # NoOne
     THEN terminated' = TRUE /\ UNCHANGED <<line, handle>>
     ELSE /\ handle' = [handle EXCEPT ![h] = new]
          /\ line' = [line EXCEPT ![t] = @ + 1, ![new] = 1]
          /\ UNCHANGED terminated
  /\ UNCHANGED <<shown, stopped, lockVars, dataVars>>

\* thr = std::move(other)
MoveThread(t) == LET h == Now(t).on  other == Now(t).arg IN
  /\ AtOp(t, "move")
  /\ IF handle[h] # NoOne
     THEN terminated' = TRUE /\ UNCHANGED <<line, handle>>
     ELSE /\ handle' = [handle EXCEPT ![h] = handle[other], ![other] = NoOne]
          /\ GoesOn(t) /\ UNCHANGED terminated
  /\ UNCHANGED <<shown, stopped, lockVars, dataVars>>

JoinThread(t) == LET h == Now(t).on IN
  /\ AtOp(t, "join") \/ AtOp(t, "join_if")
  /\ IF handle[h] = NoOne THEN Now(t).what = "join_if" ELSE HasEnded(handle[h])
  /\ handle' = [handle EXCEPT ![h] = NoOne]
  /\ GoesOn(t)
  /\ UNCHANGED <<shown, stopped, terminated, lockVars, dataVars>>

DetachThread(t) ==
  /\ AtOp(t, "detach")
  /\ handle' = [handle EXCEPT ![Now(t).on] = NoOne]
  /\ GoesOn(t)
  /\ UNCHANGED <<shown, stopped, terminated, lockVars, dataVars>>

\* ~thread
DestroyThread(t) ==
  /\ AtOp(t, "destroy")
  /\ terminated' = (handle[Now(t).on] # NoOne)
  /\ GoesOn(t)
  /\ UNCHANGED <<shown, handle, stopped, lockVars, dataVars>>

RequestStopOf(t) ==
  /\ AtOp(t, "request_stop")
  /\ stopped' = stopped \cup {handle[Now(t).on]}
  /\ GoesOn(t)
  /\ UNCHANGED <<shown, handle, terminated, lockVars, dataVars>>

\* A loop until the token is set, one of a number of rounds, and its end.
LoopOrLeave(t) ==
  /\ \/ AtOp(t, "while") /\ (t \in stopped \/ rounds[t] < MaxRounds)
        /\ GoesTo(t, IF t \in stopped THEN Now(t).arg ELSE line[t] + 1)
     \/ AtOp(t, "for")
        /\ GoesTo(t, IF rounds[t] = Now(t).on THEN Now(t).arg ELSE line[t] + 1)
  /\ UNCHANGED <<shown, threadVars, lockVars, dataVars>>

GoBack(t) ==
  /\ AtOp(t, "back")
  /\ GoesTo(t, Now(t).arg)
  /\ rounds' = [rounds EXCEPT ![t] = @ + 1]
  /\ UNCHANGED <<shown, threadVars, lockVars, filled, permits, ready, ended>>

-----------------------------------------------------------------------------
(* Mutexes.  A thread that locks a mutex it has waits for itself, unless   *)
(* the mutex is recursive.                                                 *)

May(t, m) ==
  /\ \/ holder[m] = NoOne
     \/ holder[m] = t /\ m = "_rec_mtx"
  /\ m = "shared_mutex" => sharers = {}

TakeAll(t, mutexes) ==
  /\ \A m \in mutexes : May(t, m)
  /\ holder' = [m \in Mutexes |-> IF m \in mutexes THEN t ELSE holder[m]]
  /\ depth' = [m \in Mutexes |-> depth[m] + IF m \in mutexes THEN 1 ELSE 0]

LockMutex(t) ==
  /\ \/ AtOp(t, "lock") /\ TakeAll(t, {Now(t).on})
     \/ AtOp(t, "try_lock_for") /\ TakeAll(t, {Now(t).on})
     \/ AtOp(t, "lock_both") /\ TakeAll(t, {Now(t).on, Now(t).arg})
  /\ GoesOn(t)
  /\ UNCHANGED <<shown, threadVars, sharers, waiting, dataVars>>

\* try_lock_for may give up at any time.
GiveUp(t) ==
  /\ AtOp(t, "try_lock_for")
  /\ GoesTo(t, Now(t).arg)
  /\ UNCHANGED <<shown, threadVars, lockVars, dataVars>>

Released(m) ==
  /\ depth' = [depth EXCEPT ![m] = @ - 1]
  /\ holder' = [holder EXCEPT ![m] = IF depth[m] = 1 THEN NoOne ELSE @]

UnlockMutex(t) ==
  /\ AtOp(t, "unlock")
  /\ Released(Now(t).on)
  /\ GoesOn(t)
  /\ UNCHANGED <<shown, threadVars, sharers, waiting, dataVars>>

LockShared(t) ==
  /\ AtOp(t, "lock_shared") /\ holder[Now(t).on] = NoOne
  /\ sharers' = sharers \cup {t}
  /\ GoesOn(t)
  /\ UNCHANGED <<shown, threadVars, holder, depth, waiting, dataVars>>

UnlockShared(t) ==
  /\ AtOp(t, "unlock_shared")
  /\ sharers' = sharers \ {t}
  /\ GoesOn(t)
  /\ UNCHANGED <<shown, threadVars, holder, depth, waiting, dataVars>>

-----------------------------------------------------------------------------
(* Condition variables, the semaphore and the future.                      *)

\* The predicates of the two waits of condition_variable.cc.
Awaited(cv) == IF cv = "consume_cv" THEN filled < RoomFor ELSE filled > 0

\* wait goes on with the mutex if its predicate holds, else it gives the mutex
\* up and sleeps; woken, it locks the mutex again and looks at the predicate
\* (that it does so is why a spurious wakeup, left out here, does no harm).
Wait(t) ==
  /\ AtOp(t, "wait") /\ t \notin waiting
  /\ \/ holder["mtx"] = t /\ Awaited(Now(t).on)
        /\ GoesOn(t) /\ UNCHANGED <<holder, depth, waiting>>
     \/ holder["mtx"] = t /\ ~Awaited(Now(t).on)
        /\ Released("mtx") /\ waiting' = waiting \cup {t} /\ UNCHANGED line
     \/ holder["mtx"] # t
        /\ TakeAll(t, {"mtx"}) /\ UNCHANGED <<line, waiting>>
  /\ UNCHANGED <<shown, threadVars, sharers, dataVars>>

\* Mutant: the notification goes to the other condition variable.
NotifyOne_Other(t) ==
  /\ AtOp(t, "notify_one")
  /\ LET woken == {u \in waiting : Now(u).on # Now(t).on} IN
       \/ woken = {} /\ UNCHANGED waiting
       \/ \E u \in woken : waiting' = waiting \ {u}
  /\ GoesOn(t)
  /\ UNCHANGED <<shown, threadVars, holder, depth, sharers, dataVars>>

NotifyOne(t) ==
  /\ AtOp(t, "notify_one")
  /\ LET woken == {u \in waiting : Now(u).on = Now(t).on} IN
       \/ woken = {} /\ UNCHANGED waiting
       \/ \E u \in woken : waiting' = waiting \ {u}
  /\ GoesOn(t)
  /\ UNCHANGED <<shown, threadVars, holder, depth, sharers, dataVars>>

\* data_queue.push and pop.
ChangeQueue(t) ==
  /\ AtOp(t, "queue")
  /\ filled' = IF Now(t).arg = 1 THEN filled + 1 ELSE filled - 1
  /\ GoesOn(t)
  /\ UNCHANGED <<shown, threadVars, lockVars, rounds, permits, ready, ended>>

SemaphoreStep(t) ==
  /\ \/ AtOp(t, "release") /\ permits' = permits + 1
     \/ AtOp(t, "acquire") /\ permits > 0 /\ permits' = permits - 1
  /\ GoesOn(t)
  /\ UNCHANGED <<shown, threadVars, lockVars, rounds, filled, ready, ended>>

FutureStep(t) ==
  /\ \/ AtOp(t, "set_value") /\ ready' = TRUE
     \/ AtOp(t, "get") /\ ready /\ UNCHANGED ready
  /\ GoesOn(t)
  /\ UNCHANGED <<shown, threadVars, lockVars, rounds, filled, permits, ended>>

\* An access to shared data, or the end of a local.
Access(t) ==
  /\ AtOp(t, "read") \/ AtOp(t, "write") \/ AtOp(t, "ends")
  /\ ended' = IF Now(t).what = "ends" THEN ended \cup {Now(t).on} ELSE ended
  /\ GoesOn(t)
  /\ UNCHANGED <<shown, threadVars, lockVars, rounds, filled, permits, ready>>

TlStep(t) ==
  \/ StartThread(t) \/ MoveThread(t) \/ JoinThread(t) \/ DetachThread(t) \/ DestroyThread(t)
  \/ RequestStopOf(t) \/ LoopOrLeave(t) \/ GoBack(t)
  \/ LockMutex(t) \/ GiveUp(t) \/ UnlockMutex(t) \/ LockShared(t) \/ UnlockShared(t)
  \/ Wait(t) \/ NotifyOne(t) \/ ChangeQueue(t) \/ SemaphoreStep(t) \/ FutureStep(t)
  \/ Access(t)

TlNext == \E t \in Lines : TlStep(t)

TlSpec == TlInit /\ [][TlNext]_tlVars /\ \A t \in Lines : WF_tlVars(TlStep(t))

-----------------------------------------------------------------------------
(* Properties.                                                             *)

\* What an operation does to data: nothing, reading it, or changing it.
Touches(t) == Running(t) /\ Now(t).what \in {"read", "write", "queue", "ends", "set_value"}
Changes(t) == Touches(t) /\ Now(t).what \in {"write", "queue", "ends"}

\* No thread is about to change, or to end the life of, what another is about
\* to use: each counter, map and queue is used under its mutex, and the locals a
\* thread refers to outlive it (main joins it, or waits for its future).
AccessesApart == \A t, u \in Lines :
  /\ t # u /\ Changes(t) /\ Touches(u) => Now(t).on # Now(u).on
  /\ Touches(t) => Now(t).on \notin ended

\* std::terminate is called where the source says so (func1_err), and only there.
TerminatesInErr == terminated => shown = "control_func1_err"

\* Every function ends, but for the one that terminates and the one with a
\* mutex that its thread has locked already (recursive.cc:25).
FunctionIsOver == HasEnded("main") \/ shown \in {"control_func1_err", "recursive_error"}
FunctionsEnd == <>FunctionIsOver
=============================================================================
