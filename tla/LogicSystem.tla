---------------------------- MODULE LogicSystem ----------------------------
(***************************************************************************)
(* The logic layer of the asio servers                                     *)
(* (asio/15-iothread_pool/src/core/logic/LogicSystem.cc; 13, 14 and 17     *)
(* differ from it in nothing modelled here, and 12 in not testing the stop *)
(* token): the io threads post received messages to a queue, one worker    *)
(* thread takes them out and handles them, and the destructor of the       *)
(* singleton stops the worker.                                             *)
(*                                                                         *)
(* A critical section is one step, because every access to the queue is    *)
(* inside one, except where _b_stop matters: it is written without the     *)
(* mutex, so the predicate of the condition wait and the wait that follows *)
(* are separate steps of the worker, which holds the mutex in between.     *)
(*                                                                         *)
(* The members of _impl are destroyed in the reverse of their declaration  *)
(* order: handlers, flag, condition variable and mutex, and only then the  *)
(* jthread, whose destructor joins the worker.  In 17 the mutex and the    *)
(* condition variable outlive the join; the handlers and the flag do not.  *)
(***************************************************************************)
EXTENDS Integers, Sequences

CONSTANTS
  Messages,         \* What the io threads post, each at most once: the bound.
  PostersOutlive    \* Whether io threads still run while statics are
                    \* destroyed: with a pool they do (14, 15), with the
                    \* main thread only (12, 13) they do not.

VARIABLES
  queue,      \* _msg_queue
  mutex,      \* _queue_mutex is held: only the worker holds it across steps
  b_stop,     \* _b_stop
  worker,     \* where the worker thread is
  inHand,     \* the worker's logic_node: no message or one
  owner,      \* where the destructor is
  posted,     \* history: the messages in the order they were pushed
  handled     \* history: the messages in the order they were processed

vars == <<queue, mutex, b_stop, worker, inHand, owner, posted, handled>>

WorkerStates == {"loop", "lock", "predicate", "block", "waiting", "woken", "check",
                 "process", "drain", "processRest", "exited"}
OwnerStates == {"running", "stopped", "notified", "membersGone", "joining", "joined"}

TypeOK ==
  /\ queue \in Seq(Messages)
  /\ mutex \in BOOLEAN
  /\ b_stop \in BOOLEAN
  /\ worker \in WorkerStates
  /\ inHand \in Seq(Messages) /\ Len(inHand) <= 1
  /\ owner \in OwnerStates
  /\ posted \in Seq(Messages)
  /\ handled \in Seq(Messages)

Init ==
  /\ queue = <<>>
  /\ mutex = FALSE
  /\ b_stop = FALSE
  /\ worker = "loop"
  /\ inHand = <<>>
  /\ owner = "running"
  /\ posted = <<>>
  /\ handled = <<>>

-----------------------------------------------------------------------------
(* PostMsgToLogicQueue, one critical section.                              *)

\* notify_one: the waiting worker, if any, leaves the wait set.
Notified == IF worker = "waiting" THEN "woken" ELSE worker

\* Mutant: no notification.
Post_Silent(m) ==
  /\ owner = "running" \/ PostersOutlive
  /\ \A i \in 1 .. Len(posted) : posted[i] # m
  /\ ~mutex
  /\ queue' = Append(queue, m)
  /\ posted' = Append(posted, m)
  /\ UNCHANGED <<mutex, b_stop, worker, inHand, owner, handled>>

Post(m) ==
  /\ owner = "running" \/ PostersOutlive
  /\ \A i \in 1 .. Len(posted) : posted[i] # m
  /\ ~mutex
  /\ queue' = Append(queue, m)
  /\ posted' = Append(posted, m)
  /\ worker' = IF Len(queue') = 1 THEN Notified ELSE worker
  /\ UNCHANGED <<mutex, b_stop, inHand, owner, handled>>

-----------------------------------------------------------------------------
(* The worker thread.                                                      *)

Move(from, to) == worker = from /\ worker' = to

\* The loop condition: jthread's destructor requests the stop just before it
\* joins, when the members are already gone.
StopRequested == owner \in {"joining", "joined"}
MembersGone == owner \in {"membersGone", "joining", "joined"}

Loop ==
  /\ Move("loop", IF StopRequested THEN "drain" ELSE "lock")
  /\ UNCHANGED <<queue, mutex, b_stop, inHand, owner, posted, handled>>

\* Mutant: the predicate forgets the queue.
Predicate_StopOnly ==
  /\ Move("predicate", IF b_stop THEN "check" ELSE "block")
  /\ UNCHANGED <<queue, mutex, b_stop, inHand, owner, posted, handled>>

\* The predicate of _queue_cv.wait, evaluated with the mutex held.
Predicate ==
  /\ Move("predicate", IF queue # <<>> \/ b_stop THEN "check" ELSE "block")
  /\ UNCHANGED <<queue, mutex, b_stop, inHand, owner, posted, handled>>

\* The wait releases the mutex and joins the wait set in one step.
Block ==
  /\ Move("block", "waiting")
  /\ mutex' = FALSE
  /\ UNCHANGED <<queue, b_stop, inHand, owner, posted, handled>>

SpuriousWakeup ==
  /\ Move("waiting", "woken")
  /\ UNCHANGED <<queue, mutex, b_stop, inHand, owner, posted, handled>>

Acquire ==
  /\ ~mutex
  /\ Move("lock", "predicate") \/ Move("woken", "predicate")
  /\ mutex' = TRUE
  /\ UNCHANGED <<queue, b_stop, inHand, owner, posted, handled>>

\* Mutant: the newest message is taken.
PopFront_Newest ==
  /\ inHand' = <<queue[Len(queue)]>>
  /\ queue' = SubSeq(queue, 1, Len(queue) - 1)

PopFront ==
  /\ inHand' = <<Head(queue)>>
  /\ queue' = Tail(queue)

\* After the wait: leave the loop if stopped, else take the front; unlock.
Check ==
  /\ mutex' = FALSE
  /\ \/ b_stop /\ Move("check", "drain") /\ UNCHANGED <<queue, inHand>>
     \/ ~b_stop /\ Move("check", "process") /\ PopFront
  /\ UNCHANGED <<b_stop, owner, posted, handled>>

\* ProcessMessage looks the handler up in _msg_handlers and calls it.  In a
\* destroyed map the lookup may find nothing.
ProcessMessage(from, to) ==
  /\ Move(from, to)
  /\ \/ handled' = handled \o inHand
     \/ MembersGone /\ handled' = handled
  /\ inHand' = <<>>
  /\ UNCHANGED <<queue, mutex, b_stop, owner, posted>>

\* The loop after a stop takes what is left, one message per critical section.
Drain ==
  /\ ~mutex
  /\ \/ queue = <<>> /\ Move("drain", "exited") /\ UNCHANGED <<queue, inHand>>
     \/ queue # <<>> /\ Move("drain", "processRest") /\ PopFront
  /\ UNCHANGED <<mutex, b_stop, owner, posted, handled>>

Process == ProcessMessage("process", "loop")
ProcessRest == ProcessMessage("processRest", "drain")

Worker ==
  \/ Loop \/ Predicate \/ Block \/ Acquire \/ Check \/ Process \/ Drain
  \/ ProcessRest

-----------------------------------------------------------------------------
(* The destructor.                                                         *)

Advance(from, to) == owner = from /\ owner' = to

StoreStop ==
  /\ Advance("running", "stopped")
  /\ b_stop' = TRUE
  /\ UNCHANGED <<queue, mutex, worker, inHand, posted, handled>>

NotifyStop ==
  /\ Advance("stopped", "notified")
  /\ worker' = Notified
  /\ UNCHANGED <<queue, mutex, b_stop, inHand, posted, handled>>

\* _msg_handlers, _b_stop, _queue_cv and _queue_mutex are destroyed.
DestroyMembers ==
  /\ Advance("notified", "membersGone")
  /\ UNCHANGED <<queue, mutex, b_stop, worker, inHand, posted, handled>>

RequestStop ==
  /\ Advance("membersGone", "joining")
  /\ UNCHANGED <<queue, mutex, b_stop, worker, inHand, posted, handled>>

Join ==
  /\ Advance("joining", "joined")
  /\ worker = "exited"
  /\ UNCHANGED <<queue, mutex, b_stop, worker, inHand, posted, handled>>

Destructor == StoreStop \/ NotifyStop \/ DestroyMembers \/ RequestStop \/ Join

Next ==
  \/ \E m \in Messages : Post(m)
  \/ Worker
  \/ SpuriousWakeup
  \/ Destructor

\* The operating system runs the worker and, once it has begun, the
\* destructor; nothing obliges an io thread to post, a program to end or a
\* wait to wake up by itself.
Fairness ==
  /\ WF_vars(Worker)
  /\ WF_vars(NotifyStop \/ DestroyMembers \/ RequestStop \/ Join)

Spec == Init /\ [][Next]_vars /\ Fairness

-----------------------------------------------------------------------------
(* Properties.                                                             *)

\* While the handlers exist every posted message is handled, in the worker's
\* hand or in the queue, in the order of the posts: none is lost, handled
\* twice or overtaken, also across the stop (lines 50-85).
HandledInOrder == ~MembersGone => posted = handled \o inHand \o queue

\* PostMsgToLogicQueue notifies only when the queue was empty (line 137).
\* That is enough: the worker never sleeps on a queue that holds a message.
SleepsOnlyWhenEmpty == worker \in {"block", "waiting"} => queue = <<>>

\* In a server that keeps running every posted message is handled: the worker
\* catches up with the bounded number of posts for good.
EveryMessageHandled == <>[](handled = posted \/ owner # "running")

\* _b_stop says "whether the logic layer stops working" (line 35): once it is
\* set the worker leaves its loops, and the destructor that joins it returns.
WorkerStops == b_stop ~> worker = "exited"
=============================================================================
