------------------------------- MODULE Actor -------------------------------
(***************************************************************************)
(* The actor of concurrent/05-actor-csp/actor.cc: any thread sends         *)
(* messages, one thread runs them in turn, the destructor stops it.        *)
(*                                                                         *)
(* _stop is written with the mutex held, so that the predicate of the wait *)
(* and the wait are one step.  The thread is declared before _cv, _stop    *)
(* and _msgBox: it may run before they are built, and they are destroyed   *)
(* before it is joined.  What it does then is undefined; of the outcomes,  *)
(* the end of the process is a behaviour that stops, and the others are in *)
(* StartEarly and RunLate.                                                 *)
(***************************************************************************)
EXTENDS Integers, Sequences, FiniteSets

CONSTANTS
  Mails       \* the messages, each sent at most once: the bound

VARIABLES
  built,      \* the members declared after the thread have been built
  msgBox,     \* _msgBox
  actor,      \* where the thread is
  running,    \* its local msg: none or one
  mail,       \* where the call of send is that brings each message
  life,       \* where the destructor is; _stop is set when it has begun
  boxed,      \* history: the messages in the order they were pushed
  finished    \* history: the messages in the order they were run

acVars == <<built, msgBox, actor, running, mail, life, boxed, finished>>

AcTypeOK ==
  /\ built \in BOOLEAN
  /\ msgBox \in Seq(Mails)
  /\ actor \in {"ready", "waiting", "run", "exited", "left", "deaf"}
  /\ running \in Seq(Mails)
  /\ mail \in [Mails -> {"idle", "pushed", "returned", "refused"}]
  /\ life \in {"alive", "stopped", "notified", "gone", "joined"}
  /\ boxed \in Seq(Mails)
  /\ finished \in Seq(Mails)

AcInit ==
  /\ built = FALSE
  /\ msgBox = <<>>
  /\ actor = "ready"
  /\ running = <<>>
  /\ mail = [m \in Mails |-> "idle"]
  /\ life = "alive"
  /\ boxed = <<>>
  /\ finished = <<>>

Stopped == life # "alive"                       \* _stop
Destroyed == life \in {"gone", "joined"}        \* _cv, _stop and _msgBox

-----------------------------------------------------------------------------
(* Construction and destruction.                                           *)

FinishConstructor ==
  /\ ~built
  /\ built' = TRUE
  /\ UNCHANGED <<msgBox, actor, running, mail, life, boxed, finished>>

SetStop ==
  /\ built /\ life = "alive"
  /\ life' = "stopped"
  /\ UNCHANGED <<built, msgBox, actor, running, mail, boxed, finished>>

Woken == IF actor = "waiting" THEN "ready" ELSE actor

NotifyActor ==
  /\ life = "stopped"
  /\ life' = "notified"
  /\ actor' = Woken
  /\ UNCHANGED <<built, msgBox, running, mail, boxed, finished>>

\* No call of send may last longer than the actor: that is up to the callers.
DestroyMembers ==
  /\ life = "notified"
  /\ \A m \in Mails : mail[m] # "pushed"
  /\ life' = "gone"
  /\ UNCHANGED <<built, msgBox, actor, running, mail, boxed, finished>>

JoinActor ==
  /\ life = "gone" /\ actor \in {"exited", "left"}
  /\ life' = "joined"
  /\ UNCHANGED <<built, msgBox, actor, running, mail, boxed, finished>>

-----------------------------------------------------------------------------
(* send.                                                                   *)

Refuse(m) ==
  /\ built /\ Stopped /\ ~Destroyed
  /\ mail[m] = "idle"
  /\ mail' = [mail EXCEPT ![m] = "refused"]
  /\ UNCHANGED <<built, msgBox, actor, running, life, boxed, finished>>

PushMail(m) ==
  /\ built /\ ~Stopped
  /\ mail[m] = "idle"
  /\ mail' = [mail EXCEPT ![m] = "pushed"]
  /\ msgBox' = Append(msgBox, m)
  /\ boxed' = Append(boxed, m)
  /\ UNCHANGED <<built, actor, running, life, finished>>

\* Mutant: only when the box held nothing else.
NotifyMail_WhenFirst(m) ==
  /\ mail[m] = "pushed"
  /\ mail' = [mail EXCEPT ![m] = "returned"]
  /\ actor' = IF Len(msgBox) = 1 THEN Woken ELSE actor
  /\ UNCHANGED <<built, msgBox, running, life, boxed, finished>>

NotifyMail(m) ==
  /\ mail[m] = "pushed"
  /\ mail' = [mail EXCEPT ![m] = "returned"]
  /\ actor' = Woken
  /\ UNCHANGED <<built, msgBox, running, life, boxed, finished>>

-----------------------------------------------------------------------------
(* The thread.                                                             *)

\* It reads memory nobody has written: it may take the flag as set and the box
\* as empty and leave, or wait on a condition variable whose constructor then
\* forgets the waiter.  Or it is late enough after all.
StartEarly ==
  /\ ~built /\ actor = "ready"
  /\ actor' \in {"left", "deaf"}
  /\ UNCHANGED <<built, msgBox, running, mail, life, boxed, finished>>

\* Mutant: the flag alone ends the loop.
TakeMail_StopFirst ==
  /\ built /\ ~Destroyed /\ actor = "ready"
  /\ IF Stopped
       THEN /\ actor' = "exited"
            /\ UNCHANGED <<msgBox, running>>
       ELSE IF msgBox # <<>>
       THEN /\ actor' = "run"
            /\ running' = <<Head(msgBox)>>
            /\ msgBox' = Tail(msgBox)
       ELSE /\ actor' = "waiting"
            /\ UNCHANGED <<msgBox, running>>
  /\ UNCHANGED <<built, mail, life, boxed, finished>>

TakeMail ==
  /\ built /\ ~Destroyed /\ actor = "ready"
  /\ IF msgBox # <<>>
       THEN /\ actor' = "run"
            /\ running' = <<Head(msgBox)>>
            /\ msgBox' = Tail(msgBox)
       ELSE /\ actor' = IF Stopped THEN "exited" ELSE "waiting"
            /\ UNCHANGED <<msgBox, running>>
  /\ UNCHANGED <<built, mail, life, boxed, finished>>

WakeSpuriously ==
  /\ actor = "waiting"
  /\ actor' = "ready"
  /\ UNCHANGED <<built, msgBox, running, mail, life, boxed, finished>>

RunMail ==
  /\ actor = "run"
  /\ actor' = "ready"
  /\ finished' = finished \o running
  /\ running' = <<>>
  /\ UNCHANGED <<built, msgBox, mail, life, boxed>>

\* The members are gone.  Their memory still says "stop", and whether the box
\* was empty; what was in it is freed, and the thread that takes it as a
\* message stops the process.
RunLate ==
  /\ Destroyed /\ actor = "ready" /\ msgBox = <<>>
  /\ actor' = "exited"
  /\ UNCHANGED <<built, msgBox, running, mail, life, boxed, finished>>

AcNext ==
  \/ FinishConstructor \/ SetStop \/ NotifyActor \/ DestroyMembers \/ JoinActor
  \/ \E m \in Mails : Refuse(m) \/ PushMail(m) \/ NotifyMail(m)
  \/ StartEarly \/ TakeMail \/ WakeSpuriously \/ RunMail \/ RunLate

\* The thread, and a sender that has pushed, are run by the operating system.
AcFairness ==
  /\ WF_acVars(TakeMail \/ RunMail)
  /\ \A m \in Mails : WF_acVars(NotifyMail(m))

AcSpec == AcInit /\ [][AcNext]_acVars /\ AcFairness

-----------------------------------------------------------------------------
(* Properties.                                                             *)

\* Messages run in the order they were sent, each once, and a thread that
\* started in time leaves only an empty box behind, whenever the stop comes
\* (lines 17-25); it never sleeps on a message or on the stop, though both
\* notifications come after the mutex has been released.
ActorInOrder ==
  /\ boxed = finished \o running \o msgBox
  /\ actor = "exited" => msgBox = <<>>
  /\ actor = "waiting" =>
       /\ msgBox = <<>> \/ \E m \in Mails : mail[m] = "pushed"
       /\ life \in {"alive", "stopped"}

\* A message sent to an actor whose thread started in time is run, unless the
\* actor is destroyed first.
EveryMailRuns ==
  \A m \in Mails :
    (mail[m] = "pushed" /\ actor \notin {"left", "deaf"})
      ~> (\E i \in 1 .. Len(finished) : finished[i] = m) \/ life # "alive"
=============================================================================
