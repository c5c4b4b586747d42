----------------------------- MODULE MCWorkers -----------------------------
(***************************************************************************)
(* The programs of worker threads and mailboxes, for one run of TLC: a     *)
(* behaviour is one of the thread pool, of the actor, of the sending half  *)
(* of a session between its worker and the io threads, of a Go program, of *)
(* a demonstration of the threading library, of one of the memory orders, *)
(* of a test of a container, or of a program with channels, and which of   *)
(* them is chosen at its start.                                            *)
(***************************************************************************)
EXTENDS ThreadPool, Actor, SendQueue, ThreadLibrary, MemoryOrder, ContainerTests

CONSTANTS CPUs, Numbers, GoCapacity, Volleys, ChannelRoom

\* A machine has a processor; the programs send so many numbers.
ASSUME WorkersAssumption == CPUs \in Nat \ {0} /\ {Numbers, Volleys} \subseteq Nat

VARIABLES
  subject,
  func, main, wg, consumeWg, routine, at, printer, channel, strings, chanClosed,
  printed, texts, panicked,
  example, toBuffer, toCloser, toSender, toReceiver, toStored, toTaken,
  backBuffer, backCloser, backSender, backReceiver, backStored, backTaken

goVars == <<func, main, wg, consumeWg, routine, at, printer, channel, strings,
            chanClosed, printed, texts, panicked>>

cpVars ==
  <<example, toBuffer, toCloser, toSender, toReceiver, toStored, toTaken,
    backBuffer, backCloser, backSender, backReceiver, backStored, backTaken>>

G == INSTANCE Goroutines
P == INSTANCE ChannelPrograms

allVars == <<subject, vars, acVars, sqVars, goVars, tlVars, moVars, ctVars, cpVars>>

\* A step of one part.
OfPool ==
  /\ subject = "pool"
  /\ UNCHANGED <<subject, acVars, sqVars, goVars, tlVars, moVars, ctVars, cpVars>>
OfActor ==
  /\ subject = "actor"
  /\ UNCHANGED <<subject, vars, sqVars, goVars, tlVars, moVars, ctVars, cpVars>>
OfSession ==
  /\ subject = "session"
  /\ UNCHANGED <<subject, vars, acVars, goVars, tlVars, moVars, ctVars, cpVars>>
OfGo ==
  /\ subject = "go"
  /\ UNCHANGED <<subject, vars, acVars, sqVars, tlVars, moVars, ctVars, cpVars>>
OfLibrary ==
  /\ subject = "library"
  /\ UNCHANGED <<subject, vars, acVars, sqVars, goVars, moVars, ctVars, cpVars>>
OfMemory ==
  /\ subject = "memory"
  /\ UNCHANGED <<subject, vars, acVars, sqVars, goVars, tlVars, ctVars, cpVars>>
OfTest ==
  /\ subject = "test"
  /\ UNCHANGED <<subject, vars, acVars, sqVars, goVars, tlVars, moVars, cpVars>>
OfChannels ==
  /\ subject = "channels"
  /\ UNCHANGED <<subject, vars, acVars, sqVars, goVars, tlVars, moVars, ctVars>>

MCInit ==
  /\ subject \in {"pool", "actor", "session", "go", "library", "memory", "test", "channels"}
  /\ Init /\ AcInit /\ SqInit /\ G!GoInit /\ TlInit /\ MoInit /\ CtInit /\ P!CpInit
  /\ subject # "go" => func = 2
  /\ subject # "library" => shown = "basic_func1"
  /\ subject # "memory" => litmus = CHOOSE f \in Litmus : TRUE
  /\ subject # "channels" => example = "many"
  /\ subject # "test" => test = "stack push"

MCNext ==
  \/ OfPool /\ Next
  \/ OfActor /\ AcNext
  \/ OfSession /\ SqNext
  \/ OfGo /\ G!GoNext
  \/ OfLibrary /\ TlNext
  \/ OfMemory /\ MoNext
  \/ OfTest /\ CtNext
  \/ OfChannels /\ P!CpNext

\* The fairness each part states, of its own steps.
MCFairness ==
  /\ \A w \in Workers : WF_allVars(OfPool /\ Worker(w))
  /\ \A t \in Tasks : WF_allVars(OfPool /\ Notify(t))
  /\ WF_allVars(OfActor /\ (TakeMail \/ RunMail))
  /\ \A m \in Mails : WF_allVars(OfActor /\ NotifyMail(m))
  /\ WF_allVars(OfSession /\ StartWrite)
  /\ WF_allVars(OfSession /\ \E w \in writes : Io(w))
  /\ WF_allVars(OfGo /\ G!Main)
  /\ WF_allVars(OfGo /\ G!Printer)
  /\ \A r \in G!Routines : WF_allVars(OfGo /\ G!Routine(r))
  /\ \A t \in Lines : WF_allVars(OfLibrary /\ TlStep(t))
  /\ \A t \in ThreadNames : WF_allVars(OfMemory /\ MoThread(t))
  /\ WF_allVars(OfTest /\ Drain)
  /\ \A i \in 0 .. MaxThreads : WF_allVars(OfTest /\ Tester(i))
  /\ WF_allVars(OfChannels /\ (P!Producer \/ P!Thr1))
  /\ WF_allVars(OfChannels /\ (P!Consumer \/ P!Thr2))

MCSpec == MCInit /\ [][MCNext]_allVars /\ MCFairness

-----------------------------------------------------------------------------
(* Properties.                                                             *)

ProgramIsOver ==
  CASE subject = "go" -> main = "done"
    [] subject = "library" -> FunctionIsOver
    [] subject = "memory" -> AllEnded
    [] subject = "test" -> TestIsOver
    [] subject = "channels" -> P!BothEnd
    [] OTHER -> TRUE

\* What the pool or the actor has accepted is run, and the Go programs, those of
\* the channels, the demonstrations and the tests end.
AcceptedWorkRuns == AcceptedTaskRuns /\ EveryMailRuns /\ <>ProgramIsOver

\* Messages are run, and values printed, each once and in the order of their
\* sender (actor.cc, goland/15-con/main.go), and a receiver that is told the end
\* of a channel has got all (csp.cc, buffercsp.cc).
RunsInOrder == ActorInOrder /\ G!EndPrintsAll /\ P!EndHasAll

\* The demonstrations of the threading library use what their threads share one
\* at a time and while it lives, and terminate only where they mean to; those of
\* the memory orders find published what a release and an acquire, by accesses or
\* fences, order (func2 and func6 of 07), and one of two readers finds both flags
\* where all accesses have one order (func5); the tests of the containers count
\* what they mean to.  Of the writes to z in func4 and func5, and of the functions
\* without such an order (func1, func4, func7), it says nothing.
SharedUseIsSafe == AccessesApart /\ TerminatesInErr /\ PublishedIsSeen /\ CountsAddUp
=============================================================================
