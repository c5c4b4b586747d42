-------------------------- MODULE SessionRegistry --------------------------
(***************************************************************************)
(* The registry of sessions of the asio servers 6 to 15, and their end     *)
(* (asio/*/src/core/server/Server.cc, Close and the error paths of         *)
(* session/Session.cc, core/io, src/main.cc): a std::map that keeps the sessions    *)
(* alive and that no mutex guards.  Up to 13 one thread runs every         *)
(* handler, which is then one step.  In 14 each session has an io context  *)
(* and thread of a pool, in 15 the threads of a pool share one, and the    *)
(* main thread accepts: an access to the map takes two steps there, and    *)
(* two that overlap are a data race, after which nothing is promised.      *)
(***************************************************************************)
EXTENDS Integers, SequencesExt

CONSTANTS
  Sessions,   \* the connections that may come in, each once: the bound
  Editions    \* which of the servers are run

VARIABLES
  edition,    \* the server
  main,       \* the main thread: in handle_accept, or where its end has got to
  incoming,   \* the session in handle_accept that is not registered yet
  sessions,   \* _sessions
  at,         \* the reading and the writing half of a session: the state of each
  shut,       \* _is_closed, or before 15 that the socket is closed
  members,    \* the members of the io pool that exist
  threads,    \* the threads of the pool: in io_context::run or ended
  torn,       \* history: two threads were in the map at once
  premature   \* history: sessions erased before they were registered

regVars ==
  <<edition, main, incoming, sessions, at, shut, members, threads, torn, premature>>

Halves == {"read", "write"}

\* The members of the io pool in the order of their declaration.
Declared14 == <<"contexts", "guards", "threads">>
Declared15 == <<"contexts", "guards", "threads">>
Declared17 == <<"threads", "contexts", "guards">>
Declared ==
  CASE edition = 14 -> Declared14
    [] edition = 15 -> Declared15
    [] edition = 17 -> Declared17
    [] OTHER -> <<>>

RegInit ==
  /\ edition \in Editions
  /\ main = "waiting"
  /\ incoming = {}
  /\ sessions = {}
  /\ at = [s \in Sessions |-> [h \in Halves |-> "none"]]
  /\ shut = [s \in Sessions |-> FALSE]
  /\ members = Declared
  /\ threads = IF Declared = <<>> THEN "ended" ELSE "running"
  /\ torn = FALSE
  /\ premature = {}

Goes(s, h, from, to) == at[s][h] = from /\ at' = [at EXCEPT ![s][h] = to]

\* The first answer is written.
Answer(s) ==
  /\ main # "ended"
  /\ at[s]["read"] # "none"
  /\ Goes(s, "write", "none", "pending")
  /\ UNCHANGED <<edition, main, incoming, sessions, shut, members, threads, torn, premature>>

-----------------------------------------------------------------------------
(* One thread: 6 to 13.                                                    *)

\* handle_accept: Start, then the registry.
HandleAccept(s) ==
  /\ main = "waiting"
  /\ at[s]["read"] = "none"
  /\ at' = [at EXCEPT ![s]["read"] = "pending"]
  /\ sessions' = sessions \cup {s}
  /\ UNCHANGED <<edition, main, incoming, shut, members, threads, torn, premature>>

\* An error up to 8 is logged: the half ends and the session stays.
LogError(s, h) ==
  /\ main = "waiting"
  /\ Goes(s, h, "pending", "done")
  /\ UNCHANGED <<edition, main, incoming, sessions, shut, members, threads, torn, premature>>

\* A header refused up to 11: the session stays and nothing is read any more.
Refuse(s) == LogError(s, "read")

\* From 9 on the session is taken from the registry and its socket closed, by
\* the handler of each half.  Mutant: the socket only.
HandleError_Keeps(s, h) ==
  /\ main = "waiting"
  /\ Goes(s, h, "pending", "done")
  /\ shut' = [shut EXCEPT ![s] = TRUE]
  /\ UNCHANGED <<edition, main, incoming, sessions, members, threads, torn, premature>>

HandleError(s, h) ==
  /\ main = "waiting"
  /\ Goes(s, h, "pending", "done")
  /\ sessions' = sessions \ {s}
  /\ shut' = [shut EXCEPT ![s] = TRUE]
  /\ UNCHANGED <<edition, main, incoming, members, threads, torn, premature>>

Forgiving == \E s \in Sessions : HandleAccept(s) \/ \E h \in Halves : LogError(s, h)
Closing(s) == \E h \in Halves : HandleError(s, h)

Server6 == edition = 6 /\ Forgiving
Server7 == edition = 7 /\ Forgiving
Server8 == edition = 8 /\ Forgiving
Server9 == edition = 9 /\ \E s \in Sessions : HandleAccept(s) \/ Refuse(s) \/ Closing(s)
Server10 == edition = 10 /\ \E s \in Sessions : HandleAccept(s) \/ Refuse(s) \/ Closing(s)
Server11 == edition = 11 /\ \E s \in Sessions : HandleAccept(s) \/ Refuse(s) \/ Closing(s)
Server12 == edition = 12 /\ \E s \in Sessions : HandleAccept(s) \/ Closing(s)
Server13 == edition = 13 /\ \E s \in Sessions : HandleAccept(s) \/ Closing(s)

-----------------------------------------------------------------------------
(* Several threads: 14 and 15.                                             *)

Inside == {sh \in Sessions \X Halves : at[sh[1]][sh[2]] = "inside"}
Enters == torn' = (torn \/ main = "inside" \/ Inside # {})

\* handle_accept, on the main thread.
Start(s) ==
  /\ main = "waiting"
  /\ at[s]["read"] = "none"
  /\ at' = [at EXCEPT ![s]["read"] = "pending"]
  /\ main' = "insert"
  /\ incoming' = {s}
  /\ UNCHANGED <<edition, sessions, shut, members, threads, torn, premature>>

EnterInsert ==
  /\ main = "insert"
  /\ main' = "inside"
  /\ Enters
  /\ UNCHANGED <<edition, incoming, sessions, at, shut, members, threads, premature>>

LeaveInsert ==
  /\ main = "inside"
  /\ main' = "waiting"
  /\ sessions' = sessions \cup incoming
  /\ incoming' = {}
  /\ UNCHANGED <<edition, at, shut, members, threads, torn, premature>>

\* An error: 14 removes the session and then closes it, and one thread runs the
\* handlers of both halves; 15 closes it first, and they may run at once.
Busy(s) == \E h \in Halves : at[s][h] \notin {"none", "pending", "done"}
Fail(s, h) ==
  /\ edition = 14 => ~Busy(s)
  /\ Goes(s, h, "pending", IF edition = 14 THEN "erase" ELSE "close")
  /\ UNCHANGED <<edition, main, incoming, sessions, shut, members, threads, torn, premature>>

EnterErase(s, h) ==
  /\ Goes(s, h, "erase", "inside")
  /\ Enters
  /\ UNCHANGED <<edition, main, incoming, sessions, shut, members, threads, premature>>

LeaveErase(s, h) ==
  /\ Goes(s, h, "inside", IF edition = 14 THEN "close" ELSE "done")
  /\ sessions' = sessions \ {s}
  /\ premature' = premature \cup (incoming \cap {s})
  /\ UNCHANGED <<edition, main, incoming, shut, members, threads, torn>>

\* In 15 a compare-exchange lets the first half go on to the registry.
Close(s, h) ==
  /\ Goes(s, h, "close", IF edition = 15 /\ ~shut[s] THEN "erase" ELSE "done")
  /\ shut' = [shut EXCEPT ![s] = TRUE]
  /\ UNCHANGED <<edition, main, incoming, sessions, members, threads, torn, premature>>

Accepts == EnterInsert \/ LeaveInsert
Ends(s, h) == EnterErase(s, h) \/ LeaveErase(s, h) \/ Close(s, h)
Server14 ==
  edition = 14 /\ (Accepts \/ \E s \in Sessions : Start(s) \/ \E h \in Halves : Fail(s, h) \/ Ends(s, h))
Server15 ==
  edition = 15 /\ (Accepts \/ \E s \in Sessions : Start(s) \/ \E h \in Halves : Fail(s, h) \/ Ends(s, h))

-----------------------------------------------------------------------------
(* The end, from 13 on.                                                    *)

\* The handler of the signal stops the loop of the main thread.
Signal ==
  /\ edition >= 13
  /\ main = "waiting"
  /\ main' = "stopped"
  /\ UNCHANGED <<edition, incoming, sessions, at, shut, members, threads, torn, premature>>

\* main returns: the Server and its registry go.
DestroyServer ==
  /\ main = "stopped"
  /\ main' = "returned"
  /\ sessions' = {}
  /\ UNCHANGED <<edition, incoming, at, shut, members, threads, torn, premature>>

\* Statics are destroyed: the members of the pool in the reverse order, its
\* threads by a join.  run() returns when nothing is left to do, neither a
\* work guard nor a session, and nobody stops a context.
NoWork == \A s \in Sessions, h \in Halves : at[s][h] \in {"none", "done"}
EndThreads ==
  /\ threads = "running"
  /\ "guards" \notin Range(members)
  /\ NoWork
  /\ threads' = "ended"
  /\ UNCHANGED <<edition, main, incoming, sessions, at, shut, members, torn, premature>>

DestroyMember ==
  /\ main = "returned"
  /\ members # <<>>
  /\ Last(members) = "threads" => threads = "ended"
  /\ members' = Front(members)
  /\ UNCHANGED <<edition, main, incoming, sessions, at, shut, threads, torn, premature>>

Exit ==
  /\ main = "returned"
  /\ members = <<>>
  /\ main' = "ended"
  /\ UNCHANGED <<edition, incoming, sessions, at, shut, members, threads, torn, premature>>

Main == Signal \/ DestroyServer \/ DestroyMember \/ Exit \/ EndThreads

RegNext ==
  \/ Server6 \/ Server7 \/ Server8 \/ Server9 \/ Server10 \/ Server11
  \/ Server12 \/ Server13 \/ Server14 \/ Server15
  \/ Main
  \/ \E s \in Sessions : Answer(s)

\* A handler and the main thread go on, and an operation on a closed socket
\* completes.
Aborted(s, h) ==
  shut[s] /\ IF edition <= 13 THEN edition >= 9 /\ HandleError(s, h) ELSE Fail(s, h)
MainGoesOn == Accepts \/ DestroyServer \/ DestroyMember \/ Exit
RegFairness ==
  /\ WF_regVars(MainGoesOn)
  /\ WF_regVars(EndThreads)
  /\ \A s \in Sessions, h \in Halves : WF_regVars(Ends(s, h)) /\ WF_regVars(Aborted(s, h))

RegSpec == RegInit /\ [][RegNext]_regVars /\ RegFairness

-----------------------------------------------------------------------------
(* Properties.                                                             *)

\* The registry keeps a session whose halves both run alive, or handle_accept
\* is about to put it there, as long as the map was never raced.
LiveIsRegistered ==
  \A s \in Sessions :
    ~torn /\ main \notin {"returned", "ended"} /\ ~shut[s]
          /\ at[s]["read"] = "pending" /\ at[s]["write"] \in {"none", "pending"}
      => s \in sessions \cup incoming

\* From 9 on a session that has failed and closed leaves the registry, except
\* when it failed before handle_accept registered it (Start comes first): then
\* nobody need take it out again.
FailedLeaves ==
  \A s \in sessions :
    edition >= 9 /\ ~torn /\ shut[s] => Busy(s) \/ s \in premature

\* A closed socket ends the reading half, unless the main loop ended before.
Over(s) ==
  main \in {"stopped", "returned", "ended"} \/ (~Busy(s) /\ at[s]["read"] = "done")
HalvesEnd == \A s \in Sessions : shut[s] ~> Over(s)

\* "Received signal: {}, the server stoped." (main.cc line 15): after the
\* signal the server ends.
ServerStops == main = "stopped" ~> main = "ended"
=============================================================================
