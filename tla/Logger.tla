------------------------------- MODULE Logger -------------------------------
(***************************************************************************)
(* The logger of the asio servers 5 to 17 (asio/*/include/middleware/      *)
(* Logger.hpp) and the life of their singletons (include/global/           *)
(* Singleton.hpp): the logger, from 12 on the logic layer and from 14 on   *)
(* the io pool are static objects, each constructed at its first use and   *)
(* destroyed, the last one first, when main has returned.  A line of the   *)
(* log is three prints, of the level, the text and the end of the line,    *)
(* and nothing keeps the prints of two threads apart.                      *)
(* What a thread logs, and when, is left open; the entries of the main     *)
(* thread that start and end a server are not.                             *)
(***************************************************************************)
EXTENDS Integers, SequencesExt

CONSTANTS
  Versions,   \* which of the servers are run
  Entries     \* how often a thread logs of its own accord: a bound

VARIABLES
  version,     \* the server
  statics,     \* the static objects that live, in the order of their construction
  built,       \* those that have been constructed
  life,        \* the main thread: starts, accepts, serves, returns, exits, releases
  part,        \* which of its three prints is the next of each thread, or 0
  entries,     \* how often each thread has logged of its own accord
  screen,      \* the prints on the last line of the output
  overlapped,  \* history: two threads were logging at once
  garbled      \* history: a line has ended that is not one entry

lgVars == <<version, statics, built, life, part, entries, screen, overlapped, garbled>>

\* The main thread, the threads of the io pool, the worker of the logic layer.
Threads == {"main", "io", "worker"}
Alive(s) == s \in Range(statics)
Runs(t) == CASE t = "io" -> Alive("pool") [] t = "worker" -> Alive("logic") [] OTHER -> TRUE
Logging(t) == part[t] # 0

LgInit ==
  /\ version \in Versions
  /\ statics = <<>> /\ built = {}
  /\ life = "starts"
  /\ part = [t \in Threads |-> 0]
  /\ entries = [t \in Threads |-> 0]
  /\ screen = <<>>
  /\ overlapped = FALSE /\ garbled = FALSE

\* getInstance: the first call constructs the object, none does so again.
Uses(s) ==
  /\ built' = built \cup {s}
  /\ statics' = IF s \in built THEN statics ELSE Append(statics, s)

-----------------------------------------------------------------------------
(* An entry of the log.                                                    *)

Begins(t) ==
  /\ ~Logging(t)
  /\ Uses("logger")
  /\ part' = [part EXCEPT ![t] = 1]
  /\ overlapped' = (overlapped \/ \E u \in Threads : Logging(u))

\* trace, debug, info, warning, error or fatal of a handler.
Entry(t) ==
  /\ Runs(t) /\ entries[t] < Entries
  /\ t = "main" => life = "serves"
  /\ Begins(t)
  /\ entries' = [entries EXCEPT ![t] = @ + 1]
  /\ UNCHANGED <<version, life, screen, garbled>>

PrintPart(t) ==
  /\ Logging(t)
  /\ LET shown == Append(screen, <<t, part[t]>>)
     IN IF part[t] < 3
        THEN screen' = shown /\ UNCHANGED garbled
        ELSE /\ screen' = <<>>
             /\ garbled' = (garbled \/ shown # <<<<t, 1>>, <<t, 2>>, <<t, 3>>>>)
  /\ part' = [part EXCEPT ![t] = (@ + 1) % 4]
  /\ UNCHANGED <<version, statics, built, life, entries, overlapped>>

Logs == \E t \in Threads : Entry(t) \/ PrintPart(t)

Log5 == version = 5 /\ Logs
Log6 == version = 6 /\ Logs
Log7 == version = 7 /\ Logs
Log8 == version = 8 /\ Logs
Log9 == version = 9 /\ Logs
Log10 == version = 10 /\ Logs
Log11 == version = 11 /\ Logs
Log12 == version = 12 /\ Logs
Log13 == version = 13 /\ Logs
Log14 == version = 14 /\ Logs
Log15 == version = 15 /\ Logs
Log17 == version = 17 /\ Logs

-----------------------------------------------------------------------------
(* The start of a server.                                                  *)

\* The main thread goes on to its next stage, when its entry is complete.
Goes(from, to) == ~Logging("main") /\ life = from /\ life' = to

\* Mutant: the first connection is prepared before the constructor logs.
ServerStarts_Accepts ==
  /\ Goes("starts", "accepts")
  /\ built' = {"logger", "pool"}
  /\ statics' = IF version >= 14 THEN <<"pool", "logger">> ELSE <<"logger">>
  /\ part' = [part EXCEPT !["main"] = 1]
  /\ UNCHANGED <<version, entries, screen, overlapped, garbled>>

\* The constructor of Server logs.
ServerStarts ==
  /\ Goes("starts", "accepts")
  /\ Begins("main")
  /\ UNCHANGED <<version, entries, screen, garbled>>

\* start_accept: from 14 on the context of the first connection is one of the pool.
StartAccept ==
  /\ Goes("accepts", "serves")
  /\ IF version >= 14 THEN Uses("pool") ELSE UNCHANGED <<statics, built>>
  /\ UNCHANGED <<version, part, entries, screen, overlapped, garbled>>

\* The first message is posted to the logic layer, by the thread that read it.
FirstPost(t) ==
  /\ version >= 12
  /\ IF version <= 13 THEN t = "main" /\ life = "serves" ELSE t = "io"
  /\ Runs(t) /\ ~Logging(t)
  /\ "logic" \notin built /\ Uses("logic")
  /\ UNCHANGED <<version, life, part, entries, screen, overlapped, garbled>>

-----------------------------------------------------------------------------
(* Its end, from 13 on.                                                    *)

\* The handler of the signal logs and stops the loop.
SignalLogged ==
  /\ version >= 13
  /\ Goes("serves", "returns")
  /\ Begins("main")
  /\ UNCHANGED <<version, entries, screen, garbled>>

\* main returns; ~Server of 17 logs.
MainReturns ==
  /\ Goes("returns", "exits")
  /\ IF version = 17 THEN Begins("main") ELSE UNCHANGED <<statics, built, part, overlapped>>
  /\ UNCHANGED <<version, entries, screen, garbled>>

\* The object that was constructed last is destroyed: that of the logic layer
\* joins its worker.
DestroyStatic ==
  /\ life = "exits" /\ ~Logging("main")
  /\ statics # <<>> /\ Last(statics) \in {"logger", "logic"}
  /\ Last(statics) = "logic" => ~Logging("worker")
  /\ statics' = Front(statics)
  /\ UNCHANGED <<version, built, life, part, entries, screen, overlapped, garbled>>

\* ~IoPool of 17 logs before its members go; that of 14 and 15 waits for its
\* threads.  What comes then is in SessionRegistry.
ReleasePool ==
  /\ version = 17 /\ statics # <<>> /\ Last(statics) = "pool"
  /\ Goes("exits", "releases")
  /\ Begins("main")
  /\ UNCHANGED <<version, entries, screen, garbled>>

LgNext ==
  \/ Log5 \/ Log6 \/ Log7 \/ Log8 \/ Log9 \/ Log10 \/ Log11 \/ Log12 \/ Log13
  \/ Log14 \/ Log15 \/ Log17
  \/ ServerStarts \/ StartAccept \/ (\E t \in Threads : FirstPost(t))
  \/ SignalLogged \/ MainReturns \/ DestroyStatic \/ ReleasePool

LgSpec == LgInit /\ [][LgNext]_lgVars

-----------------------------------------------------------------------------
(* Properties.                                                             *)

\* Nobody logs through a logger that is destroyed, neither a thread that still
\* runs when main has returned nor the destructors of the other static objects
\* (17 IoPool.cc:41): it was constructed before them, because the constructor of
\* Server logs before it prepares a connection.
LoggerOutlives == \A t \in Threads : Logging(t) => Alive("logger")

\* A line of the log is one entry, whole, unless two threads have logged at
\* once; in the servers with one thread, up to 11, that never happens.
LinesWhole == (garbled => overlapped) /\ (version <= 11 => ~overlapped)
=============================================================================
