-------------------------- MODULE CoroutineServer --------------------------
(***************************************************************************)
(* Sessions of the coroutine server and the server's registry of them      *)
(* (asio/17-coroutine-server/src/core: server/Server.cc, session/          *)
(* Session.cc, and src/main.cc).  The main thread accepts connections, and *)
(* stops at a signal.  A session's reading coroutine and the coroutines    *)
(* that send for it (CoroutineSend) run on one io context of the pool and  *)
(* its thread: they interleave with the acceptor and with other sessions   *)
(* between the steps below, with one another only where they are           *)
(* suspended.  Whoever meets an error first closes the session and takes   *)
(* it from the registry.                                                   *)
(***************************************************************************)
EXTENDS Integers

CONSTANTS
  Sessions,   \* the connections that may come in, each once: the bound
  MaxPosts    \* how many messages a peer sends at most: a bound

ASSUME CoroutineServerAssumption == MaxPosts \in Nat

VARIABLES
  acceptor,   \* where handle_accept is
  accepting,  \* the session it handles, or none
  registry,   \* _sessions
  server,     \* whether the Server object lives
  reader,     \* where the reading coroutine of a session is
  writer,     \* where a sending coroutine of a session is, once it fails
  closed,     \* _isClosed
  posts,     \* history: how many messages were posted to the logic layer
  removed,    \* history: how often removeSession was called for a session
  early       \* history: the sessions removed before they were registered

csVars == <<acceptor, accepting, registry, server, reader, writer, closed,
            posts, removed, early>>

ReaderStates == {"none", "top", "head", "body", "failed", "closing", "done"}
WriterStates == {"fine", "failed", "closing", "done"}

CsTypeOK ==
  /\ acceptor \in {"waiting", "read", "insert", "stopped"}
  /\ accepting \subseteq Sessions
  /\ registry \subseteq Sessions
  /\ server \in {"running", "gone"}
  /\ reader \in [Sessions -> ReaderStates]
  /\ writer \in [Sessions -> WriterStates]
  /\ closed \in [Sessions -> BOOLEAN]
  /\ posts \in [Sessions -> 0 .. MaxPosts]
  /\ removed \in [Sessions -> 0 .. 1]
  /\ early \subseteq Sessions

CsInit ==
  /\ acceptor = "waiting"
  /\ accepting = {}
  /\ registry = {}
  /\ server = "running"
  /\ reader = [s \in Sessions |-> "none"]
  /\ writer = [s \in Sessions |-> "fine"]
  /\ closed = [s \in Sessions |-> FALSE]
  /\ posts = [s \in Sessions |-> 0]
  /\ removed = [s \in Sessions |-> 0]
  /\ early = {}

-----------------------------------------------------------------------------
(* The acceptor, on the main thread.  A failed accept changes nothing.     *)

\* handle_accept begins for the session start_accept has created.
Accept(s) ==
  /\ acceptor = "waiting"
  /\ reader[s] = "none"
  /\ acceptor' = "read"
  /\ accepting' = {s}
  /\ UNCHANGED <<registry, server, reader, writer, closed, posts, removed, early>>

\* Read(): co_spawn of the reading coroutine on the pool.
StartReading ==
  /\ acceptor = "read"
  /\ acceptor' = "insert"
  /\ reader' = [s \in Sessions |-> IF s \in accepting THEN "top" ELSE reader[s]]
  /\ UNCHANGED <<accepting, registry, server, writer, closed, posts, removed, early>>

\* The session is registered, and the next accept starts.  Mutant: it is not.
Insert_Forgotten ==
  /\ acceptor = "insert"
  /\ acceptor' = "waiting"
  /\ accepting' = {}
  /\ UNCHANGED <<registry, server, reader, writer, closed, posts, removed, early>>

Insert ==
  /\ acceptor = "insert"
  /\ acceptor' = "waiting"
  /\ registry' = registry \cup accepting
  /\ accepting' = {}
  /\ UNCHANGED <<server, reader, writer, closed, posts, removed, early>>

\* A signal stops the main loop between two handlers.
Stop ==
  /\ acceptor = "waiting"
  /\ acceptor' = "stopped"
  /\ UNCHANGED <<accepting, registry, server, reader, writer, closed, posts, removed, early>>

\* main returns: the Server and its registry are destroyed; the pool goes on.
DestroyServer ==
  /\ acceptor = "stopped"
  /\ server = "running"
  /\ server' = "gone"
  /\ registry' = {}
  /\ UNCHANGED <<acceptor, accepting, reader, writer, closed, posts, removed, early>>

-----------------------------------------------------------------------------
(* The reading coroutine.                                                  *)

\* A coroutine that meets an error closes the session without being suspended.
InHandler(s) == {reader[s], writer[s]} \cap {"failed", "closing"} # {}

Read(s, from, to) ==
  /\ reader[s] = from
  /\ ~InHandler(s)
  /\ reader' = [reader EXCEPT ![s] = to]
  /\ UNCHANGED <<acceptor, accepting, registry, server, writer, closed, removed, early>>

\* The loop condition, for the first time.
Top(s) == Read(s, "top", IF closed[s] THEN "done" ELSE "head") /\ UNCHANGED posts

\* A header has come: its length is fine, or too long.
HeadRead(s) ==
  /\ posts[s] < MaxPosts
  /\ Read(s, "head", "body") \/ Read(s, "head", "failed")
  /\ UNCHANGED posts

\* A body has come: the message is posted to the logic layer, and the loop
\* condition is tested again.
BodyRead(s) ==
  /\ Read(s, "body", IF closed[s] THEN "done" ELSE "head")
  /\ posts' = [posts EXCEPT ![s] = @ + 1]

\* async_read throws: the peer is gone or the socket has been closed.
\* Mutant: closing the session leaves the socket open.
ReadThrows_PeerOnly(s) ==
  /\ ~closed[s]
  /\ Read(s, "head", "failed") \/ Read(s, "body", "failed")
  /\ UNCHANGED posts

ReadThrows(s) ==
  /\ Read(s, "head", "failed") \/ Read(s, "body", "failed")
  /\ UNCHANGED posts

-----------------------------------------------------------------------------
(* Errors, and close() by the coroutine that met one.                      *)

\* A sending coroutine exists once a message has been answered.
WriteThrows(s) ==
  /\ posts[s] > 0
  /\ writer[s] = "fine"
  /\ ~InHandler(s)
  /\ writer' = [writer EXCEPT ![s] = "failed"]
  /\ UNCHANGED <<acceptor, accepting, registry, server, reader, closed, posts, removed, early>>

\* The compare-exchange of _isClosed lets one coroutine go on.  Mutant: a
\* plain store lets all of them.
NextClose_Both(s, state) == IF state = "failed" THEN "closing" ELSE state
NextClose(s, state) ==
  IF state = "failed" THEN IF closed[s] THEN "done" ELSE "closing" ELSE state

Close(s) ==
  /\ \/ /\ reader[s] = "failed"
        /\ reader' = [reader EXCEPT ![s] = NextClose(s, @)]
        /\ UNCHANGED writer
     \/ /\ writer[s] = "failed"
        /\ writer' = [writer EXCEPT ![s] = NextClose(s, @)]
        /\ UNCHANGED reader
  /\ closed' = [closed EXCEPT ![s] = TRUE]
  /\ UNCHANGED <<acceptor, accepting, registry, server, posts, removed, early>>

\* removeSession: its critical section.  Mutant: nothing is erased.
Erase_Nothing(s) == registry' = registry
Erase(s) == registry' = registry \ {s}

RemoveSession(s) ==
  /\ \/ /\ reader[s] = "closing"
        /\ reader' = [reader EXCEPT ![s] = "done"]
        /\ UNCHANGED writer
     \/ /\ writer[s] = "closing"
        /\ writer' = [writer EXCEPT ![s] = "done"]
        /\ UNCHANGED reader
  /\ Erase(s)
  /\ removed' = [removed EXCEPT ![s] = @ + 1]
  /\ early' = IF s \in registry \/ server = "gone" THEN early ELSE early \cup {s}
  /\ UNCHANGED <<acceptor, accepting, server, closed, posts>>

Reader(s) == Top(s) \/ HeadRead(s) \/ BodyRead(s) \/ ReadThrows(s)
Acceptor == StartReading \/ Insert \/ DestroyServer

CsNext ==
  \/ \E s \in Sessions :
       Accept(s) \/ Reader(s) \/ WriteThrows(s) \/ Close(s) \/ RemoveSession(s)
  \/ Acceptor
  \/ Stop

\* The main thread goes on with what it has begun; so does a coroutine, but
\* a read need not complete unless the socket is closed.
CsFairness ==
  /\ WF_csVars(Acceptor)
  /\ \A s \in Sessions :
       /\ WF_csVars(Top(s))
       /\ WF_csVars(closed[s] /\ (HeadRead(s) \/ BodyRead(s) \/ ReadThrows(s)))
       /\ WF_csVars(Close(s))
       /\ WF_csVars(RemoveSession(s))

CsSpec == CsInit /\ [][CsNext]_csVars /\ CsFairness

-----------------------------------------------------------------------------
(* Properties.                                                             *)

Closing(s) == "closing" \in {reader[s], writer[s]}

\* The registry keeps every session that is being served alive: it is in
\* there, or handle_accept is about to put it there (lines 35-45).
OpenIsRegistered ==
  \A s \in Sessions :
    reader[s] # "none" /\ ~closed[s] /\ server = "running"
      => s \in registry \cup accepting

\* However many of its coroutines fail, one of them closes the session: the
\* registry is asked once to remove it (Session.cc lines 54-66).
RemovedOnce ==
  \A s \in Sessions :
    closed[s] => removed[s] + (IF Closing(s) THEN 1 ELSE 0) = 1

\* A closed session stays in the registry only until the coroutine that closed
\* it has removed it, except when that came before handle_accept registered it
\* (it starts the reading first, Server.cc lines 39-41): then it stays for good.
StaleOnlyIfEarly ==
  \A s \in registry : closed[s] => Closing(s) \/ s \in early

\* Closing a session ends its reading coroutine, wherever it waits.
ReaderEnds == \A s \in Sessions : closed[s] ~> reader[s] = "done"
=============================================================================
