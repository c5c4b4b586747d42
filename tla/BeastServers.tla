---------------------------- MODULE BeastServers ----------------------------
(***************************************************************************)
(* The two servers built on Boost.Beast; one thread runs the handlers and  *)
(* coroutines of each.                                                     *)
(* HTTP (asio/18-beast-http/server.cc): a connection reads one request,    *)
(* writes one response and shuts its side of the socket, and a deadline of *)
(* ten seconds closes the socket of one that is slower.  An exception that *)
(* leaves a handler ends the server, and shutdown throws on a socket that  *)
(* is closed or no longer connected.                                       *)
(* WebSocket (asio/19-beast-websocket/server.cc): once a connection is     *)
(* accepted, and after the handshake, it reads a message, sends an echo    *)
(* and reads on.  asyncSend spawns a coroutine if the queue was empty; the *)
(* coroutine takes messages out of the queue and writes each.  A write     *)
(* that begins while another is pending is a use Beast forbids, after      *)
(* which nothing is promised.  A signal stops the server.                  *)
(***************************************************************************)
EXTENDS Integers, SequencesExt

CONSTANTS
  Connections,   \* the HTTP connections that may come in, each once: the bound
  Arrivals       \* how many messages the peer of a WebSocket sends at most: a bound

-----------------------------------------------------------------------------
(* The HTTP server.                                                        *)

VARIABLES
  stage,      \* none, reading, writing, answered, or silent: the read has failed
  deadline,   \* the timer: none, armed, due (its handler is queued), over
  socket,     \* open, shut for sending, or closed by the deadline
  peer,       \* whether the peer is still connected
  done,       \* whether the operation under way has completed: its handler may run
  response,   \* the status the peer is answered: none, ok, bad_request
  serving     \* whether io_context::run still runs

httpVars == <<stage, deadline, socket, peer, done, response, serving>>

HttpInit ==
  /\ stage = [c \in Connections |-> "none"]
  /\ deadline = [c \in Connections |-> "none"]
  /\ socket = [c \in Connections |-> "open"]
  /\ peer = [c \in Connections |-> TRUE]
  /\ done = [c \in Connections |-> "no"]
  /\ response = [c \in Connections |-> "none"]
  /\ serving = TRUE

\* start: the request is read, the timer runs.  Mutant: it is not started.
StartConnection_NoTimer(c) ==
  /\ serving
  /\ stage[c] = "none"
  /\ stage' = [stage EXCEPT ![c] = "reading"]
  /\ UNCHANGED <<deadline, socket, peer, done, response, serving>>

StartConnection(c) ==
  /\ serving
  /\ stage[c] = "none"
  /\ stage' = [stage EXCEPT ![c] = "reading"]
  /\ deadline' = [deadline EXCEPT ![c] = "armed"]
  /\ UNCHANGED <<socket, peer, done, response, serving>>

\* An operation ends well while both ends of the connection are there, and
\* fails when the peer goes or the socket is closed.
Under(c) == stage[c] \in {"reading", "writing"} /\ done[c] = "no"
Complete(c) ==
  /\ Under(c)
  /\ \/ socket[c] = "open" /\ peer[c] /\ done' = [done EXCEPT ![c] = "well"]
     \/ (socket[c] = "closed" \/ ~peer[c])
        /\ done' = [done EXCEPT ![c] = "failed"]
  /\ UNCHANGED <<stage, deadline, socket, peer, response, serving>>

\* The peer resets the connection.
PeerLeaves(c) ==
  /\ stage[c] \in {"reading", "writing"}
  /\ peer[c]
  /\ peer' = [peer EXCEPT ![c] = FALSE]
  /\ UNCHANGED <<stage, deadline, socket, done, response, serving>>

\* The handler of read_request, with process_request and write_response.
RequestRead(c) ==
  /\ serving
  /\ stage[c] = "reading"
  /\ done[c] = "well"
  /\ stage' = [stage EXCEPT ![c] = "writing"]
  /\ done' = [done EXCEPT ![c] = "no"]
  /\ \E status \in {"ok", "bad_request"} : response' = [response EXCEPT ![c] = status]
  /\ UNCHANGED <<deadline, socket, peer, serving>>

\* A read error is ignored: the deadline will close the socket.
ReadFailed(c) ==
  /\ serving
  /\ stage[c] = "reading"
  /\ done[c] = "failed"
  /\ stage' = [stage EXCEPT ![c] = "silent"]
  /\ UNCHANGED <<deadline, socket, peer, done, response, serving>>

\* The handler of write_response ignores its error code.  shutdown throws if
\* there is no connection; otherwise the timer is cancelled, which comes too
\* late for one whose handler is queued.
Throws(c) == socket[c] = "closed" \/ ~peer[c]
Written(c) ==
  /\ serving
  /\ stage[c] = "writing"
  /\ done[c] # "no"
  /\ ~Throws(c)
  /\ stage' = [stage EXCEPT ![c] = "answered"]
  /\ socket' = [socket EXCEPT ![c] = "shut"]
  /\ deadline' = [deadline EXCEPT ![c] = IF @ = "armed" THEN "over" ELSE @]
  /\ UNCHANGED <<peer, done, response, serving>>

WrittenThrows(c) ==
  /\ serving
  /\ stage[c] = "writing"
  /\ done[c] # "no"
  /\ Throws(c)
  /\ serving' = FALSE
  /\ UNCHANGED <<stage, deadline, socket, peer, done, response>>

\* Ten seconds are over.
Elapse(c) ==
  /\ deadline[c] = "armed"
  /\ deadline' = [deadline EXCEPT ![c] = "due"]
  /\ UNCHANGED <<stage, socket, peer, done, response, serving>>

\* The handler of check_deadline: the socket is closed if it is open, also one
\* that was only shut for sending.
Deadline(c) ==
  /\ serving
  /\ deadline[c] = "due"
  /\ deadline' = [deadline EXCEPT ![c] = "over"]
  /\ socket' = [socket EXCEPT ![c] = "closed"]
  /\ UNCHANGED <<stage, peer, done, response, serving>>

Handler(c) ==
  RequestRead(c) \/ ReadFailed(c) \/ Written(c) \/ WrittenThrows(c) \/ Deadline(c)

HttpNext ==
  \E c \in Connections :
    StartConnection(c) \/ Complete(c) \/ PeerLeaves(c) \/ Handler(c) \/ Elapse(c)

\* The loop runs queued handlers, time passes, and an operation on a socket
\* that is closed completes; a silent peer need never send its request.
HttpFairness ==
  \A c \in Connections :
    /\ WF_httpVars(Handler(c))
    /\ WF_httpVars(Elapse(c))
    /\ WF_httpVars(Throws(c) /\ Complete(c))

HttpSpec == HttpInit /\ [][HttpNext]_httpVars /\ HttpFairness

-----------------------------------------------------------------------------
(* The WebSocket server.                                                   *)

VARIABLES
  reads,       \* listening, handshake, open: a read is pending, failed; stopped: all is
  arrived,     \* how many messages have been read
  unsent,      \* _send_queue
  spawned,     \* coroutines that have not been run or resumed yet
  writes,      \* the messages in async_write
  failed,      \* whether a write has failed
  registered,  \* whether ConnectionMgr has the connection
  collided,    \* history: two writes were pending at once
  replies      \* what the peer has got

wsVars == <<reads, arrived, unsent, spawned, writes, failed, registered, collided, replies>>

WsInit ==
  /\ reads = "listening"
  /\ arrived = 0
  /\ unsent = <<>>
  /\ spawned = 0
  /\ writes = {}
  /\ failed = FALSE
  /\ registered = FALSE
  /\ collided = FALSE
  /\ replies = <<>>

\* ConnectionMgr.
AddConnection == registered' = TRUE
RemoveConnection == registered' = FALSE

\* startAccept, which goes on with another connection whatever this one does:
\* after an error as if this one had not been accepted yet.
StartAccept ==
  /\ reads = "listening"
  /\ reads' \in {"listening", "handshake"}
  /\ UNCHANGED <<arrived, unsent, spawned, writes, failed, registered, collided, replies>>

\* asyncAccept: start, and addConnection.
Handshake ==
  /\ reads = "handshake"
  /\ \/ reads' = "open" /\ AddConnection
     \/ reads' = "failed" /\ UNCHANGED registered
  /\ UNCHANGED <<arrived, unsent, spawned, writes, failed, collided, replies>>

\* The handler of async_read: asyncSend, and start.  Mutant: asyncSend tests
\* for an empty queue after the push.
ReadMessage_TestsAfter ==
  /\ reads = "open"
  /\ arrived < Arrivals
  /\ arrived' = arrived + 1
  /\ unsent' = Append(unsent, arrived + 1)
  /\ spawned' = IF unsent' = <<>> THEN spawned + 1 ELSE spawned
  /\ UNCHANGED <<reads, writes, failed, registered, collided, replies>>

ReadMessage ==
  /\ reads = "open"
  /\ arrived < Arrivals
  /\ arrived' = arrived + 1
  /\ unsent' = Append(unsent, arrived + 1)
  /\ spawned' = IF unsent = <<>> THEN spawned + 1 ELSE spawned
  /\ UNCHANGED <<reads, writes, failed, registered, collided, replies>>

\* Mutant: the connection stays in the registry.
ReadError_Stays ==
  /\ reads = "open"
  /\ reads' = "failed"
  /\ UNCHANGED <<arrived, unsent, spawned, writes, failed, registered, collided, replies>>

ReadError ==
  /\ reads = "open"
  /\ reads' = "failed"
  /\ RemoveConnection
  /\ UNCHANGED <<arrived, unsent, spawned, writes, failed, collided, replies>>

\* The coroutine at the top of its loop.
TakeNext ==
  /\ reads # "stopped"
  /\ spawned > 0
  /\ spawned' = spawned - 1
  /\ IF unsent = <<>>
       THEN UNCHANGED <<unsent, writes, collided>>
       ELSE /\ unsent' = Tail(unsent)
            /\ writes' = writes \cup {Head(unsent)}
            /\ collided' = (collided \/ writes # {})
  /\ UNCHANGED <<reads, arrived, failed, registered, replies>>

\* A write ends and its coroutine is resumed; none does on a failed stream.
MessageWritten(m) ==
  /\ reads # "stopped" /\ ~failed
  /\ m \in writes
  /\ writes' = writes \ {m}
  /\ replies' = Append(replies, m)
  /\ spawned' = spawned + 1
  /\ UNCHANGED <<reads, arrived, unsent, failed, registered, collided>>

\* A write fails: the coroutine ends and leaves what is queued.
WriteError(m) ==
  /\ reads # "stopped"
  /\ m \in writes
  /\ writes' = writes \ {m}
  /\ failed' = TRUE
  /\ RemoveConnection
  /\ UNCHANGED <<reads, arrived, unsent, spawned, collided, replies>>

\* main: a signal stops the loop, and no handler runs any more.
Signal ==
  /\ reads' = "stopped"
  /\ UNCHANGED <<arrived, unsent, spawned, writes, failed, registered, collided, replies>>

WsNext ==
  \/ StartAccept \/ Handshake \/ ReadMessage \/ ReadError \/ TakeNext \/ Signal
  \/ \E m \in writes : MessageWritten(m) \/ WriteError(m)

WsSpec == WsInit /\ [][WsNext]_wsVars

-----------------------------------------------------------------------------
(* Properties.                                                             *)

\* Whatever its peer does, a connection comes to an end: it is answered and
\* shut, or closed by its deadline, unless the server ends before.
Over(c) == socket[c] # "open" \/ ~serving
EveryConnectionEnds == \A c \in Connections : stage[c] # "none" ~> Over(c)

\* The registry holds exactly the connections that are read and have not
\* failed to write (lines 53-75 and 113), as long as the server runs.
WorkingAreRegistered == reads = "stopped" \/ (registered <=> reads = "open" /\ ~failed)

\* A message waits only while a coroutine will look at it, or after a write
\* has failed (lines 80-115).
QueuedIsSent == unsent # <<>> /\ ~failed => spawned > 0 \/ writes # {}

\* The peer gets an answer for each of its messages in order, until two
\* coroutines write at once.
RepliesInOrder ==
  ~collided => IsPrefix(replies, [i \in 1 .. arrived |-> i])
=============================================================================
