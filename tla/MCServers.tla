----------------------------- MODULE MCServers -----------------------------
(***************************************************************************)
(* The parts of the asio servers around the reading of messages, for one   *)
(* run of TLC: the registry, the logic layer and the sending half of a     *)
(* session, and the small servers of one file; with the two web servers of *)
(* pages-other/mystore.  A behaviour is one of a single part, chosen at    *)
(* its start, while the others stay as they are.                           *)
(***************************************************************************)
EXTENDS LogicSystem, CoroutineServer, FiniteSets

CONSTANTS Pieces, MaxLen, Editions, Reads, Parts, Styles,
          Arrivals, Calls, Room, Programs, Requests, Names, Blocks, Visits,
          Events, Width, Versions, Entries

\* A buffer has a place (MAX_LENGTH), and so has the queue (SEND_QUEUE_MAX_LEN);
\* a form has finitely many files, and nobody is not a peer.
ASSUME ServersAssumption ==
  /\ Parts \in Nat
  /\ Width \in Nat \ {0} /\ MaxLen \in Nat \ {0}
  /\ Versions \subseteq Nat
  /\ IsFiniteSet(Names) /\ Blocks \in Nat
  /\ "nobody" \notin Sessions

VARIABLES
  subject,
  send_queue, sender, loops, writing, sendClosed, accepted, dropped, wire,
  edition, main, incoming, sessions, at, shut, members, threads, torn, premature,
  style, came, data, hears, backlog, write, alive, overwritten, echoed,
  stage, deadline, socket, peer, done, response, serving,
  reads, arrived, unsent, spawned, writes, failed, registered, collided, replies,
  way, called, nodes, sending, pending, connected, delivered, curLen, receiving,
  reading, undefined,
  program, asked, header, received, gone,
  kQueue, kSender, kLoops, kWriting, kClosed, kAccepted, kDropped, kWire,
  visits, request, saving, copied, answer, ended, jar, disk, latest, spoiled,
  events, stream, split, content,
  length, client, session, sentBytes, upward, receive, returned, downward, got, cut,
  tried, step, object, outcome,
  version, statics, built, life, part, entries, screen, overlapped, garbled

cVars == <<send_queue, sender, loops, writing, sendClosed, accepted, dropped, wire>>
rVars ==
  <<edition, main, incoming, sessions, at, shut, members, threads, torn, premature>>
eVars == <<style, came, data, hears, backlog, write, alive, overwritten, echoed>>
hVars == <<stage, deadline, socket, peer, done, response, serving>>
wVars == <<reads, arrived, unsent, spawned, writes, failed, registered, collided, replies>>
aVars == <<way, called, nodes, sending, pending, connected, delivered, curLen,
           receiving, reading, undefined>>
kVars == <<program, asked, header, received, gone,
           kQueue, kSender, kLoops, kWriting, kClosed, kAccepted, kDropped, kWire>>
gVars == <<visits, request, saving, copied, answer, ended, jar, disk, latest, spoiled>>
sVars == <<events, stream, split, content>>
yVars ==
  <<length, client, session, sentBytes, upward, receive, returned, downward, got, cut>>
pVars == <<tried, step, object, outcome>>
lVars == <<version, statics, built, life, part, entries, screen, overlapped, garbled>>

C == INSTANCE CoroutineSend WITH closed <- sendClosed
R == INSTANCE SessionRegistry
E == INSTANCE EchoSession
B == INSTANCE BeastServers WITH Connections <- Sessions
A == INSTANCE AsyncSession
N == INSTANCE MsgNodes
K == INSTANCE Clients WITH
       replies <- received, send_queue <- kQueue, sender <- kSender, loops <- kLoops,
       writing <- kWriting, closed <- kClosed, accepted <- kAccepted,
       dropped <- kDropped, wire <- kWire
L == INSTANCE Logger
G == INSTANCE MyStore WITH Visitors <- Sessions, asked <- request

allVars ==
  <<subject, csVars, cVars, vars, rVars, eVars, hVars, wVars, aVars, kVars,
    gVars, sVars, yVars, pVars, lVars>>

\* A step of one part.
OfServer ==
  /\ subject = "server"
  /\ UNCHANGED <<subject, cVars, vars, rVars, eVars, hVars, wVars, aVars, kVars, gVars, sVars, yVars, pVars, lVars>>
OfSend ==
  /\ subject = "send"
  /\ UNCHANGED <<subject, csVars, vars, rVars, eVars, hVars, wVars, aVars, kVars, gVars, sVars, yVars, pVars, lVars>>
OfLogic ==
  /\ subject = "logic"
  /\ UNCHANGED <<subject, csVars, cVars, rVars, eVars, hVars, wVars, aVars, kVars, gVars, sVars, yVars, pVars, lVars>>
OfRegistry ==
  /\ subject = "registry"
  /\ UNCHANGED <<subject, csVars, cVars, vars, eVars, hVars, wVars, aVars, kVars, gVars, sVars, yVars, pVars, lVars>>
OfEcho ==
  /\ subject = "echo"
  /\ UNCHANGED <<subject, csVars, cVars, vars, rVars, hVars, wVars, aVars, kVars, gVars, sVars, yVars, pVars, lVars>>
OfHttp ==
  /\ subject = "http"
  /\ UNCHANGED <<subject, csVars, cVars, vars, rVars, eVars, wVars, aVars, kVars, gVars, sVars, yVars, pVars, lVars>>
OfWebSocket ==
  /\ subject = "websocket"
  /\ UNCHANGED <<subject, csVars, cVars, vars, rVars, eVars, hVars, aVars, kVars, gVars, sVars, yVars, pVars, lVars>>
OfAsync ==
  /\ subject = "async"
  /\ UNCHANGED <<subject, csVars, cVars, vars, rVars, eVars, hVars, wVars, kVars, gVars, sVars, yVars, pVars, lVars>>
OfClient ==
  /\ subject = "client"
  /\ UNCHANGED <<subject, csVars, cVars, vars, rVars, eVars, hVars, wVars, aVars, gVars, sVars, yVars, pVars, lVars>>

OfGin ==
  /\ subject = "gin"
  /\ UNCHANGED <<subject, csVars, cVars, vars, rVars, eVars, hVars, wVars, aVars, kVars, sVars, yVars, pVars, lVars>>
OfSse ==
  /\ subject = "sse"
  /\ UNCHANGED <<subject, csVars, cVars, vars, rVars, eVars, hVars, wVars, aVars, kVars, gVars, yVars, pVars, lVars>>

OfSync ==
  /\ subject = "sync"
  /\ UNCHANGED <<subject, csVars, cVars, vars, rVars, eVars, hVars, wVars, aVars, kVars,
                 gVars, sVars, pVars, lVars>>
OfEndpoints ==
  /\ subject = "endpoints"
  /\ UNCHANGED <<subject, csVars, cVars, vars, rVars, eVars, hVars, wVars, aVars, kVars,
                 gVars, sVars, yVars, lVars>>
OfLogger ==
  /\ subject = "logger"
  /\ UNCHANGED <<subject, csVars, cVars, vars, rVars, eVars, hVars, wVars, aVars, kVars,
                 gVars, sVars, yVars, pVars>>

MCInit ==
  /\ subject \in {"server", "send", "logic", "registry", "echo", "http", "websocket",
                 "async", "client", "gin", "sse", "sync",
                 "endpoints", "logger"}
  /\ CsInit /\ C!Init /\ Init /\ R!RegInit /\ E!EchoInit /\ B!HttpInit /\ B!WsInit
  /\ A!AsInit /\ K!ClInit /\ G!GinInit /\ G!SseInit /\ E!SyncInit /\ K!EpInit /\ L!LgInit
  /\ subject # "registry" => edition = CHOOSE e \in Editions : TRUE
  /\ subject # "client" => program = CHOOSE p \in Programs : TRUE
  /\ subject # "async" => way = "err"
  /\ subject # "sync" => length = 0
  /\ subject # "logger" => version = CHOOSE v \in Versions : TRUE
  /\ subject # "endpoints" => tried = "server_endpoint"
  /\ subject # "echo" => style = CHOOSE s \in Styles : TRUE

MCNext ==
  \/ OfServer /\ CsNext
  \/ OfSend /\ C!Next
  \/ OfLogic /\ Next
  \/ OfRegistry /\ R!RegNext
  \/ OfEcho /\ E!EchoNext
  \/ OfHttp /\ B!HttpNext
  \/ OfWebSocket /\ B!WsNext
  \/ OfAsync /\ A!AsNext
  \/ OfClient /\ K!ClNext
  \/ OfGin /\ G!GinNext
  \/ OfSse /\ G!SseNext
  \/ OfSync /\ E!SyncNext
  \/ OfEndpoints /\ K!EpNext
  \/ OfLogger /\ L!LgNext

\* The fairness each part states, of its own steps.
ServerFairness ==
  /\ WF_allVars(OfServer /\ Acceptor)
  /\ \A s \in Sessions :
       /\ WF_allVars(OfServer /\ Top(s))
       /\ WF_allVars(OfServer /\ closed[s] /\ (HeadRead(s) \/ BodyRead(s) \/ ReadThrows(s)))
       /\ WF_allVars(OfServer /\ Close(s))
       /\ WF_allVars(OfServer /\ RemoveSession(s))

SendFairness ==
  /\ WF_allVars(OfSend /\ C!Spawn)
  /\ \A c \in Messages :
       /\ WF_allVars(OfSend /\ C!Coroutine(c))
       /\ WF_allVars(OfSend /\ \E w \in writing : w.by = c /\ C!Io(w))

LogicFairness ==
  /\ WF_allVars(OfLogic /\ Worker)
  /\ WF_allVars(OfLogic /\ (NotifyStop \/ DestroyMembers \/ RequestStop \/ Join))

RegistryFairness ==
  /\ WF_allVars(OfRegistry /\ R!MainGoesOn)
  /\ WF_allVars(OfRegistry /\ R!EndThreads)
  /\ \A s \in Sessions, h \in R!Halves :
       /\ WF_allVars(OfRegistry /\ R!Ends(s, h))
       /\ WF_allVars(OfRegistry /\ R!Aborted(s, h))

HttpFairness ==
  \A c \in Sessions :
    /\ WF_allVars(OfHttp /\ B!Handler(c))
    /\ WF_allVars(OfHttp /\ B!Elapse(c))
    /\ WF_allVars(OfHttp /\ B!Throws(c) /\ B!Complete(c))

SyncFairness ==
  /\ WF_allVars(OfSync /\ E!Client)
  /\ WF_allVars(OfSync /\ E!AcceptClient)
  /\ WF_allVars(OfSync /\ E!Serve)

MCSpec ==
  /\ MCInit /\ [][MCNext]_allVars
  /\ ServerFairness /\ SendFairness /\ LogicFairness /\ RegistryFairness /\ HttpFairness
  /\ SyncFairness

-----------------------------------------------------------------------------
(* Properties: those of the parts, some of one kind together.              *)

\* A session in use is in the registry that keeps it alive, in the coroutine
\* server and the callback servers (Server.cc) and in that of WebSocket (19
\* server.cc); and the logger outlives all that log.
ServedAreKept ==
  OpenIsRegistered /\ R!LiveIsRegistered /\ B!WorkingAreRegistered /\ L!LoggerOutlives

\* A session that has failed leaves the registry, unless it failed before
\* handle_accept put it there, in the coroutine server and in the callback
\* servers that remove sessions at all.
FailedLeave == StaleOnlyIfEarly /\ R!FailedLeaves

\* A connection that is closed, or that only its deadline can close, ends: its
\* reading coroutine (17), its handlers (9 to 15), its request (18); and the client
\* of the synchronous echo is answered, leaves, and is not served on (3).
MustEnd(s) ==
  CASE subject = "server" -> closed[s]
    [] subject = "registry" -> shut[s]
    [] subject = "http" -> stage[s] # "none"
    [] OTHER -> subject = "sync"
HasEnded(s) ==
  CASE subject = "server" -> reader[s] = "done"
    [] subject = "registry" -> R!Over(s)
    [] subject = "http" -> B!Over(s)
    [] OTHER -> E!Over
ConnectionsEnd == \A s \in Sessions : MustEnd(s) ~> HasEnded(s)

\* The node of a message is written as the message: behind its id and length in
\* 17, which reads them at the same places (15 is in FramedServer).
NodesHold ==
  \A bytes \in {<<>>, <<7>>, <<8, 9>>} :
    /\ N!Sent(N!Node(4, 0, bytes)) = bytes
    /\ N!Sent(N!Node(7, 0, bytes)) = bytes
    /\ N!Sent(N!Node(17, 1001, bytes)) = <<3, 233, 0, Len(bytes)>> \o bytes

\* What the peer of the echo servers (5, 6, 7, 16, 19) gets is a prefix of what
\* it sent, until the buffer is changed, or a write begun, under a write; the
\* asynchronous operations of 4 write every message, whole and in order, from
\* nodes that hold it; the replies the client programs read are those to their
\* requests; the synchronous echo (3) answers the line, or zeros for a part that
\* came late; a line of the log is one entry unless two threads log at once.
BytesInOrder ==
  /\ E!EchoesWhatCame
  /\ B!RepliesInOrder
  /\ A!SessionKeepsTrack
  /\ K!RepliesMatch
  /\ E!EchoesOrZeros
  /\ L!LinesWhole

\* A node holds its message; the first sockets are what they should be (1); what
\* the web server answers is so, and the page shows the values of the events
\* (pages-other/mystore).
AnswersAreTrue ==
  /\ NodesHold
  /\ K!ReturnsWithResult
  /\ G!RepliesAreTrue
  /\ G!ShowsWholeValues

\* No accepted message is left to nobody (17 and 19) or written twice (17),
\* and each is written completely unless the session closes.
SendsOnce == C!NothingStranded /\ C!WrittenOnce /\ B!QueuedIsSent
AllWritten == C!AllWritten
=============================================================================
