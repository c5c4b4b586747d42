------------------------------ MODULE Clients ------------------------------
(***************************************************************************)
(* The client programs of the asio chapters, each on one connection of its *)
(* server (asio/*/client).  They ask and read the reply before they ask    *)
(* again, except that of 9, which asks in one thread and reads in another. *)
(* The servers up to 16 answer as OrderedStream says, which SendQueue      *)
(* implements; that of 17 does not, and CoroutineSend is its sending half. *)
(* The reply to a request is its header and its body, two pieces.          *)
(***************************************************************************)
EXTENDS Integers, Sequences, FiniteSets

CONSTANTS
  Programs,   \* the chapters the clients are of
  Requests,   \* how many requests one that repeats itself sends: a bound
  MaxLen      \* SEND_QUEUE_MAX_LEN

VARIABLES
  program,    \* the chapter
  asked,      \* the requests written, 1 .. asked
  header,     \* the header read whose body is not yet, or none
  replies,    \* the replies read: a header and a body each
  gone,       \* the connection is over for the client
  send_queue, sender, loops, writing, closed, accepted, dropped, wire  \* the server

clientVars == <<program, asked, header, replies, gone>>
serverVars == <<send_queue, sender, loops, writing, closed, accepted, dropped, wire>>
clVars == <<clientVars, serverVars>>

Stream == INSTANCE OrderedStream WITH Messages <- 1 .. Requests, Pieces <- 2
Coroutines == INSTANCE CoroutineSend WITH Messages <- 1 .. Requests, Pieces <- 2

ClInit ==
  /\ program \in Programs
  /\ asked = 0
  /\ header = <<>>
  /\ replies = <<>>
  /\ gone = FALSE
  /\ Coroutines!Init

\* How many requests a client sends (500 in 14, 15 and 17, without end in 9).
Rounds == IF program \in {9, 14, 15, 17} THEN Requests ELSE 1

-----------------------------------------------------------------------------
(* The client.  Each read waits until all it asks for is there.            *)

Unread == SubSeq(wire, 2 * Len(replies) + Len(header) + 1, Len(wire))

Write ==
  /\ ~gone /\ asked < Rounds
  /\ asked' = asked + 1
  /\ UNCHANGED <<program, header, replies, gone, serverVars>>

ReadHead ==
  /\ ~gone /\ header = <<>> /\ Unread # <<>>
  /\ header' = <<Head(Unread)>>
  /\ UNCHANGED <<program, asked, replies, gone, serverVars>>

ReadBody ==
  /\ ~gone /\ header # <<>> /\ Unread # <<>>
  /\ replies' = Append(replies, Append(header, Head(Unread)))
  /\ header' = <<>>
  /\ UNCHANGED <<program, asked, gone, serverVars>>

\* As many bytes as were sent, at once.
ReadLine ==
  /\ ~gone /\ Len(Unread) >= 2
  /\ replies' = Append(replies, SubSeq(Unread, 1, 2))
  /\ UNCHANGED <<program, asked, header, gone, serverVars>>

\* A read or a write throws: main, or the thread of the connection, ends.
Throws ==
  /\ ~gone /\ (closed \/ asked < Rounds \/ Len(replies) < asked)
  /\ gone' = TRUE
  /\ UNCHANGED <<program, asked, header, replies, serverVars>>

\* The next request waits for the reply.  Mutant: it does not.
AskAndRead_Ahead == Write \/ (asked > 0 /\ (ReadHead \/ ReadBody)) \/ Throws
AskAndRead ==
  \/ Len(replies) = asked /\ Write
  \/ Len(replies) < asked /\ (ReadHead \/ ReadBody)
  \/ Throws

SendThread == Write
RecvThread == ReadHead \/ ReadBody

Client8 == program = 8 /\ AskAndRead
Client9 == program = 9 /\ (SendThread \/ RecvThread \/ Throws)
Client10 == program = 10 /\ AskAndRead
Client11 == program = 11 /\ AskAndRead
Client12 == program = 12 /\ AskAndRead
Client13 == program = 13 /\ AskAndRead
Client14 == program = 14 /\ AskAndRead
Client15 == program = 15 /\ AskAndRead
Client16 == program = 16 /\ (Write \/ ReadLine \/ Throws)
Client17 == program = 17 /\ AskAndRead

\* SayHello of the stub sends the name and waits for the whole response.
Client20 ==
  /\ program = 20
  /\ \/ asked = 0 /\ Write
     \/ asked = 1 /\ replies = <<>> /\ ReadLine
     \/ Throws

-----------------------------------------------------------------------------
(* The servers.                                                            *)

Answers ==
  /\ program \notin {17, 20}
  /\ \/ Stream!Accept /\ accepted' = Append(accepted, Len(accepted) + 1)
                      /\ Len(accepted) < asked
     \/ Stream!Transmit
  /\ UNCHANGED <<clientVars, send_queue, sender, loops, writing, closed, dropped>>

Answers17 ==
  /\ program = 17
  /\ Coroutines!Next
  /\ Len(accepted') + Cardinality(dropped') <= asked
  /\ UNCHANGED clientVars

\* The handler of a gRPC server, on a thread of its own, fills in the response,
\* which grpc sends as a whole.
SayHello ==
  /\ program = 20
  /\ Len(accepted) < asked
  /\ LET m == Len(accepted) + 1
     IN /\ accepted' = Append(accepted, m)
        /\ wire' = wire \o <<<<m, 1>>, <<m, 2>>>>
  /\ UNCHANGED <<clientVars, send_queue, sender, loops, writing, closed, dropped>>

ClNext ==
  \/ Client8 \/ Client9 \/ Client10 \/ Client11 \/ Client12 \/ Client13
  \/ Client14 \/ Client15 \/ Client16 \/ Client17 \/ Client20
  \/ Answers \/ Answers17 \/ SayHello

ClSpec == ClInit /\ [][ClNext]_clVars

-----------------------------------------------------------------------------
(* Properties.                                                             *)

\* The i-th reply a client reads is the reply to its i-th request, and whole:
\* also with 17, whose coroutines write across one another when a second
\* message is sent before the first is written (17 Session.cc line 122), which
\* a client that waits for its reply never makes them do.
RepliesMatch ==
  \A i \in 1 .. Len(replies) : replies[i] = <<<<i, 1>>, <<i, 2>>>>

-----------------------------------------------------------------------------
(***************************************************************************)
(* The first program (asio/1-socket/endpoint.cc): functions that make one  *)
(* acceptor or socket each, of which main calls the last but one.  Every   *)
(* call on the library or the kernel may fail, and does in a wrong state.  *)
(***************************************************************************)
VARIABLES
  tried,      \* the function that is called
  step,       \* its next call
  object,     \* what its acceptor and its socket are: closed, open, bound, ...
  outcome     \* of the function: none yet, returned, or the program is terminated

epVars == <<tried, step, object, outcome>>

\* A call, the states of the object it is for, and the one it leads to.  The
\* constructor with a protocol opens.
Does(what, on, from, to) == [what |-> what, on |-> on, from |-> from, to |-> to]
Open(on) == Does("open", on, {"closed"}, "open")
Bind(on) == Does("bind", on, {"open"}, "bound")
Listen(on) == Does("listen", on, {"open", "bound"}, "listening")
Connect(on) == Does("connect", on, {"closed", "open"}, "connected")
Accept(on) == Does("accept", on, {"closed"}, "connected")
Resolve == Does("resolve", "socket", {"closed"}, "closed")
Parse == Does("parse", "socket", {"closed"}, "closed")

\* Only this function asks for an error_code; it prints it and goes on.
client_endpoint == <<Does("parse with error_code", "socket", {"closed"}, "closed")>>
server_endpoint == <<>>
create_tcp_socket == <<Open("socket"), Open("socket")>>
create_appertor_socket == <<Open("acceptor"), Open("acceptor")>>
create_bind_socket == <<Open("acceptor"), Bind("acceptor")>>
connect_to_endpoint == <<Parse, Open("socket"), Connect("socket")>>
dns_connect_to_endpoint == <<Resolve, Connect("socket")>>
accept_new_connection ==
  <<Open("acceptor"), Bind("acceptor"), Listen("acceptor"), Open("socket"), Accept("socket")>>

Tried ==
  [client_endpoint |-> client_endpoint, server_endpoint |-> server_endpoint,
   create_tcp_socket |-> create_tcp_socket,
   create_appertor_socket |-> create_appertor_socket,
   create_bind_socket |-> create_bind_socket,
   connect_to_endpoint |-> connect_to_endpoint,
   dns_connect_to_endpoint |-> dns_connect_to_endpoint,
   accept_new_connection |-> accept_new_connection]

EpInit ==
  /\ tried \in DOMAIN Tried
  /\ step = 1
  /\ object = [o \in {"acceptor", "socket"} |-> "closed"]
  /\ outcome = "none"

CallsLeft == outcome = "none" /\ step <= Len(Tried[tried])

Succeeds ==
  /\ CallsLeft
  /\ LET call == Tried[tried][step]
     IN /\ object[call.on] \in call.from
        /\ object' = [object EXCEPT ![call.on] = call.to]
  /\ step' = step + 1
  /\ UNCHANGED <<tried, outcome>>

\* What is thrown is a system_error, and the handlers are for an error_code.
CallThrows ==
  /\ CallsLeft
  /\ IF tried = "client_endpoint"
     THEN step' = step + 1 /\ UNCHANGED outcome
     ELSE outcome' = "terminated" /\ UNCHANGED step
  /\ UNCHANGED <<tried, object>>

Returns ==
  /\ outcome = "none" /\ ~CallsLeft
  /\ outcome' = "returned"
  /\ UNCHANGED <<tried, step, object>>

EpNext == Succeeds \/ CallThrows \/ Returns

\* A function returns only with what it is to make, and those that open twice,
\* or accept into a socket that is open already, never do.
ReturnsWithResult ==
  outcome = "returned" =>
    CASE tried = "create_bind_socket" -> object["acceptor"] = "bound"
      [] tried \in {"connect_to_endpoint", "dns_connect_to_endpoint"} ->
           object["socket"] = "connected"
      [] OTHER -> tried \in {"client_endpoint", "server_endpoint"}
=============================================================================
