----------------------------- MODULE EchoSession ------------------------------
(***************************************************************************)
(* The echo servers before messages were framed: a session of asio 5, 6    *)
(* and 7 (asio/*/src/core/session/Session.cc) and of the coroutine of 16   *)
(* (asio/16-coroutine-api/server.cc).  Whatever a read returns is written  *)
(* back.  In 5, 6 and 16 reading and writing alternate on one buffer; 7    *)
(* reads on while it writes, and its first write is from that buffer.      *)
(* One thread runs the handlers; what a read returns is a number.  The     *)
(* connection is accepted first; a signal ends the server of 16.           *)
(***************************************************************************)
EXTENDS Integers, SequencesExt

CONSTANTS
  Reads,     \* how many reads return something: a bound
  Parts,     \* in how many parts the kernel takes a write: a bound
  Styles     \* which of the servers are run

VARIABLES
  style,        \* the server
  came,         \* how many reads have returned
  data,         \* _data: what a read left there, 0 when it is cleared
  hears,        \* accepting; open: a read is pending; handler: handle_read of 7 runs; none
  backlog,      \* _send_queue of 7
  write,        \* the pending write: where its bytes are, the parts taken, failed
  alive,        \* 5: the session has not deleted itself
  overwritten,  \* history: the buffer changed under a pending write
  echoed        \* the parts the peer has got

echoVars == <<style, came, data, hears, backlog, write, alive, overwritten, echoed>>

NoWrite == [from |-> "none", taken |-> 0, failed |-> FALSE]
Pending == write.from # "none"

EchoInit ==
  /\ style \in Styles
  /\ came = 0
  /\ data = 0
  /\ hears = "accepting"
  /\ backlog = <<>>
  /\ write = NoWrite
  /\ alive = TRUE
  /\ overwritten = FALSE
  /\ echoed = <<>>

\* Start: the first read, into a buffer that has been cleared.
Start ==
  /\ data' = 0
  /\ hears' = "open"
  /\ UNCHANGED <<style, came, backlog, write, alive, overwritten, echoed>>

\* handle_accept: an error ends the session, which 5 deletes.
HandleAccept ==
  /\ hears = "accepting" /\ style # 16
  /\ \/ Start
     \/ /\ hears' = "none"
        /\ alive' = (style # 5)
        /\ UNCHANGED <<style, came, data, backlog, write, overwritten, echoed>>

\* acceptor() of 16 spawns the echo; an error would end it, silently.
AcceptAndSpawn ==
  /\ hears = "accepting" /\ style = 16
  /\ hears' \in {"open", "none"}
  /\ UNCHANGED <<style, came, data, backlog, write, alive, overwritten, echoed>>

\* The signal stops the io_context of 16: no coroutine is resumed any more.
Stop ==
  /\ style = 16
  /\ hears' = "none"
  /\ write' = NoWrite
  /\ UNCHANGED <<style, came, data, backlog, alive, overwritten, echoed>>

StartsFrom(place) == write' = [from |-> place, taken |-> 0, failed |-> FALSE]

\* handle_read up to its write.  Mutant: the next read starts with the write.
HandleRead_AtOnce ==
  /\ hears = "open" /\ style # 7
  /\ came < Reads
  /\ came' = came + 1
  /\ data' = came + 1
  /\ StartsFrom("buffer")
  /\ UNCHANGED <<style, hears, backlog, alive, overwritten, echoed>>

Arrives ==
  /\ hears = "open"
  /\ came < Reads
  /\ came' = came + 1
  /\ data' = came + 1
  /\ UNCHANGED <<style, alive, overwritten, echoed>>

HandleRead ==
  /\ Arrives
  /\ style # 7
  /\ hears' = "none"
  /\ StartsFrom("buffer")
  /\ UNCHANGED backlog

\* The Send of 7 queues the bytes, and writes those of the buffer if nothing was
\* queued.
HandleRead7 ==
  /\ Arrives
  /\ style = 7
  /\ hears' = "handler"
  /\ backlog' = Append(backlog, came + 1)
  /\ IF backlog = <<>> THEN StartsFrom("buffer") ELSE UNCHANGED write

\* The rest of handle_read in 7: the buffer is cleared and the next read starts.
ReadOn ==
  /\ hears = "handler"
  /\ data' = 0
  /\ hears' = "open"
  /\ overwritten' = (overwritten \/ write.from = "buffer")
  /\ UNCHANGED <<style, came, backlog, write, alive, echoed>>

\* A read fails.  5 deletes the session; the others let go of it.
ReadError ==
  /\ hears = "open"
  /\ hears' = "none"
  /\ alive' = (style # 5)
  /\ UNCHANGED <<style, came, data, backlog, write, overwritten, echoed>>

\* The kernel takes a part of a write, as the memory is then.
TakePart ==
  /\ Pending
  /\ ~write.failed
  /\ write.taken < Parts
  /\ LET value == IF write.from = "buffer" THEN data ELSE Head(backlog)
     IN echoed' = Append(echoed, <<value, write.taken + 1>>)
  /\ write' = [write EXCEPT !.taken = @ + 1]
  /\ UNCHANGED <<style, came, data, hears, backlog, alive, overwritten>>

WriteFail ==
  /\ Pending
  /\ write.taken < Parts
  /\ write' = [write EXCEPT !.failed = TRUE]
  /\ UNCHANGED <<style, came, data, hears, backlog, alive, overwritten, echoed>>

\* handle_write in 5, 6 and 16: the buffer is free for the next read.
HandleWrite ==
  /\ Pending
  /\ style # 7
  /\ write.taken = Parts
  /\ write' = NoWrite
  /\ data' = IF style = 16 THEN data ELSE 0
  /\ hears' = "open"
  /\ UNCHANGED <<style, came, backlog, alive, overwritten, echoed>>

\* In 7 the front of the queue is taken out and the next one written.
HandleWrite7 ==
  /\ Pending
  /\ style = 7
  /\ hears # "handler"
  /\ write.taken = Parts
  /\ backlog' = Tail(backlog)
  /\ IF backlog' = <<>> THEN write' = NoWrite ELSE StartsFrom("queue")
  /\ UNCHANGED <<style, came, data, hears, alive, overwritten, echoed>>

\* A failed write.  7 leaves its message in the queue, and reads on.
WriteError ==
  /\ Pending
  /\ hears # "handler"
  /\ write.failed
  /\ write' = NoWrite
  /\ alive' = (style # 5)
  /\ UNCHANGED <<style, came, data, hears, backlog, overwritten, echoed>>

EchoNext ==
  \/ HandleAccept \/ AcceptAndSpawn \/ Stop
  \/ HandleRead \/ HandleRead7 \/ ReadOn \/ ReadError
  \/ TakePart \/ WriteFail \/ HandleWrite \/ HandleWrite7 \/ WriteError

EchoSpec == EchoInit /\ [][EchoNext]_echoVars

-----------------------------------------------------------------------------
(* Properties.                                                             *)

\* The peer gets back what it sent, in order, unless the buffer changed under
\* a write, which happens in 7 only; and a session that is deleted (5) has
\* no operation pending whose handler would use it.
EchoesWhatCame ==
  /\ ~overwritten =>
       IsPrefix(echoed, FlattenSeq([i \in 1 .. came |-> [p \in 1 .. Parts |-> <<i, p>>]]))
  /\ ~alive => hears = "none" /\ ~Pending

-----------------------------------------------------------------------------
(***************************************************************************)
(* The synchronous echo of asio 3 (server.cc, client.cc), one client and   *)
(* the thread that serves it, with the loops over write_some and read_some *)
(* of asio 2 (buffer.cc), which are also those of asio::write and read.    *)
(* The connection is two streams of bytes that come in pieces.  The k-th   *)
(* byte of the line is k; 0 is what memset writes.                         *)
(***************************************************************************)
CONSTANT Width      \* MAX_LENGTH: the size of the buffers

VARIABLES
  length,     \* what strlen returns for the line the client sends
  client,     \* its writing, its reading, or that it is gone
  session,    \* accepting, reading, writing or ended: the thread of the server
  sentBytes,  \* how many bytes the client has written
  upward,     \* the bytes on their way to the server
  receive,    \* the buffer of the session
  returned,   \* how much of it has been written back
  downward,   \* the bytes on their way to the client
  got,        \* what the client has read
  cut         \* history: a read returned a part of the line

syncVars ==
  <<length, client, session, sentBytes, upward, receive, returned, downward, got, cut>>

Cleared == [i \in 1 .. Width |-> 0]

SyncInit ==
  /\ length \in 0 .. Width - 1
  /\ client = "writing" /\ session = "accepting"
  /\ sentBytes = 0 /\ returned = 0
  /\ upward = <<>> /\ downward = <<>>
  /\ receive = Cleared
  /\ got = <<>>
  /\ cut = FALSE

-----------------------------------------------------------------------------
(* The client.                                                             *)

\* while (total_length != str.length()): write_some takes what it likes.
WriteToSocket ==
  /\ client = "writing" /\ sentBytes < length
  /\ \E n \in 1 .. length - sentBytes :
       /\ upward' = upward \o [i \in 1 .. n |-> sentBytes + i]
       /\ sentBytes' = sentBytes + n
  /\ UNCHANGED <<length, client, session, receive, returned, downward, got, cut>>

\* while (total_length != BLOCK_SIZE): read_some returns what is there.
ReadFromSocket ==
  /\ client = "reading" /\ Len(got) < length
  /\ \E n \in 1 .. Len(downward) :
       /\ Len(got) + n <= length
       /\ got' = got \o SubSeq(downward, 1, n)
       /\ downward' = SubSeq(downward, n + 1, Len(downward))
  /\ UNCHANGED <<length, client, session, sentBytes, upward, receive, returned, cut>>

\* main goes on to its read, and to its end.
ClientGoesOn ==
  /\ \/ client = "writing" /\ sentBytes = length /\ client' = "reading"
     \/ client = "reading" /\ Len(got) = length /\ client' = "gone"
  /\ UNCHANGED <<length, session, sentBytes, upward, receive, returned, downward, got, cut>>

Client == WriteToSocket \/ ReadFromSocket \/ ClientGoesOn

-----------------------------------------------------------------------------
(* The server.                                                             *)

\* The loop of server: a thread for the connection.
AcceptClient ==
  /\ session = "accepting"
  /\ session' = "reading"
  /\ UNCHANGED <<length, client, sentBytes, upward, receive, returned, downward, got, cut>>

\* read_some, into a buffer that has just been cleared.  Mutant: it has not.
SessionReads_NoMemset ==
  /\ session = "reading"
  /\ \E n \in 1 .. Len(upward) :
       /\ receive' = SubSeq(upward, 1, n) \o [i \in 1 .. Width - n |-> 7]
       /\ upward' = SubSeq(upward, n + 1, Len(upward))
       /\ cut' = (cut \/ n # length)
  /\ session' = "writing"
  /\ returned' = 0
  /\ UNCHANGED <<length, client, sentBytes, downward, got>>

SessionReads ==
  /\ session = "reading"
  /\ \E n \in 1 .. Len(upward) :
       /\ receive' = [i \in 1 .. Width |-> IF i <= n THEN upward[i] ELSE 0]
       /\ upward' = SubSeq(upward, n + 1, Len(upward))
       /\ cut' = (cut \/ n # length)
  /\ session' = "writing"
  /\ returned' = 0
  /\ UNCHANGED <<length, client, sentBytes, downward, got>>

\* The end of the stream, or an error when the client has left bytes unread.
SessionEnds ==
  /\ session = "reading" /\ client = "gone"
  /\ upward = <<>> \/ downward # <<>>
  /\ session' = "ended"
  /\ UNCHANGED <<length, client, sentBytes, upward, receive, returned, downward, got, cut>>

\* The whole buffer is written back, MAX_LENGTH bytes.  An error of the write
\* is not looked at.
SessionWrites ==
  /\ session = "writing"
  /\ \E n \in 1 .. Width - returned :
       /\ downward' = downward \o SubSeq(receive, returned + 1, returned + n)
       /\ returned' = returned + n
  /\ session' = IF returned' = Width THEN "reading" ELSE "writing"
  /\ UNCHANGED <<length, client, sentBytes, upward, receive, got, cut>>

WriteIgnored ==
  /\ session = "writing" /\ client = "gone"
  /\ session' = "reading"
  /\ UNCHANGED <<length, client, sentBytes, upward, receive, returned, downward, got, cut>>

Serve == SessionReads \/ SessionEnds \/ SessionWrites \/ WriteIgnored

SyncNext == Client \/ AcceptClient \/ Serve

SyncSpec ==
  SyncInit /\ [][SyncNext]_syncVars
    /\ WF_syncVars(Client) /\ WF_syncVars(AcceptClient) /\ WF_syncVars(Serve)

-----------------------------------------------------------------------------
(* Properties.                                                             *)

\* Every byte the client gets is the one it sent at that place or, if the line
\* came in pieces (server.cc line 20), a zero of the first buffer.
EchoesOrZeros ==
  \A i \in 1 .. Len(got) : got[i] = i \/ (cut /\ got[i] = 0)

\* The client gets as many bytes as it has sent and leaves, and the thread that
\* served it ends.
Over == client = "gone" /\ session = "ended"
SyncEnds == <>Over
=============================================================================
