---------------------------- MODULE SessionRead ----------------------------
(***************************************************************************)
(* The receiving half of a session of the asio servers 8 to 15             *)
(* (asio/*/src/core/session/Session.cc, handle_read; the line numbers are  *)
(* those of 15): it cuts the byte stream of a TCP connection into          *)
(* messages, each a header and a body.  The chapters differ in the header, *)
(* in what an error does and in the threads that run the handlers.         *)
(*                                                                         *)
(* A step is one turn of handle_read's loop; at most one read is pending,  *)
(* so handlers follow one another, except that one return path starts the  *)
(* next read before its last store (lines 129-133): with the threads of 15 *)
(* that store may come after the next handler has begun.                   *)
(***************************************************************************)
EXTENDS Integers, SequencesExt

CONSTANTS
  BodyLength,   \* MSG_BODY_LENGTH: the longest body, and the most one read returns
  MaxId,        \* the largest id a header may carry, 2000 in the code
  Streams,      \* what a peer may send: sequences of messages, the bound
  Chapters      \* which of the servers are run

Byte == 0 .. 255
ShortNat == {n \in Nat : n <= 32767}       \* the shorts that are not negative

\* What a peer sends has headers with the length of the body that follows.
ASSUME SessionReadAssumption ==
  /\ BodyLength \in Nat \ {0}
  /\ MaxId \in Nat
  /\ Chapters \subseteq 8 .. 15
  /\ Streams \subseteq Seq([id : ShortNat, len : ShortNat, data : Seq(Byte)])
  /\ \A ms \in Streams : \A i \in 1 .. Len(ms) : ms[i].len = Len(ms[i].data)

VARIABLES
  chapter,      \* the server this is a session of
  sent,         \* the messages the peer sends
  wire,         \* the bytes not read yet
  reading,      \* the pending async_read_some: open, dead when it was started on a
                \* closed socket; or why there is none: a handler runs, the last
                \* read failed, a header was refused, the program is over
  chunk,        \* _data from copy_len on: what the running handler has left
  head,         \* _recv_head_node->_data
  cur_len,      \* _recv_head_node->_cur_len
  node,         \* _recv_msg_node; data is what has been copied into it so far
  head_parse,   \* _head_parse
  stores,       \* how many handlers still have to set _head_parse
  closed,       \* _is_closed
  overtaken,    \* history: a handler has begun before such a store of the one before
  posted        \* the complete messages, in order

vars == <<chapter, sent, wire, reading, chunk, head, cur_len, node, head_parse, stores,
          closed, overtaken, posted>>

HeadLength == IF chapter <= 11 THEN 2 ELSE 4         \* MSG_HEAD_TOTAL_LEN
Zeros == [i \in 1 .. HeadLength |-> 0]
NoNode == [id |-> 0, len |-> 0, data |-> <<>>]

\* A short in the order of the wire, for the ids and lengths a peer sends, and
\* back, for any two bytes: a short is signed.  8 copies the memory of a
\* little-endian host, the others convert.
Short(n) == IF chapter = 8 THEN <<n % 256, n \div 256>> ELSE <<n \div 256, n % 256>>
Signed(n) == IF n <= 32767 THEN n ELSE n - 65536
Number(first, second) ==
  Signed(IF chapter = 8 THEN 256 * second + first ELSE 256 * first + second)

\* Before 12 a message has no id; 0 stands for none.
Header(id, len) == IF chapter <= 11 THEN Short(len) ELSE Short(id) \o Short(len)
Bytes(m) == Header(m.id, m.len) \o m.data
Encoded(ms) == FlattenSeq([i \in 1 .. Len(ms) |-> Bytes(ms[i])])

Init ==
  /\ chapter \in Chapters
  /\ sent \in Streams
  /\ \A i \in 1 .. Len(sent) : chapter <= 11 <=> sent[i].id = 0
  /\ wire = Encoded(sent)
  /\ reading = "open"
  /\ chunk = <<>>
  /\ head = Zeros
  /\ cur_len = 0
  /\ node = NoNode
  /\ head_parse = FALSE
  /\ stores = 0
  /\ closed = FALSE
  /\ overtaken = FALSE
  /\ posted = <<>>

TypeOK ==
  /\ chapter \in Chapters
  /\ sent \in Streams
  /\ wire \in Seq(Byte)
  /\ reading \in {"none", "open", "dead", "failed", "refused", "over"}
  /\ chunk \in Seq(Byte)
  /\ head \in [1 .. HeadLength -> Byte]
  /\ cur_len \in Nat
  /\ node \in [id : Nat, len : Nat \cup {-1}, data : Seq(Byte)]
  /\ head_parse \in BOOLEAN
  /\ stores \in Nat
  /\ closed \in BOOLEAN
  /\ overtaken \in BOOLEAN
  /\ posted \in Seq([id : Nat, len : Nat, data : Seq(Byte)])

-----------------------------------------------------------------------------
\* async_read_some as the last thing a handler does.
StartRead == reading' = IF closed THEN "dead" ELSE "open"

First(s, n) == SubSeq(s, 1, n)
After(s, n) == SubSeq(s, n + 1, Len(s))

\* The read completes with some of the bytes under way.  Up to 14 one thread
\* runs all handlers of a session, in 15 any thread of the pool may.
NextHandler == chapter = 15 \/ stores = 0
ReadSome ==
  /\ reading = "open"
  /\ NextHandler
  /\ \E n \in 1 .. BodyLength :
       /\ n <= Len(wire)
       /\ chunk' = First(wire, n)
       /\ wire' = After(wire, n)
  /\ reading' = "none"
  /\ overtaken' = (overtaken \/ stores > 0)
  /\ UNCHANGED <<chapter, sent, head, cur_len, node, head_parse, stores, closed, posted>>

\* The peer is gone, the connection broke, or the socket was closed here.
\* 8 only logs it.
ReadError ==
  /\ reading \in {"open", "dead"}
  /\ NextHandler
  /\ reading' = "failed"
  /\ closed' = (closed \/ chapter # 8)
  /\ UNCHANGED <<chapter, sent, wire, chunk, head, cur_len, node, head_parse, stores, overtaken, posted>>

\* memcpy of bytes to the header node, behind what it holds.
Filled(bytes) ==
  [i \in 1 .. HeadLength |->
     IF i - cur_len \in 1 .. Len(bytes) THEN bytes[i - cur_len] ELSE head[i]]

\* Not even the header is complete.
HeadPart ==
  /\ chunk # <<>>
  /\ ~head_parse
  /\ Len(chunk) + cur_len < HeadLength
  /\ head' = Filled(chunk)
  /\ cur_len' = cur_len + Len(chunk)
  /\ chunk' = <<>>
  /\ StartRead
  /\ UNCHANGED <<chapter, sent, wire, node, head_parse, stores, closed, overtaken, posted>>

\* The header is complete: what it says, and the bytes behind it.
HeadRemain == HeadLength - cur_len
HeadComplete ==
  /\ chunk # <<>>
  /\ ~head_parse
  /\ Len(chunk) + cur_len >= HeadLength
FullHead == Filled(First(chunk, HeadRemain))
DataId == IF chapter <= 11 THEN 0 ELSE Number(FullHead[1], FullHead[2])
DataLen == Number(FullHead[HeadLength - 1], FullHead[HeadLength])
Rest == After(chunk, HeadRemain)

\* Mutant: no check of the length.
Acceptable_AnyLength == DataId \in 0 .. MaxId
\* An id is tested at both ends, a length only from above.
Acceptable == DataId \in 0 .. MaxId /\ DataLen <= BodyLength

\* Up to 11 the handler just returns: no read is started and nothing closed.
HeadRejected ==
  /\ HeadComplete
  /\ ~Acceptable
  /\ head' = FullHead
  /\ chunk' = <<>>
  /\ reading' = "refused"
  /\ closed' = (closed \/ chapter > 11)
  /\ UNCHANGED <<chapter, sent, wire, cur_len, node, head_parse, stores, overtaken, posted>>

\* The node for a body of a negative length.  Below -1 the size of its buffer is
\* larger than any there can be: the allocation throws, nobody catches it, and
\* the program is over.
HeadThrows ==
  /\ HeadComplete
  /\ Acceptable
  /\ DataLen < -1
  /\ head' = FullHead
  /\ chunk' = <<>>
  /\ reading' = "over"
  /\ UNCHANGED <<chapter, sent, wire, cur_len, node, head_parse, stores, closed, overtaken, posted>>

\* n < static_cast<size_t>(len): a negative length exceeds any count.
FewerThan(n, len) == len < 0 \/ n < len

\* The body is not complete: the next read starts, and _head_parse is set
\* only then.  With length -1 the buffer is empty, and nothing completes it.
BodyBegins ==
  /\ HeadComplete
  /\ Acceptable
  /\ DataLen >= -1
  /\ FewerThan(Len(Rest), DataLen)
  /\ head' = FullHead
  /\ node' = [id |-> DataId, len |-> DataLen, data |-> Rest]
  /\ chunk' = <<>>
  /\ stores' = stores + 1
  /\ StartRead
  /\ UNCHANGED <<chapter, sent, wire, cur_len, head_parse, closed, overtaken, posted>>

SetHeadParse ==
  /\ stores > 0
  /\ stores' = stores - 1
  /\ head_parse' = TRUE
  /\ UNCHANGED <<chapter, sent, wire, reading, chunk, head, cur_len, node, closed, overtaken, posted>>

\* A complete message is posted.  The header node is wiped but its _cur_len
\* is not, and the next read starts if the chunk is used up.
\* Mutant: the rest of the chunk is forgotten.
Finish_DropsRest(message, left) ==
  /\ node' = message
  /\ posted' = Append(posted, message)
  /\ head_parse' = FALSE
  /\ head' = Zeros
  /\ chunk' = <<>>
  /\ StartRead
  /\ UNCHANGED <<chapter, sent, wire, cur_len, stores, closed, overtaken>>

Finish(message, left) ==
  /\ node' = message
  /\ posted' = Append(posted, message)
  /\ head_parse' = FALSE
  /\ head' = Zeros
  /\ chunk' = left
  /\ IF left = <<>> THEN StartRead ELSE UNCHANGED reading
  /\ UNCHANGED <<chapter, sent, wire, cur_len, stores, closed, overtaken>>

BodyAtOnce ==
  /\ HeadComplete
  /\ Acceptable
  /\ ~FewerThan(Len(Rest), DataLen)
  /\ Finish([id |-> DataId, len |-> DataLen, data |-> First(Rest, DataLen)],
            After(Rest, DataLen))

MsgRemain == node.len - Len(node.data)

\* Mutant: no next read is started.
BodyPart_NoRead ==
  /\ chunk # <<>>
  /\ head_parse
  /\ FewerThan(Len(chunk), MsgRemain)
  /\ node' = [node EXCEPT !.data = @ \o chunk]
  /\ chunk' = <<>>
  /\ UNCHANGED <<chapter, sent, wire, reading, head, cur_len, head_parse, stores, closed, overtaken, posted>>

BodyPart ==
  /\ chunk # <<>>
  /\ head_parse
  /\ FewerThan(Len(chunk), MsgRemain)
  /\ node' = [node EXCEPT !.data = @ \o chunk]
  /\ chunk' = <<>>
  /\ StartRead
  /\ UNCHANGED <<chapter, sent, wire, head, cur_len, head_parse, stores, closed, overtaken, posted>>

BodyEnds ==
  /\ chunk # <<>>
  /\ head_parse
  /\ ~FewerThan(Len(chunk), MsgRemain)
  /\ Finish([node EXCEPT !.data = @ \o First(chunk, MsgRemain)],
            After(chunk, MsgRemain))

\* Writing in front of an empty buffer and into it (BodyBegins and BodyPart with
\* length -1) is undefined: that the handlers go on is one outcome, that the heap
\* breaks, and with it the program, another, at any time.
HeapBreaks ==
  /\ node.len < 0
  /\ chunk' = <<>>
  /\ reading' = "over"
  /\ UNCHANGED <<chapter, sent, wire, head, cur_len, node, head_parse, stores, closed, overtaken, posted>>

\* Close() after a write of this session failed.
CloseElsewhere ==
  /\ ~closed
  /\ closed' = TRUE
  /\ UNCHANGED <<chapter, sent, wire, reading, chunk, head, cur_len, node, head_parse, stores, overtaken, posted>>

HandleRead ==
  /\ reading # "over"
  /\ \/ HeadPart \/ HeadRejected \/ HeadThrows \/ BodyBegins \/ SetHeadParse \/ BodyAtOnce
     \/ BodyPart \/ BodyEnds

Next ==
  \/ ReadSome \/ ReadError \/ HandleRead
  \/ reading # "over" /\ (HeapBreaks \/ CloseElsewhere)

\* A handler that runs goes on, and a read of bytes that are there completes
\* unless it fails; nothing obliges a peer that is silent to go away.
Fairness == WF_vars(HandleRead) /\ WF_vars(ReadSome)

Spec == Init /\ [][Next]_vars /\ Fairness

-----------------------------------------------------------------------------
(* Properties.                                                             *)

\* What the header and message nodes hold of a message not posted yet.
InProgress ==
  IF head_parse \/ stores > 0
  THEN Header(node.id, node.len) \o node.data
  ELSE First(head, cur_len)

\* Until a header arrives in two pieces, or a thread of 15 overtakes another,
\* every byte is in exactly one place and in its place: in a complete message,
\* in a node, in the chunk or still to be read.
StreamAccounted ==
  cur_len = 0 /\ ~overtaken /\ ~closed /\ reading # "refused" =>
    Encoded(posted) \o InProgress \o chunk \o wire = Encoded(sent)

\* No copy leaves the header node, and none a message node that has a buffer
\* (lines 81-168); and as long as no header has arrived in two pieces and no
\* thread of 15 has overtaken another, every length that is read is one that was
\* sent, so that no node is without a buffer and no allocation throws (lines
\* 114-121, where a negative length is not tested).  After that a header is read
\* out of place and its length may be any: no node of length -1, which has no
\* buffer, is excluded, and no end of the program.
InBounds ==
  /\ cur_len < HeadLength
  /\ node.len <= BodyLength
  /\ node.len >= 0 => Len(node.data) <= node.len
  /\ cur_len = 0 /\ ~overtaken => node.len >= 0 /\ reading # "over"

\* Posted messages are those sent, in order, also when a header arrives in
\* two pieces ("handle the rest of the header", lines 79 and 92).
PostsWhatWasSent == IsPrefix(posted, sent)

\* The same while headers arrive whole, for any threads: a body that follows in
\* a later read is read as a body ("after the branch that returns when the rest
\* is shorter than the whole", line 164).
BodyIsNotHeader == cur_len = 0 => IsPrefix(posted, sent)
=============================================================================
