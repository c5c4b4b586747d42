----------------------------- MODULE MsgNodes -----------------------------
(***************************************************************************)
(* The nodes in which the asio programs keep a message they send or read   *)
(* (the MsgNode of each src/core/msg-node), byte by byte: a buffer, its    *)
(* length without the terminator, and how much of it is used.  A message   *)
(* is far shorter than a short can count (a body is at most 2048 bytes and *)
(* an answer adds some thirty), so max_len + HEAD_LENGTH does not wrap.    *)
(***************************************************************************)
EXTENDS Integers, Sequences

Zeroed(n) == [i \in 1 .. n |-> 0]

\* memcpy(buffer + at, bytes, ...); what does not fit is written elsewhere.
Copied(buffer, at, bytes) ==
  [i \in DOMAIN buffer |-> IF i - at \in 1 .. Len(bytes) THEN bytes[i - at] ELSE buffer[i]]

\* The memory of a short on a little-endian host, and in the order of the wire.
HostShort(n) == <<n % 256, n \div 256>>
NetShort(n) == <<n \div 256, n % 256>>

\* new char[n + 1]() and its terminator.
Empty(n) == [id |-> -1, len |-> n, cur |-> 0, data |-> Zeroed(n + 1)]
Holding(node, buffer) == [node EXCEPT !.data = buffer]

\* What async_write is given of a node.
Sent(node) == SubSeq(node.data, node.cur + 1, node.len)

-----------------------------------------------------------------------------
(* Without a header.                                                       *)

\* In 4 and 7 a node is as long as its message, with nothing behind it.
MsgNode4(bytes) ==
  [id |-> -1, len |-> Len(bytes), cur |-> 0, data |-> Copied(Zeroed(Len(bytes)), 0, bytes)]
MsgNode7(bytes) ==
  [id |-> -1, len |-> Len(bytes), cur |-> 0, data |-> Copied(Zeroed(Len(bytes)), 0, bytes)]

-----------------------------------------------------------------------------
(* With the length in front: in the order of the host in 8.                *)

HeadLength2 == 2
WithLength(order, bytes) ==
  LET node == Empty(Len(bytes) + HeadLength2)
      head == Copied(node.data, 0, order)
  IN Holding(node, Copied(head, HeadLength2, bytes))

MsgNode8(bytes) == WithLength(HostShort(Len(bytes)), bytes)
MsgNode9(bytes) == WithLength(NetShort(Len(bytes)), bytes)
MsgNode10(bytes) == WithLength(NetShort(Len(bytes)), bytes)
MsgNode11(bytes) == WithLength(NetShort(Len(bytes)), bytes)

-----------------------------------------------------------------------------
(* With the id and the length in front.                                    *)

MSG_TYPE_LENGTH == 2
MSG_HEAD_TOTAL_LEN == 4

\* RecvNode: the buffer a body is read into.
RecvNode(id, n) == [Empty(n) EXCEPT !.id = id]

\* SendNode.  Mutant: the length is copied over the id.
SendNode_OverId(id, bytes) ==
  LET node == RecvNode(id, Len(bytes) + MSG_HEAD_TOTAL_LEN)
      ident == Copied(node.data, 0, NetShort(id))
      head == Copied(ident, 0, NetShort(Len(bytes)))
  IN Holding(node, Copied(head, MSG_HEAD_TOTAL_LEN, bytes))

SendNode(id, bytes) ==
  LET node == RecvNode(id, Len(bytes) + MSG_HEAD_TOTAL_LEN)
      ident == Copied(node.data, 0, NetShort(id))
      head == Copied(ident, MSG_TYPE_LENGTH, NetShort(Len(bytes)))
  IN Holding(node, Copied(head, MSG_HEAD_TOTAL_LEN, bytes))

\* The node of each chapter's Send.
MsgNode12(id, bytes) == SendNode(id, bytes)
MsgNode13(id, bytes) == SendNode(id, bytes)
MsgNode14(id, bytes) == SendNode(id, bytes)
MsgNode15(id, bytes) == SendNode(id, bytes)
MsgNode17(id, bytes) == SendNode(id, bytes)

Node(edition, id, bytes) ==
  CASE edition = 4 -> MsgNode4(bytes)
    [] edition = 7 -> MsgNode7(bytes)
    [] edition = 8 -> MsgNode8(bytes)
    [] edition = 9 -> MsgNode9(bytes)
    [] edition = 10 -> MsgNode10(bytes)
    [] edition = 11 -> MsgNode11(bytes)
    [] edition = 12 -> MsgNode12(id, bytes)
    [] edition = 13 -> MsgNode13(id, bytes)
    [] edition = 14 -> MsgNode14(id, bytes)
    [] edition = 15 -> MsgNode15(id, bytes)
    [] edition = 17 -> MsgNode17(id, bytes)
=============================================================================
