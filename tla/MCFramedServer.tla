--------------------------- MODULE MCFramedServer ---------------------------
(***************************************************************************)
(* Short streams for FramedServer: messages with a handler and without, a  *)
(* body of none and of one byte, a header that is refused, a body that can *)
(* be taken for a header, and bytes that, read out of step, are lengths    *)
(* below -1 (those of Hello) and -1.                                       *)
(***************************************************************************)
EXTENDS FramedServer

Message(id, data) == [id |-> id, len |-> Len(data), data |-> data]

AllChapters == 8 .. 15

MCStreams ==
  {<<Message(Hello, <<7>>), Message(Hello, <<8>>), Message(Hello, <<9>>)>>,
   <<Message(3, <<9>>), Message(Hello, <<>>), Message(MaxId + 1, <<>>)>>,
   <<Message(Hello, [i \in 1 .. BodyLength + 1 |-> 5])>>,
   <<Message(0, <<7>>), Message(0, <<>>), Message(0, <<8, 9>>)>>,
   <<Message(1, <<7, 8>>), Message(2, <<>>)>>,
   <<Message(256, <<255, 255>>), Message(256, <<255, 255, 9>>)>>,
   <<Message(0, <<>>), Message(0, [i \in 1 .. BodyLength + 1 |-> 5])>>}
=============================================================================
