--------------------------- MODULE OrderedStream ---------------------------
(***************************************************************************)
(* What a session's sending half promises its peer: the messages it        *)
(* accepts reach the wire whole, one after the other, in the order they    *)
(* were accepted.  A message travels in Pieces pieces, since a write of    *)
(* the operating system may take only a part of it.                        *)
(***************************************************************************)
EXTENDS Integers, Sequences

CONSTANTS Messages, Pieces

VARIABLES
  accepted,   \* the messages accepted, in order
  wire        \* the pieces written, in order: <<message, number>>

vars == <<accepted, wire>>

\* The n-th piece of the stream that sends the accepted messages in order.
Piece(n) == <<accepted[(n - 1) \div Pieces + 1], ((n - 1) % Pieces) + 1>>

Init == accepted = <<>> /\ wire = <<>>

Accept ==
  /\ \E m \in Messages : accepted' = Append(accepted, m)
  /\ UNCHANGED wire

Transmit ==
  /\ Len(wire) < Pieces * Len(accepted)
  /\ wire' = Append(wire, Piece(Len(wire) + 1))
  /\ UNCHANGED accepted

Next == Accept \/ Transmit

Spec == Init /\ [][Next]_vars
=============================================================================
