---------------------------- MODULE MCFrameLine ----------------------------
(* FrameLine for TLC; FrameLine.cfg gives the other constants.             *)
EXTENDS FrameLine

(* An empty and a short payload, one that looks like a start, and one that *)
(* is too long to be sent.                                                 *)
ContentsOf == {
  [cmd |-> 3, seq |-> 0, payload |-> <<>>],
  [cmd |-> 3, seq |-> 1, payload |-> <<SOF1, SOF2>>],
  [cmd |-> 3, seq |-> 2, payload |-> [i \in 1..(MaxPayload + 1) |-> 0]]}

(* Checksums with and without a start in them.                             *)
CrcOf == [text \in {Text(FrameOf(type, c)) : type \in 1..4, c \in ContentsOf} |->
            IF text[4] = 0 THEN <<0, 7>> ELSE <<VERSION, SOF1>>]
=============================================================================
