----------------------------- MODULE LossyLine -----------------------------
(***************************************************************************)
(* What one direction of the serial line promises to the code above it: a  *)
(* frame that is sent is handed over once, unaltered and before the next   *)
(* one, or it is lost.  Nothing else is ever handed over.                  *)
(***************************************************************************)
CONSTANTS Frames, NoFrame

VARIABLES
  line,   \* the frame on its way, or NoFrame
  out     \* what became of the latest frame: itself, or NoFrame

Init == line = NoFrame /\ out = NoFrame

Send ==
  /\ line = NoFrame
  /\ line' \in Frames
  /\ out' = NoFrame

HandOver == line # NoFrame /\ out' = line /\ line' = NoFrame

Lose == line # NoFrame /\ line' = NoFrame /\ UNCHANGED out

Next == Send \/ HandOver \/ Lose

Spec == Init /\ [][Next]_<<line, out>>
=============================================================================
