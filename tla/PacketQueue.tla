---------------------------- MODULE PacketQueue ----------------------------
(***************************************************************************)
(* What the audio buffer promises: a queue of whole packets.  It is empty  *)
(* when a stream starts, takes a packet or leaves it out, and gives the    *)
(* packets back one by one, in order, from the moment enough of them have  *)
(* been collected; the end of the stream empties it.                       *)
(***************************************************************************)
EXTENDS Sequences, Naturals

CONSTANTS
  Packets,    \* what may be put
  Prebuffer,  \* packets collected before the first is taken
  Silence     \* what was taken before the first packet

VARIABLES
  open,     \* a stream is running
  packets,  \* waiting, in order
  primed,   \* enough have been collected
  taken     \* the packet taken last

vars == <<open, packets, primed, taken>>

Init == open = FALSE /\ packets = <<>> /\ primed = FALSE /\ taken = Silence

Empty == packets' = <<>> /\ primed' = FALSE /\ UNCHANGED taken

Start == Empty /\ open' = TRUE
Stop == Empty /\ open' = FALSE

Put(p) ==
  /\ open
  /\ packets' = Append(packets, p)
  /\ primed' = (primed \/ Len(packets') >= Prebuffer)
  /\ UNCHANGED <<open, taken>>

Take ==
  /\ open /\ primed /\ packets # <<>>
  /\ taken' = Head(packets) /\ packets' = Tail(packets)
  /\ UNCHANGED <<open, primed>>

Next == Start \/ Stop \/ (\E p \in Packets : Put(p)) \/ Take

Spec == Init /\ [][Next]_vars
=============================================================================
