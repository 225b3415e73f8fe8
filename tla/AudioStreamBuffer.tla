------------------------- MODULE AudioStreamBuffer -------------------------
(***************************************************************************)
(* The byte ring of AudioStreamBuffer between the dispatcher, which pushes *)
(* packets of one block each, and the frame callback, which loads blocks.  *)
(* Each operation holds _mux, so that each is atomic.  A byte is what the  *)
(* packet it belongs to contains and its place in it; one that has been    *)
(* read or given up is Blank, as if overwritten.  _received, _dropped and  *)
(* _underruns are only reported and left out.                              *)
(***************************************************************************)
EXTENDS Integers

CONSTANTS
  Capacity,         \* CAPACITY
  HeaderBytes,      \* AUDIO_HEADER_BYTES
  BlockSamples,     \* AUDIO_BLOCK_SAMPLES
  PrebufferBlocks,  \* AUDIO_PREBUFFER_MULTIPLIER
  Payloads,         \* contents of a packet
  Good,             \* those whose header is the one of a block
  NoPayload         \* the content of none

VARIABLES
  read,             \* _read
  write,            \* _write
  running,          \* _running
  primed,           \* _primed
  channels,         \* _profile.channels
  prebuffer,        \* _prebuffer
  buffer,           \* _buffer
  underrunPending   \* _underrunPending

bufferVars == <<read, write, running, primed, channels, prebuffer, buffer, underrunPending>>

Channels == 1..2
PacketBytes(n) == HeaderBytes + BlockSamples * n * 2

ASSUME SizesAssumption ==
  /\ Capacity \in Nat /\ HeaderBytes \in Nat \ {0}
  /\ BlockSamples \in Nat \ {0} /\ PrebufferBlocks \in Nat

(* The ring holds a packet, and the prebuffer, of either profile.          *)
ASSUME PrebufferFits ==
  \A n \in Channels :
    /\ PacketBytes(n) < Capacity
    /\ PrebufferBlocks * PacketBytes(n) < Capacity

ASSUME PayloadsAssumption == Good \subseteq Payloads /\ NoPayload \notin Payloads

Places == 0..(Capacity - 1)
Blank == <<NoPayload, 0>>
Bytes == Payloads \X Nat \cup {Blank}

BufferInit ==
  /\ read = 0 /\ write = 0 /\ running = FALSE /\ primed = FALSE
  /\ channels = 1 /\ prebuffer = 0
  /\ buffer = [i \in Places |-> Blank]
  /\ underrunPending = FALSE

(* The places of the bytes that come next. *)
Place(k) == (read + k) % Capacity
Ahead(length) == {Place(k) : k \in 0..(length - 1)}

Forget(places) ==
  buffer' = [i \in Places |-> IF i \in places THEN Blank ELSE buffer[i]]

(* usedUnsafe() *)
Used == IF write >= read THEN write - read ELSE Capacity - read + write

(* Mutant: a full ring is taken for an empty one. *)
FreeWhole == Capacity - Used

Free == (Capacity - 1) - Used

-----------------------------------------------------------------------------
(* start() and stop() *)

StartBuffer(n) ==
  /\ channels' = n
  /\ LET bytes == PrebufferBlocks * PacketBytes(n)
     IN  prebuffer' = IF bytes > Capacity - 1 THEN Capacity - 1 ELSE bytes
  /\ read' = 0 /\ write' = 0
  /\ running' = TRUE /\ primed' = FALSE
  /\ underrunPending' = FALSE
  /\ Forget(Places)

StopBuffer ==
  /\ running' = FALSE /\ primed' = FALSE
  /\ read' = 0 /\ write' = 0
  /\ underrunPending' = FALSE
  /\ Forget(Places)
  /\ UNCHANGED <<channels, prebuffer>>

-----------------------------------------------------------------------------
(* pushPacket() *)

(* The two copies: up to the end of the ring, and the rest from its start. *)
Stored(p, length) ==
  [i \in Places |->
     LET k == IF i >= write THEN i - write ELSE Capacity - write + i
     IN  IF k < length THEN <<p, k>> ELSE buffer[i]]

(* A packet of another length than that of the profile is left out.        *)
Admit(p) ==
  LET length == PacketBytes(channels)
  IN  /\ running /\ Free >= length
      /\ buffer' = Stored(p, length)
      /\ write' = (write + length) % Capacity
      /\ primed' = (primed \/ Used + length >= prebuffer)
      /\ UNCHANGED <<read, running, channels, prebuffer, underrunPending>>

(* A packet that does not fit is left out, and may still prime the ring.   *)
Refuse ==
  /\ running /\ Free < PacketBytes(channels)
  /\ primed' = (primed \/ Used >= prebuffer)
  /\ UNCHANGED <<read, write, running, channels, prebuffer, buffer, underrunPending>>

PushPacket(p) == Admit(p) \/ Refuse

-----------------------------------------------------------------------------
(* loadBlock() *)

Loadable(length) == running /\ primed /\ Used >= length

Front(length) == [k \in 0..(length - 1) |-> buffer[Place(k)]]

(* Mutant: the block is not taken off the ring when its header is wrong.   *)
LoadKeepsBad(length) ==
  /\ Loadable(length)
  /\ IF buffer[read] \in Good \X {0}
     THEN read' = Place(length) /\ Forget(Ahead(length))
     ELSE UNCHANGED <<read, buffer>>
  /\ UNCHANGED <<write, running, primed, channels, prebuffer, underrunPending>>

Load(length) ==
  /\ Loadable(length)
  /\ read' = Place(length)
  /\ Forget(Ahead(length))
  /\ UNCHANGED <<write, running, primed, channels, prebuffer, underrunPending>>

(* The header of the block that was loaded. *)
HeaderGood(block) == block[0][1] \in Good /\ block[0][2] = 0

(* onUnderrun() and takeUnderrunFlag() *)
MarkUnderrun ==
  /\ underrunPending' = TRUE
  /\ UNCHANGED <<read, write, running, primed, channels, prebuffer, buffer>>

TakeUnderrun ==
  /\ underrunPending
  /\ underrunPending' = FALSE
  /\ UNCHANGED <<read, write, running, primed, channels, prebuffer, buffer>>
=============================================================================
