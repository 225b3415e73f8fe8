----------------------------- MODULE FrameLine -----------------------------
(***************************************************************************)
(* One direction of the serial line, byte by byte: a frame is built and    *)
(* written, the line may damage, drop or add bytes or cut the frame short, *)
(* and the parser at its end finds frames in what is left.  The parsers,   *)
(* FrameParser of the host and CommandParser of the dongle, are the same   *)
(* machine up to what they check and when; so are the two builders.        *)
(*                                                                         *)
(* The checksum is ideal: a byte of one carries, beside its value, the     *)
(* text it was computed over, so that no damaged frame passes for another  *)
(* one.  (CRC16 lets one in 65536 through.)  How the bytes are cut into    *)
(* reads makes no difference to a parser that is fed one at a time, and    *)
(* its counters are only reported: both are left out.                      *)
(***************************************************************************)
EXTENDS Naturals, Sequences

CONSTANTS
  Contents,    \* what frames are built from: commands, numbers and payloads
  Crc,         \* the two bytes of the checksum of each text
  MaxPayload,  \* MAX_PAYLOAD
  Noise,       \* values the line invents
  MaxFaults    \* bound: faults of the line

Values == 0..255

SOF1 == 170
SOF2 == 85
VERSION == 1
REQUEST == 1
RESPONSE == 2
EVENT == 3
ERROR == 4

HeaderSize == 6
CrcSize == 2

NoFrame == [type |-> 0, cmd |-> 0, seq |-> 0, payload |-> <<>>]

LineFrames == {f \in [type : 1..4, cmd : Values, seq : Values, payload : Seq(Values)] :
             Len(f.payload) <= MaxPayload}

FrameOf(type, c) ==
  [type |-> type, cmd |-> c.cmd, seq |-> c.seq, payload |-> c.payload]

(* What the checksum is computed over: the header and the payload.         *)
Text(f) == <<VERSION, f.type, f.cmd, f.seq,
             Len(f.payload) % 256, Len(f.payload) \div 256>> \o f.payload

ASSUME ContentsAssumption ==
  Contents \subseteq [cmd : Values, seq : Values, payload : Seq(Values)]
ASSUME CrcAssumption ==
  Crc \in [{Text(FrameOf(type, c)) : type \in 1..4, c \in Contents}
             -> Values \X Values]
ASSUME LimitsAssumption ==
  MaxPayload \in Nat /\ MaxPayload <= 65535 /\ Noise \subseteq Values /\ MaxFaults \in Nat

VARIABLES
  receiver,    \* which of the two parsers this is
  frame,       \* the frame being written, or the latest one
  rest,        \* its bytes that have not left yet
  state, header, payload, crcBytes,  \* of the parser
  handed,      \* what the parser has returned since the frame was begun
  \* History.
  awaited,     \* the frame began at a parser that waited for a start
  damaged,     \* the line has failed since the frame was begun
  missed,      \* undamaged plain frames lost in a row
  faults       \* of the line so far

parser == <<state, header, payload, crcBytes, handed>>
sender == <<receiver, frame, rest>>
history == <<awaited, damaged, missed, faults>>
lineVars == <<sender, parser, history>>

(* A byte on the line: its value, and for a byte of a checksum which half  *)
(* it is and of what.                                                      *)
Bytes == [val : Values, half : 0..2, of : Seq(Values)]
Plain(v) == [val |-> v, half |-> 0, of |-> <<>>]
Half(h, text) == [val |-> Crc[text][h], half |-> h, of |-> text]

Waiting == {"WAIT_SOF1", "WAIT_SOF2"}

(* header[4] | header[5] << 8, counted from 0. *)
LengthIn(h) == h[5] + 256 * h[6]

LineTypeOK ==
  /\ receiver \in {"host", "dongle"}
  /\ frame \in LineFrames \cup {NoFrame}
  /\ rest \in Seq(Bytes)
  /\ state \in Waiting \cup {"READ_HEADER", "READ_PAYLOAD", "READ_CRC"}
  /\ header \in Seq(Values) /\ payload \in Seq(Values) /\ crcBytes \in Seq(Bytes)
  /\ handed \in LineFrames \cup {NoFrame}
  /\ awaited \in BOOLEAN /\ damaged \in BOOLEAN
  /\ missed \in Nat /\ faults \in 0..MaxFaults
  /\ state = "READ_HEADER" => Len(header) < HeaderSize
  /\ state = "READ_PAYLOAD" =>
       Len(header) = HeaderSize /\ Len(payload) < LengthIn(header)
  /\ state = "READ_CRC" =>
       /\ Len(header) = HeaderSize /\ Len(crcBytes) < CrcSize
       /\ Len(payload) = LengthIn(header) /\ Len(payload) <= MaxPayload

LineInit ==
  /\ receiver \in {"host", "dongle"}
  /\ frame = NoFrame /\ rest = <<>>
  /\ state = "WAIT_SOF1"
  /\ header = <<>> /\ payload = <<>> /\ crcBytes = <<>>
  /\ handed = NoFrame
  /\ awaited = FALSE /\ damaged = FALSE /\ missed = 0 /\ faults = 0

-----------------------------------------------------------------------------
(* The sender. *)

OnTheLine(f) ==
  <<Plain(SOF1), Plain(SOF2)>> \o [i \in DOMAIN Text(f) |-> Plain(Text(f)[i])]
  \o <<Half(1, Text(f)), Half(2, Text(f))>>

(* Nothing in it but its start looks like a start. *)
IsPlain(f) == \A i \in 2..Len(OnTheLine(f)) : OnTheLine(f)[i].val # SOF1

(* The host writes requests, the dongle responses and events.  A payload   *)
(* that is too long is refused before anything is written.                 *)
TypesTo(r) == IF r = "dongle" THEN {REQUEST} ELSE {RESPONSE, EVENT}

Send(type, c) ==
  /\ rest = <<>>
  /\ type \in TypesTo(receiver)
  /\ Len(c.payload) <= MaxPayload
  /\ frame' = FrameOf(type, c)
  /\ rest' = OnTheLine(frame')
  /\ handed' = NoFrame
  /\ awaited' = (state \in Waiting)
  /\ damaged' = FALSE
  /\ UNCHANGED <<receiver, state, header, payload, crcBytes, missed, faults>>

-----------------------------------------------------------------------------
(* The parsers: what one byte does. *)

Become(s) == state' = s /\ UNCHANGED <<header, payload, crcBytes, handed>>

Reset == state' = "WAIT_SOF1" /\ header' = <<>> /\ payload' = <<>> /\ crcBytes' = <<>>

WaitSof1(b) ==
  /\ state = "WAIT_SOF1"
  /\ Become(IF b.val = SOF1 THEN "WAIT_SOF2" ELSE "WAIT_SOF1")

(* Mutant: a second SOF1 is no longer taken for the start.                 *)
WaitSof2ForgetsStart(b) ==
  /\ state = "WAIT_SOF2"
  /\ Become(IF b.val = SOF2 THEN "READ_HEADER" ELSE "WAIT_SOF1")

WaitSof2(b) ==
  /\ state = "WAIT_SOF2"
  /\ Become(CASE b.val = SOF2 -> "READ_HEADER"
              [] b.val = SOF1 -> "WAIT_SOF2"
              [] OTHER -> "WAIT_SOF1")

(* The host looks at the version now, the dongle at the end of the frame.  *)
HostRefusesHeader(h) == h[1] # VERSION \/ LengthIn(h) > MaxPayload

(* Mutant: any length is believed.                                         *)
DongleBelievesLength(h) == FALSE
DongleRefusesHeader(h) == LengthIn(h) > MaxPayload

HeaderRefused(h) ==
  IF receiver = "host" THEN HostRefusesHeader(h) ELSE DongleRefusesHeader(h)

(* Mutant: a frame without a payload waits for one.                        *)
AlwaysPayload(h) == "READ_PAYLOAD"
AfterHeader(h) == IF LengthIn(h) = 0 THEN "READ_CRC" ELSE "READ_PAYLOAD"

ReadHeader(b) ==
  LET read == Append(header, b.val) IN
  /\ state = "READ_HEADER"
  /\ \/ /\ Len(read) < HeaderSize
        /\ header' = read
        /\ UNCHANGED <<state, payload, crcBytes>>
     \/ Len(read) = HeaderSize /\ HeaderRefused(read) /\ Reset
     \/ /\ Len(read) = HeaderSize /\ ~HeaderRefused(read)
        /\ header' = read /\ payload' = <<>> /\ crcBytes' = <<>>
        /\ state' = AfterHeader(read)
  /\ UNCHANGED handed

ReadPayload(b) ==
  /\ state = "READ_PAYLOAD"
  /\ payload' = Append(payload, b.val)
  /\ state' = IF Len(payload') = LengthIn(header) THEN "READ_CRC" ELSE state
  /\ UNCHANGED <<header, crcBytes, handed>>

ChecksumFits(read) ==
  /\ read[1].half = 1 /\ read[1].of = header \o payload
  /\ read[2].half = 2 /\ read[2].of = header \o payload

(* Mutant: the checksum is not compared.                                   *)
HostTakesDamaged(read) == header[2] \in {REQUEST, RESPONSE, EVENT, ERROR}

HostTakes(read) ==
  ChecksumFits(read) /\ header[2] \in {REQUEST, RESPONSE, EVENT, ERROR}

DongleTakes(read) ==
  header[1] = VERSION /\ header[2] = REQUEST /\ ChecksumFits(read)

Taken(read) == IF receiver = "host" THEN HostTakes(read) ELSE DongleTakes(read)

ReadCrc(b) ==
  LET read == Append(crcBytes, b) IN
  /\ state = "READ_CRC"
  /\ \/ /\ Len(read) < CrcSize
        /\ crcBytes' = read
        /\ UNCHANGED <<state, header, payload, handed>>
     \/ /\ Len(read) = CrcSize /\ Reset
        /\ handed' = IF Taken(read)
                     THEN [type |-> header[2], cmd |-> header[3],
                           seq |-> header[4], payload |-> payload]
                     ELSE handed

Feed(b) ==
  WaitSof1(b) \/ WaitSof2(b) \/ ReadHeader(b) \/ ReadPayload(b) \/ ReadCrc(b)

-----------------------------------------------------------------------------
(* The line. *)

Transmit ==
  /\ rest # <<>>
  /\ Feed(Head(rest)) /\ rest' = Tail(rest)
  /\ missed' = IF rest' # <<>> THEN missed
               ELSE IF handed' # NoFrame \/ damaged \/ ~IsPlain(frame) THEN 0
               ELSE missed + 1
  /\ UNCHANGED <<receiver, frame, awaited, damaged, faults>>

Fault ==
  /\ faults < MaxFaults
  /\ faults' = faults + 1 /\ damaged' = TRUE /\ missed' = 0
  /\ UNCHANGED <<receiver, frame, awaited>>

Damage(v) ==
  /\ rest # <<>> /\ v # Head(rest).val
  /\ Feed(Plain(v)) /\ rest' = Tail(rest)
  /\ Fault

Drop == rest # <<>> /\ rest' = Tail(rest) /\ Fault /\ UNCHANGED parser

(* A write that fails half way leaves the rest of the frame unsent.        *)
CutShort == rest # <<>> /\ rest' = <<>> /\ Fault /\ UNCHANGED parser

(* Noise, or what the dongle prints while it boots.                        *)
Add(v) == Feed(Plain(v)) /\ Fault /\ UNCHANGED rest

-----------------------------------------------------------------------------
LineNext ==
  \/ \E type \in 1..4, c \in Contents : Send(type, c)
  \/ Transmit
  \/ \E v \in Noise : Damage(v) \/ Add(v)
  \/ Drop \/ CutShort

LineSpec == LineInit /\ [][LineNext]_lineVars

-----------------------------------------------------------------------------
Lossy == INSTANCE LossyLine WITH
  Frames <- LineFrames, line <- IF rest = <<>> THEN NoFrame ELSE frame, out <- handed

(* Whatever the line does to the bytes, the parser returns each frame      *)
(* once, unaltered and when it ends, or not at all, and never one that was *)
(* not sent: the line that HostTransactions assumes.                       *)
ImplementsLossyLine == Lossy!Spec

(* A frame that begins while the parser waits for one, and suffers nothing *)
(* on its way, is returned: also after a stray SOF1, and whatever starts   *)
(* its own content seems to hold.                                          *)
UndamagedArrives == (rest = <<>> /\ awaited /\ ~damaged) => handed = frame

(* Shortest frame. *)
MinFrame == 2 + HeaderSize + CrcSize

(* After a fault the parser may take anything for a header, and reads on   *)
(* for as many bytes as that announces.  It loses no more frames to it     *)
(* than fit the longest frame it would accept, as long as their content    *)
(* holds no further start.                                                 *)
LossBounded ==
  missed <= (HeaderSize + MaxPayload + CrcSize + MinFrame - 1) \div MinFrame
=============================================================================
