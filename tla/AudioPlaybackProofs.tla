------------------------ MODULE AudioPlaybackProofs ------------------------
(***************************************************************************)
(* Proofs about AudioPlayback, for every ring, packet and prebuffer that   *)
(* PrebufferFits allows.                                                   *)
(***************************************************************************)
EXTENDS AudioPlayback, TLAPS

(* A block left from a stopped stream is dropped by the reset that every   *)
(* start requests before there is anything to play.                        *)
Doomed == ((running \/ appStep = "Starting") /\ stale) => resetPending

(* What a step hands on to the next one of its task.                       *)
HandedOn ==
  /\ appStep = "Starting" => wanted \in Channels
  /\ callbackStep = "Load" => \E n \in Channels : size = PacketBytes(n)

IInv == TypeOK /\ HandedOn /\ Doomed

-----------------------------------------------------------------------------
LEMMA Sizing ==
  /\ Capacity \in Nat \ {0}
  /\ \A n \in Channels : PacketBytes(n) \in Nat \ {0} /\ PacketBytes(n) < Capacity
  /\ \A x \in Nat : x % Capacity \in Places
<1>1. ASSUME NEW n \in Channels
      PROVE  PacketBytes(n) \in Nat \ {0} /\ PacketBytes(n) < Capacity
  <2>1. n = 1 \/ n = 2
    BY DEF Channels
  <2>2. HeaderBytes \in Nat \ {0} /\ BlockSamples \in Nat \ {0}
    BY SizesAssumption
  <2>3. PacketBytes(n) = HeaderBytes + BlockSamples * 2 \/ PacketBytes(n) = HeaderBytes + BlockSamples * 4
    BY <2>1, <2>2 DEF PacketBytes
  <2> QED
    BY <2>2, <2>3, PrebufferFits
<1>2. Capacity \in Nat \ {0}
  BY <1>1, SizesAssumption DEF Channels
<1>3. ASSUME NEW x \in Nat PROVE x % Capacity \in Places
  BY <1>2 DEF Places
<1> QED
  BY <1>1, <1>2, <1>3

LEMMA UsedRange ==
  ASSUME TypeOK PROVE Used \in 0..(Capacity - 1)
<1>1. read \in 0..(Capacity - 1) /\ write \in 0..(Capacity - 1)
  BY DEF TypeOK, Places
<1> QED
  BY <1>1, Sizing DEF Used

(* The types of what the callback and the application keep for themselves. *)
LEMMA InitTypes == Init => IInv
<1> SUFFICES ASSUME Init PROVE IInv
  OBVIOUS
<1> USE DEF Init, BufferInit
<1>1. 0 \in Places /\ Blank \in Bytes
  BY Sizing DEF Places, Bytes
<1>2. [i \in Places |-> Blank] \in [Places -> Bytes]
  BY <1>1
<1>3. 0 \in 0..MaxFrames /\ 0 \in 0..(BlockSamples - 1)
  BY SizesAssumption, FramesAssumption
<1>4. running \in BOOLEAN /\ primed \in BOOLEAN /\ underrunPending \in BOOLEAN
      /\ linked \in BOOLEAN /\ tone \in BOOLEAN /\ resetPending \in BOOLEAN
      /\ loaded \in BOOLEAN /\ stale \in BOOLEAN
  BY Zenon
<1>5. TypeOK
  BY <1>1, <1>2, <1>3, <1>4 DEF TypeOK, Channels, AppSteps, CallbackSteps, Sizes
<1> QED
  BY <1>5 DEF IInv, HandedOn, Doomed

(* What an operation of the buffer, or a step of a task, keeps.            *)
BufferTypes ==
  /\ read \in Places /\ write \in Places
  /\ running \in BOOLEAN /\ primed \in BOOLEAN /\ underrunPending \in BOOLEAN
  /\ channels \in Channels /\ prebuffer \in Nat
  /\ buffer \in [Places -> Bytes]

TaskTypes ==
  /\ appStep \in AppSteps /\ wanted \in Channels \cup {0} /\ linked \in BOOLEAN
  /\ tone \in BOOLEAN /\ resetPending \in BOOLEAN
  /\ callbackStep \in CallbackSteps /\ left \in 0..MaxFrames
  /\ size \in Sizes
  /\ block \in Loads(1) \cup Loads(2) \cup {NoBlock} /\ loaded \in BOOLEAN
  /\ sampleIndex \in 0..(BlockSamples - 1) /\ stale \in BOOLEAN

LEMMA TypeParts == TypeOK <=> BufferTypes /\ TaskTypes
BY DEF TypeOK, BufferTypes, TaskTypes

LEMMA PartsPrimed ==
  ASSUME BufferTypes', TaskTypes', HandedOn', Doomed' PROVE IInv'
BY DEF IInv, TypeOK, BufferTypes, TaskTypes

LEMMA BufferUnchanged ==
  ASSUME BufferTypes, UNCHANGED bufferVars PROVE BufferTypes'
BY DEF BufferTypes, bufferVars

LEMMA ForgetTypes ==
  ASSUME BufferTypes, NEW places, Forget(places) PROVE buffer' \in [Places -> Bytes]
<1>1. Blank \in Bytes
  BY DEF Bytes
<1> QED
  BY <1>1 DEF Forget, BufferTypes

LEMMA StartTypes ==
  ASSUME BufferTypes, NEW n \in Channels, StartBuffer(n) PROVE BufferTypes'
<1>1. buffer' \in [Places -> Bytes] /\ read' \in Places /\ write' \in Places
  BY ForgetTypes, Sizing DEF StartBuffer, Places
<1>2. running' \in BOOLEAN /\ primed' \in BOOLEAN /\ underrunPending' \in BOOLEAN
  BY Zenon DEF StartBuffer
<1> DEFINE length == PacketBytes(n)
<1>3. length \in Nat /\ Capacity \in Nat \ {0} /\ PrebufferBlocks \in Nat
  BY Sizing, SizesAssumption
<1>4. prebuffer' = IF PrebufferBlocks * length > Capacity - 1 THEN Capacity - 1 ELSE PrebufferBlocks * length
  BY DEF StartBuffer
<1> HIDE DEF length
<1>5. prebuffer' \in Nat
  BY <1>3, <1>4
<1> QED
  BY <1>1, <1>2, <1>5 DEF BufferTypes, StartBuffer

LEMMA StopTypes ==
  ASSUME BufferTypes, StopBuffer PROVE BufferTypes'
<1>1. buffer' \in [Places -> Bytes] /\ read' \in Places /\ write' \in Places
  BY ForgetTypes, Sizing DEF StopBuffer, Places
<1>2. running' \in BOOLEAN /\ primed' \in BOOLEAN /\ underrunPending' \in BOOLEAN
  BY Zenon DEF StopBuffer
<1> QED
  BY <1>1, <1>2 DEF BufferTypes, StopBuffer

LEMMA PushTypes ==
  ASSUME BufferTypes, NEW p \in Payloads, PushPacket(p) PROVE BufferTypes'
<1> DEFINE length == PacketBytes(channels)
<1>1. length \in Nat /\ Capacity \in Nat \ {0} /\ read \in Nat /\ write \in Nat /\ write < Capacity
  BY Sizing DEF BufferTypes, Places
<1>2. CASE Admit(p)
  <2>1. write' = (write + length) % Capacity /\ buffer' = Stored(p, length)
        /\ UNCHANGED <<read, running, channels, prebuffer, underrunPending>>
    BY <1>2 DEF Admit
  <2>2. primed' \in BOOLEAN
    BY <1>2, Zenon DEF Admit, BufferTypes
  <2> HIDE DEF length
  <2>3. write' \in Places
    BY <1>1, <2>1, Sizing
  <2>4. ASSUME NEW i \in Places
        PROVE  (IF i >= write THEN i - write ELSE Capacity - write + i) \in Nat
    BY <1>1 DEF Places
  <2>5. buffer' \in [Places -> Bytes]
    BY <2>1, <2>4 DEF Stored, Bytes, BufferTypes
  <2> QED
    BY <2>1, <2>2, <2>3, <2>5 DEF BufferTypes
<1>3. CASE Refuse
  <2>1. primed' \in BOOLEAN
    BY <1>3, Zenon DEF Refuse, BufferTypes
  <2> QED
    BY <1>3, <2>1 DEF Refuse, BufferTypes
<1> QED
  BY <1>2, <1>3 DEF PushPacket

LEMMA LoadTypes ==
  ASSUME BufferTypes, NEW n \in Channels, Load(PacketBytes(n))
  PROVE  BufferTypes' /\ Front(PacketBytes(n)) \in Loads(n)
<1> DEFINE length == PacketBytes(n)
<1>1. length \in Nat /\ read \in Nat
  BY Sizing DEF BufferTypes, Places
<1>2. read' = Place(length) /\ Forget(Ahead(length))
      /\ UNCHANGED <<write, running, primed, channels, prebuffer, underrunPending>>
  BY DEF Load
<1>3. buffer' \in [Places -> Bytes]
  BY <1>2, ForgetTypes
<1>4. Loads(n) = [0..(length - 1) -> Bytes] /\ Front(length) = [k \in 0..(length - 1) |-> buffer[Place(k)]]
  BY DEF Loads, Front
<1> HIDE DEF length
<1>5. read' \in Places
  BY <1>1, <1>2, Sizing DEF Place
<1>6. ASSUME NEW k \in 0..(length - 1) PROVE buffer[Place(k)] \in Bytes
  <2>1. read + k \in Nat
    BY <1>1
  <2> QED
    BY <2>1, Sizing DEF BufferTypes, Place
<1>7. BufferTypes'
  BY <1>2, <1>3, <1>5 DEF BufferTypes
<1>8. Front(length) \in Loads(n)
  BY <1>4, <1>6
<1> QED
  BY <1>7, <1>8 DEF length

-----------------------------------------------------------------------------
(* The application task. *)

LEMMA AppTypes ==
  ASSUME TaskTypes, UNCHANGED <<callbackStep, left, size, block, loaded, sampleIndex>>,
         appStep' \in AppSteps, wanted' \in Channels \cup {0},
         linked' \in BOOLEAN, tone' \in BOOLEAN, resetPending' \in BOOLEAN, stale' \in BOOLEAN
  PROVE  TaskTypes'
BY DEF TaskTypes

LEMMA AppActsTypes ==
  ASSUME TaskTypes, AppActs \/ \E step : AppGoesOn(step)
  PROVE  UNCHANGED <<callbackStep, left, size, block, loaded, sampleIndex>>
BY DEF AppActs, AppGoesOn, request, callback, cursor

LEMMA StreamCommands ==
  ASSUME IInv, \/ \E n \in Channels : StartAudio(n)
               \/ StopAudio \/ EndSession \/ NewSession
  PROVE  IInv'
<1> USE DEF IInv
<1>0. BufferTypes /\ TaskTypes
  BY TypeParts
<1>1. ASSUME NEW n \in Channels, StartAudio(n) PROVE IInv'
  <2>1. tone' \in BOOLEAN /\ resetPending' \in BOOLEAN /\ linked' \in BOOLEAN /\ stale' \in BOOLEAN
    BY <1>0, <1>1, Zenon DEF StartAudio, TaskTypes
  <2>2. TaskTypes'
    BY <1>0, <1>1, <2>1, AppTypes, AppActsTypes DEF StartAudio, AppSteps
  <2>3. BufferTypes'
    BY <1>0, <1>1, BufferUnchanged DEF StartAudio
  <2>4. HandedOn'
    BY <1>1 DEF StartAudio, HandedOn, AppActs, request
  <2>5. Doomed'
    BY <1>1, Zenon DEF StartAudio, Doomed
  <2> QED
    BY <2>2, <2>3, <2>4, <2>5, PartsPrimed
<1>2. ASSUME StopStream, AppActs, UNCHANGED <<wanted, resetPending>>,
             appStep' \in {"Stopping", "Ending", "Resetting"},
             linked' \in BOOLEAN, tone' \in BOOLEAN
      PROVE  IInv'
  <2>1. resetPending' \in BOOLEAN /\ stale' \in BOOLEAN
    BY <1>0, <1>2, Zenon DEF StopStream, TaskTypes
  <2>2. TaskTypes'
    <3>1. wanted' \in Channels \cup {0} /\ appStep' \in AppSteps
      BY <1>0, <1>2 DEF TaskTypes, AppSteps
    <3> QED
      BY <1>0, <1>2, <2>1, <3>1, AppTypes, AppActsTypes
  <2>3. BufferTypes'
    BY <1>0, <1>2, StopTypes DEF StopStream
  <2>4. HandedOn'
    BY <1>2 DEF HandedOn, AppActs, request
  <2>5. Doomed'
    BY <1>2 DEF StopStream, StopBuffer, Doomed
  <2> QED
    BY <2>2, <2>3, <2>4, <2>5, PartsPrimed
<1>3. CASE StopAudio
  <2>1. linked' \in BOOLEAN /\ tone' \in BOOLEAN
    BY <1>0, <1>3, Zenon DEF StopAudio, TaskTypes
  <2> QED
    BY <1>2, <1>3, <2>1 DEF StopAudio
<1>4. CASE EndSession
  <2>1. linked' \in BOOLEAN /\ tone' \in BOOLEAN
    BY <1>0, <1>4, Zenon DEF EndSession, TaskTypes
  <2> QED
    BY <1>2, <1>4, <2>1 DEF EndSession
<1>5. CASE NewSession
  <2>1. linked' \in BOOLEAN /\ tone' \in BOOLEAN
    BY <1>0, <1>5, Zenon DEF NewSession, TaskTypes
  <2> QED
    BY <1>2, <1>5, <2>1 DEF NewSession
<1> QED
  BY <1>1, <1>3, <1>4, <1>5

LEMMA SecondSteps ==
  ASSUME IInv, AudioStarts \/ AudioStops \/ SessionEnds \/ SessionIsReset
  PROVE  IInv'
<1> USE DEF IInv
<1>0. BufferTypes /\ TaskTypes
  BY TypeParts
<1>1. /\ wanted' = 0 /\ appStep' = "Idle" /\ UNCHANGED <<linked, stale, callbackStep, size>>
      /\ UNCHANGED <<callbackStep, left, size, block, loaded, sampleIndex>>
  BY DEF AudioStarts, AudioStops, SessionEnds, SessionIsReset, AppGoesOn, callback, request, cursor
<1>2. tone' \in BOOLEAN /\ resetPending' \in BOOLEAN /\ linked' \in BOOLEAN /\ stale' \in BOOLEAN
  BY <1>0, <1>1, Zenon DEF AudioStarts, AudioStops, SessionEnds, SessionIsReset, TaskTypes
<1>3. TaskTypes'
  BY <1>0, <1>1, <1>2, AppTypes DEF AppSteps
<1>4. HandedOn'
  BY <1>1 DEF HandedOn
<1>5. BufferTypes'
  <2>1. CASE AudioStarts
    <3>1. wanted \in Channels /\ StartBuffer(wanted)
      BY <2>1 DEF AudioStarts, AppGoesOn, HandedOn
    <3> QED
      BY <1>0, <3>1, StartTypes
  <2>2. CASE ~AudioStarts
    BY <1>0, <2>2, BufferUnchanged DEF AudioStops, SessionEnds, SessionIsReset
  <2> QED
    BY <2>1, <2>2
<1>6. Doomed'
  <2>1. CASE AudioStarts
    BY <1>1, <2>1, Zenon DEF AudioStarts, AppGoesOn, Doomed
  <2>2. CASE AudioStops \/ SessionIsReset
    BY <2>2, Zenon DEF AudioStops, SessionIsReset, Doomed
  <2>3. CASE SessionEnds
    <3>1. UNCHANGED <<running, resetPending, stale>> /\ appStep' = "Idle"
      BY <1>1, <2>3 DEF SessionEnds, bufferVars
    <3>2. appStep' # "Starting"
      BY <3>1
    <3> QED
      BY <3>1, <3>2 DEF Doomed
  <2> QED
    BY <2>1, <2>2, <2>3
<1> QED
  BY <1>3, <1>4, <1>5, <1>6, PartsPrimed

LEMMA OtherCommands ==
  ASSUME IInv, \/ StartTone \/ StopTone \/ Linked \/ ReportUnderrun
               \/ \E p \in Payloads : AudioData(p)
  PROVE  IInv'
<1> USE DEF IInv
<1>0. BufferTypes /\ TaskTypes
  BY TypeParts
<1>1. AppActs /\ UNCHANGED <<appStep, wanted, resetPending, stale>>
  BY DEF StartTone, StopTone, Linked, ReportUnderrun, AudioData, app
<1>2. tone' \in BOOLEAN /\ linked' \in BOOLEAN /\ resetPending' \in BOOLEAN /\ stale' \in BOOLEAN
  BY <1>0, <1>1, Zenon DEF StartTone, StopTone, Linked, ReportUnderrun, AudioData, app, TaskTypes
<1>3. TaskTypes'
  <2>1. appStep' \in AppSteps /\ wanted' \in Channels \cup {0}
    BY <1>0, <1>1 DEF TaskTypes
  <2> QED
    BY <1>0, <1>1, <1>2, <2>1, AppTypes, AppActsTypes
<1>4. HandedOn'
  BY <1>1 DEF HandedOn, AppActs, request
<1>5. BufferTypes' /\ UNCHANGED running
  <2>1. CASE UNCHANGED bufferVars
    BY <1>0, <2>1, BufferUnchanged DEF bufferVars
  <2>2. CASE ReportUnderrun
    <3>1. underrunPending' \in BOOLEAN
      BY <2>2, Zenon DEF ReportUnderrun, TakeUnderrun
    <3> QED
      BY <1>0, <2>2, <3>1 DEF ReportUnderrun, TakeUnderrun, BufferTypes
  <2>3. ASSUME NEW p \in Payloads, AudioData(p) PROVE BufferTypes' /\ UNCHANGED running
    BY <1>0, <2>3, PushTypes DEF AudioData, PushPacket, Admit, Refuse
  <2> QED
    BY <2>1, <2>2, <2>3 DEF StartTone, StopTone, Linked
<1>6. Doomed'
  BY <1>1, <1>5 DEF Doomed
<1> QED
  BY <1>3, <1>4, <1>5, <1>6, PartsPrimed

-----------------------------------------------------------------------------
(* The frame callback. *)

LEMMA CallbackTypes ==
  ASSUME TaskTypes, UNCHANGED app, resetPending' \in BOOLEAN,
         callbackStep' \in CallbackSteps, left' \in 0..MaxFrames, size' \in Sizes,
         block' \in Loads(1) \cup Loads(2) \cup {NoBlock}, loaded' \in BOOLEAN,
         sampleIndex' \in 0..(BlockSamples - 1), stale' \in BOOLEAN
  PROVE  TaskTypes'
BY DEF TaskTypes, app

LEMMA UnloadTypes ==
  ASSUME TaskTypes, Unload \/ UNCHANGED cursor
  PROVE  /\ block' \in Loads(1) \cup Loads(2) \cup {NoBlock}
         /\ loaded' \in BOOLEAN /\ stale' \in BOOLEAN
         /\ sampleIndex' \in 0..(BlockSamples - 1)
         /\ stale' => stale
<1>1. CASE Unload
  <2>1. loaded' \in BOOLEAN /\ stale' \in BOOLEAN /\ (stale' => stale)
    BY <1>1, Zenon DEF Unload
  <2> QED
    BY <1>1, <2>1, SizesAssumption DEF Unload, TaskTypes
<1>2. CASE UNCHANGED cursor
  BY <1>2 DEF cursor, TaskTypes
<1> QED
  BY <1>1, <1>2

LEMMA BeginStep ==
  ASSUME IInv, FramesAskedFor PROVE IInv'
<1>0. BufferTypes /\ TaskTypes
  BY TypeParts DEF IInv
<1>1. PICK frames \in 1..MaxFrames, rateChanged \in BOOLEAN : CallbackBegins(frames, rateChanged)
  BY DEF FramesAskedFor
<1>2. resetPending' \in BOOLEAN
  BY <1>1, Zenon DEF CallbackBegins
<1>3. /\ Unload \/ UNCHANGED cursor
      /\ UNCHANGED <<app, appStep, wanted, size>> /\ UNCHANGED bufferVars /\ UNCHANGED running
  BY <1>1 DEF CallbackBegins, app, bufferVars
<1>4. callbackStep' \in {"Idle", "Streaming"} /\ left' \in 0..MaxFrames
  BY <1>0, <1>1, FramesAssumption DEF CallbackBegins, TaskTypes
<1>5. TaskTypes'
  <2>1. size' \in Sizes /\ callbackStep' \in CallbackSteps
    BY <1>0, <1>3, <1>4 DEF TaskTypes, CallbackSteps
  <2> QED
    BY <1>0, <1>2, <1>3, <1>4, <2>1, UnloadTypes, CallbackTypes
<1>6. HandedOn'
  BY <1>3, <1>4 DEF IInv, HandedOn
<1>7. Doomed'
  <2>1. CASE resetPending
    BY <1>1, <2>1, Zenon DEF CallbackBegins, Unload, Doomed
  <2>2. CASE ~resetPending
    BY <1>0, <1>3, <2>2, UnloadTypes DEF IInv, Doomed
  <2> QED
    BY <2>1, <2>2
<1>8. BufferTypes'
  BY <1>0, <1>3, BufferUnchanged
<1> QED
  BY <1>5, <1>6, <1>7, <1>8, PartsPrimed

LEMMA CallbackStep ==
  ASSUME IInv, CallbackContinues PROVE IInv'
<1> USE DEF IInv
<1>0. BufferTypes /\ TaskTypes
  BY TypeParts
<1>1. /\ UNCHANGED <<app, appStep, wanted, resetPending>>
      /\ UNCHANGED running
  BY DEF CallbackContinues, CheckStreaming, PlayFrame, AskForBlock, FramesFilled, LoadBlock, Copy, Load,
         NothingToLoad, Underrun, MarkUnderrun, CallbackOnly, CallbackGoesOn, app, bufferVars
<1>2. resetPending' \in BOOLEAN
  BY <1>0, <1>1 DEF TaskTypes
<1>3. ASSUME stale' => stale PROVE Doomed'
  BY <1>1, <1>3 DEF Doomed
<1>4. 0 \in Sizes /\ \A n \in Channels : PacketBytes(n) \in Sizes
  BY DEF Sizes
<1>5. left \in 0..MaxFrames /\ 0 \in 0..MaxFrames /\ (left > 0 => left - 1 \in 0..MaxFrames)
  BY <1>0, FramesAssumption DEF TaskTypes
<1>6. CASE CheckStreaming
  <2>1. UNCHANGED cursor /\ UNCHANGED size /\ callbackStep' \in {"Idle", "Play"} /\ left' \in 0..MaxFrames
    BY <1>5, <1>6 DEF CheckStreaming
  <2>2. callbackStep' \in CallbackSteps /\ size' \in Sizes
    BY <1>0, <2>1 DEF CallbackSteps, TaskTypes
  <2>3. TaskTypes' /\ Doomed'
    BY <1>0, <1>1, <1>2, <1>3, <2>1, <2>2, UnloadTypes, CallbackTypes
  <2>4. HandedOn'
    BY <1>1, <2>1 DEF HandedOn
  <2> QED
    BY <1>0, <1>6, <2>3, <2>4, BufferUnchanged, PartsPrimed DEF CheckStreaming, CallbackOnly
<1>7. ASSUME NEW moved \in {0, 1}, PlayFrame(moved) PROVE IInv'
  <2>1. UNCHANGED <<callbackStep, size>> /\ callbackStep = "Play" /\ left' \in 0..MaxFrames
    BY <1>5, <1>7 DEF PlayFrame
  <2>2. /\ block' \in Loads(1) \cup Loads(2) \cup {NoBlock}
        /\ loaded' \in BOOLEAN /\ stale' \in BOOLEAN
        /\ sampleIndex' \in 0..(BlockSamples - 1)
        /\ stale' => stale
    <3>1. CASE sampleIndex + moved >= BlockSamples
      BY <1>0, <1>7, <3>1, UnloadTypes DEF PlayFrame
    <3>2. CASE ~(sampleIndex + moved >= BlockSamples)
      <4>1. sampleIndex' = sampleIndex + moved /\ UNCHANGED <<block, loaded, stale>>
        BY <1>7, <3>2 DEF PlayFrame
      <4>2. sampleIndex' \in 0..(BlockSamples - 1)
        BY <1>0, <3>2, <4>1, SizesAssumption DEF TaskTypes
      <4> QED
        BY <1>0, <4>1, <4>2 DEF TaskTypes
    <3> QED
      BY <3>1, <3>2
  <2>3. callbackStep' \in CallbackSteps /\ size' \in Sizes
    BY <1>0, <2>1 DEF CallbackSteps, TaskTypes
  <2>4. TaskTypes' /\ Doomed'
    BY <1>0, <1>1, <1>2, <1>3, <2>1, <2>2, <2>3, CallbackTypes
  <2>5. HandedOn'
    BY <1>1, <2>1 DEF HandedOn
  <2> QED
    BY <1>0, <1>7, <2>4, <2>5, BufferUnchanged, PartsPrimed DEF PlayFrame, CallbackOnly
<1>8. CASE AskForBlock \/ FramesFilled \/ NothingToLoad
  <2>1. /\ UNCHANGED <<left, cursor>> /\ UNCHANGED bufferVars
        /\ callbackStep' \in {"Load", "Idle", "Starved"}
        /\ size' \in Sizes
        /\ callbackStep' = "Load" => size' = PacketBytes(channels)
    BY <1>0, <1>4, <1>8 DEF AskForBlock, FramesFilled, NothingToLoad, CallbackOnly, request, BufferTypes, TaskTypes
  <2>2. callbackStep' \in CallbackSteps /\ left' \in 0..MaxFrames
    BY <1>5, <2>1 DEF CallbackSteps
  <2>3. TaskTypes' /\ Doomed'
    BY <1>0, <1>1, <1>2, <1>3, <2>1, <2>2, UnloadTypes, CallbackTypes
  <2>4. HandedOn'
    BY <1>0, <1>1, <2>1 DEF HandedOn, BufferTypes
  <2> QED
    BY <1>0, <2>1, <2>3, <2>4, BufferUnchanged, PartsPrimed
<1>9. CASE LoadBlock
  <2>1. PICK n \in Channels : size = PacketBytes(n)
    BY <1>9 DEF LoadBlock, Copy, HandedOn
  <2>2. BufferTypes' /\ block' \in Loads(n)
    BY <1>0, <1>9, <2>1, LoadTypes DEF LoadBlock, Copy
  <2>3. block' \in Loads(1) \cup Loads(2) \cup {NoBlock}
    BY <2>2 DEF Channels
  <2>4. loaded' \in BOOLEAN /\ stale' \in BOOLEAN /\ (stale' => stale)
    BY <1>0, <1>9, Zenon DEF LoadBlock, Copy, HeaderGood, TaskTypes
  <2>5. /\ callbackStep' \in {"Play", "Starved"} /\ size' = 0
        /\ UNCHANGED <<left, sampleIndex>>
    BY <1>9 DEF LoadBlock, Copy
  <2>6. callbackStep' \in CallbackSteps /\ size' \in Sizes /\ left' \in 0..MaxFrames
        /\ sampleIndex' \in 0..(BlockSamples - 1)
    BY <1>0, <1>4, <2>5 DEF CallbackSteps, TaskTypes
  <2>7. TaskTypes' /\ Doomed'
    BY <1>0, <1>1, <1>2, <1>3, <2>3, <2>4, <2>6, CallbackTypes
  <2>8. HandedOn'
    BY <1>1, <2>5 DEF HandedOn
  <2> QED
    BY <2>2, <2>7, <2>8, PartsPrimed
<1>10. CASE Underrun
  <2>1. UNCHANGED <<size, cursor>> /\ callbackStep' = "Idle" /\ left' = 0
    BY <1>10 DEF Underrun
  <2>2. callbackStep' \in CallbackSteps /\ size' \in Sizes /\ left' \in 0..MaxFrames
    BY <1>0, <1>5, <2>1 DEF CallbackSteps, TaskTypes
  <2>3. TaskTypes' /\ Doomed'
    BY <1>0, <1>1, <1>2, <1>3, <2>1, <2>2, UnloadTypes, CallbackTypes
  <2>4. HandedOn'
    BY <1>1, <2>1 DEF HandedOn
  <2>5. underrunPending' \in BOOLEAN
    BY <1>10, Zenon DEF Underrun, MarkUnderrun
  <2>6. BufferTypes'
    BY <1>0, <1>10, <2>5 DEF Underrun, MarkUnderrun, BufferTypes
  <2> QED
    BY <2>3, <2>4, <2>6, PartsPrimed
<1> QED
  BY <1>6, <1>7, <1>8, <1>9, <1>10 DEF CallbackContinues

LEMMA InvarianceStep == ASSUME IInv, [Next]_vars PROVE IInv'
<1>1. CASE Application
  BY <1>1, StreamCommands, SecondSteps, OtherCommands DEF Application
<1>2. CASE FramesAskedFor \/ CallbackContinues
  BY <1>2, BeginStep, CallbackStep
<1>3. CASE UNCHANGED vars
  BY <1>3 DEF vars, bufferVars, app, callback, request, cursor,
       IInv, TypeOK, HandedOn, Doomed
<1> QED
  BY <1>1, <1>2, <1>3 DEF Next

LEMMA Invariance == Spec => []IInv
BY InvarianceStep, InitTypes, PTL DEF Spec

(* The buffer, the cursor and the request keep their types: no index leaves *)
(* the ring and no sample the block.                                       *)
THEOREM TypeCorrect == Spec => []TypeOK
<1>1. IInv => TypeOK
  BY DEF IInv
<1> QED
  BY <1>1, Invariance, PTL

(* A callback that begins while a stream runs plays nothing of a stream    *)
(* that was stopped before it, whichever way the two tasks interleave.     *)
THEOREM OldStreamIsSilent == Spec => []OldStreamSilent
<1>1. IInv => OldStreamSilent
  BY DEF IInv, Doomed, OldStreamSilent
<1> QED
  BY <1>1, Invariance, PTL

-----------------------------------------------------------------------------
(* Multiples of the size of a packet. *)

LEMMA MultiplesOrder ==
  ASSUME NEW a \in Nat, NEW b \in Nat, NEW length \in Nat \ {0}
  PROVE  a * length >= b * length <=> a >= b
<1>1. ASSUME a >= b PROVE a * length >= b * length
  <2> DEFINE d == a - b
  <2>1. d \in Nat /\ a = b + d
    BY <1>1
  <2> HIDE DEF d
  <2>2. a * length = b * length + d * length /\ d * length >= 0
    BY <2>1
  <2>3. b * length \in Nat /\ d * length \in Nat
    BY <2>1
  <2> QED
    BY <2>2, <2>3
<1>2. ASSUME a < b PROVE a * length < b * length
  <2> DEFINE d == b - a - 1
  <2>1. d \in Nat /\ b = a + d + 1
    BY <1>2
  <2> HIDE DEF d
  <2>2. b * length = a * length + d * length + length /\ d * length >= 0
    BY <2>1
  <2>3. a * length \in Nat /\ d * length \in Nat
    BY <2>1
  <2> QED
    BY <2>2, <2>3
<1> QED
  BY <1>1, <1>2

LEMMA WholeQuotient ==
  ASSUME NEW n \in Nat, NEW length \in Nat \ {0}
  PROVE  (n * length) \div length = n
<1> DEFINE x == n * length
           q == x \div length
           r == x % length
<1>1. x \in Nat
  OBVIOUS
<1>2. q \in Nat /\ r \in Nat /\ r < length /\ x = length * q + r
  <2> HIDE DEF x
  <2> QED
    BY <1>1
<1>3. q * length <= n * length
  <2> HIDE DEF q, r
  <2> QED
    BY <1>2
<1>4. q <= n
  <2> HIDE DEF q
  <2> QED
    BY <1>2, <1>3, MultiplesOrder
<1>5. (q + 1) * length > n * length
  <2> HIDE DEF q, r
  <2> QED
    BY <1>2
<1>6. ~(n >= q + 1)
  <2> HIDE DEF q
  <2>1. q + 1 \in Nat /\ (q + 1) * length \in Nat /\ n * length \in Nat
    BY <1>2
  <2> QED
    BY <1>5, <2>1, MultiplesOrder
<1> HIDE DEF q
<1> QED
  BY <1>2, <1>4, <1>6 DEF q

-----------------------------------------------------------------------------
(* The geometry of the ring. *)

Wrapped(x) == IF x < Capacity THEN x ELSE x - Capacity

LEMMA ModOnce ==
  ASSUME NEW x \in Nat, x < 2 * Capacity
  PROVE  x % Capacity = Wrapped(x)
<1>1. CASE x < Capacity
  BY <1>1, Sizing DEF Wrapped
<1>2. CASE x >= Capacity
  BY <1>2, Sizing DEF Wrapped
<1> QED
  BY <1>1, <1>2, Sizing

Pointers == read \in Places /\ write \in Places

LEMMA PlaceForm ==
  ASSUME Pointers, NEW k \in 0..Capacity
  PROVE  Place(k) = Wrapped(read + k) /\ Place(k) \in Places
<1> DEFINE x == read + k
<1>1. x \in Nat /\ x < 2 * Capacity
  BY Sizing DEF Pointers, Places
<1>2. Place(k) = x % Capacity
  BY DEF Place
<1> HIDE DEF x
<1>3. Place(k) = Wrapped(x) /\ Place(k) \in Places
  BY <1>1, <1>2, ModOnce, Sizing
<1> QED
  BY <1>3 DEF x

(* No two bytes of the ring share a place, and every place has a byte.     *)
LEMMA PlacesDiffer ==
  ASSUME Pointers, NEW j \in 0..(Capacity - 1), NEW k \in 0..(Capacity - 1), j # k
  PROVE  Place(j) # Place(k)
<1>1. Place(j) = Wrapped(read + j) /\ Place(k) = Wrapped(read + k)
  BY PlaceForm, Sizing
<1> QED
  BY <1>1, Sizing DEF Wrapped, Pointers, Places

LEMMA UsedIsNat ==
  ASSUME Pointers PROVE Used \in 0..(Capacity - 1)
BY Sizing DEF Pointers, Places, Used

(* The write pointer is the place of the first byte that is free.          *)
LEMMA WritePlace ==
  ASSUME Pointers PROVE Place(Used) = write
<1>1. Used \in 0..Capacity
  BY UsedIsNat, Sizing
<1> QED
  BY <1>1, PlaceForm, Sizing DEF Used, Wrapped, Pointers, Places

(* A packet is stored behind the bytes that are waiting, which it leaves   *)
(* as they are, on whichever side of the end of the ring they lie.         *)
LEMMA StoredAt ==
  ASSUME Pointers, NEW p, NEW length \in Nat, Used + length < Capacity,
         NEW k \in 0..(Used + length - 1)
  PROVE  Stored(p, length)[Place(k)] = IF k < Used THEN buffer[Place(k)] ELSE <<p, k - Used>>
<1> DEFINE i == Place(k)
           at == IF i >= write THEN i - write ELSE Capacity - write + i
<1>1. k \in 0..(Capacity - 1) /\ Used \in 0..(Capacity - 1)
  BY UsedIsNat, Sizing
<1>2. i = Wrapped(read + k) /\ i \in Places
  BY <1>1, PlaceForm, Sizing
<1>3. Stored(p, length)[i] = IF at < length THEN <<p, at>> ELSE buffer[i]
  BY <1>2 DEF Stored
<1>4. at = IF k >= Used THEN k - Used ELSE Capacity - Used + k
  BY <1>1, <1>2, Sizing DEF Used, Wrapped, Pointers, Places
<1> HIDE DEF i, at
<1>5. CASE k < Used
  <2>1. ~(at < length)
    BY <1>1, <1>4, <1>5, Sizing
  <2> QED
    BY <1>3, <1>5, <2>1 DEF i
<1>6. CASE ~(k < Used)
  <2>1. at < length /\ at = k - Used
    BY <1>1, <1>4, <1>6
  <2> QED
    BY <1>3, <1>6, <2>1 DEF i
<1> QED
  BY <1>5, <1>6

LEMMA UsedAfterAdmit ==
  ASSUME Pointers, NEW length \in Nat, Used + length < Capacity,
         UNCHANGED read, write' = (write + length) % Capacity
  PROVE  Used' = Used + length /\ write' \in Places
<1> DEFINE x == write + length
<1>1. /\ read \in Nat /\ write \in Nat /\ read < Capacity /\ write < Capacity
      /\ Capacity \in Nat
  BY Sizing DEF Pointers, Places
<1>2. x \in Nat /\ x < 2 * Capacity
  BY <1>1, UsedIsNat
<1> HIDE DEF x
<1>3. write' = Wrapped(x) /\ write' \in Places
  BY <1>2, ModOnce, Sizing DEF x
<1> QED
  BY <1>1, <1>2, <1>3 DEF x, Wrapped, Used

LEMMA AfterLoad ==
  ASSUME Pointers, NEW length \in Nat, length <= Used,
         UNCHANGED write, read' = Place(length)
  PROVE  /\ read' \in Places /\ Used' = Used - length
         /\ \A k \in 0..(Capacity - length) : Place(k)' = Place(k + length)
<1>1. length \in 0..Capacity /\ Capacity \in Nat \ {0}
  BY UsedIsNat, Sizing
<1>2. read' = Wrapped(read + length) /\ read' \in Places
  BY <1>1, PlaceForm
<1>3. Used' = Used - length
  BY <1>1, <1>2 DEF Used, Wrapped, Pointers, Places
<1>4. ASSUME NEW k \in 0..(Capacity - length) PROVE Place(k)' = Place(k + length)
  <2> DEFINE x == read' + k
  <2>1. Place(k)' = x % Capacity
    BY DEF Place
  <2>2. x \in Nat /\ x < 2 * Capacity /\ k + length \in 0..Capacity
    BY <1>1, <1>2 DEF Places
  <2> HIDE DEF x
  <2>3. Place(k)' = Wrapped(x)
    BY <2>1, <2>2, ModOnce
  <2>4. Place(k + length) = Wrapped(read + (k + length))
    BY <2>2, PlaceForm
  <2>5. Wrapped(x) = Wrapped(read + (k + length))
    <3>1. /\ read \in Nat /\ read < Capacity /\ k \in Nat /\ k + length <= Capacity
          /\ length \in Nat /\ Capacity \in Nat
      BY <1>1 DEF Pointers, Places
    <3>2. CASE read + length < Capacity
      BY <1>2, <3>1, <3>2 DEF x, Wrapped
    <3>3. CASE read + length >= Capacity
      <4>1. read' = read + length - Capacity
        BY <1>2, <3>1, <3>3 DEF Wrapped
      <4>2. x < Capacity /\ read + (k + length) >= Capacity
        BY <3>1, <3>3, <4>1 DEF x
      <4> QED
        BY <3>1, <4>1, <4>2 DEF x, Wrapped
    <3> QED
      BY <3>1, <3>2, <3>3
  <2> QED
    BY <2>3, <2>4, <2>5
<1> QED
  BY <1>2, <1>3, <1>4

(* What is forgotten behind the read pointer is not what is waiting.       *)
LEMMA ForgetAhead ==
  ASSUME Pointers, NEW length \in Nat, length <= Used, Forget(Ahead(length)),
         NEW k \in length..(Used - 1)
  PROVE  buffer'[Place(k)] = buffer[Place(k)]
<1>1. k \in 0..(Capacity - 1) /\ Used \in 0..(Capacity - 1)
  BY UsedIsNat, Sizing
<1>2. Place(k) \in Places
  BY <1>1, PlaceForm, Sizing
<1>3. Place(k) \notin Ahead(length)
  <2> SUFFICES ASSUME NEW j \in 0..(length - 1), Place(k) = Place(j) PROVE FALSE
    BY DEF Ahead
  <2>1. j \in 0..(Capacity - 1) /\ j # k
    BY <1>1, Sizing
  <2> QED
    BY <1>1, <2>1, PlacesDiffer
<1> QED
  BY <1>2, <1>3 DEF Forget

-----------------------------------------------------------------------------
(* The packets in the ring. *)

(* Packets are waiting whole; the ring is primed once it holds the         *)
(* prebuffer of the stream.                                                *)
Packed ==
  /\ \E n \in Nat : Used = n * PacketBytes(channels)
  /\ ~running => Used = 0
  /\ running => prebuffer = PrebufferBlocks * PacketBytes(channels)
  /\ (running /\ Used > 0 /\ Used >= prebuffer) => primed

(* A size read before a start with another profile finds nothing to load.  *)
SizeAgrees ==
  (callbackStep = "Load" /\ size # PacketBytes(channels)) => Used = 0

(* The places of packet i. *)
LEMMA PacketInRing ==
  ASSUME NEW n \in Nat, NEW length \in Nat \ {0}, NEW i \in 1..n, NEW k \in 0..(length - 1)
  PROVE  /\ (i - 1) * length + k \in 0..(n * length - 1)
         /\ i * length = (i - 1) * length + length
<1> DEFINE x == (i - 1) * length
<1>1. i - 1 \in Nat /\ x \in Nat /\ n * length \in Nat
  OBVIOUS
<1>2. i * length = x + length
  OBVIOUS
<1>3. i * length <= n * length
  <2>1. i \in Nat /\ n >= i
    OBVIOUS
  <2> QED
    BY <2>1, MultiplesOrder
<1> HIDE DEF x
<1>4. x + k \in 0..(n * length - 1)
  <2> DEFINE y == n * length
  <2>1. y \in Nat /\ x + length <= y
    BY <1>1, <1>2, <1>3
  <2> HIDE DEF y
  <2>2. x + k \in 0..(y - 1)
    BY <1>1, <2>1
  <2> QED
    BY <2>2 DEF y
<1> QED
  BY <1>2, <1>4 DEF x

Packet(i) ==
  [k \in 0..(PacketBytes(channels) - 1) |->
    buffer[Place((i - 1) * PacketBytes(channels) + k)]]

(* A ring of n packets holds a queue of length n. *)
WaitingForm ==
  \A n \in Nat : Used = n * PacketBytes(channels) =>
    /\ Waiting = [i \in 1..n |-> Packet(i)]
    /\ Waiting \in Seq(Loads(channels)) /\ Len(Waiting) = n

LEMMA WaitingHasForm == BufferTypes => WaitingForm
<1> SUFFICES ASSUME BufferTypes, NEW n \in Nat, Used = n * PacketBytes(channels)
             PROVE  /\ Waiting = [i \in 1..n |-> Packet(i)]
                    /\ Waiting \in Seq(Loads(channels)) /\ Len(Waiting) = n
  BY DEF WaitingForm
<1> DEFINE length == PacketBytes(channels)
<1>1. length \in Nat \ {0}
  BY Sizing DEF BufferTypes
<1>2. Used \div length = n
  <2> HIDE DEF length
  <2>1. (n * length) \div length = n
    BY <1>1, WholeQuotient
  <2> QED
    BY <2>1 DEF length
<1>3. Waiting = [i \in 1..n |-> Packet(i)]
  BY <1>2 DEF Waiting, Packet
<1>4. ASSUME NEW i \in 1..n, NEW k \in 0..(length - 1)
      PROVE  buffer[Place((i - 1) * length + k)] \in Bytes
  <2> DEFINE x == (i - 1) * length + k
  <2>1. x \in 0..(n * length - 1)
    <3> HIDE DEF length
    <3> QED
      BY <1>1, PacketInRing
  <2>2. x \in 0..Capacity /\ Pointers
    BY <2>1, UsedIsNat, Sizing DEF BufferTypes, Pointers
  <2> HIDE DEF x
  <2>3. Place(x) \in Places
    BY <2>2, PlaceForm
  <2> QED
    BY <2>3 DEF BufferTypes, x
<1>5. \A i \in 1..n : Packet(i) \in Loads(channels)
  BY <1>4 DEF Loads, Packet
<1>6. Waiting \in Seq(Loads(channels)) /\ Len(Waiting) = n
  BY <1>3, <1>5
<1> QED
  BY <1>3, <1>6

LEMMA WaitingFormAfter == (BufferTypes => WaitingForm)'
BY WaitingHasForm, PTL

-----------------------------------------------------------------------------
(* The operations of the ring are those of the queue. *)

LEMMA AdmitPuts ==
  ASSUME BufferTypes, Packed, NEW p \in Payloads, Admit(p)
  PROVE  /\ Packed'
         /\ Waiting' = Append(Waiting, Whole(p, channels))
         /\ primed' = (primed \/ Len(Waiting') >= PrebufferBlocks)
<1> DEFINE length == PacketBytes(channels)
<1>1. length \in Nat \ {0} /\ Pointers /\ Used \in Nat /\ Used + length < Capacity
  <2>1. Pointers /\ length \in Nat \ {0}
    BY Sizing DEF BufferTypes, Pointers
  <2>2. Used \in Nat
    BY <2>1, UsedIsNat
  <2> QED
    BY <2>1, <2>2, Sizing DEF Admit, Free
<1>2. /\ buffer' = Stored(p, length) /\ write' = (write + length) % Capacity
      /\ running /\ primed' = (primed \/ Used + length >= prebuffer)
      /\ UNCHANGED <<read, running, channels, prebuffer>>
  BY DEF Admit
<1>3. PICK n \in Nat : Used = n * length
  BY DEF Packed
<1>4. Used' = Used + length
  <2> HIDE DEF length
  <2> QED
    BY <1>1, <1>2, UsedAfterAdmit
<1>5. Used' = (n + 1) * length /\ n + 1 \in Nat
  <2> HIDE DEF length
  <2> QED
    BY <1>1, <1>3, <1>4
<1>6. prebuffer = PrebufferBlocks * length
  BY <1>2 DEF Packed
<1>7. Used' >= prebuffer <=> n + 1 >= PrebufferBlocks
  <2> HIDE DEF length
  <2>1. n + 1 \in Nat /\ PrebufferBlocks \in Nat
    BY SizesAssumption
  <2> QED
    BY <1>1, <1>5, <1>6, <2>1, MultiplesOrder
<1>8. BufferTypes' /\ UNCHANGED channels /\ \A k : Place(k)' = Place(k)
  BY <1>2, PushTypes DEF PushPacket, Place
<1>9. /\ Waiting = [i \in 1..n |-> Packet(i)] /\ Waiting \in Seq(Loads(channels)) /\ Len(Waiting) = n
      /\ Waiting' = [i \in 1..(n + 1) |-> Packet(i)']
      /\ Waiting' \in Seq(Loads(channels)) /\ Len(Waiting') = n + 1
  BY <1>3, <1>5, <1>8, WaitingHasForm, WaitingFormAfter DEF WaitingForm
<1>10. ASSUME NEW i \in 1..n PROVE Packet(i)' = Packet(i)
  <2>1. ASSUME NEW k \in 0..(length - 1)
        PROVE  buffer'[Place((i - 1) * length + k)] = buffer[Place((i - 1) * length + k)]
    <3> HIDE DEF length
    <3>1. (i - 1) * length + k \in 0..(Used - 1)
      BY <1>1, <1>3, PacketInRing
    <3> DEFINE x == (i - 1) * length + k
    <3> HIDE DEF x
    <3>2. x \in 0..(Used + length - 1) /\ x < Used
      BY <1>1, <3>1 DEF x
    <3>3. buffer'[Place(x)] = buffer[Place(x)]
      BY <1>1, <1>2, <3>2, StoredAt
    <3> QED
      BY <3>3 DEF x
  <2> QED
    BY <1>8, <2>1 DEF Packet
<1>11. Packet(n + 1)' = Whole(p, channels)
  <2>1. ASSUME NEW k \in 0..(length - 1)
        PROVE  buffer'[Place((n + 1 - 1) * length + k)] = <<p, k>>
    <3> HIDE DEF length
    <3> DEFINE x == (n + 1 - 1) * length + k
    <3>1. x = Used + k
      BY <1>1, <1>3
    <3> HIDE DEF x
    <3>2. x \in 0..(Used + length - 1) /\ ~(x < Used) /\ x - Used = k
      BY <1>1, <3>1
    <3>3. buffer'[Place(x)] = <<p, x - Used>>
      BY <1>1, <1>2, <3>2, StoredAt
    <3> QED
      BY <3>2, <3>3 DEF x
  <2> QED
    BY <1>8, <2>1 DEF Packet, Whole
<1>12. Waiting' = Append(Waiting, Whole(p, channels))
  <2>1. Whole(p, channels) \in Loads(channels)
    BY <1>1 DEF Whole, Loads, Bytes
  <2>2. Append(Waiting, Whole(p, channels)) = [i \in 1..(n + 1) |-> IF i = n + 1 THEN Whole(p, channels) ELSE Waiting[i]]
    <3> HIDE DEF Waiting
    <3> QED
      BY <1>9, <2>1
  <2>3. \A i \in 1..(n + 1) : Packet(i)' = IF i = n + 1 THEN Whole(p, channels) ELSE Waiting[i]
    BY <1>9, <1>10, <1>11
  <2> QED
    BY <1>9, <2>2, <2>3
<1>13. primed' = (primed \/ Len(Waiting') >= PrebufferBlocks)
  BY <1>2, <1>4, <1>7, <1>9
<1>14. Packed'
  BY <1>2, <1>4, <1>5, <1>6 DEF Packed
<1> QED
  BY <1>12, <1>13, <1>14

(* A packet that does not fit changes nothing: a ring that holds its       *)
(* prebuffer has been primed already.                                      *)
LEMMA RefuseStutters ==
  ASSUME BufferTypes, Packed, Refuse PROVE UNCHANGED bufferVars
<1> DEFINE length == PacketBytes(channels)
<1>1. length \in Nat /\ length < Capacity /\ Used \in 0..(Capacity - 1) /\ Capacity \in Nat
  BY UsedIsNat, Sizing DEF BufferTypes, Pointers
<1>2. running /\ (Capacity - 1) - Used < length /\ primed' = (primed \/ Used >= prebuffer)
  BY DEF Refuse, Free
<1>3. Used > 0
  <2> HIDE DEF length
  <2> QED
    BY <1>1, <1>2
<1>4. Used >= prebuffer => primed
  BY <1>2, <1>3 DEF Packed
<1>5. primed' = primed
  BY <1>2, <1>4, Zenon DEF BufferTypes
<1> QED
  BY <1>5 DEF Refuse, bufferVars

LEMMA LoadTakes ==
  ASSUME BufferTypes, Packed, Load(PacketBytes(channels))
  PROVE  /\ Packed'
         /\ Waiting # <<>> /\ Front(PacketBytes(channels)) = Head(Waiting)
         /\ Waiting' = Tail(Waiting)
<1> DEFINE length == PacketBytes(channels)
<1>1. length \in Nat \ {0} /\ Pointers /\ Used \in 0..(Capacity - 1) /\ Capacity \in Nat
  BY UsedIsNat, Sizing DEF BufferTypes, Pointers
<1>2. /\ running /\ primed /\ Used >= length
      /\ read' = Place(length) /\ Forget(Ahead(length))
      /\ UNCHANGED <<write, running, primed, channels, prebuffer>>
  BY DEF Load, Loadable
<1>3. PICK n \in Nat : Used = n * length
  BY DEF Packed
<1>4. n \in Nat \ {0}
  <2> HIDE DEF length
  <2> QED
    BY <1>1, <1>2, <1>3
<1>5. Used' = Used - length /\ \A k \in 0..(Capacity - length) : Place(k)' = Place(k + length)
  <2> HIDE DEF length
  <2> QED
    BY <1>1, <1>2, AfterLoad
<1>6. Used' = (n - 1) * length /\ n - 1 \in Nat
  <2> HIDE DEF length
  <2> QED
    BY <1>1, <1>3, <1>4, <1>5
<1>7. BufferTypes' /\ UNCHANGED channels
  <2>1. channels \in Channels
    BY DEF BufferTypes
  <2> QED
    BY <1>2, <2>1, LoadTypes
<1>8. /\ Waiting = [i \in 1..n |-> Packet(i)] /\ Waiting \in Seq(Loads(channels)) /\ Len(Waiting) = n
      /\ Waiting' = [i \in 1..(n - 1) |-> Packet(i)']
      /\ Waiting' \in Seq(Loads(channels)) /\ Len(Waiting') = n - 1
  BY <1>3, <1>6, <1>7, WaitingHasForm, WaitingFormAfter DEF WaitingForm
<1>9. Front(length) = Packet(1)
  <2>1. ASSUME NEW k \in 0..(length - 1) PROVE (1 - 1) * length + k = k
    <3> HIDE DEF length
    <3> QED
      BY <1>1
  <2> QED
    BY <2>1 DEF Front, Packet
<1>10. ASSUME NEW i \in 1..(n - 1) PROVE Packet(i)' = Packet(i + 1)
  <2>1. PICK bytes \in Nat \ {0} : bytes = length
    <3> HIDE DEF length
    <3> QED
      BY <1>1
  <2>2. bytes = PacketBytes(channels) /\ bytes = PacketBytes(channels')
    BY <1>7, <2>1
  <2>3. ASSUME NEW k \in 0..(bytes - 1)
        PROVE  buffer'[Place((i - 1) * bytes + k)'] = buffer[Place((i + 1 - 1) * bytes + k)]
    <3> HIDE DEF length
    <3> DEFINE x == (i - 1) * bytes + k
               y == (i + 1 - 1) * bytes + k
    <3>1. x \in 0..((n - 1) * bytes - 1) /\ i * bytes = (i - 1) * bytes + bytes
      BY <1>1, <1>6, PacketInRing
    <3>2. y = x + bytes /\ x \in Nat
      <4>1. (i + 1 - 1) * bytes = i * bytes /\ i * bytes \in Nat /\ (i - 1) * bytes \in Nat
        BY <1>1
      <4> QED
        BY <1>1, <3>1, <4>1
    <3>3. x <= Used - bytes - 1
      BY <1>1, <1>5, <1>6, <2>1, <3>1
    <3> HIDE DEF x, y
    <3>4. x \in 0..(Capacity - bytes) /\ y \in bytes..(Used - 1)
      BY <1>1, <2>1, <3>2, <3>3
    <3>5. Place(x)' = Place(y)
      BY <1>5, <2>1, <3>2, <3>4
    <3>6. buffer'[Place(y)] = buffer[Place(y)]
      BY <1>1, <1>2, <2>1, <3>4, ForgetAhead
    <3>7. buffer'[Place(x)'] = buffer[Place(y)]
      BY <3>5, <3>6
    <3> QED
      BY <3>7 DEF x, y
  <2> QED
    BY <2>2, <2>3 DEF Packet
<1>11. Waiting # <<>> /\ Head(Waiting) = Packet(1)
  <2>1. 1 \in 1..n
    BY <1>4
  <2>2. Head(Waiting) = Waiting[1]
    <3> HIDE DEF Waiting
    <3> QED
      BY <1>4, <1>8
  <2> QED
    BY <1>4, <1>8, <2>1, <2>2
<1>12. Waiting' = Tail(Waiting)
  <2>1. Tail(Waiting) = [i \in 1..(n - 1) |-> Waiting[i + 1]]
    <3> HIDE DEF Waiting
    <3> QED
      BY <1>4, <1>8
  <2>2. \A i \in 1..(n - 1) : Packet(i)' = Waiting[i + 1]
    BY <1>8, <1>10
  <2> QED
    BY <1>8, <2>1, <2>2
<1>13. Packed'
  BY <1>2, <1>6 DEF Packed
<1> QED
  BY <1>9, <1>11, <1>12, <1>13

(* A ring of no bytes is an empty queue. *)
LEMMA NothingWaits ==
  (BufferTypes /\ Used = 0) => (Waiting = <<>> /\ \E n \in Nat : Used = n * PacketBytes(channels))
<1> SUFFICES ASSUME BufferTypes, Used = 0
             PROVE  Waiting = <<>> /\ \E n \in Nat : Used = n * PacketBytes(channels)
  OBVIOUS
<1>1. Used = 0 * PacketBytes(channels) /\ 0 \in Nat
  BY Sizing DEF BufferTypes
<1>2. Len(Waiting) = 0 /\ Waiting \in Seq(Loads(channels))
  BY <1>1, WaitingHasForm DEF WaitingForm
<1> HIDE DEF Waiting
<1> QED
  BY <1>1, <1>2

LEMMA NothingWaitsAfter ==
  ((BufferTypes /\ Used = 0) => (Waiting = <<>> /\ \E n \in Nat : Used = n * PacketBytes(channels)))'
BY NothingWaits, PTL

LEMMA EmptyRing ==
  ASSUME BufferTypes, (\E n \in Channels : StartBuffer(n)) \/ StopBuffer
  PROVE  Packed' /\ Waiting' = <<>> /\ Used' = 0 /\ primed' = FALSE
<1>1. BufferTypes'
  BY StartTypes, StopTypes
<1>2. Used' = 0 /\ primed' = FALSE /\ (StopBuffer => ~running')
  BY DEF StartBuffer, StopBuffer, Used
<1>3. Waiting' = <<>> /\ \E n \in Nat : Used' = n * PacketBytes(channels')
  BY <1>1, <1>2, NothingWaitsAfter
<1>4. ASSUME running' PROVE prebuffer' = PrebufferBlocks * PacketBytes(channels')
  <2>1. PICK n \in Channels : StartBuffer(n)
    BY <1>2, <1>4
  <2> DEFINE bytes == PrebufferBlocks * PacketBytes(n)
  <2>2. bytes \in Nat /\ bytes < Capacity
    BY Sizing, SizesAssumption, PrebufferFits
  <2>3. prebuffer' = IF bytes > Capacity - 1 THEN Capacity - 1 ELSE bytes
    BY <2>1 DEF StartBuffer
  <2> HIDE DEF bytes
  <2>4. prebuffer' = bytes
    BY <2>2, <2>3, Sizing
  <2> QED
    BY <2>1, <2>4 DEF bytes, StartBuffer
<1> QED
  BY <1>2, <1>3, <1>4 DEF Packed

-----------------------------------------------------------------------------
(* Every step of the two tasks is a step of the queue, or none. *)

RingInv == IInv /\ Packed /\ SizeAgrees

LEMMA RingStep ==
  ASSUME RingInv, [Next]_vars
  PROVE  RingInv' /\ [Queue!Next]_<<running, Waiting, primed, block>>
<1> USE DEF RingInv
<1>0. BufferTypes /\ TaskTypes /\ IInv'
  BY TypeParts, InvarianceStep DEF IInv
<1>1. ASSUME UNCHANGED bufferVars, UNCHANGED block,
             callbackStep' = "Load" => (size' = PacketBytes(channels) \/ UNCHANGED <<callbackStep, size>>)
      PROVE  RingInv' /\ [Queue!Next]_<<running, Waiting, primed, block>>
  <2>1. UNCHANGED <<Used, Waiting>> /\ UNCHANGED <<read, write, running, primed, channels, prebuffer, buffer>>
    BY <1>1 DEF bufferVars, Used, Waiting, Place
  <2>2. Packed'
    BY <2>1 DEF Packed
  <2>3. SizeAgrees'
    BY <1>1, <2>1 DEF SizeAgrees
  <2> QED
    BY <1>0, <1>1, <2>1, <2>2, <2>3
<1>2. ASSUME StopBuffer, UNCHANGED block
      PROVE  RingInv' /\ [Queue!Next]_<<running, Waiting, primed, block>>
  <2>1. Packed' /\ Waiting' = <<>> /\ Used' = 0 /\ primed' = FALSE /\ running' = FALSE
    BY <1>0, <1>2, EmptyRing DEF StopBuffer
  <2> QED
    BY <1>0, <1>2, <2>1 DEF SizeAgrees, Queue!Next, Queue!Stop, Queue!Empty
<1>3. CASE AudioStarts
  <2>1. wanted \in Channels /\ StartBuffer(wanted) /\ UNCHANGED block
    BY <1>3 DEF AudioStarts, AppGoesOn, IInv, HandedOn, callback, cursor
  <2>2. Packed' /\ Waiting' = <<>> /\ Used' = 0 /\ primed' = FALSE /\ running' = TRUE
    BY <1>0, <2>1, EmptyRing DEF StartBuffer
  <2>3. Queue!Start
    BY <2>1, <2>2 DEF Queue!Start, Queue!Empty
  <2>4. SizeAgrees'
    BY <2>2 DEF SizeAgrees
  <2> QED
    BY <1>0, <2>2, <2>3, <2>4 DEF Queue!Next
<1>4. CASE StopAudio \/ EndSession \/ NewSession
  BY <1>2, <1>4 DEF StopAudio, EndSession, NewSession, StopStream, AppActs
<1>5. CASE \/ \E n \in Channels : StartAudio(n)
           \/ AudioStops \/ StartTone \/ StopTone \/ SessionEnds \/ SessionIsReset \/ Linked
  <2>1. UNCHANGED bufferVars /\ UNCHANGED <<callbackStep, size, block>>
    BY <1>5 DEF StartAudio, AudioStops, StartTone, StopTone, SessionEnds, SessionIsReset, Linked,
         AppActs, AppGoesOn, callback, request, cursor
  <2> QED
    BY <1>1, <2>1
<1>6. ASSUME NEW p \in Payloads, AudioData(p)
      PROVE  RingInv' /\ [Queue!Next]_<<running, Waiting, primed, block>>
  <2>1. PushPacket(p) /\ HostIsSlower /\ UNCHANGED <<callbackStep, size, block>>
    BY <1>6 DEF AudioData, AppActs, request
  <2>2. CASE Refuse
    BY <1>0, <1>1, <2>1, <2>2, RefuseStutters
  <2>3. CASE Admit(p)
    <3>1. /\ Packed' /\ Waiting' = Append(Waiting, Whole(p, channels))
          /\ primed' = (primed \/ Len(Waiting') >= PrebufferBlocks)
      BY <1>0, <2>3, AdmitPuts
    <3>2. running /\ UNCHANGED <<running, channels>>
      BY <2>3 DEF Admit
    <3>3. SizeAgrees'
      BY <2>1, <3>2 DEF SizeAgrees, HostIsSlower
    <3>4. channels \in Channels
      BY <1>0 DEF BufferTypes
    <3>5. Queue!Put(Whole(p, channels))
      BY <2>1, <3>1, <3>2 DEF Queue!Put
    <3> QED
      BY <1>0, <3>1, <3>3, <3>4, <3>5 DEF Queue!Next
  <2> QED
    BY <2>1, <2>2, <2>3 DEF PushPacket
<1>7. CASE ReportUnderrun \/ Underrun
  <2>1. /\ UNCHANGED <<read, write, running, primed, channels, prebuffer, buffer, block>>
        /\ (callbackStep' = "Load" => UNCHANGED <<callbackStep, size>>)
    BY <1>7 DEF ReportUnderrun, TakeUnderrun, Underrun, MarkUnderrun, AppActs, request, cursor
  <2>2. UNCHANGED <<Used, Waiting>>
    BY <2>1 DEF Used, Waiting, Place
  <2>3. Packed' /\ SizeAgrees'
    BY <2>1, <2>2 DEF Packed, SizeAgrees
  <2> QED
    BY <1>0, <2>1, <2>2, <2>3
<1>8. CASE FramesAskedFor
  <2>1. UNCHANGED bufferVars /\ UNCHANGED block /\ callbackStep' # "Load"
    BY <1>8 DEF FramesAskedFor, CallbackBegins, Unload, cursor
  <2> QED
    BY <1>1, <2>1
<1>9. CASE \/ CheckStreaming \/ (\E moved \in {0, 1} : PlayFrame(moved))
           \/ AskForBlock \/ FramesFilled \/ NothingToLoad
  <2>1. /\ UNCHANGED bufferVars /\ UNCHANGED block
        /\ callbackStep' = "Load" => size' = PacketBytes(channels)
    BY <1>9 DEF CheckStreaming, PlayFrame, AskForBlock, FramesFilled, NothingToLoad,
         CallbackOnly, Unload, cursor
  <2> QED
    BY <1>1, <2>1
<1>10. CASE LoadBlock
  <2>1. callbackStep = "Load" /\ Load(size) /\ block' = Front(size) /\ callbackStep' # "Load"
    BY <1>10 DEF LoadBlock, Copy
  <2>2. size = PacketBytes(channels)
    <3>1. PICK n \in Channels : size = PacketBytes(n)
      BY <2>1 DEF IInv, HandedOn
    <3>2. Used >= size /\ size \in Nat \ {0}
      BY <2>1, <3>1, Sizing DEF Load, Loadable
    <3> QED
      BY <2>1, <3>2 DEF SizeAgrees
  <2>3. /\ Packed' /\ Waiting # <<>> /\ block' = Head(Waiting)
        /\ Waiting' = Tail(Waiting) /\ running /\ primed /\ UNCHANGED <<running, primed>>
    BY <1>0, <2>1, <2>2, LoadTakes DEF Load, Loadable
  <2> QED
    BY <1>0, <2>1, <2>3 DEF SizeAgrees, Queue!Next, Queue!Take
<1>11. CASE UNCHANGED vars
  BY <1>1, <1>11 DEF vars, callback, request, cursor
<1> QED
  BY <1>3, <1>4, <1>5, <1>6, <1>7, <1>8, <1>9, <1>10, <1>11
     DEF Next, Application, CallbackContinues

LEMMA RingBegins == Init => RingInv /\ Queue!Init
<1> SUFFICES ASSUME Init PROVE RingInv /\ Queue!Init
  OBVIOUS
<1>1. IInv /\ BufferTypes
  BY InitTypes, TypeParts DEF IInv
<1>2. Used = 0 /\ running = FALSE /\ primed = FALSE /\ block = NoBlock /\ callbackStep = "Idle"
  BY DEF Init, BufferInit, Used
<1>3. Waiting = <<>> /\ Packed
  BY <1>1, <1>2, NothingWaits DEF Packed
<1> QED
  BY <1>1, <1>2, <1>3 DEF RingInv, SizeAgrees, Queue!Init

(* For every size of ring, header, block and prebuffer that fits, over all *)
(* wraps, profiles, starts and stops, and all interleavings of the two     *)
(* tasks: what the callback copies out of the ring are the packets the     *)
(* host sent, whole, in order, and none before the prebuffer was complete. *)
THEOREM RingImplementsQueue == Spec => ImplementsPacketQueue
<1>1. RingInv /\ [Next]_vars => RingInv' /\ [Queue!Next]_<<running, Waiting, primed, block>>
  BY RingStep
<1>2. Queue!vars = <<running, Waiting, primed, block>>
  BY DEF Queue!vars
<1> HIDE DEF RingInv, Waiting
<1> QED
  BY <1>1, RingBegins, PTL DEF Spec, ImplementsPacketQueue, Queue!Spec, Queue!vars
(***************************************************************************)
(* How a callback comes to its end: CallbackEnds without the fairness.     *)
(***************************************************************************)

(* The steps that are left, at most: no frame takes as many as five.       *)
CallbackLeft ==
  CASE callbackStep = "Idle" -> 0
    [] callbackStep = "Starved" -> 1
    [] callbackStep = "Play" -> 4 * left + (IF loaded THEN 1 ELSE 3)
    [] callbackStep = "Load" -> 4 * left + 2
    [] callbackStep = "Streaming" -> 4 * left + 4

(* While a frame callback runs, its own steps bring it nearer to its end,  *)
(* and the application task does not set it back.                          *)
CallbackRunsDown ==
  [][callbackStep # "Idle" =>
       /\ CallbackLeft \in Nat \ {0}
       /\ IF CallbackContinues
          THEN CallbackLeft' \in 0..(CallbackLeft - 1)
          ELSE CallbackLeft' = CallbackLeft]_vars

(* Each step of the callback takes it nearer to its end, and nothing the   *)
(* application task does in between takes it back.                         *)
THEOREM CallbacksRunDown == Spec => CallbackRunsDown
<1>1. ASSUME IInv, [Next]_vars, callbackStep # "Idle"
      PROVE  /\ CallbackLeft \in Nat \ {0}
             /\ IF CallbackContinues
                THEN CallbackLeft' \in 0..(CallbackLeft - 1)
                ELSE CallbackLeft' = CallbackLeft
  <2>1. callbackStep \in CallbackSteps /\ left \in Nat /\ loaded \in BOOLEAN
    BY <1>1, FramesAssumption DEF IInv, TypeOK
  <2>2. CallbackLeft \in Nat \ {0}
    BY <1>1, <2>1 DEF CallbackLeft, CallbackSteps
  <2>3. ASSUME CallbackContinues
        PROVE  CallbackLeft' \in 0..(CallbackLeft - 1)
    <3>1. CASE CheckStreaming
      <4>1. CallbackLeft = 4 * left + 4
        BY <3>1 DEF CheckStreaming, CallbackLeft
      <4>2. \/ callbackStep' = "Idle"
            \/ callbackStep' = "Play" /\ left' = left
        BY <3>1 DEF CheckStreaming
      <4>3. CallbackLeft' \in {0, 4 * left + 1, 4 * left + 3}
        BY <4>2 DEF CallbackLeft
      <4> QED BY <2>1, <4>1, <4>3
    <3>2. ASSUME NEW moved, PlayFrame(moved)
          PROVE  CallbackLeft' \in 0..(CallbackLeft - 1)
      <4>1. CallbackLeft = 4 * left + 1 /\ left > 0
        BY <3>2 DEF PlayFrame, CallbackLeft
      <4>2. callbackStep' = "Play" /\ left' = left - 1
        BY <3>2 DEF PlayFrame
      <4>3. CallbackLeft' \in {4 * (left - 1) + 1, 4 * (left - 1) + 3}
        BY <4>2 DEF CallbackLeft
      <4> QED BY <2>1, <4>1, <4>3
    <3>3. CASE AskForBlock
      <4>1. CallbackLeft = 4 * left + 3
        BY <3>3 DEF AskForBlock, CallbackLeft
      <4>2. CallbackLeft' = 4 * left + 2
        BY <3>3 DEF AskForBlock, CallbackLeft
      <4> QED BY <2>1, <4>1, <4>2
    <3>4. CASE FramesFilled
      <4>1. CallbackLeft' = 0
        BY <3>4 DEF FramesFilled, CallbackLeft
      <4> QED BY <2>2, <4>1
    <3>5. CASE LoadBlock
      <4>1. CallbackLeft = 4 * left + 2
        BY <3>5 DEF LoadBlock, Copy, CallbackLeft
      <4>2. \/ callbackStep' = "Play" /\ loaded' /\ left' = left
            \/ callbackStep' = "Starved"
        BY <3>5 DEF LoadBlock, Copy
      <4>3. CallbackLeft' \in {1, 4 * left + 1}
        BY <4>2 DEF CallbackLeft
      <4> QED BY <2>1, <4>1, <4>3
    <3>6. CASE NothingToLoad
      <4>1. CallbackLeft = 4 * left + 2
        BY <3>6 DEF NothingToLoad, CallbackLeft
      <4>2. CallbackLeft' = 1
        BY <3>6 DEF NothingToLoad, CallbackLeft
      <4> QED BY <2>1, <4>1, <4>2
    <3>7. CASE Underrun
      <4>1. CallbackLeft = 1
        BY <3>7 DEF Underrun, CallbackLeft
      <4>2. CallbackLeft' = 0
        BY <3>7 DEF Underrun, CallbackLeft
      <4> QED BY <4>1, <4>2
    <3> QED
      BY <2>3, <3>1, <3>2, <3>3, <3>4, <3>5, <3>6, <3>7 DEF CallbackContinues
  <2>4. ASSUME ~CallbackContinues
        PROVE  CallbackLeft' = CallbackLeft
    <3>1. ~FramesAskedFor
      BY <1>1 DEF FramesAskedFor, CallbackBegins
    <3>2. UNCHANGED <<callbackStep, left, loaded>>
      BY <1>1, <2>4, <3>1 DEF Next, Application, StartAudio, AudioStarts, StopAudio,
         AudioStops, StartTone, StopTone, EndSession, SessionEnds, NewSession,
         SessionIsReset, Linked, AudioData, ReportUnderrun, AppActs, AppGoesOn,
         vars, callback, request, cursor
    <3> QED BY <3>2 DEF CallbackLeft
  <2> QED BY <2>2, <2>3, <2>4
<1> QED BY <1>1, Invariance, PTL DEF Spec, CallbackRunsDown
=============================================================================
