--------------------------- MODULE AudioPlayback ---------------------------
(***************************************************************************)
(* PCM audio on its way from the host to the A2DP source.  The application *)
(* task runs the commands of A2DPManager that start and stop a stream or   *)
(* the test tone, and pushes the packets; the Bluetooth task runs          *)
(* frameCallback().  Both go from one critical section to the next, each a *)
(* step of its own.                                                        *)
(*                                                                         *)
(* The resampler is kept as "a frame moves on by a sample, or by none",    *)
(* the tone as "nothing of the stream is played".  Locals and the cursor   *)
(* are zero where they are dead.  The snapshot of the profile chooses only *)
(* where in the block a sample is read and is left out.                    *)
(***************************************************************************)
EXTENDS AudioStreamBuffer, Sequences

CONSTANTS
  MaxFrames,  \* bound: frames the library asks for at once
  NoBlock     \* nothing has ever been loaded

ASSUME FramesAssumption == MaxFrames \in Nat

VARIABLES
  \* The application task.
  appStep,       \* the command it is in: "Idle", "Starting", "Stopping", ...
  wanted,        \* channels of the profile being started
  linked,        \* _state is Connected or Streaming
  tone,          \* _tone
  \* Shared under _callbackMux.
  resetPending,  \* _playbackResetPending
  \* The frame callback.
  callbackStep,  \* its next critical section, or "Play" between two
  left,          \* frames still to be filled
  size,          \* blockBytes(), read before loadBlock()
  block,         \* the packet in _audioBlock
  loaded,        \* _audioBlockLoaded
  sampleIndex,   \* _audioSampleIndex
  \* History.
  stale          \* the stream of the loaded block has been stopped

app == <<appStep, wanted, linked, tone>>
request == <<left, size>>
cursor == <<block, loaded, sampleIndex, stale>>
callback == <<callbackStep, request, cursor>>
vars == <<bufferVars, app, resetPending, callback>>

AppSteps == {"Idle", "Starting", "Stopping", "Ending", "Resetting"}
CallbackSteps == {"Idle", "Streaming", "Play", "Load", "Starved"}
Sizes == {0} \cup {PacketBytes(n) : n \in Channels}
Loads(n) == [0..(PacketBytes(n) - 1) -> Bytes]

TypeOK ==
  /\ read \in Places /\ write \in Places
  /\ running \in BOOLEAN /\ primed \in BOOLEAN /\ underrunPending \in BOOLEAN
  /\ channels \in Channels /\ prebuffer \in Nat
  /\ buffer \in [Places -> Bytes]
  /\ appStep \in AppSteps /\ wanted \in Channels \cup {0} /\ linked \in BOOLEAN
  /\ tone \in BOOLEAN /\ resetPending \in BOOLEAN
  /\ callbackStep \in CallbackSteps /\ left \in 0..MaxFrames
  /\ size \in Sizes
  /\ block \in Loads(1) \cup Loads(2) \cup {NoBlock} /\ loaded \in BOOLEAN
  /\ sampleIndex \in 0..(BlockSamples - 1) /\ stale \in BOOLEAN

Init ==
  /\ BufferInit
  /\ appStep = "Idle" /\ wanted = 0 /\ linked = FALSE /\ tone = FALSE
  /\ resetPending = FALSE
  /\ callbackStep = "Idle" /\ left = 0 /\ size = 0
  /\ block = NoBlock /\ loaded = FALSE /\ sampleIndex = 0 /\ stale = FALSE

-----------------------------------------------------------------------------
(* The application task. *)

AppActs ==
  /\ appStep = "Idle"
  /\ UNCHANGED <<callbackStep, request, block, loaded, sampleIndex>>

AppGoesOn(step) ==
  /\ appStep = step /\ appStep' = "Idle"
  /\ wanted' = 0
  /\ UNCHANGED <<linked, callback>>

(* _audio.stop() outlaws what the callback has loaded. *)
StopStream ==
  /\ StopBuffer
  /\ stale' = loaded

(* Mutant: startAudio() leaves the cursor alone. *)
StartAudioKeepsCursor(n) ==
  /\ AppActs /\ linked
  /\ appStep' = "Starting" /\ wanted' = n
  /\ tone' = FALSE
  /\ UNCHANGED <<bufferVars, linked, resetPending, stale>>

(* startAudio(): the request for a reset, then the buffer. *)
StartAudio(n) ==
  /\ AppActs /\ linked
  /\ appStep' = "Starting" /\ wanted' = n
  /\ tone' = FALSE /\ resetPending' = TRUE
  /\ UNCHANGED <<bufferVars, linked, stale>>

AudioStarts ==
  /\ AppGoesOn("Starting")
  /\ StartBuffer(wanted)
  /\ UNCHANGED <<tone, resetPending>>

(* stopAudio(): the buffer, then the request. *)
StopAudio ==
  /\ AppActs
  /\ appStep' = "Stopping"
  /\ StopStream
  /\ UNCHANGED <<wanted, linked, tone, resetPending>>

AudioStops ==
  /\ AppGoesOn("Stopping")
  /\ resetPending' = TRUE
  /\ UNCHANGED <<bufferVars, tone>>

StartTone ==
  /\ AppActs /\ linked
  /\ tone' = TRUE
  /\ UNCHANGED <<bufferVars, appStep, wanted, linked, resetPending, stale>>

StopTone ==
  /\ AppActs
  /\ tone' = FALSE
  /\ UNCHANGED <<bufferVars, appStep, wanted, linked, resetPending, stale>>

(* beginShutdown(): the buffer, then the tone; processShutdown() stops the *)
(* buffer once more.                                                       *)
EndSession ==
  /\ AppActs
  /\ linked' = FALSE /\ appStep' = "Ending"
  /\ StopStream
  /\ UNCHANGED <<wanted, tone, resetPending>>

SessionEnds ==
  /\ AppGoesOn("Ending")
  /\ tone' = FALSE
  /\ UNCHANGED <<bufferVars, resetPending>>

(* resetRuntimeState(), as the source starts. *)
NewSession ==
  /\ AppActs /\ ~linked
  /\ appStep' = "Resetting"
  /\ StopStream
  /\ UNCHANGED <<wanted, linked, tone, resetPending>>

SessionIsReset ==
  /\ AppGoesOn("Resetting")
  /\ tone' = FALSE /\ resetPending' = TRUE
  /\ UNCHANGED bufferVars

(* applyPendingCallbacks() has seen the link come up. *)
Linked ==
  /\ AppActs /\ ~linked
  /\ linked' = TRUE
  /\ UNCHANGED <<bufferVars, appStep, wanted, tone, resetPending, stale>>

(* Timing: while the callback is between blockBytes() and loadBlock() with *)
(* the size of a profile that a start has replaced, the host does not send *)
(* enough packets to prime the ring.  Fewer of them commute with the load, *)
(* which fails.                                                            *)
HostIsSlower == callbackStep = "Load" => size = PacketBytes(channels)

(* pushAudioData() *)
AudioData(p) ==
  /\ AppActs
  /\ HostIsSlower
  /\ PushPacket(p)
  /\ UNCHANGED <<app, resetPending, stale>>

(* update() reports an underrun. *)
ReportUnderrun ==
  /\ AppActs
  /\ TakeUnderrun
  /\ UNCHANGED <<app, resetPending, stale>>

-----------------------------------------------------------------------------
(* The frame callback. *)

CallbackGoesOn == UNCHANGED <<app, resetPending>>
CallbackOnly == CallbackGoesOn /\ UNCHANGED bufferVars

Unload == loaded' = FALSE /\ sampleIndex' = 0 /\ stale' = FALSE /\ UNCHANGED block

(* frameCallback() up to the first test of fillFrames().  A new estimate   *)
(* of the output rate asks for a reset as well.  While the tone is on, the *)
(* tone fills the frames.                                                  *)
CallbackBegins(frames, rateChanged) ==
  /\ callbackStep = "Idle"
  /\ IF resetPending \/ rateChanged THEN Unload ELSE UNCHANGED cursor
  /\ resetPending' = FALSE
  /\ IF tone THEN UNCHANGED <<callbackStep, left>>
             ELSE callbackStep' = "Streaming" /\ left' = frames
  /\ UNCHANGED <<bufferVars, app, size>>

(* Without a stream the frames are silent. *)
CheckStreaming ==
  /\ callbackStep = "Streaming"
  /\ IF running THEN callbackStep' = "Play" /\ UNCHANGED left
                ELSE callbackStep' = "Idle" /\ left' = 0
  /\ UNCHANGED <<size, cursor>>
  /\ CallbackOnly

(* One frame, and the sample it moves on by.                               *)
PlayFrame(moved) ==
  /\ callbackStep = "Play" /\ left > 0 /\ loaded
  /\ left' = left - 1
  /\ IF sampleIndex + moved >= BlockSamples
     THEN Unload
     ELSE sampleIndex' = sampleIndex + moved /\ UNCHANGED <<block, loaded, stale>>
  /\ UNCHANGED <<callbackStep, size>>
  /\ CallbackOnly

AskForBlock ==
  /\ callbackStep = "Play" /\ left > 0 /\ ~loaded
  /\ callbackStep' = "Load"
  /\ size' = PacketBytes(channels)
  /\ UNCHANGED <<left, cursor>>
  /\ CallbackOnly

FramesFilled ==
  /\ callbackStep = "Play" /\ left = 0
  /\ callbackStep' = "Idle"
  /\ UNCHANGED <<request, cursor>>
  /\ CallbackOnly

(* What loadBlock() copies before it looks at the header.                  *)
Copy ==
  /\ callbackStep = "Load"
  /\ Load(size) /\ block' = Front(size)
  /\ size' = 0 /\ UNCHANGED <<left, sampleIndex, stale>>
  /\ CallbackGoesOn

(* Mutant: a block with a wrong header is skipped. *)
LoadBlockSkipsBad ==
  /\ Copy
  /\ callbackStep' = "Play" /\ loaded' = HeaderGood(block')

(* A block with a wrong header is lost, and ends the frames.               *)
LoadBlock ==
  /\ Copy
  /\ loaded' = HeaderGood(block')
  /\ callbackStep' = IF loaded' THEN "Play" ELSE "Starved"

NothingToLoad ==
  /\ callbackStep = "Load" /\ ~Loadable(size)
  /\ callbackStep' = "Starved"
  /\ size' = 0 /\ UNCHANGED <<left, cursor>>
  /\ CallbackOnly

Underrun ==
  /\ callbackStep = "Starved" /\ callbackStep' = "Idle"
  /\ MarkUnderrun
  /\ left' = 0 /\ UNCHANGED <<size, cursor>>
  /\ CallbackGoesOn

-----------------------------------------------------------------------------
Application ==
  \/ \E n \in Channels : StartAudio(n)
  \/ AudioStarts \/ StopAudio \/ AudioStops
  \/ StartTone \/ StopTone
  \/ EndSession \/ SessionEnds \/ NewSession \/ SessionIsReset \/ Linked
  \/ \E p \in Payloads : AudioData(p)
  \/ ReportUnderrun

CallbackContinues ==
  \/ CheckStreaming
  \/ \E moved \in {0, 1} : PlayFrame(moved)
  \/ AskForBlock \/ FramesFilled
  \/ LoadBlock \/ NothingToLoad \/ Underrun

FramesAskedFor ==
  \E frames \in 1..MaxFrames, rateChanged \in BOOLEAN : CallbackBegins(frames, rateChanged)

Next == Application \/ FramesAskedFor \/ CallbackContinues

Spec == Init /\ [][Next]_vars

(* Neither task stops inside a call; the library need not call again.      *)
Fairness == WF_vars(CallbackContinues)

FairSpec == Spec /\ Fairness

-----------------------------------------------------------------------------
(* Nothing of a stream that has been stopped is played in a later one,     *)
(* past the callback that was running as the later one started: what is    *)
(* loaded is dropped before the next frame, though the application task    *)
(* never touches the cursor (docs/state-machines.md:68).                   *)
OldStreamSilent == (running /\ stale /\ callbackStep = "Idle") => resetPending

(* The ring is a queue of whole packets: none is torn at the end of the    *)
(* ring, mixed with another or read over a boundary, whatever profiles     *)
(* follow each other, and none is read before the prebuffer has been       *)
(* collected.                                                              *)
Whole(p, n) == [k \in 0..(PacketBytes(n) - 1) |-> <<p, k>>]

Waiting ==
  LET length == PacketBytes(channels)
  IN  [i \in 1..(Used \div length) |->
        [k \in 0..(length - 1) |-> buffer[Place((i - 1) * length + k)]]]

Queue == INSTANCE PacketQueue WITH
  Packets <- {Whole(p, n) : p \in Payloads, n \in Channels},
  Prebuffer <- PrebufferBlocks, Silence <- NoBlock,
  open <- running, packets <- Waiting, taken <- block

ImplementsPacketQueue == Queue!Spec

(* A callback returns to the library, whatever is pushed meanwhile.        *)
CallbackEnds == (callbackStep # "Idle") ~> (callbackStep = "Idle")

(* While a stream goes on and the library asks for frames, a good packet   *)
(* is played in the end, whatever bad ones were before it.                 *)
GoodWaiting == \E i \in Places : buffer[i][1] \in Good

StreamHeard ==
  (<>[](running /\ ~tone /\ appStep = "Idle") /\ []<><<FramesAskedFor>>_vars)
  => []<>(loaded \/ ~(primed /\ GoodWaiting))
=============================================================================
