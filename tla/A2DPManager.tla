----------------------------- MODULE A2DPManager -----------------------------
(***************************************************************************)
(* The connection life cycle of the A2DP source: A2DPManager and its       *)
(* adapter A2DPSourceAdapter, the commands the dispatcher forwards to      *)
(* them, and the ESP32-A2DP library they drive.                            *)
(*                                                                         *)
(* Two contexts share the state.  The application task runs update(), a    *)
(* fixed sequence of phases; pc names the phase it is about to run, and    *)
(* commands are executed between two updates, at "Idle".  The library's    *)
(* tasks run the callbacks at any moment between two phases: they only     *)
(* write the mailboxes mailConnection, mailAudio and mailFound, each a     *)
(* single slot that a later callback overwrites.                           *)
(*                                                                         *)
(* millis() deadlines are abstracted to "running" and "due".               *)
(***************************************************************************)
EXTENDS Integers

CONSTANTS
  Addresses,    \* Classic Bluetooth addresses
  NoAddress,    \* the empty string where an address may be
  MediaRetries  \* config::A2DP_MEDIA_CHECK_RETRIES

ASSUME AddressesAssumption == NoAddress \notin Addresses /\ Addresses # {}
ASSUME RetriesAssumption == MediaRetries \in Nat

MaybeAddress == Addresses \cup {NoAddress}

States    == {"Disconnected", "Connecting", "Connected", "Streaming",
              "Disconnecting"}
Reasons   == {"None", "Disconnect", "ConnectFailed"}
Requests  == {"None", "Address", "Name", "Auto"}
Phases    == {"Idle", "Connect", "Callbacks", "Debounce", "Media", "Timeout"}
Timers    == {"off", "running", "due"}
LinkCallbacks  == {"None", "Disconnected", "Connecting", "Connected"}
AudioCallbacks == {"None", "Started", "Stopped", "Suspended"}
(* Searching: no target yet.  Found: the inquiry met the target and is     *)
(* being stopped.  Ready: the target's address is known.                   *)
LibraryStates  == {"Off", "Searching", "Discovering", "Found", "Ready",
                   "Linked", "Playing"}
Events == {"Connecting", "ClassicFound", "Connected", "AudioStarted",
           "AudioStopped", "Disconnected", "ConnectFailed"}

VARIABLES
  pc,                 \* phase of update() the application task runs next
  state,              \* _state
  shutdownReason,     \* _shutdownReason
  shutdownFallback,   \* _shutdownFallbackName is not empty
  pendingConnection,  \* _pendingConnection
  pendingAddress,     \* _pendingAddress
  connectTimer,       \* _connectStart against A2DP_CONNECT_TIMEOUT_MS
  autoMode,           \* _autoMode
  fallbackAttempted,  \* _fallbackAttempted
  fallbackNamed,      \* _fallbackName is not empty
  targetNamed,        \* _targetName is not empty
  remote,             \* _remoteAddress
  cached,             \* the preference "classic_mac"
  disconnectTimer,    \* _disconnectCandidate, _disconnectSince against
                      \*   A2DP_DISCONNECT_DEBOUNCE_MS
  disconnectHadAudio, \* _disconnectHadAudio
  mediaTimer,         \* _mediaCheckPending, _mediaCheckDue
  mediaAttempts,      \* _mediaAttempts
  tone,               \* _tone
  audioStreaming,     \* _audio.streaming()
  mailConnection,     \* _pendingConnectionState
  mailAudio,          \* _pendingAudioState
  mailFound,          \* _pendingDiscoveredAddress, when its flag is set
  library,            \* the ESP32-A2DP library
  stopPending,        \* A2DPSourceAdapter::_stopPending
  classicUp,          \* BluetoothClassic::_initialized
  \* History: what the host was told and asked for.
  published,          \* the events the latest step handed to the event sink
  hostWants,          \* the last accepted command was a connect
  startsLeft          \* source starts the last accepted connect may still use

lifecycle == <<state, shutdownReason, shutdownFallback>>
request   == <<pendingConnection, pendingAddress>>
fallback  == <<autoMode, fallbackAttempted, fallbackNamed>>
target    == <<targetNamed, remote>>
debounce  == <<disconnectTimer, disconnectHadAudio>>
media     == <<mediaTimer, mediaAttempts>>
playback  == <<tone, audioStreaming>>
mailbox   == <<mailConnection, mailAudio, mailFound>>
source    == <<library, stopPending>>
intents   == <<hostWants, startsLeft>>
vars == <<pc, lifecycle, request, connectTimer, fallback, target, cached,
          debounce, media, playback, mailbox, source, classicUp, published,
          intents>>

TypeOK ==
  /\ pc \in Phases
  /\ state \in States
  /\ shutdownReason \in Reasons
  /\ shutdownFallback \in BOOLEAN
  /\ pendingConnection \in Requests
  /\ pendingAddress \in MaybeAddress
  /\ connectTimer \in Timers
  /\ autoMode \in BOOLEAN
  /\ fallbackAttempted \in BOOLEAN
  /\ fallbackNamed \in BOOLEAN
  /\ targetNamed \in BOOLEAN
  /\ remote \in MaybeAddress
  /\ cached \in MaybeAddress
  /\ disconnectTimer \in Timers
  /\ disconnectHadAudio \in BOOLEAN
  /\ mediaTimer \in Timers
  /\ mediaAttempts \in 0..MediaRetries
  /\ tone \in BOOLEAN
  /\ audioStreaming \in BOOLEAN
  /\ mailConnection \in LinkCallbacks
  /\ mailAudio \in AudioCallbacks
  /\ mailFound \in MaybeAddress
  /\ library \in LibraryStates
  /\ stopPending \in BOOLEAN
  /\ classicUp \in BOOLEAN
  /\ published \in SUBSET Events
  /\ hostWants \in BOOLEAN
  /\ startsLeft \in Int

(* After begin(): nothing connected, a target possibly cached in flash. *)
Init ==
  /\ pc = "Idle"
  /\ state = "Disconnected"
  /\ shutdownReason = "None" /\ shutdownFallback = FALSE
  /\ pendingConnection = "None" /\ pendingAddress = NoAddress
  /\ connectTimer = "off"
  /\ autoMode = FALSE /\ fallbackAttempted = FALSE /\ fallbackNamed = FALSE
  /\ targetNamed = FALSE /\ remote = NoAddress
  /\ cached \in MaybeAddress
  /\ disconnectTimer = "off" /\ disconnectHadAudio = FALSE
  /\ mediaTimer = "off" /\ mediaAttempts = 0
  /\ tone = FALSE /\ audioStreaming = FALSE
  /\ mailConnection = "None" /\ mailAudio = "None" /\ mailFound = NoAddress
  /\ library = "Off" /\ stopPending = FALSE
  /\ classicUp = FALSE
  /\ published = {}
  /\ hostWants = FALSE /\ startsLeft = 0

-----------------------------------------------------------------------------
(* Helpers *)

(* The test in front of startTone and startAudio. *)
MayPlayWhileConnecting == state \in {"Connecting", "Connected", "Streaming"}
MayPlay == state \in {"Connected", "Streaming"}

(* The test in front of connectByAddress, connectByName and connectAuto. *)
MayConnectWhileStopping ==
  /\ state \notin {"Connecting", "Connected", "Streaming"}
  /\ pendingConnection = "None"
MayConnect ==
  /\ state \notin {"Connecting", "Connected", "Streaming"}
  /\ pendingConnection = "None"
  /\ shutdownReason = "None"

(* The name fallback belongs to the automatic connect that armed it. *)
ArmFallback(byAuto) ==
  /\ autoMode' = byAuto /\ fallbackNamed' = byAuto /\ fallbackAttempted' = FALSE

FallbackReady == autoMode /\ ~fallbackAttempted /\ fallbackNamed

Publish(events) == published' = events

(* publishAddressEvent: silent unless the address has its 17 characters. *)
AddressEvents(events, address) == IF address = NoAddress THEN {} ELSE events

(* BluetoothClassic::begin, which the stack may refuse. *)
ClassicBegin == classicUp' \in {classicUp, TRUE}

(* The library's end(): the stack goes down, and the callbacks it causes   *)
(* may or may not be delivered before it returns.                          *)
LibraryEnd ==
  /\ library' = "Off"
  /\ mailConnection' \in {mailConnection} \cup
       (IF library \in {"Linked", "Playing"} THEN {"Disconnected"} ELSE {})
  /\ mailAudio' \in {mailAudio} \cup
       (IF library = "Playing" THEN {"Stopped"} ELSE {})
  /\ UNCHANGED mailFound

(* The library's is_discovery_active(). *)
DiscoveryActive == library \in {"Discovering", "Found"}

(* A2DPSourceAdapter::beginStop: cancel a running inquiry, or end now. *)
BeginStop ==
  IF stopPending
  THEN UNCHANGED <<source, mailbox>>
  ELSE IF DiscoveryActive
       THEN stopPending' = TRUE /\ UNCHANGED <<library, mailbox>>
       ELSE stopPending' = FALSE /\ LibraryEnd

(* A2DPSourceAdapter::finishStop returns false while the inquiry runs. *)
StopNeverFinishes == stopPending
StopUnfinished == stopPending /\ DiscoveryActive

FinishStopWithoutEnd == ~StopUnfinished /\ stopPending' = FALSE
                        /\ UNCHANGED <<library, mailbox>>

FinishStop ==
  /\ ~StopUnfinished
  /\ stopPending' = FALSE
  /\ IF stopPending THEN LibraryEnd ELSE UNCHANGED <<library, mailbox>>

(* beginShutdown, reached with a reason and, when the cached address       *)
(* failed, with the name to fall back to.                                  *)
BeginShutdown(reason, withFallback) ==
  IF shutdownReason # "None"
  THEN UNCHANGED <<lifecycle, connectTimer, debounce, mediaTimer, request,
                   playback, source, mailbox>>
  ELSE /\ shutdownReason' = reason
       /\ shutdownFallback' = withFallback
       /\ state' = "Disconnecting"
       /\ connectTimer' = "off"
       /\ disconnectTimer' = "off" /\ disconnectHadAudio' = FALSE
       /\ mediaTimer' = "off"
       /\ pendingConnection' = "None" /\ pendingAddress' = NoAddress
       /\ audioStreaming' = FALSE /\ tone' = FALSE
       /\ BeginStop

-----------------------------------------------------------------------------
(* Commands, executed by the application task between two updates. *)

Command == pc = "Idle" /\ UNCHANGED pc

AcceptConnect(kind, address, starts) ==
  /\ Command
  /\ MayConnect
  /\ pendingConnection' = kind
  /\ pendingAddress' = address
  /\ hostWants' = TRUE
  /\ startsLeft' = starts
  /\ published' = {}
  /\ UNCHANGED <<lifecycle, connectTimer, target, cached, debounce, media,
                 playback, mailbox, source, classicUp>>

ConnectByAddress ==
  \E address \in Addresses :
    AcceptConnect("Address", address, 1) /\ UNCHANGED fallback

ConnectByName == AcceptConnect("Name", NoAddress, 1) /\ UNCHANGED fallback

(* With a cached address the fallback is armed when the command is queued. *)
ConnectAutoCached ==
  /\ cached # NoAddress
  /\ AcceptConnect("Auto", cached, 2)
  /\ ArmFallback(TRUE)

ConnectAutoByName ==
  /\ cached = NoAddress
  /\ AcceptConnect("Auto", NoAddress, 1)
  /\ UNCHANGED fallback

(* disconnect(): cancels a queued connect, does nothing when there is      *)
(* nothing to stop, and starts a shutdown otherwise.                       *)
CancelQueued ==
  /\ pendingConnection # "None"
  /\ pendingConnection' = "None" /\ pendingAddress' = NoAddress
  /\ UNCHANGED <<lifecycle, connectTimer, debounce, mediaTimer, playback,
                 source, mailbox>>

NothingToStop ==
  /\ pendingConnection = "None"
  /\ shutdownReason # "None" \/ state = "Disconnected"
  /\ UNCHANGED <<lifecycle, connectTimer, debounce, mediaTimer, request,
                 playback, source, mailbox>>

StopSession ==
  /\ pendingConnection = "None"
  /\ shutdownReason = "None" /\ state # "Disconnected"
  /\ BeginShutdown("Disconnect", FALSE)

Disconnect ==
  /\ Command
  /\ CancelQueued \/ NothingToStop \/ StopSession
  /\ hostWants' = FALSE
  /\ published' = {}
  /\ UNCHANGED <<fallback, target, cached, mediaAttempts, classicUp, startsLeft>>

PlaybackCommand ==
  /\ Command
  /\ published' = {}
  /\ UNCHANGED <<lifecycle, request, connectTimer, fallback, target, cached,
                 debounce, media, mailbox, source, classicUp, intents>>

StartTone == PlaybackCommand /\ MayPlay /\ tone' = TRUE /\ UNCHANGED audioStreaming
StopTone == PlaybackCommand /\ tone' = FALSE /\ UNCHANGED audioStreaming
StartAudio == PlaybackCommand /\ MayPlay /\ tone' = FALSE /\ audioStreaming' = TRUE
StopAudio == PlaybackCommand /\ audioStreaming' = FALSE /\ UNCHANGED tone

ClearCache ==
  /\ Command
  /\ cached' = NoAddress
  /\ published' = {}
  /\ UNCHANGED <<lifecycle, request, connectTimer, fallback, target, debounce,
                 media, playback, mailbox, source, classicUp, intents>>

(* The dispatcher's BluetoothInit has no A2DP test; BluetoothGetInfo       *)
(* refuses while A2DP is active or connecting.                             *)
BluetoothCommand ==
  /\ Command
  /\ ClassicBegin
  /\ published' = {}
  /\ UNCHANGED <<lifecycle, request, connectTimer, fallback, target, cached,
                 debounce, media, playback, mailbox, source, intents>>

BluetoothInit == BluetoothCommand
BluetoothGetInfo == state \notin {"Connecting", "Connected", "Streaming"}
                    /\ BluetoothCommand

-----------------------------------------------------------------------------
(* update(), phase by phase. *)

(* processShutdown keeps update() from going on while a shutdown waits. *)
NoShutdown == shutdownReason = "None"

UpdateBegins ==
  /\ pc = "Idle"
  /\ NoShutdown
  /\ pc' = "Connect"
  /\ published' = {}
  /\ UNCHANGED <<lifecycle, request, connectTimer, fallback, target, cached,
                 debounce, media, playback, mailbox, source, classicUp, intents>>

(* processShutdown once the source has stopped: Classic comes back before  *)
(* the outcome is published or the name fallback is queued.                *)
FinishShutdown ==
  /\ pc = "Idle"
  /\ shutdownReason # "None"
  /\ FinishStop
  /\ ClassicBegin
  /\ shutdownReason' = "None" /\ shutdownFallback' = FALSE
  /\ state' = "Disconnected"
  /\ connectTimer' = "off"
  /\ disconnectTimer' = "off" /\ disconnectHadAudio' = FALSE
  /\ audioStreaming' = FALSE
  /\ IF shutdownFallback
     THEN /\ autoMode' = FALSE /\ fallbackAttempted' = TRUE
          /\ pendingConnection' = "Name" /\ pendingAddress' = NoAddress
          /\ Publish({})
     ELSE /\ UNCHANGED <<fallbackAttempted, request>>
          /\ IF shutdownReason = "Disconnect"
             THEN /\ Publish(AddressEvents({"Disconnected"}, remote))
                  /\ UNCHANGED autoMode
             ELSE Publish({"ConnectFailed"}) /\ autoMode' = FALSE
  /\ UNCHANGED <<pc, fallbackNamed, target, cached, media, tone,
                 hostWants, startsLeft>>

(* processPendingConnection: suspend Classic, reset the runtime state,     *)
(* start the source.  The adapter's start never fails.                     *)
StartSource(address, byAuto) ==
  /\ classicUp' = FALSE
  /\ mailConnection' = "None" /\ mailAudio' = "None" /\ mailFound' = NoAddress
  /\ disconnectTimer' = "off" /\ disconnectHadAudio' = FALSE
  /\ mediaTimer' = "off" /\ mediaAttempts' = 0
  /\ tone' = FALSE /\ audioStreaming' = FALSE
  /\ shutdownReason' = "None" /\ shutdownFallback' = FALSE
  /\ pendingConnection' = "None" /\ pendingAddress' = NoAddress
  /\ remote' = address
  /\ targetNamed' = (byAuto \/ address = NoAddress)
  /\ ArmFallback(byAuto)
  /\ library' = IF address = NoAddress THEN "Searching" ELSE "Ready"
  /\ stopPending' = FALSE
  /\ state' = "Connecting" /\ connectTimer' = "running"
  /\ startsLeft' = startsLeft - 1

ProcessPendingConnection ==
  /\ pc = "Connect"
  /\ pc' = "Callbacks"
  /\ \/ /\ pendingConnection = "None"
        /\ published' = {}
        /\ UNCHANGED <<lifecycle, request, connectTimer, fallback, target,
                       debounce, media, playback, mailbox, source, classicUp,
                       startsLeft>>
     \/ /\ pendingConnection # "None" /\ pendingAddress # NoAddress
        /\ StartSource(pendingAddress, pendingConnection = "Auto")
        /\ Publish({"Connecting"})
     \/ /\ pendingConnection # "None" /\ pendingAddress = NoAddress
        /\ StartSource(NoAddress, FALSE)
        /\ Publish({})
  /\ UNCHANGED <<cached, hostWants>>

(* applyPendingCallbacks and the publications that follow it.  One critical *)
(* section empties the mailboxes; the audio callback is applied first, the *)
(* link callback second, and a start of audio has the last word.           *)
LinkWas(callback) == mailConnection = callback
AudioWas(callback) == mailAudio = callback

StateAfterAudio ==
  CASE AudioWas("Started") -> "Streaming"
    [] AudioWas("Stopped") /\ ~LinkWas("Disconnected") /\ state = "Streaming"
         -> "Connected"
    [] OTHER -> state

StateAfterCallbacks ==
  IF LinkWas("Connected") /\ ~AudioWas("Started") THEN "Connected"
  ELSE StateAfterAudio

DisconnectTimerAfterCallbacks ==
  IF AudioWas("Started") \/ LinkWas("Connected") THEN "off"
  ELSE IF LinkWas("Disconnected") THEN "running" ELSE disconnectTimer

HadAudioAfterCallbacks ==
  CASE LinkWas("Connected") -> FALSE
    [] LinkWas("Disconnected") ->
         disconnectHadAudio \/ StateAfterAudio = "Streaming"
    [] OTHER -> disconnectHadAudio \/ AudioWas("Started")

ConnectTimerAfterAttempt ==
  IF mailConnection # "None" THEN "off" ELSE connectTimer
ConnectTimerAfterCallbacks ==
  IF LinkWas("Connected") THEN "off" ELSE connectTimer

RemoteAfterCallbacks == IF mailFound = NoAddress THEN remote ELSE mailFound

EventsFromCallbacks ==
  LET When(condition, events) == IF condition THEN events ELSE {}
  IN  When(mailFound # NoAddress, {"ClassicFound", "Connecting"})
      \cup When(LinkWas("Connected"),
                AddressEvents({"Connected"}, RemoteAfterCallbacks))
      \cup When(AudioWas("Started"), {"AudioStarted"})
      \cup When(AudioWas("Stopped"), {"AudioStopped"})

ApplyPendingCallbacks ==
  /\ pc = "Callbacks"
  /\ pc' = "Debounce"
  /\ mailConnection' = "None" /\ mailAudio' = "None" /\ mailFound' = NoAddress
  /\ state' = StateAfterCallbacks
  /\ remote' = RemoteAfterCallbacks
  /\ disconnectTimer' = DisconnectTimerAfterCallbacks
  /\ disconnectHadAudio' = HadAudioAfterCallbacks
  /\ connectTimer' = ConnectTimerAfterCallbacks
  /\ IF LinkWas("Connected")
     THEN /\ mediaTimer' = "running" /\ mediaAttempts' = 0
          /\ cached' = IF remote' = NoAddress THEN cached ELSE remote'
     ELSE /\ UNCHANGED <<mediaAttempts, cached>>
          /\ mediaTimer' = IF AudioWas("Started") THEN "off" ELSE mediaTimer
  /\ Publish(EventsFromCallbacks)
  /\ UNCHANGED <<shutdownReason, shutdownFallback, request, fallback,
                 targetNamed, playback, source, classicUp, hostWants,
                 startsLeft>>

(* A link loss that outlived the debounce ends the session, unless audio   *)
(* had been playing: then the candidate is dropped.                        *)
LossConfirmed == ~disconnectHadAudio /\ state # "Streaming"

DebounceWaits ==
  /\ pc = "Debounce"
  /\ disconnectTimer # "due"
  /\ pc' = "Media"
  /\ published' = {}
  /\ UNCHANGED <<lifecycle, request, connectTimer, fallback, target, cached,
                 debounce, media, playback, mailbox, source, classicUp, intents>>

DebounceDropped ==
  /\ pc = "Debounce"
  /\ disconnectTimer = "due" /\ ~LossConfirmed
  /\ pc' = "Media"
  /\ disconnectTimer' = "off"
  /\ published' = {}
  /\ UNCHANGED <<lifecycle, request, connectTimer, fallback, target, cached,
                 disconnectHadAudio, media, playback, mailbox, source,
                 classicUp, intents>>

DebounceEndsSession ==
  /\ pc = "Debounce"
  /\ disconnectTimer = "due" /\ LossConfirmed
  /\ pc' = "Idle"
  /\ BeginShutdown(IF FallbackReady THEN "ConnectFailed" ELSE "Disconnect",
                   FallbackReady)
  /\ fallbackAttempted' = (fallbackAttempted \/ FallbackReady)
  /\ autoMode' = FALSE
  /\ published' = {}
  /\ UNCHANGED <<fallbackNamed, target, cached, mediaAttempts, classicUp,
                 intents>>

(* The media check asks the stack whether the source is ready; an error is *)
(* retried after a second, MediaRetries times.                             *)
MediaRetriesLeft == mediaAttempts < MediaRetries

MediaCheckDue == mediaTimer = "due" /\ state = "Connected"

MediaCheck ==
  /\ pc = "Media"
  /\ pc' = "Timeout"
  /\ IF ~MediaCheckDue
     THEN UNCHANGED media
     ELSE \/ mediaTimer' = "off" /\ UNCHANGED mediaAttempts
          \/ /\ MediaRetriesLeft
             /\ mediaTimer' = "running" /\ mediaAttempts' = mediaAttempts + 1
  /\ published' = {}
  /\ UNCHANGED <<lifecycle, request, connectTimer, fallback, target, cached,
                 debounce, playback, mailbox, source, classicUp, intents>>

ConnectTimedOut == state = "Connecting" /\ connectTimer = "due"

ConnectInTime ==
  /\ pc = "Timeout"
  /\ ~ConnectTimedOut
  /\ pc' = "Idle"
  /\ published' = {}
  /\ UNCHANGED <<lifecycle, request, connectTimer, fallback, target, cached,
                 debounce, media, playback, mailbox, source, classicUp, intents>>

ConnectTimeout ==
  /\ pc = "Timeout"
  /\ ConnectTimedOut
  /\ pc' = "Idle"
  /\ BeginShutdown("ConnectFailed", FallbackReady)
  /\ fallbackAttempted' = (fallbackAttempted \/ FallbackReady)
  /\ autoMode' = (autoMode /\ ~FallbackReady)
  /\ published' = {}
  /\ UNCHANGED <<fallbackNamed, target, cached, mediaAttempts, classicUp,
                 intents>>

Update ==
  \/ UpdateBegins \/ FinishShutdown \/ ProcessPendingConnection
  \/ ApplyPendingCallbacks
  \/ DebounceWaits \/ DebounceDropped \/ DebounceEndsSession
  \/ MediaCheck \/ ConnectInTime \/ ConnectTimeout

-----------------------------------------------------------------------------
(* The environment: the library's own task, and time. *)

LibraryOnly ==
  /\ published' = {}
  /\ UNCHANGED <<pc, lifecycle, request, connectTimer, fallback, target, cached,
                 debounce, media, playback, stopPending, classicUp, intents>>

(* The inquiry that looks for a target by name.  It is not started again   *)
(* once the adapter has cancelled it.                                      *)
DiscoveryStarts ==
  /\ library \in {"Searching", "Ready"} /\ targetNamed /\ ~stopPending
  /\ library' = "Discovering"
  /\ LibraryOnly /\ UNCHANGED mailbox

(* nameSelector: the inquiry met a device that bears the target's name. *)
NameSelector ==
  /\ library = "Discovering" /\ targetNamed
  /\ library' = "Found"
  /\ \E address \in Addresses : mailFound' = address
  /\ LibraryOnly /\ UNCHANGED <<mailConnection, mailAudio>>

DiscoveryStops ==
  /\ DiscoveryActive
  /\ library' = IF library = "Found" THEN "Ready" ELSE "Searching"
  /\ LibraryOnly /\ UNCHANGED mailbox

(* handleConnection and handleAudio overwrite their mailbox. *)
HandleConnection(from, to, callback) ==
  /\ library \in from
  /\ library' = to
  /\ mailConnection' = callback
  /\ LibraryOnly /\ UNCHANGED <<mailAudio, mailFound>>

LinkAttempt == HandleConnection({"Ready"}, "Ready", "Connecting")
LinkUp      == HandleConnection({"Ready"}, "Linked", "Connected")
LinkDown    == HandleConnection({"Ready", "Linked", "Playing"}, "Ready",
                                "Disconnected")

HandleAudio(from, to, callback) ==
  /\ library = from
  /\ library' = to
  /\ mailAudio' = callback
  /\ LibraryOnly /\ UNCHANGED <<mailConnection, mailFound>>

AudioStarts    == HandleAudio("Linked", "Playing", "Started")
AudioStops     == HandleAudio("Playing", "Linked", "Stopped")
AudioSuspends  == HandleAudio("Playing", "Linked", "Suspended")

Library ==
  \/ DiscoveryStarts \/ DiscoveryStops \/ NameSelector
  \/ LinkAttempt \/ LinkUp \/ LinkDown
  \/ AudioStarts \/ AudioStops \/ AudioSuspends

Elapse(timer) == timer = "running" /\ timer' = "due"

ClockOnly ==
  /\ published' = {}
  /\ UNCHANGED <<pc, lifecycle, request, fallback, target, cached,
                 disconnectHadAudio, mediaAttempts, playback, mailbox, source,
                 classicUp, intents>>

ConnectClock == Elapse(connectTimer) /\ ClockOnly
                /\ UNCHANGED <<disconnectTimer, mediaTimer>>
DebounceClock == Elapse(disconnectTimer) /\ ClockOnly
                 /\ UNCHANGED <<connectTimer, mediaTimer>>
MediaClock == Elapse(mediaTimer) /\ ClockOnly
              /\ UNCHANGED <<connectTimer, disconnectTimer>>

Clock == ConnectClock \/ DebounceClock \/ MediaClock

Commands ==
  \/ ConnectByAddress \/ ConnectByName
  \/ ConnectAutoCached \/ ConnectAutoByName \/ Disconnect
  \/ StartTone \/ StopTone \/ StartAudio \/ StopAudio
  \/ ClearCache \/ BluetoothInit \/ BluetoothGetInfo

Next == Commands \/ Update \/ Library \/ Clock

Spec == Init /\ [][Next]_vars

(* loop() calls update() for ever, time passes, and a cancelled inquiry    *)
(* ends.  Nothing else the library or the host does is guaranteed.         *)
Fairness ==
  /\ WF_vars(Update)
  /\ WF_vars(ConnectClock) /\ WF_vars(DebounceClock) /\ WF_vars(MediaClock)
  /\ WF_vars(DiscoveryStops)

FairSpec == Spec /\ Fairness

-----------------------------------------------------------------------------
(* Safety. *)

(* A queued connect, the host's or the name fallback's, waits alone: no    *)
(* session, no shutdown in progress, and the source stack already down.    *)
QueuedWaitsAlone ==
  pendingConnection # "None" => /\ state = "Disconnected"
                                /\ shutdownReason = "None"
                                /\ library = "Off"

(* The library never runs behind a manager that believes to be             *)
(* disconnected: nobody would ever call end() on it.                       *)
NoOrphanSource == library # "Off" => state # "Disconnected"

(* When the host reads A2DP_DISCONNECTED or A2DP_CONNECT_FAILED the source *)
(* has been stopped: a new connect is accepted and starts a fresh stack.   *)
OutcomeAfterCleanup ==
  published \cap {"Disconnected", "ConnectFailed"} # {}
    => library = "Off" /\ ~stopPending /\ shutdownReason = "None"

(* Outside Connected and Streaming neither the tone nor the PC audio       *)
(* stream is on, however commands, callbacks and timeouts interleaved: the *)
(* next session starts silent.                                             *)
SilentWithoutLink ==
  state \notin {"Connected", "Streaming"} => ~tone /\ ~audioStreaming

(* One accepted connect starts the source at most once, or twice when it   *)
(* is automatic and has a cached address to fall back from: fallbacks do   *)
(* not repeat, and an earlier command's fallback is not inherited.         *)
StartsWithinBudget == startsLeft >= 0

(* What holds of a session in every state, over stale callbacks, cancelled *)
(* inquiries and fallbacks.                                                *)
SessionInvariant ==
  TypeOK /\ QueuedWaitsAlone /\ NoOrphanSource /\ StartsWithinBudget

-----------------------------------------------------------------------------
(* The session the manager runs, as A2DPSession sees it. *)

SessionPhase ==
  IF shutdownReason # "None" THEN "Stopping"
  ELSE IF pendingConnection # "None" THEN "Queued"
  ELSE IF library # "Off" THEN "Running" ELSE "Idle"

Session == INSTANCE A2DPSession WITH phase <- SessionPhase, budget <- startsLeft

(* Every step of the manager is a step of A2DPSession: no start without a  *)
(* queued and paid request, no request beside a session, no session left   *)
(* otherwise than through a shutdown.                                      *)
ImplementsSession == Session!Spec

(* And, under FairSpec, queued requests start or are cancelled, and        *)
(* shutdowns finish.                                                       *)
ImplementsFairSession == Session!FairSpec

-----------------------------------------------------------------------------
(* Liveness, under FairSpec. *)

(* No attempt hangs in Connecting, whatever callbacks come or are lost. *)
ConnectingEnds == state = "Connecting" ~> state # "Connecting"

-----------------------------------------------------------------------------
(* What the documents say and the code does not do. *)

(* docs/state-machines.md: explicit disconnect is deterministic.  Once the *)
(* host has disconnected, no source starts before it connects again.       *)
DisconnectSticks ==
  [][library = "Off" /\ library' # "Off" => hostWants]_vars

=============================================================================
