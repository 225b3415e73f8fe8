-------------------------- MODULE A2DPManagerProofs --------------------------
(***************************************************************************)
(* Proofs about A2DPManager, for every set of addresses and every number   *)
(* of media retries: type correctness, the inductive invariant Owner and   *)
(* the safety properties that follow from it, and that every step          *)
(* implements A2DPSession.                                                 *)
(***************************************************************************)
EXTENDS A2DPManager, TLAPS

(* The phases of update() after processShutdown run without a shutdown, and *)
(* those after processPendingConnection without a queued request.          *)
PhaseFacts ==
  /\ pc # "Idle" => shutdownReason = "None"
  /\ pc \notin {"Idle", "Connect"} => pendingConnection = "None"

(* While a shutdown waits, either the adapter still owes the library its   *)
(* end(), or the library is off already; outside a shutdown nothing is     *)
(* owed and a running library belongs to a state other than Disconnected.  *)
SourceFacts ==
  /\ stopPending => shutdownReason # "None"
  /\ library # "Off" /\ shutdownReason # "None" => stopPending
  /\ library # "Off" => state # "Disconnected"

(* The starts that may still happen are paid for. *)
BudgetFacts ==
  /\ startsLeft >= 0
  /\ shutdownFallback => shutdownReason # "None" /\ ~autoMode
  /\ IF pendingConnection # "None"
     THEN startsLeft >= IF pendingConnection = "Auto" /\ pendingAddress # NoAddress
                        THEN 2 ELSE 1
     ELSE FallbackReady \/ shutdownFallback => startsLeft >= 1

(* Disconnecting and the shutdown reason are two records of one fact: the  *)
(* state is Disconnecting exactly while processShutdown has work to do, so *)
(* no callback applied meanwhile can make the session look alive again.    *)
ShutdownOwnsState == state = "Disconnecting" <=> shutdownReason # "None"

(* Every attempt is under a running timeout. *)
ConnectingIsTimed == state = "Connecting" => connectTimer # "off"

Owner ==
  /\ PhaseFacts
  /\ ShutdownOwnsState
  /\ QueuedWaitsAlone
  /\ SourceFacts
  /\ SilentWithoutLink
  /\ ConnectingIsTimed
  /\ BudgetFacts

-----------------------------------------------------------------------------
(* The tuples that UNCHANGED names, and the sets the type invariant uses. *)
USE AddressesAssumption, RetriesAssumption
USE DEF vars, lifecycle, request, fallback, target, debounce, media, playback,
        mailbox, source, intents, MaybeAddress

(* Types survive the operators that several actions share. *)
LEMMA LibraryEndType ==
  ASSUME TypeOK, LibraryEnd
  PROVE  /\ library' \in LibraryStates
         /\ mailConnection' \in LinkCallbacks
         /\ mailAudio' \in AudioCallbacks
         /\ mailFound' \in MaybeAddress
  BY DEF TypeOK, LibraryEnd, LibraryStates, LinkCallbacks, AudioCallbacks

LEMMA BeginStopType ==
  ASSUME TypeOK, BeginStop
  PROVE  /\ library' \in LibraryStates /\ stopPending' \in BOOLEAN
         /\ mailConnection' \in LinkCallbacks
         /\ mailAudio' \in AudioCallbacks
         /\ mailFound' \in MaybeAddress
<1>1. stopPending' \in BOOLEAN
  BY Zenon DEF TypeOK, BeginStop
<1>2. LibraryEnd \/ UNCHANGED <<library, mailbox>>
  BY Zenon DEF BeginStop
<1> QED
  BY <1>1, <1>2, LibraryEndType DEF TypeOK

LEMMA BeginShutdownType ==
  ASSUME TypeOK, NEW reason \in Reasons, NEW withFallback \in BOOLEAN,
         BeginShutdown(reason, withFallback)
  PROVE  /\ state' \in States /\ shutdownReason' \in Reasons
         /\ shutdownFallback' \in BOOLEAN
         /\ connectTimer' \in Timers
         /\ disconnectTimer' \in Timers /\ disconnectHadAudio' \in BOOLEAN
         /\ mediaTimer' \in Timers
         /\ pendingConnection' \in Requests /\ pendingAddress' \in MaybeAddress
         /\ tone' \in BOOLEAN /\ audioStreaming' \in BOOLEAN
         /\ library' \in LibraryStates /\ stopPending' \in BOOLEAN
         /\ mailConnection' \in LinkCallbacks
         /\ mailAudio' \in AudioCallbacks
         /\ mailFound' \in MaybeAddress
<1>1. CASE shutdownReason # "None"
  BY <1>1, Zenon DEF TypeOK, BeginShutdown
<1>2. CASE shutdownReason = "None"
  <2>1. /\ disconnectHadAudio' \in BOOLEAN
        /\ tone' \in BOOLEAN /\ audioStreaming' \in BOOLEAN
    BY <1>2, Zenon DEF BeginShutdown
  <2>2. BeginStop
    BY <1>2 DEF BeginShutdown
  <2>3. /\ state' \in States /\ shutdownReason' \in Reasons
        /\ shutdownFallback' \in BOOLEAN
        /\ connectTimer' \in Timers /\ disconnectTimer' \in Timers
        /\ mediaTimer' \in Timers
        /\ pendingConnection' \in Requests /\ pendingAddress' \in MaybeAddress
    BY <1>2, Zenon DEF BeginShutdown, States, Timers, Requests
  <2> QED
    BY <2>1, <2>2, <2>3, BeginStopType
<1> QED
  BY <1>1, <1>2

LEMMA CommandsType == TypeOK /\ Commands => TypeOK'
<1> SUFFICES ASSUME TypeOK, Commands PROVE TypeOK'
  OBVIOUS
<1> USE DEF TypeOK, Command
<1>1. CASE ConnectByAddress
  BY <1>1 DEF ConnectByAddress, AcceptConnect, Requests
<1>2. CASE ConnectByName
  BY <1>2 DEF ConnectByName, AcceptConnect, Requests
<1>3. CASE ConnectAutoCached
  <2>1. /\ autoMode' \in BOOLEAN /\ fallbackNamed' \in BOOLEAN
        /\ fallbackAttempted' \in BOOLEAN
    BY <1>3, Zenon DEF ConnectAutoCached, ArmFallback
  <2> QED
    BY <1>3, <2>1 DEF ConnectAutoCached, AcceptConnect, Requests
<1>4. CASE ConnectAutoByName
  BY <1>4 DEF ConnectAutoByName, AcceptConnect, Requests
<1>5. CASE Disconnect
  <2>0. hostWants' \in BOOLEAN
    BY <1>5, Zenon DEF Disconnect
  <2>1. CASE CancelQueued
    BY <1>5, <2>0, <2>1 DEF Disconnect, CancelQueued, Requests
  <2>2. CASE NothingToStop
    BY <1>5, <2>0, <2>2 DEF Disconnect, NothingToStop
  <2>3. CASE StopSession
    BY <1>5, <2>0, <2>3, BeginShutdownType DEF Disconnect, StopSession, Reasons
  <2> QED
    BY <1>5, <2>1, <2>2, <2>3 DEF Disconnect
<1>6. CASE StartTone \/ StopTone \/ StartAudio \/ StopAudio
  <2>1. tone' \in BOOLEAN /\ audioStreaming' \in BOOLEAN
    BY <1>6, Zenon DEF StartTone, StopTone, StartAudio, StopAudio
  <2>2. PlaybackCommand
    BY <1>6 DEF StartTone, StopTone, StartAudio, StopAudio
  <2> QED
    BY <2>1, <2>2 DEF PlaybackCommand
<1>7. CASE ClearCache
  BY <1>7 DEF ClearCache
<1>8. CASE BluetoothInit \/ BluetoothGetInfo
  <2>1. BluetoothCommand
    BY <1>8 DEF BluetoothInit, BluetoothGetInfo
  <2>2. classicUp' \in BOOLEAN
    BY <2>1, Zenon DEF BluetoothCommand, ClassicBegin
  <2> QED
    BY <2>1, <2>2 DEF BluetoothCommand
<1> QED
  BY <1>1, <1>2, <1>3, <1>4, <1>5, <1>6, <1>7, <1>8 DEF Commands

LEMMA UpdateType == TypeOK /\ Update => TypeOK'
<1> SUFFICES ASSUME TypeOK, Update PROVE TypeOK'
  OBVIOUS
<1> USE DEF TypeOK, Phases
<1>1. CASE UpdateBegins
  BY <1>1 DEF UpdateBegins
<1>2. CASE FinishShutdown
  <2>1. library' \in LibraryStates /\ stopPending' \in BOOLEAN
        /\ mailConnection' \in LinkCallbacks /\ mailAudio' \in AudioCallbacks
        /\ mailFound' \in MaybeAddress
    <3>1. stopPending' \in BOOLEAN
      BY <1>2, Zenon DEF FinishShutdown, FinishStop
    <3>2. LibraryEnd \/ UNCHANGED <<library, mailbox>>
      BY <1>2, Zenon DEF FinishShutdown, FinishStop
    <3> QED
      BY <3>1, <3>2, LibraryEndType
  <2>2. /\ audioStreaming' \in BOOLEAN /\ classicUp' \in BOOLEAN
        /\ shutdownFallback' \in BOOLEAN
        /\ autoMode' \in BOOLEAN /\ fallbackAttempted' \in BOOLEAN
        /\ disconnectHadAudio' \in BOOLEAN
    BY <1>2, Zenon DEF FinishShutdown, ClassicBegin, Publish
  <2>3. /\ state' \in States /\ shutdownReason' \in Reasons
        /\ connectTimer' \in Timers /\ disconnectTimer' \in Timers
        /\ pendingConnection' \in Requests /\ pendingAddress' \in MaybeAddress
    BY <1>2 DEF FinishShutdown, States, Reasons, Timers, Requests
  <2>4. published' \in SUBSET Events
    BY <1>2 DEF FinishShutdown, Publish, AddressEvents, Events
  <2> QED
    BY <1>2, <2>1, <2>2, <2>3, <2>4 DEF FinishShutdown
<1>3. CASE ProcessPendingConnection
  <2>1. CASE pendingConnection = "None"
    BY <1>3, <2>1 DEF ProcessPendingConnection
  <2>2. CASE pendingConnection # "None"
    <3>1. PICK byAuto \in BOOLEAN :
            /\ StartSource(pendingAddress, byAuto)
            /\ published' \in {{}, {"Connecting"}}
      BY <1>3, <2>2, Zenon DEF ProcessPendingConnection, Publish
    <3>2. /\ classicUp' \in BOOLEAN /\ disconnectHadAudio' \in BOOLEAN
          /\ tone' \in BOOLEAN /\ audioStreaming' \in BOOLEAN
          /\ shutdownFallback' \in BOOLEAN /\ targetNamed' \in BOOLEAN
          /\ autoMode' \in BOOLEAN /\ fallbackNamed' \in BOOLEAN
          /\ fallbackAttempted' \in BOOLEAN /\ stopPending' \in BOOLEAN
      BY <3>1, Zenon DEF StartSource, ArmFallback
    <3>3. /\ state' \in States /\ shutdownReason' \in Reasons
          /\ connectTimer' \in Timers /\ disconnectTimer' \in Timers
          /\ mediaTimer' \in Timers
          /\ pendingConnection' \in Requests /\ pendingAddress' \in MaybeAddress
          /\ remote' \in MaybeAddress /\ mailFound' \in MaybeAddress
          /\ library' \in LibraryStates
          /\ mailConnection' \in LinkCallbacks /\ mailAudio' \in AudioCallbacks
      BY <3>1 DEF StartSource, States, Reasons, Timers, Requests, LibraryStates,
                  LinkCallbacks, AudioCallbacks
    <3>4. mediaAttempts' \in 0..MediaRetries /\ startsLeft' \in Int
      BY <3>1 DEF StartSource
    <3>5. published' \in SUBSET Events
      BY <3>1 DEF Events
    <3> QED
      BY <1>3, <3>1, <3>2, <3>3, <3>4, <3>5 DEF ProcessPendingConnection
  <2> QED
    BY <2>1, <2>2
<1>4. CASE ApplyPendingCallbacks
  <2>1. state' \in States
    BY <1>4 DEF ApplyPendingCallbacks, StateAfterCallbacks, StateAfterAudio, States
  <2>2. disconnectTimer' \in Timers /\ connectTimer' \in Timers
        /\ mediaTimer' \in Timers
    BY <1>4 DEF ApplyPendingCallbacks, DisconnectTimerAfterCallbacks,
                ConnectTimerAfterCallbacks, Timers
  <2>3. disconnectHadAudio' \in BOOLEAN
    BY <1>4, Zenon DEF ApplyPendingCallbacks, HadAudioAfterCallbacks, Publish
  <2>4. remote' \in MaybeAddress
    BY <1>4 DEF ApplyPendingCallbacks, RemoteAfterCallbacks
  <2>5. cached' \in MaybeAddress
    BY <1>4, <2>4 DEF ApplyPendingCallbacks
  <2>6. mediaAttempts' \in 0..MediaRetries
    BY <1>4 DEF ApplyPendingCallbacks
  <2>7. published' \in SUBSET Events
    BY <1>4 DEF ApplyPendingCallbacks, Publish, EventsFromCallbacks,
                AddressEvents, Events
  <2>8. mailConnection' \in LinkCallbacks /\ mailAudio' \in AudioCallbacks
        /\ mailFound' \in MaybeAddress
    BY <1>4 DEF ApplyPendingCallbacks, LinkCallbacks, AudioCallbacks
  <2> QED
    BY <1>4, <2>1, <2>2, <2>3, <2>4, <2>5, <2>6, <2>7, <2>8
       DEF ApplyPendingCallbacks
<1>5. CASE DebounceWaits \/ DebounceDropped
  BY <1>5 DEF DebounceWaits, DebounceDropped, Timers
<1>6. CASE DebounceEndsSession
  <2>1. PICK reason \in Reasons, withFallback \in BOOLEAN :
          BeginShutdown(reason, withFallback)
    <3>1. FallbackReady \in BOOLEAN
      BY Zenon DEF FallbackReady
    <3> QED
      BY <1>6, <3>1 DEF DebounceEndsSession, Reasons
  <2>2. autoMode' \in BOOLEAN /\ fallbackAttempted' \in BOOLEAN
    BY <1>6, Zenon DEF DebounceEndsSession, FallbackReady
  <2> QED
    BY <1>6, <2>1, <2>2, BeginShutdownType DEF DebounceEndsSession
<1>7. CASE MediaCheck
  <2>1. mediaTimer' \in Timers
    BY <1>7 DEF MediaCheck, Timers
  <2>2. mediaAttempts' \in 0..MediaRetries
    BY <1>7 DEF MediaCheck, MediaRetriesLeft
  <2> QED
    BY <1>7, <2>1, <2>2 DEF MediaCheck
<1>8. CASE ConnectInTime
  BY <1>8 DEF ConnectInTime
<1>9. CASE ConnectTimeout
  <2>1. PICK reason \in Reasons, withFallback \in BOOLEAN :
          BeginShutdown(reason, withFallback)
    <3>1. FallbackReady \in BOOLEAN
      BY Zenon DEF FallbackReady
    <3> QED
      BY <1>9, <3>1 DEF ConnectTimeout, Reasons
  <2>2. autoMode' \in BOOLEAN /\ fallbackAttempted' \in BOOLEAN
    BY <1>9, Zenon DEF ConnectTimeout, FallbackReady
  <2> QED
    BY <1>9, <2>1, <2>2, BeginShutdownType DEF ConnectTimeout
<1> QED
  BY <1>1, <1>2, <1>3, <1>4, <1>5, <1>6, <1>7, <1>8, <1>9 DEF Update

LEMMA LibraryType == TypeOK /\ Library => TypeOK'
<1> SUFFICES ASSUME TypeOK, Library PROVE TypeOK'
  OBVIOUS
<1> USE DEF TypeOK, LibraryOnly
<1>1. CASE DiscoveryStarts \/ DiscoveryStops
  BY <1>1 DEF DiscoveryStarts, DiscoveryStops, LibraryStates
<1>2. CASE NameSelector
  BY <1>2 DEF NameSelector, LibraryStates
<1>3. CASE LinkAttempt \/ LinkUp \/ LinkDown
  BY <1>3 DEF LinkAttempt, LinkUp, LinkDown, HandleConnection, LibraryStates,
              LinkCallbacks
<1>4. CASE AudioStarts \/ AudioStops \/ AudioSuspends
  BY <1>4 DEF AudioStarts, AudioStops, AudioSuspends, HandleAudio,
              LibraryStates, AudioCallbacks
<1> QED
  BY <1>1, <1>2, <1>3, <1>4 DEF Library

LEMMA ClockType == TypeOK /\ Clock => TypeOK'
  BY DEF TypeOK, Clock, ConnectClock, DebounceClock, MediaClock, ClockOnly,
         Elapse, Timers

(* Types are preserved for every set of addresses and every retry limit;   *)
(* in particular the media retry counter never passes its limit.           *)
THEOREM TypeCorrect == Spec => []TypeOK
<1>1. Init => TypeOK
  <2> SUFFICES ASSUME Init PROVE TypeOK
    OBVIOUS
  <2>1. mediaAttempts \in 0..MediaRetries /\ startsLeft \in Int
    BY DEF Init
  <2> QED
    BY <2>1, Zenon DEF Init, TypeOK, Phases, States, Reasons, Requests, Timers,
       LinkCallbacks, AudioCallbacks, LibraryStates
<1>2. TypeOK /\ [Next]_vars => TypeOK'
  <2>1. TypeOK /\ UNCHANGED vars => TypeOK'
    BY DEF TypeOK
  <2> QED
    BY <2>1, CommandsType, UpdateType, LibraryType, ClockType DEF Next
<1> QED
  BY <1>1, <1>2, PTL DEF Spec

-----------------------------------------------------------------------------
(* Owner is inductive. *)
USE DEF Owner, PhaseFacts, ShutdownOwnsState, QueuedWaitsAlone, SourceFacts,
        SilentWithoutLink, ConnectingIsTimed, BudgetFacts

LEMMA OwnerCommands == TypeOK /\ Owner /\ Commands => Owner'
<1> SUFFICES ASSUME TypeOK, Owner, Commands PROVE Owner'
  OBVIOUS
<1> startsLeft \in Int /\ pendingAddress \in MaybeAddress /\ state \in States
  BY DEF TypeOK
<1> USE DEF Command, AcceptConnect, MayConnect, FallbackReady, States
<1>1. CASE ConnectByAddress
  BY <1>1 DEF ConnectByAddress
<1>2. CASE ConnectByName
  BY <1>2 DEF ConnectByName
<1>3. CASE ConnectAutoCached
  BY <1>3 DEF ConnectAutoCached, ArmFallback
<1>4. CASE ConnectAutoByName
  BY <1>4 DEF ConnectAutoByName
<1>5. CASE Disconnect
  <2>1. CASE CancelQueued
    BY <1>5, <2>1 DEF Disconnect, CancelQueued
  <2>2. CASE NothingToStop
    BY <1>5, <2>2 DEF Disconnect, NothingToStop
  <2>3. CASE StopSession
    BY <1>5, <2>3 DEF Disconnect, StopSession, BeginShutdown, BeginStop,
                      LibraryEnd
  <2> QED
    BY <1>5, <2>1, <2>2, <2>3 DEF Disconnect
<1>6. CASE StartTone \/ StopTone \/ StartAudio \/ StopAudio
  BY <1>6 DEF StartTone, StopTone, StartAudio, StopAudio, PlaybackCommand,
              MayPlay
<1>7. CASE ClearCache
  BY <1>7 DEF ClearCache
<1>8. CASE BluetoothInit \/ BluetoothGetInfo
  BY <1>8 DEF BluetoothInit, BluetoothGetInfo, BluetoothCommand
<1> QED
  BY <1>1, <1>2, <1>3, <1>4, <1>5, <1>6, <1>7, <1>8 DEF Commands

LEMMA OwnerUpdate == TypeOK /\ Owner /\ Update => Owner'
<1> SUFFICES ASSUME TypeOK, Owner, Update PROVE Owner'
  OBVIOUS
<1> startsLeft \in Int /\ pendingAddress \in MaybeAddress /\ state \in States
  BY DEF TypeOK
<1> USE DEF FallbackReady
<1>1. CASE UpdateBegins
  BY <1>1 DEF UpdateBegins, NoShutdown
<1>2. CASE FinishShutdown
  BY <1>2 DEF FinishShutdown, FinishStop, StopUnfinished, LibraryEnd
<1>3. CASE ProcessPendingConnection
  <2>1. CASE pendingConnection = "None"
    BY <1>3, <2>1 DEF ProcessPendingConnection
  <2>2. CASE pendingConnection # "None" /\ pendingAddress # NoAddress
    <3>1. CASE pendingConnection = "Auto"
      BY <1>3, <2>2, <3>1 DEF ProcessPendingConnection, StartSource, ArmFallback
    <3>2. CASE pendingConnection # "Auto"
      <4>1. ~autoMode'
        BY <1>3, <2>2, <3>2, Zenon
           DEF ProcessPendingConnection, StartSource, ArmFallback
      <4>2. BudgetFacts'
        <5>1. startsLeft >= 1
          BY <2>2, <3>2
        <5>2. /\ startsLeft' = startsLeft - 1
              /\ ~shutdownFallback' /\ pendingConnection' = "None"
          BY <1>3, <2>2 DEF ProcessPendingConnection, StartSource
        <5> QED
          BY <4>1, <5>1, <5>2
      <4>3. PhaseFacts' /\ ShutdownOwnsState' /\ QueuedWaitsAlone' /\ SourceFacts'
        BY <1>3, <2>2, <3>2 DEF ProcessPendingConnection, StartSource
      <4>4. SilentWithoutLink' /\ ConnectingIsTimed'
        BY <1>3, <2>2, <3>2 DEF ProcessPendingConnection, StartSource
      <4> QED
        BY <4>2, <4>3, <4>4
    <3> QED
      BY <3>1, <3>2
  <2>3. CASE pendingConnection # "None" /\ pendingAddress = NoAddress
    BY <1>3, <2>3 DEF ProcessPendingConnection, StartSource, ArmFallback
  <2> QED
    BY <2>1, <2>2, <2>3
<1>4. CASE ApplyPendingCallbacks
  BY <1>4 DEF ApplyPendingCallbacks, StateAfterCallbacks, StateAfterAudio,
              ConnectTimerAfterCallbacks
<1>5. CASE DebounceWaits \/ DebounceDropped
  BY <1>5 DEF DebounceWaits, DebounceDropped
<1>6. CASE DebounceEndsSession
  BY <1>6 DEF DebounceEndsSession, BeginShutdown, BeginStop, LibraryEnd
<1>7. CASE MediaCheck
  BY <1>7 DEF MediaCheck
<1>8. CASE ConnectInTime
  BY <1>8 DEF ConnectInTime
<1>9. CASE ConnectTimeout
  BY <1>9 DEF ConnectTimeout, BeginShutdown, BeginStop, LibraryEnd
<1> QED
  BY <1>1, <1>2, <1>3, <1>4, <1>5, <1>6, <1>7, <1>8, <1>9 DEF Update

LEMMA OwnerLibrary == TypeOK /\ Owner /\ Library => Owner'
<1> SUFFICES ASSUME TypeOK, Owner, Library PROVE Owner'
  OBVIOUS
<1>1. LibraryOnly /\ library # "Off"
  BY DEF Library, DiscoveryStarts, DiscoveryStops, NameSelector, LinkAttempt,
         LinkUp, LinkDown, AudioStarts, AudioStops, AudioSuspends,
         HandleConnection, HandleAudio, DiscoveryActive
<1> QED
  BY <1>1 DEF LibraryOnly, FallbackReady

LEMMA OwnerClock == Owner /\ Clock => Owner'
  BY DEF Clock, ConnectClock, DebounceClock, MediaClock, ClockOnly, Elapse,
         FallbackReady

LEMMA OwnerInit == Init => Owner
  BY DEF Init, FallbackReady

LEMMA OwnerStutter == Owner /\ UNCHANGED vars => Owner'
  BY DEF FallbackReady

HIDE DEF Owner, PhaseFacts, ShutdownOwnsState, QueuedWaitsAlone, SourceFacts,
         SilentWithoutLink, ConnectingIsTimed, BudgetFacts

LEMMA OwnerInvariant == Spec => []Owner
<1>1. Init => Owner
  BY OwnerInit
<1>2. TypeOK /\ Owner /\ [Next]_vars => Owner'
  BY OwnerStutter, OwnerCommands, OwnerUpdate, OwnerLibrary, OwnerClock DEF Next
<1> QED
  BY <1>1, <1>2, TypeCorrect, PTL DEF Spec

(* A shutdown and the state Disconnecting never part, whatever callbacks   *)
(* are applied meanwhile.                                                  *)
THEOREM ShutdownIsOwned == Spec => []ShutdownOwnsState
  BY OwnerInvariant, PTL DEF Owner

(* A queued connect never waits beside a session or a shutdown.            *)
THEOREM QueuedIsAlone == Spec => []QueuedWaitsAlone
  BY OwnerInvariant, PTL DEF Owner

(* The source never runs behind a disconnected manager.                    *)
THEOREM SourceIsOwned == Spec => []NoOrphanSource
<1>1. Owner => NoOrphanSource
  BY DEF Owner, SourceFacts, NoOrphanSource
<1> QED
  BY <1>1, OwnerInvariant, PTL

(* Tone and PC audio are off outside Connected and Streaming.              *)
THEOREM SilenceIsKept == Spec => []SilentWithoutLink
  BY OwnerInvariant, PTL DEF Owner

(* Every attempt runs under its timeout.                                   *)
THEOREM AttemptsAreTimed == Spec => []ConnectingIsTimed
  BY OwnerInvariant, PTL DEF Owner

(* No accepted connect starts the source more often than it paid for, so   *)
(* the name fallback of automatic reconnection cannot loop.                *)
THEOREM StartsArePaid == Spec => []StartsWithinBudget
<1>1. Owner => StartsWithinBudget
  BY DEF Owner, BudgetFacts, StartsWithinBudget
<1> QED
  BY <1>1, OwnerInvariant, PTL

(* Together, as the runs check them.                                       *)
THEOREM SessionInvariantHolds == Spec => []SessionInvariant
  BY TypeCorrect, QueuedIsAlone, SourceIsOwned, StartsArePaid, PTL
     DEF SessionInvariant

(* Only the step that ends a shutdown publishes a final outcome.           *)
LEMMA OnlyFinishReportsTheEnd ==
  ASSUME TypeOK, Next, published' \cap {"Disconnected", "ConnectFailed"} # {}
  PROVE  FinishShutdown
<1>1. ~Commands
  BY DEF Commands, ConnectByAddress, ConnectByName, ConnectAutoCached,
         ConnectAutoByName, AcceptConnect, Disconnect, StartTone, StopTone,
         StartAudio, StopAudio, PlaybackCommand, ClearCache, BluetoothInit,
         BluetoothGetInfo, BluetoothCommand
<1>2. ~Library
  BY DEF Library, DiscoveryStarts, DiscoveryStops, NameSelector, LinkAttempt,
         LinkUp, LinkDown, AudioStarts, AudioStops, AudioSuspends,
         HandleConnection, HandleAudio, LibraryOnly
<1>3. ~Clock
  BY DEF Clock, ConnectClock, DebounceClock, MediaClock, ClockOnly
<1>4. ~ProcessPendingConnection
  BY DEF ProcessPendingConnection, Publish
<1>5. ~ApplyPendingCallbacks
  BY DEF ApplyPendingCallbacks, Publish, EventsFromCallbacks, AddressEvents
<1>6. ~(UpdateBegins \/ DebounceWaits \/ DebounceDropped \/ DebounceEndsSession
        \/ MediaCheck \/ ConnectInTime \/ ConnectTimeout)
  BY DEF UpdateBegins, DebounceWaits, DebounceDropped, DebounceEndsSession,
         MediaCheck, ConnectInTime, ConnectTimeout
<1> QED
  BY <1>1, <1>2, <1>3, <1>4, <1>5, <1>6 DEF Next, Update

(* A2DP_DISCONNECTED and A2DP_CONNECT_FAILED are published only when the   *)
(* source has been stopped and nothing of the shutdown is left.            *)
THEOREM OutcomesComeLast == Spec => []OutcomeAfterCleanup
<1>1. Init => OutcomeAfterCleanup
  BY DEF Init, OutcomeAfterCleanup
<1>2. TypeOK /\ Owner /\ OutcomeAfterCleanup /\ [Next]_vars
        => OutcomeAfterCleanup'
  <2> SUFFICES ASSUME TypeOK, Owner, OutcomeAfterCleanup, [Next]_vars,
                      published' \cap {"Disconnected", "ConnectFailed"} # {}
               PROVE  library' = "Off" /\ ~stopPending' /\ shutdownReason' = "None"
    BY DEF OutcomeAfterCleanup
  <2>1. CASE UNCHANGED vars
    BY <2>1 DEF OutcomeAfterCleanup
  <2>2. CASE Next
    <3>1. FinishShutdown
      BY <2>2, OnlyFinishReportsTheEnd
    <3> QED
      BY <3>1 DEF FinishShutdown, FinishStop, LibraryEnd, Owner, SourceFacts
  <2> QED
    BY <2>1, <2>2
<1> QED
  BY <1>1, <1>2, TypeCorrect, OwnerInvariant, PTL DEF Spec

-----------------------------------------------------------------------------
(* A2DPManager implements A2DPSession. *)

(* What the mapping reads: a step that changes none of it is a stutter.    *)
LEMMA SameSession ==
  ASSUME UNCHANGED <<shutdownReason, pendingConnection, startsLeft>>,
         library = "Off" <=> library' = "Off"
  PROVE  UNCHANGED <<SessionPhase, startsLeft>>
  BY DEF SessionPhase

LEMMA SessionCommandSteps ==
  ASSUME TypeOK, Owner, Commands
  PROVE  [Session!Next]_<<SessionPhase, startsLeft>>
<1> USE DEF Command
<1>1. CASE ConnectByAddress \/ ConnectByName \/ ConnectAutoCached
           \/ ConnectAutoByName
  <2>1. /\ MayConnect /\ shutdownReason' = "None" /\ pendingConnection' # "None"
        /\ startsLeft' \in {1, 2}
    BY <1>1 DEF ConnectByAddress, ConnectByName, ConnectAutoCached,
                ConnectAutoByName, AcceptConnect, MayConnect
  <2>2. state = "Disconnected"
    BY <2>1 DEF TypeOK, States, MayConnect, Owner, ShutdownOwnsState
  <2>3. library = "Off"
    BY <2>2 DEF Owner, SourceFacts
  <2>4. Session!Accept
    BY <2>1, <2>3 DEF MayConnect, SessionPhase, Session!Accept
  <2> QED
    BY <2>4 DEF Session!Next
<1>2. CASE Disconnect
  <2>1. CASE CancelQueued
    <3>1. library = "Off" /\ library' = "Off" /\ shutdownReason = "None"
          /\ shutdownReason' = "None" /\ startsLeft' = startsLeft
      BY <1>2, <2>1 DEF Disconnect, CancelQueued, Owner, QueuedWaitsAlone
    <3>2. Session!Cancel
      BY <2>1, <3>1 DEF CancelQueued, SessionPhase, Session!Cancel
    <3> QED
      BY <3>2 DEF Session!Next
  <2>2. CASE NothingToStop
    BY <1>2, <2>2, SameSession DEF Disconnect, NothingToStop
  <2>3. CASE StopSession
    <3>1. /\ shutdownReason = "None" /\ pendingConnection = "None"
          /\ shutdownReason' = "Disconnect" /\ startsLeft' = startsLeft
      BY <1>2, <2>3 DEF Disconnect, StopSession, BeginShutdown
    <3>2. Session!Stop
      BY <3>1 DEF SessionPhase, Session!Stop
    <3> QED
      BY <3>2 DEF Session!Next
  <2> QED
    BY <1>2, <2>1, <2>2, <2>3 DEF Disconnect
<1>3. CASE PlaybackCommand \/ ClearCache \/ BluetoothCommand
  BY <1>3, SameSession DEF PlaybackCommand, ClearCache, BluetoothCommand
<1> QED
  BY <1>1, <1>2, <1>3 DEF Commands, StartTone, StopTone, StartAudio, StopAudio,
     BluetoothInit, BluetoothGetInfo

LEMMA SessionUpdateSteps ==
  ASSUME TypeOK, Owner, Update
  PROVE  [Session!Next]_<<SessionPhase, startsLeft>>
<1>1. CASE FinishShutdown
  <2>1. library' = "Off"
    BY <1>1 DEF FinishShutdown, FinishStop, LibraryEnd, Owner, SourceFacts
  <2>2. /\ shutdownReason # "None" /\ shutdownReason' = "None"
        /\ startsLeft' = startsLeft
    BY <1>1 DEF FinishShutdown
  <2>3. CASE shutdownFallback
    <3>1. startsLeft > 0
      BY <1>1, <2>3 DEF FinishShutdown, Owner, BudgetFacts, QueuedWaitsAlone,
                        TypeOK
    <3>2. pendingConnection' = "Name"
      BY <1>1, <2>3 DEF FinishShutdown
    <3>3. Session!FallBack
      BY <2>2, <3>1, <3>2 DEF SessionPhase, Session!FallBack
    <3> QED
      BY <3>3 DEF Session!Next
  <2>4. CASE ~shutdownFallback
    <3>1. pendingConnection' = "None"
      BY <1>1, <2>4 DEF FinishShutdown, Owner, QueuedWaitsAlone
    <3>2. Session!Finish
      BY <2>1, <2>2, <3>1 DEF SessionPhase, Session!Finish
    <3> QED
      BY <3>2 DEF Session!Next
  <2> QED
    BY <2>3, <2>4
<1>2. CASE ProcessPendingConnection
  <2>1. CASE pendingConnection = "None"
    BY <1>2, <2>1, SameSession DEF ProcessPendingConnection
  <2>2. CASE pendingConnection # "None"
    <3>1. /\ shutdownReason' = "None" /\ pendingConnection' = "None"
          /\ library' # "Off" /\ startsLeft' = startsLeft - 1
      BY <1>2, <2>2 DEF ProcessPendingConnection, StartSource
    <3>2. startsLeft > 0
      BY <2>2 DEF Owner, BudgetFacts, TypeOK
    <3>3. Session!Start
      BY <2>2, <3>1, <3>2 DEF Owner, QueuedWaitsAlone, SessionPhase, Session!Start
    <3> QED
      BY <3>3 DEF Session!Next
  <2> QED
    BY <2>1, <2>2
<1>3. CASE DebounceEndsSession \/ ConnectTimeout
  <2>1. shutdownReason = "None" /\ pendingConnection = "None"
    BY <1>3 DEF DebounceEndsSession, ConnectTimeout, Owner, PhaseFacts
  <2>2. shutdownReason' # "None" /\ startsLeft' = startsLeft
    BY <1>3, <2>1 DEF DebounceEndsSession, ConnectTimeout, BeginShutdown
  <2>3. Session!Stop
    BY <2>1, <2>2 DEF SessionPhase, Session!Stop
  <2> QED
    BY <2>3 DEF Session!Next
<1>4. CASE UpdateBegins \/ ApplyPendingCallbacks \/ DebounceWaits
           \/ DebounceDropped \/ MediaCheck \/ ConnectInTime
  BY <1>4, SameSession DEF UpdateBegins, ApplyPendingCallbacks, DebounceWaits,
                           DebounceDropped, MediaCheck, ConnectInTime
<1> QED
  BY <1>1, <1>2, <1>3, <1>4 DEF Update

LEMMA SessionLibrarySteps ==
  ASSUME Library
  PROVE  UNCHANGED <<SessionPhase, startsLeft>>
<1>1. library # "Off" /\ library' # "Off" /\ LibraryOnly
  BY DEF Library, DiscoveryStarts, DiscoveryStops, NameSelector, LinkAttempt,
         LinkUp, LinkDown, AudioStarts, AudioStops, AudioSuspends,
         HandleConnection, HandleAudio, DiscoveryActive
<1> QED
  BY <1>1, SameSession DEF LibraryOnly

LEMMA SessionClockSteps ==
  ASSUME Clock
  PROVE  UNCHANGED <<SessionPhase, startsLeft>>
<1>1. ClockOnly
  BY DEF Clock, ConnectClock, DebounceClock, MediaClock
<1> QED
  BY <1>1, SameSession DEF ClockOnly

(* Every behaviour of the manager is a behaviour of A2DPSession: no start  *)
(* without a queued and paid request, no request beside a session, no end  *)
(* of a session otherwise than through a shutdown.                         *)
THEOREM ManagerImplementsSession == Spec => ImplementsSession
<1>1. Init => Session!Init
  BY DEF Init, SessionPhase, Session!Init
<1>2. TypeOK /\ Owner /\ [Next]_vars
        => [Session!Next]_<<SessionPhase, startsLeft>>
  <2>1. UNCHANGED vars => UNCHANGED <<SessionPhase, startsLeft>>
    BY SameSession
  <2> QED
    BY <2>1, SessionCommandSteps, SessionUpdateSteps, SessionLibrarySteps,
       SessionClockSteps DEF Next
<1> QED
  BY <1>1, <1>2, TypeCorrect, OwnerInvariant, PTL
     DEF Spec, ImplementsSession, Session!Spec
=============================================================================
