------------------------- MODULE DongleApplication -------------------------
(***************************************************************************)
(* The application task: one pass of its loop reads commands, then updates *)
(* the Wi-Fi, network, Bluetooth and A2DP services in turn, and empties    *)
(* the event ring into the serial port after each of them.  Wi-Fi is       *)
(* WiFiManager; of the other services and of their commands only the       *)
(* number of events they publish is kept, and of the ring its length,      *)
(* since all of them publish from this task.  What the ring does with the  *)
(* records it admits is EventQueue.                                        *)
(***************************************************************************)
EXTENDS WiFiManager

CONSTANTS
  Capacity,       \* EventQueue::CAPACITY
  CommandEvents,  \* bound: events the commands of one pass publish
  ServiceEvents   \* bound: events one update of another service publishes

ASSUME CapacityAssumption == Capacity \in Nat
ASSUME EventsAssumption == CommandEvents \in Nat /\ ServiceEvents \in Nat

(* Commands and the Wi-Fi update share one drain; every other burst has    *)
(* the ring to itself.                                                     *)
ASSUME RingHoldsBursts ==
  /\ CommandEvents + BatchLimit + 3 <= Capacity
  /\ ServiceEvents <= Capacity

VARIABLES
  phase,      \* whose turn it is in this pass
  draining,   \* the service of this phase is done, drainEvents() runs
  ready,      \* _protocolReady
  queued,     \* _eventQueue.size()
  refused,    \* events of the latest publication that found the ring full
  commanded,  \* events the commands of this pass have published
  \* History.
  caughtUp    \* a drain that began with ready set has ended since the start

loop == <<phase, draining, ready, queued, refused, commanded, caughtUp>>
appVars == <<vars, loop>>

Services == {"Network", "Bluetooth", "A2dp"}
Phases == {"Commands", "Wifi"} \cup Services

After == [Wifi |-> "Network", Network |-> "Bluetooth",
          Bluetooth |-> "A2dp", A2dp |-> "Commands"]

LoopTypeOK ==
  /\ phase \in Phases
  /\ draining \in BOOLEAN /\ ready \in BOOLEAN /\ caughtUp \in BOOLEAN
  /\ queued \in 0..Capacity
  /\ refused \in Nat
  /\ commanded \in 0..CommandEvents

AppTypeOK == TypeOK /\ LoopTypeOK

AppInit ==
  /\ Init
  /\ phase = "Commands" /\ draining = FALSE
  /\ ready = FALSE
  /\ queued = 0 /\ refused = 0 /\ commanded = 0
  /\ caughtUp = FALSE

-----------------------------------------------------------------------------
Room == Capacity - queued

(* The newest events are lost when the ring is full.                       *)
Publish(n) ==
  /\ queued' = queued + (IF n > Room THEN Room ELSE n)
  /\ refused' = (IF n > Room THEN n - Room ELSE 0)

(* One command after the other, as the parser completes their frames.      *)
WifiCommand ==
  /\ phase = "Commands"
  /\ Commands
  /\ UNCHANGED loop

(* The answer is sent before the events may be.                            *)
GetInfo ==
  /\ phase = "Commands"
  /\ ready' = TRUE
  /\ UNCHANGED <<vars, phase, draining, queued, refused, commanded, caughtUp>>

OtherCommand(n) ==
  /\ phase = "Commands"
  /\ commanded + n <= CommandEvents
  /\ commanded' = commanded + n
  /\ Publish(n)
  /\ UNCHANGED <<vars, phase, draining, ready, caughtUp>>

(* ESP.restart(), or power lost and restored: everything is as at first.   *)
Restart ==
  /\ connecting' = FALSE /\ connectedEventSent' = FALSE /\ ipEventSent' = FALSE
  /\ lastStatus' = "Down"
  /\ scanPublishing' = FALSE /\ scanCount' = -1 /\ scanIndex' = 0
  /\ status' = "Down" /\ hasAddress' = FALSE
  /\ joining' = FALSE /\ leaving' = FALSE
  /\ scanner' = "None" /\ results' = 0
  /\ out' = <<>>
  /\ hostUp' = FALSE /\ hostHasAddress' = FALSE /\ hostFound' = 0
  /\ phase' = "Commands" /\ draining' = FALSE
  /\ ready' = FALSE
  /\ queued' = 0 /\ refused' = 0 /\ commanded' = 0
  /\ caughtUp' = FALSE

NoMoreInput ==
  /\ phase = "Commands"
  /\ phase' = "Wifi"
  /\ UNCHANGED <<vars, draining, ready, queued, refused, commanded, caughtUp>>

WifiPhaseUndrained ==
  /\ phase = "Wifi" /\ ~draining
  /\ Update
  /\ Publish(Len(out'))
  /\ phase' = "Network"
  /\ UNCHANGED <<draining, ready, commanded, caughtUp>>

WifiPhase ==
  /\ phase = "Wifi" /\ ~draining
  /\ Update
  /\ Publish(Len(out'))
  /\ draining' = TRUE
  /\ UNCHANGED <<phase, ready, commanded, caughtUp>>

ServicePhase(n) ==
  /\ phase \in Services /\ ~draining
  /\ Publish(n)
  /\ draining' = TRUE
  /\ UNCHANGED <<vars, phase, ready, commanded, caughtUp>>

(* One turn of the loop in drainEvents().                                  *)
SendEvent ==
  /\ draining /\ ready /\ queued > 0
  /\ queued' = queued - 1
  /\ UNCHANGED <<vars, phase, draining, ready, refused, commanded, caughtUp>>

NextPhase ==
  /\ draining' = FALSE
  /\ phase' = After[phase]
  /\ commanded' = (IF phase = "A2dp" THEN 0 ELSE commanded)
  /\ caughtUp' = (caughtUp \/ ready)
  /\ refused' = 0
  /\ UNCHANGED <<vars, ready>>

(* A drain that sends one event instead of all.                            *)
DrainSendsOne ==
  /\ draining
  /\ queued' = (IF ready /\ queued > 0 THEN queued - 1 ELSE queued)
  /\ NextPhase

DrainEnds ==
  /\ draining
  /\ ~ready \/ queued = 0
  /\ NextPhase
  /\ UNCHANGED queued

StationMoves == Station /\ UNCHANGED loop

AppNext ==
  \/ WifiCommand \/ GetInfo \/ Restart
  \/ \E n \in 0..CommandEvents : OtherCommand(n)
  \/ NoMoreInput \/ WifiPhase
  \/ \E n \in 0..ServiceEvents : ServicePhase(n)
  \/ SendEvent \/ DrainEnds
  \/ StationMoves

AppSpec == AppInit /\ [][AppNext]_appVars

(* The loop does not stop: no phase waits for anything.                    *)
Progress == \/ NoMoreInput \/ WifiPhase
            \/ \E n \in 0..ServiceEvents : ServicePhase(n)
            \/ SendEvent \/ DrainEnds

FairAppSpec == AppSpec /\ WF_appVars(Progress)

-----------------------------------------------------------------------------
(* Once the host has been heard and one drain has caught up with what the  *)
(* services published before, the ring never overflows again.              *)
NothingLostOnceCaughtUp == caughtUp => refused = 0

(* docs/architecture.md:71: no event remains "queued behind another        *)
(* service's burst".  A service starts its update on an empty ring, Wi-Fi  *)
(* on one that holds what the commands of this pass published.             *)
BurstsDoNotPile == (caughtUp /\ ~draining) =>
  queued = IF phase \in {"Commands", "Wifi"} THEN commanded ELSE 0

(* With the host attached, an event does not stay in the ring for ever.    *)
EventsLeave == (ready /\ queued > 0) ~> (queued = 0)

(* What holds in every state of the loop: types, the view of the host, the *)
(* results under publication, and a ring left empty for the next service.  *)
LoopInvariant == AppTypeOK /\ HostViewAgrees /\ ResultsKept /\ BurstsDoNotPile
=============================================================================
