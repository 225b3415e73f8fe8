-------------------------- MODULE BluetoothManager -------------------------
(***************************************************************************)
(* BluetoothManager in the application loop: Classic and BLE scans, the    *)
(* commands that reach them through the dispatcher, and the A2DP source,   *)
(* which takes the controller away from Classic.  A2DP is A2DPSession,     *)
(* the specification A2DPManager implements: its sessions are Running from *)
(* the start of the source, which is when status() says active or          *)
(* connecting, to the start of a shutdown.                                 *)
(*                                                                         *)
(* One pass of the loop runs the stages of classic.update(), ble.update()  *)
(* and a2dp.update() in turn; commands are executed between two passes,    *)
(* and the Bluetooth host task and the clock may take a step between any   *)
(* two stages.                                                             *)
(***************************************************************************)
EXTENDS BluetoothClassic, BluetoothLE

CONSTANT
  Capacity  \* EventQueue::CAPACITY

ASSUME RingAssumption == Capacity \in Nat

(* The table holds two batches, and the ring a batch of each scan with its *)
(* SCAN_DONE and a log for BLE, or a Classic start that failed beside a    *)
(* batch of BLE.                                                           *)
ASSUME RingHoldsScans ==
  /\ 2 * BatchLimit <= MaxEntries
  /\ 3 * BatchLimit + 3 <= Capacity
  /\ BatchLimit + 6 <= Capacity

VARIABLES
  pc,      \* the stage the application task runs next
  phase,   \* the A2DP session
  budget,  \* of A2DPSession
  \* History.
  unseen   \* BLE scans in a session, and no guard of the dispatcher saw
           \*   the one beside the other

session == <<phase, budget>>
vars == <<burst, classicVars, bleVars, pc, session, unseen>>

Session == INSTANCE A2DPSession

ScanSteps == {"ScanArms", "ScanLaunches"}

Stages == ScanSteps \cup {"Commands", "ClassicStart", "ClassicPublish",
                          "BleStart", "BleDeadline", "BlePublish", "A2dp"}

SessionPhases == {"Idle", "Queued", "Running", "Stopping"}

TypeOK ==
  /\ ClassicTypeOK /\ BleTypeOK
  /\ burst \in Nat
  /\ pc \in Stages
  /\ phase \in SessionPhases /\ budget \in 0..2
  /\ unseen \in BOOLEAN

Init ==
  /\ ClassicInit /\ BleInit /\ Session!Init
  /\ burst = 0
  /\ pc = "Commands"
  /\ unseen = FALSE

ClassicIdles == UNCHANGED classicVars
BleIdles == UNCHANGED bleVars

-----------------------------------------------------------------------------
(* Commands, with what the dispatcher asks before it forwards them. *)

Command == pc = "Commands" /\ UNCHANGED <<burst, pc>>

BluetoothScanStart ==
  /\ Command /\ phase # "Running" /\ ~BleBusy
  /\ ClassicScan /\ BleIdles /\ UNCHANGED session

BluetoothScanStop == Command /\ ClassicStopScan /\ BleIdles /\ UNCHANGED session

BluetoothUp == Command /\ ClassicBegin /\ BleIdles /\ UNCHANGED session

BluetoothBleScanStart ==
  /\ pc = "Commands" /\ phase # "Running" /\ ~ClassicBusy
  /\ pc' = IF bleInitialized THEN "ScanArms" ELSE pc
  /\ BleScan /\ ClassicIdles /\ UNCHANGED <<burst, session>>

(* The rest of the command, up to its answer. *)
BleScanGoesOn ==
  /\ \/ pc = "ScanArms" /\ pc' = "ScanLaunches" /\ ScanArms
     \/ pc = "ScanLaunches" /\ pc' = "Commands" /\ ScanLaunches
  /\ ClassicIdles /\ UNCHANGED <<burst, session>>

BluetoothBleScanStop == Command /\ BleStop /\ ClassicIdles /\ UNCHANGED session

A2dpConnect ==
  /\ Command /\ ~ClassicBusy /\ ~BleBusy
  /\ Session!Accept
  /\ ClassicIdles /\ BleIdles

A2dpDisconnect ==
  /\ Command
  /\ Session!Cancel
  /\ ClassicIdles /\ BleIdles

(* A disconnect begins a shutdown, and so does the end of                  *)
(* A2DPManager::update() on a lost link or a timeout.                      *)
SourceStops ==
  /\ Command
  /\ Session!Stop
  /\ ClassicIdles /\ BleIdles

Commands ==
  \/ BluetoothScanStart \/ BluetoothScanStop \/ BluetoothUp
  \/ BluetoothBleScanStart \/ BleScanGoesOn \/ BluetoothBleScanStop
  \/ A2dpConnect \/ A2dpDisconnect \/ SourceStops

-----------------------------------------------------------------------------
(* One pass of the loop. *)

Stage(from, to) == pc = from /\ pc' = to

ClassicDeadline ==
  /\ Stage("Commands", "ClassicStart")
  /\ DeadlineStage /\ BleIdles /\ UNCHANGED session

ClassicStart ==
  /\ \/ Stage("ClassicStart", "ClassicPublish") /\ (NothingToStart \/ StartPendingScan)
     \/ Stage("ClassicStart", "BleStart") /\ BeginFails
  /\ BleIdles /\ UNCHANGED session

ClassicPublish ==
  /\ Stage("ClassicPublish", "BleStart")
  /\ PublishStage /\ BleIdles /\ UNCHANGED session

BleStart ==
  /\ Stage("BleStart", "BleDeadline")
  /\ BleStartStage /\ ClassicIdles /\ UNCHANGED session

BleDeadline ==
  /\ Stage("BleDeadline", "BlePublish")
  /\ BleDeadlineStage /\ ClassicIdles /\ UNCHANGED session

BlePublish ==
  /\ Stage("BlePublish", "A2dp")
  /\ BlePublishStage /\ ClassicIdles /\ UNCHANGED session

(* The drain, then A2DPManager::update(): the source is started with Classic suspended,    *)
(* and Classic restored when the start fails or a shutdown has finished.   *)
SourceStarts == Session!Start /\ Suspend(FALSE)
SourceFails == Session!Cancel /\ \E up \in BOOLEAN : Suspend(up)
ShutdownEnds == (Session!Finish \/ Session!FallBack) /\ Restore
SourceGoesOn == phase # "Queued" /\ UNCHANGED session /\ ClassicIdles

A2dp ==
  /\ Stage("A2dp", "Commands")
  /\ SourceStarts \/ SourceFails \/ ShutdownEnds \/ SourceGoesOn
  /\ burst' = 0
  /\ BleIdles

Pass ==
  \/ ClassicDeadline \/ ClassicStart \/ ClassicPublish
  \/ BleStart \/ BleDeadline \/ BlePublish
  \/ A2dp

-----------------------------------------------------------------------------
(* What happens between two stages. *)

HostTask ==
  /\ LibraryCompletes \/ Callback
  /\ UNCHANGED <<pc, burst, session>> /\ ClassicIdles

InquiryClock == ClassicClock /\ BleIdles /\ UNCHANGED <<pc, burst, session>>
BleScanClock == BleClock /\ ClassicIdles /\ UNCHANGED <<pc, burst, session>>

(* From the acceptance of a BLE scan to its end. *)
BleScans == bleScanning \/ bleStartPending \/ pc \in ScanSteps

(* The guards of the dispatcher see neither a connect that is queued nor a *)
(* shutdown that runs, and nobody asks for the empty shutdown of a late    *)
(* callback, which may fall back to the name.                              *)
MeetUnseen ==
  \/ ~BleScans /\ phase \in {"Queued", "Stopping"}
  \/ BleScans /\ phase = "Idle" /\ phase' = "Stopping"

Watch == unseen' = (BleScans' /\ phase' # "Idle" /\ (unseen \/ MeetUnseen))

Next ==
  \/ Commands /\ Watch
  \/ Pass /\ Watch
  \/ HostTask /\ Watch
  \/ InquiryClock /\ Watch
  \/ BleScanClock /\ Watch

Spec == Init /\ [][Next]_vars

(* A pass reads a bounded number of bytes, so that its commands end and    *)
(* its services follow; the clock goes on, and a callback that has begun   *)
(* ends.  No scan of the library, and no session, need end by itself.      *)
Fairness ==
  /\ SF_vars(Pass /\ Watch) /\ WF_vars(BleScanGoesOn /\ Watch)
  /\ WF_vars(InquiryClock /\ Watch) /\ WF_vars(BleScanClock /\ Watch)
  /\ WF_vars(Callback /\ UNCHANGED <<pc, burst, session>> /\ ClassicIdles /\ Watch)

FairSpec == Spec /\ Fairness

-----------------------------------------------------------------------------
(* Safety. *)

(* Classic and BLE never scan, nor wait to, at the same time: the commands *)
(* test busy(), and each flag is cleared by a stage, a callback, a         *)
(* deadline or a suspension that runs between them.                        *)
ScansExclude ==
  ~((scanning \/ scanStartPending) /\ (bleScanning \/ bleStartPending))

(* While the A2DP source runs Classic neither inquires nor is about to,    *)
(* although a scan may be accepted while a connect is queued or a shutdown *)
(* has not finished.                                                       *)
ClassicQuiet == phase = "Running" => ~scanning /\ ~scanStartPending

(* The source suspends Classic only: a BLE scan may go on beside it.  It   *)
(* is then one that no guard of the dispatcher could refuse: accepted      *)
(* while a connect was queued or a shutdown ran, or met by the fallback of *)
(* an empty shutdown.  No other scan lasts from before a connect into its  *)
(* session, and none is accepted beside the source.                        *)
BleUnseen == phase = "Running" /\ BleScans => unseen

(* The two scans exclude each other; the source keeps Classic out, and BLE *)
(* as far as the dispatcher's guards can see.                              *)
ControllerInvariant == TypeOK /\ ScansExclude /\ ClassicQuiet /\ BleUnseen

(* A SCAN_DONE counts the DEVICE_FOUND events the host has received for    *)
(* it, however many updates they took, unless a later scan has cleared     *)
(* the table in between.                                                   *)
DoneCounts == shortfall = 0 /\ bleShortfall = 0

(* The drain comes after classic.update() and ble.update(): the ring holds *)
(* what both publish in one pass, over every mix of results, failed        *)
(* starts, deadlines and log records.                                      *)
BurstFits == burst <= Capacity

-----------------------------------------------------------------------------
(* Liveness, under FairSpec. *)

(* An accepted scan is answered by SCAN_DONE, over deadlines, failed       *)
(* starts and suspensions, unless a suspension falls into its publication  *)
(* or a scan that Bluedroid refuses follows its completion at once, and    *)
(* unless the host goes on scanning without waiting for the answer.        *)
ClassicReports ==
  \/ []<><<BluetoothScanStart>>_vars
  \/ request = "Waiting" ~> request # "Waiting"

(* A BLE scan is answered, whether its callback comes, comes late, races   *)
(* the deadline or never comes, with the same exceptions for the host.     *)
BleReports ==
  \/ []<><<BluetoothBleScanStart>>_vars
  \/ bleRequest = "Waiting" ~> bleRequest # "Waiting"
=============================================================================
