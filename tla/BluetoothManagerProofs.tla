----------------------- MODULE BluetoothManagerProofs ----------------------
(***************************************************************************)
(* The invariants of BluetoothManager hold for every size of the table, of *)
(* the batch and of the ring.  IInv joins what the scans know of each      *)
(* other (Owners) and of the session (BleAdmitted), what a publication has *)
(* delivered (Publishing) and how many records each stage can find already *)
(* published (Budget).                                                     *)
(***************************************************************************)
EXTENDS BluetoothManager, TLAPS

USE EntriesAssumption, BatchAssumption DEF Counts

(* A scan that waits for its start has not started, and a BLE scan that    *)
(* waits is the first one of the library.                                  *)
Owners ==
  /\ ~(scanning /\ scanStartPending)
  /\ bleStartPending => ~bleInitialized

(* A pending start does not outlive its stage, and Classic publishes       *)
(* nothing old in the pass that starts a BLE scan.  A BLE scan that is     *)
(* being started is not the first, and Classic is idle meanwhile.          *)
Starts ==
  /\ scanStartPending => pc \in {"Commands", "ClassicStart"}
  /\ bleStartPending => pc \in {"Commands", "ClassicStart", "ClassicPublish", "BleStart"}
  /\ bleStartPending /\ pc # "BleStart" => ~scanPublishing
  /\ pc \in ScanSteps => bleInitialized /\ ~scanning /\ ~scanStartPending

ClassicPublishing ==
  /\ scanPublishing => found <= scanPublishIndex
  /\ scanPublishing /\ ~cleared => found = scanPublishIndex /\ scanPublishIndex <= count

BlePublishing ==
  /\ blePublishing => bleFound <= blePublishIndex
  /\ blePublishing /\ ~bleCleared
       => bleFound = blePublishIndex /\ blePublishIndex <= bleCount

(* Before the first start of the library BLE does nothing. *)
BleFresh ==
  bleInitialized \/ (~bleScanning /\ ~bleDone /\ ~blePublishing /\ ~library
                     /\ callback = "Off")

BleQuiet == ~bleScanning /\ ~bleStartPending
BleInert == BleQuiet /\ ~bleDone /\ ~blePublishing /\ ~library /\ callback = "Off"

(* Records published before each stage of a pass. *)
Budget ==
  /\ pc \in ScanSteps \cup {"Commands"} => burst = 0
  /\ pc = "ClassicStart" =>
       \/ burst = 0
       \/ (burst = 1 /\ BleQuiet /\ scanCompletionPending /\ ~scanStartPending)
  /\ pc = "ClassicPublish" =>
       \/ burst = 0
       \/ (burst = 1 /\ BleQuiet /\ scanCompletionPending)
       \/ (burst <= 4 /\ BleQuiet /\ count = 0 /\ ~scanCompletionPending)
  /\ pc = "BleStart" =>
       \/ burst <= 2 * BatchLimit
       \/ (burst <= 2 * BatchLimit + 1 /\ ~bleStartPending)
       \/ (burst <= 5 /\ BleQuiet)
  /\ pc = "BleDeadline" =>
       \/ burst <= 2 * BatchLimit + 1
       \/ (burst <= 2 * BatchLimit + 3 /\ BleInert)
       \/ (burst <= 5 /\ BleQuiet)
  /\ pc = "BlePublish" =>
       \/ burst <= 2 * BatchLimit + 2
       \/ (burst <= 2 * BatchLimit + 3 /\ BleInert)
       \/ burst <= 5
  /\ burst <= Capacity

(* A BLE scan within a session, running or not, is an unseen one.          *)
BleAdmitted == phase # "Idle" /\ BleScans => unseen

IInv ==
  /\ TypeOK /\ ScansExclude /\ ClassicQuiet /\ DoneCounts /\ BleAdmitted
  /\ Owners /\ Starts /\ BleFresh /\ ClassicPublishing /\ BlePublishing /\ Budget

-----------------------------------------------------------------------------
(* What a batch does. *)

(* A batch publishes what it walks over, and stops early only at the end.  *)
LEMMA BatchFacts ==
  ASSUME NEW n \in Counts, NEW i \in Counts
  PROVE  /\ Published(n, i) \in 0..BatchLimit /\ i + Published(n, i) <= MaxEntries
         /\ Reached(n, i) \in Counts
         /\ ~(Reached(n, i) >= MaxEntries)
              => Reached(n, i) = i + Published(n, i) /\ Reached(n, i) <= n
         /\ Reached(n, i) >= MaxEntries /\ i <= n => i + Published(n, i) = n
         /\ n <= i => Published(n, i) = 0
         /\ 2 * BatchLimit <= MaxEntries /\ i = 0 /\ Reached(n, i) >= MaxEntries
              => Published(n, i) <= BatchLimit - 1
  BY DEF Published, Reached

-----------------------------------------------------------------------------
(* The steps of each scan within the steps of the system. *)

ClassicStep ==
  \/ ClassicScan \/ ClassicStopScan \/ ClassicBegin
  \/ DeadlineStage \/ NothingToStart \/ StartPendingScan \/ BeginFails \/ PublishStage
  \/ (\E up \in BOOLEAN : Suspend(up)) \/ Restore \/ ClassicClock

LEMMA ClassicView == Next => ClassicIdles \/ ClassicStep
  BY DEF Next, Commands, BluetoothScanStart, BluetoothScanStop, BluetoothUp,
     BluetoothBleScanStart, BleScanGoesOn, BluetoothBleScanStop, A2dpConnect, A2dpDisconnect,
     Pass, ClassicDeadline, ClassicStart, ClassicPublish, BleStart, BleDeadline,
     BlePublish, A2dp, SourceStarts, SourceFails, ShutdownEnds, SourceGoesOn,
     SourceStops, HostTask, InquiryClock, BleScanClock, ClassicStep

BleStep ==
  \/ BleScan \/ (bleInitialized /\ (ScanArms \/ ScanLaunches))
  \/ BleStop \/ LibraryCompletes \/ Callback
  \/ BleStartStage \/ BleDeadlineStage \/ BlePublishStage \/ BleClock

LEMMA BleView == Next /\ Starts => BleIdles \/ BleStep
  BY DEF Starts, ScanSteps, Next, Commands, BluetoothScanStart, BluetoothScanStop, BluetoothUp,
     BluetoothBleScanStart, BleScanGoesOn, BluetoothBleScanStop, A2dpConnect, A2dpDisconnect,
     Pass, ClassicDeadline, ClassicStart, ClassicPublish, BleStart, BleDeadline,
     BlePublish, A2dp, SourceStops, HostTask, InquiryClock, BleScanClock, BleStep

-----------------------------------------------------------------------------
(* Classic by itself. *)

ClassicInv == ClassicTypeOK /\ ClassicPublishing /\ shortfall = 0

LEMMA ClassicPublishKeeps == ClassicInv /\ PublishStage => ClassicInv'
<1> SUFFICES ASSUME ClassicInv, PublishStage PROVE ClassicInv'
    OBVIOUS
<1> USE DEF ClassicInv
<1>1. ASSUME NEW i \in Counts, NEW f \in Counts, NEW c \in BOOLEAN,
             PublishBatch(i, f, c), f <= i, ~c => f = i /\ i <= count,
             UNCHANGED <<initialized, inquiry>>, scanCompletionPending' = FALSE
      PROVE  ClassicInv'
  <2> DEFINE published == Published(count, i)
             reached == Reached(count, i)
             last == reached >= MaxEntries
  <2>1. count \in Counts /\ shortfall = 0
        BY DEF ClassicTypeOK
  <2>2. /\ scanPublishIndex' = IF last THEN 0 ELSE reached
        /\ scanPublishing' = ~last
        /\ count' = IF last THEN 0 ELSE count
        /\ found' = IF last THEN 0 ELSE f + published
        /\ cleared' = (c /\ ~last)
        /\ shortfall' = IF last /\ ~c THEN count - (f + published) ELSE shortfall
        /\ request' = IF last THEN "None" ELSE request
        BY <1>1 DEF PublishBatch
  <2>3. /\ published \in 0..BatchLimit /\ i + published <= MaxEntries
        /\ reached \in Counts
        /\ ~last => reached = i + published /\ reached <= count
        /\ last /\ i <= count => i + published = count
        BY <2>1, BatchFacts
  <2> HIDE DEF published, reached
  <2>4. /\ scanPublishIndex' \in Counts /\ count' \in Counts /\ found' \in Counts
        /\ shortfall' = 0
        BY <1>1, <2>1, <2>2, <2>3
  <2>5. /\ initialized' \in BOOLEAN /\ scanning' \in BOOLEAN
        /\ scanStartPending' \in BOOLEAN /\ scanCompletionPending' \in BOOLEAN
        /\ scanPublishing' \in BOOLEAN /\ deadlinePassed' \in BOOLEAN
        /\ cleared' \in BOOLEAN
        BY <1>1, <2>2, Zenon DEF ClassicTypeOK, inquiry
  <2>6. request' \in Requests
        BY <2>2 DEF ClassicTypeOK, Requests
  <2>7. ClassicPublishing'
        BY <1>1, <2>2, <2>3 DEF ClassicPublishing
  <2> QED BY <2>4, <2>5, <2>6, <2>7 DEF ClassicTypeOK
<1>2. CASE scanCompletionPending
  <2>1. 0 \in Counts /\ FALSE \in BOOLEAN /\ 0 <= 0 /\ 0 <= count
        BY DEF ClassicTypeOK
  <2>2. /\ PublishBatch(0, 0, FALSE)
        /\ UNCHANGED <<initialized, inquiry>> /\ scanCompletionPending' = FALSE
        BY <1>2 DEF PublishStage
  <2> HIDE DEF ClassicInv
  <2> QED BY <1>1, <2>1, <2>2
<1>3. CASE ~scanCompletionPending /\ scanPublishing
      BY <1>1, <1>3 DEF PublishStage, ClassicTypeOK, ClassicPublishing
<1>4. CASE ~scanCompletionPending /\ ~scanPublishing
  <2>1. /\ scanCompletionPending' = FALSE
        /\ UNCHANGED <<initialized, inquiry, scanPublishing, scanPublishIndex, count,
                       account, request>>
        BY <1>4 DEF PublishStage
  <2>2. scanCompletionPending' \in BOOLEAN
        BY <2>1, Zenon
  <2> QED BY <1>4, <2>1, <2>2 DEF ClassicTypeOK, ClassicPublishing, inquiry, account
<1> QED BY <1>2, <1>3, <1>4

(* Every step that clears the table of a publication says so.              *)
LEMMA ClassicKeeps == ClassicInv /\ (ClassicIdles \/ ClassicStep) => ClassicInv'
<1> SUFFICES ASSUME ClassicInv, ClassicIdles \/ ClassicStep PROVE ClassicInv'
    OBVIOUS
<1> USE DEF ClassicInv
<1>1. CASE ClassicIdles
      BY <1>1 DEF ClassicIdles, classicVars, inquiry, results, account, ClassicTypeOK,
         ClassicPublishing
<1>2. ASSUME NEW started \in BOOLEAN, StartScanNow(started), initialized' \in BOOLEAN,
             scanStartPending' \in BOOLEAN, request' \in Requests
      PROVE  ClassicInv'
  <2>1. /\ scanCompletionPending' \in BOOLEAN /\ scanning' \in BOOLEAN
        /\ deadlinePassed' \in BOOLEAN /\ cleared' \in BOOLEAN
        /\ scanPublishing' \in BOOLEAN
        BY <1>2, Zenon DEF StartScanNow, ClearTable, ClassicTypeOK
  <2>2. /\ count' = 0 /\ cleared' = (cleared \/ scanPublishing)
        /\ UNCHANGED <<scanPublishing, scanPublishIndex, found, shortfall>>
        BY <1>2 DEF StartScanNow, ClearTable
  <2> QED BY <1>2, <2>1, <2>2 DEF ClassicTypeOK, ClassicPublishing
<1>3. ASSUME CompleteScan, initialized' \in BOOLEAN, request' \in Requests,
             UNCHANGED <<scanPublishing, scanPublishIndex>>
      PROVE  ClassicInv'
  <2>1. /\ scanCompletionPending' \in BOOLEAN /\ scanning' \in BOOLEAN
        /\ deadlinePassed' \in BOOLEAN /\ cleared' \in BOOLEAN
        BY <1>3, Zenon DEF CompleteScan, ClearTable, ClassicTypeOK
  <2>2. /\ count' \in Counts /\ cleared' = (cleared \/ scanPublishing)
        /\ UNCHANGED <<scanStartPending, found, shortfall>>
        BY <1>3 DEF CompleteScan, ClearTable
  <2> QED BY <1>3, <2>1, <2>2 DEF ClassicTypeOK, ClassicPublishing
<1>4. CASE ClassicScan
  <2>1. CASE ScanCold
    <3>1. scanStartPending' \in BOOLEAN
          BY <2>1, Zenon DEF ScanCold
    <3> QED BY <1>4, <2>1, <3>1 DEF ClassicScan, ScanCold, Accept, results, account,
               ClassicTypeOK, ClassicPublishing, Requests
  <2>2. CASE ScanWarm
    <3>1. request' \in Requests
          BY <2>2 DEF ScanWarm, Accept, ClassicTypeOK, Requests
    <3>2. StartScanNow(TRUE) \/ StartScanNow(FALSE)
          BY <2>2 DEF ScanWarm
    <3>3. initialized' \in BOOLEAN /\ scanStartPending' \in BOOLEAN
          BY <1>4, <2>2 DEF ClassicScan, ScanWarm, ClassicTypeOK
    <3> QED BY <1>2, <3>1, <3>2, <3>3
  <2> QED BY <1>4, <2>1, <2>2 DEF ClassicScan
<1>5. CASE ClassicStopScan
  <2>1. CASE CancelStart
    <3>1. scanStartPending' \in BOOLEAN
          BY <2>1, Zenon DEF CancelStart
    <3> QED BY <2>1, <3>1 DEF CancelStart, results, account, ClassicTypeOK,
               ClassicPublishing, Requests
  <2>2. CASE StopInquiry
        BY <1>3, <2>2 DEF StopInquiry, ClassicTypeOK
  <2> QED BY <1>5, <2>1, <2>2 DEF ClassicStopScan
<1>6. CASE ClassicBegin \/ Restore
      BY <1>6 DEF ClassicBegin, Restore, Begin, inquiry, results, account, ClassicTypeOK,
         ClassicPublishing
<1>7. CASE DeadlineStage
  <2>1. CASE deadlinePassed /\ CompleteScan
        BY <1>3, <1>7, <2>1 DEF DeadlineStage, ClassicTypeOK, CompleteScan
  <2>2. CASE UNCHANGED <<initialized, inquiry, results, account, request>>
        BY <2>2 DEF inquiry, results, account, ClassicTypeOK, ClassicPublishing
  <2> QED BY <1>7, <2>1, <2>2 DEF DeadlineStage
<1>8. CASE NothingToStart
      BY <1>8 DEF NothingToStart, inquiry, results, account, ClassicTypeOK, ClassicPublishing
<1>9. CASE StartPendingScan
  <2>1. initialized' \in BOOLEAN /\ scanStartPending' \in BOOLEAN
        BY <1>9, Zenon DEF StartPendingScan
  <2>2. request' \in Requests
        BY <1>9 DEF StartPendingScan, ClassicTypeOK, Requests
  <2>3. StartScanNow(TRUE) \/ StartScanNow(FALSE)
        BY <1>9 DEF StartPendingScan
  <2> QED BY <1>2, <2>1, <2>2, <2>3
<1>10. CASE BeginFails
  <2>1. scanStartPending' \in BOOLEAN
        BY <1>10, Zenon DEF BeginFails
  <2> QED BY <1>10, <2>1 DEF BeginFails, results, account, ClassicTypeOK,
             ClassicPublishing, Requests
<1>11. CASE PublishStage
       BY <1>11, ClassicPublishKeeps
<1>12. ASSUME NEW up \in BOOLEAN, Suspend(up)
       PROVE  ClassicInv'
  <2>1. /\ scanPublishing' = FALSE /\ scanStartPending' = FALSE /\ scanning' = FALSE
        /\ scanCompletionPending' = (scanCompletionPending \/ scanning)
        /\ deadlinePassed' = FALSE /\ cleared' = FALSE /\ initialized' = up
        BY <1>12 DEF Suspend
  <2>2. /\ scanPublishing' \in BOOLEAN /\ scanStartPending' \in BOOLEAN
        /\ scanning' \in BOOLEAN /\ scanCompletionPending' \in BOOLEAN
        /\ deadlinePassed' \in BOOLEAN /\ cleared' \in BOOLEAN
        /\ initialized' \in BOOLEAN
        BY <1>12, <2>1, Zenon DEF ClassicTypeOK
  <2>3. /\ scanPublishIndex' \in Counts /\ count' \in Counts /\ found' \in Counts
        /\ shortfall' = 0 /\ request' \in Requests
        BY <1>12 DEF Suspend, ClassicTypeOK, Requests
  <2> QED BY <2>1, <2>2, <2>3 DEF ClassicTypeOK, ClassicPublishing
<1>13. CASE ClassicClock
  <2>1. deadlinePassed' \in BOOLEAN
        BY <1>13, Zenon DEF ClassicClock
  <2> QED BY <1>13, <2>1 DEF ClassicClock, results, account, ClassicTypeOK, ClassicPublishing
<1> QED BY <1>1, <1>4, <1>5, <1>6, <1>7, <1>8, <1>9, <1>10, <1>11, <1>12, <1>13
           DEF ClassicStep

-----------------------------------------------------------------------------
(* BLE by itself. *)

BleInv == BleTypeOK /\ BlePublishing /\ BleFresh /\ bleShortfall = 0

LEMMA BlePublishKeeps == BleInv /\ BlePublishStage => BleInv'
<1> SUFFICES ASSUME BleInv, BlePublishStage PROVE BleInv'
    OBVIOUS
<1> USE DEF BleInv
<1>1. ASSUME NEW n \in Counts, NEW i \in Counts, NEW f \in Counts, NEW c \in BOOLEAN,
             NEW logs \in Nat,
             BlePublishBatch(n, i, f, c, logs), f <= i, ~c => f = i /\ i <= n,
             bleInitialized
      PROVE  BleInv'
  <2> DEFINE published == Published(n, i)
             reached == Reached(n, i)
             last == reached >= MaxEntries
  <2>1. /\ blePublishIndex' = IF last THEN 0 ELSE reached
        /\ blePublishing' = ~last
        /\ bleCount' = IF last THEN 0 ELSE n
        /\ bleFound' = IF last THEN 0 ELSE f + published
        /\ bleCleared' = (c /\ ~last)
        /\ bleShortfall' = IF last /\ ~c THEN n - (f + published) ELSE bleShortfall
        /\ bleRequest' = IF last THEN "None" ELSE bleRequest
        BY <1>1 DEF BlePublishBatch
  <2>2. /\ published \in 0..BatchLimit /\ i + published <= MaxEntries
        /\ reached \in Counts
        /\ ~last => reached = i + published /\ reached <= n
        /\ last /\ i <= n => i + published = n
        BY BatchFacts
  <2> HIDE DEF published, reached
  <2>3. /\ blePublishIndex' \in Counts /\ bleCount' \in Counts /\ bleFound' \in Counts
        /\ bleShortfall' = 0
        BY <1>1, <2>1, <2>2
  <2>4. /\ bleDone' = FALSE
        /\ UNCHANGED <<bleInitialized, bleStartPending, bleScanning, bleDeadlinePassed,
                       instance, library, callback>>
        BY DEF BlePublishStage
  <2>5. /\ bleInitialized' \in BOOLEAN /\ bleStartPending' \in BOOLEAN
        /\ bleScanning' \in BOOLEAN /\ bleDone' \in BOOLEAN
        /\ blePublishing' \in BOOLEAN /\ bleDeadlinePassed' \in BOOLEAN
        /\ instance' \in BOOLEAN /\ library' \in BOOLEAN /\ callback' \in CallbackSteps
        /\ bleCleared' \in BOOLEAN
        BY <1>1, <2>1, <2>4, Zenon DEF BleTypeOK
  <2>6. bleRequest' \in Requests
        BY <2>1 DEF BleTypeOK, Requests
  <2>7. BlePublishing'
        BY <1>1, <2>1, <2>2 DEF BlePublishing
  <2> QED BY <1>1, <2>3, <2>4, <2>5, <2>6, <2>7 DEF BleTypeOK, BleFresh
<1>2. CASE bleDone
  <2>1. PICK entries \in Counts : BlePublishBatch(entries, 0, 0, FALSE, 1)
        BY <1>2 DEF BlePublishStage
  <2>2. 0 \in Counts /\ FALSE \in BOOLEAN /\ 0 <= 0 /\ 0 <= entries /\ 1 \in Nat
        BY <2>1
  <2>3. bleInitialized
        BY <1>2 DEF BleFresh
  <2> HIDE DEF BleInv
  <2> QED BY <1>1, <2>1, <2>2, <2>3
<1>3. CASE ~bleDone /\ blePublishing
  <2>1. /\ BlePublishBatch(bleCount, blePublishIndex, bleFound, bleCleared, 0)
        /\ bleInitialized /\ 0 \in Nat
        BY <1>3 DEF BlePublishStage, BleFresh
  <2> QED BY <1>1, <1>3, <2>1 DEF BleTypeOK, BlePublishing
<1>4. CASE ~bleDone /\ ~blePublishing
  <2>1. UNCHANGED <<bleInitialized, bleStartPending, bleScanning, bleDone,
                    bleDeadlinePassed, instance, library, callback, bleResults,
                    bleAccount, bleRequest>>
        BY <1>4 DEF BlePublishStage, BleTypeOK
  <2> QED BY <2>1 DEF BleTypeOK, BlePublishing, BleFresh, bleResults, bleAccount
<1> QED BY <1>2, <1>3, <1>4

LEMMA BleKeeps == BleInv /\ (BleIdles \/ BleStep) => BleInv'
<1> SUFFICES ASSUME BleInv, BleIdles \/ BleStep PROVE BleInv'
    OBVIOUS
<1> USE DEF BleInv
<1>1. CASE BleIdles
      BY <1>1 DEF BleIdles, bleVars, bleScan, bleResults, bleAccount, BleTypeOK,
         BlePublishing, BleFresh
<1>2. CASE BleScan
  <2>1. /\ bleCount' = 0 /\ bleCleared' = (bleCleared \/ blePublishing)
        /\ bleDone' = FALSE /\ bleStartPending' = ~bleInitialized
        /\ UNCHANGED <<bleInitialized, bleScanning, bleDeadlinePassed, instance, library,
                       blePublishing, blePublishIndex, callback,
                       bleFound, bleShortfall>>
        BY <1>2 DEF BleScan
  <2>2. /\ bleDone' \in BOOLEAN /\ bleStartPending' \in BOOLEAN
        /\ bleCleared' \in BOOLEAN
        BY <1>2, <2>1, Zenon DEF BleTypeOK
  <2>3. bleRequest' \in Requests
        BY <1>2 DEF BleScan, BleTypeOK, Requests
  <2>4. BleFresh'
        BY <2>1 DEF BleFresh
  <2> QED BY <2>1, <2>2, <2>3, <2>4 DEF BleTypeOK, BlePublishing
<1>3. CASE BleStop
  <2>1. /\ bleStartPending' \in BOOLEAN /\ library' \in BOOLEAN
        /\ bleRequest' \in Requests /\ (library' => library)
    <3>1. CASE BleCancelStart
      <4>1. bleStartPending' \in BOOLEAN /\ library' \in BOOLEAN /\ (library' => library)
            BY <3>1, Zenon DEF BleCancelStart, BleTypeOK
      <4> QED BY <3>1, <4>1 DEF BleCancelStart, Requests
    <3>2. CASE BleStopScan
      <4>1. bleStartPending' \in BOOLEAN /\ library' \in BOOLEAN /\ (library' => library)
            BY <3>2, Zenon DEF BleStopScan, LibraryStops, BleTypeOK
      <4> QED BY <3>2, <4>1 DEF BleStopScan, BleTypeOK
    <3> QED BY <1>3, <3>1, <3>2 DEF BleStop
  <2>2. UNCHANGED <<bleInitialized, bleScanning, bleDone, bleDeadlinePassed, instance,
                    callback, bleResults, bleAccount>>
        BY <1>3 DEF BleStop
  <2> QED BY <2>1, <2>2 DEF BleTypeOK, BlePublishing, BleFresh, bleResults, bleAccount
<1>4. CASE LibraryCompletes \/ Callback
  <2>1. /\ bleScanning' \in BOOLEAN /\ bleDone' \in BOOLEAN /\ bleDeadlinePassed' \in BOOLEAN
        /\ instance' \in BOOLEAN /\ library' \in BOOLEAN
    <3>1. CASE LibraryCompletes
          BY <3>1, Zenon DEF LibraryCompletes, BleTypeOK
    <3>2. CASE CallbackClears
          BY <3>2, Zenon DEF CallbackClears, BleTypeOK
    <3>3. CASE CallbackSignals
          BY <3>3, Zenon DEF CallbackSignals, BleTypeOK
    <3>4. CASE CallbackForgets
          BY <3>4, Zenon DEF CallbackForgets, BleTypeOK
    <3> QED BY <1>4, <3>1, <3>2, <3>3, <3>4 DEF Callback
  <2>2. callback' \in CallbackSteps
        BY <1>4 DEF LibraryCompletes, Callback, CallbackClears, CallbackSignals,
           CallbackForgets, CallbackSteps
  <2>3. CallbackOnly
        BY <1>4 DEF LibraryCompletes, Callback, CallbackClears, CallbackSignals,
           CallbackForgets
  <2>4. bleInitialized
        BY <1>4 DEF LibraryCompletes, Callback, CallbackClears, CallbackSignals,
           CallbackForgets, BleFresh
  <2> QED BY <2>1, <2>2, <2>3, <2>4 DEF CallbackOnly, BleTypeOK, BlePublishing, BleFresh,
             bleResults, bleAccount
<1>5. CASE BleStartStage
  <2>1. /\ bleInitialized' \in BOOLEAN /\ bleStartPending' \in BOOLEAN
        /\ bleScanning' \in BOOLEAN /\ bleDeadlinePassed' \in BOOLEAN
        /\ instance' \in BOOLEAN /\ library' \in BOOLEAN
        BY <1>5, Zenon DEF BleStartStage, BleNothingToStart, BleBeginFails,
           BleStartPendingScan, Start, BleTypeOK
  <2>2. /\ bleRequest' \in Requests
        /\ UNCHANGED <<bleDone, callback, bleResults, bleAccount>>
        BY <1>5 DEF BleStartStage, BleNothingToStart, BleBeginFails,
           BleStartPendingScan, BleTypeOK, Requests
  <2>3. BleFresh'
        BY <1>5 DEF BleStartStage, BleNothingToStart, BleBeginFails,
           BleStartPendingScan, BleFresh, bleResults
  <2> QED BY <2>1, <2>2, <2>3 DEF BleTypeOK, BlePublishing, bleResults, bleAccount
<1>6. CASE BleDeadlineStage
  <2>1. /\ bleScanning' \in BOOLEAN /\ bleDone' \in BOOLEAN /\ bleDeadlinePassed' \in BOOLEAN
        /\ instance' \in BOOLEAN /\ library' \in BOOLEAN
        BY <1>6, Zenon DEF BleDeadlineStage, LibraryStops, BleTypeOK
  <2>2. UNCHANGED <<bleInitialized, bleStartPending, callback, bleResults, bleAccount,
                    bleRequest>>
        BY <1>6 DEF BleDeadlineStage
  <2>3. BleFresh'
        BY <1>6, <2>2 DEF BleDeadlineStage, BleFresh, bleResults
  <2> QED BY <2>1, <2>2, <2>3 DEF BleTypeOK, BlePublishing, bleResults, bleAccount
<1>7. CASE BlePublishStage
      BY <1>7, BlePublishKeeps
<1>8. CASE BleClock
  <2>1. bleDeadlinePassed' \in BOOLEAN
        BY <1>8, Zenon DEF BleClock
  <2> QED BY <1>8, <2>1 DEF BleClock, BleTypeOK, BlePublishing, BleFresh, bleResults,
             bleAccount
<1>9. CASE bleInitialized /\ (ScanArms \/ ScanLaunches)
  <2>1. CASE ScanArms
    <3>1. instance' \in BOOLEAN
          BY <2>1, Zenon DEF ScanArms
    <3> QED BY <1>9, <2>1, <3>1 DEF ScanArms, BleTypeOK, BlePublishing, BleFresh, bleResults,
               bleAccount
  <2>2. CASE ScanLaunches
    <3>1. /\ bleScanning' \in BOOLEAN /\ bleDeadlinePassed' \in BOOLEAN
          /\ instance' \in BOOLEAN /\ library' \in BOOLEAN
          BY <2>2, Zenon DEF ScanLaunches, BleTypeOK
    <3>2. /\ bleRequest' \in Requests
          /\ UNCHANGED <<bleInitialized, bleStartPending, bleDone, callback, bleResults,
                         bleAccount>>
          BY <2>2 DEF ScanLaunches, BleTypeOK, Requests
    <3> QED BY <1>9, <3>1, <3>2 DEF BleTypeOK, BlePublishing, BleFresh, bleResults,
               bleAccount
  <2> QED BY <1>9, <2>1, <2>2
<1> QED BY <1>1, <1>2, <1>3, <1>4, <1>5, <1>6, <1>7, <1>8, <1>9 DEF BleStep

-----------------------------------------------------------------------------
(* The two scans and the source together. *)

Ownership == ScansExclude /\ ClassicQuiet /\ Owners /\ Starts

LEMMA OwnershipKeeps ==
  TypeOK /\ Ownership /\ BleFresh /\ [Next]_vars => Ownership'
<1> SUFFICES ASSUME TypeOK, Ownership, BleFresh, [Next]_vars PROVE Ownership'
    OBVIOUS
<1> USE DEF Ownership, ScansExclude, ClassicQuiet, Owners, Starts, ScanSteps
<1>1. CASE UNCHANGED vars
      BY <1>1 DEF vars, classicVars, bleVars, inquiry, results, bleScan, bleResults, session
<1>2. CASE BluetoothScanStart
  <2>1. /\ pc = "Commands" /\ pc' = pc /\ phase # "Running" /\ phase' = phase
        /\ ~bleScanning /\ ~bleStartPending /\ ~bleScanning' /\ ~bleStartPending'
        BY <1>2 DEF BluetoothScanStart, Command, BleBusy, BleIdles, bleVars, bleScan, session
  <2>2. ~(scanning' /\ scanStartPending')
        BY <1>2 DEF BluetoothScanStart, ClassicScan, ScanCold, ScanWarm, StartScanNow
  <2> QED BY <2>1, <2>2
<1>3. CASE BluetoothScanStop
  <2>1. /\ pc = "Commands" /\ pc' = pc /\ phase' = phase
        /\ UNCHANGED <<bleInitialized, bleScanning, bleStartPending>>
        BY <1>3 DEF BluetoothScanStop, Command, BleIdles, bleVars, bleScan, session
  <2>2. /\ ~scanStartPending' /\ (scanning' => scanning)
        /\ UNCHANGED scanPublishing
        BY <1>3 DEF BluetoothScanStop, ClassicStopScan, CancelStart, StopInquiry,
           CompleteScan, results
  <2> QED BY <2>1, <2>2
<1>4. CASE BluetoothUp
      BY <1>4 DEF BluetoothUp, Command, ClassicBegin, BleIdles, bleVars, bleScan, session,
         inquiry, results
<1>5. CASE BluetoothBleScanStart
  <2>1. /\ pc = "Commands" /\ phase' = phase
        /\ ~scanning' /\ ~scanStartPending' /\ ~scanPublishing'
        BY <1>5 DEF BluetoothBleScanStart, ClassicBusy, ClassicIdles, classicVars, inquiry,
           results, session
  <2>2. /\ bleStartPending' = ~bleInitialized /\ UNCHANGED <<bleInitialized, bleScanning>>
        /\ pc' = IF bleInitialized THEN "ScanArms" ELSE "Commands"
        BY <1>5 DEF BluetoothBleScanStart, BleScan
  <2> QED BY <2>1, <2>2
<1>6. CASE BluetoothBleScanStop
  <2>1. /\ pc = "Commands" /\ pc' = pc /\ phase' = phase
        /\ UNCHANGED <<scanning, scanStartPending, scanPublishing>>
        BY <1>6 DEF BluetoothBleScanStop, Command, ClassicIdles, classicVars, inquiry,
           results, session
  <2>2. /\ UNCHANGED <<bleInitialized, bleScanning>>
        /\ bleStartPending' => bleStartPending
        BY <1>6 DEF BluetoothBleScanStop, BleStop, BleCancelStart, BleStopScan
  <2> QED BY <2>1, <2>2
<1>7. CASE A2dpConnect \/ A2dpDisconnect
  <2>1. /\ UNCHANGED <<pc, scanning, scanStartPending, scanPublishing, bleInitialized,
                       bleScanning, bleStartPending>>
        /\ phase' # "Running"
        BY <1>7 DEF A2dpConnect, A2dpDisconnect, Command, Session!Accept, Session!Cancel,
           ClassicIdles, classicVars, inquiry, results, BleIdles, bleVars, bleScan
  <2> QED BY <2>1
<1>8. CASE ClassicDeadline
  <2>1. /\ pc = "Commands" /\ pc' = "ClassicStart" /\ phase' = phase
        /\ UNCHANGED <<bleInitialized, bleScanning, bleStartPending>>
        BY <1>8 DEF ClassicDeadline, Stage, BleIdles, bleVars, bleScan, session
  <2>2. /\ UNCHANGED <<scanStartPending, scanPublishing>> /\ (scanning' => scanning)
        BY <1>8 DEF ClassicDeadline, DeadlineStage, CompleteScan, inquiry, results
  <2> QED BY <2>1, <2>2
<1>9. CASE ClassicStart
  <2>1. /\ pc = "ClassicStart" /\ phase' = phase
        /\ UNCHANGED <<bleInitialized, bleScanning, bleStartPending>>
        BY <1>9 DEF ClassicStart, Stage, BleIdles, bleVars, bleScan, session
  <2>2. CASE pc' = "ClassicPublish" /\ (NothingToStart \/ StartPendingScan)
    <3>1. /\ ~scanStartPending' /\ UNCHANGED scanPublishing
          /\ scanning' => scanning \/ scanStartPending
          BY <2>2 DEF NothingToStart, StartPendingScan, StartScanNow, inquiry, results
    <3> QED BY <2>1, <2>2, <3>1
  <2>3. CASE pc' = "BleStart" /\ BeginFails
    <3>1. ~scanStartPending' /\ UNCHANGED <<scanPublishing, scanning>>
          BY <2>3 DEF BeginFails, results
    <3> QED BY <2>1, <2>3, <3>1
  <2> QED BY <1>9, <2>2, <2>3 DEF ClassicStart, Stage
<1>10. CASE ClassicPublish
  <2>1. /\ pc = "ClassicPublish" /\ pc' = "BleStart" /\ phase' = phase
        /\ UNCHANGED <<scanning, scanStartPending, bleInitialized, bleScanning,
                       bleStartPending>>
        BY <1>10 DEF ClassicPublish, PublishStage, Stage, BleIdles, bleVars, bleScan,
           session, inquiry
  <2> QED BY <2>1
<1>11. CASE BleStart
  <2>1. /\ pc = "BleStart" /\ pc' = "BleDeadline" /\ phase' = phase
        /\ UNCHANGED <<scanning, scanStartPending, scanPublishing>>
        BY <1>11 DEF BleStart, Stage, ClassicIdles, classicVars, inquiry, results, session
  <2>2. ~bleStartPending' /\ (bleScanning' => bleScanning \/ bleStartPending)
        BY <1>11 DEF BleStart, BleStartStage, BleNothingToStart, BleBeginFails,
           BleStartPendingScan, Start
  <2> QED BY <2>1, <2>2
<1>12. CASE BleDeadline
  <2>1. /\ pc = "BleDeadline" /\ pc' = "BlePublish" /\ phase' = phase
        /\ UNCHANGED <<scanning, scanStartPending, scanPublishing>>
        BY <1>12 DEF BleDeadline, Stage, ClassicIdles, classicVars, inquiry, results, session
  <2>2. /\ UNCHANGED bleStartPending /\ (bleScanning' => bleScanning)
        BY <1>12 DEF BleDeadline, BleDeadlineStage
  <2> QED BY <2>1, <2>2
<1>13. CASE BlePublish
  <2>1. /\ pc = "BlePublish" /\ pc' = "A2dp" /\ phase' = phase
        /\ UNCHANGED <<scanning, scanStartPending, scanPublishing, bleScanning,
                       bleStartPending, bleInitialized>>
        BY <1>13 DEF BlePublish, BlePublishStage, Stage, ClassicIdles, classicVars, inquiry,
           results, session
  <2> QED BY <2>1
<1>14. CASE A2dp
  <2>1. /\ pc = "A2dp" /\ pc' = "Commands"
        /\ UNCHANGED <<bleInitialized, bleScanning, bleStartPending>>
        BY <1>14 DEF A2dp, Stage, BleIdles, bleVars, bleScan
  <2>2. CASE SourceStarts \/ SourceFails
    <3>1. ~scanning' /\ ~scanStartPending'
          BY <2>2 DEF SourceStarts, SourceFails, Suspend
    <3> QED BY <2>1, <3>1
  <2>3. CASE ShutdownEnds
    <3>1. UNCHANGED <<scanning, scanStartPending, scanPublishing>> /\ phase' # "Running"
          BY <2>3 DEF ShutdownEnds, Restore, Session!Finish, Session!FallBack, inquiry, results
    <3> QED BY <2>1, <3>1
  <2>4. CASE SourceGoesOn
    <3>1. UNCHANGED <<scanning, scanStartPending, scanPublishing, phase>>
          BY <2>4 DEF SourceGoesOn, ClassicIdles, classicVars, inquiry, results, session
    <3> QED BY <2>1, <3>1
  <2> QED BY <1>14, <2>2, <2>3, <2>4 DEF A2dp
<1>15. CASE SourceStops
      BY <1>15 DEF SourceStops, Command, Session!Stop, ClassicIdles, classicVars, inquiry, results,
         BleIdles, bleVars, bleScan
<1>16. CASE HostTask
  <2>1. /\ UNCHANGED <<pc, phase, scanning, scanStartPending, scanPublishing>>
        BY <1>16 DEF HostTask, ClassicIdles, classicVars, inquiry, results, session
  <2>2. /\ UNCHANGED <<bleInitialized, bleStartPending>> /\ (bleScanning' => bleScanning)
        BY <1>16 DEF HostTask, LibraryCompletes, Callback, CallbackClears, CallbackSignals,
           CallbackForgets, CallbackOnly
  <2> QED BY <2>1, <2>2
<1>17. CASE InquiryClock \/ BleScanClock
  <2>1. UNCHANGED <<pc, phase, scanning, scanStartPending, scanPublishing, bleInitialized,
                    bleScanning, bleStartPending>>
        BY <1>17 DEF InquiryClock, BleScanClock, ClassicClock, BleClock, ClassicIdles,
           classicVars, inquiry, results, BleIdles, bleVars, bleScan, session
  <2> QED BY <2>1
<1>18. CASE BleScanGoesOn
  <2>1. /\ pc \in ScanSteps /\ phase' = phase /\ pc' \in {"ScanLaunches", "Commands"}
        /\ UNCHANGED <<scanning, scanStartPending, scanPublishing>>
        BY <1>18 DEF BleScanGoesOn, ClassicIdles, classicVars, inquiry, results, session
  <2>2. UNCHANGED <<bleInitialized, bleStartPending>>
        BY <1>18 DEF BleScanGoesOn, ScanArms, ScanLaunches
  <2> QED BY <2>1, <2>2
<1> QED BY <1>1, <1>2, <1>3, <1>4, <1>5, <1>6, <1>7, <1>8, <1>9, <1>10, <1>11, <1>12,
           <1>13, <1>14, <1>15, <1>16, <1>17, <1>18 DEF Next, Commands, Pass

-----------------------------------------------------------------------------
(* BLE and the session. *)

(* A BLE scan begins by its command, which is refused beside the source.   *)
LEMMA BleScanAccepted ==
  ASSUME Next, ~BleScans, BleScans'
  PROVE  phase # "Running"
<1> USE DEF BleScans, ScanSteps
<1>1. CASE BluetoothBleScanStart
      BY <1>1 DEF BluetoothBleScanStart
<1>2. CASE BleScanGoesOn
      BY <1>2 DEF BleScanGoesOn
<1>3. CASE BluetoothBleScanStop
      BY <1>3 DEF BluetoothBleScanStop, BleStop, BleCancelStart, BleStopScan, Command
<1>4. CASE \/ BluetoothScanStart \/ BluetoothScanStop \/ BluetoothUp
           \/ A2dpConnect \/ A2dpDisconnect \/ SourceStops
      BY <1>4 DEF BluetoothScanStart, BluetoothScanStop, BluetoothUp, A2dpConnect,
         A2dpDisconnect, SourceStops, Command, BleIdles, bleVars, bleScan
<1>5. CASE ClassicDeadline \/ ClassicStart \/ ClassicPublish \/ A2dp
      BY <1>5 DEF ClassicDeadline, ClassicStart, ClassicPublish, A2dp, Stage, BleIdles,
         bleVars, bleScan
<1>6. CASE BleStart
  <2>1. BleNothingToStart /\ pc' = "BleDeadline"
        BY <1>6 DEF BleStart, Stage, BleStartStage, BleBeginFails, BleStartPendingScan
  <2> QED BY <2>1 DEF BleNothingToStart
<1>7. CASE BleDeadline \/ BlePublish
      BY <1>7 DEF BleDeadline, BlePublish, Stage, BleDeadlineStage, BlePublishStage
<1>8. CASE HostTask
      BY <1>8 DEF HostTask, LibraryCompletes, Callback, CallbackClears, CallbackSignals,
         CallbackForgets, CallbackOnly
<1>9. CASE InquiryClock \/ BleScanClock
      BY <1>9 DEF InquiryClock, BleScanClock, BleClock, BleIdles, bleVars, bleScan
<1> QED BY <1>1, <1>2, <1>3, <1>4, <1>5, <1>6, <1>7, <1>8, <1>9 DEF Next, Commands, Pass

(* A session begins by a connect, which is refused beside a BLE scan, or   *)
(* by an empty shutdown, which leaves the scan as it is.                   *)
LEMMA SessionBegins ==
  ASSUME Next, phase = "Idle", phase' # "Idle"
  PROVE  ~BleScans' \/ (BleScans /\ phase' = "Stopping")
<1>1. A2dpConnect \/ SourceStops
      BY DEF Next, Commands, BluetoothScanStart, BluetoothScanStop, BluetoothUp,
         BluetoothBleScanStart, BleScanGoesOn, BluetoothBleScanStop, A2dpDisconnect,
         Session!Cancel, Pass, ClassicDeadline, ClassicStart, ClassicPublish, BleStart,
         BleDeadline, BlePublish, A2dp, SourceStarts, SourceFails, ShutdownEnds,
         SourceGoesOn, Session!Start, Session!Finish, Session!FallBack, HostTask,
         InquiryClock, BleScanClock, session
<1>2. CASE A2dpConnect
      BY <1>2 DEF A2dpConnect, Command, BleBusy, BleScans, ScanSteps, BleIdles, bleVars,
         bleScan
<1>3. CASE SourceStops
      BY <1>3 DEF SourceStops, Session!Stop, Command, BleScans, BleIdles, bleVars, bleScan
<1> QED BY <1>1, <1>2, <1>3

LEMMA AdmissionKeeps ==
  TypeOK /\ BleAdmitted /\ [Next]_vars => BleAdmitted' /\ unseen' \in BOOLEAN
<1> SUFFICES ASSUME TypeOK, BleAdmitted, [Next]_vars
             PROVE  BleAdmitted' /\ unseen' \in BOOLEAN
    OBVIOUS
<1>1. CASE UNCHANGED vars
      BY <1>1 DEF vars, session, bleVars, bleScan, BleAdmitted, BleScans, TypeOK
<1>2. CASE Next
  <2>1. Watch
        BY <1>2 DEF Next
  <2>2. unseen' \in BOOLEAN
        BY <2>1, Zenon DEF Watch
  <2>3. ASSUME phase' # "Idle", BleScans', phase # "Idle", ~BleScans
        PROVE  MeetUnseen
        BY <1>2, <2>3, BleScanAccepted DEF MeetUnseen, TypeOK, SessionPhases
  <2>4. ASSUME phase' # "Idle", BleScans', phase = "Idle"
        PROVE  MeetUnseen
        BY <1>2, <2>4, SessionBegins DEF MeetUnseen
  <2>5. BleAdmitted'
        BY <2>1, <2>3, <2>4 DEF Watch, BleAdmitted
  <2> QED BY <2>2, <2>5
<1> QED BY <1>1, <1>2

-----------------------------------------------------------------------------
(* The records of one pass. *)

(* A first batch that is also the last is not a full one.                  *)
LEMMA BatchSizes ==
  ASSUME NEW n \in Counts, NEW i \in Counts
  PROVE  /\ Published(n, i) \in 0..BatchLimit
         /\ i = 0 /\ Reached(n, i) >= MaxEntries => Published(n, i) <= BatchLimit - 1
         /\ n = 0 => Published(n, i) = 0
<1>1. 2 * BatchLimit <= MaxEntries
      BY RingHoldsScans
<1>2. n = 0 => n <= i
      OBVIOUS
<1>3. /\ Published(n, i) \in 0..BatchLimit
      /\ n <= i => Published(n, i) = 0
      BY BatchFacts
<1>4. 2 * BatchLimit <= MaxEntries /\ i = 0 /\ Reached(n, i) >= MaxEntries
        => Published(n, i) <= BatchLimit - 1
      BY BatchFacts
<1> QED BY <1>1, <1>2, <1>3, <1>4

LEMMA ClassicPublishBudget ==
  TypeOK /\ Ownership /\ Budget /\ ClassicPublish => Budget'
<1> SUFFICES ASSUME TypeOK, Ownership, Budget, ClassicPublish PROVE Budget'
    OBVIOUS
<1> USE DEF ScanSteps
<1>1. /\ pc = "ClassicPublish" /\ pc' = "BleStart" /\ PublishStage
      /\ UNCHANGED <<bleScanning, bleStartPending>>
      BY DEF ClassicPublish, Stage, BleIdles, bleVars, bleScan
<1>2. /\ burst \in Nat /\ count \in Counts /\ scanPublishIndex \in Counts
      /\ 0 \in Counts /\ BatchLimit \in Nat \ {0} /\ Capacity \in Nat
      BY RingAssumption DEF TypeOK, ClassicTypeOK
<1>3. \/ burst = 0
      \/ (burst = 1 /\ BleQuiet /\ scanCompletionPending)
      \/ (burst <= 4 /\ BleQuiet /\ count = 0 /\ ~scanCompletionPending)
      BY <1>1 DEF Budget
<1>4. 3 * BatchLimit + 3 <= Capacity /\ BatchLimit + 6 <= Capacity
      BY RingHoldsScans
<1>5. BleQuiet => BleQuiet'
      BY <1>1 DEF BleQuiet
<1>6. SUFFICES \/ burst' <= 2 * BatchLimit
               \/ (burst' <= 2 * BatchLimit + 1 /\ ~bleStartPending)
               \/ (burst' <= 5 /\ BleQuiet)
      <2>1. burst' <= Capacity
        <3>1. burst' \in Nat
          <4>1. \A i \in Counts : Published(count, i) \in Nat
                BY <1>2, BatchSizes
          <4> QED BY <1>1, <1>2, <4>1 DEF PublishStage, PublishBatch, Send
        <3> QED BY <1>2, <1>4, <1>6, <3>1
      <2> QED BY <1>1, <1>5, <1>6, <2>1 DEF Budget
<1>7. CASE scanCompletionPending
  <2> DEFINE p == Published(count, 0)
             last == Reached(count, 0) >= MaxEntries
  <2>1. burst' = burst + (2 * p + (IF last THEN 1 ELSE 0))
        BY <1>1, <1>7 DEF PublishStage, PublishBatch, Send
  <2>2. p \in 0..BatchLimit /\ (last => p <= BatchLimit - 1)
        BY <1>2, BatchSizes
  <2>3. burst = 0 \/ (burst = 1 /\ ~bleStartPending)
        BY <1>3, <1>7 DEF BleQuiet
  <2> HIDE DEF p, last
  <2> QED BY <1>2, <2>1, <2>2, <2>3
<1>8. CASE ~scanCompletionPending /\ scanPublishing
  <2> DEFINE p == Published(count, scanPublishIndex)
             last == Reached(count, scanPublishIndex) >= MaxEntries
  <2>1. burst' = burst + (2 * p + (IF last THEN 1 ELSE 0))
        BY <1>1, <1>8 DEF PublishStage, PublishBatch, Send
  <2>2. p \in 0..BatchLimit /\ (count = 0 => p = 0)
        BY <1>2, BatchSizes
  <2>3. ~bleStartPending
        BY <1>1, <1>8 DEF Ownership, Starts
  <2>4. burst = 0 \/ (burst <= 4 /\ BleQuiet /\ count = 0)
        BY <1>3, <1>8
  <2> HIDE DEF p, last
  <2> QED BY <1>2, <2>1, <2>2, <2>3, <2>4
<1>9. CASE ~scanCompletionPending /\ ~scanPublishing
  <2>1. burst' = burst
        BY <1>1, <1>9 DEF PublishStage
  <2> QED BY <1>2, <1>3, <1>9, <2>1
<1> QED BY <1>7, <1>8, <1>9

LEMMA BlePublishBudget == TypeOK /\ Budget /\ BlePublish => Budget'
<1> SUFFICES ASSUME TypeOK, Budget, BlePublish PROVE Budget'
    OBVIOUS
<1> USE DEF ScanSteps
<1>1. pc = "BlePublish" /\ pc' = "A2dp" /\ BlePublishStage
      BY DEF BlePublish, Stage
<1>2. /\ burst \in Nat /\ bleCount \in Counts /\ blePublishIndex \in Counts
      /\ 0 \in Counts /\ BatchLimit \in Nat \ {0} /\ Capacity \in Nat
      BY RingAssumption DEF TypeOK, BleTypeOK
<1>3. /\ burst <= Capacity
      /\ \/ burst <= 2 * BatchLimit + 2
         \/ (~bleDone /\ ~blePublishing)
         \/ burst <= 5
      BY <1>1 DEF Budget, BleInert
<1>4. 3 * BatchLimit + 3 <= Capacity /\ BatchLimit + 6 <= Capacity
      BY RingHoldsScans
<1>5. SUFFICES burst' <= Capacity
      BY <1>1 DEF Budget
<1>6. CASE bleDone
  <2>1. PICK entries \in Counts : BlePublishBatch(entries, 0, 0, FALSE, 1)
        BY <1>1, <1>6 DEF BlePublishStage
  <2> DEFINE p == Published(entries, 0)
             last == Reached(entries, 0) >= MaxEntries
  <2>2. burst' = burst + (1 + p + (IF last THEN 1 ELSE 0))
        BY <2>1 DEF BlePublishBatch, Send
  <2>3. p \in 0..BatchLimit /\ (last => p <= BatchLimit - 1)
        BY <1>2, BatchSizes
  <2> HIDE DEF p, last
  <2> QED BY <1>2, <1>3, <1>4, <1>6, <2>2, <2>3
<1>7. CASE ~bleDone /\ blePublishing
  <2> DEFINE p == Published(bleCount, blePublishIndex)
             last == Reached(bleCount, blePublishIndex) >= MaxEntries
  <2>1. burst' = burst + (0 + p + (IF last THEN 1 ELSE 0))
        BY <1>1, <1>7 DEF BlePublishStage, BlePublishBatch, Send
  <2>2. p \in 0..BatchLimit
        BY <1>2, BatchSizes
  <2> HIDE DEF p, last
  <2> QED BY <1>2, <1>3, <1>4, <1>7, <2>1, <2>2
<1>8. CASE ~bleDone /\ ~blePublishing
      BY <1>1, <1>3, <1>8 DEF BlePublishStage
<1> QED BY <1>6, <1>7, <1>8

LEMMA BudgetKeeps ==
  TypeOK /\ Ownership /\ BleFresh /\ Budget /\ [Next]_vars => Budget'
<1> SUFFICES ASSUME TypeOK, Ownership, BleFresh, Budget, [Next]_vars PROVE Budget'
    OBVIOUS
<1> USE DEF ScanSteps
<1>0. /\ burst \in Nat /\ BatchLimit \in Nat \ {0} /\ Capacity \in Nat
      /\ 3 * BatchLimit + 3 <= Capacity /\ BatchLimit + 6 <= Capacity
      BY RingAssumption, RingHoldsScans DEF TypeOK
<1>1. CASE UNCHANGED vars
      BY <1>1 DEF vars, classicVars, bleVars, inquiry, results, bleScan, bleResults,
         Budget, BleQuiet, BleInert
<1>2. CASE Commands
  <2>1. /\ pc \in ScanSteps \cup {"Commands"} /\ pc' \in ScanSteps \cup {"Commands"}
        /\ UNCHANGED burst
        BY <1>2 DEF Commands, BluetoothScanStart, BluetoothScanStop, BluetoothUp,
           BluetoothBleScanStart, BleScanGoesOn, BluetoothBleScanStop, A2dpConnect,
           A2dpDisconnect, SourceStops, Command, ScanSteps
  <2> QED BY <1>0, <2>1 DEF Budget, ScanSteps
<1>3. CASE ClassicDeadline
  <2>1. /\ pc = "Commands" /\ pc' = "ClassicStart" /\ burst = 0
        /\ UNCHANGED <<bleScanning, bleStartPending>>
        BY <1>3 DEF ClassicDeadline, Stage, Budget, BleIdles, bleVars, bleScan
  <2>2. \/ burst' = 0
        \/ /\ burst' = 1 /\ scanning
           /\ scanCompletionPending' /\ UNCHANGED scanStartPending
        BY <1>3, <2>1 DEF ClassicDeadline, DeadlineStage, CompleteScan, Send
  <2> QED BY <1>0, <2>1, <2>2 DEF Budget, BleQuiet, Ownership, Owners, ScansExclude
<1>4. CASE ClassicStart
  <2>1. /\ pc = "ClassicStart" /\ UNCHANGED <<bleScanning, bleStartPending>>
        BY <1>4 DEF ClassicStart, Stage, BleIdles, bleVars, bleScan
  <2>2. scanStartPending => burst = 0 /\ BleQuiet
        BY <2>1 DEF Budget, Ownership, ScansExclude, BleQuiet
  <2>3. CASE pc' = "ClassicPublish" /\ NothingToStart
        BY <2>1, <2>3 DEF NothingToStart, Budget, BleQuiet, results
  <2>4. CASE pc' = "ClassicPublish" /\ StartPendingScan
    <3>1. /\ count' = 0 /\ ~scanCompletionPending' /\ scanStartPending
          /\ burst' \in burst..(burst + 4)
          BY <1>0, <2>4 DEF StartPendingScan, StartScanNow, Send, BegunLog
    <3> QED BY <1>0, <2>1, <2>2, <2>4, <3>1 DEF Budget, BleQuiet
  <2>5. CASE pc' = "BleStart" /\ BeginFails
    <3>1. scanStartPending /\ burst' = burst + 3
          BY <2>5 DEF BeginFails, Send
    <3> QED BY <1>0, <2>1, <2>2, <2>5, <3>1 DEF Budget, BleQuiet
  <2> QED BY <1>4, <2>3, <2>4, <2>5 DEF ClassicStart, Stage
<1>5. CASE ClassicPublish
      BY <1>5, ClassicPublishBudget
<1>6. CASE BleStart
  <2>1. pc = "BleStart" /\ pc' = "BleDeadline" /\ BleStartStage
        BY <1>6 DEF BleStart, Stage
  <2>2. \/ burst <= 2 * BatchLimit
        \/ (burst <= 2 * BatchLimit + 1 /\ ~bleStartPending)
        \/ (burst <= 5 /\ BleQuiet)
        BY <2>1 DEF Budget
  <2>3. CASE ~bleStartPending
    <3>1. UNCHANGED <<burst, bleScanning, bleStartPending>>
          BY <2>1, <2>3 DEF BleStartStage, BleNothingToStart, BleBeginFails,
             BleStartPendingScan
    <3> QED BY <1>0, <2>1, <2>2, <2>3, <3>1 DEF Budget, BleQuiet
  <2>4. CASE bleStartPending
    <3>1. burst <= 2 * BatchLimit
          BY <2>2, <2>4 DEF BleQuiet
    <3>2. ~bleInitialized /\ ~bleScanning /\ ~bleDone /\ ~blePublishing /\ ~library
          /\ callback = "Off"
          BY <2>4 DEF Ownership, Owners, BleFresh
    <3>3. \/ burst' = burst + 1
          \/ burst' = burst + 3 /\ ~bleScanning' /\ ~library'
      <4>1. CASE BleBeginFails
            BY <3>2, <4>1 DEF BleBeginFails, Send
      <4>2. CASE BleStartPendingScan
        <5>1. \/ Send(1)
              \/ Send(1 + 2) /\ ~bleScanning' /\ library' = (library \/ FALSE)
              BY <3>2, <4>2 DEF BleStartPendingScan, Start
        <5>2. library' = (library \/ FALSE) => ~library'
              BY <3>2, Zenon
        <5>3. Send(1) => burst' = burst + 1
              BY DEF Send
        <5>4. Send(1 + 2) => burst' = burst + 3
              BY <1>0 DEF Send
        <5> QED BY <5>1, <5>2, <5>3, <5>4
      <4> QED BY <2>1, <2>4, <4>1, <4>2 DEF BleStartStage, BleNothingToStart
    <3>4. ~bleStartPending' /\ UNCHANGED <<bleDone, blePublishing, callback>>
          BY <2>1, <2>4 DEF BleStartStage, BleNothingToStart, BleBeginFails,
             BleStartPendingScan, bleResults
    <3> QED BY <1>0, <2>1, <3>1, <3>2, <3>3, <3>4 DEF Budget, BleInert, BleQuiet
  <2> QED BY <2>3, <2>4
<1>7. CASE BleDeadline
  <2>1. /\ pc = "BleDeadline" /\ pc' = "BlePublish" /\ BleDeadlineStage
        /\ UNCHANGED <<blePublishing, bleStartPending, callback>>
        BY <1>7 DEF BleDeadline, BleDeadlineStage, Stage, bleResults
  <2>2. \/ burst <= 2 * BatchLimit + 1
        \/ (burst <= 2 * BatchLimit + 3 /\ BleInert)
        \/ (burst <= 5 /\ BleQuiet)
        BY <2>1 DEF Budget
  <2>3. \/ UNCHANGED <<burst, bleScanning, bleDone, library>>
        \/ burst' = burst + 1 /\ bleScanning
        BY <2>1 DEF BleDeadlineStage, Send
  <2> QED BY <1>0, <2>1, <2>2, <2>3 DEF Budget, BleInert, BleQuiet
<1>8. CASE BlePublish
      BY <1>8, BlePublishBudget
<1>9. CASE A2dp
      BY <1>0, <1>9 DEF A2dp, Stage, Budget
<1>10. CASE InquiryClock \/ BleScanClock
  <2>1. UNCHANGED <<pc, burst, scanStartPending, scanCompletionPending, count, bleScanning,
                    bleStartPending, bleDone, blePublishing, library, callback>>
        BY <1>10 DEF InquiryClock, BleScanClock, ClassicClock, BleClock,
           ClassicIdles, classicVars, inquiry, results, BleIdles, bleVars, bleScan,
           bleResults
  <2> QED BY <2>1 DEF Budget, BleInert, BleQuiet
<1>11. CASE HostTask
  <2>1. UNCHANGED <<pc, burst, scanStartPending, scanCompletionPending, count>>
        BY <1>11 DEF HostTask, ClassicIdles, classicVars, inquiry, results
  <2>2. /\ (bleScanning' => bleScanning) /\ UNCHANGED bleStartPending
        /\ ~BleInert
        BY <1>11 DEF HostTask, LibraryCompletes, Callback, CallbackClears, CallbackSignals,
           CallbackForgets, CallbackOnly, BleInert
  <2> QED BY <2>1, <2>2 DEF Budget, BleQuiet
<1> QED BY <1>1, <1>2, <1>3, <1>4, <1>5, <1>6, <1>7, <1>8, <1>9, <1>10, <1>11
           DEF Next, Pass

-----------------------------------------------------------------------------
(* Types of what the parts share. *)

LEMMA SessionTyped ==
  /\ phase \in SessionPhases /\ budget \in 0..2 /\ (Session!Next \/ UNCHANGED session)
  => phase' \in SessionPhases /\ budget' \in 0..2
  BY DEF Session!Next, Session!Accept, Session!Cancel, Session!Start, Session!Stop,
     Session!Finish, Session!FallBack, SessionPhases, session

LEMMA SessionView == Next => Session!Next \/ UNCHANGED session
  BY DEF Next, Commands, BluetoothScanStart, BluetoothScanStop, BluetoothUp,
     BluetoothBleScanStart, BleScanGoesOn, BluetoothBleScanStop, A2dpConnect,
     A2dpDisconnect, Pass,
     ClassicDeadline, ClassicStart, ClassicPublish, BleStart, BleDeadline, BlePublish,
     A2dp, SourceStarts, SourceFails, ShutdownEnds, SourceGoesOn, SourceStops, HostTask,
     InquiryClock, BleScanClock, Session!Next, session

LEMMA StagesTyped == pc \in Stages /\ Next => pc' \in Stages
  BY DEF Next, Commands, BluetoothScanStart, BluetoothScanStop, BluetoothUp,
     BluetoothBleScanStart, BleScanGoesOn, BluetoothBleScanStop, A2dpConnect,
     A2dpDisconnect, Pass,
     ClassicDeadline, ClassicStart, ClassicPublish, BleStart, BleDeadline, BlePublish,
     A2dp, SourceStops, HostTask, InquiryClock, BleScanClock, Command, Stage, Stages,
     ScanSteps

LEMMA BurstTyped == TypeOK /\ Next => burst' \in Nat
<1> SUFFICES ASSUME TypeOK, Next PROVE burst' \in Nat
    OBVIOUS
<1>1. /\ burst \in Nat /\ count \in Counts /\ scanPublishIndex \in Counts
      /\ bleCount \in Counts /\ blePublishIndex \in Counts /\ 0 \in Counts
      BY DEF TypeOK, ClassicTypeOK, BleTypeOK
<1>2. \A n \in Counts, i \in Counts : Published(n, i) \in Nat
      BY BatchSizes
<1>3. ASSUME NEW k \in Nat, Send(k) PROVE burst' \in Nat
      BY <1>1, <1>3 DEF Send
<1>4. CASE UNCHANGED burst \/ burst' = 0
      BY <1>1, <1>4
<1>5. CASE ClassicDeadline
      BY <1>3, <1>4, <1>5 DEF ClassicDeadline, DeadlineStage
<1>6. CASE ClassicStart
  <2>1. \/ UNCHANGED burst \/ Send(3) \/ Send(BegunLog + 1) \/ Send(BegunLog + 3)
        BY <1>6 DEF ClassicStart, NothingToStart, StartPendingScan, BeginFails
  <2>2. BegunLog + 1 \in Nat /\ BegunLog + 3 \in Nat
        BY DEF BegunLog
  <2> QED BY <1>3, <1>4, <2>1, <2>2
<1>7. CASE ClassicPublish
  <2>1. \/ UNCHANGED burst
        \/ \E i \in Counts, c \in BOOLEAN, f \in Counts : PublishBatch(i, f, c)
    <3>1. found \in Counts /\ cleared \in BOOLEAN /\ FALSE \in BOOLEAN
          BY DEF TypeOK, ClassicTypeOK
    <3> QED BY <1>1, <1>7, <3>1 DEF ClassicPublish, PublishStage
  <2>2. ASSUME NEW i \in Counts, NEW c \in BOOLEAN, NEW f \in Counts, PublishBatch(i, f, c)
        PROVE  burst' \in Nat
    <3> DEFINE p == Published(count, i)
               k == 2 * p + (IF Reached(count, i) >= MaxEntries THEN 1 ELSE 0)
    <3>1. p \in Nat
          BY <1>1, <1>2
    <3>2. k \in Nat
      <4> HIDE DEF p
      <4> QED BY <3>1
    <3>3. Send(k)
          BY <2>2 DEF PublishBatch
    <3> HIDE DEF k
    <3> QED BY <1>3, <3>2, <3>3
  <2> QED BY <1>4, <2>1, <2>2
<1>8. CASE BleStart
  <2>1. \/ UNCHANGED burst \/ Send(3) \/ Send(0) \/ Send(1) \/ Send(0 + 2) \/ Send(1 + 2)
        BY <1>8 DEF BleStart, BleStartStage, BleNothingToStart, BleBeginFails,
           BleStartPendingScan
  <2>2. 0 + 2 \in Nat /\ 1 + 2 \in Nat
        OBVIOUS
  <2> QED BY <1>3, <1>4, <2>1, <2>2
<1>9. CASE BleDeadline
      BY <1>3, <1>4, <1>9 DEF BleDeadline, BleDeadlineStage
<1>10. CASE BlePublish
  <2>1. \/ UNCHANGED burst
        \/ \E n \in Counts : BlePublishBatch(n, 0, 0, FALSE, 1)
        \/ BlePublishBatch(bleCount, blePublishIndex, bleFound, bleCleared, 0)
        BY <1>10 DEF BlePublish, BlePublishStage
  <2>2. ASSUME NEW n \in Counts, NEW i \in Counts, NEW logs \in Nat,
               Send(logs + Published(n, i) + (IF Reached(n, i) >= MaxEntries THEN 1 ELSE 0))
        PROVE  burst' \in Nat
    <3> DEFINE p == Published(n, i)
               k == logs + p + (IF Reached(n, i) >= MaxEntries THEN 1 ELSE 0)
    <3>1. p \in Nat
          BY <1>2
    <3>2. k \in Nat
      <4> HIDE DEF p
      <4> QED BY <3>1
    <3>3. Send(k)
          BY <2>2
    <3> HIDE DEF k
    <3> QED BY <1>3, <3>2, <3>3
  <2>3. CASE \E n \in Counts : BlePublishBatch(n, 0, 0, FALSE, 1)
        BY <1>1, <2>2, <2>3 DEF BlePublishBatch
  <2>4. CASE BlePublishBatch(bleCount, blePublishIndex, bleFound, bleCleared, 0)
        BY <1>1, <2>2, <2>4 DEF BlePublishBatch
  <2> QED BY <1>4, <2>1, <2>3, <2>4
<1>11. CASE Commands \/ A2dp \/ HostTask \/ InquiryClock \/ BleScanClock
  <2>1. UNCHANGED burst \/ burst' = 0
        BY <1>11 DEF Commands, BluetoothScanStart, BluetoothScanStop, BluetoothUp,
           BluetoothBleScanStart, BleScanGoesOn, BluetoothBleScanStop, A2dpConnect, A2dpDisconnect,
           SourceStops, Command, A2dp, HostTask, InquiryClock, BleScanClock
  <2> QED BY <1>4, <2>1
<1> QED BY <1>5, <1>6, <1>7, <1>8, <1>9, <1>10, <1>11 DEF Next, Pass

-----------------------------------------------------------------------------
(* The inductive invariant. *)

LEMMA InitInv == Init => IInv
<1> SUFFICES ASSUME Init PROVE IInv
    OBVIOUS
<1> USE DEF Init, ClassicInit, BleInit, Session!Init
<1>1. /\ initialized \in BOOLEAN /\ scanning \in BOOLEAN /\ scanStartPending \in BOOLEAN
      /\ scanCompletionPending \in BOOLEAN /\ scanPublishing \in BOOLEAN
      /\ deadlinePassed \in BOOLEAN /\ cleared \in BOOLEAN
      BY Zenon
<1>2. /\ bleInitialized \in BOOLEAN /\ bleStartPending \in BOOLEAN
      /\ bleScanning \in BOOLEAN /\ bleDone \in BOOLEAN /\ blePublishing \in BOOLEAN
      /\ bleDeadlinePassed \in BOOLEAN /\ instance \in BOOLEAN /\ library \in BOOLEAN
      /\ bleCleared \in BOOLEAN /\ unseen \in BOOLEAN
      BY Zenon
<1>3. TypeOK
      BY <1>1, <1>2 DEF TypeOK, ClassicTypeOK, BleTypeOK, Requests, CallbackSteps, Stages,
         SessionPhases
<1>4. /\ ScansExclude /\ ClassicQuiet /\ DoneCounts /\ Owners /\ Starts /\ BleFresh
      /\ ClassicPublishing /\ BlePublishing /\ BleAdmitted
      BY DEF BleAdmitted, ScansExclude, ClassicQuiet, DoneCounts, Owners, Starts, ScanSteps, BleFresh,
         ClassicPublishing, BlePublishing
<1>5. Budget
      BY RingAssumption DEF Budget
<1> QED BY <1>3, <1>4, <1>5 DEF IInv

LEMMA NextKeepsInv == IInv /\ [Next]_vars => IInv'
<1> SUFFICES ASSUME IInv, [Next]_vars PROVE IInv'
    OBVIOUS
<1>1. ClassicIdles \/ ClassicStep
      BY ClassicView DEF vars, ClassicIdles
<1>2. BleIdles \/ BleStep
      BY BleView DEF vars, BleIdles, IInv
<1>3. ClassicInv'
      BY <1>1, ClassicKeeps DEF IInv, ClassicInv, TypeOK, DoneCounts
<1>4. BleInv'
      BY <1>2, BleKeeps DEF IInv, BleInv, TypeOK, DoneCounts
<1>5. Ownership'
      BY OwnershipKeeps DEF IInv, Ownership
<1>6. Budget'
      BY BudgetKeeps DEF IInv, Ownership
<1>7. /\ burst' \in Nat /\ pc' \in Stages
      /\ phase' \in SessionPhases /\ budget' \in 0..2
  <2>1. CASE Next
        BY <2>1, BurstTyped, StagesTyped, SessionView, SessionTyped DEF IInv, TypeOK
  <2>2. CASE UNCHANGED vars
        BY <2>2 DEF IInv, TypeOK, vars, session
  <2> QED BY <2>1, <2>2
<1>8. BleAdmitted' /\ unseen' \in BOOLEAN
      BY AdmissionKeeps DEF IInv
<1> QED BY <1>3, <1>4, <1>5, <1>6, <1>7, <1>8
       DEF IInv, ClassicInv, BleInv, Ownership, TypeOK, DoneCounts

(* IInv holds in every state of the Bluetooth components.                  *)
THEOREM Invariance == Spec => []IInv
<1>1. Init => IInv
      BY InitInv
<1>2. IInv /\ [Next]_vars => IInv'
      BY NextKeepsInv
<1> QED BY <1>1, <1>2, PTL DEF Spec

(* The fields of BluetoothClassic, BluetoothLE and the loop keep their     *)
(* ranges: no index leaves the table.                                      *)
THEOREM TypeCorrect == Spec => []TypeOK
<1>1. IInv => TypeOK
      BY DEF IInv
<1> QED BY <1>1, Invariance, PTL

(* Classic and BLE never scan or wait to scan at the same time.            *)
THEOREM ScansAreExclusive == Spec => []ScansExclude
<1>1. IInv => ScansExclude
      BY DEF IInv
<1> QED BY <1>1, Invariance, PTL

(* Classic is quiet while the A2DP source runs.                            *)
THEOREM ClassicStaysQuiet == Spec => []ClassicQuiet
<1>1. IInv => ClassicQuiet
      BY DEF IInv
<1> QED BY <1>1, Invariance, PTL

(* The count of a SCAN_DONE is that of the events before it, for tables    *)
(* and batches of every size.                                              *)
THEOREM CountsAreExact == Spec => []DoneCounts
<1>1. IInv => DoneCounts
      BY DEF IInv
<1> QED BY <1>1, Invariance, PTL

(* No pass publishes more than the ring takes, for every ring that holds   *)
(* 3 * BatchLimit + 3 and BatchLimit + 6 records.                          *)
THEOREM BurstsFit == Spec => []BurstFits
<1>1. IInv => BurstFits
      BY DEF IInv, Budget, BurstFits
<1> QED BY <1>1, Invariance, PTL

(* A BLE scan beside the source is one that no guard of the dispatcher     *)
(* could refuse.                                                           *)
THEOREM BleComesUnseen == Spec => []BleUnseen
<1>1. IInv => BleUnseen
      BY DEF IInv, BleAdmitted, BleUnseen
<1> QED BY <1>1, Invariance, PTL

(* The scans exclude each other, Classic is quiet beside the source, and a *)
(* BLE scan beside it came unseen, over every interleaving.                *)
THEOREM ControllerIsShared == Spec => []ControllerInvariant
  BY TypeCorrect, ScansAreExclusive, ClassicStaysQuiet, BleComesUnseen, PTL
     DEF ControllerInvariant
=============================================================================
