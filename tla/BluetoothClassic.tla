------------------------- MODULE BluetoothClassic --------------------------
(***************************************************************************)
(* Scans of BluetoothClassic.  All of it runs in the application task: the *)
(* inquiry itself runs in Bluedroid, which keeps its own results until     *)
(* completeScan() fetches them.  update() is split into its three stages.  *)
(* Of the SPP link only the begin() its commands make is kept.             *)
(***************************************************************************)
EXTENDS ScanPublication

VARIABLES
  initialized,            \* _initialized
  scanning,               \* _scanning
  scanStartPending,       \* _scanStartPending
  scanCompletionPending,  \* _scanCompletionPending
  scanPublishing,         \* _scanPublishing
  scanPublishIndex,       \* _scanPublishIndex of a publication, 0 outside one
  count,                  \* _count
  deadlinePassed,         \* scanning, and _scanDeadlineMs has been reached
  \* History.
  found,                  \* DEVICE_FOUND events of this publication
  cleared,                \* its table was cleared while it went on
  shortfall,              \* count of the latest SCAN_DONE less found, when
                          \*   the table had not been cleared
  request                 \* the host's scan; a suspension in the middle of
                          \*   its publication drops it too

inquiry == <<scanning, scanStartPending, deadlinePassed>>
results == <<scanCompletionPending, scanPublishing, scanPublishIndex, count>>
account == <<found, cleared, shortfall>>
classicVars == <<initialized, inquiry, results, account, request>>

ClassicTypeOK ==
  /\ initialized \in BOOLEAN
  /\ scanning \in BOOLEAN /\ scanStartPending \in BOOLEAN
  /\ scanCompletionPending \in BOOLEAN /\ scanPublishing \in BOOLEAN
  /\ scanPublishIndex \in Counts /\ count \in Counts
  /\ deadlinePassed \in BOOLEAN
  /\ found \in Counts /\ cleared \in BOOLEAN
  /\ shortfall \in Int
  /\ request \in Requests

ClassicInit ==
  /\ initialized = FALSE
  /\ scanning = FALSE /\ scanStartPending = FALSE
  /\ scanCompletionPending = FALSE /\ scanPublishing = FALSE
  /\ scanPublishIndex = 0 /\ count = 0
  /\ deadlinePassed = FALSE
  /\ found = 0 /\ cleared = FALSE
  /\ shortfall = 0
  /\ request = "None"

(* busy(); _connecting is set only inside connect(), which blocks, and     *)
(* _restoreAfterScanPending is never set.                                  *)
ClassicBusy == scanning \/ scanStartPending \/ scanPublishing

(* begin() may fail, and what is initialised stays so.                     *)
Begin == initialized' \in BOOLEAN /\ (initialized => initialized')

ClearTable == cleared' = (cleared \/ scanPublishing)

(* startScanNow(): clears the table also when Bluedroid refuses to start.  *)
StartScanNow(started) ==
  /\ count' = 0 /\ ClearTable
  /\ scanCompletionPending' = FALSE
  /\ scanning' = started
  /\ deadlinePassed' = FALSE
  /\ UNCHANGED <<scanPublishing, scanPublishIndex, found, shortfall>>

(* completeScan() with what Bluedroid has collected.                       *)
CompleteScan ==
  /\ scanning
  /\ count' \in Counts /\ ClearTable
  /\ scanning' = FALSE
  /\ scanCompletionPending' = TRUE
  /\ deadlinePassed' = FALSE
  /\ UNCHANGED <<scanStartPending, found, shortfall>>

-----------------------------------------------------------------------------
(* Commands. *)

Accept == request' = "Waiting"

ScanCold ==
  /\ ~initialized
  /\ scanStartPending' = TRUE
  /\ Accept
  /\ UNCHANGED <<scanning, deadlinePassed, results, account>>

ScanWarm ==
  /\ initialized
  /\ \/ StartScanNow(TRUE) /\ Accept
     \/ /\ StartScanNow(FALSE)
        /\ request' = IF scanCompletionPending /\ ~scanPublishing
                      THEN "Dropped" ELSE request
  /\ UNCHANGED scanStartPending

(* scan() does not ask whether results are still being published.          *)
ClassicScan ==
  /\ ~scanning /\ ~scanStartPending
  /\ ScanCold \/ ScanWarm
  /\ UNCHANGED initialized

CancelStart ==
  /\ scanStartPending
  /\ scanStartPending' = FALSE
  /\ request' = "None"
  /\ UNCHANGED <<initialized, scanning, deadlinePassed, results, account>>

StopInquiry ==
  /\ ~scanStartPending
  /\ CompleteScan
  /\ UNCHANGED <<initialized, scanPublishing, scanPublishIndex, request>>

ClassicStopScan == CancelStart \/ StopInquiry

(* BT_INIT, BT_GET_INFO and BT_CONNECT bring Classic up.                   *)
ClassicBegin ==
  /\ ~initialized /\ Begin
  /\ UNCHANGED <<inquiry, results, account, request>>

-----------------------------------------------------------------------------
(* update(). *)

(* Mutant: a scan is completed by stopScan() only. *)
DeadlineStageNever == UNCHANGED <<burst, initialized, inquiry, results, account, request>>

DeadlineStage ==
  \/ /\ deadlinePassed
     /\ CompleteScan /\ Send(1)
     /\ UNCHANGED <<initialized, scanPublishing, scanPublishIndex, request>>
  \/ /\ ~(scanning /\ deadlinePassed)
     /\ UNCHANGED <<burst, initialized, inquiry, results, account, request>>

NothingToStart ==
  /\ ~scanStartPending
  /\ UNCHANGED <<burst, initialized, inquiry, results, account, request>>

(* A failed begin() answers with SCAN_DONE and ends this update().         *)
BeginFails ==
  /\ scanStartPending /\ ~initialized
  /\ scanStartPending' = FALSE
  /\ request' = "None"
  /\ Send(3)
  /\ UNCHANGED <<initialized, scanning, deadlinePassed, results, account>>

BegunLog == IF initialized THEN 0 ELSE 1

StartPendingScan ==
  /\ scanStartPending
  /\ initialized' = TRUE
  /\ scanStartPending' = FALSE
  /\ \/ StartScanNow(TRUE) /\ Send(BegunLog + 1) /\ UNCHANGED request
     \/ StartScanNow(FALSE) /\ Send(BegunLog + 3) /\ request' = "None"

(* publishScanBatch() from index on; the last batch carries SCAN_DONE.     *)
PublishBatch(index, foundBefore, clearedBefore) ==
  LET published == Published(count, index)
      last == Reached(count, index) >= MaxEntries
  IN  /\ scanPublishIndex' = IF last THEN 0 ELSE Reached(count, index)
      /\ scanPublishing' = ~last
      /\ count' = IF last THEN 0 ELSE count
      /\ found' = IF last THEN 0 ELSE foundBefore + published
      /\ cleared' = (clearedBefore /\ ~last)
      /\ shortfall' = IF last /\ ~clearedBefore
                      THEN count - (foundBefore + published) ELSE shortfall
      /\ request' = IF last THEN "None" ELSE request
      /\ Send(2 * published + (IF last THEN 1 ELSE 0))

(* Mutant: a publication goes on where the last one ended. *)
PublishStageOn ==
  /\ scanCompletionPending' = FALSE
  /\ \/ scanCompletionPending /\ PublishBatch(scanPublishIndex, 0, FALSE)
     \/ /\ ~scanCompletionPending /\ scanPublishing
        /\ PublishBatch(scanPublishIndex, found, cleared)
     \/ /\ ~scanCompletionPending /\ ~scanPublishing
        /\ UNCHANGED <<burst, scanPublishing, scanPublishIndex, count, account, request>>
  /\ UNCHANGED <<initialized, inquiry>>

PublishStage ==
  /\ scanCompletionPending' = FALSE
  /\ \/ scanCompletionPending /\ PublishBatch(0, 0, FALSE)
     \/ /\ ~scanCompletionPending /\ scanPublishing
        /\ PublishBatch(scanPublishIndex, found, cleared)
     \/ /\ ~scanCompletionPending /\ ~scanPublishing
        /\ UNCHANGED <<burst, scanPublishing, scanPublishIndex, count, account, request>>
  /\ UNCHANGED <<initialized, inquiry>>

-----------------------------------------------------------------------------
(* For the A2DP source. *)

Suspend(up) ==
  /\ scanPublishing' = FALSE
  /\ scanPublishIndex' = 0
  /\ request' = IF request = "Waiting" /\ scanPublishing /\ ~scanning
                 THEN "Dropped" ELSE request
  /\ scanStartPending' = FALSE
  /\ scanning' = FALSE
  /\ scanCompletionPending' = (scanCompletionPending \/ scanning)
  /\ IF scanning THEN count' \in Counts ELSE UNCHANGED count
  /\ initialized' = up
  /\ deadlinePassed' = FALSE
  /\ found' = 0 /\ cleared' = FALSE
  /\ UNCHANGED shortfall

(* restoreAfterA2dp() *)
Restore ==
  /\ Begin
  /\ UNCHANGED <<inquiry, results, account, request>>

ClassicClock ==
  /\ scanning /\ ~deadlinePassed
  /\ deadlinePassed' = TRUE
  /\ UNCHANGED <<initialized, scanning, scanStartPending, results, account, request>>
=============================================================================
