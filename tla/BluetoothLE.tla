---------------------------- MODULE BluetoothLE ----------------------------
(***************************************************************************)
(* Scans of BluetoothLE.  Commands and update() run in the application     *)
(* task; scanCompleteCallback() runs in the Bluetooth host task, on the    *)
(* other core, and its three stores are steps of their own.  A scan of the *)
(* BLEScan library runs until it ends by itself or is stopped.             *)
(***************************************************************************)
EXTENDS ScanPublication

VARIABLES
  bleInitialized,     \* _initialized
  bleStartPending,    \* _scanStartPending
  bleScanning,        \* _scanning
  bleDone,            \* _done
  blePublishing,      \* _publishing
  blePublishIndex,    \* _publishIndex of a publication, 0 outside one
  bleCount,           \* _count
  bleDeadlinePassed,  \* _scanning, and _scanDeadlineMs has been reached
  instance,           \* _instance is set
  library,            \* BLEScan is scanning
  callback,           \* what scanCompleteCallback() has done last
  \* History.
  bleFound,           \* BLE_DEVICE_FOUND events of this publication
  bleCleared,         \* its table was cleared while it went on
  bleShortfall,       \* as shortfall of BluetoothClassic
  bleRequest          \* the host's scan

bleScan == <<bleScanning, bleDone, bleDeadlinePassed, instance, library>>
bleResults == <<blePublishing, blePublishIndex, bleCount>>
bleAccount == <<bleFound, bleCleared, bleShortfall>>
bleVars == <<bleInitialized, bleStartPending, bleScan, callback, bleResults,
             bleAccount, bleRequest>>

CallbackSteps == {"Off", "Loaded", "Cleared", "Signalled"}

BleTypeOK ==
  /\ bleInitialized \in BOOLEAN /\ bleStartPending \in BOOLEAN
  /\ bleScanning \in BOOLEAN /\ bleDone \in BOOLEAN
  /\ blePublishing \in BOOLEAN
  /\ blePublishIndex \in Counts /\ bleCount \in Counts
  /\ bleDeadlinePassed \in BOOLEAN
  /\ instance \in BOOLEAN /\ library \in BOOLEAN
  /\ callback \in CallbackSteps
  /\ bleFound \in Counts /\ bleCleared \in BOOLEAN
  /\ bleShortfall \in Int
  /\ bleRequest \in Requests

BleInit ==
  /\ bleInitialized = FALSE /\ bleStartPending = FALSE
  /\ bleScanning = FALSE /\ bleDone = FALSE
  /\ blePublishing = FALSE /\ blePublishIndex = 0 /\ bleCount = 0
  /\ bleDeadlinePassed = FALSE
  /\ instance = FALSE /\ library = FALSE /\ callback = "Off"
  /\ bleFound = 0 /\ bleCleared = FALSE
  /\ bleShortfall = 0
  /\ bleRequest = "None"

(* Mutant: a start that is pending is not busy. *)
BleBusyOnceStarted == bleScanning \/ blePublishing

(* busy() *)
BleBusy == bleScanning \/ bleStartPending \/ blePublishing

(* The first scan of all: no callback can be under way.                    *)
Start(started) ==
  /\ instance' = started
  /\ bleScanning' = started
  /\ bleDeadlinePassed' = FALSE
  /\ library' = (library \/ started)

(* BLEScan::stop(); the library may report the end of the scan after it.   *)
LibraryStops == library' \in BOOLEAN /\ (library' => library)

-----------------------------------------------------------------------------
(* Commands. *)

(* scan() tests its guard, clears the table and the completion flag; the  *)
(* first scan of all then waits for update() to bring BLE up.              *)
BleScan ==
  /\ ~bleScanning /\ ~bleStartPending
  /\ bleCount' = 0
  /\ bleCleared' = (bleCleared \/ blePublishing)
  /\ bleDone' = FALSE
  /\ bleStartPending' = ~bleInitialized
  /\ bleRequest' = IF ~bleInitialized THEN "Waiting"
                   ELSE IF bleDone /\ ~blePublishing THEN "Dropped" ELSE bleRequest
  /\ UNCHANGED <<bleInitialized, bleScanning, bleDeadlinePassed, instance, library,
                 blePublishing, blePublishIndex, callback, bleFound, bleShortfall>>

(* Any other scan arms the callback, marks itself, and starts: a callback  *)
(* of the scan before may still be under way.  What the callback does      *)
(* between the mark and the start it may as well do before or after both.  *)
ScanArms ==
  /\ instance' = TRUE
  /\ UNCHANGED <<bleInitialized, bleStartPending, bleScanning, bleDone, bleDeadlinePassed,
                 library, callback, bleResults, bleAccount, bleRequest>>

ScanLaunches ==
  /\ bleDeadlinePassed' = FALSE
  /\ \/ /\ bleScanning' = TRUE /\ library' = TRUE
        /\ bleRequest' = "Waiting"
        /\ UNCHANGED instance
     \/ /\ bleScanning' = FALSE /\ instance' = FALSE
        /\ UNCHANGED <<library, bleRequest>>
  /\ UNCHANGED <<bleInitialized, bleStartPending, bleDone, callback, bleResults, bleAccount>>

BleCancelStart ==
  /\ bleStartPending
  /\ bleStartPending' = FALSE
  /\ bleRequest' = "None"
  /\ UNCHANGED library

BleStopScan ==
  /\ ~bleStartPending /\ bleScanning
  /\ LibraryStops
  /\ UNCHANGED <<bleStartPending, bleRequest>>

BleStop ==
  /\ BleCancelStart \/ BleStopScan
  /\ UNCHANGED <<bleInitialized, bleScanning, bleDone, bleDeadlinePassed,
                 instance, callback, bleResults, bleAccount>>

-----------------------------------------------------------------------------
(* The Bluetooth host task. *)

CallbackOnly ==
  /\ UNCHANGED <<bleInitialized, bleStartPending, bleResults, bleAccount, bleRequest>>

(* The scan ends; the callback returns at once without an instance.        *)
LibraryCompletes ==
  /\ library /\ callback = "Off"
  /\ library' = FALSE
  /\ callback' = IF instance THEN "Loaded" ELSE "Off"
  /\ CallbackOnly /\ UNCHANGED <<bleScanning, bleDeadlinePassed, bleDone, instance>>

CallbackClears ==
  /\ callback = "Loaded"
  /\ callback' = "Cleared" /\ bleScanning' = FALSE /\ bleDeadlinePassed' = FALSE
  /\ CallbackOnly /\ UNCHANGED <<bleDone, instance, library>>

CallbackSignals ==
  /\ callback = "Cleared"
  /\ callback' = "Signalled" /\ bleDone' = TRUE
  /\ CallbackOnly /\ UNCHANGED <<bleScanning, bleDeadlinePassed, instance, library>>

CallbackForgets ==
  /\ callback = "Signalled"
  /\ callback' = "Off" /\ instance' = FALSE
  /\ CallbackOnly /\ UNCHANGED <<bleScanning, bleDeadlinePassed, bleDone, library>>

Callback == CallbackClears \/ CallbackSignals \/ CallbackForgets

-----------------------------------------------------------------------------
(* update(). *)

BleNothingToStart ==
  /\ ~bleStartPending
  /\ UNCHANGED <<burst, bleInitialized, bleStartPending, bleScanning,
                 bleDeadlinePassed, instance, library, bleRequest>>

(* begin() refuses to come up: its log, BLE_SCAN_DONE, and a log.          *)
BleBeginFails ==
  /\ bleStartPending /\ ~bleInitialized
  /\ bleStartPending' = FALSE
  /\ bleRequest' = "None"
  /\ Send(3)
  /\ UNCHANGED <<bleInitialized, bleScanning, bleDeadlinePassed, instance, library>>

BleStartPendingScan ==
  /\ bleStartPending
  /\ bleStartPending' = FALSE
  /\ bleInitialized' = TRUE
  /\ LET begunLog == IF bleInitialized THEN 0 ELSE 1
     IN  \/ Start(TRUE) /\ Send(begunLog) /\ UNCHANGED bleRequest
         \/ Start(FALSE) /\ Send(begunLog + 2) /\ bleRequest' = "None"

BleStartStage ==
  /\ BleNothingToStart \/ BleBeginFails \/ BleStartPendingScan
  /\ UNCHANGED <<bleDone, callback, bleResults, bleAccount>>

(* Mutant: the deadline does not ask for the results. *)
BleDeadlineStops ==
  /\ IF bleScanning /\ bleDeadlinePassed
     THEN /\ LibraryStops
          /\ bleScanning' = FALSE /\ bleDeadlinePassed' = FALSE
          /\ instance' = FALSE /\ UNCHANGED bleDone
          /\ Send(1)
     ELSE UNCHANGED <<burst, bleScanning, bleDeadlinePassed, instance, bleDone, library>>
  /\ UNCHANGED <<bleInitialized, bleStartPending, callback, bleResults, bleAccount,
                 bleRequest>>

(* The deadline completes a scan whose callback has not come.              *)
BleDeadlineStage ==
  /\ IF bleScanning /\ bleDeadlinePassed
     THEN /\ LibraryStops
          /\ bleScanning' = FALSE /\ bleDeadlinePassed' = FALSE
          /\ instance' = FALSE /\ bleDone' = TRUE
          /\ Send(1)
     ELSE UNCHANGED <<burst, bleScanning, bleDeadlinePassed, instance, bleDone, library>>
  /\ UNCHANGED <<bleInitialized, bleStartPending, callback, bleResults, bleAccount,
                 bleRequest>>

(* One batch, from index on, of a table of entries results.                *)
BlePublishBatch(entries, index, foundBefore, clearedBefore, logs) ==
  LET published == Published(entries, index)
      last == Reached(entries, index) >= MaxEntries
  IN  /\ blePublishIndex' = IF last THEN 0 ELSE Reached(entries, index)
      /\ blePublishing' = ~last
      /\ bleCount' = IF last THEN 0 ELSE entries
      /\ bleFound' = IF last THEN 0 ELSE foundBefore + published
      /\ bleCleared' = (clearedBefore /\ ~last)
      /\ bleShortfall' = IF last /\ ~clearedBefore
                         THEN entries - (foundBefore + published) ELSE bleShortfall
      /\ bleRequest' = IF last THEN "None" ELSE bleRequest
      /\ Send(logs + published + (IF last THEN 1 ELSE 0))

(* Mutant: the table is published without batches. *)
BlePublishAll ==
  /\ bleDone' = FALSE
  /\ \/ /\ bleDone \/ blePublishing
        /\ \E n \in Counts : Send(n + 2)
        /\ blePublishing' = FALSE /\ blePublishIndex' = 0
        /\ bleRequest' = "None"
     \/ /\ ~bleDone /\ ~blePublishing
        /\ UNCHANGED <<burst, blePublishing, blePublishIndex, bleRequest>>
  /\ UNCHANGED <<bleInitialized, bleStartPending, bleScanning, bleCount, bleAccount,
                 bleDeadlinePassed, instance, library, callback>>

BlePublishStage ==
  /\ bleDone' = FALSE
  /\ \/ bleDone /\ \E results \in Counts : BlePublishBatch(results, 0, 0, FALSE, 1)
     \/ /\ ~bleDone /\ blePublishing
        /\ BlePublishBatch(bleCount, blePublishIndex, bleFound, bleCleared, 0)
     \/ /\ ~bleDone /\ ~blePublishing
        /\ UNCHANGED <<burst, bleResults, bleAccount, bleRequest>>
  /\ UNCHANGED <<bleInitialized, bleStartPending, bleScanning,
                 bleDeadlinePassed, instance, library, callback>>

BleClock ==
  /\ bleScanning /\ ~bleDeadlinePassed
  /\ bleDeadlinePassed' = TRUE
  /\ UNCHANGED <<bleInitialized, bleStartPending, bleScanning, bleDone, instance,
                 library, callback, bleResults, bleAccount, bleRequest>>
=============================================================================
