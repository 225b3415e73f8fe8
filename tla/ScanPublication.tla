-------------------------- MODULE ScanPublication --------------------------
(***************************************************************************)
(* The table of results that Bluetooth Classic and BLE each publish in     *)
(* batches: the used entries come first, and one update walks the table    *)
(* until it has published a batch or has reached the end.                  *)
(***************************************************************************)
EXTENDS Integers

CONSTANTS
  MaxEntries,  \* MAX_ENTRIES
  BatchLimit   \* PUBLISH_ENTRIES_PER_UPDATE

ASSUME EntriesAssumption == MaxEntries \in Nat
ASSUME BatchAssumption == BatchLimit \in Nat \ {0}

VARIABLE
  burst  \* records this pass's Bluetooth update has handed to the event ring

Counts == 0..MaxEntries

(* Entries a batch publishes when it starts at index of count results.     *)
Published(count, index) ==
  IF count <= index THEN 0
  ELSE IF count - index > BatchLimit THEN BatchLimit ELSE count - index

(* An incomplete batch walks over the unused entries to the end.           *)
Reached(count, index) ==
  IF count - index >= BatchLimit THEN index + BatchLimit ELSE MaxEntries

(* What has become of the host's scan: "Waiting" from its acceptance to    *)
(* the next SCAN_DONE or to a stop before its start; "Dropped" when it had *)
(* completed and a scan that was refused has cleared its results.          *)
Requests == {"None", "Waiting", "Dropped"}

Send(records) == burst' = burst + records
=============================================================================
