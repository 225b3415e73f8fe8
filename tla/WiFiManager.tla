---------------------------- MODULE WiFiManager ----------------------------
(***************************************************************************)
(* The Wi-Fi service: WiFiManager, the commands the dispatcher forwards to *)
(* it, and the Arduino station it drives.  Commands and update() run in    *)
(* the application task, one after the other.  The station's own task      *)
(* changes what WiFi.status(), localIP() and scanComplete() answer at any  *)
(* moment; update() reads the status once.                                 *)
(***************************************************************************)
EXTENDS Integers, Sequences

CONSTANTS
  BatchLimit,   \* MAX_SCAN_RESULTS_PER_UPDATE
  MaxNetworks   \* bound: the most networks one scan finds

ASSUME BatchAssumption == BatchLimit \in Nat \ {0}
ASSUME NetworksAssumption == MaxNetworks \in Nat

(* Failed: WL_CONNECT_FAILED and WL_NO_SSID_AVAIL.  Down: every other       *)
(* status but WL_CONNECTED.                                                *)
Statuses == {"Down", "Connected", "Failed"}

(* None: scanComplete() is WIFI_SCAN_FAILED, as it is before any scan.     *)
Scans == {"None", "Running", "Done"}

Event(type, count) == [type |-> type, count |-> count]
Events == [type : {"NetworkFound", "ScanDone", "Connected", "Disconnected",
                   "GotIp", "ConnectFailed"},
           count : 0..MaxNetworks]

VARIABLES
  connecting,          \* _connecting
  connectedEventSent,  \* _connectedEventSent
  ipEventSent,         \* _ipEventSent
  lastStatus,          \* _lastStatus
  scanPublishing,      \* _scanPublishing
  scanCount,           \* _scanCount
  scanIndex,           \* _scanIndex
  status,              \* WiFi.status()
  hasAddress,          \* WiFi.localIP() is not 0.0.0.0
  joining,             \* the station was given a network to join
  leaving,             \* WiFi.disconnect() was called, the link is still up
  scanner,             \* WiFi.scanComplete()
  results,             \* the networks of a completed scan
  out,                 \* the events the latest step published
  \* History: what the host was told.
  hostUp,              \* Connected, and nothing since that ends it
  hostHasAddress,      \* GotIp since the last event that ended a connection
  hostFound            \* NetworkFound events since the last ScanDone

link    == <<connecting, connectedEventSent, ipEventSent>>
scan    == <<scanPublishing, scanCount, scanIndex>>
station == <<status, hasAddress, joining, leaving>>
survey  == <<scanner, results>>
host    == <<hostUp, hostHasAddress, hostFound>>
vars == <<link, lastStatus, scan, station, survey, out, host>>

TypeOK ==
  /\ connecting \in BOOLEAN /\ connectedEventSent \in BOOLEAN
  /\ ipEventSent \in BOOLEAN
  /\ lastStatus \in Statuses
  /\ scanPublishing \in BOOLEAN
  /\ scanCount \in -1..MaxNetworks
  /\ scanIndex \in 0..MaxNetworks
  /\ status \in Statuses /\ hasAddress \in BOOLEAN
  /\ joining \in BOOLEAN /\ leaving \in BOOLEAN
  /\ scanner \in Scans
  /\ results \in 0..MaxNetworks
  /\ out \in Seq(Events)
  /\ hostUp \in BOOLEAN /\ hostHasAddress \in BOOLEAN
  /\ hostFound \in 0..MaxNetworks

Init ==
  /\ connecting = FALSE /\ connectedEventSent = FALSE /\ ipEventSent = FALSE
  /\ lastStatus = "Down"
  /\ scanPublishing = FALSE /\ scanCount = -1 /\ scanIndex = 0
  /\ status = "Down" /\ hasAddress = FALSE /\ joining = FALSE /\ leaving = FALSE
  /\ scanner = "None" /\ results = 0
  /\ out = <<>>
  /\ hostUp = FALSE /\ hostHasAddress = FALSE /\ hostFound = 0

-----------------------------------------------------------------------------
(* Commands.                                                               *)

(* A scan is refused while one runs or is being published.                 *)
ScanBusy == scanPublishing \/ scanner = "Running"

(* A completed scan that no update has seen yet is deleted.                *)
Scan ==
  /\ ~ScanBusy
  /\ results' = 0
  /\ scanner' \in {"Running", "None"}  \* None: refused as ScanFailed
  /\ out' = <<>>
  /\ UNCHANGED <<link, lastStatus, scan, station, host>>

(* WiFi.begin().  The status of an earlier failure may outlast it.         *)
Begin ==
  /\ joining' = TRUE
  /\ leaving' = (status = "Connected")
  /\ status' \in {status} \cup (IF status = "Failed" THEN {"Down"} ELSE {})

ConnectKeepsFlags ==
  /\ connecting' = TRUE
  /\ Begin
  /\ out' = <<>>
  /\ UNCHANGED <<connectedEventSent, ipEventSent, lastStatus, scan, hasAddress,
                 survey, host>>

(* A connect with an empty name, or a malformed one, changes nothing.      *)
Connect ==
  /\ connecting' = TRUE
  /\ connectedEventSent' = FALSE /\ ipEventSent' = FALSE
  /\ Begin
  /\ out' = <<>>
  /\ UNCHANGED <<lastStatus, scan, hasAddress, survey, host>>

Disconnect ==
  /\ connecting' = FALSE
  /\ connectedEventSent' = FALSE /\ ipEventSent' = FALSE
  /\ joining' = FALSE
  /\ leaving' = (status = "Connected")
  /\ out' = <<>>
  /\ UNCHANGED <<lastStatus, scan, status, hasAddress, survey, host>>

Commands == Scan \/ Connect \/ Disconnect

-----------------------------------------------------------------------------
(* update(): publishScanResults, then the link.                            *)

Publishing == scanPublishing \/ scanner = "Done"
Count == IF scanPublishing THEN scanCount ELSE results
Index == IF scanPublishing THEN scanIndex ELSE 0
WholeBatch == BatchLimit
Batch == IF Count - Index > BatchLimit THEN BatchLimit ELSE Count - Index

Networks(n) == [i \in 1..n |-> Event("NetworkFound", 0)]

NoScanToPublish ==
  /\ ~Publishing
  /\ UNCHANGED <<scan, survey, hostFound>>

PublishBatch ==
  /\ Publishing
  /\ Index + Batch < Count
  /\ scanPublishing' = TRUE
  /\ scanCount' = Count
  /\ scanIndex' = Index + Batch
  /\ hostFound' = hostFound + Batch
  /\ UNCHANGED survey

PublishLast ==
  /\ Publishing
  /\ Index + Batch >= Count
  /\ scanner' = "None" /\ results' = 0
  /\ scanPublishing' = FALSE /\ scanCount' = -1 /\ scanIndex' = 0
  /\ hostFound' = 0

ScanEvents ==
  IF ~Publishing THEN <<>>
  ELSE Networks(Batch) \o (IF Index + Batch < Count THEN <<>>
                           ELSE <<Event("ScanDone", Count)>>)

PublishScanResults == NoScanToPublish \/ PublishBatch \/ PublishLast

AnnounceConnected == ~connectedEventSent
AnnounceAddress   == ~ipEventSent /\ hasAddress

LinkIsUp ==
  /\ status = "Connected"
  /\ connecting' = FALSE
  /\ connectedEventSent' = TRUE
  /\ ipEventSent' = (ipEventSent \/ hasAddress)
  /\ hostUp' = (hostUp \/ AnnounceConnected)
  /\ hostHasAddress' = (hostHasAddress \/ AnnounceAddress)

AttemptFails ==
  /\ status = "Failed" /\ connecting
  /\ connecting' = FALSE
  /\ hostUp' = FALSE /\ hostHasAddress' = FALSE
  /\ UNCHANGED <<connectedEventSent, ipEventSent>>

LostKeepsAddress ==
  /\ status # "Connected" /\ ~(status = "Failed" /\ connecting)
  /\ lastStatus = "Connected"
  /\ connecting' = FALSE /\ connectedEventSent' = FALSE
  /\ hostUp' = FALSE /\ hostHasAddress' = FALSE
  /\ UNCHANGED ipEventSent

LinkIsLost ==
  /\ status # "Connected" /\ ~(status = "Failed" /\ connecting)
  /\ lastStatus = "Connected"
  /\ connecting' = FALSE /\ connectedEventSent' = FALSE /\ ipEventSent' = FALSE
  /\ hostUp' = FALSE /\ hostHasAddress' = FALSE

LinkIsDown ==
  /\ status # "Connected" /\ ~(status = "Failed" /\ connecting)
  /\ lastStatus # "Connected"
  /\ UNCHANGED <<link, hostUp, hostHasAddress>>

LinkEvents ==
  IF status = "Connected"
    THEN (IF AnnounceConnected THEN <<Event("Connected", 0)>> ELSE <<>>)
         \o (IF AnnounceAddress THEN <<Event("GotIp", 0)>> ELSE <<>>)
  ELSE IF status = "Failed" /\ connecting THEN <<Event("ConnectFailed", 0)>>
  ELSE IF lastStatus = "Connected" THEN <<Event("Disconnected", 0)>>
  ELSE <<>>

UpdateLink == LinkIsUp \/ AttemptFails \/ LinkIsLost \/ LinkIsDown

Update ==
  /\ PublishScanResults
  /\ UpdateLink
  /\ lastStatus' = status
  /\ out' = ScanEvents \o LinkEvents
  /\ UNCHANGED station

-----------------------------------------------------------------------------
(* The station, as far as the code above uses it.                          *)

StationKeeps == UNCHANGED <<link, lastStatus, scan, host>> /\ out' = <<>>

(* A disconnect asked for takes effect.                                    *)
Leaves ==
  /\ leaving
  /\ leaving' = FALSE /\ status' = "Down" /\ hasAddress' = FALSE
  /\ UNCHANGED <<joining, survey>> /\ StationKeeps

(* The station reconnects by itself to the network it was given.           *)
Joins ==
  /\ joining /\ ~leaving /\ status # "Connected"
  /\ status' = "Connected"
  /\ hasAddress' \in BOOLEAN
  /\ UNCHANGED <<joining, leaving, survey>> /\ StationKeeps

JoinFails ==
  /\ joining /\ ~leaving /\ status = "Down"
  /\ status' = "Failed"
  /\ UNCHANGED <<hasAddress, joining, leaving, survey>> /\ StationKeeps

GetsAddress ==
  /\ status = "Connected" /\ ~hasAddress
  /\ hasAddress' = TRUE
  /\ UNCHANGED <<status, joining, leaving, survey>> /\ StationKeeps

LosesLink ==
  /\ status = "Connected"
  /\ status' \in {"Down", "Failed"} /\ hasAddress' = FALSE /\ leaving' = FALSE
  /\ UNCHANGED <<joining, survey>> /\ StationKeeps

(* A scan completes, or fails and leaves no results.                       *)
ScanEnds ==
  /\ scanner = "Running"
  /\ \/ scanner' = "Done" /\ results' \in 0..MaxNetworks
     \/ scanner' = "None" /\ UNCHANGED results
  /\ UNCHANGED station /\ StationKeeps

Station == Leaves \/ Joins \/ JoinFails \/ GetsAddress \/ LosesLink \/ ScanEnds

Next == Commands \/ Update \/ Station

Spec == Init /\ [][Next]_vars

(* An attempt under way ends; after a failure the station may try again.   *)
AttemptEnds == status = "Down" /\ (Joins \/ JoinFails)

(* loop() calls update() for ever, and what the station was asked to do    *)
(* ends one way or the other.                                              *)
Fairness ==
  /\ WF_vars(Update)
  /\ WF_vars(Leaves)
  /\ WF_vars(AttemptEnds)
  /\ WF_vars(ScanEnds)

-----------------------------------------------------------------------------
(* The host believes in a connection exactly when the last update saw one, *)
(* over connects while connected, disconnects that have not taken effect   *)
(* and links lost and found: update() derives the events from flags that   *)
(* connect() and disconnect() reset under it.                              *)
HostViewAgrees == hostUp <=> (lastStatus = "Connected")

(* The list of networks being published is the one that was counted: no    *)
(* command deletes it or starts another scan under the publication.        *)
ResultsKept == scanPublishing =>
  /\ scanner = "Done"
  /\ scanCount = results
  /\ scanIndex = hostFound
  /\ scanIndex < scanCount

(* A ScanDone comes after its networks, and its count is the number of     *)
(* NetworkFound events since the ScanDone before it.                       *)
DoneCountsNetworks ==
  [][\A i \in 1..Len(out') :
       out'[i].type = "ScanDone" => out'[i].count = hostFound + i - 1]_vars

(* Once the link stays up with an address, the host knows both, and once   *)
(* it stays down, the host knows that.                                     *)
HostLearnsLink ==
  /\ <>[](status = "Connected" /\ hasAddress) => <>[](hostUp /\ hostHasAddress)
  /\ <>[](status # "Connected") => <>[]~(hostUp \/ hostHasAddress)

=============================================================================
