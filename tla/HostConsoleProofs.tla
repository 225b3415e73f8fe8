------------------------- MODULE HostConsoleProofs -------------------------
(***************************************************************************)
(* Proofs about what the host's console runs: about HostConsole, for every *)
(* number of options, of scan results and of pending events, and about the *)
(* network tests of NetworkTests, which has no constants.                  *)
(***************************************************************************)
EXTENDS HostConsole, NetworkTests, FiniteSetTheorems, TLAPS

Operations == Scans \cup Connects

(* The streamer starts after the dongle, and stops before it, as far as    *)
(* is_running() tells.                                                     *)
StreamerFacts ==
  /\ streamer => told = "start"
  /\ phase = "Command" /\ option = "AudioStart" => ~streamer
  /\ phase = "StartStreamer" => told = "start"
  /\ phase = "StopAudio" => ~streamer

(* What the option chosen last would take for its answer.                  *)
Relevant(i) ==
  Decoded(events[i]) \in Waits[option].lists \cup Waits[option].ends

(* A wait that began with nothing older pending: its operation alone works *)
(* for it, and all that is pending for it comes from there.                *)
OwnFacts == own =>
  /\ option \in Operations
  /\ work[option] = Idle \/ work[option].of = calls
  /\ option = "WifiConnect" => leaving = 0
  /\ \A i \in DOMAIN events : Relevant(i) => events[i].of = calls
  /\ phase = "Command" => work[option] = Idle
  /\ said.how \in Kinds => said.how \in Waits[option].ends
  /\ OwnAnswer

(* Numbers are given in order, and none before its command.                *)
NumberFacts ==
  /\ leaving <= calls
  /\ \A k \in Operations : work[k].of <= calls
  /\ \A i \in DOMAIN events : events[i].of <= calls
  /\ phase \in {"Status", "Command"} =>
       /\ calls # 0 /\ leaving # calls /\ calls \notin answered
       /\ \A k \in Operations : work[k].of # calls
       /\ \A i \in DOMAIN events : events[i].of # calls

(* The end of a scan is the last there is of it.                           *)
EndFacts == option \in Scans =>
  /\ calls # 0 /\ leaving # calls
  /\ \A k \in Operations : k # option => work[k].of # calls
  /\ \A i \in DOMAIN events :
       (events[i].of = calls /\ events[i].kind = Done[option])
         => work[option].of # calls

(* Nothing is left of a scan whose own wait has heard of its end.          *)
AnsweredFacts == \A a \in answered :
  /\ a <= calls /\ leaving # a
  /\ \A k \in Operations : work[k].of # a
  /\ \A i \in DOMAIN events : events[i].of # a

(* The pending results of the scan that runs, and its pending ends.        *)
Results == {i \in DOMAIN events : Decoded(events[i]) = Found[option]}
Ends == {i \in DOMAIN events : Decoded(events[i]) = Done[option]}

(* What is listed and what is pending makes up what the dongle has sent;   *)
(* the end is one, comes last and carries the count.                       *)
CountFacts == (own /\ option \in Scans) =>
  /\ phase = "Command" => found = 0 /\ Results = {} /\ Ends = {}
  /\ phase = "Wait" /\ ~lossy =>
       /\ work[option].stage = "Scanning" =>
            Ends = {} /\ work[option].sent = found + Cardinality(Results)
       /\ \A d \in Ends :
            /\ Ends = {d} /\ \A i \in Results : i < d
            /\ events[d].count = found + Cardinality(Results)
            /\ work[option] = Idle
  /\ ScanListsAll

Facts == /\ TypeOK /\ StreamerFacts /\ OwnFacts /\ NumberFacts /\ EndFacts
         /\ AnsweredFacts /\ CountFacts

(***************************************************************************)
(* The events of each operation.                                           *)
(***************************************************************************)

KindsOf == [k \in Operations |->
  CASE k \in Scans -> {Found[k], Done[k]}
    [] k = "WifiConnect" ->
         {"WIFI_CONNECTED", "WIFI_GOT_IP", "WIFI_CONNECT_FAILED",
          "WIFI_DISCONNECTED"}
    [] OTHER -> {"A2DP_CONNECTING", "A2DP_CONNECTED", "A2DP_CONNECT_FAIL",
                 "A2DP_DISCONNECTED", "A2DP_AUDIO_STARTED"}]

Heard(o) == Waits[o].lists \cup Waits[o].ends

LEMMA KindsAre ==
  Kinds = {"WIFI_NETWORK_FOUND", "BT_DEVICE_FOUND", "BT_BLE_DEVICE_FOUND",
           "WIFI_SCAN_DONE", "BT_SCAN_DONE", "BT_BLE_SCAN_DONE",
           "WIFI_CONNECTED", "WIFI_GOT_IP", "WIFI_CONNECT_FAILED",
           "WIFI_DISCONNECTED", "A2DP_CONNECTING", "A2DP_CONNECTED",
           "A2DP_CONNECT_FAIL", "A2DP_DISCONNECTED", "A2DP_AUDIO_STARTED"}
<1>1. {Found[k] : k \in Scans} =
        {"WIFI_NETWORK_FOUND", "BT_DEVICE_FOUND", "BT_BLE_DEVICE_FOUND"}
  BY DEF Found, Scans
<1>2. {Done[k] : k \in Scans} =
        {"WIFI_SCAN_DONE", "BT_SCAN_DONE", "BT_BLE_SCAN_DONE"}
  BY DEF Done, Scans
<1> QED
  BY <1>1, <1>2 DEF Kinds

(* Decoding drops an event or keeps it; it keeps what has a payload.       *)
LEMMA DecodedKeeps ==
  ASSUME NEW e \in Events
  PROVE  /\ Decoded(e) \in {e.kind, "None"}
         /\ e.payload = "Whole" => Decoded(e) = e.kind
BY DEF Decoded, DecodedWifi, DecodedBluetooth, DecodedA2dp

(* A wait for one operation hears of no other.                             *)
LEMMA HeardOfOwn ==
  ASSUME NEW o \in Operations, NEW k \in Operations
  PROVE  /\ "None" \notin Heard(o) /\ Heard(o) \subseteq KindsOf[o]
         /\ k # o => KindsOf[k] \cap Heard(o) = {}
         /\ KindsOf[k] \subseteq Kinds
<1>1. KindsOf["WifiScan"] = {"WIFI_NETWORK_FOUND", "WIFI_SCAN_DONE"}
      /\ KindsOf["BtScan"] = {"BT_DEVICE_FOUND", "BT_SCAN_DONE"}
      /\ KindsOf["BleScan"] = {"BT_BLE_DEVICE_FOUND", "BT_BLE_SCAN_DONE"}
      /\ KindsOf["WifiConnect"] =
           {"WIFI_CONNECTED", "WIFI_GOT_IP", "WIFI_CONNECT_FAILED",
            "WIFI_DISCONNECTED"}
      /\ KindsOf["A2dpConnect"] =
           {"A2DP_CONNECTING", "A2DP_CONNECTED", "A2DP_CONNECT_FAIL",
            "A2DP_DISCONNECTED", "A2DP_AUDIO_STARTED"}
  BY DEF KindsOf, Operations, Scans, Connects, Found, Done
<1>2. /\ Heard("WifiScan") = {"WIFI_NETWORK_FOUND", "WIFI_SCAN_DONE"}
      /\ Heard("BtScan") = {"BT_DEVICE_FOUND", "BT_SCAN_DONE"}
      /\ Heard("BleScan") = {"BT_BLE_DEVICE_FOUND", "BT_BLE_SCAN_DONE"}
      /\ Heard("WifiConnect") =
           {"WIFI_GOT_IP", "WIFI_CONNECT_FAILED", "WIFI_DISCONNECTED"}
      /\ Heard("A2dpConnect") =
           {"A2DP_CONNECTED", "A2DP_CONNECT_FAIL", "A2DP_DISCONNECTED"}
  BY DEF Heard, Waits, RunWifiScan, RunBluetoothScan, RunBluetoothBleScan,
         WaitForWifiConnection, WaitA2dpResult
<1>3. /\ o \in {"WifiScan", "BtScan", "BleScan", "WifiConnect", "A2dpConnect"}
      /\ k \in {"WifiScan", "BtScan", "BleScan", "WifiConnect", "A2dpConnect"}
  BY DEF Operations, Scans, Connects
<1>4. "None" \notin Heard(o) /\ Heard(o) \subseteq KindsOf[o]
  BY <1>1, <1>2, <1>3
<1>5. k # o => KindsOf[k] \cap Heard(o) = {}
  BY <1>1, <1>2, <1>3
<1>6. KindsOf[k] \subseteq Kinds
  BY <1>1, <1>3, KindsAre
<1> QED
  BY <1>4, <1>5, <1>6

LEMMA ScansHear ==
  ASSUME NEW o \in Scans
  PROVE  /\ o \in Operations
         /\ Waits[o].lists = {Found[o]} /\ Waits[o].ends = {Done[o]}
         /\ KindsOf[o] = {Found[o], Done[o]} /\ Found[o] # Done[o]
         /\ "None" \notin KindsOf[o]
<1>1. o \in {"WifiScan", "BtScan", "BleScan"} /\ o \in Operations
  BY DEF Scans, Operations
<1>2. Waits[o].lists = {Found[o]} /\ Waits[o].ends = {Done[o]}
  BY <1>1 DEF Waits, Found, Done, RunWifiScan, RunBluetoothScan,
              RunBluetoothBleScan
<1>3. KindsOf[o] = {Found[o], Done[o]}
  BY <1>1 DEF KindsOf
<1>4. Found[o] # Done[o] /\ "None" \notin {Found[o], Done[o]}
  BY <1>1 DEF Found, Done
<1> QED
  BY <1>1, <1>2, <1>3, <1>4

(***************************************************************************)
(* What a step of the dongle is: it goes on with one operation, or leaves  *)
(* it, and may publish an event of that operation.                         *)
(***************************************************************************)

GoesOn(k, stage, n) ==
  work' = [work EXCEPT ![k] = [stage |-> stage, of |-> work[k].of, sent |-> n]]

Leaves(k) == work' = [work EXCEPT ![k] = Idle]

Speaks(k, e) ==
  /\ e.of = work[k].of /\ e.kind \in KindsOf[k]
  /\ events' = Append(events, e) /\ UNCHANGED lossy

Silence == UNCHANGED events /\ lossy' \in {lossy, TRUE}

WorkStep(k) ==
  /\ work[k].stage # "Idle"
  /\ Leaves(k) \/ \E stage \in Stages \ {"Idle"}, n \in 0..MaxFound :
                      GoesOn(k, stage, n)
  /\ Silence \/ \E e \in Events : Speaks(k, e)
  /\ UNCHANGED <<leaving, told>>

(* A scan tells each result as it counts it, and the count when it ends.    *)
ScanStep(k) ==
  /\ work[k].stage = "Scanning"
  /\ \/ /\ GoesOn(k, "Scanning", work[k].sent + 1)
        /\ \/ Silence /\ lossy'
           \/ \E e \in Events : /\ Speaks(k, e) /\ e.kind = Found[k]
                                /\ e.payload = "Whole"
     \/ /\ Leaves(k)
        /\ \/ Silence
           \/ \E e \in Events : /\ Speaks(k, e) /\ e.kind = Done[k]
                                /\ e.payload = "Whole" /\ e.count = work[k].sent

(* An event of an operation, published or lost.                            *)
LEMMA EventShape ==
  ASSUME TypeOK, NEW k \in Operations, NEW kind \in KindsOf[k],
         NEW payload \in {"Whole", "Empty"}
  PROVE  /\ Event(kind, payload, k) \in Events
         /\ Event(kind, payload, k).of = work[k].of
         /\ Event(kind, payload, k).kind = kind
         /\ Event(kind, payload, k).payload = payload
         /\ Event(kind, payload, k).count = work[k].sent
         /\ Publish(Event(kind, payload, k)) =>
              (Silence /\ lossy') \/ Speaks(k, Event(kind, payload, k))
<1>1. work[k].of \in Calls /\ work[k].sent \in 0..MaxFound
  BY DEF TypeOK, Operations
<1>2. kind \in Kinds
  BY HeardOfOwn
<1>3. Event(kind, payload, k) \in Events
  BY <1>1, <1>2 DEF Event, Events
<1> QED
  BY <1>3 DEF Event, Publish, Silence, Speaks

(* Going on keeps the number and, but for one more result, the count.      *)
LEMMA WorkShape ==
  ASSUME TypeOK, NEW k \in Operations
  PROVE  /\ Becomes(k, Idle) => Leaves(k) /\ UNCHANGED <<leaving, told>>
         /\ \A stage \in Stages : Turns(k, stage) =>
              GoesOn(k, stage, work[k].sent) /\ UNCHANGED <<leaving, told>>
         /\ Sends(k) => GoesOn(k, work[k].stage, work[k].sent + 1)
                        /\ UNCHANGED <<leaving, told>>
         /\ work[k].sent \in 0..MaxFound /\ work[k].stage \in Stages
<1>1. work[k] \in [stage : Stages, of : Calls, sent : 0..MaxFound]
  BY DEF TypeOK, Operations
<1>2. ASSUME NEW stage PROVE [work[k] EXCEPT !.stage = stage] =
         [stage |-> stage, of |-> work[k].of, sent |-> work[k].sent]
  BY <1>1
<1>3. [work[k] EXCEPT !.sent = @ + 1] =
         [stage |-> work[k].stage, of |-> work[k].of, sent |-> work[k].sent + 1]
  BY <1>1
<1> QED
  BY <1>1, <1>2, <1>3 DEF Becomes, Turns, Sends, GoesOn, Leaves

LEMMA ScanShape ==
  ASSUME TypeOK, NEW k \in Scans, Scan(k)
  PROVE  WorkStep(k) /\ ScanStep(k)
<1>1. /\ k \in Operations /\ Found[k] \in KindsOf[k] /\ Done[k] \in KindsOf[k]
  BY ScansHear
<1>2. work[k].stage = "Scanning"
  BY DEF Scan
<1>3. "Scanning" \in Stages \ {"Idle"}
  BY DEF Stages
<1> DEFINE e == Event(Found[k], "Whole", k)
           d == Event(Done[k], "Whole", k)
<1>4. CASE work[k].sent < MaxFound /\ Publish(e) /\ Sends(k)
  <2>1. /\ e \in Events /\ e.kind = Found[k] /\ e.payload = "Whole"
        /\ (Silence /\ lossy') \/ Speaks(k, e)
    BY <1>1, <1>4, EventShape
  <2>2. work[k].sent + 1 \in 0..MaxFound
    BY <1>1, <1>4, WorkShape, BoundsAssumption
  <2>3. GoesOn(k, "Scanning", work[k].sent + 1) /\ UNCHANGED <<leaving, told>>
    BY <1>1, <1>2, <1>4, WorkShape
  <2> HIDE DEF e
  <2> QED
    BY <1>2, <1>3, <2>1, <2>2, <2>3 DEF WorkStep, ScanStep
<1>5. CASE Publish(d) /\ Becomes(k, Idle)
  <2>1. /\ d \in Events /\ d.kind = Done[k] /\ d.payload = "Whole"
        /\ d.count = work[k].sent /\ (Silence \/ Speaks(k, d))
    BY <1>1, <1>5, EventShape
  <2>2. Leaves(k) /\ UNCHANGED <<leaving, told>>
    BY <1>1, <1>5, WorkShape
  <2> HIDE DEF d
  <2> QED
    BY <1>2, <2>1, <2>2 DEF WorkStep, ScanStep
<1>6. CASE UNCHANGED <<events, lossy>> /\ Becomes(k, Idle)
  BY <1>1, <1>2, <1>6, WorkShape DEF WorkStep, ScanStep, Silence
<1> QED
  BY <1>4, <1>5, <1>6 DEF Scan

LEMMA WifiLinkShape ==
  ASSUME TypeOK, WifiLink
  PROVE  WorkStep("WifiConnect")
<1> DEFINE k == "WifiConnect"
           Tells(kind) == Publish(Event(kind, "Whole", k))
<1>1. k \in Operations
  BY DEF Operations, Connects
<1>2. /\ work[k].sent \in 0..MaxFound /\ work[k].stage \in Stages
      /\ {"Joining", "Linked", "Up", "Lost"} \subseteq Stages \ {"Idle"}
  BY <1>1, WorkShape DEF Stages
<1>3. ASSUME NEW kind \in KindsOf[k], Tells(kind)
      PROVE  Silence \/ \E e \in Events : Speaks(k, e)
  BY <1>1, <1>3, EventShape
<1>4. KindsOf[k] = {"WIFI_CONNECTED", "WIFI_GOT_IP", "WIFI_CONNECT_FAILED",
                    "WIFI_DISCONNECTED"}
  BY DEF KindsOf, Operations, Scans, Connects
<1>5. CASE /\ work[k].stage = "Joining" /\ Tells("WIFI_CONNECT_FAILED")
           /\ Becomes(k, Idle)
  BY <1>1, <1>3, <1>4, <1>5, WorkShape DEF WorkStep
<1>6. ASSUME NEW kind \in KindsOf[k], NEW stage \in Stages \ {"Idle"},
             work[k].stage # "Idle", Tells(kind), Turns(k, stage)
      PROVE  WorkStep(k)
  <2>1. GoesOn(k, stage, work[k].sent) /\ UNCHANGED <<leaving, told>>
    BY <1>1, <1>6, WorkShape
  <2> QED
    BY <1>2, <1>3, <1>6, <2>1 DEF WorkStep
<1>7. CASE /\ work[k].stage = "Lost" /\ work[k].sent < MaxFound
           /\ Becomes(k, [work[k] EXCEPT !.stage = "Joining", !.sent = @ + 1])
           /\ UNCHANGED <<events, lossy>>
  <2>1. work[k] \in [stage : Stages, of : Calls, sent : 0..MaxFound]
    BY <1>1 DEF TypeOK, Operations
  <2>2. [work[k] EXCEPT !.stage = "Joining", !.sent = @ + 1] =
          [stage |-> "Joining", of |-> work[k].of, sent |-> work[k].sent + 1]
    <3> DEFINE w == work[k]
    <3> HIDE DEF w
    <3>1. [w EXCEPT !.stage = "Joining", !.sent = @ + 1] =
            [[w EXCEPT !.stage = "Joining"] EXCEPT !.sent = @ + 1]
      OBVIOUS
    <3>2. [w EXCEPT !.stage = "Joining"] =
            [stage |-> "Joining", of |-> w.of, sent |-> w.sent]
      BY <2>1 DEF w
    <3> DEFINE v == [stage |-> "Joining", of |-> w.of, sent |-> w.sent]
    <3>3. [v EXCEPT !.sent = @ + 1] =
            [stage |-> "Joining", of |-> w.of, sent |-> w.sent + 1]
      OBVIOUS
    <3> QED
      BY <3>1, <3>2, <3>3 DEF w
  <2>3. work[k].sent + 1 \in 0..MaxFound
    BY <1>2, <1>7, BoundsAssumption
  <2>4. GoesOn(k, "Joining", work[k].sent + 1) /\ UNCHANGED <<leaving, told>>
    BY <1>7, <2>2 DEF Becomes, GoesOn
  <2>5. Silence /\ work[k].stage # "Idle"
    BY <1>7 DEF Silence
  <2> QED
    BY <1>2, <2>3, <2>4, <2>5 DEF WorkStep
<1>8. \/ /\ work[k].stage = "Joining" /\ Tells("WIFI_CONNECT_FAILED")
         /\ Becomes(k, Idle)
      \/ work[k].stage = "Joining" /\ Tells("WIFI_CONNECTED") /\ Turns(k, "Linked")
      \/ work[k].stage = "Linked" /\ Tells("WIFI_GOT_IP") /\ Turns(k, "Up")
      \/ /\ work[k].stage \in {"Linked", "Up"} /\ Tells("WIFI_DISCONNECTED")
         /\ Turns(k, "Lost")
      \/ /\ work[k].stage = "Lost" /\ work[k].sent < MaxFound
         /\ Becomes(k, [work[k] EXCEPT !.stage = "Joining", !.sent = @ + 1])
         /\ UNCHANGED <<events, lossy>>
  BY DEF WifiLink
<1> HIDE DEF Tells
<1> QED
  BY <1>2, <1>4, <1>5, <1>6, <1>7, <1>8

LEMMA A2dpLinkShape ==
  ASSUME TypeOK, A2dpLink
  PROVE  WorkStep("A2dpConnect")
<1> DEFINE k == "A2dpConnect"
           Tells(kind, payload) == Publish(Event(kind, payload, k))
<1>1. k \in Operations
  BY DEF Operations, Connects
<1>2. /\ work[k].sent \in 0..MaxFound /\ work[k].stage \in Stages
      /\ {"Joining", "Up", "Leaving"} \subseteq Stages \ {"Idle"}
  BY <1>1, WorkShape DEF Stages
<1>3. ASSUME NEW kind \in KindsOf[k], NEW payload \in {"Whole", "Empty"},
             Tells(kind, payload)
      PROVE  Silence \/ \E e \in Events : Speaks(k, e)
  BY <1>1, <1>3, EventShape
<1>4. KindsOf[k] = {"A2DP_CONNECTING", "A2DP_CONNECTED", "A2DP_CONNECT_FAIL",
                    "A2DP_DISCONNECTED", "A2DP_AUDIO_STARTED"}
  BY DEF KindsOf, Operations, Scans, Connects
<1>5. UNCHANGED <<events, lossy>> => Silence
  BY DEF Silence
<1>6. ASSUME NEW kind \in KindsOf[k], NEW payload \in {"Whole", "Empty"},
             work[k].stage # "Idle", work[k].sent < MaxFound,
             Tells(kind, payload), Sends(k)
      PROVE  WorkStep(k)
  <2>1. /\ GoesOn(k, work[k].stage, work[k].sent + 1)
        /\ UNCHANGED <<leaving, told>>
    BY <1>1, <1>6, WorkShape
  <2>2. work[k].sent + 1 \in 0..MaxFound
    BY <1>2, <1>6, BoundsAssumption
  <2> QED
    BY <1>2, <1>3, <1>6, <2>1, <2>2 DEF WorkStep
<1>7. ASSUME NEW stage \in Stages \ {"Idle"}, work[k].stage # "Idle",
             \/ UNCHANGED <<events, lossy>>
             \/ Tells("A2DP_CONNECTED", "Whole"),
             Turns(k, stage)
      PROVE  WorkStep(k)
  <2>1. GoesOn(k, stage, work[k].sent) /\ UNCHANGED <<leaving, told>>
    BY <1>1, <1>7, WorkShape
  <2> QED
    BY <1>2, <1>3, <1>4, <1>5, <1>7, <2>1 DEF WorkStep
<1>8. ASSUME work[k].stage # "Idle", Becomes(k, Idle),
             \/ UNCHANGED <<events, lossy>>
             \/ Tells("A2DP_CONNECT_FAIL", "Empty")
             \/ Tells("A2DP_DISCONNECTED", "Whole")
      PROVE  WorkStep(k)
  BY <1>1, <1>3, <1>4, <1>5, <1>8, WorkShape DEF WorkStep
<1>9. \/ /\ work[k].stage = "Joining" /\ work[k].sent < MaxFound
         /\ Tells("A2DP_CONNECTING", "Whole") /\ Sends(k)
      \/ /\ work[k].stage = "Joining" /\ Tells("A2DP_CONNECTED", "Whole")
         /\ Turns(k, "Up")
      \/ /\ work[k].stage = "Joining" /\ Becomes(k, Idle)
         /\ Tells("A2DP_CONNECT_FAIL", "Empty")
      \/ /\ work[k].stage = "Up" /\ work[k].sent < MaxFound
         /\ Tells("A2DP_AUDIO_STARTED", "Empty") /\ Sends(k)
      \/ /\ work[k].stage = "Up" /\ UNCHANGED <<events, lossy>>
         /\ Turns(k, "Leaving")
      \/ /\ work[k].stage = "Leaving" /\ Tells("A2DP_DISCONNECTED", "Whole")
         /\ Becomes(k, Idle)
      \/ /\ work[k].stage = "Leaving" /\ UNCHANGED <<events, lossy>>
         /\ Becomes(k, Idle)
  BY DEF A2dpLink
<1> HIDE DEF Tells
<1> QED
  BY <1>2, <1>4, <1>6, <1>7, <1>8, <1>9

LEMMA DongleShape ==
  ASSUME TypeOK, Dongle
  PROVE  /\ UNCHANGED <<console, audio>>
         /\ \/ WifiReportsLeft
            \/ \E k \in Operations : WorkStep(k) /\ (k \in Scans => ScanStep(k))
<1>1. /\ "WifiConnect" \in Operations \ Scans
      /\ "A2dpConnect" \in Operations \ Scans
      /\ Scans \subseteq Operations
  BY DEF Operations, Connects, Scans
<1> QED
  BY <1>1, ScanShape, WifiLinkShape, A2dpLinkShape DEF Dongle


(***************************************************************************)
(* The dongle keeps the facts.                                             *)
(***************************************************************************)

(* Only the operation that goes on changes, and it keeps its number.       *)
LEMMA OthersRest ==
  ASSUME TypeOK, NEW k \in Operations, WorkStep(k)
  PROVE  /\ work' \in [Operations -> [stage : Stages, of : Calls, sent : 0..MaxFound]]
         /\ \A j \in Operations : j # k => work'[j] = work[j]
         /\ work'[k] = Idle \/ work'[k].of = work[k].of
<1>1. work \in [Operations -> [stage : Stages, of : Calls, sent : 0..MaxFound]]
  BY DEF TypeOK, Operations
<1>2. CASE Leaves(k)
  <2>1. Idle \in [stage : Stages, of : Calls, sent : 0..MaxFound]
    BY BoundsAssumption DEF Idle, Stages, Calls
  <2> QED
    BY <1>1, <1>2, <2>1 DEF Leaves
<1>3. ASSUME NEW stage \in Stages, NEW n \in 0..MaxFound, GoesOn(k, stage, n)
      PROVE  /\ work' \in [Operations -> [stage : Stages, of : Calls, sent : 0..MaxFound]]
             /\ \A j \in Operations : j # k => work'[j] = work[j]
             /\ work'[k].of = work[k].of
  <2> DEFINE w == [stage |-> stage, of |-> work[k].of, sent |-> n]
  <2>1. w \in [stage : Stages, of : Calls, sent : 0..MaxFound] /\ w.of = work[k].of
    BY <1>1
  <2>2. work' = [work EXCEPT ![k] = w]
    BY <1>3 DEF GoesOn
  <2> HIDE DEF w
  <2> QED
    BY <1>1, <2>1, <2>2
<1> QED
  BY <1>2, <1>3 DEF WorkStep

(* What is pending was pending before, or is the event just published.     *)
LEMMA PendingAfter ==
  ASSUME TypeOK, NEW k \in Operations, WorkStep(k)
  PROVE  /\ events' \in Seq(Events) /\ lossy' \in BOOLEAN
         /\ lossy => lossy'
         /\ \A i \in DOMAIN events :
              i \in DOMAIN events' /\ events'[i] = events[i]
         /\ \A i \in DOMAIN events' :
              \/ i \in DOMAIN events /\ events'[i] = events[i]
              \/ /\ events'[i] \in Events /\ events'[i].of = work[k].of
                 /\ events'[i].kind \in KindsOf[k]
<1>1. events \in Seq(Events) /\ lossy \in BOOLEAN
  BY DEF TypeOK
<1>2. CASE Silence
  BY <1>1, <1>2 DEF Silence
<1>3. ASSUME NEW e \in Events, Speaks(k, e)
      PROVE  /\ events' \in Seq(Events) /\ lossy' = lossy
             /\ \A i \in DOMAIN events :
                  i \in DOMAIN events' /\ events'[i] = events[i]
             /\ \A i \in DOMAIN events' :
                  \/ i \in DOMAIN events /\ events'[i] = events[i]
                  \/ /\ events'[i] \in Events /\ events'[i].of = work[k].of
                     /\ events'[i].kind \in KindsOf[k]
  <2>1. events' = Append(events, e) /\ lossy' = lossy
        /\ e.of = work[k].of /\ e.kind \in KindsOf[k]
    BY <1>3 DEF Speaks
  <2> QED
    BY <1>1, <2>1
<1> QED
  BY <1>1, <1>2, <1>3 DEF WorkStep

LEMMA WorkKeepsType ==
  ASSUME TypeOK, StreamerFacts, UNCHANGED <<console, audio>>,
         NEW k \in Operations, WorkStep(k)
  PROVE  TypeOK' /\ StreamerFacts'
<1>1. work' \in [Scans \cup Connects ->
                   [stage : Stages, of : Calls, sent : 0..MaxFound]]
  BY OthersRest DEF Operations
<1>2. events' \in Seq(Events) /\ lossy' \in BOOLEAN
  BY PendingAfter
<1>3. leaving' = leaving /\ told' = told
  BY DEF WorkStep
<1> QED
  BY <1>1, <1>2, <1>3 DEF TypeOK, StreamerFacts, console, chosen, wait, audio

LEMMA WorkKeepsOwn ==
  ASSUME TypeOK, OwnFacts, UNCHANGED <<console, audio>>,
         NEW k \in Operations, WorkStep(k)
  PROVE  OwnFacts'
<1> SUFFICES ASSUME own PROVE OwnFacts'
  BY DEF OwnFacts, console, chosen
<1>1. /\ option' = option /\ calls' = calls /\ own' = own /\ phase' = phase
      /\ said' = said
  BY DEF console, chosen, wait
<1>2. /\ option \in Operations
      /\ work[option] = Idle \/ work[option].of = calls
      /\ option = "WifiConnect" => leaving = 0
      /\ phase = "Command" => work[option] = Idle
      /\ \A i \in DOMAIN events : Relevant(i) => events[i].of = calls
      /\ said.how \in Kinds => said.how \in Waits[option].ends
      /\ OwnAnswer
  BY DEF OwnFacts
<1>3. work[k].stage # "Idle" /\ leaving' = leaving
  BY DEF WorkStep
<1>4. k = option => work[option].of = calls /\ phase # "Command"
  BY <1>2, <1>3 DEF Idle
<1>5. work'[option] = Idle \/ work'[option].of = calls
  BY <1>2, <1>4, OthersRest
<1>6. phase = "Command" => work'[option] = Idle
  BY <1>2, <1>4, OthersRest
<1>7. ASSUME NEW i \in DOMAIN events', Relevant(i)'
      PROVE  events'[i].of = calls
  <2>1. Decoded(events'[i]) \in Heard(option)
    BY <1>1, <1>7 DEF Relevant, Heard
  <2>2. CASE i \in DOMAIN events /\ events'[i] = events[i]
    <3>1. Relevant(i)
      BY <2>1, <2>2 DEF Relevant, Heard
    <3> QED
      BY <1>2, <2>2, <3>1
  <2>3. CASE /\ events'[i] \in Events /\ events'[i].of = work[k].of
             /\ events'[i].kind \in KindsOf[k]
    <3>1. Decoded(events'[i]) \in {events'[i].kind, "None"}
      BY <2>3, DecodedKeeps
    <3>2. k = option
      BY <1>2, <2>1, <2>3, <3>1, HeardOfOwn
    <3> QED
      BY <1>4, <2>3, <3>2
  <2> QED
    BY <2>2, <2>3, PendingAfter
<1>8. OwnAnswer'
  BY <1>1, <1>2 DEF OwnAnswer
<1> QED
  BY <1>1, <1>2, <1>3, <1>5, <1>6, <1>7, <1>8 DEF OwnFacts

LEMMA WorkKeepsNumbers ==
  ASSUME TypeOK, NumberFacts, EndFacts, AnsweredFacts,
         UNCHANGED <<console, audio>>,
         NEW k \in Operations, WorkStep(k), k \in Scans => ScanStep(k)
  PROVE  NumberFacts' /\ EndFacts' /\ AnsweredFacts'
<1>1. /\ option' = option /\ calls' = calls /\ phase' = phase
      /\ answered' = answered /\ leaving' = leaving
  BY DEF console, chosen, wait, WorkStep
<1>2. \A j \in Operations : work'[j].of \in {0, work[j].of}
  BY OthersRest DEF Idle
<1>3. \A i \in DOMAIN events' :
        \/ i \in DOMAIN events /\ events'[i] = events[i]
        \/ events'[i].of = work[k].of
  BY PendingAfter
<1>4. calls \in Nat /\ answered \subseteq 1..MaxCalls /\ 0 \notin answered
  BY BoundsAssumption DEF TypeOK, Calls
<1>5. NumberFacts'
  BY <1>1, <1>2, <1>3, <1>4 DEF NumberFacts
<1>6. AnsweredFacts'
  BY <1>1, <1>2, <1>3, <1>4 DEF AnsweredFacts
<1>7. ASSUME option \in Scans PROVE EndFacts'
  <2>1. /\ calls # 0 /\ leaving # calls
        /\ \A j \in Operations : j # option => work[j].of # calls
        /\ \A i \in DOMAIN events :
             (events[i].of = calls /\ events[i].kind = Done[option])
               => work[option].of # calls
    BY <1>7 DEF EndFacts
  <2>2. \A j \in Operations : j # option => work'[j].of # calls
    BY <1>2, <2>1
  <2>3. option \in Operations /\ Done[option] \in Heard(option)
        /\ Found[option] # Done[option]
    BY <1>7, ScansHear DEF Heard
  <2>4. ASSUME NEW i \in DOMAIN events', events'[i].of = calls,
               events'[i].kind = Done[option]
        PROVE  work'[option].of # calls
    <3>1. CASE i \in DOMAIN events /\ events'[i] = events[i]
      BY <1>2, <2>1, <2>3, <2>4, <3>1
    <3>2. CASE ~(i \in DOMAIN events /\ events'[i] = events[i])
      <4>1. events'[i].kind \in KindsOf[k]
        BY <3>2, PendingAfter
      <4>2. k = option
        BY <2>3, <2>4, <4>1, HeardOfOwn
      <4>3. CASE Leaves(k)
        BY <2>1, <2>3, <4>2, <4>3 DEF Leaves, Idle, TypeOK, Operations
      <4>4. CASE Silence
        BY <3>2, <4>4 DEF Silence
      <4>5. ASSUME NEW e \in Events, Speaks(k, e), e.kind = Found[k]
            PROVE  FALSE
        <5>1. events' = Append(events, e) /\ events \in Seq(Events)
          BY <4>5 DEF Speaks, TypeOK
        <5>2. i \in DOMAIN events \/ events'[i] = e
          BY <5>1
        <5>3. i \in DOMAIN events => events'[i] = events[i]
          BY <5>1
        <5> QED
          BY <2>3, <2>4, <3>2, <4>2, <4>5, <5>2, <5>3
      <4> QED
        BY <1>7, <4>2, <4>3, <4>4, <4>5 DEF ScanStep
    <3> QED
      BY <3>1, <3>2
  <2> QED
    BY <1>1, <2>1, <2>2, <2>4 DEF EndFacts
<1>8. EndFacts'
  BY <1>1, <1>7 DEF EndFacts
<1> QED
  BY <1>5, <1>6, <1>8


(* What a scan publishes comes behind the rest.                            *)
LEMMA AppendShape ==
  ASSUME TypeOK, NEW e \in Events, events' = Append(events, e),
         option' = option, option \in Scans
  PROVE  /\ Results \subseteq 1..Len(events) /\ IsFiniteSet(Results)
         /\ Ends \subseteq 1..Len(events) /\ events'[Len(events) + 1] = e
         /\ \A i \in DOMAIN events : events'[i] = events[i]
         /\ Results' = IF Decoded(e) = Found[option]
                       THEN Results \cup {Len(events) + 1} ELSE Results
         /\ Ends' = IF Decoded(e) = Done[option]
                    THEN Ends \cup {Len(events) + 1} ELSE Ends
<1> DEFINE n == Len(events)
<1>1. /\ events \in Seq(Events) /\ n \in Nat /\ DOMAIN events = 1..n
      /\ DOMAIN events' = 1..(n + 1) /\ events'[n + 1] = e
      /\ \A i \in 1..n : events'[i] = events[i]
  BY DEF TypeOK
<1>2. 1..(n + 1) = 1..n \cup {n + 1} /\ n + 1 \notin 1..n
  BY <1>1
<1>3. IsFiniteSet(1..n)
  <2>1. 1 \in Int /\ n \in Int
    BY <1>1
  <2> QED BY <2>1, FS_Interval, Zenon
<1>4. Results \subseteq 1..n /\ Ends \subseteq 1..n
  BY <1>1 DEF Results, Ends
<1>5. IsFiniteSet(Results)
  BY <1>3, <1>4, FS_Subset
<1> HIDE DEF n
<1>6. Results' = IF Decoded(e) = Found[option]
                 THEN Results \cup {n + 1} ELSE Results
  BY <1>1, <1>2 DEF Results
<1>7. Ends' = IF Decoded(e) = Done[option] THEN Ends \cup {n + 1} ELSE Ends
  BY <1>1, <1>2 DEF Ends
<1> QED
  BY <1>1, <1>4, <1>5, <1>6, <1>7 DEF n

(* What another operation publishes is no result and no end of the scan.   *)
LEMMA OthersUncounted ==
  ASSUME TypeOK, NEW k \in Operations, WorkStep(k), k # option,
         option' = option, option \in Scans
  PROVE  /\ Results' = Results /\ Ends' = Ends
         /\ \A i \in Ends : events'[i] = events[i]
<1>1. CASE Silence
  BY <1>1 DEF Silence, Results, Ends
<1>2. ASSUME NEW e \in Events, Speaks(k, e)
      PROVE  /\ Results' = Results /\ Ends' = Ends
             /\ \A i \in Ends : events'[i] = events[i]
  <2>1. events' = Append(events, e) /\ e.kind \in KindsOf[k]
    BY <1>2 DEF Speaks
  <2>2. /\ option \in Operations /\ Heard(option) = {Found[option], Done[option]}
        /\ "None" \notin Heard(option)
    BY ScansHear DEF Heard
  <2>3. Decoded(e) # Found[option] /\ Decoded(e) # Done[option]
    BY <2>1, <2>2, DecodedKeeps, HeardOfOwn
  <2> QED
    BY <2>1, <2>3, AppendShape DEF Ends
<1> QED
  BY <1>1, <1>2 DEF WorkStep

LEMMA WorkKeepsCount ==
  ASSUME TypeOK, OwnFacts, CountFacts, UNCHANGED <<console, audio>>,
         NEW k \in Operations, WorkStep(k), k \in Scans => ScanStep(k)
  PROVE  CountFacts'
<1>1. /\ option' = option /\ calls' = calls /\ phase' = phase /\ own' = own
      /\ found' = found /\ said' = said
  BY DEF console, chosen, wait
<1> SUFFICES ASSUME own, option \in Scans PROVE CountFacts'
  BY <1>1 DEF CountFacts
<1>2. lossy \in BOOLEAN /\ (lossy => lossy') /\ work[k].stage # "Idle"
      /\ found \in Nat
  BY PendingAfter DEF WorkStep, TypeOK
<1>3. ScanListsAll'
  BY <1>1, <1>2 DEF CountFacts, ScanListsAll
<1>4. CASE k # option
  <2>1. /\ Results' = Results /\ Ends' = Ends
        /\ \A i \in Ends : events'[i] = events[i]
    BY <1>1, <1>4, OthersUncounted
  <2>2. work'[option] = work[option]
    BY <1>4, ScansHear, OthersRest
  <2> QED
    BY <1>1, <1>2, <1>3, <2>1, <2>2 DEF CountFacts
<1>5. CASE k = option
  <2>1. phase # "Command"
    BY <1>2, <1>5 DEF OwnFacts, Idle
  <2> SUFFICES ASSUME phase = "Wait", ~lossy'
               PROVE  /\ work'[option].stage = "Scanning" =>
                           /\ Ends' = {}
                           /\ work'[option].sent = found + Cardinality(Results')
                      /\ \A d \in Ends' :
                           /\ Ends' = {d} /\ \A i \in Results' : i < d
                           /\ events'[d].count = found + Cardinality(Results')
                           /\ work'[option] = Idle
    BY <1>1, <1>3, <2>1 DEF CountFacts
  <2>2. /\ Ends = {} /\ work[option].sent = found + Cardinality(Results)
        /\ work[option].sent \in Nat
    <3>1. work[option].stage = "Scanning" /\ ~lossy
      BY <1>2, <1>5 DEF ScanStep
    <3> QED
      BY <1>5, <3>1, WorkShape DEF CountFacts
  <2>3. work \in [Operations -> [stage : Stages, of : Calls, sent : 0..MaxFound]]
    BY DEF TypeOK, Operations
  <2>4. Found[option] # Done[option]
    BY ScansHear
  <2>5. ASSUME NEW e \in Events, Speaks(k, e), e.kind = Found[k],
               e.payload = "Whole",
               GoesOn(k, "Scanning", work[k].sent + 1)
        PROVE  /\ Ends' = {}
               /\ work'[option].sent = found + Cardinality(Results')
    <3>1. events' = Append(events, e) /\ Decoded(e) = Found[option]
      BY <1>5, <2>5, DecodedKeeps DEF Speaks
    <3>2. /\ Results' = Results \cup {Len(events) + 1} /\ Ends' = {}
          /\ Len(events) + 1 \notin Results /\ IsFiniteSet(Results)
      <4>1. Len(events) \in Nat
        BY DEF TypeOK
      <4> QED
        BY <1>1, <2>2, <2>4, <3>1, <4>1, AppendShape
    <3>3. Cardinality(Results') = Cardinality(Results) + 1
          /\ Cardinality(Results) \in Nat
      BY <3>2, FS_AddElement, FS_CardinalityType
    <3>4. work'[option].sent = work[option].sent + 1
      BY <1>5, <2>3, <2>5 DEF GoesOn
    <3> QED
      BY <1>2, <2>2, <3>2, <3>3, <3>4
  <2>6. ASSUME NEW e \in Events, Speaks(k, e), e.kind = Done[k],
               e.payload = "Whole", e.count = work[k].sent
        PROVE  \A d \in Ends' :
                 /\ Ends' = {d} /\ \A i \in Results' : i < d
                 /\ events'[d].count = found + Cardinality(Results')
    <3>1. events' = Append(events, e) /\ Decoded(e) = Done[option]
      BY <1>5, <2>6, DecodedKeeps DEF Speaks
    <3>2. /\ Results' = Results /\ Ends' = {Len(events) + 1}
          /\ Results \subseteq 1..Len(events)
          /\ events'[Len(events) + 1] = e
      BY <1>1, <2>2, <2>4, <3>1, AppendShape
    <3>3. Len(events) \in Nat
      BY DEF TypeOK
    <3>4. \A i \in Results : i < Len(events) + 1
      BY <3>2, <3>3
    <3> QED
      BY <1>5, <2>2, <2>6, <3>2, <3>4
  <2>7. Leaves(k) => work'[option] = Idle
    BY <1>5, <2>3 DEF Leaves
  <2>8. CASE Silence /\ Leaves(k)
    <3>1. Ends' = {}
      BY <1>1, <2>2, <2>8 DEF Silence, Ends
    <3> QED
      BY <2>7, <2>8, <3>1 DEF Idle
  <2>9. \/ Silence /\ Leaves(k)
        \/ /\ GoesOn(k, "Scanning", work[k].sent + 1)
           /\ \E e \in Events : /\ Speaks(k, e) /\ e.kind = Found[k]
                                /\ e.payload = "Whole"
        \/ /\ Leaves(k)
           /\ \E e \in Events : /\ Speaks(k, e) /\ e.kind = Done[k]
                                /\ e.payload = "Whole" /\ e.count = work[k].sent
    BY <1>5 DEF ScanStep
  <2> QED
    BY <2>5, <2>6, <2>7, <2>8, <2>9 DEF Idle
<1> QED
  BY <1>4, <1>5

(* The link before is reported, if at all, to a wait that is not alone.    *)
LEMMA ReportKeeps ==
  ASSUME Facts, UNCHANGED <<console, audio>>, WifiReportsLeft
  PROVE  Facts'
<1>1. /\ option' = option /\ calls' = calls /\ phase' = phase /\ own' = own
      /\ found' = found /\ said' = said /\ answered' = answered
      /\ streamer' = streamer /\ forgotten' = forgotten
      /\ work' = work /\ told' = told /\ leaving # 0 /\ leaving' = 0
  BY DEF console, chosen, wait, audio, WifiReportsLeft
<1> DEFINE e == [kind |-> "WIFI_DISCONNECTED", payload |-> "Whole",
                 count |-> 0, of |-> leaving]
<1>2. e \in Events /\ e.of = leaving /\ e.kind = "WIFI_DISCONNECTED"
  BY BoundsAssumption, KindsAre DEF Events, Facts, TypeOK
<1>3. \/ events' = Append(events, e) /\ lossy' = lossy
      \/ events' = events /\ lossy' \in {lossy, TRUE}
  BY DEF WifiReportsLeft, Publish
<1> HIDE DEF e
<1>4. /\ events' \in Seq(Events) /\ lossy' \in BOOLEAN /\ (lossy => lossy')
      /\ \A i \in DOMAIN events' :
           \/ i \in DOMAIN events /\ events'[i] = events[i]
           \/ events'[i] = e
  <2>1. lossy \in BOOLEAN /\ events \in Seq(Events)
    BY DEF Facts, TypeOK
  <2>2. lossy' \in BOOLEAN /\ (lossy => lossy')
    BY <1>3, <2>1, Zenon
  <2>3. events' = Append(events, e) \/ events' = events
    BY <1>3
  <2>4. /\ events' \in Seq(Events)
        /\ \A i \in DOMAIN events' :
             \/ i \in DOMAIN events /\ events'[i] = events[i]
             \/ events'[i] = e
    BY <1>2, <2>1, <2>3
  <2> QED
    BY <2>2, <2>4
<1>5. TypeOK' /\ StreamerFacts'
  <2>1. leaving' \in Calls
    BY <1>1, BoundsAssumption DEF Calls
  <2> QED
    BY <1>1, <1>4, <2>1 DEF Facts, TypeOK, StreamerFacts
<1>6. e.kind \in KindsOf["WifiConnect"] /\ "WifiConnect" \in Operations \ Scans
  BY <1>2 DEF KindsOf, Operations, Connects, Scans
<1>7. ASSUME own PROVE option \in Operations /\ option # "WifiConnect"
  BY <1>1, <1>7 DEF Facts, OwnFacts
<1>8. ASSUME own PROVE Decoded(e) \notin Heard(option)
  <2>1. Decoded(e) \in {e.kind, "None"}
    BY <1>2, DecodedKeeps
  <2> QED
    BY <1>6, <1>7, <1>8, <2>1, HeardOfOwn
<1>9. OwnFacts'
  <2> SUFFICES ASSUME own PROVE OwnFacts'
    BY <1>1 DEF OwnFacts
  <2>1. ASSUME NEW i \in DOMAIN events', Relevant(i)'
        PROVE  events'[i].of = calls
    <3>1. Decoded(events'[i]) \in Heard(option)
      BY <1>1, <2>1 DEF Relevant, Heard
    <3>2. i \in DOMAIN events /\ events'[i] = events[i]
      BY <1>4, <1>8, <3>1
    <3> QED
      BY <3>1, <3>2 DEF Facts, OwnFacts, Relevant, Heard
  <2> QED
    BY <1>1, <2>1 DEF Facts, OwnFacts, OwnAnswer
<1>10. calls \in Nat /\ 0 \notin answered
  BY DEF Facts, TypeOK, Calls
<1>11. NumberFacts'
  BY <1>1, <1>2, <1>4, <1>10 DEF Facts, NumberFacts
<1>12. AnsweredFacts'
  BY <1>1, <1>2, <1>4, <1>10 DEF Facts, AnsweredFacts
<1>13. EndFacts'
  BY <1>1, <1>2, <1>4 DEF Facts, EndFacts
<1>14. CountFacts'
  <2> SUFFICES ASSUME own, option \in Scans PROVE CountFacts'
    BY <1>1 DEF CountFacts
  <2>1. Decoded(e) # Found[option] /\ Decoded(e) # Done[option]
    BY <1>8, ScansHear DEF Heard
  <2>2. /\ Results' = Results /\ Ends' = Ends
        /\ \A i \in Ends : events'[i] = events[i]
    <3>1. CASE events' = Append(events, e)
      BY <1>1, <1>2, <2>1, <3>1, AppendShape DEF Facts, Ends
    <3>2. CASE events' = events
      BY <1>1, <3>2 DEF Results, Ends
    <3> QED
      BY <1>3, <3>1, <3>2
  <2> QED
    BY <1>1, <1>4, <2>2 DEF Facts, CountFacts, ScanListsAll
<1> QED
  BY <1>5, <1>9, <1>11, <1>12, <1>13, <1>14 DEF Facts

LEMMA DongleKeeps == ASSUME Facts, Dongle PROVE Facts'
<1>1. CASE WifiReportsLeft
  BY <1>1, DongleShape, ReportKeeps DEF Facts
<1>2. ASSUME NEW k \in Operations, WorkStep(k), k \in Scans => ScanStep(k)
      PROVE  Facts'
  <2>1. UNCHANGED <<console, audio>>
    BY DongleShape DEF Facts
  <2> QED
    BY <1>2, <2>1, WorkKeepsType, WorkKeepsOwn, WorkKeepsNumbers,
       WorkKeepsCount DEF Facts
<1> QED
  BY <1>1, <1>2, DongleShape DEF Facts


(***************************************************************************)
(* The console keeps the facts: moves from phase to phase.                 *)
(***************************************************************************)

(* Moves that change the phase alone.                                      *)
QuietMove ==
  /\ UNCHANGED <<chosen, wait, events, audio, dongle, lossy>>
  /\ phase' \in {"Menu", "Command", "StopStreamer", "Ending", "Confirm"}
  /\ phase' = "Command" =>
       /\ phase = "Status" /\ option \in {"Tone", "AudioStart"}
       /\ option = "AudioStart" => ~streamer

LEMMA QuietMoves ==
  /\ GotoQuietly("Menu") => QuietMove
  /\ GotoQuietly("StopStreamer") => QuietMove
  /\ GotoQuietly("Ending") => QuietMove
  /\ GotoQuietly("Confirm") => QuietMove
  /\ StatusAnswered => QuietMove
  /\ RequestRaises => QuietMove
<1>1. ASSUME NEW next \in {"Menu", "StopStreamer", "Ending", "Confirm"},
             GotoQuietly(next)
      PROVE  QuietMove
  BY <1>1 DEF GotoQuietly, Goto, DongleRests, QuietMove
<1>2. ASSUME phase = "Status", option \in {"Tone", "AudioStart"}, ReadyToStart,
             GotoQuietly("Command")
      PROVE  QuietMove
  BY <1>2 DEF GotoQuietly, Goto, DongleRests, QuietMove, ReadyToStart
<1>3. StatusAnswered => QuietMove
  <2> SUFFICES ASSUME StatusAnswered PROVE QuietMove
    OBVIOUS
  <2>1. AtEnd \in {"Menu", "Ending"}
    BY DEF AtEnd
  <2>2. CASE /\ option \in {"Tone", "AudioStart"}
             /\ GotoQuietly(IF ReadyToStart THEN "Command" ELSE "Menu")
    BY <1>1, <1>2, <2>2 DEF StatusAnswered
  <2>3. CASE \E streaming \in Streaming :
               GotoQuietly(IF streamer \/ streaming THEN "StopStreamer" ELSE AtEnd)
    BY <1>1, <2>1, <2>3
  <2> QED
    BY <2>2, <2>3 DEF StatusAnswered
<1>4. RequestRaises => QuietMove
  BY <1>1 DEF RequestRaises
<1> QED
  BY <1>1, <1>3, <1>4

LEMMA QuietKeeps == ASSUME Facts, QuietMove PROVE Facts'
<1>1. /\ option' = option /\ calls' = calls /\ own' = own /\ found' = found
      /\ said' = said /\ answered' = answered /\ events' = events
      /\ streamer' = streamer /\ forgotten' = forgotten
      /\ work' = work /\ leaving' = leaving
      /\ told' = told /\ lossy' = lossy
      /\ phase' \in {"Menu", "Command", "StopStreamer", "Ending", "Confirm"}
      /\ phase' = "Command" =>
           /\ phase = "Status" /\ option \in {"Tone", "AudioStart"}
           /\ option = "AudioStart" => ~streamer
  BY DEF QuietMove, chosen, wait, audio, dongle
<1>2. TypeOK' /\ StreamerFacts'
  BY <1>1 DEF Facts, TypeOK, Phases, StreamerFacts
<1>3. option \in Operations => phase' # "Command"
  BY <1>1 DEF Operations, Scans, Connects
<1>4. OwnFacts'
  BY <1>1, <1>3 DEF Facts, OwnFacts, Relevant, OwnAnswer
<1>5. NumberFacts' /\ EndFacts' /\ AnsweredFacts'
  BY <1>1 DEF Facts, NumberFacts, EndFacts, AnsweredFacts
<1>6. CountFacts'
  <2> SUFFICES ASSUME own, option \in Scans PROVE CountFacts'
    BY <1>1 DEF CountFacts
  <2>1. option \in Operations
    BY DEF Operations
  <2> QED
    BY <1>1, <1>3, <2>1 DEF Facts, CountFacts, ScanListsAll
<1> QED
  BY <1>2, <1>4, <1>5, <1>6 DEF Facts

(* No wait reports anything when the program ends.                         *)
LEMMA NothingSaid ==
  /\ Nothing \in [how : {"Nothing", "Timeout", "Confirmed"} \cup Kinds,
                  by : Calls, found : Nat, count : 0..MaxFound]
  /\ Nothing.how = "Nothing" /\ Nothing.by = 0
  /\ {"Nothing", "Timeout", "Confirmed"} \cap Kinds = {}
  /\ \A k \in Scans : Done[k] \in Kinds
<1>1. {"Nothing", "Timeout", "Confirmed"} \cap Kinds = {}
  BY KindsAre
<1>2. Nothing \in [how : {"Nothing", "Timeout", "Confirmed"} \cup Kinds,
                   by : Calls, found : Nat, count : 0..MaxFound]
  BY BoundsAssumption DEF Nothing, Calls
<1> QED
  BY <1>1, <1>2 DEF Nothing, Kinds

LEMMA CloseKeeps == ASSUME Facts, Close PROVE Facts'
<1>1. /\ phase' = "Closed" /\ events' = <<>>
      /\ streamer' = FALSE /\ forgotten' = FALSE
      /\ found' = 0 /\ said' = Nothing /\ answered' = {}
      /\ option' = option /\ calls' = calls /\ own' = own
      /\ work' = work /\ leaving' = leaving /\ told' = told /\ lossy' = lossy
  BY DEF Close, chosen, dongle
<1>2. streamer' \in BOOLEAN /\ forgotten' \in BOOLEAN
  BY <1>1, Zenon
<1>3. events' \in Seq(Events) /\ DOMAIN events' = {}
  BY <1>1
<1>4. TypeOK' /\ StreamerFacts'
  BY <1>1, <1>2, <1>3, NothingSaid DEF Facts, TypeOK, Phases, StreamerFacts
<1>5. OwnFacts'
  BY <1>1, <1>3, NothingSaid DEF Facts, OwnFacts, OwnAnswer
<1>6. NumberFacts' /\ EndFacts' /\ AnsweredFacts'
  BY <1>1, <1>3 DEF Facts, NumberFacts, EndFacts, AnsweredFacts
<1>7. CountFacts'
  BY <1>1, NothingSaid DEF Facts, CountFacts, ScanListsAll
<1> QED
  BY <1>4, <1>5, <1>6, <1>7 DEF Facts

(* A new option: what older ones left cannot carry its number.             *)
LEMMA MenuKeeps ==
  ASSUME Facts, NEW o \in Options, Menu(o)
  PROVE  Facts'
<1>1. /\ option' = o /\ calls' = calls + 1 /\ own' = NothingOlder(o)
      /\ phase' = FirstPhase(o) /\ said' = Nothing /\ found' = 0
      /\ answered' = answered /\ events' = events
      /\ streamer' = streamer /\ forgotten' = forgotten
      /\ work' = work /\ leaving' = leaving /\ told' = told /\ lossy' = lossy
      /\ calls < MaxCalls
  BY DEF Menu, DongleRests, audio, dongle
<1>2. /\ calls \in Nat /\ calls + 1 \in Calls /\ leaving \in Nat
      /\ answered \subseteq Nat
      /\ \A k \in Operations : work[k].of \in Nat
      /\ \A i \in DOMAIN events : events[i].of \in Nat
  <2>1. calls \in 0..MaxCalls /\ leaving \in 0..MaxCalls
        /\ answered \subseteq 1..MaxCalls
    BY DEF Facts, TypeOK, Calls
  <2>2. \A k \in Operations : work[k].of \in 0..MaxCalls
    BY DEF Facts, TypeOK, Operations, Calls
  <2>3. \A i \in DOMAIN events : events[i].of \in 0..MaxCalls
    <3>1. \A i \in DOMAIN events : events[i] \in Events
      BY DEF Facts, TypeOK
    <3> QED
      BY <3>1 DEF Events, Calls
  <2>4. calls + 1 \in 0..MaxCalls
    BY <1>1, <2>1, BoundsAssumption
  <2> QED
    BY <2>1, <2>2, <2>3, <2>4, BoundsAssumption DEF Calls
<1>3. /\ phase' \in {"Status", "Ending", "Command"}
      /\ phase' = "Command" => o # "AudioStart"
  BY <1>1 DEF FirstPhase
<1>4. own' \in BOOLEAN
  BY <1>1, Zenon DEF NothingOlder
<1>5. TypeOK' /\ StreamerFacts'
  BY <1>1, <1>2, <1>3, <1>4, NothingSaid DEF Facts, TypeOK, Phases, StreamerFacts
<1>6. OwnFacts'
  <2> SUFFICES ASSUME own' PROVE OwnFacts'
    BY DEF OwnFacts
  <2>1. /\ o \in Operations /\ work[o] = Idle
        /\ o = "WifiConnect" => leaving = 0
        /\ \A i \in DOMAIN events : Decoded(events[i]) \notin Heard(o)
    BY <1>1 DEF NothingOlder, Waiting, Operations, Scans, Connects, Heard
  <2>2. \A i \in DOMAIN events' : ~Relevant(i)'
    BY <1>1, <2>1 DEF Relevant, Heard
  <2>3. said'.how \notin Kinds
    BY <1>1, NothingSaid
  <2> QED
    BY <1>1, <2>1, <2>2, <2>3 DEF OwnFacts, OwnAnswer
<1>7. NumberFacts' /\ EndFacts' /\ AnsweredFacts'
  <2>1. /\ leaving <= calls /\ \A k \in Operations : work[k].of <= calls
        /\ \A i \in DOMAIN events : events[i].of <= calls
        /\ \A a \in answered : a <= calls
    BY DEF Facts, NumberFacts, AnsweredFacts
  <2>2. /\ leaving <= calls + 1 /\ leaving # calls + 1 /\ calls + 1 # 0
        /\ \A k \in Operations :
             work[k].of <= calls + 1 /\ work[k].of # calls + 1
        /\ \A i \in DOMAIN events :
             events[i].of <= calls + 1 /\ events[i].of # calls + 1
        /\ \A a \in answered : a <= calls + 1 /\ a # calls + 1
    BY <1>2, <2>1
  <2>3. NumberFacts'
    BY <1>1, <2>2 DEF NumberFacts
  <2>4. EndFacts'
    BY <1>1, <2>2 DEF EndFacts
  <2>5. AnsweredFacts'
    BY <1>1, <2>2 DEF Facts, AnsweredFacts
  <2> QED
    BY <2>3, <2>4, <2>5
<1>8. CountFacts'
  <2> SUFFICES ASSUME own', o \in Scans PROVE CountFacts'
    BY <1>1 DEF CountFacts
  <2>1. \A i \in DOMAIN events :
          Decoded(events[i]) \notin {Found[o], Done[o]}
    BY <1>1, ScansHear DEF NothingOlder
  <2>2. Results' = {} /\ Ends' = {}
    BY <1>1, <2>1 DEF Results, Ends
  <2>3. ScanListsAll'
    BY <1>1, NothingSaid DEF ScanListsAll
  <2> QED
    BY <1>1, <1>3, <2>2, <2>3 DEF CountFacts
<1> QED
  BY <1>5, <1>6, <1>7, <1>8 DEF Facts


(***************************************************************************)
(* The console keeps the facts: a command.                                 *)
(***************************************************************************)

(* A command the dongle carries out starts the operation of the option     *)
(* and no other, and none with another number.                             *)
LEMMA BegunShape ==
  ASSUME Facts, NEW k \in Operations, NEW stage \in Stages, Starts(k, stage)
  PROVE  /\ option = k
         /\ work' \in [Operations -> [stage : Stages, of : Calls, sent : 0..MaxFound]]
         /\ work'[k] = [stage |-> stage, of |-> calls, sent |-> 0]
         /\ \A j \in Operations : j # k => work'[j] = work[j]
<1>1. work \in [Operations -> [stage : Stages, of : Calls, sent : 0..MaxFound]]
  BY DEF Facts, TypeOK, Operations
<1>2. Begun(stage) \in [stage : Stages, of : Calls, sent : 0..MaxFound]
      /\ Begun(stage) = [stage |-> stage, of |-> calls, sent |-> 0]
  BY BoundsAssumption DEF Begun, Facts, TypeOK
<1>3. option = k /\ work' = [work EXCEPT ![k] = Begun(stage)]
  BY DEF Starts
<1> QED
  BY <1>1, <1>2, <1>3

Carried ==
  /\ work' \in [Operations -> [stage : Stages, of : Calls, sent : 0..MaxFound]]
  /\ leaving' \in {leaving, work["WifiConnect"].of}
  /\ told' \in {told, "start"}
  /\ option = "AudioStart" => told' = "start"
  /\ \A j \in Operations :
       work'[j].of \in {0, work[j].of} \/ (j = option /\ work'[j].of = calls)
  /\ option \in Operations =>
       work'[option].of = calls /\ (work[option] = Idle => leaving' = leaving)
  /\ option \in Scans =>
       /\ work'[option].stage = "Scanning" /\ work'[option].sent = 0
       /\ leaving' = leaving

LEMMA BegunCarries ==
  ASSUME Facts, NEW k \in Operations, NEW stage \in Stages, Starts(k, stage),
         leaving' \in {leaving, work["WifiConnect"].of},
         work[k] = Idle => leaving' = leaving,
         k \in Scans => stage = "Scanning" /\ leaving' = leaving,
         told' = told
  PROVE  Carried
<1>1. /\ option = k
      /\ work' \in [Operations -> [stage : Stages, of : Calls, sent : 0..MaxFound]]
      /\ \A j \in Operations : j # k => work'[j] = work[j]
  BY BegunShape
<1>2. work'[k].stage = stage /\ work'[k].of = calls /\ work'[k].sent = 0
  <2>1. work'[k] = [stage |-> stage, of |-> calls, sent |-> 0]
    BY BegunShape
  <2> QED
    BY <2>1
<1>3. \A j \in Operations :
        work'[j].of \in {0, work[j].of} \/ (j = option /\ work'[j].of = calls)
  BY <1>1, <1>2
<1>4. option # "AudioStart"
  BY <1>1 DEF Operations, Scans, Connects
<1> QED
  BY <1>1, <1>2, <1>3, <1>4 DEF Carried

LEMMA WifiCarried ==
  ASSUME Facts, WifiCarriesOut
  PROVE  Carried
<1>1. work \in [Operations -> [stage : Stages, of : Calls, sent : 0..MaxFound]]
  BY DEF Facts, TypeOK, Operations
<1>2. /\ "WifiScan" \in Operations /\ "WifiConnect" \in Operations \ Scans
      /\ "Scanning" \in Stages /\ "Joining" \in Stages
      /\ "WifiDisconnect" \notin Operations /\ Scans \subseteq Operations
  BY DEF Operations, Scans, Connects, Stages
<1>3. told' = told /\ option # "AudioStart"
  BY DEF WifiCarriesOut, Starts
<1>4. CASE Starts("WifiScan", "Scanning") /\ UNCHANGED leaving
  BY <1>2, <1>3, <1>4, BegunCarries
<1>5. CASE Starts("WifiConnect", "Joining") /\ LinkGoes
  <2>1. /\ leaving' \in {leaving, work["WifiConnect"].of}
        /\ work["WifiConnect"] = Idle => leaving' = leaving
    BY <1>5 DEF LinkGoes, Idle
  <2> QED
    BY <1>2, <1>3, <1>5, <2>1, BegunCarries
<1>6. CASE /\ option = "WifiDisconnect" /\ LinkGoes
           /\ work' = [work EXCEPT !["WifiConnect"] = Idle]
  <2>1. leaving' \in {leaving, work["WifiConnect"].of}
    BY <1>6 DEF LinkGoes
  <2>2. Idle \in [stage : Stages, of : Calls, sent : 0..MaxFound] /\ Idle.of = 0
    BY BoundsAssumption DEF Idle, Stages, Calls
  <2>3. /\ work' \in [Operations -> [stage : Stages, of : Calls, sent : 0..MaxFound]]
        /\ \A j \in Operations : work'[j].of \in {0, work[j].of}
    BY <1>1, <1>2, <1>6, <2>2
  <2> QED
    BY <1>2, <1>3, <1>6, <2>1, <2>3 DEF Carried
<1> QED
  BY <1>4, <1>5, <1>6 DEF WifiCarriesOut

LEMMA BluetoothCarried ==
  ASSUME Facts, BluetoothCarriesOut
  PROVE  Carried
<1>1. work \in [Operations -> [stage : Stages, of : Calls, sent : 0..MaxFound]]
  BY DEF Facts, TypeOK, Operations
<1>2. /\ {"BtScan", "BleScan"} \subseteq Operations
      /\ "A2dpConnect" \in Operations \ Scans
      /\ "Scanning" \in Stages /\ "Joining" \in Stages /\ "Leaving" \in Stages
      /\ "A2dpDisconnect" \notin Operations /\ Scans \subseteq Operations
  BY DEF Operations, Scans, Connects, Stages
<1>3. told' = told /\ leaving' = leaving /\ option # "AudioStart"
  BY DEF BluetoothCarriesOut, Starts
<1>4. ASSUME NEW k \in {"BtScan", "BleScan"}, Starts(k, "Scanning")
      PROVE  Carried
  BY <1>2, <1>3, <1>4, BegunCarries
<1>5. CASE Starts("A2dpConnect", "Joining")
  BY <1>2, <1>3, <1>5, BegunCarries
<1>6. CASE /\ option = "A2dpDisconnect"
           /\ \/ work' = [work EXCEPT !["A2dpConnect"].stage = "Leaving"]
              \/ work' = [work EXCEPT !["A2dpConnect"] = Idle]
  <2>1. Idle \in [stage : Stages, of : Calls, sent : 0..MaxFound] /\ Idle.of = 0
    BY BoundsAssumption DEF Idle, Stages, Calls
  <2>2. /\ work' \in [Operations -> [stage : Stages, of : Calls, sent : 0..MaxFound]]
        /\ \A j \in Operations : work'[j].of \in {0, work[j].of}
    BY <1>1, <1>2, <1>6, <2>1
  <2> QED
    BY <1>2, <1>3, <1>6, <2>2 DEF Carried
<1> QED
  BY <1>4, <1>5, <1>6 DEF BluetoothCarriesOut

LEMMA CarriesOutShape ==
  ASSUME Facts, CarriesOut
  PROVE  Carried
<1>1. CASE AudioCarriesOut
  <2>1. /\ option \in {"Tone", "AudioStart"} /\ work' = work
        /\ leaving' = leaving /\ told' \in {told, "start"}
        /\ option = "AudioStart" => told' = "start"
    BY <1>1 DEF AudioCarriesOut
  <2>2. option \notin Operations /\ option \notin Scans
    BY <2>1 DEF Operations, Scans, Connects
  <2> QED
    BY <2>1, <2>2 DEF Carried, Facts, TypeOK, Operations
<1> QED
  BY <1>1, WifiCarried, BluetoothCarried DEF CarriesOut

LEMMA CommandKeeps == ASSUME Facts, Command PROVE Facts'
<1>1. /\ phase = "Command" /\ option' = option /\ calls' = calls /\ own' = own
      /\ found' = found /\ said' = said /\ answered' = answered
      /\ events' = events /\ lossy' = lossy
      /\ streamer' = streamer /\ forgotten' = forgotten
      /\ phase' \in {AfterCommand, "Menu"}
      /\ \/ CarriesOut
         \/ /\ work' = work /\ leaving' = leaving /\ told' = told
            /\ phase' = "Menu" \/ option \in Unchecked
  BY DEF Command, Goto, chosen, wait, audio, dongle
<1>2. /\ phase' \in {"Wait", "StartStreamer", "Menu"}
      /\ phase' = "Wait" => option \in Waiting
      /\ phase' = "StartStreamer" => option = "AudioStart"
  BY <1>1 DEF AfterCommand
<1>3. /\ work' \in [Operations -> [stage : Stages, of : Calls, sent : 0..MaxFound]]
      /\ leaving' \in {leaving, work["WifiConnect"].of}
      /\ told' \in {told, "start"}
      /\ \A j \in Operations :
           work'[j].of \in {0, work[j].of} \/ (j = option /\ work'[j].of = calls)
      /\ option \in Scans => leaving' = leaving
  BY <1>1, CarriesOutShape DEF Carried, Facts, TypeOK, Operations
<1>4. phase' = "StartStreamer" => told' = "start"
  <2>1. "AudioStart" \notin Unchecked
    BY DEF Unchecked
  <2> QED
    BY <1>1, <1>2, <2>1, CarriesOutShape DEF Carried
<1>5. "WifiConnect" \in Operations /\ Scans \subseteq Operations
  BY DEF Operations, Connects
<1>6. TypeOK' /\ StreamerFacts'
  <2>1. work["WifiConnect"].of \in Calls
    BY <1>5 DEF Facts, TypeOK, Operations
  <2>2. leaving' \in Calls
    BY <1>3, <2>1 DEF Facts, TypeOK
  <2>3. TypeOK'
    BY <1>1, <1>2, <1>3, <2>2
       DEF Facts, TypeOK, Phases, Operations, StreamerFacts
  <2> QED
    BY <1>1, <1>2, <1>3, <1>4, <2>3 DEF Facts, StreamerFacts
<1>7. OwnFacts'
  <2> SUFFICES ASSUME own PROVE OwnFacts'
    BY <1>1 DEF OwnFacts
  <2>1. option \in Operations /\ work[option] = Idle
    BY <1>1 DEF Facts, OwnFacts
  <2>2. /\ work'[option] = Idle \/ work'[option].of = calls
        /\ leaving' = leaving
    BY <1>1, <2>1, CarriesOutShape DEF Carried
  <2> QED
    BY <1>1, <1>2, <2>1, <2>2 DEF Facts, OwnFacts, Relevant, OwnAnswer
<1>8. /\ calls # 0 /\ leaving # calls /\ calls \notin answered
      /\ leaving <= calls /\ calls \in Nat
      /\ \A j \in Operations : work[j].of <= calls /\ work[j].of # calls
      /\ \A i \in DOMAIN events : events[i].of <= calls /\ events[i].of # calls
  BY <1>1 DEF Facts, NumberFacts, TypeOK, Calls
<1>9. NumberFacts'
  BY <1>1, <1>2, <1>3, <1>5, <1>8 DEF NumberFacts
<1>10. EndFacts'
  BY <1>1, <1>3, <1>8 DEF EndFacts
<1>11. AnsweredFacts'
  <2>1. 0 \notin answered
    BY DEF Facts, TypeOK
  <2> QED
    BY <1>1, <1>3, <1>5, <1>8, <2>1 DEF Facts, AnsweredFacts
<1>12. CountFacts'
  <2> SUFFICES ASSUME own, option \in Scans PROVE CountFacts'
    BY <1>1 DEF CountFacts
  <2>1. found = 0 /\ Results = {} /\ Ends = {} /\ ScanListsAll
        /\ work[option] = Idle
    BY <1>1 DEF Facts, CountFacts, OwnFacts
  <2>2. Results' = {} /\ Ends' = {} /\ ScanListsAll'
    BY <1>1, <2>1 DEF Results, Ends, ScanListsAll
  <2>3. work'[option].stage = "Scanning" => work'[option].sent = 0
    BY <1>1, <2>1, CarriesOutShape DEF Carried, Idle
  <2>4. Cardinality({}) = 0
    BY FS_EmptySet
  <2> QED
    BY <1>1, <1>2, <2>1, <2>2, <2>3, <2>4 DEF CountFacts
<1> QED
  BY <1>6, <1>7, <1>9, <1>10, <1>11, <1>12 DEF Facts

(***************************************************************************)
(* The console keeps the facts: PC audio and the waits.                    *)
(***************************************************************************)

(* Steps of PC audio: whatever they do, no number, event or wait changes.  *)
LEMMA AudioKeeps ==
  ASSUME Facts, StartStreamer \/ StopStreamer \/ StopAudio \/ StreamerDies
  PROVE  Facts'
<1>1. /\ option' = option /\ calls' = calls /\ own' = own /\ found' = found
      /\ said' = said /\ answered' = answered /\ events' = events
      /\ work' = work /\ leaving' = leaving /\ lossy' = lossy
  BY DEF StartStreamer, StopStreamer, StopAudio, StreamerDies, Goto, DongleRests,
         chosen, wait, console, audio, dongle
<1>2. \/ /\ phase = "StartStreamer" /\ phase' = "Menu" /\ told' = told
      \/ /\ phase' = "StopAudio" /\ streamer' = FALSE /\ told' = told
      \/ /\ phase = "StopAudio" /\ phase' \in {"Menu", "Ending"}
         /\ told' = "stop" /\ streamer' = streamer
      \/ phase' = phase /\ streamer' \in {streamer, FALSE} /\ told' = told
  BY DEF StartStreamer, StopStreamer, StopAudio, StreamerDies, Goto, DongleRests,
         console, audio, dongle, AtEnd
<1>3. streamer' \in BOOLEAN /\ forgotten' \in BOOLEAN
  <2>1. streamer \in BOOLEAN /\ forgotten \in BOOLEAN
    BY DEF Facts, TypeOK
  <2>2. CASE StartStreamer
    BY <2>1, <2>2 DEF StartStreamer
  <2>3. CASE StopStreamer \/ StreamerDies
    BY <2>1, <2>3, Zenon DEF StopStreamer, StreamerDies
  <2>4. CASE StopAudio
    BY <2>1, <2>4 DEF StopAudio, audio
  <2> QED
    BY <2>2, <2>3, <2>4
<1>4. TypeOK' /\ StreamerFacts'
  BY <1>1, <1>2, <1>3 DEF Facts, TypeOK, Phases, StreamerFacts
<1>5. phase' \in {"Menu", "Ending", "StopAudio"} \/ phase' = phase
  BY <1>2
<1>6. OwnFacts'
  BY <1>1, <1>5 DEF Facts, OwnFacts, Relevant, OwnAnswer
<1>7. NumberFacts' /\ EndFacts' /\ AnsweredFacts'
  BY <1>1, <1>5 DEF Facts, NumberFacts, EndFacts, AnsweredFacts
<1>8. Results' = Results /\ Ends' = Ends
  BY <1>1 DEF Results, Ends
<1>9. CountFacts'
  BY <1>1, <1>5, <1>8 DEF Facts, CountFacts, ScanListsAll
<1> QED
  BY <1>4, <1>6, <1>7, <1>9 DEF Facts

(* A wait that gives up reports about no operation.                        *)
LEMMA GivesUpKeeps ==
  ASSUME Facts, NEW how \in {"Timeout", "Confirmed"}, GivesUp(how)
  PROVE  Facts' /\ said'.by = 0
<1>1. /\ phase' = "Menu" /\ option' = option /\ calls' = calls /\ own' = own
      /\ found' = found /\ answered' = answered /\ events' = events
      /\ streamer' = streamer /\ forgotten' = forgotten
      /\ work' = work /\ leaving' = leaving
      /\ told' = told /\ lossy' = lossy
  BY DEF GivesUp, DongleRests, chosen, audio, dongle
<1>2. said' = [how |-> how, by |-> 0, found |-> found, count |-> 0]
  <2>1. said' = [Nothing EXCEPT !.how = how, !.found = found]
    BY DEF GivesUp
  <2>2. [Nothing EXCEPT !.how = how, !.found = found] =
          [[Nothing EXCEPT !.how = how] EXCEPT !.found = found]
    OBVIOUS
  <2>3. [Nothing EXCEPT !.how = how] =
          [how |-> how, by |-> 0, found |-> 0, count |-> 0]
    BY DEF Nothing
  <2> DEFINE w == [how |-> how, by |-> 0, found |-> 0, count |-> 0]
  <2>4. [w EXCEPT !.found = found] =
          [how |-> how, by |-> 0, found |-> found, count |-> 0]
    OBVIOUS
  <2> QED
    BY <2>1, <2>2, <2>3, <2>4
<1>3. /\ said' \in [how : {"Nothing", "Timeout", "Confirmed"} \cup Kinds,
                    by : Calls, found : Nat, count : 0..MaxFound]
      /\ said'.how \notin Kinds /\ said'.by = 0
  BY <1>2, NothingSaid, BoundsAssumption DEF Facts, TypeOK, Calls
<1>4. TypeOK' /\ StreamerFacts'
  BY <1>1, <1>3 DEF Facts, TypeOK, Phases, StreamerFacts
<1>5. OwnFacts'
  BY <1>1, <1>3 DEF Facts, OwnFacts, Relevant, OwnAnswer
<1>6. NumberFacts' /\ EndFacts' /\ AnsweredFacts'
  BY <1>1 DEF Facts, NumberFacts, EndFacts, AnsweredFacts
<1>7. ScanListsAll'
  BY <1>3, NothingSaid DEF ScanListsAll
<1>8. CountFacts'
  BY <1>1, <1>7 DEF Facts, CountFacts
<1> QED
  BY <1>3, <1>4, <1>5, <1>6, <1>8 DEF Facts


(* The results a look goes through, and the ends it comes upon.            *)
LEMMA LookShape ==
  ASSUME Facts, Look
  PROVE  /\ phase = "Wait" /\ events' = <<>> /\ DOMAIN events' = {}
         /\ option' = option /\ calls' = calls /\ own' = own
         /\ streamer' = streamer /\ forgotten' = forgotten
         /\ work' = work /\ leaving' = leaving
         /\ told' = told /\ lossy' = lossy
         /\ found' \in Nat
         /\ \/ \E i \in Seen(events) : /\ Decoded(events[i]) \in Waits[option].ends
                                       /\ Hears(events[i])
            \/ /\ phase' = phase /\ said' = said /\ answered' = answered
               /\ \A i \in Seen(events) :
                    Decoded(events[i]) \notin Waits[option].ends
<1> DEFINE listed == {i \in Seen(events) :
                        Decoded(events[i]) \in Waits[option].lists}
<1>1. found' = found + Cardinality(listed)
  BY DEF Look, Polled
<1>2. Len(events) \in Nat /\ DOMAIN events = 1..Len(events) /\ found \in Nat
  BY DEF Facts, TypeOK
<1>3. Cardinality(listed) \in Nat
  <2>1. IsFiniteSet(1..Len(events))
    BY <1>2, FS_Interval
  <2>2. listed \subseteq 1..Len(events)
    BY <1>2 DEF Seen
  <2> HIDE DEF listed
  <2> QED
    BY <2>1, <2>2, FS_Subset, FS_CardinalityType
<1> HIDE DEF listed
<1>4. found' \in Nat
  BY <1>1, <1>2, <1>3
<1>5. events' = <<>> /\ DOMAIN events' = {}
  BY DEF Look, Left
<1>6. /\ phase = "Wait" /\ option' = option /\ calls' = calls /\ own' = own
      /\ streamer' = streamer /\ forgotten' = forgotten
      /\ work' = work /\ leaving' = leaving
      /\ told' = told /\ lossy' = lossy
  BY DEF Look, chosen, audio, dongle
<1>7. \/ \E i \in Seen(events) : /\ Decoded(events[i]) \in Waits[option].ends
                                 /\ Hears(events[i])
      \/ /\ phase' = phase /\ said' = said /\ answered' = answered
         /\ \A i \in Seen(events) : Decoded(events[i]) \notin Waits[option].ends
  BY DEF Look, Polled
<1> QED
  BY <1>4, <1>5, <1>6, <1>7

(* A look that hears of an end: the wait is over.                          *)
LEMMA HearsKeeps ==
  ASSUME Facts, Look, NEW i \in Seen(events),
         Decoded(events[i]) \in Waits[option].ends, Hears(events[i])
  PROVE  /\ TypeOK' /\ StreamerFacts' /\ OwnFacts' /\ NumberFacts' /\ EndFacts'
         /\ AnsweredFacts'
         /\ said'.by \notin answered
<1> DEFINE e == events[i]
<1>1. i \in DOMAIN events /\ e \in Events
  BY DEF Seen, Facts, TypeOK
<1>2. /\ e.kind \in Kinds /\ e.of \in Calls /\ e.count \in 0..MaxFound
  BY <1>1 DEF Events
<1>3. "None" \notin Waits[option].ends /\ option \in Waiting
  <2>1. option \in Waiting
    BY LookShape DEF Facts, TypeOK
  <2> QED
    BY <2>1 DEF Waiting, Scans, Connects, Waits, RunWifiScan,
       WaitForWifiConnection, RunBluetoothScan, RunBluetoothBleScan,
       WaitA2dpResult, RunA2dpTone
<1>4. e.kind \in Waits[option].ends
  BY <1>1, <1>3, DecodedKeeps
<1>5. /\ phase' = "Menu"
      /\ said' = [how |-> e.kind, by |-> e.of, found |-> found', count |-> e.count]
      /\ answered' = IF option \in Scans /\ e.of = calls
                     THEN answered \cup {calls} ELSE answered
  BY DEF Hears
<1>6. e.of \notin answered
  BY <1>1 DEF Facts, AnsweredFacts
<1>7. own => e.of = calls
  BY <1>1 DEF Facts, OwnFacts, Relevant
<1>8. option \in Scans /\ e.of = calls =>
        /\ calls # 0 /\ leaving # calls
        /\ \A k \in Operations : work[k].of # calls
  <2> SUFFICES ASSUME option \in Scans, e.of = calls
               PROVE  /\ calls # 0 /\ leaving # calls
                      /\ \A k \in Operations : work[k].of # calls
    OBVIOUS
  <2>1. e.kind = Done[option]
    BY <1>4, ScansHear
  <2> QED
    BY <1>1, <2>1 DEF Facts, EndFacts
<1> HIDE DEF e
<1>9. /\ said' \in [how : {"Nothing", "Timeout", "Confirmed"} \cup Kinds,
                    by : Calls, found : Nat, count : 0..MaxFound]
      /\ said'.how = e.kind /\ said'.by = e.of
  BY <1>2, <1>5, LookShape
<1>10. TypeOK'
  <2>1. answered' \subseteq 1..MaxCalls
    BY <1>5, <1>8, BoundsAssumption DEF Facts, TypeOK, Calls
  <2>2. events' \in Seq(Events)
    BY LookShape
  <2> QED
    BY <1>5, <1>9, <2>1, <2>2, LookShape DEF Facts, TypeOK, Phases
<1>11. StreamerFacts' /\ NumberFacts' /\ EndFacts'
  BY <1>5, LookShape DEF Facts, StreamerFacts, NumberFacts, EndFacts
<1>12. AnsweredFacts'
  <2>1. \A a \in answered' : a \in answered \/
          (a = calls /\ leaving # calls /\ \A k \in Operations : work[k].of # calls)
    BY <1>5, <1>8
  <2>2. calls <= calls
    BY DEF Facts, TypeOK, Calls
  <2> QED
    BY <2>1, <2>2, LookShape DEF Facts, AnsweredFacts
<1>13. OwnFacts'
  BY <1>4, <1>5, <1>7, <1>9, LookShape DEF Facts, OwnFacts, OwnAnswer
<1> QED
  BY <1>6, <1>9, <1>10, <1>11, <1>12, <1>13

(* A look that hears of no end: the wait goes on.                          *)
LEMMA LooksOn ==
  ASSUME Facts, Look, phase' = phase, said' = said, answered' = answered
  PROVE  /\ TypeOK' /\ StreamerFacts' /\ OwnFacts' /\ NumberFacts' /\ EndFacts'
         /\ AnsweredFacts'
<1>1. events' \in Seq(Events)
  BY LookShape
<1>2. TypeOK' /\ StreamerFacts'
  BY <1>1, LookShape DEF Facts, TypeOK, StreamerFacts
<1>3. OwnFacts'
  BY LookShape DEF Facts, OwnFacts, OwnAnswer
<1>4. NumberFacts' /\ EndFacts' /\ AnsweredFacts'
  BY LookShape DEF Facts, NumberFacts, EndFacts, AnsweredFacts
<1> QED
  BY <1>2, <1>3, <1>4

(* As long as nothing was lost, a look lists all that is pending.          *)
LEMMA LookKeepsCount ==
  ASSUME Facts, Look
  PROVE  CountFacts'
<1> SUFFICES ASSUME own, option \in Scans PROVE CountFacts'
  BY LookShape DEF CountFacts
<1>1. /\ phase = "Wait" /\ option \in Scans /\ own
      /\ Waits[option].lists = {Found[option]} /\ Waits[option].ends = {Done[option]}
      /\ Found[option] # Done[option]
  BY LookShape, ScansHear
<1>2. Results' = {} /\ Ends' = {}
  BY LookShape DEF Results, Ends
<1>3. ASSUME ~lossy
      PROVE  found' = found + Cardinality(Results)
  <2>1. {j \in Seen(events) : Decoded(events[j]) \in Waits[option].lists} = Results
    <3>1. ASSUME NEW j \in Results, NEW l \in 1..(j - 1), l \in DOMAIN events
          PROVE  l \notin Ends
      <4>1. l < j
        BY DEF Results, Facts, TypeOK
      <4>2. \A d \in Ends : \A r \in Results : r < d
        BY <1>1, <1>3 DEF Facts, CountFacts
      <4>3. l \in Nat /\ j \in Nat
        BY <3>1 DEF Results, Facts, TypeOK
      <4> QED
        BY <4>1, <4>2, <4>3
    <3>2. \A j \in Results : \A l \in 1..(j - 1) : l \in DOMAIN events
      BY DEF Results, Facts, TypeOK
    <3>3. Results \subseteq Seen(events)
      BY <1>1, <3>1, <3>2 DEF Seen, Results, Ends
    <3> QED
      BY <1>1, <3>3 DEF Results, Seen
  <2> QED
    BY <2>1 DEF Look, Polled
<1>4. ASSUME NEW i \in Seen(events), Decoded(events[i]) \in Waits[option].ends,
             Hears(events[i])
      PROVE  CountFacts'
  <2>1. i \in Ends
    BY <1>1, <1>4 DEF Ends, Seen
  <2>2. ASSUME ~lossy
        PROVE  events[i].count = found + Cardinality(Results)
    BY <1>1, <2>1, <2>2 DEF Facts, CountFacts
  <2>3. /\ phase' = "Menu" /\ said'.found = found'
        /\ said'.count = events[i].count
    BY <1>4 DEF Hears
  <2>4. ScanListsAll'
    BY <1>3, <2>2, <2>3, LookShape DEF ScanListsAll
  <2> QED
    BY <2>3, <2>4 DEF CountFacts
<1>5. ASSUME phase' = phase, said' = said, answered' = answered,
             \A i \in Seen(events) : Decoded(events[i]) \notin Waits[option].ends
      PROVE  CountFacts'
  <2>1. ScanListsAll'
    BY <1>1, <1>5, LookShape DEF Facts, CountFacts, ScanListsAll
  <2>2. ASSUME ~lossy, work[option].stage = "Scanning"
        PROVE  work[option].sent = found' + Cardinality(Results')
    <3>1. work[option].sent = found + Cardinality(Results)
      BY <1>1, <2>2 DEF Facts, CountFacts
    <3>2. Cardinality(Results') = 0
      BY <1>2, FS_EmptySet
    <3>3. found' \in Nat
      BY LookShape
    <3> QED
      BY <1>3, <2>2, <3>1, <3>2, <3>3
  <2> QED
    BY <1>1, <1>2, <1>5, <2>1, <2>2, LookShape DEF CountFacts
<1> QED
  BY <1>4, <1>5, LookShape

LEMMA LookKeeps == ASSUME Facts, Look PROVE Facts'
<1>1. CountFacts'
  BY LookKeepsCount
<1> QED
  BY <1>1, LookShape, HearsKeeps, LooksOn DEF Facts

(***************************************************************************)
(* The facts hold.                                                         *)
(***************************************************************************)

LEMMA FactsInit == ASSUME Init PROVE Facts
<1>1. streamer \in BOOLEAN /\ forgotten \in BOOLEAN /\ own \in BOOLEAN /\ lossy \in BOOLEAN
  BY Zenon DEF Init
<1>2. events \in Seq(Events) /\ DOMAIN events = {}
  BY DEF Init
<1>3. /\ work \in [Operations -> [stage : Stages, of : Calls, sent : 0..MaxFound]]
      /\ \A k \in Operations : work[k].of = 0
  <2>1. Idle \in [stage : Stages, of : Calls, sent : 0..MaxFound] /\ Idle.of = 0
    BY BoundsAssumption DEF Idle, Stages, Calls
  <2>2. work = [k \in Operations |-> Idle]
    BY DEF Init, Operations
  <2> QED
    BY <2>1, <2>2
<1>4. said = Nothing /\ found = 0 /\ leaving = 0 /\ told = "stop" /\ calls = 0
      /\ answered = {} /\ phase = "Begin" /\ option = "Exit"
      /\ own = FALSE /\ streamer = FALSE
  BY DEF Init
<1>5. option \in Options /\ option \notin Scans
  BY <1>4 DEF Options, Silent, Scans
<1>6. TypeOK
  <2>1. leaving \in Calls /\ calls \in Calls
    BY <1>4, BoundsAssumption DEF Calls
  <2>2. phase \in Phases
    BY <1>4 DEF Phases
  <2> QED
    BY <1>1, <1>2, <1>3, <1>4, <1>5, <2>1, <2>2, NothingSaid
       DEF TypeOK, Operations
<1>7. StreamerFacts /\ OwnFacts /\ EndFacts /\ AnsweredFacts /\ CountFacts
  BY <1>4, <1>5
     DEF StreamerFacts, OwnFacts, EndFacts, AnsweredFacts, CountFacts
<1>8. NumberFacts
  BY <1>2, <1>3, <1>4 DEF NumberFacts
<1> QED
  BY <1>6, <1>7, <1>8 DEF Facts

LEMMA Unmoved == ASSUME Facts, UNCHANGED vars PROVE Facts'
<1>1. /\ phase' = phase /\ option' = option /\ calls' = calls /\ own' = own
      /\ found' = found /\ said' = said /\ answered' = answered
      /\ streamer' = streamer /\ forgotten' = forgotten
      /\ events' = events /\ work' = work
      /\ leaving' = leaving /\ told' = told /\ lossy' = lossy
  BY DEF vars, console, chosen, wait, audio, dongle
<1>2. TypeOK' /\ StreamerFacts'
  BY <1>1 DEF Facts, TypeOK, StreamerFacts
<1>3. OwnFacts'
  BY <1>1 DEF Facts, OwnFacts, Relevant, OwnAnswer
<1>4. NumberFacts' /\ EndFacts' /\ AnsweredFacts'
  BY <1>1 DEF Facts, NumberFacts, EndFacts, AnsweredFacts
<1>5. Results' = Results /\ Ends' = Ends
  BY <1>1 DEF Results, Ends
<1>6. CountFacts'
  BY <1>1, <1>5 DEF Facts, CountFacts, ScanListsAll
<1> QED
  BY <1>2, <1>3, <1>4, <1>6 DEF Facts

LEMMA FactsStep == Facts /\ [Next]_vars => Facts'
<1> SUFFICES ASSUME Facts, [Next]_vars PROVE Facts'
  OBVIOUS
<1>1. CASE Main \/ Interrupt \/ End
  BY <1>1, QuietMoves, QuietKeeps, CloseKeeps DEF Main, Interrupt, End
<1>2. CASE StatusAnswered \/ RequestRaises
  BY <1>2, QuietMoves, QuietKeeps
<1>3. CASE Command
  BY <1>3, CommandKeeps
<1>4. CASE StartStreamer \/ StopStreamer \/ StopAudio \/ StreamerDies
  BY <1>4, AudioKeeps
<1>5. CASE Look
  BY <1>5, LookKeeps
<1>6. CASE Confirm \/ TimeOut
  BY <1>6, GivesUpKeeps, QuietMoves, QuietKeeps DEF Confirm, TimeOut
<1>7. CASE \E o \in Options : Menu(o)
  BY <1>7, MenuKeeps
<1>8. CASE Dongle
  BY <1>8, DongleKeeps
<1>9. CASE UNCHANGED vars
  BY <1>9, Unmoved
<1> QED
  BY <1>1, <1>2, <1>3, <1>4, <1>5, <1>6, <1>7, <1>8, <1>9 DEF Next, ConsoleStep

LEMMA FactsHold == Spec => []Facts
<1>1. Init => Facts
  BY FactsInit
<1> QED
  BY <1>1, FactsStep, PTL DEF Spec

(***************************************************************************)
(* The theorems.                                                           *)
(***************************************************************************)

(* Every variable keeps its type, and is_running() says so only of a       *)
(* dongle that was told to start and not yet to stop, whichever request    *)
(* raises and whichever threads a stop() has given up on.                  *)
THEOREM ConsoleInvariantHolds == Spec => []ConsoleInvariant
<1>1. Facts => ConsoleInvariant
  BY DEF Facts, StreamerFacts, ConsoleInvariant, StreamerOnlyWhileTold
<1> QED
  BY <1>1, FactsHold, PTL

(* A wait that began with nothing older pending is answered by its own     *)
(* operation.                                                              *)
THEOREM AnswersAreOwn == Spec => []OwnAnswer
<1>1. Facts => OwnAnswer
  BY DEF Facts, OwnFacts, OwnAnswer
<1> QED
  BY <1>1, FactsHold, PTL

(* Such a wait for a scan lists exactly the results the dongle counts, if  *)
(* nothing was lost.                                                       *)
THEOREM ScansListAll == Spec => []ScanListsAll
<1>1. Facts => ScanListsAll
  <2> SUFFICES ASSUME Facts, own, said.how \in {Done[k] : k \in Scans}
               PROVE  option \in Scans
    BY DEF Facts, CountFacts, ScanListsAll
  <2>1. PICK k \in Scans : said.how = Done[k]
    OBVIOUS
  <2>2. option \in Operations /\ said.how \in Heard(option)
    BY <2>1, NothingSaid DEF Facts, OwnFacts, Heard
  <2>3. Done[k] \in KindsOf[k] /\ k \in Operations
    BY ScansHear
  <2>4. k = option
    BY <2>1, <2>2, <2>3, HeardOfOwn
  <2> QED
    BY <2>4
<1> QED
  BY <1>1, FactsHold, PTL

(* A scan whose own wait has heard of its end ends no other wait.          *)
THEOREM AnswersAreNotReused == Spec => AnswerNotReused
<1> DEFINE Unheard == said' # said /\ said'.by # 0 => said'.by \notin answered
<1>1. Facts /\ [Next]_vars => [Unheard]_vars
  <2> SUFFICES ASSUME Facts, Next, said' # said PROVE Unheard
    OBVIOUS
  <2>1. CASE said' = Nothing
    BY <2>1, NothingSaid
  <2>2. CASE Look
    BY <2>2, LookShape, HearsKeeps
  <2>3. ASSUME NEW how \in {"Timeout", "Confirmed"}, GivesUp(how) PROVE Unheard
    BY <2>3, GivesUpKeeps
  <2>4. \/ said' = Nothing \/ Look
        \/ \E how \in {"Timeout", "Confirmed"} : GivesUp(how)
    <3>1. CASE Main \/ Interrupt \/ End
      BY <3>1 DEF Main, Interrupt, End, Close, GotoQuietly, Goto, wait
    <3>2. CASE StatusAnswered \/ RequestRaises
      BY <3>2, QuietMoves DEF QuietMove, wait
    <3>3. CASE Command \/ StartStreamer \/ StopStreamer \/ StopAudio
      BY <3>3 DEF Command, StartStreamer, StopStreamer, StopAudio, Goto, wait
    <3>4. CASE Confirm \/ TimeOut
      BY <3>4, QuietMoves DEF Confirm, TimeOut, QuietMove, wait
    <3>5. CASE \E o \in Options : Menu(o)
      BY <3>5 DEF Menu
    <3>6. CASE StreamerDies
      BY <3>6 DEF StreamerDies, console, wait
    <3>7. CASE Dongle
      BY <3>7 DEF Dongle, console, wait
    <3> QED
      BY <3>1, <3>2, <3>3, <3>4, <3>5, <3>6, <3>7 DEF Next, ConsoleStep
  <2> QED
    BY <2>1, <2>2, <2>3, <2>4
<1> QED
  BY <1>1, FactsHold, PTL DEF Spec, AnswerNotReused

(***************************************************************************)
(* How an option comes to its end: WaitEnds without the fairness.          *)
(***************************************************************************)

(* The phases that are left, at most.                                      *)
PhasesLeft ==
  [Menu |-> 0, Closed |-> 0,
   Begin |-> 1, Confirm |-> 1, StartStreamer |-> 1, Ending |-> 1,
   Wait |-> 2, StopAudio |-> 2, Command |-> 3, StopStreamer |-> 3,
   Status |-> 4][phase]

(* The console leaves no phase for an earlier one; it stays only where it  *)
(* waits for events, and not there once the deadline has passed.           *)
OptionsRunDown ==
  [][phase \notin {"Menu", "Closed"} =>
       /\ PhasesLeft \in 1..4
       /\ phase' # phase => PhasesLeft' \in 0..(PhasesLeft - 1)
       /\ TimeOut \/ (ConsoleStep /\ phase # "Wait") => phase' # phase]_vars

(* Between the choice of an option and the next menu the console never     *)
(* goes back to a phase, whatever raises; only a wait may stay where it    *)
(* is, until its deadline has passed.                                      *)
THEOREM OptionsComeBack == Spec => OptionsRunDown
<1>1. ASSUME Facts, [Next]_vars, phase \notin {"Menu", "Closed"}
      PROVE  /\ PhasesLeft \in 1..4
             /\ phase' # phase => PhasesLeft' \in 0..(PhasesLeft - 1)
             /\ TimeOut \/ (ConsoleStep /\ phase # "Wait") => phase' # phase
  <2>1. phase \in Phases
    BY <1>1 DEF Facts, TypeOK
  <2>2. PhasesLeft \in 1..4
    BY <1>1, <2>1 DEF PhasesLeft, Phases
  <2> DEFINE Forward ==
        \/ phase' \in {"Menu", "Closed"}
        \/ phase = "Status" /\ phase' \in {"Command", "StopStreamer", "Ending"}
        \/ phase = "Command" /\ phase' \in {"Wait", "StartStreamer"}
        \/ phase = "StopStreamer" /\ phase' = "StopAudio"
        \/ phase = "StopAudio" /\ phase' = "Ending"
        \/ phase = "Wait" /\ phase' = "Confirm"
  <2>3. ASSUME Forward
        PROVE  phase' # phase /\ PhasesLeft' \in 0..(PhasesLeft - 1)
    <3>1. phase' # phase
      BY <1>1, <2>3
    <3>2. CASE phase' \in {"Menu", "Closed"}
      <4>1. PhasesLeft' = 0
        BY <3>2 DEF PhasesLeft
      <4> QED BY <2>2, <3>1, <4>1
    <3>3. CASE phase' \notin {"Menu", "Closed"}
      BY <2>3, <3>1, <3>3 DEF PhasesLeft
    <3> QED BY <3>2, <3>3
  <2> HIDE DEF Forward
  <2>4. ASSUME \/ Main \/ Interrupt \/ End \/ StatusAnswered \/ RequestRaises
               \/ Command \/ StartStreamer \/ StopStreamer \/ StopAudio
               \/ Confirm \/ TimeOut
        PROVE  Forward
    <3>1. CASE Main \/ Interrupt \/ End
      BY <3>1 DEF Forward, Main, Interrupt, End, Close, GotoQuietly, Goto
    <3>2. CASE StatusAnswered \/ RequestRaises
      BY <3>2 DEF Forward, StatusAnswered, RequestRaises, AtEnd, GotoQuietly, Goto
    <3>3. CASE Command
      BY <3>3 DEF Forward, Command, AfterCommand, Goto
    <3>4. CASE StartStreamer \/ StopStreamer \/ StopAudio
      BY <3>4 DEF Forward, StartStreamer, StopStreamer, StopAudio, AtEnd, Goto
    <3>5. CASE Confirm \/ TimeOut
      BY <3>5 DEF Forward, Confirm, TimeOut, GivesUp, GotoQuietly, Goto
    <3> QED BY <2>4, <3>1, <3>2, <3>3, <3>4, <3>5
  <2>5. Look => phase = "Wait" /\ (phase' = phase \/ Forward)
    BY DEF Forward, Look, Hears
  <2>6. ASSUME (\E o \in Options : Menu(o)) \/ StreamerDies \/ Dongle \/ UNCHANGED vars
        PROVE  phase' = phase
    BY <1>1, <2>6 DEF Menu, StreamerDies, Dongle, console, vars
  <2> QED
    BY <1>1, <2>2, <2>3, <2>4, <2>5, <2>6 DEF Next, ConsoleStep
<1> QED BY <1>1, FactsHold, PTL DEF Spec, OptionsRunDown

(***************************************************************************)
(* The network tests (NetworkTests).                                       *)
(***************************************************************************)

(* What the host believes to be connected is watched.                      *)
Believed == \A l \in believes : was[l]

(* A test that has ended without a step cut short, and the TCP client test *)
(* from its closing request on, holds nothing open any more.               *)
Closed ==
  (Running /\ ~cutShort /\ (verdict # "None" \/ (Test = "TcpClient" /\ at = 7)))
    => ~Holds(Test)

(* The steps of a system test after which its message must have arrived at *)
(* the dongle and at the PC, for it to get there without having raised.    *)
DonglePoint == [TcpClient |-> 4, TcpServer |-> 5, Udp |-> 6]
PcPoint == [TcpClient |-> 6, TcpServer |-> 7, Udp |-> 4]

GotFacts ==
  /\ received = "Whole" => gotAtPc
  /\ (Running /\ Test \in SystemTests /\ ~raised) =>
       /\ at >= DonglePoint[Test] => gotAtDongle
       /\ at >= PcPoint[Test] => gotAtPc
       /\ verdict # "None" => at + 1 = Len(Steps)

(* A test that has raised does not pass.                                   *)
PassFacts == (Running /\ verdict = "PASS") => ~raised

(* The inductive invariant.                                                *)
TestsInv == TestsTypeOK /\ Believed /\ Closed /\ GotFacts /\ PassFacts

(***************************************************************************)
(* The tests: where each step is.                                          *)
(***************************************************************************)

LEMMA TestIsOne == TestsTypeOK /\ Running => Test \in Tests
BY DEF TestsTypeOK, Running, Test

LEMMA ThreeParts ==
  ASSUME NEW S, NEW a \in Seq(S), NEW b \in Seq(S), NEW c \in Seq(S),
         NEW s, s = a \o b \o c
  PROVE /\ Len(s) = Len(a) + Len(b) + Len(c)
        /\ \A i \in 1..(Len(a) + Len(b) + Len(c)) :
             s[i] = IF i <= Len(a) THEN a[i]
                    ELSE IF i <= Len(a) + Len(b) THEN b[i - Len(a)]
                    ELSE c[i - (Len(a) + Len(b))]
OBVIOUS

(* The present test, if its parts are a, b and c.                          *)
InParts(a, b, c) ==
  /\ TryBegins = Len(a) /\ FinallyBegins = Len(a) + Len(b)
  /\ Len(Steps) = Len(a) + Len(b) + Len(c)
  /\ \A i \in 1..(Len(a) + Len(b) + Len(c)) :
       Steps[i] = IF i <= Len(a) THEN a[i]
                  ELSE IF i <= Len(a) + Len(b) THEN b[i - Len(a)]
                  ELSE c[i - (Len(a) + Len(b))]

LEMMA StepsAre ==
  ASSUME NEW S, NEW a \in Seq(S), NEW b \in Seq(S), NEW c \in Seq(S),
         Body[Test] = [before |-> a, try |-> b, finally |-> c]
  PROVE InParts(a, b, c)
<1>1. Part("before") = a /\ Part("try") = b /\ Part("finally") = c
  BY DEF Part
<1>2. Steps = a \o b \o c
  BY <1>1 DEF Steps
<1> QED BY <1>1, <1>2, ThreeParts DEF TryBegins, FinallyBegins, InParts

LEMMA StepsOfTcpClient ==
  ASSUME Test = "TcpClient"
  PROVE /\ TryBegins = 1 /\ FinallyBegins = 6 /\ Len(Steps) = 8
        /\ Steps[1] = "listen" /\ Steps[2] = "tcp_connect"
        /\ Steps[3] = "tcp_send" /\ Steps[4] = "tcp_receive"
        /\ Steps[5] = "finished" /\ Steps[6] = "check"
        /\ Steps[7] = "tcp_close" /\ Steps[8] = "join"
<1> DEFINE a == <<"listen">>
           b == <<"tcp_connect", "tcp_send", "tcp_receive", "finished", "check">>
           c == <<"tcp_close", "join">>
           S == {"listen", "tcp_connect", "tcp_send", "tcp_receive", "finished", "check",
                 "tcp_close", "join"}
<1>1. a \in Seq(S) /\ b \in Seq(S) /\ c \in Seq(S)
  OBVIOUS
<1>2. Body[Test] = [before |-> a, try |-> b, finally |-> c]
  BY DEF Body, TestTcpClient
<1>3. Len(a) = 1 /\ Len(b) = 5 /\ Len(c) = 2
  OBVIOUS
<1>4. /\ a[1] = "listen"
      /\ b[1] = "tcp_connect" /\ b[2] = "tcp_send" /\ b[3] = "tcp_receive"
      /\ b[4] = "finished" /\ b[5] = "check"
      /\ c[1] = "tcp_close" /\ c[2] = "join"
  OBVIOUS
<1> HIDE DEF a, b, c, S
<1>5. InParts(a, b, c)
  BY <1>1, <1>2, StepsAre
<1>6. /\ Steps[1] = a[1] /\ Steps[2] = b[1] /\ Steps[3] = b[2]
      /\ Steps[4] = b[3] /\ Steps[5] = b[4] /\ Steps[6] = b[5]
      /\ Steps[7] = c[1] /\ Steps[8] = c[2]
  BY <1>3, <1>5 DEF InParts
<1> QED BY <1>3, <1>4, <1>5, <1>6 DEF InParts

LEMMA StepsOfTcpServer ==
  ASSUME Test = "TcpServer"
  PROVE /\ TryBegins = 1 /\ FinallyBegins = 7 /\ Len(Steps) = 9
        /\ Steps[1] = "tcp_server_start" /\ Steps[2] = "connect"
        /\ Steps[3] = "sendall" /\ Steps[4] = "tcp_server_accept"
        /\ Steps[5] = "tcp_server_receive" /\ Steps[6] = "tcp_server_send"
        /\ Steps[7] = "recv" /\ Steps[8] = "close"
        /\ Steps[9] = "tcp_server_close"
<1> DEFINE a == <<"tcp_server_start">>
           b == <<"connect", "sendall", "tcp_server_accept", "tcp_server_receive",
                  "tcp_server_send", "recv">>
           c == <<"close", "tcp_server_close">>
           S == {"tcp_server_start", "connect", "sendall", "tcp_server_accept",
                 "tcp_server_receive", "tcp_server_send", "recv", "close",
                 "tcp_server_close"}
<1>1. a \in Seq(S) /\ b \in Seq(S) /\ c \in Seq(S)
  OBVIOUS
<1>2. Body[Test] = [before |-> a, try |-> b, finally |-> c]
  BY DEF Body, TestTcpServer
<1>3. Len(a) = 1 /\ Len(b) = 6 /\ Len(c) = 2
  OBVIOUS
<1>4. /\ a[1] = "tcp_server_start"
      /\ b[1] = "connect" /\ b[2] = "sendall" /\ b[3] = "tcp_server_accept"
      /\ b[4] = "tcp_server_receive" /\ b[5] = "tcp_server_send" /\ b[6] = "recv"
      /\ c[1] = "close" /\ c[2] = "tcp_server_close"
  OBVIOUS
<1> HIDE DEF a, b, c, S
<1>5. InParts(a, b, c)
  BY <1>1, <1>2, StepsAre
<1>6. /\ Steps[1] = a[1] /\ Steps[2] = b[1] /\ Steps[3] = b[2]
      /\ Steps[4] = b[3] /\ Steps[5] = b[4] /\ Steps[6] = b[5]
      /\ Steps[7] = b[6] /\ Steps[8] = c[1] /\ Steps[9] = c[2]
  BY <1>3, <1>5 DEF InParts
<1> QED BY <1>3, <1>4, <1>5, <1>6 DEF InParts

LEMMA StepsOfUdp ==
  ASSUME Test = "Udp"
  PROVE /\ TryBegins = 2 /\ FinallyBegins = 6 /\ Len(Steps) = 7
        /\ Steps[1] = "bind" /\ Steps[2] = "udp_open"
        /\ Steps[3] = "udp_send" /\ Steps[4] = "recvfrom"
        /\ Steps[5] = "sendto" /\ Steps[6] = "udp_receive"
        /\ Steps[7] = "udp_close"
<1> DEFINE a == <<"bind", "udp_open">>
           b == <<"udp_send", "recvfrom", "sendto", "udp_receive">>
           c == <<"udp_close">>
           S == {"bind", "udp_open", "udp_send", "recvfrom", "sendto", "udp_receive",
                 "udp_close"}
<1>1. a \in Seq(S) /\ b \in Seq(S) /\ c \in Seq(S)
  OBVIOUS
<1>2. Body[Test] = [before |-> a, try |-> b, finally |-> c]
  BY DEF Body, TestUdp
<1>3. Len(a) = 2 /\ Len(b) = 4 /\ Len(c) = 1
  OBVIOUS
<1>4. /\ a[1] = "bind" /\ a[2] = "udp_open"
      /\ b[1] = "udp_send" /\ b[2] = "recvfrom" /\ b[3] = "sendto"
      /\ b[4] = "udp_receive"
      /\ c[1] = "udp_close"
  OBVIOUS
<1> HIDE DEF a, b, c, S
<1>5. InParts(a, b, c)
  BY <1>1, <1>2, StepsAre
<1>6. /\ Steps[1] = a[1] /\ Steps[2] = a[2] /\ Steps[3] = b[1]
      /\ Steps[4] = b[2] /\ Steps[5] = b[3] /\ Steps[6] = b[4]
      /\ Steps[7] = c[1]
  BY <1>3, <1>5 DEF InParts
<1> QED BY <1>3, <1>4, <1>5, <1>6 DEF InParts

LEMMA StepsOfUserTcpClient ==
  ASSUME Test = "UserTcpClient"
  PROVE /\ TryBegins = 2 /\ FinallyBegins = 3 /\ Len(Steps) = 4
        /\ Steps[1] = "tcp_connect" /\ Steps[2] = "tcp_send"
        /\ Steps[3] = "tcp_receive" /\ Steps[4] = "tcp_close"
<1> DEFINE a == <<"tcp_connect", "tcp_send">>
           b == <<"tcp_receive">>
           c == <<"tcp_close">>
           S == {"tcp_connect", "tcp_send", "tcp_receive", "tcp_close"}
<1>1. a \in Seq(S) /\ b \in Seq(S) /\ c \in Seq(S)
  OBVIOUS
<1>2. Body[Test] = [before |-> a, try |-> b, finally |-> c]
  BY DEF Body, RunTcpClient
<1>3. Len(a) = 2 /\ Len(b) = 1 /\ Len(c) = 1
  OBVIOUS
<1>4. /\ a[1] = "tcp_connect" /\ a[2] = "tcp_send"
      /\ b[1] = "tcp_receive"
      /\ c[1] = "tcp_close"
  OBVIOUS
<1> HIDE DEF a, b, c, S
<1>5. InParts(a, b, c)
  BY <1>1, <1>2, StepsAre
<1>6. /\ Steps[1] = a[1] /\ Steps[2] = a[2] /\ Steps[3] = b[1]
      /\ Steps[4] = c[1]
  BY <1>3, <1>5 DEF InParts
<1> QED BY <1>3, <1>4, <1>5, <1>6 DEF InParts

LEMMA StepsOfUserTcpServer ==
  ASSUME Test = "UserTcpServer"
  PROVE /\ TryBegins = 2 /\ FinallyBegins = 4 /\ Len(Steps) = 5
        /\ Steps[1] = "tcp_server_start" /\ Steps[2] = "tcp_server_accept"
        /\ Steps[3] = "tcp_server_receive" /\ Steps[4] = "tcp_server_send"
        /\ Steps[5] = "tcp_server_close"
<1> DEFINE a == <<"tcp_server_start", "tcp_server_accept">>
           b == <<"tcp_server_receive", "tcp_server_send">>
           c == <<"tcp_server_close">>
           S == {"tcp_server_start", "tcp_server_accept", "tcp_server_receive",
                 "tcp_server_send", "tcp_server_close"}
<1>1. a \in Seq(S) /\ b \in Seq(S) /\ c \in Seq(S)
  OBVIOUS
<1>2. Body[Test] = [before |-> a, try |-> b, finally |-> c]
  BY DEF Body, RunTcpServer
<1>3. Len(a) = 2 /\ Len(b) = 2 /\ Len(c) = 1
  OBVIOUS
<1>4. /\ a[1] = "tcp_server_start" /\ a[2] = "tcp_server_accept"
      /\ b[1] = "tcp_server_receive" /\ b[2] = "tcp_server_send"
      /\ c[1] = "tcp_server_close"
  OBVIOUS
<1> HIDE DEF a, b, c, S
<1>5. InParts(a, b, c)
  BY <1>1, <1>2, StepsAre
<1>6. /\ Steps[1] = a[1] /\ Steps[2] = a[2] /\ Steps[3] = b[1]
      /\ Steps[4] = b[2] /\ Steps[5] = c[1]
  BY <1>3, <1>5 DEF InParts
<1> QED BY <1>3, <1>4, <1>5, <1>6 DEF InParts

LEMMA StepsOfUserUdp ==
  ASSUME Test = "UserUdp"
  PROVE /\ TryBegins = 1 /\ FinallyBegins = 3 /\ Len(Steps) = 4
        /\ Steps[1] = "udp_open" /\ Steps[2] = "udp_send"
        /\ Steps[3] = "udp_receive" /\ Steps[4] = "udp_close"
<1> DEFINE a == <<"udp_open">>
           b == <<"udp_send", "udp_receive">>
           c == <<"udp_close">>
           S == {"udp_open", "udp_send", "udp_receive", "udp_close"}
<1>1. a \in Seq(S) /\ b \in Seq(S) /\ c \in Seq(S)
  OBVIOUS
<1>2. Body[Test] = [before |-> a, try |-> b, finally |-> c]
  BY DEF Body, RunUdp
<1>3. Len(a) = 1 /\ Len(b) = 2 /\ Len(c) = 1
  OBVIOUS
<1>4. /\ a[1] = "udp_open"
      /\ b[1] = "udp_send" /\ b[2] = "udp_receive"
      /\ c[1] = "udp_close"
  OBVIOUS
<1> HIDE DEF a, b, c, S
<1>5. InParts(a, b, c)
  BY <1>1, <1>2, StepsAre
<1>6. /\ Steps[1] = a[1] /\ Steps[2] = b[1] /\ Steps[3] = b[2]
      /\ Steps[4] = c[1]
  BY <1>3, <1>5 DEF InParts
<1> QED BY <1>3, <1>4, <1>5, <1>6 DEF InParts

(***************************************************************************)
(* The commands.                                                           *)
(***************************************************************************)

LEMMA FailsTypes == NetTypeOK /\ Fails => NetTypeOK'
BY DEF NetTypeOK, Fails, network

LEMMA CommandTypes ==
  ASSUME NetTypeOK,
         \/ TcpConnect(Reachable) \/ TcpSend \/ TcpReceive \/ TcpClose
         \/ TcpServerStart \/ TcpServerAccept \/ TcpServerSend
         \/ TcpServerReceive \/ TcpServerClose
         \/ UdpOpen \/ UdpSend \/ UdpReceive \/ UdpClose
  PROVE NetTypeOK'
<1> USE DEF Links, Channels, Amounts
<1>0. ASSUME NEW l \in Links PROVE [was EXCEPT ![l] = TRUE] \in [Links -> BOOLEAN]
  BY Zenon DEF NetTypeOK
<1>1. CASE TcpConnect(Reachable)
  <2>1. CASE NeedsWifi
    BY <2>1, FailsTypes DEF NeedsWifi
  <2>2. CASE ~NeedsWifi
    <3>1. /\ wifi' = wifi /\ running' = running /\ udpRunning' = udpRunning
          /\ caller' = caller /\ noticed' = {} /\ reply' \in {"Success", "Error"}
          /\ inbox' = Emptied(inbox, "Tcp") /\ outbox' = Emptied(outbox, "Tcp")
      BY <1>1, <2>2 DEF TcpConnect
    <3>2. socket' \in [Links -> {"None", "Up", "Broken"}]
      BY <1>1, <2>2 DEF TcpConnect, NetTypeOK
    <3>3. was' \in [Links -> BOOLEAN]
      BY <1>0, <1>1, <2>2 DEF TcpConnect, NetTypeOK
    <3>4. queued' \in BOOLEAN
      BY <1>1, <2>2, Zenon DEF TcpConnect
    <3> QED BY <3>1, <3>2, <3>3, <3>4 DEF NetTypeOK, Emptied
  <2> QED BY <2>1, <2>2
<1>2. ASSUME NEW l \in Links, Send(l) PROVE NetTypeOK'
  BY <1>2, FailsTypes DEF Send, NeedsWifi, NetTypeOK
<1>3. ASSUME NEW l \in Links, Receive(l) PROVE NetTypeOK'
  BY <1>3, FailsTypes DEF Receive, NeedsWifi, NetTypeOK, Emptied
<1>4. ASSUME NEW l \in Links, Stopped(l)
      PROVE /\ socket' \in [Links -> {"None", "Up", "Broken"}]
            /\ was' \in [Links -> BOOLEAN]
            /\ inbox' \in [Channels -> Amounts]
  BY <1>4 DEF Stopped, NetTypeOK, Emptied
<1>5. CASE TcpClose
  BY <1>5, <1>4 DEF TcpClose, NetTypeOK
<1>6. CASE TcpServerStart
  BY <1>6, <1>4, FailsTypes DEF TcpServerStart, NeedsWifi, NetTypeOK
<1>7. CASE TcpServerAccept
  <2>1. CASE NeedsWifi \/ Fails
    BY <2>1, FailsTypes DEF NeedsWifi
  <2>2. CASE ~(NeedsWifi \/ Fails)
    <3>1. was' \in [Links -> BOOLEAN]
      BY <1>0, <1>7, <2>2 DEF TcpServerAccept
    <3> QED BY <1>7, <2>2, <3>1 DEF TcpServerAccept, NetTypeOK
  <2> QED BY <2>1, <2>2
<1>8. CASE TcpServerClose
  BY <1>8, <1>4 DEF TcpServerClose, NetTypeOK
<1>9. CASE UdpOpen
  BY <1>9, FailsTypes DEF UdpOpen, NeedsWifi, NetTypeOK, Emptied
<1>10. CASE UdpSend
  BY <1>10, FailsTypes DEF UdpSend, NeedsWifi, NetTypeOK
<1>11. CASE UdpReceive
  BY <1>11, FailsTypes DEF UdpReceive, NeedsWifi, NetTypeOK, Emptied
<1>12. CASE UdpClose
  BY <1>12 DEF UdpClose, NetTypeOK, Emptied
<1> QED BY <1>1, <1>2, <1>3, <1>5, <1>6, <1>7, <1>8, <1>9, <1>10, <1>11, <1>12
        DEF TcpSend, TcpReceive, TcpServerSend, TcpServerReceive

(***************************************************************************)
(* What a step of a test does, request or not: it goes on, or it raises;   *)
(* what has arrived stays, and a closing request closes.                   *)
(***************************************************************************)

(* The types of the thread and of the history.                             *)
ThreadTypes ==
  /\ worker \in {"None", "Accepting", "Receiving", "Sending", "Replied",
                "Finished"}
  /\ failed \in BOOLEAN /\ received \in Amounts
  /\ believes \subseteq Links
  /\ gotAtPc \in BOOLEAN /\ gotAtDongle \in BOOLEAN

(* What must hold after a step that has not raised, before the others.     *)
Achieves(step) ==
  /\ (Test \in SystemTests /\ step \in {"tcp_receive", "tcp_server_receive", "udp_receive"})
       => gotAtDongle'
  /\ step \in {"check", "recv", "recvfrom"} => gotAtPc'
  /\ step = "tcp_close" => socket'["Tcp"] = "None"
  /\ step = "tcp_server_close" => ~running' /\ socket'["Server"] = "None"
  /\ step = "udp_close" => ~udpRunning'
  /\ step = "join" => socket' = socket

StepFacts(step) ==
  /\ Doing(step)
  /\ NetTypeOK' /\ ThreadTypes' /\ Believed'
  /\ gotAtPc => gotAtPc'
  /\ gotAtDongle => gotAtDongle'
  /\ received' = "Whole" => gotAtPc'
  /\ \/ Raise
     \/ /\ \/ Onward(raised) /\ Achieves(step)
           \/ Onward(TRUE) /\ step = "close"
        /\ UNCHANGED cutShort

(* What a request leaves believed is watched, if its command keeps watching *)
(* what it does not close, and watches what it opens.                      *)
LEMMA RequestKeeps ==
  ASSUME TestsTypeOK, Believed, GotFacts, NetTypeOK',
         NEW opens \in SUBSET Links, NEW closes \in SUBSET Links,
         UNCHANGED <<threads, gotAtPc>>, NothingArrives \/ Arrives,
         \/ believes' = (believes \ closes) \cup opens /\ reply' # "Error"
         \/ believes' = believes \ closes,
         \A l \in Links \ closes : was[l] => was'[l],
         reply' # "Error" => \A l \in opens : was'[l]
  PROVE /\ ThreadTypes' /\ Believed'
        /\ gotAtPc => gotAtPc'
        /\ gotAtDongle => gotAtDongle'
        /\ received' = "Whole" => gotAtPc'
<1>1. gotAtDongle' \in BOOLEAN
  BY Zenon DEF NothingArrives, Arrives, TestsTypeOK
<1>2. gotAtDongle => gotAtDongle'
  BY Zenon DEF NothingArrives, Arrives
<1>3. ThreadTypes'
  BY <1>1 DEF ThreadTypes, TestsTypeOK, threads
<1>4. Believed'
  BY DEF Believed, TestsTypeOK
<1> QED BY <1>2, <1>3, <1>4 DEF GotFacts, threads

LEMMA RequestStep ==
  ASSUME TestsTypeOK, Believed, GotFacts, Requests
  PROVE \E step : StepFacts(step)
<1>0. NetTypeOK
  BY DEF TestsTypeOK
<1>1. CASE Doing("tcp_connect") /\ Request(TcpConnect(Reachable), {"Tcp"}, {"Tcp"}) /\ NothingArrives
  <2>1. NetTypeOK'
    BY <1>0, <1>1, CommandTypes, FailsTypes DEF Request
  <2>2. /\ \A l \in Links \ {"Tcp"} : was[l] => was'[l]
        /\ reply' # "Error" => \A l \in {"Tcp"} : was'[l]
    BY <1>0, <1>1 DEF Request, TcpConnect, NeedsWifi, Fails, network, NetTypeOK, Links
  <2>3. /\ \/ believes' = (believes \ {"Tcp"}) \cup {"Tcp"} /\ reply' # "Error"
           \/ believes' = believes \ {"Tcp"}
        /\ UNCHANGED <<threads, gotAtPc>>
    BY <1>1 DEF Request, Enough
  <2>4. /\ ThreadTypes' /\ Believed'
        /\ gotAtPc => gotAtPc'
        /\ gotAtDongle => gotAtDongle'
        /\ received' = "Whole" => gotAtPc'
    BY <1>1, <2>1, <2>2, <2>3, RequestKeeps DEF Links
  <2>5. Raise \/ (Advance /\ Achieves("tcp_connect"))
    BY <1>1 DEF Request, Enough, Achieves, TcpConnect, NeedsWifi, Fails, network
  <2> QED BY <1>1, <2>1, <2>4, <2>5 DEF StepFacts, Advance
<1>2. CASE Doing("tcp_send") /\ Request(TcpSend, {}, {}) /\ NothingArrives
  <2>1. NetTypeOK'
    BY <1>0, <1>2, CommandTypes, FailsTypes DEF Request
  <2>2. /\ \A l \in Links \ {} : was[l] => was'[l]
        /\ reply' # "Error" => \A l \in {} : was'[l]
    BY <1>0, <1>2 DEF Request, TcpSend, Send, NeedsWifi, Fails, network, NetTypeOK, Links
  <2>3. /\ \/ believes' = (believes \ {}) \cup {} /\ reply' # "Error"
           \/ believes' = believes \ {}
        /\ UNCHANGED <<threads, gotAtPc>>
    BY <1>2 DEF Request, Enough
  <2>4. /\ ThreadTypes' /\ Believed'
        /\ gotAtPc => gotAtPc'
        /\ gotAtDongle => gotAtDongle'
        /\ received' = "Whole" => gotAtPc'
    BY <1>2, <2>1, <2>2, <2>3, RequestKeeps DEF Links
  <2>5. Raise \/ (Advance /\ Achieves("tcp_send"))
    BY <1>2 DEF Request, Enough, Achieves, TcpSend, Send, NeedsWifi, Fails, network
  <2> QED BY <1>2, <2>1, <2>4, <2>5 DEF StepFacts, Advance
<1>3. CASE Doing("tcp_receive") /\ Request(TcpReceive, {}, {}) /\ Arrives
  <2>1. NetTypeOK'
    BY <1>0, <1>3, CommandTypes, FailsTypes DEF Request
  <2>2. /\ \A l \in Links \ {} : was[l] => was'[l]
        /\ reply' # "Error" => \A l \in {} : was'[l]
    BY <1>0, <1>3 DEF Request, TcpReceive, Receive, NeedsWifi, Fails, network, NetTypeOK, Links
  <2>3. /\ \/ believes' = (believes \ {}) \cup {} /\ reply' # "Error"
           \/ believes' = believes \ {}
        /\ UNCHANGED <<threads, gotAtPc>>
    BY <1>3 DEF Request, Enough
  <2>4. /\ ThreadTypes' /\ Believed'
        /\ gotAtPc => gotAtPc'
        /\ gotAtDongle => gotAtDongle'
        /\ received' = "Whole" => gotAtPc'
    BY <1>3, <2>1, <2>2, <2>3, RequestKeeps DEF Links
  <2>5. Raise \/ (Advance /\ Achieves("tcp_receive"))
    BY <1>3 DEF Request, Enough, Achieves, Arrives, TcpReceive, Receive, NeedsWifi, Fails, network
  <2> QED BY <1>3, <2>1, <2>4, <2>5 DEF StepFacts, Advance
<1>4. CASE Doing("tcp_close") /\ Request(TcpClose, {}, {"Tcp"}) /\ NothingArrives
  <2>1. NetTypeOK'
    BY <1>0, <1>4, CommandTypes, FailsTypes DEF Request
  <2>2. /\ \A l \in Links \ {"Tcp"} : was[l] => was'[l]
        /\ reply' # "Error" => \A l \in {} : was'[l]
    BY <1>0, <1>4 DEF Request, TcpClose, Stopped, Fails, network, NetTypeOK, Links
  <2>3. /\ \/ believes' = (believes \ {"Tcp"}) \cup {} /\ reply' # "Error"
           \/ believes' = believes \ {"Tcp"}
        /\ UNCHANGED <<threads, gotAtPc>>
    BY <1>4 DEF Request, Enough
  <2>4. /\ ThreadTypes' /\ Believed'
        /\ gotAtPc => gotAtPc'
        /\ gotAtDongle => gotAtDongle'
        /\ received' = "Whole" => gotAtPc'
    BY <1>4, <2>1, <2>2, <2>3, RequestKeeps DEF Links
  <2>5. Raise \/ (Advance /\ Achieves("tcp_close"))
    BY <1>0, <1>4 DEF Request, Achieves, TcpClose, Stopped, NetTypeOK, Links
  <2> QED BY <1>4, <2>1, <2>4, <2>5 DEF StepFacts, Advance
<1>5. CASE Doing("tcp_server_start") /\ Request(TcpServerStart, {}, {"Server"}) /\ NothingArrives
  <2>1. NetTypeOK'
    BY <1>0, <1>5, CommandTypes, FailsTypes DEF Request
  <2>2. /\ \A l \in Links \ {"Server"} : was[l] => was'[l]
        /\ reply' # "Error" => \A l \in {} : was'[l]
    BY <1>0, <1>5 DEF Request, TcpServerStart, Stopped, NeedsWifi, Fails, network, NetTypeOK, Links
  <2>3. /\ \/ believes' = (believes \ {"Server"}) \cup {} /\ reply' # "Error"
           \/ believes' = believes \ {"Server"}
        /\ UNCHANGED <<threads, gotAtPc>>
    BY <1>5 DEF Request, Enough
  <2>4. /\ ThreadTypes' /\ Believed'
        /\ gotAtPc => gotAtPc'
        /\ gotAtDongle => gotAtDongle'
        /\ received' = "Whole" => gotAtPc'
    BY <1>5, <2>1, <2>2, <2>3, RequestKeeps DEF Links
  <2>5. Raise \/ (Advance /\ Achieves("tcp_server_start"))
    BY <1>5 DEF Request, Enough, Achieves, TcpServerStart, Stopped, NeedsWifi, Fails, network
  <2> QED BY <1>5, <2>1, <2>4, <2>5 DEF StepFacts, Advance
<1>6. CASE Doing("tcp_server_accept") /\ Request(TcpServerAccept, {"Server"}, {}) /\ NothingArrives
  <2>1. NetTypeOK'
    BY <1>0, <1>6, CommandTypes, FailsTypes DEF Request
  <2>2. /\ \A l \in Links \ {} : was[l] => was'[l]
        /\ reply' # "Error" => \A l \in {"Server"} : was'[l]
    BY <1>0, <1>6 DEF Request, TcpServerAccept, NeedsWifi, Fails, network, NetTypeOK, Links
  <2>3. /\ \/ believes' = (believes \ {}) \cup {"Server"} /\ reply' # "Error"
           \/ believes' = believes \ {}
        /\ UNCHANGED <<threads, gotAtPc>>
    BY <1>6 DEF Request, Enough
  <2>4. /\ ThreadTypes' /\ Believed'
        /\ gotAtPc => gotAtPc'
        /\ gotAtDongle => gotAtDongle'
        /\ received' = "Whole" => gotAtPc'
    BY <1>6, <2>1, <2>2, <2>3, RequestKeeps DEF Links
  <2>5. Raise \/ (Advance /\ Achieves("tcp_server_accept"))
    BY <1>6 DEF Request, Enough, Achieves, TcpServerAccept, NeedsWifi, Fails, network
  <2> QED BY <1>6, <2>1, <2>4, <2>5 DEF StepFacts, Advance
<1>7. CASE Doing("tcp_server_send") /\ Request(TcpServerSend, {}, {}) /\ NothingArrives
  <2>1. NetTypeOK'
    BY <1>0, <1>7, CommandTypes, FailsTypes DEF Request
  <2>2. /\ \A l \in Links \ {} : was[l] => was'[l]
        /\ reply' # "Error" => \A l \in {} : was'[l]
    BY <1>0, <1>7 DEF Request, TcpServerSend, Send, NeedsWifi, Fails, network, NetTypeOK, Links
  <2>3. /\ \/ believes' = (believes \ {}) \cup {} /\ reply' # "Error"
           \/ believes' = believes \ {}
        /\ UNCHANGED <<threads, gotAtPc>>
    BY <1>7 DEF Request, Enough
  <2>4. /\ ThreadTypes' /\ Believed'
        /\ gotAtPc => gotAtPc'
        /\ gotAtDongle => gotAtDongle'
        /\ received' = "Whole" => gotAtPc'
    BY <1>7, <2>1, <2>2, <2>3, RequestKeeps DEF Links
  <2>5. Raise \/ (Advance /\ Achieves("tcp_server_send"))
    BY <1>7 DEF Request, Enough, Achieves, TcpServerSend, Send, NeedsWifi, Fails, network
  <2> QED BY <1>7, <2>1, <2>4, <2>5 DEF StepFacts, Advance
<1>8. CASE Doing("tcp_server_receive") /\ Request(TcpServerReceive, {}, {}) /\ Arrives
  <2>1. NetTypeOK'
    BY <1>0, <1>8, CommandTypes, FailsTypes DEF Request
  <2>2. /\ \A l \in Links \ {} : was[l] => was'[l]
        /\ reply' # "Error" => \A l \in {} : was'[l]
    BY <1>0, <1>8 DEF Request, TcpServerReceive, Receive, NeedsWifi, Fails, network, NetTypeOK, Links
  <2>3. /\ \/ believes' = (believes \ {}) \cup {} /\ reply' # "Error"
           \/ believes' = believes \ {}
        /\ UNCHANGED <<threads, gotAtPc>>
    BY <1>8 DEF Request, Enough
  <2>4. /\ ThreadTypes' /\ Believed'
        /\ gotAtPc => gotAtPc'
        /\ gotAtDongle => gotAtDongle'
        /\ received' = "Whole" => gotAtPc'
    BY <1>8, <2>1, <2>2, <2>3, RequestKeeps DEF Links
  <2>5. Raise \/ (Advance /\ Achieves("tcp_server_receive"))
    BY <1>8 DEF Request, Enough, Achieves, Arrives, TcpServerReceive, Receive, NeedsWifi, Fails, network
  <2> QED BY <1>8, <2>1, <2>4, <2>5 DEF StepFacts, Advance
<1>9. CASE Doing("tcp_server_close") /\ Request(TcpServerClose, {}, {"Server"}) /\ NothingArrives
  <2>1. NetTypeOK'
    BY <1>0, <1>9, CommandTypes, FailsTypes DEF Request
  <2>2. /\ \A l \in Links \ {"Server"} : was[l] => was'[l]
        /\ reply' # "Error" => \A l \in {} : was'[l]
    BY <1>0, <1>9 DEF Request, TcpServerClose, Stopped, Fails, network, NetTypeOK, Links
  <2>3. /\ \/ believes' = (believes \ {"Server"}) \cup {} /\ reply' # "Error"
           \/ believes' = believes \ {"Server"}
        /\ UNCHANGED <<threads, gotAtPc>>
    BY <1>9 DEF Request, Enough
  <2>4. /\ ThreadTypes' /\ Believed'
        /\ gotAtPc => gotAtPc'
        /\ gotAtDongle => gotAtDongle'
        /\ received' = "Whole" => gotAtPc'
    BY <1>9, <2>1, <2>2, <2>3, RequestKeeps DEF Links
  <2>5. Raise \/ (Advance /\ Achieves("tcp_server_close"))
    BY <1>0, <1>9 DEF Request, Achieves, TcpServerClose, Stopped, NetTypeOK, Links
  <2> QED BY <1>9, <2>1, <2>4, <2>5 DEF StepFacts, Advance
<1>10. CASE Doing("udp_open") /\ Request(UdpOpen, {}, {}) /\ NothingArrives
  <2>1. NetTypeOK'
    BY <1>0, <1>10, CommandTypes, FailsTypes DEF Request
  <2>2. /\ \A l \in Links \ {} : was[l] => was'[l]
        /\ reply' # "Error" => \A l \in {} : was'[l]
    BY <1>0, <1>10 DEF Request, UdpOpen, NeedsWifi, Fails, network, NetTypeOK, Links
  <2>3. /\ \/ believes' = (believes \ {}) \cup {} /\ reply' # "Error"
           \/ believes' = believes \ {}
        /\ UNCHANGED <<threads, gotAtPc>>
    BY <1>10 DEF Request, Enough
  <2>4. /\ ThreadTypes' /\ Believed'
        /\ gotAtPc => gotAtPc'
        /\ gotAtDongle => gotAtDongle'
        /\ received' = "Whole" => gotAtPc'
    BY <1>10, <2>1, <2>2, <2>3, RequestKeeps DEF Links
  <2>5. Raise \/ (Advance /\ Achieves("udp_open"))
    BY <1>10 DEF Request, Enough, Achieves, UdpOpen, NeedsWifi, Fails, network
  <2> QED BY <1>10, <2>1, <2>4, <2>5 DEF StepFacts, Advance
<1>11. CASE Doing("udp_send") /\ Request(UdpSend, {}, {}) /\ NothingArrives
  <2>1. NetTypeOK'
    BY <1>0, <1>11, CommandTypes, FailsTypes DEF Request
  <2>2. /\ \A l \in Links \ {} : was[l] => was'[l]
        /\ reply' # "Error" => \A l \in {} : was'[l]
    BY <1>0, <1>11 DEF Request, UdpSend, NeedsWifi, Fails, network, NetTypeOK, Links
  <2>3. /\ \/ believes' = (believes \ {}) \cup {} /\ reply' # "Error"
           \/ believes' = believes \ {}
        /\ UNCHANGED <<threads, gotAtPc>>
    BY <1>11 DEF Request, Enough
  <2>4. /\ ThreadTypes' /\ Believed'
        /\ gotAtPc => gotAtPc'
        /\ gotAtDongle => gotAtDongle'
        /\ received' = "Whole" => gotAtPc'
    BY <1>11, <2>1, <2>2, <2>3, RequestKeeps DEF Links
  <2>5. Raise \/ (Advance /\ Achieves("udp_send"))
    BY <1>11 DEF Request, Enough, Achieves, UdpSend, NeedsWifi, Fails, network
  <2> QED BY <1>11, <2>1, <2>4, <2>5 DEF StepFacts, Advance
<1>12. CASE Doing("udp_receive") /\ Request(UdpReceive, {}, {}) /\ Arrives
  <2>1. NetTypeOK'
    BY <1>0, <1>12, CommandTypes, FailsTypes DEF Request
  <2>2. /\ \A l \in Links \ {} : was[l] => was'[l]
        /\ reply' # "Error" => \A l \in {} : was'[l]
    BY <1>0, <1>12 DEF Request, UdpReceive, NeedsWifi, Fails, network, NetTypeOK, Links
  <2>3. /\ \/ believes' = (believes \ {}) \cup {} /\ reply' # "Error"
           \/ believes' = believes \ {}
        /\ UNCHANGED <<threads, gotAtPc>>
    BY <1>12 DEF Request, Enough
  <2>4. /\ ThreadTypes' /\ Believed'
        /\ gotAtPc => gotAtPc'
        /\ gotAtDongle => gotAtDongle'
        /\ received' = "Whole" => gotAtPc'
    BY <1>12, <2>1, <2>2, <2>3, RequestKeeps DEF Links
  <2>5. Raise \/ (Advance /\ Achieves("udp_receive"))
    BY <1>12 DEF Request, Enough, Achieves, Arrives, UdpReceive, NeedsWifi, Fails, network
  <2> QED BY <1>12, <2>1, <2>4, <2>5 DEF StepFacts, Advance
<1>13. CASE Doing("udp_close") /\ Request(UdpClose, {}, {}) /\ NothingArrives
  <2>1. NetTypeOK'
    BY <1>0, <1>13, CommandTypes, FailsTypes DEF Request
  <2>2. /\ \A l \in Links \ {} : was[l] => was'[l]
        /\ reply' # "Error" => \A l \in {} : was'[l]
    BY <1>0, <1>13 DEF Request, UdpClose, NeedsWifi, Fails, network, NetTypeOK, Links
  <2>3. /\ \/ believes' = (believes \ {}) \cup {} /\ reply' # "Error"
           \/ believes' = believes \ {}
        /\ UNCHANGED <<threads, gotAtPc>>
    BY <1>13 DEF Request, Enough
  <2>4. /\ ThreadTypes' /\ Believed'
        /\ gotAtPc => gotAtPc'
        /\ gotAtDongle => gotAtDongle'
        /\ received' = "Whole" => gotAtPc'
    BY <1>13, <2>1, <2>2, <2>3, RequestKeeps DEF Links
  <2>5. Raise \/ (Advance /\ Achieves("udp_close"))
    BY <1>13 DEF Request, Enough, Achieves, UdpClose, NeedsWifi, Fails, network
  <2> QED BY <1>13, <2>1, <2>4, <2>5 DEF StepFacts, Advance
<1> QED BY <1>1, <1>2, <1>3, <1>4, <1>5, <1>6, <1>7, <1>8, <1>9, <1>10, <1>11, <1>12, <1>13 DEF Requests

LEMMA PcStep ==
  ASSUME TestsTypeOK, Believed, GotFacts, PcSteps
  PROVE \E step : StepFacts(step)
<1>0. /\ NetTypeOK /\ ThreadTypes
      /\ received = "Whole" => gotAtPc
      /\ noticed' = {} /\ reply' = "None"
      /\ UNCHANGED <<wifi, socket, was, running, udpRunning, believes, gotAtDongle>>
      /\ Believed'
  BY DEF TestsTypeOK, ThreadTypes, GotFacts, Believed, PcSteps, Quietly,
         PcRaises, Listen, Finished, Check, Join, ConnectToServer, SendFrom,
         ReceiveAt, CloseSocket, Bind
<1>1. ASSUME caller' = caller, queued' = queued, inbox' = inbox, outbox' = outbox
      PROVE  NetTypeOK'
  BY <1>0, <1>1 DEF NetTypeOK
<1>2. CASE PcRaises
  BY <1>0, <1>1, <1>2 DEF PcRaises, StepFacts, Doing, ThreadTypes, threads
<1>3. ASSUME Listen PROVE StepFacts("listen")
  <2>1. ThreadTypes'
    BY <1>0, <1>3 DEF Listen, ThreadTypes, Amounts
  <2> QED BY <1>0, <1>1, <1>3, <2>1 DEF Listen, Advance, Achieves, StepFacts
<1>4. ASSUME Finished PROVE StepFacts("finished")
  BY <1>0, <1>1, <1>4 DEF Finished, Advance, Achieves, StepFacts, ThreadTypes, threads
<1>5. ASSUME Check PROVE StepFacts("check")
  BY <1>0, <1>1, <1>5 DEF Check, Advance, Achieves, StepFacts, ThreadTypes, threads
<1>6. ASSUME Join PROVE StepFacts("join")
  BY <1>0, <1>1, <1>6 DEF Join, Advance, Achieves, StepFacts, ThreadTypes, threads
<1>7. ASSUME ConnectToServer PROVE StepFacts("connect")
  <2>1. caller' \in BOOLEAN
    BY <1>7, Zenon DEF ConnectToServer
  <2>2. NetTypeOK'
    BY <1>0, <1>7, <2>1 DEF ConnectToServer, Emptied, NetTypeOK, Channels, Links, Amounts
  <2> QED BY <1>0, <1>7, <2>2
          DEF ConnectToServer, Advance, Achieves, StepFacts, ThreadTypes, threads
<1>8. ASSUME NEW step, NEW c \in Channels, SendFrom(step, c),
             step \in {"sendall", "sendto"}
      PROVE StepFacts(step)
  <2>1. NetTypeOK'
    BY <1>0, <1>8 DEF SendFrom, NetTypeOK, Amounts
  <2> QED BY <1>0, <1>8, <2>1
          DEF SendFrom, Advance, Achieves, StepFacts, ThreadTypes, threads
<1>9. ASSUME NEW step, NEW c \in Channels, ReceiveAt(step, c),
             step \in {"recv", "recvfrom"}
      PROVE StepFacts(step)
  <2>1. NetTypeOK'
    BY <1>0, <1>9 DEF ReceiveAt, Emptied, NetTypeOK, Amounts
  <2>2. PICK amount \in Amounts :
          /\ IF amount = "Whole" THEN Advance ELSE Raise
          /\ gotAtPc' = (gotAtPc \/ amount = "Whole")
    BY <1>9 DEF ReceiveAt
  <2>3. gotAtPc' \in BOOLEAN
    BY <2>2, Zenon
  <2>4. (gotAtPc => gotAtPc') /\ (amount = "Whole" => gotAtPc')
    BY <2>2, Zenon
  <2>5. ThreadTypes'
    BY <1>0, <1>9, <2>3 DEF ReceiveAt, ThreadTypes, threads
  <2>6. Raise \/ (Advance /\ Achieves(step))
    BY <1>9, <2>2, <2>4 DEF Achieves
  <2> QED BY <1>0, <1>9, <2>1, <2>4, <2>5, <2>6
          DEF ReceiveAt, StepFacts, Advance, threads
<1>10. ASSUME CloseSocket PROVE StepFacts("close")
  BY <1>0, <1>1, <1>10 DEF CloseSocket, Achieves, StepFacts, ThreadTypes, threads
<1>11. ASSUME Bind PROVE StepFacts("bind")
  <2>1. NetTypeOK'
    BY <1>0, <1>11 DEF Bind, Emptied, NetTypeOK, Channels, Amounts
  <2> QED BY <1>0, <1>11, <2>1 DEF Bind, Advance, Achieves, StepFacts, ThreadTypes, threads
<1> QED BY <1>2, <1>3, <1>4, <1>5, <1>6, <1>7, <1>8, <1>9, <1>10, <1>11
        DEF PcSteps, Channels, Links

(* The present test stays, and it is not at a step beyond its last.        *)
LEMMA StaysInTest ==
  ASSUME TestsTypeOK, NEW step, StepFacts(step)
  PROVE /\ Running /\ Running' /\ verdict = "None"
        /\ Test \in Tests /\ Test' = Test /\ Steps' = Steps
        /\ plan' = plan /\ at \in 0..(Len(Steps) - 1)
        /\ Steps[at + 1] = step
        /\ Len(Steps) \in Nat /\ TryBegins \in Nat /\ FinallyBegins \in Nat
        /\ FinallyBegins < Len(Steps)
<1>1. Running /\ verdict = "None" /\ Steps[at + 1] = step
  BY DEF StepFacts, Doing
<1>2. plan' = plan
  BY DEF StepFacts, Raise, Onward, Goes
<1>3. Test' = Test /\ Running' /\ Steps' = Steps
  BY <1>1, <1>2 DEF Test, Running, Steps, Part
<1>4. Test \in Tests /\ at \in 0..(Len(Steps) - 1)
  BY <1>1, TestIsOne DEF TestsTypeOK
<1>5. /\ Len(Steps) \in Nat /\ TryBegins \in Nat /\ FinallyBegins \in Nat
      /\ FinallyBegins < Len(Steps)
  <2>1. CASE Test = "TcpClient"
    <3>1. TryBegins = 1 /\ FinallyBegins = 6 /\ Len(Steps) = 8
      BY <2>1, StepsOfTcpClient
    <3> QED BY <3>1
  <2>2. CASE Test = "TcpServer"
    <3>1. TryBegins = 1 /\ FinallyBegins = 7 /\ Len(Steps) = 9
      BY <2>2, StepsOfTcpServer
    <3> QED BY <3>1
  <2>3. CASE Test = "Udp"
    <3>1. TryBegins = 2 /\ FinallyBegins = 6 /\ Len(Steps) = 7
      BY <2>3, StepsOfUdp
    <3> QED BY <3>1
  <2>4. CASE Test = "UserTcpClient"
    <3>1. TryBegins = 2 /\ FinallyBegins = 3 /\ Len(Steps) = 4
      BY <2>4, StepsOfUserTcpClient
    <3> QED BY <3>1
  <2>5. CASE Test = "UserTcpServer"
    <3>1. TryBegins = 2 /\ FinallyBegins = 4 /\ Len(Steps) = 5
      BY <2>5, StepsOfUserTcpServer
    <3> QED BY <3>1
  <2>6. CASE Test = "UserUdp"
    <3>1. TryBegins = 1 /\ FinallyBegins = 3 /\ Len(Steps) = 4
      BY <2>6, StepsOfUserUdp
    <3> QED BY <3>1
  <2> QED BY <1>4, <2>1, <2>2, <2>3, <2>4, <2>5, <2>6
          DEF Tests, SystemTests, UserTests
<1> QED BY <1>1, <1>2, <1>3, <1>4, <1>5

LEMMA StepTypes ==
  ASSUME TestsTypeOK, NEW step, StepFacts(step)
  PROVE TestsTypeOK'
<1>1. NetTypeOK' /\ ThreadTypes'
  BY DEF StepFacts
<1>2. at' \in 0..(Len(Steps) - 1)
  <2>1. CASE Raise
    BY <2>1, StaysInTest DEF Raise, Goes
  <2>2. ASSUME NEW bad, Onward(bad) PROVE at' \in 0..(Len(Steps) - 1)
    BY <2>2, StaysInTest DEF Onward, Goes
  <2> QED BY <2>1, <2>2 DEF StepFacts
<1>3. raised' \in BOOLEAN /\ verdict' \in {"None", "PASS", "FAIL", "SKIP"}
  BY Zenon DEF StepFacts, Raise, Onward, Goes, TestsTypeOK
<1>4. cutShort' \in BOOLEAN
  BY Zenon DEF StepFacts, Raise, TestsTypeOK
<1> QED BY <1>1, <1>2, <1>3, <1>4, StaysInTest DEF TestsTypeOK, ThreadTypes

(* A step that neither raises nor follows one that has.                    *)
LEMMA CleanStep ==
  ASSUME TestsTypeOK, NEW step, StepFacts(step), ~raised'
  PROVE /\ ~raised /\ Achieves(step)
        /\ \/ at + 1 = Len(Steps) /\ at' = at /\ verdict' = "PASS"
           \/ at + 1 # Len(Steps) /\ at' = at + 1 /\ verdict' = "None"
BY DEF StepFacts, Raise, Onward, Goes

LEMMA StepDelivers ==
  ASSUME TestsTypeOK, GotFacts, NEW step, StepFacts(step)
  PROVE GotFacts'
<1>1. received' = "Whole" => gotAtPc'
  BY DEF StepFacts
<1>2. ASSUME Test \in SystemTests, ~raised'
      PROVE  /\ at' >= DonglePoint[Test] => gotAtDongle'
             /\ at' >= PcPoint[Test] => gotAtPc'
             /\ verdict' # "None" => at' + 1 = Len(Steps)
  <2>1. /\ ~raised
        /\ at >= DonglePoint[Test] => gotAtDongle'
        /\ at >= PcPoint[Test] => gotAtPc'
        /\ Achieves(step)
        /\ \/ at + 1 = Len(Steps) /\ at' = at
           \/ at' = at + 1 /\ verdict' = "None"
    BY <1>2, StaysInTest, CleanStep DEF GotFacts, StepFacts
  <2>2. CASE Test = "TcpClient"
    BY <1>2, <2>1, <2>2, StaysInTest, StepsOfTcpClient
    DEF DonglePoint, PcPoint, Achieves
  <2>3. CASE Test = "TcpServer"
    BY <1>2, <2>1, <2>3, StaysInTest, StepsOfTcpServer
    DEF DonglePoint, PcPoint, Achieves
  <2>4. CASE Test = "Udp"
    BY <1>2, <2>1, <2>4, StaysInTest, StepsOfUdp
    DEF DonglePoint, PcPoint, Achieves
  <2> QED BY <1>2, <2>2, <2>3, <2>4 DEF SystemTests
<1> QED BY <1>1, <1>2, StaysInTest DEF GotFacts

(* A step after which the test has ended, or the TCP client test is past   *)
(* its closing request, is the closing request or comes after it.          *)
LEMMA StepCloses ==
  ASSUME TestsTypeOK, Closed, NEW step, StepFacts(step)
  PROVE Closed'
<1> SUFFICES ASSUME ~cutShort', verdict' # "None" \/ (Test = "TcpClient" /\ at' = 7)
             PROVE  ~Holds(Test)'
  BY StaysInTest DEF Closed
<1>1. ~Raise
  BY StaysInTest, StepsOfTcpClient DEF Raise, Goes
<1>2. (Achieves(step) \/ step = "close") /\ ~cutShort
  <2>1. cutShort' = cutShort /\ (Achieves(step) \/ step = "close")
    BY <1>1, Zenon DEF StepFacts
  <2> QED BY <2>1
<1>3. at + 1 = Len(Steps) \/ (Test = "TcpClient" /\ at + 1 = 7)
  BY <1>1, StaysInTest DEF StepFacts, Onward, Goes
<1>4. CASE Test = "TcpClient"
  <2>1. CASE at = 6
    <3>1. step = "tcp_close"
      BY <1>4, <2>1, StaysInTest, StepsOfTcpClient
    <3>2. socket'["Tcp"] = "None"
      BY <1>2, <3>1 DEF Achieves
    <3> QED BY <1>4, <3>2, StaysInTest DEF Holds
  <2>2. CASE at = 7
    <3>1. socket' = socket
      BY <1>2, <1>4, <2>2, StaysInTest, StepsOfTcpClient DEF Achieves
    <3>2. ~Holds(Test)
      BY <1>2, <1>4, <2>2, StaysInTest DEF Closed
    <3> QED BY <1>4, <3>1, <3>2, StaysInTest DEF Holds
  <2>3. Len(Steps) = 8 /\ at \in 0..(Len(Steps) - 1)
    BY <1>4, StaysInTest, StepsOfTcpClient
  <2> QED BY <1>3, <2>1, <2>2, <2>3
<1>5. CASE Test = "TcpServer"
  BY <1>2, <1>3, <1>5, StaysInTest, StepsOfTcpServer DEF Achieves, Holds
<1>6. CASE Test = "Udp"
  BY <1>2, <1>3, <1>6, StaysInTest, StepsOfUdp DEF Achieves, Holds
<1>7. CASE Test = "UserTcpClient"
  BY <1>2, <1>3, <1>7, StaysInTest, StepsOfUserTcpClient DEF Achieves, Holds
<1>8. CASE Test = "UserTcpServer"
  BY <1>2, <1>3, <1>8, StaysInTest, StepsOfUserTcpServer DEF Achieves, Holds
<1>9. CASE Test = "UserUdp"
  BY <1>2, <1>3, <1>9, StaysInTest, StepsOfUserUdp DEF Achieves, Holds
<1> QED BY <1>4, <1>5, <1>6, <1>7, <1>8, <1>9, StaysInTest
        DEF Tests, SystemTests, UserTests

LEMMA StepPasses ==
  ASSUME TestsTypeOK, NEW step, StepFacts(step)
  PROVE PassFacts'
BY StaysInTest DEF PassFacts, StepFacts, Raise, Onward, Goes

LEMMA StepKeeps ==
  ASSUME TestsInv, NEW step, StepFacts(step)
  PROVE TestsInv'
<1>1. Believed'
  BY DEF StepFacts
<1> QED BY <1>1, StepTypes, StepDelivers, StepCloses, StepPasses DEF TestsInv

(***************************************************************************)
(* The other actions.                                                      *)
(***************************************************************************)

LEMMA SomeStep == plan \in Seq(Tests) /\ Running => Len(Steps) \in Nat \ {0}
<1> SUFFICES ASSUME Test \in Tests PROVE Len(Steps) \in Nat \ {0}
  BY DEF Running, Test
<1>1. \/ Len(Steps) = 8 \/ Len(Steps) = 9 \/ Len(Steps) = 7
      \/ Len(Steps) = 4 \/ Len(Steps) = 5
  BY StepsOfTcpClient, StepsOfTcpServer, StepsOfUdp, StepsOfUserTcpClient,
     StepsOfUserTcpServer, StepsOfUserUdp DEF Tests, SystemTests, UserTests
<1> QED BY <1>1

LEMMA SomeStepNext ==
  (plan \in Seq(Tests) /\ Running => Len(Steps) \in Nat \ {0})'
<1>1. plan \in Seq(Tests) /\ Running => Len(Steps) \in Nat \ {0}
  BY SomeStep
<1> QED BY <1>1, PTL

LEMMA FreshKeeps ==
  ASSUME TestsInv, Fresh, plan' \in Seq(Tests),
         verdict' \in {"None", "PASS", "FAIL", "SKIP"},
         plan' = <<>> \/ verdict' = "None"
  PROVE TestsInv'
<1>1. NetTypeOK'
  <2>1. queued' \in BOOLEAN
    BY Zenon DEF Fresh
  <2> QED BY <2>1 DEF Fresh, TestsInv, TestsTypeOK, NetTypeOK, Amounts
<1>2. TestsTypeOK'
  <2>1. Running' => at' \in 0..(Len(Steps) - 1)'
    BY SomeStepNext DEF Fresh
  <2>2. /\ raised' \in BOOLEAN /\ failed' \in BOOLEAN /\ gotAtPc' \in BOOLEAN
        /\ gotAtDongle' \in BOOLEAN /\ cutShort' \in BOOLEAN
    BY Zenon DEF Fresh
  <2> QED BY <1>1, <2>1, <2>2 DEF Fresh, TestsInv, TestsTypeOK, Amounts
<1>3. Believed'
  BY DEF Fresh, TestsInv, Believed
<1>4. Closed' /\ PassFacts'
  BY DEF Fresh, Closed, PassFacts, Running
<1>5. GotFacts'
  BY DEF Fresh, GotFacts, Running, DonglePoint, PcPoint, SystemTests
<1> QED BY <1>2, <1>3, <1>4, <1>5 DEF TestsInv

(* Actions that leave the test where it is, and open nothing.              *)
LEMMA BesidesKeeps ==
  ASSUME TestsInv, NetTypeOK', ThreadTypes', Believed',
         UNCHANGED <<testConsole, cutShort>>,
         gotAtPc => gotAtPc', gotAtDongle => gotAtDongle',
         received' = "Whole" => gotAtPc',
         \A t \in Tests : ~Holds(t) => ~Holds(t)'
  PROVE TestsInv'
<1>1. plan' = plan /\ at' = at /\ raised' = raised /\ verdict' = verdict
      /\ cutShort' = cutShort
  BY DEF testConsole
<1>2. Running' = Running /\ Test' = Test /\ Steps' = Steps
  BY <1>1 DEF Running, Test, Steps, Part
<1>3. TestsTypeOK'
  BY <1>1, <1>2 DEF TestsInv, TestsTypeOK, ThreadTypes
<1>4. Closed'
  BY <1>1, <1>2, TestIsOne DEF TestsInv, Closed
<1>5. GotFacts'
  BY <1>1, <1>2 DEF TestsInv, GotFacts
<1>6. PassFacts'
  BY <1>1, <1>2 DEF TestsInv, PassFacts
<1> QED BY <1>3, <1>4, <1>5, <1>6 DEF TestsInv

(* What is closed stays closed, for every test.                            *)
LEMMA StaysClosed ==
  ASSUME \A l \in Links : socket[l] = "None" => socket'[l] = "None",
         ~running => ~running', ~udpRunning => ~udpRunning'
  PROVE \A t \in Tests : ~Holds(t) => ~Holds(t)'
<1> TAKE t \in Tests
<1>1. CASE t \in {"TcpClient", "UserTcpClient"}
  BY <1>1 DEF Holds, Links
<1>2. CASE t \in {"TcpServer", "UserTcpServer"}
  BY <1>2 DEF Holds, Links
<1>3. CASE t \in {"Udp", "UserUdp"}
  BY <1>3 DEF Holds
<1> QED BY <1>1, <1>2, <1>3 DEF Tests, SystemTests, UserTests

LEMMA WorkerKeeps == TestsInv /\ ServerWorker => TestsInv'
<1> SUFFICES ASSUME TestsInv, ServerWorker PROVE TestsInv'
  OBVIOUS
<1>1. /\ UNCHANGED <<testConsole, cutShort>>
      /\ noticed' = {} /\ reply' = "None"
      /\ UNCHANGED <<wifi, socket, was, running, udpRunning, caller>>
      /\ UNCHANGED <<believes, gotAtDongle>>
  BY DEF ServerWorker, Quietly
<1>2. TestsTypeOK /\ NetTypeOK /\ (received = "Whole" => gotAtPc)
  BY DEF TestsInv, TestsTypeOK, GotFacts
<1>3. worker' \in {"None", "Accepting", "Receiving", "Sending", "Replied",
                   "Finished"}
  BY DEF ServerWorker, Worker, WorkerAccepts, WorkerReceives, WorkerReplies,
         WorkerEnds, WorkerFails
<1>4. queued' \in BOOLEAN /\ failed' \in BOOLEAN
  BY <1>2, Zenon DEF ServerWorker, WorkerAccepts, WorkerReceives, WorkerReplies,
                     WorkerEnds, WorkerFails, TestsTypeOK, NetTypeOK
<1>5. /\ inbox' \in [Channels -> Amounts] /\ outbox' \in [Channels -> Amounts]
  BY <1>2 DEF ServerWorker, WorkerAccepts, WorkerReceives, WorkerReplies,
     WorkerEnds, WorkerFails, NetTypeOK, Emptied, Amounts
<1>6. /\ received' \in Amounts /\ gotAtPc' \in BOOLEAN
      /\ gotAtPc => gotAtPc'
      /\ received' = "Whole" => gotAtPc'
  <2>1. CASE WorkerReceives
    <3>1. gotAtPc' = (gotAtPc \/ received' = "Whole")
      BY <2>1 DEF WorkerReceives
    <3>2. gotAtPc' \in BOOLEAN
      BY <3>1, Zenon
    <3>3. received' \in Amounts
      BY <1>2, <2>1 DEF WorkerReceives, Reads, NetTypeOK, Channels, Links, Amounts
    <3> QED BY <3>1, <3>2, <3>3
  <2>2. CASE ~WorkerReceives
    BY <1>2, <2>2 DEF ServerWorker, WorkerAccepts, WorkerReplies, WorkerEnds,
                      WorkerFails, TestsTypeOK
  <2> QED BY <2>1, <2>2
<1>7. NetTypeOK' /\ ThreadTypes' /\ Believed'
  BY <1>1, <1>2, <1>3, <1>4, <1>5, <1>6
  DEF NetTypeOK, ThreadTypes, TestsInv, TestsTypeOK, Believed
<1> QED BY <1>1, <1>6, <1>7, BesidesKeeps DEF Holds

LEMMA StrangerKeeps == TestsInv /\ Stranger => TestsInv'
<1> SUFFICES ASSUME TestsInv, Stranger PROVE TestsInv'
  OBVIOUS
<1>1. /\ UNCHANGED <<testConsole, cutShort, threads, gotAtPc, queued, outbox>>
      /\ noticed' = {} /\ reply' = "None"
      /\ UNCHANGED <<wifi, socket, was, running, udpRunning>>
      /\ UNCHANGED <<believes, gotAtDongle>>
  BY DEF Stranger, Quietly
<1>2. TestsTypeOK /\ NetTypeOK /\ (received = "Whole" => gotAtPc)
  BY DEF TestsInv, TestsTypeOK, GotFacts
<1>3. caller' \in BOOLEAN
  BY <1>2, Zenon DEF Stranger, StrangerConnects, StrangerSends, NetTypeOK
<1>4. inbox' \in [Channels -> Amounts]
  BY <1>2 DEF Stranger, StrangerConnects, StrangerSends, NetTypeOK, Amounts
<1>5. NetTypeOK' /\ ThreadTypes' /\ Believed'
  BY <1>1, <1>2, <1>3, <1>4
  DEF NetTypeOK, ThreadTypes, TestsInv, TestsTypeOK, Believed, threads
<1> QED BY <1>1, <1>2, <1>5, BesidesKeeps DEF Holds, threads

LEMMA UpdatesKeep == TestsInv /\ LoopUpdates => TestsInv'
<1> SUFFICES ASSUME TestsInv, LoopUpdates PROVE TestsInv'
  OBVIOUS
<1>1. /\ UNCHANGED <<testConsole, cutShort, threads, gotAtPc, gotAtDongle>>
      /\ UNCHANGED <<wifi, queued, outbox>>
      /\ noticed' = Lost /\ reply' = "None"
      /\ believes' = IF wifi THEN believes \ noticed' ELSE {}
  BY DEF LoopUpdates, Update
<1>2. TestsTypeOK /\ NetTypeOK /\ Believed /\ (received = "Whole" => gotAtPc)
  BY DEF TestsInv, TestsTypeOK, GotFacts
<1>3. CASE wifi
  <2>1. /\ socket' = [l \in Links |-> IF l \in Lost THEN "None" ELSE socket[l]]
        /\ was' = [l \in Links |-> was[l] /\ l \notin Lost]
        /\ UNCHANGED <<running, udpRunning, caller, inbox>>
    BY <1>3 DEF LoopUpdates, Update
  <2>2. was' \in [Links -> BOOLEAN]
    BY <2>1, Zenon
  <2>3. NetTypeOK'
    BY <1>1, <1>2, <2>1, <2>2 DEF NetTypeOK, Lost
  <2>4. ThreadTypes' /\ Believed'
    BY <1>1, <1>2, <1>3, <2>1
    DEF ThreadTypes, TestsTypeOK, Believed, threads
  <2>5. \A t \in Tests : ~Holds(t) => ~Holds(t)'
    BY <2>1, StaysClosed
  <2> QED BY <1>1, <1>2, <2>3, <2>4, <2>5, BesidesKeeps DEF threads
<1>4. CASE ~wifi
  <2>1. StopAll /\ believes' = {}
    BY <1>1, <1>4 DEF LoopUpdates, Update
  <2>2. /\ running' \in BOOLEAN /\ caller' \in BOOLEAN /\ udpRunning' \in BOOLEAN
        /\ was' \in [Links -> BOOLEAN]
    BY <2>1, Zenon DEF StopAll
  <2>3. NetTypeOK'
    BY <1>1, <1>2, <2>1, <2>2 DEF NetTypeOK, Lost, StopAll, Amounts
  <2>4. ThreadTypes' /\ Believed'
    BY <1>1, <1>2, <2>1 DEF ThreadTypes, TestsTypeOK, Believed, threads
  <2>5. \A t \in Tests : ~Holds(t)'
    BY <2>1 DEF Holds, StopAll, Links, Tests, SystemTests, UserTests
  <2> QED BY <1>1, <1>2, <2>3, <2>4, <2>5, BesidesKeeps DEF threads
<1> QED BY <1>3, <1>4

LEMMA NetworkKeeps == TestsInv /\ NetworkMoves => TestsInv'
<1> SUFFICES ASSUME TestsInv, NetworkMoves PROVE TestsInv'
  OBVIOUS
<1>1. /\ UNCHANGED <<testConsole, cutShort, threads, gotAtPc, gotAtDongle, believes>>
      /\ UNCHANGED <<was, running, udpRunning, caller, queued, outbox>>
      /\ noticed' = {} /\ reply' = "None"
  BY DEF NetworkMoves, testVars, history, Environment, WifiChanges, Breaks
<1>2. TestsTypeOK /\ NetTypeOK /\ Believed /\ (received = "Whole" => gotAtPc)
  BY DEF TestsInv, TestsTypeOK, GotFacts
<1>3. wifi' \in BOOLEAN
  BY <1>2, Zenon DEF NetworkMoves, Environment, WifiChanges, Breaks, NetTypeOK
<1>4. /\ socket' \in [Links -> {"None", "Up", "Broken"}]
      /\ inbox' \in [Channels -> Amounts]
      /\ \A l \in Links : socket[l] = "None" => socket'[l] = "None"
  BY <1>2 DEF NetworkMoves, Environment, WifiChanges, Breaks, Connected, Emptied,
              NetTypeOK, Amounts
<1>5. NetTypeOK' /\ ThreadTypes' /\ Believed'
  BY <1>1, <1>2, <1>3, <1>4
  DEF NetTypeOK, ThreadTypes, TestsTypeOK, Believed, threads
<1>6. \A t \in Tests : ~Holds(t) => ~Holds(t)'
  BY <1>1, <1>4, StaysClosed
<1> QED BY <1>1, <1>2, <1>5, <1>6, BesidesKeeps DEF threads

(* Every step keeps the invariant.                                         *)
LEMMA TestsStepKeeps == TestsInv /\ [TestsNext]_allVars => TestsInv'
<1> SUFFICES ASSUME TestsInv, [TestsNext]_allVars PROVE TestsInv'
  OBVIOUS
<1>0. TestsTypeOK /\ Believed /\ GotFacts
  BY DEF TestsInv
<1>1. CASE RunNetworkSystemTests
  <2>1. /\ Fresh /\ plan' \in Seq(Tests) /\ verdict' \in {"None", "SKIP"}
        /\ plan' = <<>> \/ verdict' = "None"
    <3>1. <<"TcpClient", "TcpServer", "Udp">> \in Seq(Tests)
      BY DEF Tests, SystemTests
    <3> QED BY <1>1, <3>1 DEF RunNetworkSystemTests
  <2> QED BY <2>1, FreshKeeps
<1>2. ASSUME NEW test \in UserTests, RequireConnected(test) PROVE TestsInv'
  <2>1. Fresh /\ plan' \in Seq(Tests) /\ verdict' = "None"
    BY <1>2 DEF RequireConnected, Tests
  <2> QED BY <2>1, FreshKeeps
<1>3. CASE NextTest
  <2>1. plan' = Tail(plan) /\ plan \in Seq(Tests) /\ plan # <<>>
    BY <1>0, <1>3 DEF NextTest, Running, TestsTypeOK
  <2>2. plan' \in Seq(Tests)
    BY <2>1
  <2>3. /\ Fresh /\ verdict' \in {"None", "PASS", "FAIL", "SKIP"}
        /\ plan' = <<>> \/ verdict' = "None"
    BY <1>0, <1>3 DEF NextTest, TestsTypeOK
  <2> QED BY <2>2, <2>3, FreshKeeps
<1>4. CASE Requests \/ PcSteps
  BY <1>0, <1>4, RequestStep, PcStep, StepKeeps
<1>5. CASE ServerWorker
  BY <1>5, WorkerKeeps
<1>6. CASE Stranger
  BY <1>6, StrangerKeeps
<1>7. CASE LoopUpdates
  BY <1>7, UpdatesKeep
<1>8. CASE NetworkMoves
  BY <1>8, NetworkKeeps
<1>9. CASE UNCHANGED allVars
  <2>1. /\ UNCHANGED <<testConsole, cutShort, threads, gotAtPc, gotAtDongle, believes>>
        /\ UNCHANGED <<wifi, socket, was, running, udpRunning, caller, queued,
                       inbox, outbox>>
        /\ UNCHANGED <<reply, noticed>>
    BY <1>9 DEF allVars, netVars, network, testVars, history
  <2>2. NetTypeOK' /\ ThreadTypes' /\ Believed'
    BY <1>0, <2>1 DEF NetTypeOK, ThreadTypes, TestsTypeOK, Believed, threads
  <2> QED BY <1>0, <2>1, <2>2, BesidesKeeps DEF GotFacts, Holds, threads
<1> QED BY <1>1, <1>2, <1>3, <1>4, <1>5, <1>6, <1>7, <1>8, <1>9
        DEF TestsNext, Begin, Console

LEMMA TestsInitKeeps == TestsInit => TestsInv
<1> SUFFICES ASSUME TestsInit PROVE TestsInv
  OBVIOUS
<1>1. NetTypeOK
  <2>1. /\ wifi \in BOOLEAN /\ was \in [Links -> BOOLEAN] /\ running \in BOOLEAN
        /\ udpRunning \in BOOLEAN /\ caller \in BOOLEAN /\ queued \in BOOLEAN
    BY Zenon DEF TestsInit, NetInit
  <2> QED BY <2>1 DEF TestsInit, NetInit, NetTypeOK, Amounts
<1>2. /\ raised \in BOOLEAN /\ failed \in BOOLEAN /\ gotAtPc \in BOOLEAN
      /\ gotAtDongle \in BOOLEAN /\ cutShort \in BOOLEAN
  BY Zenon DEF TestsInit
<1>3. TestsTypeOK
  BY <1>1, <1>2 DEF TestsInit, TestsTypeOK, Running, Amounts
<1> QED BY <1>3 DEF TestsInit, TestsInv, Believed, Closed, GotFacts, PassFacts, Running

LEMMA TestsInvHolds == TestsSpec => []TestsInv
BY TestsInitKeeps, TestsStepKeeps, PTL DEF TestsSpec

(***************************************************************************)
(* The theorems.                                                           *)
(***************************************************************************)

(* The state of the tests, of the thread and of the dongle's sockets keeps *)
(* its types, and a test is always at one of its steps.                    *)
THEOREM TestsTypeCorrect == TestsSpec => []TestsTypeOK
BY TestsInvHolds, PTL DEF TestsInv

(* A system test (run_network_system_tests in main.py) that reports PASS   *)
(* has carried a message in each direction.                                *)
THEOREM PassesAreEarned == TestsSpec => []PassMeansBothWays
<1>1. TestsInv => PassMeansBothWays
  <2> SUFFICES ASSUME TestsInv, Running, verdict = "PASS", Test \in SystemTests
               PROVE  gotAtPc /\ gotAtDongle
    BY DEF PassMeansBothWays
  <2>1. ~raised /\ at + 1 = Len(Steps) /\ at \in 0..(Len(Steps) - 1)
    BY DEF TestsInv, PassFacts, GotFacts, TestsTypeOK
  <2>2. /\ at >= DonglePoint[Test] => gotAtDongle
        /\ at >= PcPoint[Test] => gotAtPc
    BY <2>1 DEF TestsInv, GotFacts
  <2>3. CASE Test = "TcpClient"
    <3>1. Len(Steps) = 8
      BY <2>3, StepsOfTcpClient
    <3>2. at = 7
      BY <2>1, <3>1
    <3> QED BY <2>2, <2>3, <3>2 DEF DonglePoint, PcPoint
  <2>4. CASE Test = "TcpServer"
    <3>1. Len(Steps) = 9
      BY <2>4, StepsOfTcpServer
    <3>2. at = 8
      BY <2>1, <3>1
    <3> QED BY <2>2, <2>4, <3>2 DEF DonglePoint, PcPoint
  <2>5. CASE Test = "Udp"
    <3>1. Len(Steps) = 7
      BY <2>5, StepsOfUdp
    <3>2. at = 6
      BY <2>1, <3>1
    <3> QED BY <2>2, <2>5, <3>2 DEF DonglePoint, PcPoint
  <2> QED BY <2>3, <2>4, <2>5 DEF SystemTests
<1> QED BY <1>1, TestsInvHolds, PTL

(* A test that got to its try and whose closing request did not raise      *)
(* leaves neither socket nor server open on the dongle.                    *)
THEOREM TestsLeaveNothingOpen == TestsSpec => []LeavesNothingOpen
<1>1. TestsInv => LeavesNothingOpen
  BY DEF TestsInv, Closed, LeavesNothingOpen
<1> QED BY <1>1, TestsInvHolds, PTL

(* After every update of the dongle's loop (NetworkService::update), the   *)
(* host believes in no connection that is gone.                            *)
THEOREM LossesAreHeardOf == TestsSpec => HostHearsOfLoss
<1>1. TestsInv /\ LoopUpdates => \A l \in believes' : Connected(l)'
  <2> SUFFICES ASSUME TestsInv, LoopUpdates, NEW l \in believes'
               PROVE  Connected(l)'
    OBVIOUS
  <2>1. believes \subseteq Links /\ (l \in believes => was[l])
    BY DEF TestsInv, TestsTypeOK, Believed
  <2>2. wifi /\ l \in believes /\ l \notin Lost
    BY DEF LoopUpdates, Update
  <2>3. socket' = [k \in Links |-> IF k \in Lost THEN "None" ELSE socket[k]]
    BY <2>2 DEF LoopUpdates, Update
  <2>4. socket[l] = "Up"
    BY <2>1, <2>2 DEF Lost, Connected
  <2> QED BY <2>1, <2>2, <2>3, <2>4 DEF Connected
<1> QED BY <1>1, TestsInvHolds, PTL DEF TestsSpec, HostHearsOfLoss
(***************************************************************************)
(* How the tests come to their end: TestsEnd without the fairness.         *)
(***************************************************************************)

(* The steps that are left, at most: no test has as many as ten.           *)
TestsLeft ==
  IF Running
  THEN 10 * Len(plan) - (at + (IF verdict = "None" THEN 0 ELSE 1))
  ELSE 0

(* While tests run, a step of the console brings them nearer to their end  *)
(* and no other step sets them back.                                       *)
TestsRunDown ==
  [][Running =>
       /\ TestsLeft \in Nat \ {0}
       /\ IF Console
          THEN TestsLeft' \in 0..(TestsLeft - 1)
          ELSE TestsLeft' = TestsLeft]_allVars

LEMMA FewSteps == TestsTypeOK /\ Running => Len(Steps) \in 1..9
<1> SUFFICES ASSUME Test \in Tests PROVE Len(Steps) \in 1..9
  BY TestIsOne
<1>1. \/ Len(Steps) = 8 \/ Len(Steps) = 9 \/ Len(Steps) = 7
      \/ Len(Steps) = 4 \/ Len(Steps) = 5
  BY StepsOfTcpClient, StepsOfTcpServer, StepsOfUdp, StepsOfUserTcpClient,
     StepsOfUserTcpServer, StepsOfUserUdp DEF Tests, SystemTests, UserTests
<1> QED BY <1>1

(* Each step of the console takes the tests nearer to their end, one that  *)
(* raises too, and neither the thread of the TCP client test, a peer, the  *)
(* network nor the dongle's loop takes them back.                          *)
THEOREM TestsComeNearer == TestsSpec => TestsRunDown
<1>1. ASSUME TestsInv, [TestsNext]_allVars, Running
      PROVE  /\ TestsLeft \in Nat \ {0}
             /\ IF Console
                THEN TestsLeft' \in 0..(TestsLeft - 1)
                ELSE TestsLeft' = TestsLeft
  <2>1. TestsTypeOK /\ Believed /\ GotFacts
    BY <1>1 DEF TestsInv
  <2>2. PICK l \in Nat \ {0} : l = Len(plan)
    BY <1>1, <2>1 DEF TestsTypeOK, Running
  <2>3. PICK n \in 1..9 : n = Len(Steps)
    BY <1>1, <2>1, FewSteps
  <2>4. at \in 0..(n - 1)
    BY <1>1, <2>1, <2>3 DEF TestsTypeOK
  <2>5. TestsLeft = 10 * l - (at + (IF verdict = "None" THEN 0 ELSE 1))
    BY <1>1, <2>2 DEF TestsLeft
  <2>6. TestsLeft \in Nat \ {0} /\ TestsLeft >= 10 * l - 9
    <3>1. PICK j \in 0..9 : j = at + (IF verdict = "None" THEN 0 ELSE 1)
      BY <2>3, <2>4
    <3>2. TestsLeft = 10 * l - j
      BY <2>5, <3>1
    <3> QED BY <2>2, <3>1, <3>2
  <2>7. ASSUME NEW step, StepFacts(step)
        PROVE  TestsLeft' \in 0..(TestsLeft - 1)
    <3>1. /\ verdict = "None" /\ Running' /\ plan' = plan
          /\ FinallyBegins \in Nat /\ FinallyBegins < Len(Steps)
      BY <2>1, <2>7, StaysInTest
    <3>2. PICK f \in Nat : f = FinallyBegins /\ f < n
      BY <2>3, <3>1
    <3>3. \/ at' \in {at + 1, f} /\ at' \in (at + 1)..8 /\ verdict' = "None"
          \/ at' = at /\ verdict' # "None"
      <4>1. ASSUME Raise
            PROVE  \/ at < f /\ at' = f /\ verdict' = "None"
                   \/ at' = at /\ verdict' = "FAIL"
        BY <3>2, <4>1 DEF Raise, Goes, InTry
      <4>2. ASSUME NEW bad, Onward(bad)
            PROVE  \/ at + 1 # n /\ at' = at + 1 /\ verdict' = "None"
                   \/ at' = at /\ verdict' \in {"FAIL", "PASS"}
        BY <2>3, <4>2 DEF Onward, Goes
      <4>3. \/ at < f /\ at' = f /\ verdict' = "None"
            \/ at + 1 # n /\ at' = at + 1 /\ verdict' = "None"
            \/ at' = at /\ verdict' \in {"FAIL", "PASS"}
        BY <2>7, <4>1, <4>2 DEF StepFacts
      <4> QED BY <2>3, <2>4, <3>2, <4>3
    <3>4. PICK k \in (at + 1)..9 :
            k = at' + (IF verdict' = "None" THEN 0 ELSE 1)
      BY <2>3, <2>4, <3>2, <3>3
    <3>5. TestsLeft' = 10 * l - k
      BY <2>2, <3>1, <3>4 DEF TestsLeft
    <3>6. TestsLeft = 10 * l - at
      BY <2>3, <2>5, <2>4, <3>1
    <3> QED BY <2>2, <2>3, <2>4, <3>4, <3>5, <3>6
  <2>8. ASSUME NextTest
        PROVE  TestsLeft' \in 0..(TestsLeft - 1)
    <3>1. plan' = Tail(plan) /\ plan \in Seq(Tests) /\ plan # <<>>
      BY <2>1, <2>8 DEF NextTest, Running, TestsTypeOK
    <3>2. Len(plan') = l - 1
      BY <2>2, <3>1
    <3>3. Running' => at' = 0 /\ verdict' = "None"
      BY <2>8 DEF NextTest, Fresh, Running
    <3>4. TestsLeft' = 10 * (l - 1) \/ TestsLeft' = 0
      BY <3>2, <3>3 DEF TestsLeft
    <3> QED BY <2>2, <2>6, <3>4
  <2>9. ASSUME ~Console
        PROVE  TestsLeft' = TestsLeft
    <3>1. UNCHANGED testConsole
      BY <1>1, <2>9 DEF TestsNext, Begin, RunNetworkSystemTests, RequireConnected,
         ServerWorker, Stranger, LoopUpdates, NetworkMoves, testVars, allVars
    <3> QED BY <3>1 DEF testConsole, TestsLeft, Running
  <2> QED BY <2>1, <2>6, <2>7, <2>8, <2>9, RequestStep, PcStep DEF Console
<1> QED BY <1>1, TestsInvHolds, PTL DEF TestsSpec, TestsRunDown
=============================================================================
