---------------------- MODULE DongleApplicationProofs ----------------------
(***************************************************************************)
(* Proofs about WiFiManager and the loop that runs it, DongleApplication,  *)
(* for every ring that holds the bursts, every batch and every number of   *)
(* networks.  The theorems of the Wi-Fi service come first; the loop cites *)
(* what each of its steps keeps.                                           *)
(***************************************************************************)
EXTENDS DongleApplication, TLAPS

(***************************************************************************)
(* The inductive invariant.  That the host's view agrees needs that an     *)
(* attempt under way has announced nothing and that what was announced was *)
(* not taken back; that counts are true needs that the host has heard of   *)
(* exactly the networks before the index, and of none between two scans.   *)
(***************************************************************************)
FlagsAgree == /\ connecting => ~connectedEventSent
              /\ connectedEventSent => hostUp

NoneFoundYet == ~scanPublishing => hostFound = 0

Facts == TypeOK /\ HostViewAgrees /\ ResultsKept /\ FlagsAgree /\ NoneFoundYet

(***************************************************************************)
(* What one update publishes.                                              *)
(***************************************************************************)

(* A batch stays within its limit and within the list.                     *)
LEMMA BatchFacts ==
  ASSUME Facts, Publishing
  PROVE  /\ Count \in 0..MaxNetworks /\ Index \in 0..Count
         /\ Batch \in 0..BatchLimit /\ Index + Batch \in 0..Count
         /\ hostFound = Index /\ scanner = "Done"
         /\ Index + Batch < Count => Batch = BatchLimit
<1>1. CASE scanPublishing
  <2>1. /\ scanCount \in 0..MaxNetworks /\ scanIndex \in 0..scanCount
        /\ hostFound = scanIndex /\ scanner = "Done"
    BY <1>1, NetworksAssumption DEF Facts, TypeOK, ResultsKept
  <2>2. Count = scanCount /\ Index = scanIndex
    BY <1>1 DEF Count, Index
  <2> QED
    BY <2>1, <2>2, BatchAssumption, NetworksAssumption DEF Batch
<1>2. CASE ~scanPublishing
  <2>1. results \in 0..MaxNetworks /\ hostFound = 0 /\ scanner = "Done"
    BY <1>2 DEF Facts, TypeOK, NoneFoundYet, Publishing
  <2>2. Count = results /\ Index = 0
    BY <1>2 DEF Count, Index
  <2> QED
    BY <2>1, <2>2, BatchAssumption, NetworksAssumption DEF Batch
<1> QED
  BY <1>1, <1>2

(* Each event is one of Events.                                            *)
LEMMA EventType ==
  ASSUME NEW t \in {"NetworkFound", "ScanDone", "Connected", "Disconnected",
                    "GotIp", "ConnectFailed"},
         NEW n \in 0..MaxNetworks
  PROVE  Event(t, n) \in Events /\ Event(t, n).type = t /\ Event(t, n).count = n
  BY DEF Event, Events

(* The parts of a concatenation.                                           *)
LEMMA ConcatShape ==
  ASSUME NEW s \in Seq(Events), NEW t \in Seq(Events)
  PROVE  /\ s \o t \in Seq(Events) /\ Len(s \o t) = Len(s) + Len(t)
         /\ \A i \in 1..Len(s) : (s \o t)[i] = s[i]
         /\ \A i \in 1..Len(s \o t) : i \notin 1..Len(s) =>
              i - Len(s) \in 1..Len(t) /\ (s \o t)[i] = t[i - Len(s)]
  OBVIOUS

LEMMA ScanEventsShape ==
  ASSUME Facts
  PROVE  /\ ScanEvents \in Seq(Events)
         /\ Len(ScanEvents) <= BatchLimit + 1
         /\ \A i \in 1..Len(ScanEvents) : ScanEvents[i].type = "ScanDone" =>
              ScanEvents[i].count = hostFound + i - 1
<1>1. CASE ~Publishing
  <2>1. ScanEvents = <<>>
    BY <1>1 DEF ScanEvents
  <2> QED
    BY <2>1, BatchAssumption
<1>2. CASE Publishing
  <2>1. /\ Batch \in Nat /\ Batch <= BatchLimit /\ Count \in 0..MaxNetworks
        /\ Index \in Nat /\ hostFound = Index /\ Index + Batch <= Count
    BY <1>2, BatchFacts, BatchAssumption, NetworksAssumption
  <2>2. /\ Event("NetworkFound", 0) \in Events
        /\ Event("NetworkFound", 0).type = "NetworkFound"
        /\ Event("ScanDone", Count) \in Events
        /\ Event("ScanDone", Count).count = Count
    BY <2>1, EventType, NetworksAssumption
  <2> DEFINE found == Networks(Batch)
             done  == <<Event("ScanDone", Count)>>
  <2>3. /\ found \in Seq(Events) /\ Len(found) = Batch
        /\ \A i \in 1..Batch : found[i].type = "NetworkFound"
    BY <2>1, <2>2 DEF Networks
  <2>4. CASE Index + Batch < Count
    <3>1. ScanEvents = found \o <<>>
      BY <1>2, <2>4 DEF ScanEvents
    <3> HIDE DEF found
    <3>2. ScanEvents = found
      BY <2>3, <3>1
    <3> QED
      BY <2>1, <2>3, <3>2, BatchAssumption
  <2>5. CASE ~(Index + Batch < Count)
    <3>1. ScanEvents = found \o done
      BY <1>2, <2>5 DEF ScanEvents
    <3>2. done \in Seq(Events) /\ Len(done) = 1 /\ done[1].count = Count
      BY <2>2
    <3> HIDE DEF found, done
    <3>3. /\ ScanEvents \in Seq(Events) /\ Len(ScanEvents) = Batch + 1
          /\ \A i \in 1..Batch : ScanEvents[i] = found[i]
          /\ ScanEvents[Batch + 1] = done[1]
      <4>1. Batch + 1 \in 1..Len(found \o done) /\ Batch + 1 \notin 1..Len(found)
        <5>1. Len(found \o done) = Len(found) + Len(done)
          BY <2>3, <3>2, ConcatShape
        <5> QED
          BY <2>1, <2>3, <3>2, <5>1
      <4>2. (Batch + 1) - Len(found) = 1
        BY <2>1, <2>3
      <4> QED
        BY <2>1, <2>3, <3>1, <3>2, <4>1, <4>2, ConcatShape
    <3>4. Count = hostFound + (Batch + 1) - 1
      BY <2>1, <2>5
    <3>5. ASSUME NEW i \in 1..Len(ScanEvents), ScanEvents[i].type = "ScanDone"
          PROVE  ScanEvents[i].count = hostFound + i - 1
      <4>1. i = Batch + 1
        BY <2>1, <2>3, <3>3, <3>5
      <4> QED
        BY <3>2, <3>3, <3>4, <4>1
    <3> QED
      BY <2>1, <3>3, <3>5, BatchAssumption
  <2> QED
    BY <2>4, <2>5
<1> QED
  BY <1>1, <1>2

LEMMA LinkEventsShape ==
  /\ LinkEvents \in Seq(Events)
  /\ Len(LinkEvents) <= 2
  /\ \A i \in 1..Len(LinkEvents) : LinkEvents[i].type # "ScanDone"
<1> DEFINE Quiet(s, n) == /\ s \in Seq(Events) /\ Len(s) <= n
                          /\ \A i \in 1..Len(s) : s[i].type # "ScanDone"
<1>1. \A t \in {"Connected", "GotIp", "ConnectFailed", "Disconnected"} :
        Event(t, 0) \in Events /\ Event(t, 0).type = t
  BY EventType, NetworksAssumption
<1>2. ASSUME NEW t \in {"Connected", "GotIp", "ConnectFailed", "Disconnected"}
      PROVE  Quiet(<<Event(t, 0)>>, 1)
  BY <1>1
<1>3. Quiet(<<>>, 0)
  OBVIOUS
<1>4. CASE status = "Connected"
  <2> DEFINE up == IF AnnounceConnected THEN <<Event("Connected", 0)>> ELSE <<>>
             ip == IF AnnounceAddress THEN <<Event("GotIp", 0)>> ELSE <<>>
  <2>1. LinkEvents = up \o ip
    BY <1>4 DEF LinkEvents
  <2>2. Quiet(up, 1) /\ Quiet(ip, 1)
    BY <1>2, <1>3
  <2> HIDE DEF up, ip
  <2> QED
    BY <2>1, <2>2, ConcatShape
<1>5. CASE status # "Connected"
  <2>1. \/ LinkEvents = <<Event("ConnectFailed", 0)>>
        \/ LinkEvents = <<Event("Disconnected", 0)>>
        \/ LinkEvents = <<>>
    BY <1>5 DEF LinkEvents
  <2>2. Quiet(<<Event("ConnectFailed", 0)>>, 1)
        /\ Quiet(<<Event("Disconnected", 0)>>, 1)
    BY <1>2
  <2>3. Quiet(LinkEvents, 1)
    <3> HIDE DEF Quiet
    <3>1. \A s : Quiet(s, 0) => Quiet(s, 1)
      BY DEF Quiet
    <3> QED
      BY <1>3, <2>1, <2>2, <3>1
  <2> QED
    BY <2>3
<1> QED
  BY <1>4, <1>5

LEMMA UpdateEvents ==
  ASSUME Facts, Update
  PROVE  /\ out' \in Seq(Events) /\ Len(out') <= BatchLimit + 3
         /\ \A i \in 1..Len(out') : out'[i].type = "ScanDone" =>
              out'[i].count = hostFound + i - 1
<1>1. out' = ScanEvents \o LinkEvents
  BY DEF Update
<1>2. /\ Len(ScanEvents) \in Nat /\ Len(LinkEvents) \in Nat
      /\ out' \in Seq(Events) /\ Len(out') = Len(ScanEvents) + Len(LinkEvents)
      /\ \A i \in 1..Len(ScanEvents) : out'[i] = ScanEvents[i]
      /\ \A i \in 1..Len(out') : i \notin 1..Len(ScanEvents) =>
           /\ i - Len(ScanEvents) \in 1..Len(LinkEvents)
           /\ out'[i] = LinkEvents[i - Len(ScanEvents)]
  <2>1. ScanEvents \in Seq(Events) /\ LinkEvents \in Seq(Events)
    BY ScanEventsShape, LinkEventsShape
  <2>2. Len(ScanEvents) \in Nat /\ Len(LinkEvents) \in Nat
    BY <2>1
  <2> QED
    BY <1>1, <2>1, <2>2, ConcatShape
<1>3. Len(out') <= BatchLimit + 3
  BY <1>2, ScanEventsShape, LinkEventsShape, BatchAssumption
<1>4. ASSUME NEW i \in 1..Len(out'), out'[i].type = "ScanDone"
      PROVE  out'[i].count = hostFound + i - 1
  <2>1. CASE i \in 1..Len(ScanEvents)
    BY <1>2, <1>4, <2>1, ScanEventsShape
  <2>2. CASE i \notin 1..Len(ScanEvents)
    BY <1>2, <1>4, <2>2, LinkEventsShape
  <2> QED
    BY <2>1, <2>2
<1> QED
  BY <1>2, <1>3, <1>4

(***************************************************************************)
(* The invariant is preserved.                                             *)
(***************************************************************************)

LEMMA FactsInit == Init => Facts
<1> SUFFICES ASSUME Init PROVE Facts
  OBVIOUS
<1>1. TypeOK
  <2>1. /\ connecting \in BOOLEAN /\ connectedEventSent \in BOOLEAN
        /\ ipEventSent \in BOOLEAN /\ scanPublishing \in BOOLEAN
        /\ hasAddress \in BOOLEAN /\ joining \in BOOLEAN /\ leaving \in BOOLEAN
        /\ hostUp \in BOOLEAN /\ hostHasAddress \in BOOLEAN
    BY Zenon DEF Init
  <2>2. out \in Seq(Events)
    BY DEF Init
  <2>3. /\ lastStatus \in Statuses /\ status \in Statuses /\ scanner \in Scans
        /\ scanCount \in -1..MaxNetworks /\ scanIndex \in 0..MaxNetworks
        /\ results \in 0..MaxNetworks /\ hostFound \in 0..MaxNetworks
    BY NetworksAssumption DEF Init, Statuses, Scans
  <2> QED
    BY <2>1, <2>2, <2>3 DEF TypeOK
<1>2. HostViewAgrees /\ ResultsKept /\ FlagsAgree /\ NoneFoundYet
  BY DEF Init, HostViewAgrees, ResultsKept, FlagsAgree, NoneFoundYet
<1> QED
  BY <1>1, <1>2 DEF Facts

(* A command publishes nothing, and scan() stays out of a publication.     *)
LEMMA CommandStep == ASSUME Facts, Commands PROVE Facts'
<1>1. CASE Scan
  <2>1. /\ ~scanPublishing /\ out' = <<>>
        /\ scanner' \in Scans /\ results' = 0
        /\ UNCHANGED <<link, lastStatus, scan, station, host>>
    BY <1>1 DEF Scan, ScanBusy, Scans, Facts, TypeOK
  <2>2. TypeOK'
    BY <2>1, NetworksAssumption
       DEF Facts, TypeOK, link, scan, station, host
  <2> QED
    BY <2>1, <2>2 DEF Facts, HostViewAgrees, ResultsKept, FlagsAgree,
                      NoneFoundYet, link, scan, host
<1>2. CASE Connect
  <2>1. /\ connecting' = TRUE /\ connectedEventSent' = FALSE
        /\ ipEventSent' = FALSE /\ joining' = TRUE
        /\ out' = <<>> /\ status' \in Statuses
        /\ UNCHANGED <<lastStatus, scan, hasAddress, survey, host>>
    BY <1>2 DEF Connect, Begin, Statuses, Facts, TypeOK
  <2>2. /\ leaving' \in BOOLEAN /\ connecting' \in BOOLEAN
        /\ connectedEventSent' \in BOOLEAN /\ ipEventSent' \in BOOLEAN
        /\ joining' \in BOOLEAN
    BY <1>2, Zenon DEF Connect, Begin
  <2>3. out' \in Seq(Events)
    BY <2>1
  <2>4. TypeOK'
    BY <2>1, <2>2, <2>3 DEF Facts, TypeOK, scan, survey, host
  <2> QED
    BY <2>1, <2>4 DEF Facts, HostViewAgrees, ResultsKept, FlagsAgree,
                      NoneFoundYet, scan, survey, host
<1>3. CASE Disconnect
  <2>1. /\ connecting' = FALSE /\ connectedEventSent' = FALSE
        /\ ipEventSent' = FALSE /\ joining' = FALSE
        /\ out' = <<>>
        /\ UNCHANGED <<lastStatus, scan, status, hasAddress, survey, host>>
    BY <1>3 DEF Disconnect
  <2>2. /\ leaving' \in BOOLEAN /\ connecting' \in BOOLEAN
        /\ connectedEventSent' \in BOOLEAN /\ ipEventSent' \in BOOLEAN
        /\ joining' \in BOOLEAN
    BY <1>3, Zenon DEF Disconnect
  <2>3. out' \in Seq(Events)
    BY <2>1
  <2>4. TypeOK'
    BY <2>1, <2>2, <2>3 DEF Facts, TypeOK, scan, survey, host
  <2> QED
    BY <2>1, <2>4 DEF Facts, HostViewAgrees, ResultsKept, FlagsAgree,
                      NoneFoundYet, scan, survey, host
<1> QED
  BY <1>1, <1>2, <1>3 DEF Commands

(* The station changes what it answers, and a scan only ends while one     *)
(* runs, hence never under a publication.                                  *)
LEMMA StationStep == ASSUME Facts, Station PROVE Facts'
<1>1. /\ UNCHANGED <<link, lastStatus, scan, host>> /\ out' = <<>>
  BY DEF Station, StationKeeps, Leaves, Joins, JoinFails, GetsAddress,
         LosesLink, ScanEnds
<1>2. status' \in Statuses /\ hasAddress' \in BOOLEAN
      /\ joining' \in BOOLEAN /\ leaving' \in BOOLEAN
  BY DEF Station, Leaves, Joins, JoinFails, GetsAddress, LosesLink, ScanEnds,
         Statuses, Facts, TypeOK, station
<1>3. /\ scanner' \in Scans /\ results' \in 0..MaxNetworks
      /\ UNCHANGED survey \/ scanner = "Running"
  BY DEF Station, Leaves, Joins, JoinFails, GetsAddress, LosesLink, ScanEnds,
         Scans, Facts, TypeOK, survey
<1>4. TypeOK'
  BY <1>1, <1>2, <1>3 DEF Facts, TypeOK, link, scan, host
<1>5. ResultsKept'
  BY <1>1, <1>3 DEF Facts, ResultsKept, scan, host, survey
<1>6. HostViewAgrees' /\ FlagsAgree' /\ NoneFoundYet'
  BY <1>1 DEF Facts, HostViewAgrees, FlagsAgree, NoneFoundYet, link, scan, host
<1> QED
  BY <1>4, <1>5, <1>6 DEF Facts

(* The scan half of update().                                              *)
LEMMA ScanHalf ==
  ASSUME Facts, PublishScanResults
  PROVE  /\ scanPublishing' \in BOOLEAN /\ scanCount' \in -1..MaxNetworks
         /\ scanIndex' \in 0..MaxNetworks /\ scanner' \in Scans
         /\ results' \in 0..MaxNetworks /\ hostFound' \in 0..MaxNetworks
         /\ ResultsKept' /\ NoneFoundYet'
<1>1. CASE NoScanToPublish
  BY <1>1 DEF NoScanToPublish, Publishing, Facts, TypeOK, ResultsKept,
              NoneFoundYet, scan, survey
<1>2. CASE PublishBatch
  <2>1. /\ Count \in 0..MaxNetworks /\ Index \in 0..Count /\ Batch \in 0..BatchLimit
        /\ Index + Batch \in 0..Count /\ hostFound = Index /\ scanner = "Done"
        /\ Index + Batch < Count
    BY <1>2, BatchFacts DEF PublishBatch
  <2>2. /\ scanPublishing' = TRUE /\ scanCount' = Count
        /\ scanIndex' = Index + Batch /\ hostFound' = hostFound + Batch
        /\ results' = results /\ scanner' = scanner
    BY <1>2 DEF PublishBatch, survey
  <2>3. Count = results
    BY DEF Count, Facts, ResultsKept
  <2>4. /\ scanCount' \in -1..MaxNetworks /\ scanIndex' \in 0..MaxNetworks
        /\ hostFound' \in 0..MaxNetworks /\ scanIndex' = hostFound'
        /\ scanIndex' < scanCount' /\ scanCount' = results'
    BY <2>1, <2>2, <2>3, NetworksAssumption, BatchAssumption
  <2>5. scanPublishing' \in BOOLEAN
    BY <2>2, Zenon
  <2>6. /\ scanner' \in Scans /\ results' \in 0..MaxNetworks
    BY <2>2 DEF Facts, TypeOK
  <2>7. ResultsKept'
    BY <2>1, <2>2, <2>4 DEF ResultsKept
  <2>8. NoneFoundYet'
    BY <2>2 DEF NoneFoundYet
  <2> QED
    BY <2>4, <2>5, <2>6, <2>7, <2>8
<1>3. CASE PublishLast
  <2>1. /\ scanPublishing' = FALSE /\ scanCount' = -1 /\ scanIndex' = 0
        /\ scanner' = "None" /\ results' = 0 /\ hostFound' = 0
    BY <1>3 DEF PublishLast
  <2>2. scanPublishing' \in BOOLEAN
    BY <2>1, Zenon
  <2> QED
    BY <2>1, <2>2, NetworksAssumption DEF Scans, ResultsKept, NoneFoundYet
<1> QED
  BY <1>1, <1>2, <1>3 DEF PublishScanResults

(* The link half of update().                                              *)
LEMMA LinkHalf ==
  ASSUME Facts, UpdateLink, lastStatus' = status
  PROVE  /\ connecting' \in BOOLEAN /\ connectedEventSent' \in BOOLEAN
         /\ ipEventSent' \in BOOLEAN /\ hostUp' \in BOOLEAN
         /\ hostHasAddress' \in BOOLEAN
         /\ HostViewAgrees' /\ FlagsAgree'
<1>0. /\ connecting \in BOOLEAN /\ connectedEventSent \in BOOLEAN
      /\ ipEventSent \in BOOLEAN /\ hostUp \in BOOLEAN
      /\ hostHasAddress \in BOOLEAN
      /\ HostViewAgrees /\ FlagsAgree
  BY DEF Facts, TypeOK
<1>1. CASE LinkIsUp
  <2>1. /\ status = "Connected" /\ connecting' = FALSE
        /\ connectedEventSent' = TRUE /\ hostUp' = (hostUp \/ ~connectedEventSent)
    BY <1>1 DEF LinkIsUp, AnnounceConnected
  <2>2. hostUp' = TRUE
    BY <1>0, <2>1, Zenon DEF FlagsAgree
  <2>3. ipEventSent' \in BOOLEAN /\ hostHasAddress' \in BOOLEAN
    BY <1>1, Zenon DEF LinkIsUp
  <2>4. connecting' \in BOOLEAN /\ connectedEventSent' \in BOOLEAN
        /\ hostUp' \in BOOLEAN
    BY <2>1, <2>2, Zenon
  <2>5. HostViewAgrees'
    BY <2>1, <2>2 DEF HostViewAgrees
  <2>6. FlagsAgree'
    BY <2>1, <2>2 DEF FlagsAgree
  <2> QED
    BY <2>3, <2>4, <2>5, <2>6
<1>2. CASE AttemptFails
  <2>1. /\ status = "Failed" /\ connecting = TRUE /\ connecting' = FALSE
        /\ hostUp' = FALSE /\ hostHasAddress' = FALSE
        /\ connectedEventSent' = connectedEventSent /\ ipEventSent' = ipEventSent
    BY <1>0, <1>2 DEF AttemptFails
  <2>2. connecting' \in BOOLEAN /\ hostUp' \in BOOLEAN
        /\ hostHasAddress' \in BOOLEAN
    BY <2>1, Zenon
  <2>3. HostViewAgrees' /\ FlagsAgree'
    BY <1>0, <2>1 DEF HostViewAgrees, FlagsAgree
  <2> QED
    BY <1>0, <2>1, <2>2, <2>3
<1>3. CASE LinkIsLost
  <2>1. /\ status # "Connected" /\ connecting' = FALSE
        /\ connectedEventSent' = FALSE /\ ipEventSent' = FALSE
        /\ hostUp' = FALSE /\ hostHasAddress' = FALSE
    BY <1>3 DEF LinkIsLost
  <2>2. connecting' \in BOOLEAN /\ connectedEventSent' \in BOOLEAN
        /\ ipEventSent' \in BOOLEAN /\ hostUp' \in BOOLEAN
        /\ hostHasAddress' \in BOOLEAN
    BY <2>1, Zenon
  <2>3. HostViewAgrees' /\ FlagsAgree'
    BY <2>1 DEF HostViewAgrees, FlagsAgree
  <2> QED
    BY <1>0, <2>1, <2>2, <2>3
<1>4. CASE LinkIsDown
  <2>1. /\ status # "Connected" /\ lastStatus # "Connected"
        /\ connecting' = connecting /\ connectedEventSent' = connectedEventSent
        /\ ipEventSent' = ipEventSent /\ hostUp' = hostUp
        /\ hostHasAddress' = hostHasAddress
    BY <1>4 DEF LinkIsDown, link
  <2> QED
    BY <1>0, <2>1 DEF HostViewAgrees, FlagsAgree
<1> QED
  BY <1>1, <1>2, <1>3, <1>4 DEF UpdateLink

LEMMA UpdateStep == ASSUME Facts, Update PROVE Facts'
<1>1. PublishScanResults /\ UpdateLink /\ lastStatus' = status /\ UNCHANGED station
  BY DEF Update
<1>2. lastStatus' \in Statuses /\ status' \in Statuses /\ hasAddress' \in BOOLEAN
      /\ joining' \in BOOLEAN /\ leaving' \in BOOLEAN
  BY <1>1 DEF Facts, TypeOK, station
<1>3. out' \in Seq(Events)
  BY UpdateEvents
<1>4. TypeOK'
  BY <1>1, <1>2, <1>3, ScanHalf, LinkHalf DEF TypeOK
<1> QED
  BY <1>1, <1>4, ScanHalf, LinkHalf DEF Facts

LEMMA FactsStep == Facts /\ [Next]_vars => Facts'
<1> SUFFICES ASSUME Facts, [Next]_vars PROVE Facts'
  OBVIOUS
<1>1. CASE UNCHANGED vars
  BY <1>1 DEF vars, link, scan, station, survey, host, Facts, TypeOK,
              HostViewAgrees, ResultsKept, FlagsAgree, NoneFoundYet
<1> QED
  BY <1>1, CommandStep, UpdateStep, StationStep DEF Next

LEMMA FactsHold == Spec => []Facts
<1> QED
  BY FactsInit, FactsStep, PTL DEF Spec

(***************************************************************************)
(* The theorems of the Wi-Fi service.                                      *)
(***************************************************************************)

(* Every variable keeps its type: the publication index stays within the   *)
(* list, over any number of batches.                                       *)
THEOREM TypeCorrect == Spec => []TypeOK
<1>1. Facts => TypeOK
  BY DEF Facts
<1> QED
  BY <1>1, FactsHold, PTL

(* The host believes in a connection exactly when the last update saw one. *)
THEOREM HostViewCorrect == Spec => []HostViewAgrees
<1>1. Facts => HostViewAgrees
  BY DEF Facts
<1> QED
  BY <1>1, FactsHold, PTL

(* The list being published is neither deleted nor replaced.               *)
THEOREM ResultsStay == Spec => []ResultsKept
<1>1. Facts => ResultsKept
  BY DEF Facts
<1> QED
  BY <1>1, FactsHold, PTL

(* One update publishes no more than a batch and three further events; the *)
(* event ring is sized on such a bound.                                    *)
BurstBounded == Len(out) <= BatchLimit + 3

(* No update publishes more than a batch and three further events.         *)
THEOREM BurstsAreBounded == Spec => []BurstBounded
<1>1. Init => BurstBounded
  BY BatchAssumption DEF Init, BurstBounded
<1>2. Facts /\ BurstBounded /\ [Next]_vars => BurstBounded'
  <2> SUFFICES ASSUME Facts, BurstBounded, [Next]_vars PROVE BurstBounded'
    OBVIOUS
  <2>1. CASE Update
    BY <2>1, UpdateEvents DEF BurstBounded
  <2>2. CASE Commands \/ Station
    <3>1. out' = <<>>
      BY <2>2 DEF Commands, Scan, Connect, Disconnect, Station, StationKeeps,
                  Leaves, Joins, JoinFails, GetsAddress, LosesLink, ScanEnds
    <3> QED
      BY <3>1, BatchAssumption DEF BurstBounded
  <2>3. CASE UNCHANGED vars
    BY <2>3 DEF vars, BurstBounded
  <2> QED
    BY <2>1, <2>2, <2>3 DEF Next
<1> QED
  BY <1>1, <1>2, FactsHold, PTL DEF Spec

(* A ScanDone follows its networks and counts them truly.                  *)
THEOREM DoneCountsCorrect == Spec => DoneCountsNetworks
<1> DEFINE Counted == \A i \in 1..Len(out') : out'[i].type = "ScanDone" =>
                        out'[i].count = hostFound + i - 1
<1>1. Facts /\ [Next]_vars => [Counted]_vars
  <2> SUFFICES ASSUME Facts, [Next]_vars PROVE Counted \/ UNCHANGED vars
    OBVIOUS
  <2>1. CASE Update
    BY <2>1, UpdateEvents
  <2>2. CASE Commands \/ Station
    <3>1. out' = <<>>
      BY <2>2 DEF Commands, Scan, Connect, Disconnect, Station, StationKeeps,
                  Leaves, Joins, JoinFails, GetsAddress, LosesLink, ScanEnds
    <3> QED
      BY <3>1
  <2> QED
    BY <2>1, <2>2 DEF Next
<1> QED
  BY <1>1, FactsHold, PTL DEF Spec, DoneCountsNetworks
-----------------------------------------------------------------------------

(* A drain has caught up only with a host that was heard, and nothing is   *)
(* drained between the commands and the Wi-Fi update.                      *)
DrainFacts == /\ caughtUp => ready
              /\ draining => phase # "Commands"

LoopFacts == /\ LoopTypeOK /\ DrainFacts
             /\ NothingLostOnceCaughtUp /\ BurstsDoNotPile

AppFacts == Facts /\ LoopFacts

(***************************************************************************)
(* The Wi-Fi service keeps its invariant under the loop.                   *)
(***************************************************************************)

LEMMA FactsAgain == Init' => Facts'
BY FactsInit, PTL

LEMMA WifiInLoop == ASSUME Facts, [AppNext]_appVars PROVE Facts'
<1>1. CASE UNCHANGED vars
  <2>1. [Next]_vars
    BY <1>1
  <2> QED
    BY <2>1, FactsStep
<1>2. CASE Commands \/ Update \/ Station
  BY <1>2, CommandStep, UpdateStep, StationStep
<1>3. CASE Restart
  <2>1. Init'
    BY <1>3 DEF Restart, Init
  <2> QED
    BY <2>1, FactsAgain
<1> QED
  BY <1>1, <1>2, <1>3
     DEF AppNext, appVars, WifiCommand, GetInfo, OtherCommand, NoMoreInput,
         WifiPhase, ServicePhase, SendEvent, DrainEnds, NextPhase, StationMoves

(***************************************************************************)
(* The loop.                                                               *)
(***************************************************************************)

(* A publication that fits loses nothing; one that does not fills the ring. *)
LEMMA PublishShape ==
  ASSUME LoopTypeOK, NEW n \in Nat, Publish(n)
  PROVE  /\ queued' \in 0..Capacity /\ refused' \in Nat
         /\ queued + n <= Capacity => queued' = queued + n /\ refused' = 0
BY CapacityAssumption DEF LoopTypeOK, Publish, Room

LEMMA LoopFactsInit == ASSUME AppInit PROVE LoopFacts
<1>1. draining \in BOOLEAN /\ ready \in BOOLEAN /\ caughtUp \in BOOLEAN
  BY Zenon DEF AppInit
<1>2. LoopTypeOK
  BY <1>1, CapacityAssumption, EventsAssumption DEF AppInit, LoopTypeOK, Phases
<1> QED
  BY <1>2 DEF AppInit, LoopFacts, DrainFacts, NothingLostOnceCaughtUp,
              BurstsDoNotPile

LEMMA CommandsKeep ==
  ASSUME LoopFacts, NEW n \in 0..CommandEvents,
         WifiCommand \/ GetInfo \/ OtherCommand(n) \/ NoMoreInput
  PROVE  LoopFacts'
<1>1. CASE WifiCommand
  BY <1>1 DEF WifiCommand, loop, LoopFacts, LoopTypeOK, DrainFacts,
              NothingLostOnceCaughtUp, BurstsDoNotPile
<1>2. CASE GetInfo
  <2>1. ready' \in BOOLEAN
    BY <1>2, Zenon DEF GetInfo
  <2> QED
    BY <1>2, <2>1 DEF GetInfo, LoopFacts, LoopTypeOK, DrainFacts,
                      NothingLostOnceCaughtUp, BurstsDoNotPile
<1>3. CASE OtherCommand(n)
  <2>1. /\ phase = "Commands" /\ commanded + n <= CommandEvents
        /\ commanded' = commanded + n /\ Publish(n)
        /\ UNCHANGED <<phase, draining, ready, caughtUp>>
    BY <1>3 DEF OtherCommand
  <2>2. n \in Nat /\ LoopTypeOK /\ ~draining
    BY <2>1, EventsAssumption DEF LoopFacts, DrainFacts
  <2>3. /\ queued' \in 0..Capacity /\ refused' \in Nat
        /\ queued + n <= Capacity => queued' = queued + n /\ refused' = 0
    BY <2>1, <2>2, PublishShape
  <2>4. commanded' \in 0..CommandEvents
    BY <2>1, <2>2, EventsAssumption DEF LoopTypeOK
  <2>5. LoopTypeOK'
    BY <2>1, <2>2, <2>3, <2>4 DEF LoopTypeOK
  <2>6. caughtUp => queued = commanded
    BY <2>1, <2>2 DEF LoopFacts, BurstsDoNotPile
  <2>7. caughtUp => queued + n <= Capacity
    BY <2>1, <2>2, <2>6, RingHoldsBursts, CapacityAssumption, EventsAssumption,
       BatchAssumption DEF LoopTypeOK
  <2> QED
    BY <2>1, <2>2, <2>3, <2>5, <2>6, <2>7
       DEF LoopFacts, DrainFacts, NothingLostOnceCaughtUp, BurstsDoNotPile
<1>4. CASE NoMoreInput
  BY <1>4 DEF NoMoreInput, LoopFacts, LoopTypeOK, Phases, DrainFacts,
              NothingLostOnceCaughtUp, BurstsDoNotPile
<1> QED
  BY <1>1, <1>2, <1>3, <1>4

(* Any service of the loop: a burst that fits what it found.               *)
LEMMA BurstKeeps ==
  ASSUME LoopFacts, NEW n \in Nat, Publish(n),
         caughtUp => queued + n <= Capacity,
         phase # "Commands", draining' = TRUE,
         UNCHANGED <<phase, ready, commanded, caughtUp>>
  PROVE  LoopFacts'
<1>1. /\ queued' \in 0..Capacity /\ refused' \in Nat
      /\ queued + n <= Capacity => queued' = queued + n /\ refused' = 0
  BY PublishShape DEF LoopFacts
<1>2. draining' \in BOOLEAN
  BY Zenon
<1>3. LoopTypeOK'
  BY <1>1, <1>2 DEF LoopFacts, LoopTypeOK
<1> QED
  BY <1>1, <1>3 DEF LoopFacts, DrainFacts, NothingLostOnceCaughtUp, BurstsDoNotPile

LEMMA WifiKeeps ==
  ASSUME AppFacts, WifiPhase
  PROVE  LoopFacts'
<1>1. /\ phase = "Wifi" /\ ~draining /\ Update /\ Publish(Len(out'))
      /\ draining' = TRUE
      /\ UNCHANGED <<phase, ready, commanded, caughtUp>>
  BY DEF WifiPhase
<1>2. out' \in Seq(Events) /\ Len(out') <= BatchLimit + 3
  BY <1>1, UpdateEvents DEF AppFacts
<1> DEFINE n == Len(out')
<1>3. n \in Nat /\ n <= BatchLimit + 3
  BY <1>2
<1>4. Publish(n)
  BY <1>1
<1> HIDE DEF n
<1>5. caughtUp => queued + n <= Capacity
  BY <1>1, <1>3, RingHoldsBursts, CapacityAssumption, EventsAssumption,
     BatchAssumption DEF AppFacts, LoopFacts, LoopTypeOK, BurstsDoNotPile
<1> QED
  BY <1>1, <1>3, <1>4, <1>5, BurstKeeps DEF AppFacts

LEMMA ServiceKeeps ==
  ASSUME LoopFacts, NEW n \in 0..ServiceEvents, ServicePhase(n)
  PROVE  LoopFacts'
<1>1. /\ phase \in Services /\ ~draining /\ Publish(n) /\ draining' = TRUE
      /\ UNCHANGED <<phase, ready, commanded, caughtUp>>
  BY DEF ServicePhase
<1>2. n \in Nat /\ n <= Capacity
  BY EventsAssumption, CapacityAssumption, RingHoldsBursts
<1>3. phase # "Commands" /\ phase # "Wifi"
  BY <1>1 DEF Services
<1>4. caughtUp => queued + n <= Capacity
  BY <1>1, <1>2, <1>3, CapacityAssumption DEF LoopFacts, BurstsDoNotPile
<1> QED
  BY <1>1, <1>2, <1>3, <1>4, BurstKeeps

LEMMA DrainKeeps ==
  ASSUME LoopFacts, SendEvent \/ DrainEnds
  PROVE  LoopFacts'
<1>1. CASE SendEvent
  <2>1. /\ draining /\ queued > 0 /\ queued' = queued - 1
        /\ UNCHANGED <<phase, draining, ready, refused, commanded, caughtUp>>
    BY <1>1 DEF SendEvent
  <2>2. queued' \in 0..Capacity
    BY <2>1, CapacityAssumption DEF LoopFacts, LoopTypeOK
  <2>3. LoopTypeOK'
    BY <2>1, <2>2 DEF LoopFacts, LoopTypeOK
  <2> QED
    BY <2>1, <2>3 DEF LoopFacts, DrainFacts, NothingLostOnceCaughtUp,
                      BurstsDoNotPile
<1>2. CASE DrainEnds
  <2>1. /\ draining /\ (~ready \/ queued = 0)
        /\ draining' = FALSE /\ phase' = After[phase] /\ refused' = 0
        /\ commanded' = (IF phase = "A2dp" THEN 0 ELSE commanded)
        /\ caughtUp' = (caughtUp \/ ready)
        /\ ready' = ready /\ queued' = queued
    BY <1>2 DEF DrainEnds, NextPhase
  <2>2. phase \in {"Wifi", "Network", "Bluetooth", "A2dp"}
    BY <2>1 DEF LoopFacts, LoopTypeOK, DrainFacts, Phases, Services
  <2>3. /\ phase' \in {"Network", "Bluetooth", "A2dp", "Commands"}
        /\ phase' = "Commands" => phase = "A2dp"
    BY <2>1, <2>2 DEF After
  <2>4. draining' \in BOOLEAN /\ caughtUp' \in BOOLEAN
    BY <2>1, Zenon
  <2>5. commanded' \in 0..CommandEvents /\ refused' \in Nat
    BY <2>1, EventsAssumption DEF LoopFacts, LoopTypeOK
  <2>6. LoopTypeOK'
    BY <2>1, <2>3, <2>4, <2>5 DEF LoopFacts, LoopTypeOK, Phases, Services
  <2>7. caughtUp' => ready /\ queued = 0
    BY <2>1 DEF LoopFacts, DrainFacts
  <2> QED
    BY <2>1, <2>3, <2>6, <2>7
       DEF LoopFacts, DrainFacts, NothingLostOnceCaughtUp, BurstsDoNotPile
<1> QED
  BY <1>1, <1>2

LEMMA RestartKeeps == ASSUME Restart PROVE LoopFacts'
<1>1. draining' \in BOOLEAN /\ ready' \in BOOLEAN /\ caughtUp' \in BOOLEAN
  BY Zenon DEF Restart
<1>2. LoopTypeOK'
  BY <1>1, CapacityAssumption, EventsAssumption DEF Restart, LoopTypeOK, Phases
<1> QED
  BY <1>2 DEF Restart, LoopFacts, DrainFacts, NothingLostOnceCaughtUp,
              BurstsDoNotPile

LEMMA AppFactsStep == AppFacts /\ [AppNext]_appVars => AppFacts'
<1> SUFFICES ASSUME AppFacts, [AppNext]_appVars PROVE AppFacts'
  OBVIOUS
<1>1. Facts'
  BY WifiInLoop DEF AppFacts
<1>2. LoopFacts
  BY DEF AppFacts
<1>3. CASE WifiCommand \/ GetInfo \/ NoMoreInput
  <2>1. 0 \in 0..CommandEvents
    BY EventsAssumption
  <2> QED
    BY <1>1, <1>2, <1>3, <2>1, CommandsKeep DEF AppFacts
<1>4. CASE \E n \in 0..CommandEvents : OtherCommand(n)
  BY <1>1, <1>2, <1>4, CommandsKeep DEF AppFacts
<1>5. CASE \E n \in 0..ServiceEvents : ServicePhase(n)
  BY <1>1, <1>2, <1>5, ServiceKeeps DEF AppFacts
<1>6. CASE WifiPhase
  BY <1>1, <1>6, WifiKeeps DEF AppFacts
<1>7. CASE SendEvent \/ DrainEnds
  BY <1>1, <1>2, <1>7, DrainKeeps DEF AppFacts
<1>8. CASE Restart
  BY <1>1, <1>8, RestartKeeps DEF AppFacts
<1>9. CASE StationMoves \/ UNCHANGED appVars
  BY <1>1, <1>2, <1>9
     DEF AppFacts, StationMoves, appVars, loop, LoopFacts, LoopTypeOK,
         DrainFacts, NothingLostOnceCaughtUp, BurstsDoNotPile
<1> QED
  BY <1>3, <1>4, <1>5, <1>6, <1>7, <1>8, <1>9 DEF AppNext

LEMMA AppFactsHold == AppSpec => []AppFacts
<1>1. AppInit => AppFacts
  BY FactsInit, LoopFactsInit DEF AppFacts, AppInit
<1> QED
  BY <1>1, AppFactsStep, PTL DEF AppSpec

(***************************************************************************)
(* The theorems of the loop.                                               *)
(***************************************************************************)

(* The variables of Wi-Fi and loop keep their types; the ring keeps within *)
(* its size.                                                               *)
THEOREM AppTypeCorrect == AppSpec => []AppTypeOK
<1>1. AppFacts => AppTypeOK
  BY DEF AppFacts, LoopFacts, Facts, AppTypeOK
<1> QED
  BY <1>1, AppFactsHold, PTL

(* Once a drain has caught up with the services, the ring never overflows, *)
(* as long as it holds the commands' events and the Wi-Fi burst together   *)
(* and each other burst alone.                                             *)
THEOREM NothingIsLost == AppSpec => []NothingLostOnceCaughtUp
<1>1. AppFacts => NothingLostOnceCaughtUp
  BY DEF AppFacts, LoopFacts
<1> QED
  BY <1>1, AppFactsHold, PTL

(* No event waits behind the burst of another service.                     *)
THEOREM NoPile == AppSpec => []BurstsDoNotPile
<1>1. AppFacts => BurstsDoNotPile
  BY DEF AppFacts, LoopFacts
<1> QED
  BY <1>1, AppFactsHold, PTL

(* What WiFiManager keeps under its own commands and station it keeps in   *)
(* the loop, over restarts: its view of the link and its scan results.     *)
THEOREM WifiInLoopCorrect == AppSpec => [](HostViewAgrees /\ ResultsKept)
<1>1. AppFacts => HostViewAgrees /\ ResultsKept
  BY DEF AppFacts, Facts
<1> QED
  BY <1>1, AppFactsHold, PTL

(* All of this together, as the runs check it.                             *)
THEOREM LoopInvariantHolds == AppSpec => []LoopInvariant
  BY AppTypeCorrect, NoPile, WifiInLoopCorrect, PTL DEF LoopInvariant
(***************************************************************************)
(* How the ring comes to be empty: EventsLeave without the fairness.       *)
(***************************************************************************)

(* The steps of the loop that are left, at most.  A phase that has still   *)
(* to publish may fill the ring.                                           *)
StepsToEmpty ==
  CASE draining -> queued
    [] ~draining /\ phase # "Commands" -> Capacity + 1
    [] ~draining /\ phase = "Commands" -> Capacity + 2

(* While the host is attached and events wait, the loop comes nearer to an *)
(* empty ring with each step, and is set back only by a restart, which     *)
(* empties it.                                                             *)
RingRunsDown ==
  [][(ready /\ queued > 0) =>
       /\ StepsToEmpty \in Nat \ {0}
       /\ IF Progress
          THEN StepsToEmpty' \in 0..(StepsToEmpty - 1)
          ELSE Restart \/ StepsToEmpty' = StepsToEmpty]_appVars

(* With the host attached, each step of the loop takes the ring nearer to  *)
(* being empty; commands, the station and what the services publish do not *)
(* take it back, and a restart empties it.                                 *)
THEOREM RingsRunDown == AppSpec => RingRunsDown
<1>1. ASSUME AppFacts, [AppNext]_appVars, ready, queued > 0
      PROVE  /\ StepsToEmpty \in Nat \ {0}
             /\ IF Progress
                THEN StepsToEmpty' \in 0..(StepsToEmpty - 1)
                ELSE Restart \/ StepsToEmpty' = StepsToEmpty
  <2>1. /\ phase \in Phases /\ draining \in BOOLEAN
        /\ queued \in 0..Capacity /\ Capacity \in Nat
        /\ draining => phase # "Commands"
    BY <1>1, CapacityAssumption DEF AppFacts, LoopFacts, LoopTypeOK, DrainFacts
  <2>2. queued' \in 0..Capacity
    BY <1>1, AppFactsStep DEF AppFacts, LoopFacts, LoopTypeOK
  <2>3. StepsToEmpty \in Nat \ {0}
    BY <1>1, <2>1 DEF StepsToEmpty
  <2>4. ASSUME Progress
        PROVE  StepsToEmpty' \in 0..(StepsToEmpty - 1)
    <3>1. CASE NoMoreInput
      <4>1. StepsToEmpty = Capacity + 2
        BY <2>1, <3>1 DEF NoMoreInput, StepsToEmpty
      <4>2. StepsToEmpty' = Capacity + 1
        BY <2>1, <3>1 DEF NoMoreInput, StepsToEmpty
      <4> QED BY <2>1, <4>1, <4>2
    <3>2. CASE WifiPhase \/ \E n \in 0..ServiceEvents : ServicePhase(n)
      <4>1. StepsToEmpty = Capacity + 1
        BY <3>2 DEF WifiPhase, ServicePhase, Services, StepsToEmpty
      <4>2. StepsToEmpty' = queued'
        BY <3>2 DEF WifiPhase, ServicePhase, StepsToEmpty
      <4> QED BY <2>1, <2>2, <4>1, <4>2
    <3>3. CASE SendEvent
      <4>1. StepsToEmpty = queued
        BY <3>3 DEF SendEvent, StepsToEmpty
      <4>2. StepsToEmpty' = queued - 1
        BY <3>3 DEF SendEvent, StepsToEmpty
      <4> QED BY <1>1, <2>1, <4>1, <4>2
    <3>4. ~DrainEnds
      BY <1>1, <2>1 DEF DrainEnds
    <3> QED BY <2>4, <3>1, <3>2, <3>3, <3>4 DEF Progress
  <2>5. ASSUME ~Progress, ~Restart
        PROVE  StepsToEmpty' = StepsToEmpty
    <3>1. CASE UNCHANGED <<phase, draining, queued>>
      BY <3>1 DEF StepsToEmpty
    <3>2. ASSUME NEW n, OtherCommand(n)
          PROVE  StepsToEmpty' = StepsToEmpty
      BY <2>1, <3>2 DEF OtherCommand, StepsToEmpty
    <3> QED
      BY <1>1, <2>5, <3>1, <3>2 DEF AppNext, Progress, WifiCommand, GetInfo, StationMoves, loop, appVars
  <2> QED BY <2>3, <2>4, <2>5
<1> QED BY <1>1, AppFactsHold, PTL DEF AppSpec, RingRunsDown
=============================================================================
