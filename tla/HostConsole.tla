---------------------------- MODULE HostConsole ----------------------------
(***************************************************************************)
(* The console of the host: main(), the menu, and the options that start   *)
(* something on the dongle and then wait for the events that tell how it   *)
(* ended.  Between the two stands one deque, which the reader thread       *)
(* fills with the events of all subsystems and a wait empties.             *)
(*                                                                         *)
(* Of the dongle only what it does for these options is kept: when it      *)
(* starts work, and which events that work may publish.  An option that    *)
(* only asks and prints changes nothing and is left out, and the network   *)
(* tests are NetworkTests.  Every operation the menu starts has a number.  *)
(***************************************************************************)
EXTENDS Naturals, Sequences, FiniteSets

CONSTANTS
  MaxCalls,  \* bound: options chosen
  MaxFound,  \* bound: results of one scan
  MaxPending \* bound: events waiting in the deque; one more is lost

ASSUME BoundsAssumption == {MaxCalls, MaxFound, MaxPending} \subseteq Nat

VARIABLES
  phase,     \* where the console is
  option,    \* the option chosen last
  events,    \* self.events of Esp32Device
  found,     \* results listed by this wait
  said,      \* how the latest wait ended
  streamer,  \* streamer.is_running()
  forgotten, \* threads that a stop() gave up on live, and may send
  work,      \* what the dongle is doing, of each kind
  leaving,   \* Wi-Fi link that is gone and not yet reported, 0 for none
  told,      \* the latest audio command the dongle has carried out
  \* History.
  calls,     \* options chosen so far, the present one included
  own,       \* nothing older could answer the latest wait
  answered,  \* scans whose own wait has heard of their end
  lossy      \* an event has been lost on its way

wait == <<found, said, answered>>
chosen == <<option, calls, own>>
console == <<phase, chosen, wait>>
audio == <<streamer, forgotten>>
dongle == <<work, leaving, told>>
vars == <<console, events, audio, dongle, lossy>>

Scans == {"WifiScan", "BtScan", "BleScan"}
Connects == {"WifiConnect", "A2dpConnect"}
Waiting == Scans \cup Connects \cup {"Tone"}
Silent == {"WifiDisconnect", "A2dpDisconnect", "AudioStart", "AudioStop", "Exit"}
Options == Waiting \cup Silent

Found == [WifiScan |-> "WIFI_NETWORK_FOUND", BtScan |-> "BT_DEVICE_FOUND",
          BleScan |-> "BT_BLE_DEVICE_FOUND"]
Done == [WifiScan |-> "WIFI_SCAN_DONE", BtScan |-> "BT_SCAN_DONE",
         BleScan |-> "BT_BLE_SCAN_DONE"]

Kinds == {Found[s] : s \in Scans} \cup {Done[s] : s \in Scans} \cup
  {"WIFI_CONNECTED", "WIFI_GOT_IP", "WIFI_CONNECT_FAILED", "WIFI_DISCONNECTED",
   "A2DP_CONNECTING", "A2DP_CONNECTED", "A2DP_CONNECT_FAIL",
   "A2DP_DISCONNECTED", "A2DP_AUDIO_STARTED"}

Calls == 0..MaxCalls

(* count is that of a SCAN_DONE; of is the operation it is about.          *)
Events == [kind : Kinds, payload : {"Whole", "Empty"}, count : 0..MaxFound,
           of : Calls]

Phases == {"Begin", "Menu", "Status", "Command", "Wait", "Confirm",
           "StartStreamer", "StopStreamer", "StopAudio", "Ending", "Closed"}

(* Idle work belongs to no operation. *)
Idle == [stage |-> "Idle", of |-> 0, sent |-> 0]
Stages == {"Idle", "Scanning", "Joining", "Linked", "Up", "Lost", "Leaving"}

Nothing == [how |-> "Nothing", by |-> 0, found |-> 0, count |-> 0]

TypeOK ==
  /\ phase \in Phases /\ option \in Options
  /\ events \in Seq(Events)
  /\ found \in Nat
  /\ said \in [how : {"Nothing", "Timeout", "Confirmed"} \cup Kinds,
               by : Calls, found : Nat, count : 0..MaxFound]
  /\ streamer \in BOOLEAN /\ forgotten \in BOOLEAN
  /\ work \in [Scans \cup Connects ->
                 [stage : Stages, of : Calls, sent : 0..MaxFound]]
  /\ leaving \in Calls /\ told \in {"start", "stop"}
  /\ own \in BOOLEAN /\ calls \in Calls /\ answered \subseteq 1..MaxCalls
  /\ lossy \in BOOLEAN
  /\ phase = "Wait" => option \in Waiting
  /\ phase = "StartStreamer" => ~streamer

Init ==
  /\ phase = "Begin" /\ option = "Exit"
  /\ events = <<>> /\ found = 0 /\ said = Nothing
  /\ streamer = FALSE /\ forgotten = FALSE
  /\ work = [k \in Scans \cup Connects |-> Idle]
  /\ leaving = 0 /\ told = "stop"
  /\ own = FALSE /\ calls = 0 /\ answered = {} /\ lossy = FALSE

-----------------------------------------------------------------------------
(* decode_event(): what the console makes of an event, if anything.  Logs, *)
(* and the details that follow each result of a Classic scan, are decoded  *)
(* to be printed only.                                                     *)

DecodedWifi(e) ==
  IF e.kind \in {"WIFI_NETWORK_FOUND", "WIFI_GOT_IP"} /\ e.payload = "Empty"
  THEN "None" ELSE e.kind

DecodedBluetooth(e) ==
  IF e.kind \in {"BT_DEVICE_FOUND", "BT_BLE_DEVICE_FOUND"} /\ e.payload = "Empty"
  THEN "None" ELSE e.kind

(* Only a failure may come without an address.                             *)
DecodedA2dp(e) ==
  IF e.kind # "A2DP_CONNECT_FAIL" /\ e.payload = "Empty" THEN "None" ELSE e.kind

Decoded(e) ==
  CASE e.kind \in {"WIFI_NETWORK_FOUND", "WIFI_SCAN_DONE", "WIFI_CONNECTED",
                   "WIFI_GOT_IP", "WIFI_CONNECT_FAILED", "WIFI_DISCONNECTED"}
         -> DecodedWifi(e)
    [] e.kind \in {"BT_DEVICE_FOUND", "BT_SCAN_DONE", "BT_BLE_DEVICE_FOUND",
                   "BT_BLE_SCAN_DONE"} -> DecodedBluetooth(e)
    [] OTHER -> DecodedA2dp(e)

-----------------------------------------------------------------------------
(* What each wait lists, and what it ends with.                            *)

RunWifiScan == [lists |-> {"WIFI_NETWORK_FOUND"}, ends |-> {"WIFI_SCAN_DONE"}]

WaitForWifiConnection ==
  [lists |-> {},
   ends |-> {"WIFI_GOT_IP", "WIFI_CONNECT_FAILED", "WIFI_DISCONNECTED"}]

RunBluetoothScan == [lists |-> {"BT_DEVICE_FOUND"}, ends |-> {"BT_SCAN_DONE"}]

RunBluetoothBleScan ==
  [lists |-> {"BT_BLE_DEVICE_FOUND"}, ends |-> {"BT_BLE_SCAN_DONE"}]

(* Mutant: any disconnection ends the wait. *)
WaitA2dpResultAnyLoss ==
  [lists |-> {},
   ends |-> {"A2DP_CONNECTED", "A2DP_CONNECT_FAIL", "A2DP_DISCONNECTED",
             "WIFI_DISCONNECTED"}]

WaitA2dpResult ==
  [lists |-> {},
   ends |-> {"A2DP_CONNECTED", "A2DP_CONNECT_FAIL", "A2DP_DISCONNECTED"}]

RunA2dpTone ==
  [lists |-> {}, ends |-> {"A2DP_AUDIO_STARTED", "A2DP_DISCONNECTED"}]

Waits == [WifiScan |-> RunWifiScan, WifiConnect |-> WaitForWifiConnection,
          BtScan |-> RunBluetoothScan, BleScan |-> RunBluetoothBleScan,
          A2dpConnect |-> WaitA2dpResult, Tone |-> RunA2dpTone]

-----------------------------------------------------------------------------
(* main() and the menu.  The console moves from phase to phase.            *)

Goto(next) == phase' = next /\ UNCHANGED <<chosen, wait>>

DongleRests == UNCHANGED <<events, dongle, lossy>>
GotoQuietly(next) == Goto(next) /\ UNCHANGED audio /\ DongleRests

(* The program ends, its threads and its deque with it.                    *)
Close ==
  /\ phase' = "Closed" /\ events' = <<>>
  /\ streamer' = FALSE /\ forgotten' = FALSE
  /\ found' = 0 /\ said' = Nothing /\ answered' = {}
  /\ UNCHANGED <<chosen, dongle, lossy>>

(* The system tests of main() ask three times; one that raises ends it all.*)
Main == phase = "Begin" /\ (GotoQuietly("Menu") \/ Close)

(* The options that ask for the state of the dongle before they act.       *)
FirstPhase(o) ==
  CASE o \in {"Tone", "AudioStart", "AudioStop"} -> "Status"
    [] o = "Exit" -> IF streamer THEN "Status" ELSE "Ending"
    [] OTHER -> "Command"

(* Nothing on its way, or still to come, that a wait for o would take for  *)
(* its own.                                                                *)
NothingOlder(o) ==
  /\ o \in Waiting \ {"Tone"}
  /\ work[o] = Idle /\ (o = "WifiConnect" => leaving = 0)
  /\ \A i \in DOMAIN events :
       Decoded(events[i]) \notin Waits[o].lists \cup Waits[o].ends

Menu(o) ==
  /\ phase = "Menu" /\ calls < MaxCalls
  /\ option' = o /\ calls' = calls + 1 /\ own' = NothingOlder(o)
  /\ phase' = FirstPhase(o)
  /\ said' = Nothing /\ found' = 0
  /\ UNCHANGED <<answered, audio>> /\ DongleRests

(* Ctrl-C, anywhere. *)
Interrupt == phase # "Closed" /\ Close

End == phase = "Ending" /\ Close

-----------------------------------------------------------------------------
(* Requests.  Each may raise, carried out or not, which leads back to the  *)
(* menu; so does one the dongle refuses, if its wrapper looks at the       *)
(* status.                                                                 *)

Unchecked == {"WifiScan", "WifiConnect", "WifiDisconnect"}

AtEnd == IF option = "Exit" THEN "Ending" ELSE "Menu"

A2dpUp == work["A2dpConnect"].stage = "Up"

AfterCommand ==
  CASE option \in Waiting -> "Wait"
    [] option = "AudioStart" -> "StartStreamer"
    [] OTHER -> "Menu"

(* run_a2dp_tone() and run_pc_audio_start() up to the command.             *)
ReadyToStart == A2dpUp /\ (option = "AudioStart" => ~streamer)

(* A stream the dongle was told to start may have ended with its link.     *)
Streaming == {FALSE, told = "start"}

(* The status request of run_pc_audio_stop() comes before anything stops.  *)
StatusAnswered ==
  /\ phase = "Status"
  /\ \/ /\ option \in {"Tone", "AudioStart"}
        /\ GotoQuietly(IF ReadyToStart THEN "Command" ELSE "Menu")
     \/ /\ option \in {"AudioStop", "Exit"}
        /\ \E streaming \in Streaming :
             GotoQuietly(IF streamer \/ streaming THEN "StopStreamer" ELSE AtEnd)

RequestRaises ==
  phase \in {"Status", "Command", "StopAudio"} /\ GotoQuietly("Menu")

Begun(stage) == [stage |-> stage, of |-> calls, sent |-> 0]

NoScan == work["BtScan"] = Idle /\ work["BleScan"] = Idle

Starts(kind, stage) ==
  option = kind /\ work' = [work EXCEPT ![kind] = Begun(stage)]

(* A connect takes Wi-Fi from the link before it, which is reported later. *)
LinkGoes ==
  leaving' = IF work["WifiConnect"].stage \in {"Linked", "Up"}
             THEN work["WifiConnect"].of ELSE leaving

WifiCarriesOut ==
  /\ \/ /\ work["WifiScan"] = Idle /\ Starts("WifiScan", "Scanning")
        /\ UNCHANGED leaving
     \/ Starts("WifiConnect", "Joining") /\ LinkGoes
     \/ /\ option = "WifiDisconnect" /\ LinkGoes
        /\ work' = [work EXCEPT !["WifiConnect"] = Idle]
  /\ UNCHANGED told

(* A connect that is only queued keeps no scan out, and cancels one.  One  *)
(* that is queued when it is called off is dropped without an event.       *)
BluetoothCarriesOut ==
  /\ \/ /\ NoScan /\ work["A2dpConnect"].stage \in {"Idle", "Joining"}
        /\ Starts("BtScan", "Scanning") \/ Starts("BleScan", "Scanning")
     \/ /\ NoScan /\ work["A2dpConnect"] = Idle
        /\ Starts("A2dpConnect", "Joining")
     \/ /\ option = "A2dpDisconnect"
        /\ \/ /\ work["A2dpConnect"].stage # "Idle"
              /\ work' = [work EXCEPT !["A2dpConnect"].stage = "Leaving"]
           \/ /\ work["A2dpConnect"].stage \in {"Idle", "Joining"}
              /\ work' = [work EXCEPT !["A2dpConnect"] = Idle]
  /\ UNCHANGED <<leaving, told>>

AudioCarriesOut ==
  /\ A2dpUp
  /\ \/ option = "Tone" /\ UNCHANGED told
     \/ option = "AudioStart" /\ told' = "start"
  /\ UNCHANGED <<work, leaving>>

CarriesOut == WifiCarriesOut \/ BluetoothCarriesOut \/ AudioCarriesOut

Command ==
  /\ phase = "Command"
  /\ \/ CarriesOut /\ Goto(AfterCommand)
     \/ CarriesOut /\ Goto("Menu")
     \/ /\ Goto(IF option \in Unchecked THEN AfterCommand ELSE "Menu")
        /\ UNCHANGED dongle
  /\ UNCHANGED <<events, audio, lossy>>

-----------------------------------------------------------------------------
(* PC audio.  start() may raise, with the dongle streaming already.        *)

StartStreamer ==
  /\ phase = "StartStreamer" /\ Goto("Menu")
  /\ streamer' \in BOOLEAN /\ UNCHANGED forgotten
  /\ DongleRests

(* Mutant: the dongle is told first. *)
StopStreamerTooLate ==
  phase = "StopStreamer" /\ GotoQuietly("StopAudio")

(* A thread that has not ended when its join() times out is forgotten.     *)
StopStreamer ==
  /\ phase = "StopStreamer" /\ Goto("StopAudio")
  /\ streamer' = FALSE
  /\ UNCHANGED forgotten \/ (streamer /\ forgotten' = TRUE)
  /\ DongleRests

(* The dongle always carries it out; its answer may not arrive.            *)
StopAudio ==
  /\ phase = "StopAudio" /\ \E next \in {AtEnd, "Menu"} : Goto(next)
  /\ told' = "stop" /\ UNCHANGED <<audio, events, work, leaving, lossy>>

(* The threads end by themselves: those of the streamer on an error, those *)
(* it has forgotten in their own time.                                     *)
StreamerDies ==
  /\ \/ streamer /\ streamer' = FALSE /\ UNCHANGED forgotten
     \/ forgotten /\ forgotten' = FALSE /\ UNCHANGED streamer
  /\ UNCHANGED console /\ DongleRests

-----------------------------------------------------------------------------
(* The waits. *)

(* Mutant: list and clear without the lock, an event comes in between. *)
PolledUnlocked == IF events = <<>> THEN <<>> ELSE SubSeq(events, 1, Len(events) - 1)

(* Mutant: nothing is cleared. *)
LeftUncleared == events

(* poll_events() hands over what the reader has put there, and clears it.  *)
Polled == events
Left == <<>>

(* The indices of a batch that this wait goes through: up to the first     *)
(* event it ends with, all when there is none.                             *)
Seen(batch) ==
  {i \in DOMAIN batch :
     \A j \in 1..(i - 1) : Decoded(batch[j]) \notin Waits[option].ends}

Hears(e) ==
  /\ phase' = "Menu"
  /\ said' = [how |-> e.kind, by |-> e.of, found |-> found', count |-> e.count]
  /\ answered' = IF option \in Scans /\ e.of = calls
                 THEN answered \cup {calls} ELSE answered

(* One turn of the loop; what follows the end in the batch is dropped.     *)
Look ==
  /\ phase = "Wait"
  /\ events' = Left
  /\ found' = found + Cardinality(
       {i \in Seen(Polled) : Decoded(Polled[i]) \in Waits[option].lists})
  /\ LET ends == {i \in Seen(Polled) : Decoded(Polled[i]) \in Waits[option].ends}
     IN \/ \E i \in ends : Hears(Polled[i])
        \/ ends = {} /\ UNCHANGED <<phase, said, answered>>
  /\ UNCHANGED <<chosen, audio, dongle, lossy>>

GivesUp(how) ==
  /\ phase' = "Menu" /\ said' = [Nothing EXCEPT !.how = how, !.found = found]
  /\ UNCHANGED <<chosen, found, answered, audio>> /\ DongleRests

(* Mutant: the clock is looked at only when there is an event. *)
TimeOutAtEvent ==
  /\ phase = "Wait" /\ events # <<>>
  /\ \/ option \notin {"A2dpConnect", "Tone"} /\ GivesUp("Timeout")
     \/ /\ option \in {"A2dpConnect", "Tone"} /\ GotoQuietly("Confirm")

(* The deadline has passed when the loop looks at the clock.  The A2DP     *)
(* waits ask for the status first.                                         *)
TimeOut ==
  /\ phase = "Wait"
  /\ \/ option \notin {"A2dpConnect", "Tone"} /\ GivesUp("Timeout")
     \/ /\ option \in {"A2dpConnect", "Tone"} /\ GotoQuietly("Confirm")

(* Only the wait for a connection believes the answer, if there is one.    *)
Confirm ==
  /\ phase = "Confirm"
  /\ \/ GivesUp("Timeout")
     \/ option = "A2dpConnect" /\ A2dpUp /\ GivesUp("Confirmed")

-----------------------------------------------------------------------------
(* The dongle publishes; the ring, the line or the parser may lose it.     *)

Publish(e) ==
  \/ /\ Len(events) < MaxPending
     /\ events' = Append(events, e) /\ UNCHANGED lossy
  \/ lossy' = TRUE /\ UNCHANGED events

Event(kind, payload, k) ==
  [kind |-> kind, payload |-> payload, count |-> work[k].sent, of |-> work[k].of]

Becomes(k, w) ==
  work' = [work EXCEPT ![k] = w] /\ UNCHANGED <<leaving, told>>

Sends(k) == Becomes(k, [work[k] EXCEPT !.sent = @ + 1])
Turns(k, stage) == Becomes(k, [work[k] EXCEPT !.stage = stage])

(* A scan may fail, or give way to A2DP, and then says nothing.            *)
Scan(k) ==
  /\ work[k].stage = "Scanning"
  /\ \/ /\ work[k].sent < MaxFound
        /\ Publish(Event(Found[k], "Whole", k)) /\ Sends(k)
     \/ Publish(Event(Done[k], "Whole", k)) /\ Becomes(k, Idle)
     \/ k # "BleScan" /\ UNCHANGED <<events, lossy>> /\ Becomes(k, Idle)

(* The station may find its way back to a network it has lost.             *)
WifiLink ==
  LET k == "WifiConnect"
      Stage(from) == work[k].stage \in from
      Tell(kind) == Publish(Event(kind, "Whole", k))
  IN \/ Stage({"Joining"}) /\ Tell("WIFI_CONNECT_FAILED") /\ Becomes(k, Idle)
     \/ Stage({"Joining"}) /\ Tell("WIFI_CONNECTED") /\ Turns(k, "Linked")
     \/ Stage({"Linked"}) /\ Tell("WIFI_GOT_IP") /\ Turns(k, "Up")
     \/ Stage({"Linked", "Up"}) /\ Tell("WIFI_DISCONNECTED") /\ Turns(k, "Lost")
     \/ /\ Stage({"Lost"}) /\ work[k].sent < MaxFound
        /\ Becomes(k, [work[k] EXCEPT !.stage = "Joining", !.sent = @ + 1])
        /\ UNCHANGED <<events, lossy>>

(* The next update() reports the link before; it may find a new one up.    *)
WifiReportsLeft ==
  /\ leaving # 0 /\ leaving' = 0
  /\ \/ Publish([kind |-> "WIFI_DISCONNECTED", payload |-> "Whole",
                 count |-> 0, of |-> leaving])
     \/ UNCHANGED <<events, lossy>>
  /\ UNCHANGED <<work, told>>

(* Without an address, which a search has not found yet, nothing is told   *)
(* of the end.  That audio plays is told without one.                      *)
A2dpLink ==
  LET k == "A2dpConnect"
      Stage(from) == work[k].stage \in from
      Tell(kind) == Publish(Event(kind, "Whole", k))
      Quietly == UNCHANGED <<events, lossy>>
  IN \/ Stage({"Joining"}) /\ work[k].sent < MaxFound
        /\ Tell("A2DP_CONNECTING") /\ Sends(k)
     \/ Stage({"Joining"}) /\ Tell("A2DP_CONNECTED") /\ Turns(k, "Up")
     \/ /\ Stage({"Joining"}) /\ Becomes(k, Idle)
        /\ Publish(Event("A2DP_CONNECT_FAIL", "Empty", k))
     \/ /\ Stage({"Up"}) /\ work[k].sent < MaxFound
        /\ Publish(Event("A2DP_AUDIO_STARTED", "Empty", k)) /\ Sends(k)
     \/ Stage({"Up"}) /\ Quietly /\ Turns(k, "Leaving")
     \/ Stage({"Leaving"}) /\ Tell("A2DP_DISCONNECTED") /\ Becomes(k, Idle)
     \/ Stage({"Leaving"}) /\ Quietly /\ Becomes(k, Idle)

(* Nobody looks at it any more; a bound.                                   *)
Over == phase = "Closed" \/ (phase = "Menu" /\ calls = MaxCalls)

Dongle ==
  /\ ~Over
  /\ (\E k \in Scans : Scan(k)) \/ WifiLink \/ WifiReportsLeft \/ A2dpLink
  /\ UNCHANGED <<console, audio>>

-----------------------------------------------------------------------------

ConsoleStep ==
  \/ Main \/ StatusAnswered \/ RequestRaises \/ Command
  \/ StartStreamer \/ StopStreamer \/ StopAudio
  \/ Look \/ Confirm \/ End

Next ==
  \/ ConsoleStep \/ (\E o \in Options : Menu(o)) \/ Interrupt
  \/ TimeOut \/ StreamerDies \/ Dongle

Spec == Init /\ [][Next]_vars

(* Every request has a timeout and every loop a deadline; the menu waits   *)
(* for the user, and the dongle owes the console nothing.                  *)
FairSpec == Spec /\ WF_vars(ConsoleStep) /\ WF_vars(TimeOut)

-----------------------------------------------------------------------------
(* What a wait reports is about the operation it was started for, whenever *)
(* nothing of the same kind was pending when it began: no other subsystem  *)
(* and no late event ends it.                                              *)
OwnAnswer == (own /\ said.how \in Kinds) => said.by = calls

(* A scan whose own wait has heard of its end ends no other wait.          *)
AnswerNotReused ==
  [][said' # said /\ said'.by # 0 => said'.by \notin answered]_vars

(* A wait that ends with its own scan has listed every result the dongle   *)
(* counts and no other, if it began with nothing older pending and nothing *)
(* was lost on the way.                                                    *)
ScanListsAll ==
  (own /\ said.how \in {Done[k] : k \in Scans} /\ ~lossy)
    => said.found = said.count

(* is_running() says so only of a dongle that was told to start and not    *)
(* yet to stop, whatever raises on the way.  It is no promise that a       *)
(* dongle told to stop gets no more audio: threads a stop() gave up on     *)
(* send on, and is_running() does not tell of them (forgotten).            *)
StreamerOnlyWhileTold == streamer => told = "start"

ConsoleInvariant == TypeOK /\ StreamerOnlyWhileTold

(* An option always comes back to the menu, or ends the program.           *)
WaitEnds == phase \notin {"Menu", "Closed"} ~> phase \in {"Menu", "Closed"}
=============================================================================
