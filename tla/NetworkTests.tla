---------------------------- MODULE NetworkTests ----------------------------
(***************************************************************************)
(* The network tests of the host console and the dongle they run against:  *)
(* the three system tests, which are TCP or UDP peers of the dongle        *)
(* themselves, and the three the user runs against a peer elsewhere.  Each *)
(* is a sequence of steps; one that raises leaves it, through its finally. *)
(***************************************************************************)
EXTENDS NetworkService, Sequences

SystemTests == {"TcpClient", "TcpServer", "Udp"}
UserTests == {"UserTcpClient", "UserTcpServer", "UserUdp"}
Tests == SystemTests \cup UserTests

VARIABLES
  plan,      \* the tests still to run, the present one first
  at,        \* steps of the present test that are behind it
  raised,    \* it has raised
  worker,    \* the thread of the TCP client test
  failed,    \* that thread has met an error
  received,  \* the data it has received
  verdict,   \* of the latest test
  \* History.
  believes,  \* links the host was told of, and of no end
  gotAtPc,      \* the present test's message has arrived whole at the PC
  gotAtDongle,  \* and the one in the other direction at the dongle
  cutShort      \* a step before the try, or a closing one, has raised

threads == <<worker, failed, received>>
testConsole == <<plan, at, raised, verdict>>
history == <<believes, gotAtPc, gotAtDongle, cutShort>>
testVars == <<threads, testConsole, history>>
allVars == <<netVars, testVars>>

-----------------------------------------------------------------------------
(* The tests.  Before the try, in it, and in its finally.                  *)

TestTcpClient == [
  before |-> <<"listen">>,
  try |-> <<"tcp_connect", "tcp_send", "tcp_receive", "finished", "check">>,
  finally |-> <<"tcp_close", "join">>]

TestTcpServer == [
  before |-> <<"tcp_server_start">>,
  try |-> <<"connect", "sendall", "tcp_server_accept", "tcp_server_receive",
            "tcp_server_send", "recv">>,
  finally |-> <<"close", "tcp_server_close">>]

TestUdp == [
  before |-> <<"bind", "udp_open">>,
  try |-> <<"udp_send", "recvfrom", "sendto", "udp_receive">>,
  finally |-> <<"udp_close">>]

RunTcpClient == [
  before |-> <<"tcp_connect", "tcp_send">>,
  try |-> <<"tcp_receive">>,
  finally |-> <<"tcp_close">>]

RunTcpServer == [
  before |-> <<"tcp_server_start", "tcp_server_accept">>,
  try |-> <<"tcp_server_receive", "tcp_server_send">>,
  finally |-> <<"tcp_server_close">>]

RunUdp == [
  before |-> <<"udp_open">>,
  try |-> <<"udp_send", "udp_receive">>,
  finally |-> <<"udp_close">>]

Body == [TcpClient |-> TestTcpClient, TcpServer |-> TestTcpServer,
         Udp |-> TestUdp, UserTcpClient |-> RunTcpClient,
         UserTcpServer |-> RunTcpServer, UserUdp |-> RunUdp]

Running == plan # <<>>
Test == Head(plan)
Part(name) == Body[Test][name]
Steps == Part("before") \o Part("try") \o Part("finally")
TryBegins == Len(Part("before"))
FinallyBegins == TryBegins + Len(Part("try"))
Doing(step) == Running /\ verdict = "None" /\ Steps[at + 1] = step

TestsTypeOK ==
  /\ NetTypeOK
  /\ plan \in Seq(Tests)
  /\ Running => at \in 0..(Len(Steps) - 1)
  /\ raised \in BOOLEAN
  /\ worker \in {"None", "Accepting", "Receiving", "Sending", "Replied",
                "Finished"}
  /\ failed \in BOOLEAN /\ received \in Amounts
  /\ verdict \in {"None", "PASS", "FAIL", "SKIP"}
  /\ believes \subseteq Links
  /\ gotAtPc \in BOOLEAN /\ gotAtDongle \in BOOLEAN /\ cutShort \in BOOLEAN

TestsInit ==
  /\ NetInit
  /\ plan = <<>> /\ at = 0 /\ raised = FALSE
  /\ worker = "None" /\ failed = FALSE /\ received = "Nothing"
  /\ verdict = "None"
  /\ believes = {} /\ gotAtPc = FALSE /\ gotAtDongle = FALSE /\ cutShort = FALSE

-----------------------------------------------------------------------------
(* Beginning and ending. *)

Fresh ==
  /\ at' = 0 /\ raised' = FALSE
  /\ worker' = "None" /\ failed' = FALSE /\ received' = "Nothing"
  /\ gotAtPc' = FALSE /\ gotAtDongle' = FALSE /\ cutShort' = FALSE
  /\ outbox' = [c \in Channels |-> "Nothing"] /\ queued' = FALSE
  /\ noticed' = {} /\ reply' = "None"
  /\ UNCHANGED <<wifi, socket, was, running, udpRunning, caller, inbox, believes>>

(* The menu asks for the state of Wi-Fi first.                             *)
RequireConnected(test) ==
  /\ ~Running /\ wifi
  /\ plan' = <<test>> /\ verdict' = "None" /\ Fresh

RunNetworkSystemTests ==
  /\ ~Running
  /\ plan' = IF wifi THEN <<"TcpClient", "TcpServer", "Udp">> ELSE <<>>
  /\ verdict' = IF wifi THEN "None" ELSE "SKIP"
  /\ Fresh

(* A thread that outlives its test has a listener of its own to wait at,   *)
(* and is left out from here.                                              *)
NextTest ==
  /\ Running /\ verdict # "None"
  /\ plan' = Tail(plan)
  /\ verdict' = IF plan' = <<>> THEN verdict ELSE "None"
  /\ Fresh

-----------------------------------------------------------------------------
(* From step to step. *)

Goes(to, outcome, bad) ==
  /\ at' = to /\ verdict' = outcome /\ raised' = bad
  /\ UNCHANGED plan

(* Mutant: one step too far. *)
OnwardTooFar(bad) ==
  IF at = Len(Steps)
  THEN Goes(at, IF bad THEN "FAIL" ELSE "PASS", bad)
  ELSE Goes(at + 1, "None", bad)

Onward(bad) ==
  IF at + 1 = Len(Steps)
  THEN Goes(at, IF bad THEN "FAIL" ELSE "PASS", bad)
  ELSE Goes(at + 1, "None", bad)

Advance == Onward(raised) /\ UNCHANGED cutShort

InTry == TryBegins <= at /\ at < FinallyBegins

(* Mutant: without the finally. *)
RaiseAtOnce == Goes(at, "FAIL", TRUE) /\ cutShort' = (cutShort \/ ~InTry)

(* The finally of the test runs, if it has begun its try; a step of that   *)
(* which raises leaves the others undone.                                  *)
Raise ==
  IF InTry
  THEN Goes(FinallyBegins, "None", TRUE) /\ UNCHANGED cutShort
  ELSE Goes(at, "FAIL", TRUE) /\ cutShort' = TRUE

-----------------------------------------------------------------------------
(* Requests.  Any may raise without an answer, executed or not.            *)

(* The system tests compare lengths and contents, the others print them.   *)
Enough == IF Test \in SystemTests THEN {"Success"} ELSE {"Success", "Partial"}

Request(command, opens, closes) ==
  /\ \/ command /\ reply' \in Enough
        /\ Advance /\ believes' = (believes \ closes) \cup opens
     \/ command /\ Raise /\ believes' = believes \ closes
     \/ Fails /\ Raise /\ believes' = believes \ closes
  /\ UNCHANGED <<threads, gotAtPc>>

NothingArrives == UNCHANGED gotAtDongle

Arrives == gotAtDongle' = (gotAtDongle \/ reply' = "Success")

(* Of the user's tests nobody knows the peer.                              *)
Reachable == Test = "TcpClient" => worker = "Accepting"

Requests ==
  \/ /\ Doing("tcp_connect") /\ NothingArrives
     /\ Request(TcpConnect(Reachable), {"Tcp"}, {"Tcp"})
  \/ Doing("tcp_send") /\ Request(TcpSend, {}, {}) /\ NothingArrives
  \/ Doing("tcp_receive") /\ Request(TcpReceive, {}, {}) /\ Arrives
  \/ Doing("tcp_close") /\ Request(TcpClose, {}, {"Tcp"}) /\ NothingArrives
  \/ /\ Doing("tcp_server_start") /\ NothingArrives
     /\ Request(TcpServerStart, {}, {"Server"})
  \/ /\ Doing("tcp_server_accept") /\ NothingArrives
     /\ Request(TcpServerAccept, {"Server"}, {})
  \/ Doing("tcp_server_send") /\ Request(TcpServerSend, {}, {}) /\ NothingArrives
  \/ /\ Doing("tcp_server_receive")
     /\ Request(TcpServerReceive, {}, {}) /\ Arrives
  \/ /\ Doing("tcp_server_close") /\ NothingArrives
     /\ Request(TcpServerClose, {}, {"Server"})
  \/ Doing("udp_open") /\ Request(UdpOpen, {}, {}) /\ NothingArrives
  \/ Doing("udp_send") /\ Request(UdpSend, {}, {}) /\ NothingArrives
  \/ Doing("udp_receive") /\ Request(UdpReceive, {}, {}) /\ Arrives
  \/ Doing("udp_close") /\ Request(UdpClose, {}, {}) /\ NothingArrives

-----------------------------------------------------------------------------
(* Steps of the PC's own.  Every wait of them has a timeout.               *)

Quietly ==
  /\ noticed' = {} /\ reply' = "None"
  /\ UNCHANGED <<wifi, socket, was, running, udpRunning, believes, gotAtDongle>>

PcRaises ==
  /\ Running /\ verdict = "None"
  /\ Steps[at + 1] \in {"listen", "connect", "sendall", "recv", "bind", "recvfrom",
                       "sendto"}
  /\ Raise
  /\ Quietly /\ UNCHANGED <<caller, queued, inbox, outbox, threads, gotAtPc>>

Listen ==
  /\ Doing("listen") /\ Advance
  /\ worker' = "Accepting" /\ failed' = FALSE /\ received' = "Nothing"
  /\ Quietly /\ UNCHANGED <<caller, queued, inbox, outbox, gotAtPc>>

(* Mutant: it waits for the thread without a timeout. *)
FinishedWaits ==
  /\ Doing("finished") /\ worker = "Finished" /\ Advance
  /\ Quietly /\ UNCHANGED <<caller, queued, inbox, outbox, threads, gotAtPc>>

Finished ==
  /\ Doing("finished")
  /\ IF worker = "Finished" THEN Advance ELSE Raise
  /\ Quietly /\ UNCHANGED <<caller, queued, inbox, outbox, threads, gotAtPc>>

(* Mutant: what the thread has met is not looked at. *)
CheckNothing ==
  /\ Doing("check") /\ Advance
  /\ Quietly /\ UNCHANGED <<caller, queued, inbox, outbox, threads, gotAtPc>>

Check ==
  /\ Doing("check")
  /\ IF failed \/ received # "Whole" THEN Raise ELSE Advance
  /\ Quietly /\ UNCHANGED <<caller, queued, inbox, outbox, threads, gotAtPc>>

Join ==
  /\ Doing("join") /\ Advance
  /\ Quietly /\ UNCHANGED <<caller, queued, inbox, outbox, threads, gotAtPc>>

ConnectToServer ==
  /\ Doing("connect") /\ running /\ wifi /\ Advance
  /\ caller' = TRUE /\ UNCHANGED queued
  /\ inbox' = Emptied(inbox, "Server") /\ outbox' = Emptied(outbox, "Server")
  /\ Quietly /\ UNCHANGED <<threads, gotAtPc>>

(* What is sent may not arrive.                                            *)
SendFrom(step, c) ==
  /\ Doing(step) /\ Advance
  /\ inbox' \in {inbox, [inbox EXCEPT ![c] = "Whole"]}
  /\ Quietly /\ UNCHANGED <<caller, queued, outbox, threads, gotAtPc>>

ReceiveAt(step, c) ==
  /\ Doing(step)
  /\ \E amount \in Amounts :
       /\ Reads(outbox, c, amount)
       /\ IF amount = "Whole" THEN Advance ELSE Raise
       /\ gotAtPc' = (gotAtPc \/ amount = "Whole")
  /\ outbox' = Emptied(outbox, c)
  /\ Quietly /\ UNCHANGED <<caller, queued, inbox, threads>>

(* The inner finally runs the closing request all the same.                *)
CloseSocket ==
  /\ Doing("close") /\ (Onward(raised) \/ Onward(TRUE)) /\ UNCHANGED cutShort
  /\ Quietly /\ UNCHANGED <<caller, queued, inbox, outbox, threads, gotAtPc>>

Bind ==
  /\ Doing("bind") /\ Advance
  /\ outbox' = Emptied(outbox, "Udp")
  /\ Quietly /\ UNCHANGED <<caller, queued, inbox, threads, gotAtPc>>

PcSteps ==
  \/ PcRaises \/ Listen \/ Finished \/ Check \/ Join
  \/ ConnectToServer \/ SendFrom("sendall", "Server") \/ ReceiveAt("recv", "Server")
  \/ CloseSocket
  \/ Bind \/ ReceiveAt("recvfrom", "Udp") \/ SendFrom("sendto", "Udp")

-----------------------------------------------------------------------------
(* server_worker(), the thread of the TCP client test. *)

Worker(from, to) == worker = from /\ worker' = to

WorkerAccepts ==
  /\ Worker("Accepting", "Receiving") /\ queued
  /\ queued' = FALSE
  /\ UNCHANGED <<failed, received, inbox, outbox, gotAtPc>>

(* recv() returns nothing when the other end has closed.                   *)
WorkerReceives ==
  /\ Worker("Receiving", "Sending")
  /\ \/ Reads(outbox, "Tcp", received')
     \/ ~Connected("Tcp") /\ received' = "Nothing"
  /\ gotAtPc' = (gotAtPc \/ received' = "Whole")
  /\ outbox' = Emptied(outbox, "Tcp")
  /\ UNCHANGED <<failed, queued, inbox>>

WorkerReplies ==
  /\ Worker("Sending", "Replied")
  /\ inbox' = IF Connected("Tcp") THEN [inbox EXCEPT !["Tcp"] = "Whole"] ELSE inbox
  /\ UNCHANGED <<queued, failed, received, outbox, gotAtPc>>

(* finished.set(), a little later than the reply. *)
WorkerEnds ==
  /\ Worker("Replied", "Finished")
  /\ UNCHANGED <<queued, failed, received, inbox, outbox, gotAtPc>>

WorkerFails ==
  /\ worker \notin {"None", "Finished"} /\ worker' = "Finished"
  /\ failed' = TRUE
  /\ UNCHANGED <<queued, received, inbox, outbox, gotAtPc>>

ServerWorker ==
  /\ WorkerAccepts \/ WorkerReceives \/ WorkerReplies \/ WorkerEnds \/ WorkerFails
  /\ Quietly /\ UNCHANGED <<caller, testConsole, cutShort>>

-----------------------------------------------------------------------------
(* The peers of the user's tests, the dongle's loop and the network. *)

StrangerConnects ==
  /\ Running /\ Test = "UserTcpServer" /\ running /\ wifi /\ ~caller
  /\ caller' = TRUE /\ UNCHANGED inbox

StrangerSends(c) ==
  /\ Running /\ Test \in UserTests
  /\ IF c = "Udp" THEN udpRunning ELSE Connected(c)
  /\ inbox' = [inbox EXCEPT ![c] = "Whole"] /\ UNCHANGED caller

Stranger ==
  /\ StrangerConnects \/ \E c \in Channels : StrangerSends(c)
  /\ Quietly /\ UNCHANGED <<queued, outbox, threads, testConsole, gotAtPc, cutShort>>

(* The host is told by TCP_DISCONNECTED, and by WIFI_DISCONNECTED of all.  *)
LoopUpdates ==
  /\ Update
  /\ believes' = IF wifi THEN believes \ noticed' ELSE {}
  /\ UNCHANGED <<threads, testConsole, gotAtPc, gotAtDongle, cutShort>>

NetworkMoves == Environment /\ UNCHANGED testVars

Begin == RunNetworkSystemTests \/ \E test \in UserTests : RequireConnected(test)

Console == Requests \/ PcSteps \/ NextTest

TestsNext ==
  \/ Begin \/ Console \/ ServerWorker \/ Stranger
  \/ LoopUpdates \/ NetworkMoves

(* No step of a test waits for ever, and the loop of the dongle goes on.   *)
TestsSpec == TestsInit /\ [][TestsNext]_allVars
TestsFairSpec == TestsSpec /\ WF_allVars(Console) /\ WF_allVars(LoopUpdates)

-----------------------------------------------------------------------------
(* A system test that passes has carried a message in each direction over  *)
(* a connection of its own, whatever earlier tests left behind and         *)
(* whichever steps of the network, the thread and the loop came between.   *)
PassMeansBothWays ==
  (Running /\ verdict = "PASS" /\ Test \in SystemTests) => gotAtPc /\ gotAtDongle

(* What the dongle holds open for a test. *)
Holds(test) ==
  CASE test \in {"TcpClient", "UserTcpClient"} -> socket["Tcp"] # "None"
    [] test \in {"TcpServer", "UserTcpServer"} -> running \/ socket["Server"] # "None"
    [] test \in {"Udp", "UserUdp"} -> udpRunning

(* A test that got to its try, however it went on, leaves nothing open on  *)
(* the dongle, unless the request that closes raised itself.               *)
LeavesNothingOpen == (Running /\ verdict # "None" /\ ~cutShort) => ~Holds(Test)

(* The host does not go on believing in a connection that is gone: an      *)
(* update of the dongle's loop leaves none that it has not told of.        *)
HostHearsOfLoss ==
  [][LoopUpdates => \A l \in believes' : Connected(l)']_allVars

(* Every test comes to its end. *)
TestsEnd == Running ~> ~Running
=============================================================================
