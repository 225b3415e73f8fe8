--------------------------- MODULE NetworkService ---------------------------
(***************************************************************************)
(* The dongle's TCP client, TCP server and UDP socket, as the commands of  *)
(* the host and the loop of the application drive them, and the network    *)
(* around them.  Commands that wait (connect, accept, receive) hold the    *)
(* loop, so that update() never runs inside one: each command is one       *)
(* action, taken when it ends.  The host treats every status but success   *)
(* alike, and all content but "the whole message" alike.                   *)
(***************************************************************************)
EXTENDS Naturals

(* The two TCP sockets, _tcp and _serverClient, and the datagrams.         *)
Links == {"Tcp", "Server"}
Channels == Links \cup {"Udp"}

VARIABLES
  wifi,        \* WiFi.status() == WL_CONNECTED
  socket,      \* of each link: none, connected, or connected no longer
  was,         \* _tcpWasConnected, _serverWasConnected
  running,     \* _serverRunning: the server listens
  udpRunning,  \* _udpRunning
  caller,      \* a connection waits to be accepted by the server
  queued,      \* the client's connection waits to be accepted by its peer
  inbox,       \* what has arrived for the dongle on each channel
  outbox,      \* what the dongle has sent and the other end has not read
  reply,       \* of the latest step, if it is a command
  noticed      \* links whose TcpDisconnected the latest step published

network == <<wifi, socket, was, running, udpRunning, caller, queued, inbox, outbox>>
netVars == <<network, reply, noticed>>

Amounts == {"Nothing", "Part", "Whole"}

NetTypeOK ==
  /\ wifi \in BOOLEAN /\ running \in BOOLEAN /\ udpRunning \in BOOLEAN
  /\ socket \in [Links -> {"None", "Up", "Broken"}]
  /\ was \in [Links -> BOOLEAN]
  /\ caller \in BOOLEAN /\ queued \in BOOLEAN
  /\ inbox \in [Channels -> Amounts] /\ outbox \in [Channels -> Amounts]
  /\ reply \in {"None", "Success", "Partial", "Error"}
  /\ noticed \subseteq Links

NetInit ==
  /\ wifi \in BOOLEAN
  /\ socket = [l \in Links |-> "None"] /\ was = [l \in Links |-> FALSE]
  /\ running = FALSE /\ udpRunning = FALSE
  /\ caller = FALSE /\ queued = FALSE
  /\ inbox = [c \in Channels |-> "Nothing"]
  /\ outbox = [c \in Channels |-> "Nothing"]
  /\ reply = "None" /\ noticed = {}

Connected(l) == socket[l] = "Up"

-----------------------------------------------------------------------------
(* Commands *)

Fails == reply' = "Error" /\ noticed' = {} /\ UNCHANGED network

(* requireWifi() *)
NeedsWifi == ~wifi /\ Fails

(* What was under way on a link goes with its sockets.                     *)
Emptied(boxes, l) == [boxes EXCEPT ![l] = "Nothing"]

(* stop() before connect(): the old connection goes even if no new one     *)
(* comes, and then its flag stays.                                         *)
TcpConnect(reachable) ==
  \/ NeedsWifi
  \/ /\ wifi /\ noticed' = {}
     /\ inbox' = Emptied(inbox, "Tcp") /\ outbox' = Emptied(outbox, "Tcp")
     /\ \/ /\ reachable
           /\ socket' = [socket EXCEPT !["Tcp"] = "Up"]
           /\ queued' = TRUE
           /\ was' = [was EXCEPT !["Tcp"] = TRUE]
           /\ reply' = "Success"
        \/ /\ socket' = [socket EXCEPT !["Tcp"] = "None"]
           /\ queued' = FALSE
           /\ UNCHANGED was
           /\ reply' = "Error"
     /\ UNCHANGED <<wifi, running, udpRunning, caller>>

(* write() may take less than it is given.                                 *)
Send(l) ==
  \/ NeedsWifi
  \/ ~Connected(l) /\ Fails
  \/ /\ wifi /\ Connected(l)
     /\ \/ reply' = "Success" /\ outbox' = [outbox EXCEPT ![l] = "Whole"]
        \/ reply' = "Partial" /\ outbox' = [outbox EXCEPT ![l] = "Part"]
     /\ noticed' = {}
     /\ UNCHANGED <<wifi, socket, was, running, udpRunning, caller, queued, inbox>>

(* waitForData() and read(): what a read returns may be the first part of  *)
(* a message only.                                                         *)
Reads(boxes, c, amount) ==
  boxes[c] # "Nothing" /\ amount \in {"Part", boxes[c]}

Receive(l) ==
  \/ NeedsWifi
  \/ Fails   \* not connected, out of time, or read() fails
  \/ /\ wifi /\ Connected(l)
     /\ \E amount \in Amounts :
          /\ Reads(inbox, l, amount)
          /\ reply' = IF amount = "Whole" THEN "Success" ELSE "Partial"
     /\ inbox' = Emptied(inbox, l) /\ noticed' = {}
     /\ UNCHANGED <<wifi, socket, was, running, udpRunning, caller, queued, outbox>>

TcpSend == Send("Tcp")
TcpReceive == Receive("Tcp")
TcpServerSend == Send("Server")
TcpServerReceive == Receive("Server")

Stopped(l) ==
  /\ socket' = [socket EXCEPT ![l] = "None"]
  /\ was' = [was EXCEPT ![l] = FALSE]
  /\ inbox' = Emptied(inbox, l)

TcpClose ==
  /\ Stopped("Tcp")
  /\ reply' = "Success" /\ noticed' = {}
  /\ UNCHANGED <<wifi, running, udpRunning, caller, queued, outbox>>

TcpServerStart ==
  \/ NeedsWifi
  \/ /\ wifi /\ Stopped("Server")
     /\ running' = TRUE /\ caller' = FALSE
     /\ reply' = "Success" /\ noticed' = {}
     /\ UNCHANGED <<wifi, udpRunning, queued, outbox>>

(* Mutant: the accepted connection is not watched.                         *)
TcpServerAcceptUnwatched ==
  \/ NeedsWifi
  \/ Fails
  \/ /\ wifi /\ running /\ caller
     /\ socket' = [socket EXCEPT !["Server"] = "Up"]
     /\ caller' = FALSE
     /\ reply' = "Success" /\ noticed' = {}
     /\ UNCHANGED <<wifi, was, running, udpRunning, queued, inbox, outbox>>

(* A connection that is accepted replaces the one before.                  *)
TcpServerAccept ==
  \/ NeedsWifi
  \/ Fails   \* not running, or out of time
  \/ /\ wifi /\ running /\ caller
     /\ socket' = [socket EXCEPT !["Server"] = "Up"]
     /\ was' = [was EXCEPT !["Server"] = TRUE]
     /\ caller' = FALSE
     /\ reply' = "Success" /\ noticed' = {}
     /\ UNCHANGED <<wifi, running, udpRunning, queued, inbox, outbox>>

TcpServerClose ==
  /\ Stopped("Server")
  /\ running' = FALSE /\ caller' = FALSE
  /\ reply' = "Success" /\ noticed' = {}
  /\ UNCHANGED <<wifi, udpRunning, queued, outbox>>

UdpOpen ==
  \/ NeedsWifi
  \/ /\ wifi
     /\ inbox' = Emptied(inbox, "Udp") /\ noticed' = {}
     /\ \/ udpRunning' = TRUE /\ reply' = "Success"
        \/ reply' = "Error" /\ UNCHANGED udpRunning
     /\ UNCHANGED <<wifi, socket, was, running, caller, queued, outbox>>

(* A datagram leaves whole or not at all, and may get lost.                *)
UdpSend ==
  \/ NeedsWifi
  \/ Fails
  \/ /\ wifi /\ udpRunning
     /\ outbox' \in {outbox, [outbox EXCEPT !["Udp"] = "Whole"]}
     /\ reply' = "Success" /\ noticed' = {}
     /\ UNCHANGED <<wifi, socket, was, running, udpRunning, caller, queued, inbox>>

UdpReceive ==
  \/ NeedsWifi
  \/ Fails
  \/ /\ wifi /\ udpRunning /\ inbox["Udp"] # "Nothing"
     /\ inbox' = Emptied(inbox, "Udp")
     /\ reply' = "Success" /\ noticed' = {}
     /\ UNCHANGED <<wifi, socket, was, running, udpRunning, caller, queued, outbox>>

UdpClose ==
  /\ udpRunning' = FALSE /\ inbox' = Emptied(inbox, "Udp")
  /\ reply' = "Success" /\ noticed' = {}
  /\ UNCHANGED <<wifi, socket, was, running, caller, queued, outbox>>

-----------------------------------------------------------------------------
(* update(): lost connections are reported once; without Wi-Fi everything  *)
(* is stopped, what is still connected without a report.                   *)

Lost == {l \in Links : was[l] /\ ~Connected(l)}

(* stopAll() *)
StopAll ==
  /\ socket' = [l \in Links |-> "None"] /\ was' = [l \in Links |-> FALSE]
  /\ running' = FALSE /\ caller' = FALSE
  /\ udpRunning' = FALSE /\ inbox' = [c \in Channels |-> "Nothing"]

Update ==
  /\ noticed' = Lost /\ reply' = "None"
  /\ IF wifi
     THEN /\ socket' = [l \in Links |-> IF l \in Lost THEN "None" ELSE socket[l]]
          /\ was' = [l \in Links |-> was[l] /\ l \notin Lost]
          /\ UNCHANGED <<running, udpRunning, caller, inbox>>
     ELSE StopAll
  /\ UNCHANGED <<wifi, queued, outbox>>

-----------------------------------------------------------------------------
(* The network *)

WifiChanges ==
  /\ wifi' = ~wifi
  /\ UNCHANGED <<socket, was, running, udpRunning, caller, queued, inbox, outbox>>

(* connected() turns false: after the other end has closed, or the way to  *)
(* it is gone, with what has not been read.                                *)
Breaks(l) ==
  /\ Connected(l)
  /\ socket' = [socket EXCEPT ![l] = "Broken"]
  /\ inbox' = Emptied(inbox, l)
  /\ UNCHANGED <<wifi, was, running, udpRunning, caller, queued, outbox>>

Environment ==
  /\ WifiChanges \/ \E l \in Links : Breaks(l)
  /\ noticed' = {} /\ reply' = "None"
=============================================================================
