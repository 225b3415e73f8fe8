-------------------------- MODULE HostTransactions --------------------------
(***************************************************************************)
(* Requests and responses of the host client, Esp32Device: the thread in   *)
(* request(), the reader thread, the audio sender, which draws sequence    *)
(* numbers from the same counter without the lock of request(), and the    *)
(* line, which delays and loses frames.  One request is under way at a     *)
(* time (_request_lock).  Events take another way through the reader and   *)
(* are left out, and so are audio frames, which nothing answers.           *)
(***************************************************************************)
EXTENDS Naturals, Sequences, SequencesExt

CONSTANTS
  Commands,  \* commands requested
  Retries,   \* Retries[cmd], the argument retries of its requests
  Modulus,   \* values of a sequence number, 256
  MaxCalls   \* bound: requests made

ASSUME RetriesKnown == Retries \in [Commands -> Nat]
ASSUME BoundsAssumption == Modulus \in Nat \ {0} /\ MaxCalls \in Nat

VARIABLES
  sequence,      \* self.sequence
  senderReads,   \* what the sender has read in _next_sequence, or Nothing
  phase,         \* where the thread in request() is
  cmd, seq,      \* of its request
  reads,         \* what it has read in _next_sequence
  attempt,       \* attempt
  expired,       \* the deadline has passed
  open,          \* the port is open
  rxError,       \* _rx_error: the reader has stopped
  responses,     \* self.responses
  down, up,      \* frames on the line, to the dongle and from it
  \* History.
  calls,         \* requests so far, the present one included
  answered,      \* the call whose response the latest call took, or 0
  overdue        \* calls that ended, or sent again, without their own response

counter == <<sequence, senderReads>>
caller == <<phase, cmd, seq, reads, attempt, expired, calls, answered>>
line == <<down, up>>
vars == <<counter, caller, open, rxError, responses, line, overdue>>

Nothing == Modulus
Numbers == 0..(Modulus - 1)
Phases == {"Idle", "Value", "Operand", "Store", "Write", "Wait"}

(* A request, or the response to it: the dongle copies command and number. *)
Frames == [cmd : Commands, seq : Numbers, call : 1..MaxCalls]

TypeOK ==
  /\ sequence \in Numbers /\ senderReads \in Numbers \cup {Nothing}
  /\ phase \in Phases
  /\ cmd \in Commands /\ seq \in Numbers /\ reads \in Numbers
  /\ attempt \in 0..Retries[cmd]
  /\ expired \in BOOLEAN /\ open \in BOOLEAN /\ rxError \in BOOLEAN
  /\ responses \in Seq(Frames) /\ down \in Seq(Frames) /\ up \in Seq(Frames)
  /\ calls \in 0..MaxCalls /\ answered \in 0..MaxCalls
  /\ overdue \subseteq 1..MaxCalls

Init ==
  /\ sequence = 0 /\ senderReads = Nothing
  /\ phase = "Idle" /\ cmd \in Commands /\ seq = 0 /\ reads = 0
  /\ attempt = 0 /\ expired = FALSE
  /\ open = TRUE /\ rxError = FALSE
  /\ responses = <<>> /\ down = <<>> /\ up = <<>>
  /\ calls = 0 /\ answered = 0 /\ overdue = {}

-----------------------------------------------------------------------------
(* _next_sequence() in both threads: nothing holds the counter between the *)
(* read of the value, the read of the sum's operand and the store.         *)

Stored(operand) == (operand + 1) % Modulus

SenderReadsCounter ==
  /\ senderReads = Nothing
  /\ senderReads' = sequence
  /\ UNCHANGED <<sequence, caller, open, rxError, responses, line, overdue>>

SenderStoresCounter ==
  /\ senderReads # Nothing
  /\ sequence' = Stored(senderReads)
  /\ senderReads' = Nothing
  /\ UNCHANGED <<caller, open, rxError, responses, line, overdue>>

Begin(c) ==
  /\ phase = "Idle" /\ calls < MaxCalls
  /\ phase' = "Value" /\ cmd' = c /\ attempt' = 0
  /\ calls' = calls + 1 /\ answered' = 0
  /\ UNCHANGED <<seq, reads, expired>>
  /\ UNCHANGED <<counter, open, rxError, responses, line, overdue>>

ReadValue ==
  /\ phase = "Value" /\ phase' = "Operand"
  /\ seq' = sequence
  /\ UNCHANGED <<cmd, reads, attempt, expired, calls, answered>>
  /\ UNCHANGED <<counter, open, rxError, responses, line, overdue>>

ReadOperand ==
  /\ phase = "Operand" /\ phase' = "Store"
  /\ reads' = sequence
  /\ UNCHANGED <<cmd, seq, attempt, expired, calls, answered>>
  /\ UNCHANGED <<counter, open, rxError, responses, line, overdue>>

StoreSequence ==
  /\ phase = "Store" /\ phase' = "Write"
  /\ sequence' = Stored(reads)
  /\ UNCHANGED <<senderReads, cmd, seq, reads, attempt, expired, calls, answered>>
  /\ UNCHANGED <<open, rxError, responses, line, overdue>>

-----------------------------------------------------------------------------
(* request() from the first write() on *)

Request == [cmd |-> cmd, seq |-> seq, call |-> calls]

WriteRequest ==
  /\ phase = "Write" /\ open
  /\ down' = Append(down, Request)
  /\ expired' = FALSE
  /\ phase' = "Wait"
  /\ UNCHANGED <<cmd, seq, reads, attempt, calls, answered>>
  /\ UNCHANGED <<counter, open, rxError, responses, up, overdue>>

(* write() raises: the port is closed, or it fails with the frame sent or  *)
(* not.                                                                    *)
WriteRaises ==
  /\ phase = "Write"
  /\ down' \in {down} \cup (IF open THEN {Append(down, Request)} ELSE {})
  /\ phase' = "Idle"
  /\ overdue' = overdue \cup {calls}
  /\ UNCHANGED <<cmd, seq, reads, attempt, expired, calls, answered>>
  /\ UNCHANGED <<counter, open, rxError, responses, up>>

Matching(i) == responses[i].seq = seq /\ responses[i].cmd = cmd
First(i) == Matching(i) /\ \A j \in 1..(i - 1) : ~Matching(j)

(* Mutant: the response is returned and stays in the deque.                *)
TakeLeavesResponse ==
  /\ phase = "Wait"
  /\ \E i \in DOMAIN responses : First(i) /\ answered' = responses[i].call
  /\ overdue' = overdue \cup ({calls} \ {answered'})
  /\ phase' = "Idle"
  /\ UNCHANGED <<cmd, seq, reads, attempt, expired, calls>>
  /\ UNCHANGED <<counter, open, rxError, responses, line>>

(* The earliest match is deleted and returned, or raised as an error.      *)
TakeResponse ==
  /\ phase = "Wait"
  /\ \E i \in DOMAIN responses :
       /\ First(i)
       /\ answered' = responses[i].call
       /\ responses' = RemoveAt(responses, i)
  /\ overdue' = overdue \cup ({calls} \ {answered'})
  /\ phase' = "Idle"
  /\ UNCHANGED <<cmd, seq, reads, attempt, expired, calls>>
  /\ UNCHANGED <<counter, open, rxError, line>>

RaiseReaderStopped ==
  /\ phase = "Wait" /\ rxError
  /\ \A i \in DOMAIN responses : ~Matching(i)
  /\ phase' = "Idle"
  /\ overdue' = overdue \cup {calls}
  /\ UNCHANGED <<cmd, seq, reads, attempt, expired, calls, answered>>
  /\ UNCHANGED <<counter, open, rxError, responses, line>>

DeadlinePasses ==
  /\ phase = "Wait" /\ ~expired
  /\ expired' = TRUE
  /\ UNCHANGED <<phase, cmd, seq, reads, attempt, calls, answered>>
  /\ UNCHANGED <<counter, open, rxError, responses, line, overdue>>

(* The loop's condition fails: whatever came since it was last tested stays*)
(* in the deque.                                                           *)
AttemptFails ==
  /\ phase = "Wait" /\ expired
  /\ overdue' = overdue \cup {calls}
  /\ UNCHANGED <<cmd, seq, reads, expired, calls, answered>>
  /\ UNCHANGED <<counter, open, rxError, responses, line>>

Retry ==
  /\ AttemptFails
  /\ attempt < Retries[cmd]
  /\ attempt' = attempt + 1 /\ phase' = "Write"

(* Mutant: the loop over the attempts never sees its last one.             *)
RaiseTimeoutLater ==
  /\ AttemptFails
  /\ attempt > Retries[cmd]
  /\ phase' = "Idle" /\ UNCHANGED attempt

RaiseTimeout ==
  /\ AttemptFails
  /\ attempt = Retries[cmd]
  /\ phase' = "Idle" /\ UNCHANGED attempt

-----------------------------------------------------------------------------
(* _rx_loop(), connect(), disconnect() *)

Receive ==
  /\ open /\ ~rxError /\ up # <<>>
  /\ responses' = Append(responses, Head(up)) /\ up' = Tail(up)
  /\ UNCHANGED <<counter, caller, open, rxError, down, overdue>>

ReaderFails ==
  /\ open /\ ~rxError
  /\ rxError' = TRUE
  /\ UNCHANGED <<counter, caller, open, responses, line, overdue>>

(* The reader, which reads for at most 50 ms, has ended when join returns. *)
Disconnect ==
  /\ open
  /\ open' = FALSE
  /\ UNCHANGED <<counter, caller, rxError, responses, line, overdue>>

(* The input buffer is reset and drained, the sequence number goes on.     *)
Connect ==
  /\ ~open
  /\ open' = TRUE /\ rxError' = FALSE
  /\ responses' = <<>> /\ up' = <<>>
  /\ UNCHANGED <<counter, caller, down, overdue>>

-----------------------------------------------------------------------------
(* The dongle answers each request it receives once and in turn; a frame   *)
(* that is damaged on its way is dropped by the parser at its end.         *)
DongleAnswers ==
  /\ down # <<>>
  /\ up' = Append(up, Head(down)) /\ down' = Tail(down)
  /\ UNCHANGED <<counter, caller, open, rxError, responses, overdue>>

LoseRequest ==
  /\ down # <<>> /\ down' = Tail(down)
  /\ UNCHANGED <<counter, caller, open, rxError, responses, up, overdue>>

LoseResponse ==
  /\ up # <<>> /\ up' = Tail(up)
  /\ UNCHANGED <<counter, caller, open, rxError, responses, down, overdue>>

-----------------------------------------------------------------------------
RequestGoesOn ==
  \/ ReadValue \/ ReadOperand \/ StoreSequence
  \/ WriteRequest \/ WriteRaises
  \/ TakeResponse \/ RaiseReaderStopped \/ Retry \/ RaiseTimeout

Next ==
  \/ \E c \in Commands : Begin(c)
  \/ RequestGoesOn \/ DeadlinePasses
  \/ SenderReadsCounter \/ SenderStoresCounter
  \/ Receive \/ ReaderFails \/ Disconnect \/ Connect
  \/ DongleAnswers \/ LoseRequest \/ LoseResponse

Spec == Init /\ [][Next]_vars

(* The thread in request() runs, and time passes.                          *)
FairSpec == Spec /\ WF_vars(RequestGoesOn) /\ WF_vars(DeadlinePasses)

-----------------------------------------------------------------------------
(* A call is handed its own response, or one that came too late for the    *)
(* call it was meant for.  Numbers come round, and the sender may set the  *)
(* counter back, so that a number alone identifies nothing; what does is   *)
(* that no call ends, unless its time is up, with a response of its own    *)
(* still on the way.                                                       *)
OwnUnlessOverdue == answered \in {0, calls} \cup overdue

(* Every call ends, with a response, an error or a timeout, whatever the   *)
(* line, the reader and the port do.                                       *)
CallEnds == (phase # "Idle") ~> (phase = "Idle")
=============================================================================
