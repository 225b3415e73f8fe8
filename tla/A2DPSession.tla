----------------------------- MODULE A2DPSession -----------------------------
(***************************************************************************)
(* What A2DPManager promises of the Bluetooth source it owns: one session  *)
(* at a time, each started from the queue of one request, each stopped     *)
(* before the next may be queued, and every start paid for by an accepted  *)
(* connect - which buys one start, or two when it may fall back from the   *)
(* cached address to the name.                                             *)
(***************************************************************************)
EXTENDS Integers

VARIABLES
  phase,   \* "Idle", "Queued", "Running" or "Stopping"
  budget   \* starts the last accepted connect may still use

Init == phase = "Idle" /\ budget = 0

Accept == /\ phase = "Idle"
          /\ phase' = "Queued" /\ budget' \in {1, 2}

Cancel == phase = "Queued" /\ phase' = "Idle" /\ UNCHANGED budget

Start == /\ phase = "Queued" /\ budget > 0
         /\ phase' = "Running" /\ budget' = budget - 1

(* A shutdown also runs when the session is already over: the manager      *)
(* answers a late callback with a second, empty shutdown.                  *)
Stop == phase \in {"Running", "Idle"} /\ phase' = "Stopping" /\ UNCHANGED budget

Finish == phase = "Stopping" /\ phase' = "Idle" /\ UNCHANGED budget

FallBack == /\ phase = "Stopping" /\ budget > 0
            /\ phase' = "Queued" /\ UNCHANGED budget

Next == Accept \/ Cancel \/ Start \/ Stop \/ Finish \/ FallBack

Spec == Init /\ [][Next]_<<phase, budget>>

(* A queued request and a shutdown do not stay. *)
Fairness == /\ WF_<<phase, budget>>(Start)
            /\ WF_<<phase, budget>>(Finish \/ FallBack)

FairSpec == Spec /\ Fairness
=============================================================================
