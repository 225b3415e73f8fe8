---------------------------- MODULE BoundedFifo ----------------------------
(***************************************************************************)
(* What EventQueue promises: a first-in first-out queue that keeps what it *)
(* admitted, admits no more than its capacity, and says truly what it did. *)
(***************************************************************************)
EXTENDS Naturals, Sequences

CONSTANTS
  Entries,   \* what the queue holds
  Capacity   \* how many of them

VARIABLES
  items,    \* the entries, oldest first
  answer    \* what the latest call returned: FALSE, TRUE or an entry

Init == items = <<>> /\ answer = FALSE

Put == /\ Len(items) < Capacity
       /\ \E e \in Entries : items' = Append(items, e)
       /\ answer' = TRUE

Take == /\ items # <<>>
        /\ items' = Tail(items)
        /\ answer' = Head(items)

(* A full queue refuses, and so does one that is handed an oversize entry. *)
Refuse == UNCHANGED items /\ answer' = FALSE

Next == Put \/ Take \/ Refuse

Spec == Init /\ [][Next]_<<items, answer>>
=============================================================================
