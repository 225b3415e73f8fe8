----------------------------- MODULE EventQueue -----------------------------
(***************************************************************************)
(* The ring of event records between the services and the serial port.     *)
(* Every operation holds the lock from its first to its last access, so    *)
(* each is one action; the record's type and payload are one value.        *)
(***************************************************************************)
EXTENDS Integers, Sequences

CONSTANTS
  Records,    \* events that fit a record
  Blank,      \* a record never written
  Capacity,   \* CAPACITY
  DropValues  \* the values of the counter _dropped, 2^32

ASSUME CapacityAssumption == Capacity \in Nat \ {0}
ASSUME DropAssumption == DropValues \in Nat \ {0}
ASSUME BlankAssumption == Blank \notin Records

VARIABLES
  records,   \* _records
  head,      \* _head
  tail,      \* _tail
  count,     \* _count
  dropped,   \* _dropped
  answer     \* what the latest call returned: FALSE, TRUE or a record

ring == <<records, head, tail, count>>
vars == <<ring, dropped, answer>>

Slots == 0..(Capacity - 1)

TypeOK ==
  /\ records \in [Slots -> Records \cup {Blank}]
  /\ head \in Slots
  /\ tail \in Slots
  /\ count \in 0..Capacity
  /\ dropped \in 0..(DropValues - 1)
  /\ answer \in Records \cup BOOLEAN

Init ==
  /\ records = [slot \in Slots |-> Blank]
  /\ head = 0 /\ tail = 0 /\ count = 0
  /\ dropped = 0
  /\ answer = FALSE

Full == count >= Capacity

(* The slot after this one. *)
After(slot) == (slot + 1) % Capacity

AddDropped == dropped' = (dropped + 1) % DropValues

(* enqueue: a payload longer than a record, a full ring, and the rest. *)
EnqueueTooLong ==
  /\ AddDropped
  /\ answer' = FALSE
  /\ UNCHANGED ring

EnqueueFull ==
  /\ Full
  /\ AddDropped
  /\ answer' = FALSE
  /\ UNCHANGED ring

StoresAhead(record) ==
  /\ ~Full
  /\ tail' = After(tail)
  /\ records' = [records EXCEPT ![tail'] = record]
  /\ count' = count + 1
  /\ answer' = TRUE
  /\ UNCHANGED <<head, dropped>>

EnqueueStores(record) ==
  /\ ~Full
  /\ records' = [records EXCEPT ![tail] = record]
  /\ tail' = After(tail)
  /\ count' = count + 1
  /\ answer' = TRUE
  /\ UNCHANGED <<head, dropped>>

PopEmpty ==
  /\ count = 0
  /\ answer' = FALSE
  /\ UNCHANGED <<ring, dropped>>

PopRecord ==
  /\ count # 0
  /\ answer' = records[head]
  /\ head' = After(head)
  /\ count' = count - 1
  /\ UNCHANGED <<records, tail, dropped>>

Next ==
  \/ EnqueueTooLong \/ EnqueueFull
  \/ \E record \in Records : EnqueueStores(record)
  \/ PopEmpty \/ PopRecord

Spec == Init /\ [][Next]_vars

-----------------------------------------------------------------------------
(* The slot of the i-th oldest record. *)
SlotOf(i) == (head + i - 1) % Capacity

Contents == [i \in 1..count |-> records[SlotOf(i)]]

Fifo == INSTANCE BoundedFifo WITH Entries <- Records, items <- Contents

(* The ring behaves as a bounded queue: nothing stored is overwritten,     *)
(* lost, repeated or reordered, pop hands out the oldest record, and       *)
(* enqueue admits a record exactly when it says so.                        *)
ImplementsFifo == Fifo!Spec
=============================================================================
