-------------------------- MODULE EventQueueProofs --------------------------
(***************************************************************************)
(* Proofs about EventQueue, for every capacity, every set of records and   *)
(* every width of the drop counter.                                        *)
(***************************************************************************)
EXTENDS EventQueue, TLAPS

(***************************************************************************)
(* Arithmetic of the ring.                                                 *)
(***************************************************************************)

(* The wrap of an index; a name of its own, so that it is seen as one term. *)
Wrapped(x) == IF x < Capacity THEN x ELSE x - Capacity

(* Indices below twice the capacity need at most one subtraction.          *)
LEMMA ModOnce ==
  ASSUME NEW x \in Nat, x < 2 * Capacity
  PROVE  x % Capacity = Wrapped(x)
<1>1. CASE x < Capacity
  BY <1>1, CapacityAssumption DEF Wrapped
<1>2. CASE x >= Capacity
  BY <1>2, CapacityAssumption DEF Wrapped
<1> QED
  BY <1>1, <1>2, CapacityAssumption

LEMMA AfterInSlots ==
  ASSUME NEW slot \in Slots
  PROVE  /\ After(slot) = IF slot + 1 < Capacity THEN slot + 1 ELSE 0
         /\ After(slot) \in Slots
<1>1. slot \in Nat /\ slot + 1 \in Nat /\ slot < Capacity
  BY CapacityAssumption DEF Slots
<1> DEFINE x == slot + 1
<1>2. x \in Nat /\ x < 2 * Capacity
  BY <1>1, CapacityAssumption
<1>3. After(slot) = x % Capacity
  BY DEF After
<1> HIDE DEF x
<1>4. After(slot) = Wrapped(x)
  BY <1>2, <1>3, ModOnce
<1> USE DEF x
<1> QED
  BY <1>1, <1>4, CapacityAssumption DEF Slots, Wrapped

(* The numbers among the variables.                                        *)
Indexed == /\ head \in Slots /\ tail \in Slots
           /\ count \in 0..Capacity

LEMMA SlotForm ==
  ASSUME Indexed, NEW i \in 1..(Capacity + 1)
  PROVE  /\ SlotOf(i) = IF head + i - 1 < Capacity THEN head + i - 1
                        ELSE head + i - 1 - Capacity
         /\ SlotOf(i) \in Slots
<1> DEFINE x == head + i - 1
<1>1. /\ head \in Nat /\ head < Capacity /\ x \in Nat /\ x < 2 * Capacity
  BY CapacityAssumption DEF Indexed, Slots
<1>2. SlotOf(i) = x % Capacity
  BY DEF SlotOf
<1> HIDE DEF x
<1>3. SlotOf(i) = Wrapped(x)
  BY <1>1, <1>2, ModOnce
<1> USE DEF x
<1> QED
  BY <1>1, <1>3, CapacityAssumption DEF Slots, Wrapped

(* Up to a full ring, no two positions share a slot.                       *)
LEMMA SlotsDiffer ==
  ASSUME Indexed, NEW i \in 1..Capacity, NEW j \in 1..Capacity, i # j
  PROVE  SlotOf(i) # SlotOf(j)
<1>1. i \in 1..(Capacity + 1) /\ j \in 1..(Capacity + 1) /\ head \in Int
  BY CapacityAssumption DEF Indexed, Slots
<1> QED
  BY <1>1, SlotForm, CapacityAssumption

(* When the oldest record is taken, every other one moves up by one.       *)
LEMMA SlotAfterPop ==
  ASSUME Indexed, Indexed', NEW i \in 1..Capacity, head' = After(head)
  PROVE  SlotOf(i)' = SlotOf(i + 1)
<1>1. /\ head \in Nat /\ head < Capacity
      /\ head' = IF head + 1 < Capacity THEN head + 1 ELSE 0
      /\ i \in 1..(Capacity + 1) /\ i + 1 \in 1..(Capacity + 1)
  BY AfterInSlots, CapacityAssumption DEF Indexed, Slots
<1>2. SlotOf(i + 1) = IF head + i < Capacity THEN head + i ELSE head + i - Capacity
  BY <1>1, SlotForm
<1> DEFINE x == head' + i - 1
<1>3. SlotOf(i)' = x % Capacity
  BY DEF SlotOf
<1>4. x \in Nat /\ x < 2 * Capacity
  BY <1>1, CapacityAssumption
<1> HIDE DEF x
<1>5. SlotOf(i)' = Wrapped(x)
  BY <1>3, <1>4, ModOnce
<1> USE DEF x
<1> QED
  BY <1>1, <1>2, <1>5, CapacityAssumption DEF Wrapped

(***************************************************************************)
(* The invariant.                                                          *)
(***************************************************************************)

(* The three indices agree: the tail is where the next record goes, one    *)
(* slot past the youngest, through every wrap of head and tail.            *)
IndicesAgree == tail = (head + count) % Capacity

(* What is stored was written: no slot between head and tail is blank.     *)
NothingBlankStored == \A i \in 1..count : records[SlotOf(i)] \in Records

(* Neither part of it is inductive without the others: what pop hands out  *)
(* has a record's type only if nothing blank is stored, and nothing blank  *)
(* is stored only if the tail is the slot after the youngest record.       *)
Ring == TypeOK /\ IndicesAgree /\ NothingBlankStored

LEMMA RingIndexed == ASSUME Ring PROVE Indexed
  BY DEF Ring, TypeOK, Indexed

(* The tail is the slot of the next record to come.                        *)
LEMMA TailSlot == ASSUME Ring PROVE tail = SlotOf(count + 1)
<1>1. head \in Int /\ count \in Int
  BY RingIndexed DEF Indexed, Slots
<1>2. head + (count + 1) - 1 = head + count
  BY <1>1
<1> QED
  BY <1>2 DEF Ring, IndicesAgree, SlotOf

(* Storing a record disturbs none of those stored before it.               *)
LEMMA StoreKeeps ==
  ASSUME Ring, NEW record \in Records, EnqueueStores(record)
  PROVE  /\ count \in Nat /\ count < Capacity /\ count' = count + 1
         /\ \A i \in 1..(count + 1) : SlotOf(i)' = SlotOf(i)
         /\ \A i \in 1..count : records'[SlotOf(i)] = records[SlotOf(i)]
         /\ records'[SlotOf(count + 1)] = record
<1>1. /\ count \in Nat /\ count < Capacity /\ count' = count + 1 /\ head' = head
      /\ records' = [records EXCEPT ![tail] = record]
  BY RingIndexed, CapacityAssumption DEF EnqueueStores, Full, Indexed
<1>2. \A i \in 1..(count + 1) : SlotOf(i)' = SlotOf(i)
  BY <1>1 DEF SlotOf
<1>3. records \in [Slots -> Records \cup {Blank}] /\ tail \in Slots
  BY DEF Ring, TypeOK
<1>4. records'[SlotOf(count + 1)] = record
  BY <1>1, <1>3, TailSlot
<1>5. ASSUME NEW i \in 1..count
      PROVE  records'[SlotOf(i)] = records[SlotOf(i)]
  <2>1. /\ i \in 1..Capacity /\ count + 1 \in 1..Capacity /\ i # count + 1
        /\ i \in 1..(Capacity + 1)
    BY <1>1, CapacityAssumption
  <2>2. SlotOf(i) # tail /\ SlotOf(i) \in Slots
    BY <2>1, SlotsDiffer, SlotForm, TailSlot, RingIndexed
  <2> QED
    BY <1>1, <1>3, <2>2
<1> QED
  BY <1>1, <1>2, <1>4, <1>5

(* Taking a record hands out the oldest and leaves the others in order.    *)
LEMMA PopKeeps ==
  ASSUME Ring, PopRecord
  PROVE  /\ count \in Nat /\ count # 0 /\ count <= Capacity /\ count' = count - 1
         /\ answer' = records[SlotOf(1)]
         /\ \A i \in 1..(count - 1) : SlotOf(i)' = SlotOf(i + 1)
         /\ Indexed'
<1>1. /\ count \in Nat /\ count # 0 /\ count <= Capacity /\ count' = count - 1
      /\ head \in Slots /\ head' = After(head) /\ tail' = tail /\ tail \in Slots
      /\ answer' = records[head] /\ records' = records
  BY RingIndexed, CapacityAssumption DEF PopRecord, Indexed
<1>2. SlotOf(1) = head
  <2>1. 1 \in 1..(Capacity + 1) /\ head \in Nat /\ head < Capacity
    BY <1>1, CapacityAssumption DEF Slots
  <2> QED
    BY <2>1, RingIndexed, SlotForm, CapacityAssumption
<1>3. Indexed'
  BY <1>1, AfterInSlots, CapacityAssumption DEF Indexed
<1>4. ASSUME NEW i \in 1..(count - 1) PROVE SlotOf(i)' = SlotOf(i + 1)
  <2>1. i \in 1..Capacity
    BY <1>1, CapacityAssumption
  <2> QED
    BY <1>1, <1>3, <2>1, SlotAfterPop, RingIndexed
<1> QED
  BY <1>1, <1>2, <1>3, <1>4

LEMMA RingInit == Init => Ring
<1> SUFFICES ASSUME Init PROVE Ring
  OBVIOUS
<1>1. head = 0 /\ tail = 0 /\ count = 0 /\ dropped = 0 /\ answer = FALSE
  BY DEF Init
<1>2. 0 % Capacity = 0 /\ 0 \in Slots
  BY CapacityAssumption DEF Slots
<1>3. answer \in Records \cup BOOLEAN
  BY <1>1, Zenon
<1>4. TypeOK
  <2>1. records \in [Slots -> Records \cup {Blank}]
    BY DEF Init
  <2>2. count \in 0..Capacity /\ dropped \in 0..(DropValues - 1)
    BY <1>1, CapacityAssumption, DropAssumption
  <2> QED
    BY <1>1, <1>2, <1>3, <2>1, <2>2 DEF TypeOK
<1>5. IndicesAgree
  BY <1>1, <1>2 DEF IndicesAgree
<1>6. NothingBlankStored
  BY <1>1 DEF NothingBlankStored
<1> QED
  BY <1>4, <1>5, <1>6 DEF Ring

LEMMA RingStore ==
  ASSUME Ring, NEW record \in Records, EnqueueStores(record) PROVE Ring'
<1>1. /\ count' = count + 1 /\ head' = head /\ tail' = After(tail)
      /\ dropped' = dropped /\ answer' = TRUE /\ ~Full
      /\ records' = [records EXCEPT ![tail] = record]
  BY DEF EnqueueStores
<1>2. head \in Slots /\ tail \in Slots /\ count \in Nat /\ count < Capacity
  BY StoreKeeps, RingIndexed DEF Indexed
<1>3. TypeOK'
  <2>1. tail' \in Slots /\ head' \in Slots
    BY <1>1, <1>2, AfterInSlots
  <2>2. count' \in 0..Capacity
    BY <1>1, <1>2, CapacityAssumption
  <2>3. answer' \in Records \cup BOOLEAN
    BY <1>1, Zenon
  <2>4. records' \in [Slots -> Records \cup {Blank}]
    BY <1>1 DEF Ring, TypeOK
  <2>5. dropped' \in 0..(DropValues - 1)
    BY <1>1 DEF Ring, TypeOK
  <2> QED
    BY <2>1, <2>2, <2>3, <2>4, <2>5 DEF TypeOK
<1>4. IndicesAgree'
  <2>1. /\ head \in Nat /\ head < Capacity /\ tail \in Nat /\ tail < Capacity
    BY <1>2, CapacityAssumption DEF Slots
  <2> DEFINE x == head + count
             y == head' + count'
  <2>2. x \in Nat /\ x < 2 * Capacity /\ y \in Nat /\ y < 2 * Capacity
    BY <1>1, <1>2, <2>1, CapacityAssumption
  <2>3. tail = x % Capacity
    BY DEF Ring, IndicesAgree
  <2>4. tail' = IF tail + 1 < Capacity THEN tail + 1 ELSE 0
    BY <1>1, <1>2, AfterInSlots
  <2> HIDE DEF x, y
  <2>5. tail = Wrapped(x) /\ y % Capacity = Wrapped(y)
    BY <2>2, <2>3, ModOnce
  <2> USE DEF x, y
  <2>6. tail' = Wrapped(y)
    BY <1>1, <1>2, <2>1, <2>4, <2>5, CapacityAssumption DEF Wrapped
  <2> QED
    BY <2>5, <2>6 DEF IndicesAgree
<1>5. NothingBlankStored'
  <2>1. ASSUME NEW i \in 1..(count + 1) PROVE records'[SlotOf(i)] \in Records
    <3>1. CASE i = count + 1
      BY <3>1, StoreKeeps
    <3>2. CASE i # count + 1
      <4>1. i \in 1..count
        BY <3>2, <1>2
      <4> QED
        BY <4>1, StoreKeeps DEF Ring, NothingBlankStored
    <3> QED
      BY <3>1, <3>2
  <2>2. ASSUME NEW i \in 1..(count + 1) PROVE SlotOf(i)' = SlotOf(i)
    BY StoreKeeps
  <2> QED
    BY <1>1, <2>1, <2>2 DEF NothingBlankStored
<1> QED
  BY <1>3, <1>4, <1>5 DEF Ring

LEMMA RingPop == ASSUME Ring, PopRecord PROVE Ring'
<1>1. /\ count' = count - 1 /\ head' = After(head) /\ tail' = tail
      /\ dropped' = dropped /\ records' = records /\ answer' = records[SlotOf(1)]
      /\ count \in Nat /\ count # 0 /\ count <= Capacity
  BY PopKeeps DEF PopRecord
<1>2. head \in Slots /\ tail \in Slots
  BY RingIndexed DEF Indexed
<1>3. TypeOK'
  <2>1. /\ head' \in Slots /\ tail' \in Slots /\ count' \in 0..Capacity
    BY PopKeeps DEF Indexed
  <2>2. 1 \in 1..count
    BY <1>1
  <2>3. answer' \in Records \cup BOOLEAN
    BY <1>1, <2>2 DEF Ring, NothingBlankStored
  <2>4. /\ records' \in [Slots -> Records \cup {Blank}]
        /\ dropped' \in 0..(DropValues - 1)
    BY <1>1 DEF Ring, TypeOK
  <2> QED
    BY <2>1, <2>3, <2>4 DEF TypeOK
<1>4. IndicesAgree'
  <2>1. /\ head \in Nat /\ head < Capacity /\ tail \in Nat /\ tail < Capacity
    BY <1>2, CapacityAssumption DEF Slots
  <2>2. head' = IF head + 1 < Capacity THEN head + 1 ELSE 0
    BY <1>1, <1>2, AfterInSlots
  <2> DEFINE x == head + count
             y == head' + count'
  <2>3. x \in Nat /\ x < 2 * Capacity /\ y \in Nat /\ y < 2 * Capacity
    BY <1>1, <2>1, <2>2, CapacityAssumption
  <2>4. tail = x % Capacity
    BY DEF Ring, IndicesAgree
  <2> HIDE DEF x, y
  <2>5. tail = Wrapped(x) /\ y % Capacity = Wrapped(y)
    BY <2>3, <2>4, ModOnce
  <2> USE DEF x, y
  <2>6. tail' = Wrapped(y)
    BY <1>1, <2>1, <2>2, <2>5, CapacityAssumption DEF Wrapped
  <2> QED
    BY <2>5, <2>6 DEF IndicesAgree
<1>5. NothingBlankStored'
  <2>1. ASSUME NEW i \in 1..(count - 1) PROVE records[SlotOf(i)'] \in Records
    <3>1. SlotOf(i)' = SlotOf(i + 1) /\ i + 1 \in 1..count
      BY <1>1, PopKeeps
    <3> QED
      BY <3>1 DEF Ring, NothingBlankStored
  <2> QED
    BY <1>1, <2>1 DEF NothingBlankStored
<1> QED
  BY <1>3, <1>4, <1>5 DEF Ring

(* A call that is refused leaves the ring alone.                           *)
LEMMA RingRefuse ==
  ASSUME Ring, UNCHANGED ring, answer' = FALSE, dropped' \in 0..(DropValues - 1)
  PROVE  Ring'
<1>1. answer' \in Records \cup BOOLEAN
  BY Zenon
<1>2. records' = records /\ head' = head /\ tail' = tail /\ count' = count
  BY DEF ring
<1>3. TypeOK'
  BY <1>1, <1>2 DEF Ring, TypeOK
<1>4. IndicesAgree'
  BY <1>2 DEF Ring, IndicesAgree
<1>5. NothingBlankStored'
  BY <1>2 DEF Ring, NothingBlankStored, SlotOf
<1> QED
  BY <1>3, <1>4, <1>5 DEF Ring

LEMMA RingStep == Ring /\ [Next]_vars => Ring'
<1> SUFFICES ASSUME Ring, [Next]_vars PROVE Ring'
  OBVIOUS
<1>1. CASE EnqueueTooLong \/ EnqueueFull
  <2>1. dropped \in 0..(DropValues - 1) /\ dropped' = (dropped + 1) % DropValues
    BY <1>1 DEF Ring, TypeOK, EnqueueTooLong, EnqueueFull, AddDropped
  <2>2. dropped' \in 0..(DropValues - 1)
    BY <2>1, DropAssumption
  <2>3. UNCHANGED ring /\ answer' = FALSE
    BY <1>1 DEF EnqueueTooLong, EnqueueFull
  <2> QED
    BY <2>2, <2>3, RingRefuse
<1>2. ASSUME NEW record \in Records, EnqueueStores(record) PROVE Ring'
  BY <1>2, RingStore
<1>3. CASE PopEmpty
  <2>1. dropped' \in 0..(DropValues - 1)
    BY <1>3 DEF PopEmpty, Ring, TypeOK
  <2> QED
    BY <1>3, <2>1, RingRefuse DEF PopEmpty
<1>4. CASE PopRecord
  BY <1>4, RingPop
<1>5. CASE UNCHANGED vars
  BY <1>5 DEF vars, ring, Ring, TypeOK, IndicesAgree, NothingBlankStored, SlotOf
<1> QED
  BY <1>1, <1>2, <1>3, <1>4, <1>5 DEF Next

(* Whatever the capacity and the calls made, the ring's indices and        *)
(* records agree: EventQueue.h never reads a slot it has not written.      *)
THEOREM RingInvariant == Spec => []Ring
<1> QED
  BY RingInit, RingStep, PTL DEF Spec

(* The variables keep their types, which no part of Ring gives alone.      *)
THEOREM TypeCorrect == Spec => []TypeOK
<1>1. Ring => TypeOK
  BY DEF Ring
<1> QED
  BY <1>1, RingInvariant, PTL

(* Head, tail and count agree after any number of wraps.                   *)
THEOREM IndicesCorrect == Spec => []IndicesAgree
<1>1. Ring => IndicesAgree
  BY DEF Ring
<1> QED
  BY <1>1, RingInvariant, PTL

(* No slot between head and tail is blank.                                 *)
THEOREM StoredIsWritten == Spec => []NothingBlankStored
<1>1. Ring => NothingBlankStored
  BY DEF Ring
<1> QED
  BY <1>1, RingInvariant, PTL

(***************************************************************************)
(* The refinement of BoundedFifo.                                          *)
(***************************************************************************)

(* A ring of n records holds a queue of length n.                          *)
LEMMA ContentsLength ==
  ASSUME Ring
  PROVE  /\ Contents \in Seq(Records) /\ Len(Contents) = count
         /\ \A i \in 1..count : Contents[i] = records[SlotOf(i)]
<1>1. count \in Nat
  BY RingIndexed, CapacityAssumption DEF Indexed
<1>2. \A i \in 1..count : records[SlotOf(i)] \in Records
  BY DEF Ring, NothingBlankStored
<1>3. Contents = [i \in 1..count |-> records[SlotOf(i)]]
  BY DEF Contents
<1> QED
  BY <1>1, <1>2, <1>3

(* The same of the state after a step.                                     *)
LEMMA LengthAfter ==
  ASSUME Ring' PROVE Contents' \in Seq(Records) /\ Len(Contents') = count'
<1>1. count' \in Nat
  BY CapacityAssumption DEF Ring, TypeOK
<1>2. \A i \in 1..count' : records'[SlotOf(i)'] \in Records
  BY DEF Ring, NothingBlankStored
<1>3. Contents' = [i \in 1..count' |-> records'[SlotOf(i)']]
  BY DEF Contents
<1> QED
  BY <1>1, <1>2, <1>3

(* Storing puts the record last.                                           *)
LEMMA StoreAppends ==
  ASSUME Ring, Ring', NEW record \in Records, EnqueueStores(record)
  PROVE  Contents' = Append(Contents, record)
<1>1. /\ count \in Nat /\ count' = count + 1
      /\ Contents' \in Seq(Records) /\ Len(Contents') = count + 1
      /\ Contents \in Seq(Records) /\ Len(Contents) = count
  <2>1. Contents' \in Seq(Records) /\ Len(Contents') = count'
    BY LengthAfter
  <2> QED
    BY <2>1, ContentsLength, StoreKeeps
<1>2. \A i \in 1..(count + 1) : Contents'[i] = records'[SlotOf(i)]
  <2>1. \A i \in 1..(count + 1) : SlotOf(i)' = SlotOf(i)
    BY StoreKeeps
  <2>2. Contents' = [i \in 1..count' |-> records'[SlotOf(i)']]
    BY DEF Contents
  <2> QED
    BY <1>1, <2>1, <2>2
<1>3. ASSUME NEW i \in 1..(count + 1)
      PROVE  Contents'[i] = Append(Contents, record)[i]
  <2>1. CASE i = count + 1
    <3>1. Append(Contents, record)[i] = record
      BY <1>1, <2>1
    <3> QED
      BY <1>2, <2>1, <3>1, StoreKeeps
  <2>2. CASE i # count + 1
    <3>1. i \in 1..count
      BY <1>1, <2>2
    <3>2. Append(Contents, record)[i] = Contents[i]
      BY <1>1, <3>1
    <3> QED
      BY <1>2, <3>1, <3>2, StoreKeeps, ContentsLength
  <2> QED
    BY <2>1, <2>2
<1>4. /\ Append(Contents, record) \in Seq(Records)
      /\ Len(Append(Contents, record)) = count + 1
  BY <1>1
<1> HIDE DEF Contents
<1> QED
  BY <1>1, <1>3, <1>4

(* Taking hands out the first.                                             *)
LEMMA PopTakes ==
  ASSUME Ring, Ring', PopRecord
  PROVE  /\ Contents # <<>> /\ answer' = Head(Contents)
         /\ Contents' = Tail(Contents)
<1>1. /\ count \in Nat /\ count # 0 /\ count' = count - 1
      /\ answer' = records[SlotOf(1)]
  BY PopKeeps
<1>2. /\ Contents \in Seq(Records) /\ Len(Contents) = count
      /\ Contents' \in Seq(Records) /\ Len(Contents') = count - 1
  <2>1. Contents' \in Seq(Records) /\ Len(Contents') = count'
    BY LengthAfter
  <2> QED
    BY <1>1, <2>1, ContentsLength
<1>3. Contents # <<>>
  BY <1>1, <1>2
<1>4. Head(Contents) = records[SlotOf(1)]
  <2>1. 1 \in 1..count
    BY <1>1
  <2> QED
    BY <1>2, <2>1, ContentsLength
<1>5. ASSUME NEW i \in 1..(count - 1) PROVE Contents'[i] = Tail(Contents)[i]
  <2>1. i \in 1..count' /\ i + 1 \in 1..count
    BY <1>1
  <2>2. Contents' = [k \in 1..count' |-> records'[SlotOf(k)']]
    BY DEF Contents
  <2>3. Contents'[i] = records[SlotOf(i + 1)]
    BY <2>1, <2>2, PopKeeps DEF PopRecord
  <2>4. Tail(Contents)[i] = Contents[i + 1]
    BY <1>1, <1>2, <2>1
  <2> QED
    BY <2>1, <2>3, <2>4, ContentsLength
<1>6. Tail(Contents) \in Seq(Records) /\ Len(Tail(Contents)) = count - 1
  BY <1>1, <1>2, <1>3
<1>7. Contents' = Tail(Contents)
  BY <1>1, <1>2, <1>5, <1>6
<1> QED
  BY <1>1, <1>3, <1>4, <1>7

LEMMA RefuseKeeps ==
  ASSUME UNCHANGED ring PROVE UNCHANGED Contents
  BY DEF ring, Contents, SlotOf

LEMMA FifoInit == Init => Fifo!Init
<1>1. Init => Contents = <<>>
  BY DEF Init, Contents
<1> QED
  BY <1>1 DEF Init, Fifo!Init

LEMMA FifoStep ==
  ASSUME Ring, Ring', [Next]_vars PROVE [Fifo!Next]_<<Contents, answer>>
<1>1. CASE EnqueueTooLong \/ EnqueueFull \/ PopEmpty
  BY <1>1, RefuseKeeps
     DEF EnqueueTooLong, EnqueueFull, PopEmpty, Fifo!Next, Fifo!Refuse
<1>2. ASSUME NEW record \in Records, EnqueueStores(record)
      PROVE  Fifo!Put
  <2>1. Len(Contents) < Capacity /\ answer' = TRUE
    BY <1>2, StoreKeeps, ContentsLength DEF EnqueueStores
  <2> QED
    BY <1>2, <2>1, StoreAppends DEF Fifo!Put
<1>3. CASE PopRecord
  BY <1>3, PopTakes DEF Fifo!Next, Fifo!Take
<1>4. CASE UNCHANGED vars
  BY <1>4, RefuseKeeps DEF vars
<1> QED
  BY <1>1, <1>2, <1>3, <1>4 DEF Next, Fifo!Next

(* The ring of EventQueue.h is a bounded first-in first-out queue: no      *)
(* enqueue or pop, in any order and past any number of wraps, loses,       *)
(* repeats, reorders or overwrites a stored record.                        *)
THEOREM RingImplementsFifo == Spec => ImplementsFifo
<1>1. Init => Fifo!Init
  BY FifoInit
<1>2. Ring /\ Ring' /\ [Next]_vars => [Fifo!Next]_<<Contents, answer>>
  BY FifoStep
<1> HIDE DEF Ring, Contents
<1> QED
  BY <1>1, <1>2, RingInvariant, PTL DEF Spec, ImplementsFifo, Fifo!Spec
=============================================================================
