----------------------- MODULE HostTransactionsProofs -----------------------
(***************************************************************************)
(* Proofs about HostTransactions, for any commands and retries, any size   *)
(* of sequence number and any number of requests, and about FrameLine, the *)
(* line it assumes, for any contents, checksums and maximal payload and    *)
(* any number of faults.                                                   *)
(***************************************************************************)
EXTENDS HostTransactions, FrameLine, SequenceTheorems, TLAPS

-----------------------------------------------------------------------------
(* Sequences of which another has lost elements. *)

(* t is s without some elements: place[j] is where t[j] was in s.          *)
Thins(place, s, t) ==
  /\ place \in [1..Len(t) -> 1..Len(s)]
  /\ \A j \in 1..Len(t) : t[j] = s[place[j]]
  /\ \A j, k \in 1..Len(t) : place[j] = place[k] => j = k

LEMMA TailThins ==
  ASSUME NEW S, NEW s \in Seq(S), s # <<>>
  PROVE  Thins([j \in 1..Len(Tail(s)) |-> j + 1], s, Tail(s))
<1>1. Len(Tail(s)) = Len(s) - 1 /\ \A i \in 1..Len(Tail(s)) : Tail(s)[i] = s[i + 1]
  BY HeadTailProperties
<1>2. Len(s) \in Nat \ {0}
  BY EmptySeq
<1> DEFINE n == Len(Tail(s))
           place == [j \in 1..n |-> j + 1]
<1>3. n = Len(s) - 1 /\ n \in Nat
  BY <1>1, <1>2
<1> HIDE DEF n
<1>4. place \in [1..n -> 1..Len(s)] /\ \A j, k \in 1..n : place[j] = place[k] => j = k
  BY <1>2, <1>3
<1>5. \A j \in 1..n : Tail(s)[j] = s[place[j]]
  BY <1>1 DEF n
<1> QED
  BY <1>4, <1>5 DEF Thins, n

LEMMA RemoveAtThins ==
  ASSUME NEW S, NEW s \in Seq(S), NEW i \in 1..Len(s)
  PROVE  /\ RemoveAt(s, i) \in Seq(S)
         /\ Thins([j \in 1..Len(RemoveAt(s, i)) |-> IF j < i THEN j ELSE j + 1], s, RemoveAt(s, i))
<1> DEFINE a == SubSeq(s, 1, i - 1)
           b == SubSeq(s, i + 1, Len(s))
           t == RemoveAt(s, i)
<1>1. Len(s) \in Nat \ {0} /\ \A j \in 1..Len(s) : s[j] \in S
  BY LenProperties, ElementOfSeq
<1>2. a \in Seq(S) /\ Len(a) = i - 1 /\ \A j \in 1..(i - 1) : a[j] = s[j]
  <2>1. \A j \in 1..(i - 1) : s[j] \in S
    BY <1>1
  <2>2. /\ a \in Seq(S)
        /\ Len(a) = IF 1 <= i - 1 THEN i - 1 - 1 + 1 ELSE 0
        /\ \A j \in 1..(i - 1 - 1 + 1) : a[j] = s[1 + j - 1]
    BY <2>1, SubSeqProperties
  <2> QED
    BY <2>2
<1>3. b \in Seq(S) /\ Len(b) = Len(s) - i /\ \A j \in 1..(Len(s) - i) : b[j] = s[i + j]
  <2>1. \A j \in (i + 1)..Len(s) : s[j] \in S
    BY <1>1
  <2>2. /\ b \in Seq(S)
        /\ Len(b) = IF i + 1 <= Len(s) THEN Len(s) - (i + 1) + 1 ELSE 0
        /\ \A j \in 1..(Len(s) - (i + 1) + 1) : b[j] = s[i + 1 + j - 1]
    BY <1>1, <2>1, SubSeqProperties
  <2> QED
    BY <1>1, <2>2
<1>4. t = a \o b
  BY DEF RemoveAt
<1> HIDE DEF a, b, t
<1>5. /\ t \in Seq(S) /\ Len(t) = Len(s) - 1
      /\ \A j \in 1..Len(t) : t[j] = IF j < i THEN s[j] ELSE s[j + 1]
  <2>1. /\ t \in Seq(S) /\ Len(t) = Len(a) + Len(b)
        /\ \A j \in 1..(Len(a) + Len(b)) : t[j] = IF j <= Len(a) THEN a[j] ELSE b[j - Len(a)]
    BY <1>2, <1>3, <1>4, ConcatProperties
  <2>2. Len(t) = Len(s) - 1
    BY <1>1, <1>2, <1>3, <2>1
  <2>3. ASSUME NEW j \in 1..Len(t) PROVE t[j] = IF j < i THEN s[j] ELSE s[j + 1]
    <3>1. j \in 1..(Len(s) - 1) /\ j \in 1..(Len(a) + Len(b)) /\ Len(a) = i - 1
      BY <1>1, <1>2, <1>3, <2>2
    <3>2. CASE j < i
      <4>1. j <= Len(a) /\ j \in 1..(i - 1)
        BY <1>1, <3>1, <3>2
      <4> QED
        BY <1>2, <2>1, <3>1, <3>2, <4>1
    <3>3. CASE ~(j < i)
      <4>1. ~(j <= Len(a)) /\ j - Len(a) \in 1..(Len(s) - i) /\ i + (j - Len(a)) = j + 1
        BY <1>1, <3>1, <3>3
      <4> QED
        BY <1>3, <2>1, <3>1, <3>3, <4>1
    <3> QED
      BY <3>2, <3>3
  <2> QED
    BY <2>1, <2>2, <2>3
<1> DEFINE n == Len(t)
           place == [j \in 1..n |-> IF j < i THEN j ELSE j + 1]
<1>6. n = Len(s) - 1
  BY <1>5
<1> HIDE DEF n
<1>7. /\ place \in [1..n -> 1..Len(s)]
      /\ \A j, k \in 1..n : place[j] = place[k] => j = k
  BY <1>1, <1>6
<1>8. \A j \in 1..n : t[j] = s[place[j]]
  BY <1>1, <1>5 DEF n
<1>9. Thins(place, s, t)
  BY <1>7, <1>8 DEF Thins, n
<1> QED
  BY <1>5, <1>9 DEF n, t

LEMMA SelfThins ==
  ASSUME NEW s PROVE Thins([j \in 1..Len(s) |-> j], s, s)
BY DEF Thins

LEMMA NothingThins ==
  ASSUME NEW S, NEW s \in Seq(S) PROVE Thins([j \in 1..Len(<<>>) |-> j], s, <<>>)
BY EmptySeq DEF Thins

(* Where what is left of s and of t was in s and t together.               *)
Joined(p, q, s, s1, t1) ==
  [j \in 1..(Len(s1) + Len(t1)) |-> IF j <= Len(s1) THEN p[j] ELSE Len(s) + q[j - Len(s1)]]

LEMMA ConcatThins ==
  ASSUME NEW S, NEW s \in Seq(S), NEW t \in Seq(S), NEW s1 \in Seq(S), NEW t1 \in Seq(S),
         NEW p, NEW q, Thins(p, s, s1), Thins(q, t, t1)
  PROVE  Thins(Joined(p, q, s, s1, t1), s \o t, s1 \o t1)
<1> DEFINE r == Joined(p, q, s, s1, t1)
           n == Len(s)
           m == Len(t)
           n1 == Len(s1)
           m1 == Len(t1)
<1>1. n \in Nat /\ m \in Nat /\ n1 \in Nat /\ m1 \in Nat
  BY LenProperties
<1>2. /\ Len(s \o t) = n + m
      /\ \A j \in 1..(n + m) : (s \o t)[j] = IF j <= n THEN s[j] ELSE t[j - n]
  BY ConcatProperties
<1>3. /\ Len(s1 \o t1) = n1 + m1
      /\ \A j \in 1..(n1 + m1) : (s1 \o t1)[j] = IF j <= n1 THEN s1[j] ELSE t1[j - n1]
  BY ConcatProperties
<1>4. /\ \A j \in 1..n1 : p[j] \in 1..n /\ s1[j] = s[p[j]]
      /\ \A j, k \in 1..n1 : p[j] = p[k] => j = k
      /\ \A j \in 1..m1 : q[j] \in 1..m /\ t1[j] = t[q[j]]
      /\ \A j, k \in 1..m1 : q[j] = q[k] => j = k
  BY DEF Thins
<1>5. r = [j \in 1..(n1 + m1) |-> IF j <= n1 THEN p[j] ELSE n + q[j - n1]]
  BY DEF Joined
<1> HIDE DEF r, n, m, n1, m1
<1>6. ASSUME NEW j \in 1..(n1 + m1)
      PROVE  r[j] \in 1..(n + m) /\ (s1 \o t1)[j] = (s \o t)[r[j]]
  <2>1. CASE j <= n1
    <3>1. j \in 1..n1
      BY <1>1, <2>1
    <3>2. r[j] = p[j] /\ p[j] \in 1..n
      BY <1>4, <1>5, <2>1, <3>1
    <3> QED
      BY <1>1, <1>2, <1>3, <1>4, <2>1, <3>1, <3>2
  <2>2. CASE ~(j <= n1)
    <3>1. j - n1 \in 1..m1
      BY <1>1, <2>2
    <3>2. r[j] = n + q[j - n1] /\ q[j - n1] \in 1..m
      BY <1>4, <1>5, <2>2, <3>1
    <3>3. r[j] \in 1..(n + m) /\ ~(r[j] <= n) /\ r[j] - n = q[j - n1]
      BY <1>1, <3>2
    <3>4. (s1 \o t1)[j] = t1[j - n1] /\ t1[j - n1] = t[q[j - n1]]
      BY <1>3, <1>4, <2>2, <3>1
    <3>5. (s \o t)[r[j]] = t[r[j] - n]
      BY <1>2, <3>3
    <3> QED
      BY <3>3, <3>4, <3>5
  <2> QED
    BY <2>1, <2>2
<1>7. ASSUME NEW j \in 1..(n1 + m1), NEW k \in 1..(n1 + m1), r[j] = r[k]
      PROVE  j = k
  <2>1. \A i \in 1..(n1 + m1) : i <= n1 => (i \in 1..n1 /\ r[i] = p[i] /\ r[i] \in 1..n)
    BY <1>1, <1>4, <1>5
  <2>2. \A i \in 1..(n1 + m1) :
          ~(i <= n1) => (i - n1 \in 1..m1 /\ r[i] = n + q[i - n1] /\ q[i - n1] \in 1..m)
    BY <1>1, <1>4, <1>5
  <2>3. CASE j <= n1 /\ k <= n1
    BY <1>4, <1>7, <2>1, <2>3
  <2>4. CASE ~(j <= n1) /\ ~(k <= n1)
    <3>1. q[j - n1] = q[k - n1]
      BY <1>1, <1>7, <2>2, <2>4
    <3>2. j - n1 = k - n1
      BY <1>4, <2>2, <2>4, <3>1
    <3> QED
      BY <1>1, <3>2
  <2>5. CASE j <= n1 /\ ~(k <= n1)
    <3>1. r[j] \in 1..n
      BY <2>1, <2>5
    <3>2. q[k - n1] \in 1..m /\ r[k] = n + q[k - n1]
      BY <2>2, <2>5
    <3> QED
      BY <1>1, <1>7, <3>1, <3>2
  <2>6. CASE ~(j <= n1) /\ k <= n1
    <3>1. r[k] \in 1..n
      BY <2>1, <2>6
    <3>2. q[j - n1] \in 1..m /\ r[j] = n + q[j - n1]
      BY <2>2, <2>6
    <3> QED
      BY <1>1, <1>7, <3>1, <3>2
  <2> QED
    BY <2>3, <2>4, <2>5, <2>6
<1>8. r \in [1..(n1 + m1) -> 1..(n + m)]
  BY <1>5, <1>6
<1> QED
  BY <1>2, <1>3, <1>6, <1>7, <1>8 DEF Thins, r

(* The first of one sequence that goes to the end of the one before it     *)
(* stays in its place in both together.                                    *)
LEMMA HeadMoves ==
  ASSUME NEW S, NEW s \in Seq(S), NEW t \in Seq(S), t # <<>>
  PROVE  /\ Append(s, Head(t)) \in Seq(S) /\ Tail(t) \in Seq(S)
         /\ Append(s, Head(t)) \o Tail(t) = s \o t
<1>1. Len(s) \in Nat /\ Len(t) \in Nat \ {0}
  BY EmptySeq, LenProperties
<1>2. /\ Head(t) \in S /\ Head(t) = t[1] /\ Tail(t) \in Seq(S) /\ Len(Tail(t)) = Len(t) - 1
      /\ \A i \in 1..Len(Tail(t)) : Tail(t)[i] = t[i + 1]
  BY HeadTailProperties
<1> DEFINE a == Append(s, Head(t))
           b == Tail(t)
<1>3. /\ a \in Seq(S) /\ Len(a) = Len(s) + 1
      /\ \A i \in 1..Len(s) : a[i] = s[i]
      /\ a[Len(s) + 1] = t[1]
  BY <1>2, AppendProperties
<1>4. /\ a \o b \in Seq(S) /\ Len(a \o b) = Len(a) + Len(b)
      /\ \A i \in 1..(Len(a) + Len(b)) : (a \o b)[i] = IF i <= Len(a) THEN a[i] ELSE b[i - Len(a)]
  BY <1>2, <1>3, ConcatProperties
<1>5. /\ s \o t \in Seq(S) /\ Len(s \o t) = Len(s) + Len(t)
      /\ \A i \in 1..(Len(s) + Len(t)) : (s \o t)[i] = IF i <= Len(s) THEN s[i] ELSE t[i - Len(s)]
  BY ConcatProperties
<1> HIDE DEF a, b
<1>6. Len(b) = Len(t) - 1 /\ \A i \in 1..Len(b) : b[i] = t[i + 1]
  BY <1>2 DEF b
<1>7. Len(a \o b) = Len(s \o t)
  BY <1>1, <1>3, <1>4, <1>5, <1>6
<1>8. ASSUME NEW i \in 1..Len(a \o b) PROVE (a \o b)[i] = (s \o t)[i]
  <2>1. i \in 1..(Len(s) + Len(t))
    BY <1>5, <1>7
  <2>2. CASE i <= Len(s)
    BY <1>1, <1>3, <1>4, <1>5, <1>6, <2>1, <2>2
  <2>3. CASE i = Len(s) + 1
    BY <1>1, <1>3, <1>4, <1>5, <1>6, <2>1, <2>3
  <2>4. CASE i > Len(s) + 1
    <3>1. i - Len(a) \in 1..Len(b) /\ ~(i <= Len(a)) /\ ~(i <= Len(s))
      BY <1>1, <1>3, <1>6, <2>1, <2>4
    <3>2. (a \o b)[i] = t[i - Len(a) + 1]
      BY <1>1, <1>3, <1>4, <1>6, <2>1, <3>1
    <3>3. i - Len(a) + 1 = i - Len(s)
      BY <1>1, <1>3, <2>1
    <3> QED
      BY <1>5, <2>1, <3>1, <3>2, <3>3
  <2> QED
    BY <1>1, <2>1, <2>2, <2>3, <2>4
<1>9. a \o b = s \o t
  BY <1>4, <1>5, <1>7, <1>8, SeqEqual
<1> QED
  BY <1>2, <1>3, <1>9 DEF a, b
-----------------------------------------------------------------------------
(* Everything of a request that is still under way or kept, oldest first.  *)
InFlight == (responses \o up) \o down

Owner(i) == InFlight[i].call

(* What is in flight belongs to the call that waits or to an overdue one.  *)
Accounted ==
  \A i \in 1..Len(InFlight) : Owner(i) \in overdue \/ (phase = "Wait" /\ Owner(i) = calls)

(* Of a call that waits and is not overdue one frame is in flight at most. *)
OneOwn ==
  (phase = "Wait" /\ calls \notin overdue)
    => \A i, j \in 1..Len(InFlight) : (Owner(i) = calls /\ Owner(j) = calls) => i = j

CallCounted == phase # "Idle" => calls \in 1..MaxCalls

IInv == TypeOK /\ CallCounted /\ Accounted /\ OneOwn /\ OwnUnlessOverdue

LEMMA FramesRegroup ==
  \A s, t, u \in Seq(Frames) : (s \o t) \o u = s \o (t \o u)
BY ConcatAssociative

LEMMA FlightTypes ==
  ASSUME responses \in Seq(Frames), up \in Seq(Frames), down \in Seq(Frames)
  PROVE  responses \o up \in Seq(Frames) /\ InFlight \in Seq(Frames)
<1>1. responses \o up \in Seq(Frames)
  BY ConcatProperties
<1> QED
  BY <1>1, ConcatProperties DEF InFlight

(* A step that only loses frames, and leaves the call waiting or overdue.  *)
LEMMA FewerInFlight ==
  ASSUME NEW place, Thins(place, InFlight, InFlight'),
         Accounted, OneOwn, overdue \subseteq overdue', UNCHANGED calls,
         phase = "Wait" => (phase' = "Wait" \/ calls \in overdue'),
         phase' = "Wait" => phase = "Wait"
  PROVE  Accounted' /\ OneOwn'
<1>1. \A j \in 1..Len(InFlight') :
        place[j] \in 1..Len(InFlight) /\ InFlight'[j].call = Owner(place[j])
  BY DEF Thins, Owner
<1>2. \A j, k \in 1..Len(InFlight') : place[j] = place[k] => j = k
  BY DEF Thins
<1> HIDE DEF InFlight
<1>3. Accounted'
  BY <1>1 DEF Accounted, Owner
<1>4. OneOwn'
  BY <1>1, <1>2 DEF OneOwn, Owner
<1> QED
  BY <1>3, <1>4

LEMMA SameInFlight ==
  ASSUME InFlight' = InFlight,
         Accounted, OneOwn, overdue \subseteq overdue', UNCHANGED calls,
         phase = "Wait" => (phase' = "Wait" \/ calls \in overdue'),
         phase' = "Wait" => phase = "Wait"
  PROVE  Accounted' /\ OneOwn'
<1>1. Thins([j \in 1..Len(InFlight) |-> j], InFlight, InFlight')
  BY SelfThins
<1> QED
  BY <1>1, FewerInFlight

LEMMA RequestFrame ==
  ASSUME TypeOK, CallCounted, phase # "Idle"
  PROVE  Request \in Frames
BY DEF TypeOK, CallCounted, Request, Frames

(* A request joins what is in flight at its end. *)
LEMMA RequestJoins ==
  ASSUME TypeOK, CallCounted, phase # "Idle",
         down' = Append(down, Request), UNCHANGED <<responses, up>>
  PROVE  /\ down' \in Seq(Frames)
         /\ Len(InFlight') = Len(InFlight) + 1 /\ Len(InFlight) \in Nat
         /\ \A i \in 1..Len(InFlight) : InFlight'[i] = InFlight[i]
         /\ InFlight'[Len(InFlight) + 1] = Request
<1> DEFINE a == responses \o up
<1>1. a \in Seq(Frames) /\ down \in Seq(Frames) /\ Request \in Frames /\ InFlight \in Seq(Frames)
  BY FlightTypes, RequestFrame DEF TypeOK
<1>2. InFlight = a \o down /\ InFlight' = a \o Append(down, Request)
  BY DEF InFlight
<1> HIDE DEF a, InFlight, Request
<1>3. /\ Append(down, Request) \in Seq(Frames) /\ Len(Append(down, Request)) = Len(down) + 1
      /\ \A i \in 1..Len(down) : Append(down, Request)[i] = down[i]
      /\ Append(down, Request)[Len(down) + 1] = Request
  BY <1>1, AppendProperties
<1>4. /\ Len(InFlight) = Len(a) + Len(down)
      /\ \A i \in 1..(Len(a) + Len(down)) :
           InFlight[i] = IF i <= Len(a) THEN a[i] ELSE down[i - Len(a)]
  BY <1>1, <1>2, ConcatProperties
<1>5. /\ Len(InFlight') = Len(a) + (Len(down) + 1)
      /\ \A i \in 1..(Len(a) + (Len(down) + 1)) :
           InFlight'[i] = IF i <= Len(a) THEN a[i] ELSE Append(down, Request)[i - Len(a)]
  <2> DEFINE d == Append(down, Request)
  <2>1. InFlight' = a \o d /\ d \in Seq(Frames) /\ Len(d) = Len(down) + 1
    BY <1>2, <1>3
  <2> HIDE DEF d
  <2>2. /\ Len(InFlight') = Len(a) + Len(d)
        /\ \A i \in 1..(Len(a) + Len(d)) : InFlight'[i] = IF i <= Len(a) THEN a[i] ELSE d[i - Len(a)]
    BY <1>1, <2>1, ConcatProperties
  <2> QED
    BY <2>1, <2>2 DEF d
<1>6. Len(a) \in Nat /\ Len(down) \in Nat /\ Len(InFlight) \in Nat
  BY <1>1, LenProperties
<1>7. ASSUME NEW i \in 1..Len(InFlight) PROVE InFlight'[i] = InFlight[i]
  <2>1. i \in 1..(Len(a) + Len(down)) /\ i \in 1..(Len(a) + (Len(down) + 1))
    BY <1>4, <1>6
  <2>2. CASE i <= Len(a)
    BY <1>4, <1>5, <2>1, <2>2
  <2>3. CASE ~(i <= Len(a))
    <3>1. i - Len(a) \in 1..Len(down)
      BY <1>6, <2>1, <2>3
    <3> QED
      BY <1>3, <1>4, <1>5, <2>1, <2>3, <3>1
  <2> QED
    BY <2>2, <2>3
<1>8. InFlight'[Len(InFlight) + 1] = Request
  <2> DEFINE k == Len(InFlight) + 1
  <2>1. k \in 1..(Len(a) + (Len(down) + 1)) /\ ~(k <= Len(a)) /\ k - Len(a) = Len(down) + 1
    BY <1>4, <1>6
  <2> HIDE DEF k
  <2>2. InFlight'[k] = Append(down, Request)[k - Len(a)]
    BY <1>5, <2>1
  <2> QED
    BY <1>3, <2>1, <2>2 DEF k
<1> QED
  BY <1>1, <1>3, <1>4, <1>5, <1>6, <1>7, <1>8
-----------------------------------------------------------------------------
(* Types. *)

LEMMA StoredTypes ==
  ASSUME NEW n \in Numbers PROVE Stored(n) \in Numbers
<1>1. Modulus \in Nat \ {0} /\ n + 1 \in Nat
  BY BoundsAssumption DEF Numbers
<1>2. (n + 1) % Modulus \in 0..(Modulus - 1)
  BY <1>1
<1> QED
  BY <1>2 DEF Stored, Numbers

Typed == TypeOK /\ CallCounted

LEMMA CounterTypes ==
  ASSUME Typed,
         \/ SenderReadsCounter \/ SenderStoresCounter
         \/ ReadValue \/ ReadOperand \/ StoreSequence
  PROVE  Typed'
<1> USE DEF Typed, TypeOK, CallCounted, caller, line, counter, Phases
<1>1. CASE SenderReadsCounter
  BY <1>1 DEF SenderReadsCounter
<1>2. CASE SenderStoresCounter
  <2>1. senderReads \in Numbers
    BY <1>2 DEF SenderStoresCounter
  <2>2. sequence' \in Numbers
    BY <1>2, <2>1, StoredTypes DEF SenderStoresCounter
  <2> QED
    BY <1>2, <2>2 DEF SenderStoresCounter
<1>3. CASE ReadValue
  BY <1>3 DEF ReadValue
<1>4. CASE ReadOperand
  BY <1>4 DEF ReadOperand
<1>5. CASE StoreSequence
  <2>1. sequence' \in Numbers
    BY <1>5, StoredTypes DEF StoreSequence
  <2> QED
    BY <1>5, <2>1 DEF StoreSequence
<1> QED
  BY <1>1, <1>2, <1>3, <1>4, <1>5

LEMMA BeginTypes ==
  ASSUME Typed, NEW c \in Commands, Begin(c) PROVE Typed'
<1>1. Retries[c] \in Nat
  BY RetriesKnown
<1>2. calls' \in 1..MaxCalls
  BY BoundsAssumption DEF Begin, Typed, TypeOK
<1>3. cmd' \in Commands /\ attempt' \in 0..Retries[cmd']
  BY <1>1 DEF Begin
<1>4. answered' \in 0..MaxCalls /\ calls' \in 0..MaxCalls
  BY <1>2, BoundsAssumption DEF Begin
<1>5. TypeOK'
  BY <1>3, <1>4 DEF Begin, Typed, TypeOK, counter, line, Phases
<1> QED
  BY <1>2, <1>5 DEF Typed, CallCounted

LEMMA CallTypes ==
  ASSUME Typed,
         \/ WriteRequest \/ WriteRaises \/ RaiseReaderStopped \/ DeadlinePasses
         \/ Retry \/ RaiseTimeout
  PROVE  Typed'
<1> USE DEF Typed, counter, Phases
<1>1. CASE WriteRequest
  <2>1. down' \in Seq(Frames)
    BY <1>1, RequestJoins DEF WriteRequest
  <2> QED
    BY <1>1, <2>1 DEF WriteRequest, TypeOK, CallCounted
<1>2. CASE WriteRaises
  <2>1. down' = down \/ down' = Append(down, Request)
    BY <1>2 DEF WriteRaises
  <2>2. down' \in Seq(Frames)
    BY <1>2, <2>1, RequestJoins DEF WriteRaises, TypeOK
  <2> QED
    BY <1>2, <2>2 DEF WriteRaises, TypeOK, CallCounted
<1>3. CASE RaiseReaderStopped
  BY <1>3 DEF RaiseReaderStopped, TypeOK, CallCounted, line
<1>4. CASE DeadlinePasses
  <2>1. expired' \in BOOLEAN
    BY <1>4, Zenon DEF DeadlinePasses
  <2> QED
    BY <1>4, <2>1 DEF DeadlinePasses, TypeOK, CallCounted, line
<1>5. CASE Retry
  <2>1. attempt' \in 0..Retries[cmd]
    BY <1>5, RetriesKnown DEF Retry, TypeOK
  <2> QED
    BY <1>5, <2>1 DEF Retry, AttemptFails, TypeOK, CallCounted, line
<1>6. CASE RaiseTimeout
  BY <1>6 DEF RaiseTimeout, AttemptFails, TypeOK, CallCounted, line
<1> QED
  BY <1>1, <1>2, <1>3, <1>4, <1>5, <1>6

LEMMA TakeTypes ==
  ASSUME Typed, TakeResponse PROVE Typed'
<1>1. PICK i \in DOMAIN responses :
        answered' = responses[i].call /\ responses' = RemoveAt(responses, i)
  BY DEF TakeResponse
<1>2. responses \in Seq(Frames) /\ i \in 1..Len(responses)
  BY LenProperties DEF Typed, TypeOK
<1>3. responses' \in Seq(Frames)
  BY <1>1, <1>2, RemoveAtThins
<1>4. responses[i] \in Frames
  BY <1>2, ElementOfSeq
<1>5. answered' \in 0..MaxCalls
  BY <1>1, <1>4, BoundsAssumption DEF Frames
<1> QED
  BY <1>3, <1>5 DEF TakeResponse, Typed, TypeOK, CallCounted, counter, line, Phases

LEMMA LineTypes ==
  ASSUME Typed,
         \/ Receive \/ ReaderFails \/ Disconnect \/ Connect
         \/ DongleAnswers \/ LoseRequest \/ LoseResponse
  PROVE  Typed'
<1> USE DEF Typed, caller, counter
<1>0. <<>> \in Seq(Frames)
  BY EmptySeq
<1>1. CASE Receive
  <2>1. responses' \in Seq(Frames) /\ up' \in Seq(Frames)
    BY <1>1, HeadMoves DEF Receive, TypeOK
  <2> QED
    BY <1>1, <2>1 DEF Receive, TypeOK, CallCounted
<1>2. CASE ReaderFails
  <2>1. rxError' \in BOOLEAN
    BY <1>2, Zenon DEF ReaderFails
  <2> QED
    BY <1>2, <2>1 DEF ReaderFails, TypeOK, CallCounted, line
<1>3. CASE Disconnect
  <2>1. open' \in BOOLEAN
    BY <1>3, Zenon DEF Disconnect
  <2> QED
    BY <1>3, <2>1 DEF Disconnect, TypeOK, CallCounted, line
<1>4. CASE Connect
  <2>1. open' \in BOOLEAN /\ rxError' \in BOOLEAN
    BY <1>4, Zenon DEF Connect
  <2> QED
    BY <1>0, <1>4, <2>1 DEF Connect, TypeOK, CallCounted
<1>5. CASE DongleAnswers
  <2>1. up' \in Seq(Frames) /\ down' \in Seq(Frames)
    BY <1>5, HeadMoves DEF DongleAnswers, TypeOK
  <2> QED
    BY <1>5, <2>1 DEF DongleAnswers, TypeOK, CallCounted
<1>6. CASE LoseRequest
  <2>1. down' \in Seq(Frames)
    BY <1>6, HeadTailProperties DEF LoseRequest, TypeOK
  <2> QED
    BY <1>6, <2>1 DEF LoseRequest, TypeOK, CallCounted
<1>7. CASE LoseResponse
  <2>1. up' \in Seq(Frames)
    BY <1>7, HeadTailProperties DEF LoseResponse, TypeOK
  <2> QED
    BY <1>7, <2>1 DEF LoseResponse, TypeOK, CallCounted
<1> QED
  BY <1>1, <1>2, <1>3, <1>4, <1>5, <1>6, <1>7

-----------------------------------------------------------------------------
(* What the steps do to the frames in flight. *)

LEMMA LineAccounts ==
  ASSUME IInv,
         \/ Receive \/ ReaderFails \/ Disconnect \/ Connect
         \/ DongleAnswers \/ LoseRequest \/ LoseResponse
  PROVE  Accounted' /\ OneOwn'
<1> DEFINE a == responses \o up
<1>0. /\ UNCHANGED <<phase, calls, overdue>> /\ Accounted /\ OneOwn
      /\ responses \in Seq(Frames) /\ up \in Seq(Frames) /\ down \in Seq(Frames)
  BY DEF IInv, TypeOK, Receive, ReaderFails, Disconnect, Connect, DongleAnswers, LoseRequest,
     LoseResponse, caller
<1>1. ASSUME InFlight' = InFlight PROVE Accounted' /\ OneOwn'
  BY <1>0, <1>1, SameInFlight
<1>2. ASSUME NEW p, Thins(p, InFlight, InFlight') PROVE Accounted' /\ OneOwn'
  BY <1>0, <1>2, FewerInFlight
<1>3. CASE ReaderFails \/ Disconnect
  BY <1>1, <1>3 DEF ReaderFails, Disconnect, line, InFlight
<1>4. CASE Receive
  <2>1. responses' \o up' = responses \o up /\ down' = down
    BY <1>0, <1>4, HeadMoves DEF Receive
  <2> QED
    BY <1>1, <2>1 DEF InFlight
<1>5. CASE DongleAnswers
  <2>1. /\ up' \o down' = up \o down /\ responses' = responses
        /\ up' \in Seq(Frames) /\ down' \in Seq(Frames)
    BY <1>0, <1>5, HeadMoves DEF DongleAnswers
  <2>2. InFlight = responses \o (up \o down)
    BY <1>0, ConcatAssociative DEF InFlight
  <2>3. (responses \o up') \o down' = responses \o (up' \o down')
    BY <1>0, <2>1, FramesRegroup
  <2> QED
    BY <1>1, <2>1, <2>2, <2>3 DEF InFlight
<1>6. CASE LoseRequest
  <2>1. down # <<>> /\ down' = Tail(down) /\ a' = a /\ a \in Seq(Frames)
    BY <1>0, <1>6, FlightTypes DEF LoseRequest
  <2>2. Tail(down) \in Seq(Frames)
    BY <1>0, <2>1, HeadTailProperties
  <2>3. \E q : Thins(q, down, Tail(down))
    BY <1>0, <2>1, TailThins
  <2>4. \E p : Thins(p, a, a)
    BY SelfThins
  <2>5. \E r : Thins(r, a \o down, a \o Tail(down))
    BY <1>0, <2>1, <2>2, <2>3, <2>4, ConcatThins
  <2> QED
    BY <1>2, <2>1, <2>5 DEF InFlight
<1>7. CASE LoseResponse
  <2>1. up # <<>> /\ up' = Tail(up) /\ responses' = responses /\ down' = down
    BY <1>7 DEF LoseResponse
  <2>2. Tail(up) \in Seq(Frames)
    BY <1>0, <2>1, HeadTailProperties
  <2>3. responses \o up \in Seq(Frames) /\ responses \o Tail(up) \in Seq(Frames)
    BY <1>0, <2>2, ConcatProperties
  <2>4. \E q : Thins(q, up, Tail(up))
    BY <1>0, <2>1, TailThins
  <2>5. \E p : Thins(p, responses, responses)
    BY SelfThins
  <2>6. \E r : Thins(r, responses \o up, responses \o Tail(up))
    BY <1>0, <2>2, <2>4, <2>5, ConcatThins
  <2>7. \E p : Thins(p, down, down)
    BY SelfThins
  <2>8. \E r : Thins(r, (responses \o up) \o down, (responses \o Tail(up)) \o down)
    BY <1>0, <2>3, <2>6, <2>7, ConcatThins
  <2> QED
    BY <1>2, <2>1, <2>8 DEF InFlight
<1>8. CASE Connect
  <2>1. responses' = <<>> /\ up' = <<>> /\ down' = down
    BY <1>8 DEF Connect
  <2>2. <<>> \in Seq(Frames) /\ a \in Seq(Frames)
    BY <1>0, EmptySeq, FlightTypes
  <2>3. <<>> \o <<>> = <<>>
    BY <2>2, ConcatEmptySeq
  <2>4. \E p : Thins(p, a, <<>>)
    BY <2>2, NothingThins
  <2>5. \E p : Thins(p, down, down)
    BY SelfThins
  <2>6. \E r : Thins(r, a \o down, <<>> \o down)
    BY <1>0, <2>2, <2>4, <2>5, ConcatThins
  <2> QED
    BY <1>2, <2>1, <2>3, <2>6 DEF InFlight
<1> QED
  BY <1>3, <1>4, <1>5, <1>6, <1>7, <1>8

LEMMA BeginAccounts ==
  ASSUME IInv, NEW c \in Commands, Begin(c) PROVE Accounted' /\ OneOwn'
<1>1. /\ InFlight' = InFlight /\ UNCHANGED overdue /\ phase = "Idle" /\ phase' = "Value"
      /\ Accounted
  BY DEF IInv, Begin, line, InFlight
<1> QED
  BY <1>1 DEF Accounted, OneOwn, Owner

LEMMA CounterAccounts ==
  ASSUME IInv,
         \/ SenderReadsCounter \/ SenderStoresCounter
         \/ ReadValue \/ ReadOperand \/ StoreSequence
         \/ RaiseReaderStopped \/ DeadlinePasses \/ Retry \/ RaiseTimeout
  PROVE  Accounted' /\ OneOwn'
<1>1. /\ UNCHANGED calls /\ overdue \subseteq overdue'
      /\ phase = "Wait" => (phase' = "Wait" \/ calls \in overdue')
      /\ phase' = "Wait" => phase = "Wait"
  BY DEF SenderReadsCounter, SenderStoresCounter, ReadValue, ReadOperand, StoreSequence,
     RaiseReaderStopped, DeadlinePasses, Retry, RaiseTimeout, AttemptFails, caller
<1>2. InFlight' = InFlight
  BY DEF SenderReadsCounter, SenderStoresCounter, ReadValue, ReadOperand, StoreSequence,
     RaiseReaderStopped, DeadlinePasses, Retry, RaiseTimeout, AttemptFails, line, InFlight
<1> QED
  BY <1>1, <1>2, SameInFlight DEF IInv

LEMMA WriteAccounts ==
  ASSUME IInv, WriteRequest \/ WriteRaises PROVE Accounted' /\ OneOwn'
<1>1. /\ phase = "Write" /\ UNCHANGED <<calls, responses, up>> /\ overdue \subseteq overdue'
      /\ phase' = "Wait" \/ (phase' = "Idle" /\ calls \in overdue')
  BY DEF WriteRequest, WriteRaises
<1>2. TypeOK /\ CallCounted /\ Accounted /\ OneOwn
  BY DEF IInv
<1>3. CASE down' = down
  <2>1. WriteRaises
    <3>1. ASSUME WriteRequest PROVE FALSE
      <4>1. Request \in Frames /\ down \in Seq(Frames)
        BY <1>1, <1>2, RequestFrame DEF TypeOK
      <4>2. Len(Append(down, Request)) = Len(down) + 1 /\ Len(down) \in Nat
        BY <4>1, AppendProperties, LenProperties
      <4> QED
        BY <1>3, <3>1, <4>2 DEF WriteRequest
    <3> QED
      BY <3>1
  <2>2. InFlight' = InFlight /\ phase' = "Idle"
    BY <1>1, <1>3, <2>1 DEF InFlight, WriteRaises
  <2> QED
    BY <1>1, <1>2, <2>2, SameInFlight
<1>4. CASE down' = Append(down, Request)
  <2>1. /\ Len(InFlight') = Len(InFlight) + 1 /\ Len(InFlight) \in Nat
        /\ \A i \in 1..Len(InFlight) : InFlight'[i] = InFlight[i]
        /\ InFlight'[Len(InFlight) + 1].call = calls
    <3>1. /\ Len(InFlight') = Len(InFlight) + 1 /\ Len(InFlight) \in Nat
          /\ \A i \in 1..Len(InFlight) : InFlight'[i] = InFlight[i]
          /\ InFlight'[Len(InFlight) + 1] = Request
      BY <1>1, <1>2, <1>4, RequestJoins
    <3> QED
      BY <3>1 DEF Request
  <2> HIDE DEF InFlight
  <2>2. \A i \in 1..Len(InFlight) : Owner(i) \in overdue
    BY <1>1, <1>2 DEF Accounted
  <2>3. \A i \in 1..Len(InFlight') :
          (i \in 1..Len(InFlight) /\ InFlight'[i].call \in overdue) \/ (i = Len(InFlight) + 1 /\ InFlight'[i].call = calls)
    BY <2>1, <2>2 DEF Owner
  <2>4. Accounted'
    BY <1>1, <2>3 DEF Accounted, Owner
  <2>5. OneOwn'
    BY <1>1, <2>3 DEF OneOwn, Owner
  <2> QED
    BY <2>4, <2>5
<1> QED
  BY <1>3, <1>4 DEF WriteRequest, WriteRaises

LEMMA TakeAccounts ==
  ASSUME IInv, TakeResponse PROVE Accounted' /\ OneOwn' /\ OwnUnlessOverdue'
<1> DEFINE others == up \o down
<1>1. PICK i \in DOMAIN responses :
        answered' = responses[i].call /\ responses' = RemoveAt(responses, i)
  BY DEF TakeResponse
<1>2. /\ responses \in Seq(Frames) /\ up \in Seq(Frames) /\ down \in Seq(Frames)
      /\ Accounted /\ OneOwn /\ i \in 1..Len(responses) /\ Len(responses) \in Nat
  BY LenProperties DEF IInv, TypeOK
<1>3. /\ phase = "Wait" /\ phase' = "Idle" /\ UNCHANGED <<calls, up, down>>
      /\ overdue' = overdue \cup ({calls} \ {answered'})
  BY DEF TakeResponse, line
<1>4. responses' \in Seq(Frames) /\ others \in Seq(Frames)
  BY <1>1, <1>2, RemoveAtThins, ConcatProperties
<1>5. InFlight = responses \o others /\ InFlight' = responses' \o others
  <2>1. (responses \o up) \o down = responses \o (up \o down)
    BY <1>2, FramesRegroup
  <2>2. (responses' \o up) \o down = responses' \o (up \o down)
    BY <1>2, <1>4, FramesRegroup
  <2> QED
    BY <1>3, <2>1, <2>2 DEF InFlight
<1> HIDE DEF InFlight, others
<1>6. PICK p : p = [j \in 1..Len(responses') |-> IF j < i THEN j ELSE j + 1] /\ Thins(p, responses, responses')
  BY <1>1, <1>2, RemoveAtThins
<1>7. PICK q : Thins(q, others, others)
  BY SelfThins
<1> DEFINE r == Joined(p, q, responses, responses', others)
<1>8. Thins(r, InFlight, InFlight')
  BY <1>2, <1>4, <1>5, <1>6, <1>7, ConcatThins
<1>9. /\ Len(responses') \in Nat /\ Len(others) \in Nat
      /\ Len(InFlight') = Len(responses') + Len(others) /\ Len(InFlight) = Len(responses) + Len(others)
      /\ InFlight[i] = responses[i] /\ i \in 1..Len(InFlight)
  <2>1. /\ Len(InFlight') = Len(responses') + Len(others)
        /\ Len(InFlight) = Len(responses) + Len(others)
        /\ \A j \in 1..(Len(responses) + Len(others)) :
             InFlight[j] = IF j <= Len(responses) THEN responses[j] ELSE others[j - Len(responses)]
    BY <1>2, <1>4, <1>5, ConcatProperties
  <2>2. Len(responses') \in Nat /\ Len(others) \in Nat
    BY <1>4, LenProperties
  <2>3. i \in 1..(Len(responses) + Len(others)) /\ i <= Len(responses)
    BY <1>2, <2>2
  <2> QED
    BY <2>1, <2>2, <2>3
<1>10. ASSUME NEW j \in 1..Len(InFlight') PROVE r[j] # i
  <2>1. r[j] = IF j <= Len(responses') THEN p[j] ELSE Len(responses) + q[j - Len(responses')]
    BY <1>9 DEF Joined
  <2>2. CASE j <= Len(responses')
    <3>1. j \in 1..Len(responses')
      BY <1>9, <2>2
    <3>2. p[j] # i
      BY <1>2, <1>6, <3>1
    <3> QED
      BY <2>1, <2>2, <3>2
  <2>3. CASE ~(j <= Len(responses'))
    <3>1. j - Len(responses') \in 1..Len(others)
      BY <1>9, <2>3
    <3>2. q[j - Len(responses')] \in 1..Len(others)
      BY <1>7, <3>1 DEF Thins
    <3>3. r[j] = Len(responses) + q[j - Len(responses')]
      BY <2>1, <2>3
    <3> QED
      BY <1>2, <1>9, <3>2, <3>3
  <2> QED
    BY <2>2, <2>3
<1>11. \A j \in 1..Len(InFlight') :
         r[j] \in 1..Len(InFlight) /\ InFlight'[j].call = Owner(r[j]) /\ r[j] # i
  BY <1>8, <1>10 DEF Thins, Owner
<1> HIDE DEF r
<1>12. Owner(i) = answered' /\ (answered' \in overdue \/ answered' = calls)
  BY <1>1, <1>2, <1>9 DEF Owner, Accounted
<1>13. ASSUME NEW j \in 1..Len(InFlight') PROVE InFlight'[j].call \in overdue'
  <2>1. Owner(r[j]) \in overdue \/ Owner(r[j]) = calls
    BY <1>2, <1>11 DEF Accounted
  <2>2. ASSUME Owner(r[j]) = calls, answered' = calls PROVE calls \in overdue
    BY <1>2, <1>3, <1>9, <1>11, <1>12, <2>2 DEF OneOwn
  <2> QED
    BY <1>3, <1>11, <2>1, <2>2
<1>14. Accounted' /\ OneOwn'
  BY <1>3, <1>13 DEF Accounted, OneOwn, Owner
<1>15. OwnUnlessOverdue'
  BY <1>3, <1>12 DEF OwnUnlessOverdue
<1> QED
  BY <1>14, <1>15

-----------------------------------------------------------------------------
(* The invariant. *)

LEMMA Beginning == Init => IInv
<1> SUFFICES ASSUME Init PROVE IInv
  OBVIOUS
<1>1. <<>> \in Seq(Frames) /\ Len(<<>>) = 0
  BY EmptySeq
<1>2. TypeOK /\ CallCounted /\ OwnUnlessOverdue
  <2>1. 0 \in Numbers /\ 0 \in 0..MaxCalls /\ \A c \in Commands : 0 \in 0..Retries[c]
    BY BoundsAssumption, RetriesKnown DEF Numbers
  <2>2. expired \in BOOLEAN /\ open \in BOOLEAN /\ rxError \in BOOLEAN
    BY Zenon DEF Init
  <2> QED
    BY <1>1, <2>1, <2>2 DEF Init, TypeOK, CallCounted, OwnUnlessOverdue, Phases
<1>3. Len(InFlight) = 0
  <2>1. <<>> \o <<>> = <<>>
    BY <1>1, ConcatEmptySeq
  <2> QED
    BY <1>1, <2>1 DEF Init, InFlight
<1>4. Accounted /\ OneOwn
  BY <1>3 DEF Accounted, OneOwn
<1> QED
  BY <1>2, <1>4 DEF IInv

LEMMA StepTypes == Typed /\ [Next]_vars => Typed'
<1> SUFFICES ASSUME Typed, [Next]_vars PROVE Typed'
  OBVIOUS
<1>1. CASE UNCHANGED vars
  BY <1>1 DEF vars, counter, caller, line, Typed, TypeOK, CallCounted
<1> QED
  BY <1>1, BeginTypes, CounterTypes, CallTypes, TakeTypes, LineTypes DEF Next, RequestGoesOn

(* A call takes its own response or one of an overdue call because every   *)
(* frame in flight has such an owner, and takes at most one of its own.    *)
LEMMA StepAccounts == IInv /\ [Next]_vars => Accounted' /\ OneOwn' /\ OwnUnlessOverdue'
<1> SUFFICES ASSUME IInv, [Next]_vars PROVE Accounted' /\ OneOwn' /\ OwnUnlessOverdue'
  OBVIOUS
<1>1. CASE UNCHANGED vars
  <2>1. InFlight' = InFlight
    BY <1>1 DEF vars, line, InFlight
  <2>2. UNCHANGED <<phase, calls, overdue, answered>>
    BY <1>1 DEF vars, caller
  <2> QED
    BY <2>1, <2>2, SameInFlight DEF IInv, OwnUnlessOverdue
<1>2. ASSUME NEW c \in Commands, Begin(c) PROVE Accounted' /\ OneOwn' /\ OwnUnlessOverdue'
  BY <1>2, BeginAccounts DEF Begin, OwnUnlessOverdue
<1>3. CASE TakeResponse
  BY <1>3, TakeAccounts
<1>4. ASSUME Accounted', OneOwn', UNCHANGED <<answered, calls>>, overdue \subseteq overdue'
      PROVE  Accounted' /\ OneOwn' /\ OwnUnlessOverdue'
  BY <1>4 DEF IInv, OwnUnlessOverdue
<1>5. CASE WriteRequest \/ WriteRaises
  BY <1>4, <1>5, WriteAccounts DEF WriteRequest, WriteRaises
<1>6. CASE \/ SenderReadsCounter \/ SenderStoresCounter
           \/ ReadValue \/ ReadOperand \/ StoreSequence
           \/ RaiseReaderStopped \/ DeadlinePasses \/ Retry \/ RaiseTimeout
  <2>1. UNCHANGED <<answered, calls>> /\ overdue \subseteq overdue'
    BY <1>6 DEF SenderReadsCounter, SenderStoresCounter, ReadValue, ReadOperand, StoreSequence,
       RaiseReaderStopped, DeadlinePasses, Retry, RaiseTimeout, AttemptFails, caller
  <2> QED
    BY <1>4, <1>6, <2>1, CounterAccounts
<1>7. CASE \/ Receive \/ ReaderFails \/ Disconnect \/ Connect
           \/ DongleAnswers \/ LoseRequest \/ LoseResponse
  <2>1. UNCHANGED <<answered, calls, overdue>>
    BY <1>7 DEF Receive, ReaderFails, Disconnect, Connect, DongleAnswers, LoseRequest,
       LoseResponse, caller
  <2> QED
    BY <1>4, <1>7, <2>1, LineAccounts
<1> QED
  BY <1>1, <1>2, <1>3, <1>5, <1>6, <1>7 DEF Next, RequestGoesOn

LEMMA Invariance == Spec => []IInv
<1>1. IInv /\ [Next]_vars => IInv'
  BY StepTypes, StepAccounts DEF IInv, Typed
<1> QED
  BY <1>1, Beginning, PTL DEF Spec

(* Every variable of the client and of the line keeps its type; a request  *)
(* is never sent more often than its retries allow.                        *)
THEOREM TypeCorrect == Spec => []TypeOK
<1>1. IInv => TypeOK
  BY DEF IInv
<1> QED
  BY <1>1, Invariance, PTL

(* For every size of the sequence number, whatever is lost or delayed, and *)
(* however the sender interferes with the counter: a call is handed its    *)
(* own response or one of a call that had gone on without it.              *)
THEOREM ResponsesAreOwn == Spec => []OwnUnlessOverdue
<1>1. IInv => OwnUnlessOverdue
  BY DEF IInv
<1> QED
  BY <1>1, Invariance, PTL

-----------------------------------------------------------------------------
(* How a call comes to its end, for any number of retries: CallEnds without *)
(* the fairness.                                                           *)

(* The steps that are left of an attempt, and of the call with all of its  *)
(* attempts.                                                               *)
AttemptLeft ==
  CASE phase = "Value" -> 6
    [] phase = "Operand" -> 5
    [] phase = "Store" -> 4
    [] phase = "Write" -> 3
    [] phase = "Wait" /\ ~expired -> 2
    [] phase = "Wait" /\ expired -> 1
    [] OTHER -> 0

CallLeft ==
  IF phase = "Idle" THEN 0 ELSE 3 * (Retries[cmd] - attempt) + AttemptLeft

(* While a call of the host is under way, its own steps and its deadline   *)
(* bring it nearer to its end, and the dongle, the line, the reader thread *)
(* and the other sender neither help nor hinder it.                        *)
RunsDown ==
  [][phase # "Idle" =>
       /\ CallLeft \in Nat \ {0}
       /\ IF RequestGoesOn \/ DeadlinePasses
          THEN CallLeft' \in 0..(CallLeft - 1)
          ELSE CallLeft' = CallLeft]_vars

(* Each step of request(), and the passing of its deadline, takes the call *)
(* nearer to its end, and nothing else, neither the reader nor the sender, *)
(* the line, connect() or disconnect(), takes it back: a call makes as     *)
(* many steps as CallLeft says at most.                                    *)
THEOREM CallsRunDown == Spec => RunsDown
<1>1. ASSUME TypeOK, [Next]_vars, phase # "Idle"
      PROVE  /\ CallLeft \in Nat \ {0}
             /\ IF RequestGoesOn \/ DeadlinePasses
                THEN CallLeft' \in 0..(CallLeft - 1)
                ELSE CallLeft' = CallLeft
  <2>1. PICK r \in Nat : r = Retries[cmd]
    BY <1>1, RetriesKnown DEF TypeOK
  <2>2. attempt \in 0..r
    BY <1>1, <2>1 DEF TypeOK
  <2>3. PICK n \in 1..6 : n = AttemptLeft
    BY <1>1 DEF TypeOK, Phases, AttemptLeft
  <2>4. CallLeft = 3 * (r - attempt) + n
    BY <1>1, <2>1, <2>3 DEF CallLeft
  <2>5. CallLeft \in Nat \ {0}
    BY <2>2, <2>3, <2>4
  <2>6. ASSUME phase' = "Idle"
        PROVE  CallLeft' \in 0..(CallLeft - 1)
    BY <2>5, <2>6 DEF CallLeft
  <2>7. ASSUME cmd' = cmd, attempt' = attempt, phase' # "Idle",
               AttemptLeft' \in 1..(n - 1)
        PROVE  CallLeft' \in 0..(CallLeft - 1)
    <3>1. PICK k \in 1..(n - 1) : k = AttemptLeft'
      BY <2>7
    <3>2. CallLeft' = 3 * (r - attempt) + k
      BY <2>1, <2>7, <3>1 DEF CallLeft
    <3>3. PICK d \in Nat : d = r - attempt
      BY <2>1, <2>2
    <3>4. /\ CallLeft' = 3 * d + k /\ CallLeft = 3 * d + n
          /\ 3 * d \in Nat /\ k \in Nat /\ n \in Nat /\ k < n
      BY <2>3, <2>4, <3>1, <3>2, <3>3
    <3> QED BY <3>4
  <2>8. ASSUME RequestGoesOn \/ DeadlinePasses
        PROVE  CallLeft' \in 0..(CallLeft - 1)
    <3>1. CASE ReadValue \/ ReadOperand \/ StoreSequence \/ WriteRequest \/ DeadlinePasses
      <4>1. /\ cmd' = cmd /\ attempt' = attempt
            /\ \/ phase = "Value" /\ phase' = "Operand"
               \/ phase = "Operand" /\ phase' = "Store"
               \/ phase = "Store" /\ phase' = "Write"
               \/ phase = "Write" /\ phase' = "Wait"
               \/ phase = "Wait" /\ phase' = "Wait" /\ ~expired /\ expired'
        BY <3>1, Zenon DEF ReadValue, ReadOperand, StoreSequence, WriteRequest, DeadlinePasses
      <4>2. AttemptLeft' \in 1..(n - 1)
        BY <2>3, <4>1 DEF AttemptLeft
      <4> QED BY <2>7, <4>1, <4>2
    <3>2. CASE WriteRaises \/ TakeResponse \/ RaiseReaderStopped \/ RaiseTimeout
      <4>1. phase' = "Idle"
        BY <3>2, Zenon DEF WriteRaises, TakeResponse, RaiseReaderStopped, RaiseTimeout
      <4> QED BY <2>6, <4>1
    <3>3. CASE Retry
      <4>1. /\ phase = "Wait" /\ expired /\ phase' = "Write" /\ cmd' = cmd
            /\ attempt < r /\ attempt' = attempt + 1
        BY <2>1, <3>3 DEF Retry, AttemptFails
      <4>2. n = 1 /\ AttemptLeft' = 3
        BY <2>3, <4>1 DEF AttemptLeft
      <4>3. CallLeft' = 3 * (r - (attempt + 1)) + 3
        BY <2>1, <4>1, <4>2 DEF CallLeft
      <4> QED BY <2>2, <2>4, <4>1, <4>2, <4>3
    <3> QED BY <2>8, <3>1, <3>2, <3>3 DEF RequestGoesOn
  <2>9. ASSUME ~(RequestGoesOn \/ DeadlinePasses)
        PROVE  CallLeft' = CallLeft
    <3>1. UNCHANGED caller
      BY <1>1, <2>9
      DEF Next, Begin, SenderReadsCounter, SenderStoresCounter, Receive,
          ReaderFails, Disconnect, Connect, DongleAnswers, LoseRequest,
          LoseResponse, vars
    <3>2. /\ phase' = phase /\ cmd' = cmd /\ attempt' = attempt
          /\ AttemptLeft' = AttemptLeft
      BY <3>1, Zenon DEF caller, AttemptLeft
    <3> QED BY <3>2 DEF CallLeft
  <2> QED BY <2>5, <2>8, <2>9
<1>2. Spec => []TypeOK
  BY TypeCorrect
<1> QED BY <1>1, <1>2, PTL DEF Spec, RunsDown

-----------------------------------------------------------------------------
(* FrameLine: the inductive invariant. *)

(* The frames that can be sent, and how many bytes one is on the line.     *)
Sendable == {f \in {FrameOf(type, c) : type \in 1..4, c \in Contents} :
               Len(f.payload) <= MaxPayload}
Size(f) == 2 + HeaderSize + Len(f.payload) + CrcSize

(* How many bytes of the frame have left. *)
Gone == Size(frame) - Len(rest)

(* What is still to be sent is the end of a frame. *)
RestOfFrame ==
  rest # <<>> =>
    /\ frame \in Sendable
    /\ Gone >= 0
    /\ \A i \in 1..Len(rest) : rest[i] = OnTheLine(frame)[Gone + i]

(* What the parser has collected belongs to where it is.                   *)
NothingLeftOver ==
  /\ state \in Waiting => header = <<>>
  /\ state \in Waiting \cup {"READ_HEADER"} => payload = <<>>
  /\ state # "READ_CRC" => crcBytes = <<>>
  /\ state = "READ_PAYLOAD" => LengthIn(header) <= MaxPayload

(* How far the parser gets in a frame it waited for, after so many bytes.  *)
HeaderOf(f, n) == Len(header) = n /\ \A i \in 1..n : header[i] = Text(f)[i]
PayloadOf(f, n) == Len(payload) = n /\ \A i \in 1..n : payload[i] = f.payload[i]

Follows(f, n) ==
  \/ n = 0 /\ state \in Waiting
  \/ n = 1 /\ state = "WAIT_SOF2"
  \/ n \in 2..7 /\ state = "READ_HEADER" /\ HeaderOf(f, n - 2)
  \/ /\ n \in 8..(7 + Len(f.payload)) /\ state = "READ_PAYLOAD"
     /\ HeaderOf(f, HeaderSize) /\ PayloadOf(f, n - 8)
  \/ /\ n \in {8 + Len(f.payload), 9 + Len(f.payload)} /\ state = "READ_CRC"
     /\ HeaderOf(f, HeaderSize) /\ PayloadOf(f, Len(f.payload))
     /\ crcBytes = IF n = 8 + Len(f.payload) THEN <<>> ELSE <<Half(1, Text(f))>>

KeepsUp ==
  awaited /\ ~damaged =>
    IF rest = <<>>
    THEN frame \in Sendable /\ handed = frame
    ELSE Follows(frame, Gone) /\ frame.type \in TypesTo(receiver)

(* How many bytes the parser takes at most before it waits for a start,    *)
(* and the most that can be.                                               *)
Left ==
  CASE state = "READ_HEADER" -> HeaderSize - Len(header) + MaxPayload + CrcSize
    [] state = "READ_PAYLOAD" -> LengthIn(header) - Len(payload) + CrcSize
    [] state = "READ_CRC" -> CrcSize - Len(crcBytes)
    [] OTHER -> 0
Longest == HeaderSize + MaxPayload + CrcSize

(* Lost frames are paid for out of the bytes of one false frame: while the *)
(* parser is in it, and once it has come out of it within a frame.         *)
LossesPaid ==
  /\ damaged => missed = 0
  /\ 10 * missed <= Longest + 9
  /\ rest = <<>> /\ state \notin Waiting => 10 * missed + Left <= Longest
  /\ rest # <<>> /\ ~damaged /\ ~awaited /\ IsPlain(frame) =>
       \/ state \notin Waiting /\ 10 * missed + Gone + Left <= Longest
       \/ state = "WAIT_SOF1" /\ Gone >= 1 /\ 10 * missed < Longest

LineInv == LineTypeOK /\ RestOfFrame /\ NothingLeftOver /\ KeepsUp /\ LossesPaid

-----------------------------------------------------------------------------
(* FrameLine: the bytes of a frame. *)

LEMMA SendableFrames ==
  ASSUME NEW f \in Sendable
  PROVE  /\ f \in LineFrames /\ f # NoFrame
         /\ f.type \in 1..4 /\ f.cmd \in Values /\ f.seq \in Values
         /\ f.payload \in Seq(Values) /\ Len(f.payload) \in Nat
         /\ Len(f.payload) <= MaxPayload /\ Len(f.payload) <= 65535
         /\ f = [type |-> f.type, cmd |-> f.cmd, seq |-> f.seq, payload |-> f.payload]
         /\ Text(f) \in DOMAIN Crc
<1>1. PICK type \in 1..4, c \in Contents : f = FrameOf(type, c)
  BY DEF Sendable
<1>2. c.cmd \in Values /\ c.seq \in Values /\ c.payload \in Seq(Values)
  BY ContentsAssumption
<1>3. f = [type |-> type, cmd |-> c.cmd, seq |-> c.seq, payload |-> c.payload]
  BY <1>1 DEF FrameOf
<1>4. /\ f.type = type /\ f.cmd = c.cmd /\ f.seq = c.seq /\ f.payload = c.payload
      /\ Len(f.payload) <= MaxPayload /\ Len(f.payload) \in Nat
  BY <1>2, <1>3, LenProperties DEF Sendable
<1>5. f.type # NoFrame.type
  BY <1>4 DEF NoFrame
<1>6. f \in [type : 1..4, cmd : Values, seq : Values, payload : Seq(Values)]
  BY <1>2, <1>3
<1>7. Text(f) \in DOMAIN Crc
  BY <1>1, CrcAssumption
<1>8. Len(f.payload) <= 65535
  BY <1>4, LimitsAssumption
<1>9. f \in LineFrames /\ f # NoFrame
  BY <1>4, <1>5, <1>6 DEF LineFrames
<1> QED
  BY <1>2, <1>3, <1>4, <1>7, <1>8, <1>9

LEMMA LengthBytes ==
  ASSUME NEW n \in Nat, n <= 65535
  PROVE  /\ n % 256 \in Values /\ n \div 256 \in Values
         /\ (n % 256) + 256 * (n \div 256) = n
BY DEF Values

LEMMA TextOf ==
  ASSUME NEW f \in Sendable
  PROVE  /\ Text(f) \in Seq(Values) /\ Len(Text(f)) = HeaderSize + Len(f.payload)
         /\ Text(f)[1] = VERSION /\ Text(f)[2] = f.type
         /\ Text(f)[3] = f.cmd /\ Text(f)[4] = f.seq
         /\ Text(f)[5] + 256 * Text(f)[6] = Len(f.payload)
         /\ \A i \in 1..Len(f.payload) : Text(f)[HeaderSize + i] = f.payload[i]
<1> DEFINE p == f.payload
           n == Len(p)
           h == <<VERSION, f.type, f.cmd, f.seq, n % 256, n \div 256>>
<1>1. /\ f.type \in 1..4 /\ f.cmd \in Values /\ f.seq \in Values
      /\ p \in Seq(Values) /\ n \in Nat /\ n <= 65535
  BY SendableFrames
<1>2. Text(f) = h \o p
  BY DEF Text
<1> HIDE DEF p
<1>3. n % 256 \in Values /\ n \div 256 \in Values /\ (n % 256) + 256 * (n \div 256) = n
  <2> HIDE DEF n
  <2> QED
    BY <1>1, LengthBytes
<1>4. VERSION \in Values /\ f.type \in Values
  BY <1>1 DEF Values, VERSION
<1>5. /\ h \in Seq(Values) /\ Len(h) = 6
      /\ h[1] = VERSION /\ h[2] = f.type /\ h[3] = f.cmd /\ h[4] = f.seq
      /\ h[5] = n % 256 /\ h[6] = n \div 256
  <2> HIDE DEF n
  <2> QED
    BY <1>1, <1>3, <1>4
<1> DEFINE t == h \o p
<1> HIDE DEF h, n
<1>20. h \in Seq(Values) /\ p \in Seq(Values)
  BY <1>1, <1>5
<1>6. /\ t \in Seq(Values) /\ Len(t) = Len(h) + Len(p)
      /\ \A i \in 1..Len(h) + Len(p) :
           t[i] = IF i <= Len(h) THEN h[i] ELSE p[i - Len(h)]
  BY <1>20, ConcatProperties
<1> HIDE DEF t
<1>7. t \in Seq(Values) /\ Len(t) = 6 + n /\ Len(h) = 6 /\ n \in Nat /\ n = Len(p)
  BY <1>1, <1>5, <1>6 DEF n
<1>8. \A i \in 1..6 : t[i] = h[i]
  <2> TAKE i \in 1..6
  <2>1. i \in 1..Len(h) + Len(p) /\ i <= Len(h)
    BY <1>7
  <2> QED
    BY <1>6, <2>1
<1>9. \A i \in 1..n : t[6 + i] = p[i]
  <2> TAKE i \in 1..n
  <2>1. 6 + i \in 1..Len(h) + Len(p) /\ ~(6 + i <= Len(h)) /\ (6 + i) - Len(h) = i
    BY <1>7
  <2> QED
    BY <1>6, <2>1
<1>10. /\ t[1] = VERSION /\ t[2] = f.type /\ t[3] = f.cmd /\ t[4] = f.seq
       /\ t[5] = n % 256 /\ t[6] = n \div 256
  BY <1>5, <1>8
<1>11. t[5] + 256 * t[6] = n
  BY <1>3, <1>10
<1>12. Text(f) = t
  BY <1>2 DEF t
<1> QED
  BY <1>7, <1>9, <1>10, <1>11, <1>12 DEF HeaderSize, p, n

LEMMA ChecksumBytes ==
  ASSUME NEW f \in Sendable, NEW h \in 1..2
  PROVE  /\ Half(h, Text(f)) \in Bytes
         /\ Half(h, Text(f)).half = h /\ Half(h, Text(f)).of = Text(f)
<1>1. Text(f) \in DOMAIN Crc /\ Text(f) \in Seq(Values)
  BY SendableFrames, TextOf
<1>2. Crc[Text(f)] \in Values \X Values
  BY <1>1, CrcAssumption
<1>3. Crc[Text(f)][h] \in Values
  BY <1>2
<1> QED
  BY <1>1, <1>3 DEF Half, Bytes

LEMMA PlainBytes ==
  ASSUME NEW v \in Values
  PROVE  Plain(v) \in Bytes /\ Plain(v).half = 0 /\ Plain(v).val = v
<1>1. <<>> \in Seq(Values)
  BY EmptySeq
<1> QED
  BY <1>1 DEF Plain, Bytes

(* The bytes of a frame, by their place. *)
LEMMA OnTheLineOf ==
  ASSUME NEW f \in Sendable
  PROVE  /\ OnTheLine(f) \in Seq(Bytes) /\ Len(OnTheLine(f)) = Size(f)
         /\ OnTheLine(f)[1] = Plain(SOF1) /\ OnTheLine(f)[2] = Plain(SOF2)
         /\ \A i \in 1..HeaderSize + Len(f.payload) :
              OnTheLine(f)[2 + i] = Plain(Text(f)[i])
         /\ OnTheLine(f)[Size(f) - 1] = Half(1, Text(f))
         /\ OnTheLine(f)[Size(f)] = Half(2, Text(f))
<1> DEFINE n == Len(Text(f))
           a == <<Plain(SOF1), Plain(SOF2)>>
           b == [i \in DOMAIN Text(f) |-> Plain(Text(f)[i])]
           c == <<Half(1, Text(f)), Half(2, Text(f))>>
<1>1. /\ Text(f) \in Seq(Values) /\ n = 6 + Len(f.payload) /\ n \in Nat
      /\ Len(f.payload) \in Nat
  BY TextOf, SendableFrames DEF HeaderSize
<1>2. DOMAIN Text(f) = 1..n /\ \A i \in 1..n : Text(f)[i] \in Values
  BY <1>1, LenProperties, ElementOfSeq
<1> HIDE DEF n
<1>3. a \in Seq(Bytes) /\ Len(a) = 2 /\ a[1] = Plain(SOF1) /\ a[2] = Plain(SOF2)
  <2>1. Plain(SOF1) \in Bytes /\ Plain(SOF2) \in Bytes
    BY PlainBytes DEF Values, SOF1, SOF2
  <2> QED
    BY <2>1
<1>4. b \in Seq(Bytes) /\ Len(b) = n /\ \A i \in 1..n : b[i] = Plain(Text(f)[i])
  <2>1. \A i \in 1..n : Plain(Text(f)[i]) \in Bytes
    BY <1>2, PlainBytes
  <2>2. b \in [1..n -> Bytes]
    BY <1>2, <2>1
  <2> QED
    BY <1>1, <1>2, <2>2
<1>5. /\ c \in Seq(Bytes) /\ Len(c) = 2
      /\ c[1] = Half(1, Text(f)) /\ c[2] = Half(2, Text(f))
  <2>1. Half(1, Text(f)) \in Bytes /\ Half(2, Text(f)) \in Bytes
    BY ChecksumBytes
  <2> QED
    BY <2>1
<1>6. OnTheLine(f) = (a \o b) \o c
  BY DEF OnTheLine
<1> HIDE DEF a, b, c
<1>7. /\ a \o b \in Seq(Bytes) /\ Len(a \o b) = 2 + n
      /\ \A i \in 1..2 + n : (a \o b)[i] = IF i <= 2 THEN a[i] ELSE b[i - 2]
  <2>1. /\ a \o b \in Seq(Bytes) /\ Len(a \o b) = Len(a) + Len(b)
        /\ \A i \in 1..Len(a) + Len(b) :
             (a \o b)[i] = IF i <= Len(a) THEN a[i] ELSE b[i - Len(a)]
    BY <1>3, <1>4, ConcatProperties
  <2> QED
    BY <1>3, <1>4, <2>1
<1>8. /\ OnTheLine(f) \in Seq(Bytes) /\ Len(OnTheLine(f)) = 4 + n
      /\ \A i \in 1..4 + n :
           OnTheLine(f)[i] = IF i <= 2 + n THEN (a \o b)[i] ELSE c[i - (2 + n)]
  <2> DEFINE d == a \o b
  <2>0. d \in Seq(Bytes) /\ Len(d) = 2 + n
    BY <1>7
  <2>00. OnTheLine(f) = d \o c
    BY <1>6
  <2> HIDE DEF d
  <2>1. /\ d \o c \in Seq(Bytes) /\ Len(d \o c) = Len(d) + Len(c)
        /\ \A i \in 1..Len(d) + Len(c) :
             (d \o c)[i] = IF i <= Len(d) THEN d[i] ELSE c[i - Len(d)]
    BY <1>5, <2>0, ConcatProperties
  <2>2. Len(d) + Len(c) = 4 + n
    BY <1>1, <1>5, <2>0
  <2>3. /\ d \o c \in Seq(Bytes) /\ Len(d \o c) = 4 + n
        /\ \A i \in 1..4 + n :
             (d \o c)[i] = IF i <= 2 + n THEN d[i] ELSE c[i - (2 + n)]
    BY <2>0, <2>1, <2>2
  <2> QED
    BY <2>00, <2>3 DEF d
<1> DEFINE l == OnTheLine(f)
           d == a \o b
<1> HIDE DEF l, d
<1>20. /\ n \in Nat
       /\ \A i \in 1..4 + n : l[i] = IF i <= 2 + n THEN d[i] ELSE c[i - (2 + n)]
       /\ \A i \in 1..2 + n : d[i] = IF i <= 2 THEN a[i] ELSE b[i - 2]
  BY <1>1, <1>7, <1>8 DEF l, d
<1>9. l[1] = a[1] /\ l[2] = a[2]
  <2>1. /\ 1 \in 1..4 + n /\ 1 <= 2 + n /\ 1 \in 1..2 + n
        /\ 2 \in 1..4 + n /\ 2 <= 2 + n /\ 2 \in 1..2 + n
    BY <1>20
  <2>2. l[1] = d[1] /\ l[2] = d[2]
    BY <1>20, <2>1
  <2> QED
    BY <1>20, <2>1, <2>2
<1>10. \A i \in 1..n : l[2 + i] = b[i]
  <2> TAKE i \in 1..n
  <2>1. /\ 2 + i \in 1..4 + n /\ 2 + i <= 2 + n /\ 2 + i \in 1..2 + n
        /\ ~(2 + i <= 2) /\ (2 + i) - 2 = i
    BY <1>20
  <2> QED
    BY <1>20, <2>1
<1>11. l[3 + n] = c[1] /\ l[4 + n] = c[2]
  <2>1. /\ 3 + n \in 1..4 + n /\ ~(3 + n <= 2 + n) /\ (3 + n) - (2 + n) = 1
        /\ 4 + n \in 1..4 + n /\ ~(4 + n <= 2 + n) /\ (4 + n) - (2 + n) = 2
    BY <1>20
  <2> QED
    BY <1>20, <2>1
<1>12. Size(f) = 4 + n /\ Size(f) - 1 = 3 + n
  BY <1>1 DEF Size, HeaderSize, CrcSize
<1>13. 1..HeaderSize + Len(f.payload) = 1..n
  BY <1>1 DEF HeaderSize
<1> QED
  BY <1>3, <1>4, <1>5, <1>8, <1>9, <1>10, <1>11, <1>12, <1>13 DEF l

(* Only the last byte of a frame is the second one of a checksum. *)
LEMMA LastByte ==
  ASSUME NEW f \in Sendable, NEW i \in 1..Size(f)
  PROVE  /\ OnTheLine(f)[i] \in Bytes
         /\ OnTheLine(f)[i].half = 2 => i = Size(f) /\ OnTheLine(f)[i].of = Text(f)
<1>1. OnTheLine(f) \in Seq(Bytes) /\ Len(OnTheLine(f)) = Size(f)
  BY OnTheLineOf
<1>2. OnTheLine(f)[i] \in Bytes
  BY <1>1, ElementOfSeq
<1>3. Len(f.payload) \in Nat /\ Size(f) = 10 + Len(f.payload)
  BY SendableFrames DEF Size, HeaderSize, CrcSize
<1>4. CASE i <= 2
  <2>1. i = 1 \/ i = 2
    BY <1>3, <1>4
  <2>2. OnTheLine(f)[1] = Plain(SOF1) /\ OnTheLine(f)[2] = Plain(SOF2)
    BY OnTheLineOf
  <2>3. Plain(SOF1).half = 0 /\ Plain(SOF2).half = 0
    BY PlainBytes DEF Values, SOF1, SOF2
  <2>4. OnTheLine(f)[i].half = 0
    BY <2>1, <2>2, <2>3
  <2> QED
    BY <1>2, <2>4
<1>5. CASE i \in 3..Size(f) - 2
  <2> DEFINE j == i - 2
  <2>1. j \in 1..HeaderSize + Len(f.payload) /\ i = 2 + j
    BY <1>3, <1>5 DEF HeaderSize
  <2> HIDE DEF j
  <2>2. OnTheLine(f)[i] = Plain(Text(f)[j])
    BY <2>1, OnTheLineOf
  <2>3. Text(f)[j] \in Values
    BY <2>1, TextOf, ElementOfSeq
  <2>4. OnTheLine(f)[i].half = 0
    BY <2>2, <2>3, PlainBytes
  <2> QED
    BY <1>2, <2>4
<1>6. CASE i = Size(f) - 1
  <2>1. OnTheLine(f)[i].half = 1
    BY <1>6, OnTheLineOf, ChecksumBytes
  <2> QED
    BY <1>2, <2>1
<1>7. CASE i = Size(f)
  BY <1>2, <1>7, OnTheLineOf, ChecksumBytes
<1> QED
  BY <1>3, <1>4, <1>5, <1>6, <1>7

-----------------------------------------------------------------------------
(* FrameLine: the parsers. *)

(* The parser's part of the type invariant, with what it relies on.        *)
ParserOK ==
  /\ state \in Waiting \cup {"READ_HEADER", "READ_PAYLOAD", "READ_CRC"}
  /\ header \in Seq(Values) /\ payload \in Seq(Values) /\ crcBytes \in Seq(Bytes)
  /\ handed \in LineFrames \cup {NoFrame}
  /\ state = "READ_HEADER" => Len(header) < HeaderSize
  /\ state = "READ_PAYLOAD" =>
       Len(header) = HeaderSize /\ Len(payload) < LengthIn(header)
  /\ state = "READ_CRC" =>
       /\ Len(header) = HeaderSize /\ Len(crcBytes) < CrcSize
       /\ Len(payload) = LengthIn(header) /\ Len(payload) <= MaxPayload
  /\ NothingLeftOver

LEMMA LengthInNat ==
  ASSUME NEW h \in Seq(Values), Len(h) = HeaderSize
  PROVE  LengthIn(h) \in Nat
<1>1. h[5] \in Values /\ h[6] \in Values
  <2>1. 5 \in 1..Len(h) /\ 6 \in 1..Len(h)
    BY DEF HeaderSize
  <2> QED
    BY <2>1, ElementOfSeq
<1>2. \A v \in Values : v \in Nat
  BY DEF Values
<1>3. h[5] \in Nat /\ h[6] \in Nat
  BY <1>1, <1>2
<1> QED
  BY <1>3 DEF LengthIn

LEMMA NoBytes ==
  <<>> \in Seq(Values) /\ <<>> \in Seq(Bytes) /\ Len(<<>>) = 0
BY EmptySeq

LEMMA ReadHeaderParser ==
  ASSUME ParserOK, NEW b \in Bytes, ReadHeader(b)
  PROVE  ParserOK'
<1> DEFINE read == Append(header, b.val)
<1>1. /\ state = "READ_HEADER" /\ header \in Seq(Values) /\ Len(header) < HeaderSize
      /\ payload = <<>> /\ crcBytes = <<>> /\ handed \in LineFrames \cup {NoFrame}
      /\ b.val \in Values
  BY DEF ReadHeader, ParserOK, NothingLeftOver, Bytes
<1>2. /\ read \in Seq(Values) /\ Len(read) = Len(header) + 1 /\ Len(header) \in Nat
  BY <1>1
<1>3. /\ \/ Len(read) < HeaderSize /\ header' = read /\ UNCHANGED <<state, payload, crcBytes>>
         \/ Reset
         \/ /\ Len(read) = HeaderSize /\ ~HeaderRefused(read)
            /\ header' = read /\ payload' = <<>> /\ crcBytes' = <<>>
            /\ state' = AfterHeader(read)
      /\ handed' = handed
  BY DEF ReadHeader
<1> HIDE DEF read
<1>4. CASE Len(read) < HeaderSize /\ header' = read /\ UNCHANGED <<state, payload, crcBytes>>
  BY <1>1, <1>2, <1>3, <1>4, NoBytes DEF ParserOK, NothingLeftOver, Waiting
<1>5. CASE Reset
  BY <1>1, <1>3, <1>5, NoBytes DEF Reset, ParserOK, NothingLeftOver, Waiting
<1>6. CASE /\ Len(read) = HeaderSize /\ ~HeaderRefused(read)
           /\ header' = read /\ payload' = <<>> /\ crcBytes' = <<>>
           /\ state' = AfterHeader(read)
  <2>1. LengthIn(read) \in Nat
    BY <1>2, <1>6, LengthInNat
  <2>2. LengthIn(read) <= MaxPayload
    BY <2>1, <1>6, LimitsAssumption
       DEF HeaderRefused, HostRefusesHeader, DongleRefusesHeader
  <2>3. \/ LengthIn(read) = 0 /\ state' = "READ_CRC"
        \/ LengthIn(read) > 0 /\ state' = "READ_PAYLOAD"
    BY <2>1, <1>6 DEF AfterHeader
  <2>4. LengthIn(header') = LengthIn(read) /\ Len(header') = HeaderSize /\ header' \in Seq(Values)
    BY <1>2, <1>6
  <2> QED
    BY <2>1, <2>2, <2>3, <2>4, <1>1, <1>3, <1>6, NoBytes, LimitsAssumption
       DEF ParserOK, NothingLeftOver, Waiting, CrcSize
<1> QED
  BY <1>3, <1>4, <1>5, <1>6

LEMMA ReadPayloadParser ==
  ASSUME ParserOK, NEW b \in Bytes, ReadPayload(b)
  PROVE  ParserOK'
<1>1. /\ state = "READ_PAYLOAD" /\ header \in Seq(Values) /\ Len(header) = HeaderSize
      /\ payload \in Seq(Values) /\ Len(payload) < LengthIn(header)
      /\ LengthIn(header) <= MaxPayload
      /\ crcBytes = <<>> /\ handed \in LineFrames \cup {NoFrame}
      /\ b.val \in Values
  BY DEF ReadPayload, ParserOK, NothingLeftOver, Bytes
<1>2. /\ payload' = Append(payload, b.val) /\ header' = header
      /\ crcBytes' = crcBytes /\ handed' = handed
      /\ state' = IF Len(payload') = LengthIn(header) THEN "READ_CRC" ELSE state
  BY DEF ReadPayload
<1>3. payload' \in Seq(Values) /\ Len(payload') = Len(payload) + 1 /\ Len(payload) \in Nat
  BY <1>1, <1>2
<1>4. LengthIn(header) \in Nat /\ LengthIn(header') = LengthIn(header)
  BY <1>1, <1>2, LengthInNat
<1> QED
  BY <1>1, <1>2, <1>3, <1>4, NoBytes, LimitsAssumption
     DEF ParserOK, NothingLeftOver, Waiting, CrcSize

(* What the parser returns is built of what it has collected. *)
LEMMA TakenIsFrame ==
  ASSUME ParserOK, state = "READ_CRC", NEW read, Taken(read)
  PROVE  [type |-> header[2], cmd |-> header[3], seq |-> header[4], payload |-> payload]
           \in LineFrames
<1>1. /\ header \in Seq(Values) /\ Len(header) = HeaderSize
      /\ payload \in Seq(Values) /\ Len(payload) <= MaxPayload
  BY DEF ParserOK
<1>2. header[3] \in Values /\ header[4] \in Values
  <2>1. 3 \in 1..Len(header) /\ 4 \in 1..Len(header)
    BY <1>1 DEF HeaderSize
  <2> QED
    BY <1>1, <2>1, ElementOfSeq
<1>3. header[2] \in 1..4
  BY DEF Taken, HostTakes, DongleTakes, REQUEST, RESPONSE, EVENT, ERROR
<1> QED
  BY <1>1, <1>2, <1>3 DEF LineFrames

LEMMA ReadCrcParser ==
  ASSUME ParserOK, NEW b \in Bytes, ReadCrc(b)
  PROVE  ParserOK'
<1> DEFINE read == Append(crcBytes, b)
           built == [type |-> header[2], cmd |-> header[3],
                     seq |-> header[4], payload |-> payload]
<1>1. /\ state = "READ_CRC" /\ header \in Seq(Values) /\ Len(header) = HeaderSize
      /\ payload \in Seq(Values) /\ Len(payload) = LengthIn(header)
      /\ Len(payload) <= MaxPayload
      /\ crcBytes \in Seq(Bytes) /\ handed \in LineFrames \cup {NoFrame}
  BY DEF ReadCrc, ParserOK
<1>2. read \in Seq(Bytes)
  BY <1>1
<1>3. \/ /\ Len(read) < CrcSize /\ crcBytes' = read
         /\ UNCHANGED <<state, header, payload, handed>>
      \/ Reset /\ handed' = IF Taken(read) THEN built ELSE handed
  BY DEF ReadCrc
<1>4. Taken(read) => built \in LineFrames
  BY <1>1, TakenIsFrame
<1> HIDE DEF read, built
<1>5. CASE /\ Len(read) < CrcSize /\ crcBytes' = read
           /\ UNCHANGED <<state, header, payload, handed>>
  <2>1. LengthIn(header') = LengthIn(header)
    BY <1>5
  <2> QED
    BY <1>1, <1>2, <1>5, <2>1 DEF ParserOK, NothingLeftOver, Waiting
<1>6. CASE Reset /\ handed' = IF Taken(read) THEN built ELSE handed
  BY <1>1, <1>4, <1>6, NoBytes DEF Reset, ParserOK, NothingLeftOver, Waiting
<1> QED
  BY <1>3, <1>5, <1>6

LEMMA FeedParser ==
  ASSUME ParserOK, NEW b \in Bytes, Feed(b)
  PROVE  ParserOK'
<1>1. CASE WaitSof1(b)
  BY <1>1 DEF WaitSof1, Become, ParserOK, NothingLeftOver, Waiting, HeaderSize, LengthIn
<1>2. CASE WaitSof2(b)
  <2>1. /\ state = "WAIT_SOF2" /\ state' \in {"READ_HEADER", "WAIT_SOF2", "WAIT_SOF1"}
        /\ UNCHANGED <<header, payload, crcBytes, handed>>
    BY <1>2 DEF WaitSof2, Become
  <2> QED
    BY <2>1, NoBytes DEF ParserOK, NothingLeftOver, Waiting, HeaderSize
<1> QED
  BY <1>1, <1>2, ReadHeaderParser, ReadPayloadParser, ReadCrcParser DEF Feed

LEMMA SameParser ==
  ASSUME ParserOK, UNCHANGED <<state, header, payload, crcBytes>>,
         handed' = handed \/ handed' = NoFrame
  PROVE  ParserOK'
<1>1. LengthIn(header') = LengthIn(header)
  OBVIOUS
<1> QED
  BY <1>1 DEF ParserOK, NothingLeftOver, Waiting

-----------------------------------------------------------------------------
(* FrameLine: what is on its way. *)

LEMMA SizeOf ==
  ASSUME NEW f \in Sendable \cup {NoFrame}
  PROVE  Size(f) \in Nat /\ Size(f) = 10 + Len(f.payload) /\ Len(f.payload) \in Nat
<1>1. CASE f \in Sendable
  BY <1>1, SendableFrames DEF Size, HeaderSize, CrcSize
<1>2. CASE f = NoFrame
  <2>1. f.payload = <<>>
    BY <1>2 DEF NoFrame
  <2>2. Len(f.payload) = 0
    BY <2>1
  <2> QED
    BY <2>2 DEF Size, HeaderSize, CrcSize
<1> QED
  BY <1>1, <1>2

LEMMA LineIsTyped ==
  ASSUME LineTypeOK, NothingLeftOver
  PROVE  ParserOK
BY DEF LineTypeOK, ParserOK

(* The byte that is next. *)
LEMMA NextByte ==
  ASSUME rest \in Seq(Bytes), RestOfFrame, rest # <<>>
  PROVE  /\ frame \in Sendable /\ Len(rest) \in Nat \ {0}
         /\ Gone \in Nat /\ Gone + 1 \in 1..Size(frame)
         /\ Gone + Len(rest) = Size(frame)
         /\ Head(rest) \in Bytes /\ Head(rest) = OnTheLine(frame)[Gone + 1]
<1>1. frame \in Sendable /\ Gone >= 0
  BY DEF RestOfFrame
<1>2. Len(rest) \in Nat \ {0}
  BY EmptySeq
<1>3. Size(frame) \in Nat
  BY <1>1, SizeOf
<1>4. Gone \in Nat /\ Gone + Len(rest) = Size(frame)
  BY <1>1, <1>2, <1>3 DEF Gone
<1>5. Gone + 1 \in 1..Size(frame)
  BY <1>2, <1>3, <1>4
<1>6. Head(rest) \in Bytes /\ Head(rest) = rest[1]
  BY HeadTailProperties
<1>7. rest[1] = OnTheLine(frame)[Gone + 1]
  <2>1. 1 \in 1..Len(rest)
    BY <1>2
  <2> QED
    BY <2>1 DEF RestOfFrame
<1> QED
  BY <1>1, <1>2, <1>4, <1>5, <1>6, <1>7

(* One byte further. *)
LEMMA OneGone ==
  ASSUME rest \in Seq(Bytes), RestOfFrame, rest # <<>>,
         rest' = Tail(rest), frame' = frame
  PROVE  /\ rest' \in Seq(Bytes) /\ Gone' = Gone + 1 /\ RestOfFrame'
         /\ rest' = <<>> <=> Gone + 1 = Size(frame)
<1>1. /\ frame \in Sendable /\ Len(rest) \in Nat \ {0} /\ Gone \in Nat
      /\ Gone + Len(rest) = Size(frame)
  BY NextByte
<1>2. /\ rest' \in Seq(Bytes) /\ Len(rest') = Len(rest) - 1
      /\ \A i \in 1..Len(rest') : rest'[i] = rest[i + 1]
  BY HeadTailProperties
<1>3. Size(frame) \in Nat
  BY <1>1, SizeOf
<1>4. Gone' = Gone + 1
  BY <1>1, <1>2, <1>3 DEF Gone
<1>5. ASSUME NEW i \in 1..Len(rest')
      PROVE  rest'[i] = OnTheLine(frame)[Gone + 1 + i]
  <2>1. i + 1 \in 1..Len(rest) /\ Gone + (i + 1) = Gone + 1 + i
    BY <1>1, <1>2
  <2>2. rest[i + 1] = OnTheLine(frame)[Gone + (i + 1)]
    BY <2>1 DEF RestOfFrame
  <2> QED
    BY <1>2, <2>1, <2>2
<1>6. RestOfFrame'
  <2>1. Gone' >= 0
    BY <1>1, <1>4
  <2>2. \A i \in 1..Len(rest') : rest'[i] = OnTheLine(frame')[Gone' + i]
    BY <1>4, <1>5
  <2> QED
    BY <1>1, <2>1, <2>2 DEF RestOfFrame
<1>7. rest' = <<>> <=> Gone + 1 = Size(frame)
  <2>1. rest' = <<>> <=> Len(rest') = 0
    BY <1>2, EmptySeq
  <2> QED
    BY <1>1, <1>2, <1>3, <2>1
<1> QED
  BY <1>2, <1>4, <1>6, <1>7

LEMMA RestStays ==
  ASSUME RestOfFrame, UNCHANGED <<frame, rest>>
  PROVE  RestOfFrame' /\ Gone' = Gone
BY DEF RestOfFrame, Gone

(* A frame is begun. *)
LEMMA SendBegins ==
  ASSUME LineTypeOK, NEW type \in 1..4, NEW c \in Contents, Send(type, c)
  PROVE  /\ frame' \in Sendable /\ rest' = OnTheLine(frame') /\ rest' \in Seq(Bytes)
         /\ rest' # <<>> /\ Gone' = 0 /\ RestOfFrame'
<1>1. frame' \in Sendable
  <2>1. frame' = FrameOf(type, c) /\ Len(c.payload) <= MaxPayload
    BY DEF Send
  <2>2. frame'.payload = c.payload
    BY <2>1 DEF FrameOf
  <2> QED
    BY <2>1, <2>2 DEF Sendable
<1>2. rest' = OnTheLine(frame')
  BY DEF Send
<1>3. rest' \in Seq(Bytes) /\ Len(rest') = Size(frame')
  BY <1>1, <1>2, OnTheLineOf
<1>4. Size(frame') \in Nat /\ Size(frame') >= 10
  BY <1>1, SizeOf
<1>5. Gone' = 0
  BY <1>3, <1>4 DEF Gone
<1>6. rest' # <<>>
  <2>1. Len(rest') # 0
    BY <1>3, <1>4
  <2> QED
    BY <2>1, EmptySeq
<1>7. \A i \in 1..Len(rest') : rest'[i] = OnTheLine(frame')[Gone' + i]
  <2> TAKE i \in 1..Len(rest')
  <2>1. Gone' + i = i
    BY <1>3, <1>4, <1>5
  <2> QED
    BY <1>2, <2>1
<1>8. RestOfFrame'
  BY <1>1, <1>5, <1>7 DEF RestOfFrame
<1> QED
  BY <1>1, <1>2, <1>3, <1>5, <1>6, <1>8

-----------------------------------------------------------------------------
(* FrameLine: type correctness. *)

LEMMA LineTypeInit ==
  ASSUME LineInit
  PROVE  LineTypeOK /\ RestOfFrame /\ NothingLeftOver
<1>1. LineTypeOK
  <2>1. awaited \in BOOLEAN /\ damaged \in BOOLEAN
    BY Zenon DEF LineInit
  <2>2. missed \in Nat /\ faults \in 0..MaxFaults
    BY LimitsAssumption DEF LineInit
  <2> QED
    BY <2>1, <2>2, NoBytes DEF LineInit, LineTypeOK, Waiting
<1>2. RestOfFrame /\ NothingLeftOver
  BY DEF LineInit, RestOfFrame, NothingLeftOver, Waiting
<1> QED
  BY <1>1, <1>2

(* What a step of the line does: it feeds one byte, or none. *)
LEMMA LineSteps ==
  ASSUME LineTypeOK, RestOfFrame, NothingLeftOver, LineNext
  PROVE  \/ \E type \in 1..4, c \in Contents : Send(type, c)
         \/ Transmit /\ Head(rest) \in Bytes /\ Feed(Head(rest))
         \/ \E v \in Values : /\ Plain(v) \in Bytes /\ Plain(v).half = 0
                              /\ Feed(Plain(v)) /\ Damage(v)
         \/ \E v \in Values : /\ Plain(v) \in Bytes /\ Plain(v).half = 0
                              /\ Feed(Plain(v)) /\ Add(v)
         \/ Drop \/ CutShort
<1>1. rest \in Seq(Bytes)
  BY DEF LineTypeOK
<1>2. CASE Transmit
  BY <1>1, <1>2, NextByte DEF Transmit
<1>3. ASSUME NEW v \in Noise, Damage(v) \/ Add(v)
      PROVE  /\ v \in Values /\ Plain(v) \in Bytes /\ Plain(v).half = 0
             /\ Feed(Plain(v))
  <2>1. v \in Values
    BY LimitsAssumption
  <2> QED
    BY <1>3, <2>1, PlainBytes DEF Damage, Add
<1> QED
  BY <1>2, <1>3 DEF LineNext

LEMMA LineTypeStep ==
  ASSUME LineTypeOK, RestOfFrame, NothingLeftOver, [LineNext]_lineVars
  PROVE  LineTypeOK' /\ RestOfFrame' /\ NothingLeftOver'
<1> DEFINE Others == /\ receiver' \in {"host", "dongle"}
                     /\ frame' \in LineFrames \cup {NoFrame} /\ rest' \in Seq(Bytes)
                     /\ awaited' \in BOOLEAN /\ damaged' \in BOOLEAN
                     /\ missed' \in Nat /\ faults' \in 0..MaxFaults
<1>1. ParserOK
  BY LineIsTyped
<1>2. /\ receiver \in {"host", "dongle"}
      /\ frame \in LineFrames \cup {NoFrame} /\ rest \in Seq(Bytes)
      /\ awaited \in BOOLEAN /\ damaged \in BOOLEAN
      /\ missed \in Nat /\ faults \in 0..MaxFaults
  BY DEF LineTypeOK
<1>3. SUFFICES Others /\ ParserOK' /\ RestOfFrame'
  BY DEF LineTypeOK, ParserOK
<1>4. ASSUME NEW type \in 1..4, NEW c \in Contents, Send(type, c)
      PROVE  Others /\ ParserOK' /\ RestOfFrame'
  <2>1. ParserOK'
    BY <1>1, <1>4, SameParser DEF Send
  <2>2. frame' \in LineFrames /\ rest' \in Seq(Bytes) /\ RestOfFrame'
    BY <1>4, SendBegins, SendableFrames
  <2>3. UNCHANGED <<receiver, missed, faults>>
    BY <1>4 DEF Send
  <2>4. awaited' \in BOOLEAN /\ damaged' \in BOOLEAN
    <3>1. awaited' = (state \in Waiting)
      BY <1>4 DEF Send
    <3>2. damaged' = FALSE
      BY <1>4 DEF Send
    <3>3. (state \in Waiting) \in BOOLEAN
      OBVIOUS
    <3>4. awaited' \in BOOLEAN
      BY <3>1, <3>3, SMT
    <3> QED
      BY <3>2, <3>4, Zenon
  <2> QED
    BY <1>2, <2>1, <2>2, <2>3, <2>4
<1>5. CASE Transmit /\ Head(rest) \in Bytes /\ Feed(Head(rest))
  <2>1. ParserOK'
    BY <1>1, <1>5, FeedParser
  <2>2. rest' \in Seq(Bytes) /\ RestOfFrame'
    BY <1>2, <1>5, OneGone DEF Transmit
  <2>3. missed' \in Nat
    BY <1>2, <1>5 DEF Transmit
  <2>4. UNCHANGED <<receiver, frame, awaited, damaged, faults>>
    BY <1>5 DEF Transmit
  <2> QED
    BY <1>2, <2>1, <2>2, <2>3, <2>4
<1>6. ASSUME Fault
      PROVE  /\ receiver' \in {"host", "dongle"} /\ frame' \in LineFrames \cup {NoFrame}
             /\ awaited' \in BOOLEAN /\ damaged' \in BOOLEAN
             /\ missed' \in Nat /\ faults' \in 0..MaxFaults
  <2>1. damaged' = TRUE /\ UNCHANGED <<receiver, frame, awaited>>
    BY <1>6 DEF Fault
  <2>2. damaged' \in BOOLEAN
    BY <2>1, Zenon
  <2>3. missed' \in Nat /\ faults' \in 0..MaxFaults
    BY <1>2, <1>6, LimitsAssumption DEF Fault
  <2> QED
    BY <1>2, <2>1, <2>2, <2>3
<1>7. ASSUME NEW v \in Values, Plain(v) \in Bytes, Feed(Plain(v)), Damage(v)
      PROVE  Others /\ ParserOK' /\ RestOfFrame'
  <2>1. ParserOK'
    BY <1>1, <1>7, FeedParser
  <2>2. rest # <<>> /\ rest' = Tail(rest) /\ Fault /\ frame' = frame
    BY <1>7 DEF Damage, Fault
  <2>3. rest' \in Seq(Bytes) /\ RestOfFrame'
    BY <1>2, <2>2, OneGone
  <2> QED
    BY <1>6, <2>1, <2>2, <2>3
<1>8. ASSUME NEW v \in Values, Plain(v) \in Bytes, Feed(Plain(v)), Add(v)
      PROVE  Others /\ ParserOK' /\ RestOfFrame'
  <2>1. ParserOK'
    BY <1>1, <1>8, FeedParser
  <2>2. rest' = rest /\ Fault /\ frame' = frame
    BY <1>8 DEF Add, Fault
  <2>3. rest' \in Seq(Bytes) /\ RestOfFrame'
    BY <1>2, <2>2, RestStays
  <2> QED
    BY <1>6, <2>1, <2>2, <2>3
<1>9. CASE Drop
  <2>1. rest # <<>> /\ rest' = Tail(rest) /\ Fault /\ frame' = frame /\ UNCHANGED parser
    BY <1>9 DEF Drop, Fault
  <2>2. rest' \in Seq(Bytes) /\ RestOfFrame'
    BY <1>2, <2>1, OneGone
  <2>3. ParserOK'
    BY <1>1, <2>1, SameParser DEF parser
  <2> QED
    BY <1>6, <2>1, <2>2, <2>3
<1>10. CASE CutShort
  <2>1. rest' = <<>> /\ Fault /\ UNCHANGED parser
    BY <1>10 DEF CutShort
  <2>2. rest' \in Seq(Bytes) /\ RestOfFrame'
    BY <2>1, EmptySeq DEF RestOfFrame
  <2>3. ParserOK'
    BY <1>1, <2>1, SameParser DEF parser
  <2> QED
    BY <1>6, <2>1, <2>2, <2>3
<1>11. CASE UNCHANGED lineVars
  <2>1. UNCHANGED <<receiver, frame, rest, state, header, payload, crcBytes, handed,
                    awaited, damaged, missed, faults>>
    BY <1>11 DEF lineVars, sender, parser, history
  <2>2. ParserOK' /\ RestOfFrame'
    BY <1>1, <2>1, SameParser, RestStays
  <2> QED
    BY <1>2, <2>1, <2>2
<1> HIDE DEF Others
<1> QED
  BY <1>4, <1>5, <1>7, <1>8, <1>9, <1>10, <1>11, LineSteps

(* Every variable of the line keeps its type; what the parser has          *)
(* collected never outgrows what the header announces.                     *)
THEOREM LineTypeCorrect == LineSpec => []LineTypeOK
<1>1. LineInit => LineTypeOK /\ RestOfFrame /\ NothingLeftOver
  BY LineTypeInit
<1>2. LineTypeOK /\ RestOfFrame /\ NothingLeftOver /\ [LineNext]_lineVars
        => LineTypeOK' /\ RestOfFrame' /\ NothingLeftOver'
  BY LineTypeStep
<1> QED
  BY <1>1, <1>2, PTL DEF LineSpec

-----------------------------------------------------------------------------
(* FrameLine: each frame once and unaltered, or not at all. *)

Collected == [type |-> header[2], cmd |-> header[3], seq |-> header[4], payload |-> payload]

(* Only the second half of a checksum completes a frame: that of the text  *)
(* the parser has collected.                                               *)
LEMMA OnlyChecksumCompletes ==
  ASSUME ParserOK, NEW b \in Bytes, Feed(b)
  PROVE  \/ handed' = handed
         \/ /\ state = "READ_CRC" /\ b.half = 2 /\ b.of = header \o payload
            /\ handed' = Collected
<1>1. CASE WaitSof1(b) \/ WaitSof2(b)
  BY <1>1 DEF WaitSof1, WaitSof2, Become
<1>2. CASE ReadHeader(b) \/ ReadPayload(b)
  BY <1>2 DEF ReadHeader, ReadPayload
<1>3. CASE ReadCrc(b)
  <2> DEFINE read == Append(crcBytes, b)
  <2>1. state = "READ_CRC" /\ crcBytes \in Seq(Bytes)
    BY <1>3 DEF ReadCrc, ParserOK
  <2>2. \/ handed' = handed
        \/ Len(read) = CrcSize /\ handed' = IF Taken(read) THEN Collected ELSE handed
    BY <1>3 DEF ReadCrc, Collected
  <2>3. Len(read) = CrcSize => read[2] = b
    BY <2>1 DEF CrcSize
  <2>4. Taken(read) => read[2].half = 2 /\ read[2].of = header \o payload
    BY DEF Taken, HostTakes, DongleTakes, ChecksumFits
  <2> HIDE DEF read
  <2> QED
    BY <2>1, <2>2, <2>3, <2>4
<1> QED
  BY <1>1, <1>2, <1>3 DEF Feed

(* What has the text of a frame is the frame. *)
LEMMA CollectedIsFrame ==
  ASSUME NEW f \in Sendable, header \in Seq(Values), payload \in Seq(Values),
         Len(header) = HeaderSize, header \o payload = Text(f)
  PROVE  Collected = f
<1> DEFINE t == header \o payload
           n == Len(f.payload)
<1>1. /\ Len(t) = Len(header) + Len(payload)
      /\ \A i \in 1..Len(header) + Len(payload) :
           t[i] = IF i <= Len(header) THEN header[i] ELSE payload[i - Len(header)]
  BY ConcatProperties
<1>2. t = Text(f)
  OBVIOUS
<1> HIDE DEF t
<1>3. Len(header) = 6 /\ Len(payload) \in Nat
  BY DEF HeaderSize
<1>4. /\ Len(t) = 6 + n /\ n \in Nat /\ f.payload \in Seq(Values)
      /\ t[2] = f.type /\ t[3] = f.cmd /\ t[4] = f.seq
      /\ \A i \in 1..n : t[6 + i] = f.payload[i]
  BY <1>2, TextOf, SendableFrames DEF HeaderSize
<1> HIDE DEF n
<1>5. Len(payload) = n
  BY <1>1, <1>3, <1>4
<1>6. header[2] = f.type /\ header[3] = f.cmd /\ header[4] = f.seq
  <2>1. /\ 2 \in 1..Len(header) + Len(payload) /\ 2 <= Len(header)
        /\ 3 \in 1..Len(header) + Len(payload) /\ 3 <= Len(header)
        /\ 4 \in 1..Len(header) + Len(payload) /\ 4 <= Len(header)
    BY <1>3
  <2>2. t[2] = header[2] /\ t[3] = header[3] /\ t[4] = header[4]
    BY <1>1, <2>1
  <2> QED
    BY <1>4, <2>2
<1>7. \A i \in 1..n : payload[i] = f.payload[i]
  <2> TAKE i \in 1..n
  <2>1. /\ 6 + i \in 1..Len(header) + Len(payload) /\ ~(6 + i <= Len(header))
        /\ (6 + i) - Len(header) = i
    BY <1>3, <1>4, <1>5
  <2>2. t[6 + i] = payload[i]
    BY <1>1, <2>1
  <2> QED
    BY <1>4, <2>2
<1>8. payload = f.payload
  BY <1>4, <1>5, <1>7, SeqEqual DEF n
<1>9. f = [type |-> f.type, cmd |-> f.cmd, seq |-> f.seq, payload |-> f.payload]
  BY SendableFrames
<1> QED
  BY <1>6, <1>8, <1>9 DEF Collected

(* Nothing is returned before a frame ends, and then the frame.            *)
LEMMA TransmitReturns ==
  ASSUME LineTypeOK, NothingLeftOver, RestOfFrame, Transmit
  PROVE  handed' = handed \/ (handed' = frame /\ rest' = <<>>)
<1> DEFINE b == Head(rest)
<1>1. rest \in Seq(Bytes) /\ rest # <<>> /\ rest' = Tail(rest) /\ frame' = frame /\ Feed(b)
  BY DEF LineTypeOK, Transmit
<1>2. /\ frame \in Sendable /\ Gone + 1 \in 1..Size(frame)
      /\ b \in Bytes /\ b = OnTheLine(frame)[Gone + 1]
  BY <1>1, NextByte
<1>3. ParserOK
  BY LineIsTyped
<1> HIDE DEF b
<1>4. \/ handed' = handed
      \/ /\ state = "READ_CRC" /\ b.half = 2 /\ b.of = header \o payload
         /\ handed' = Collected
  BY <1>1, <1>2, <1>3, OnlyChecksumCompletes
<1>5. b.half = 2 => Gone + 1 = Size(frame) /\ b.of = Text(frame)
  BY <1>2, LastByte
<1>6. Gone + 1 = Size(frame) => rest' = <<>>
  BY <1>1, OneGone
<1>7. ASSUME state = "READ_CRC", header \o payload = Text(frame)
      PROVE  Collected = frame
  BY <1>2, <1>3, <1>7, CollectedIsFrame DEF ParserOK
<1> QED
  BY <1>4, <1>5, <1>6, <1>7

LEMMA NoiseReturnsNothing ==
  ASSUME ParserOK, NEW v, Plain(v) \in Bytes, Plain(v).half = 0, Feed(Plain(v))
  PROVE  handed' = handed
BY OnlyChecksumCompletes

LEMMA LineStepIsLossyStep ==
  ASSUME LineTypeOK, NothingLeftOver, RestOfFrame, [LineNext]_lineVars
  PROVE  [Lossy!Next]_<<IF rest = <<>> THEN NoFrame ELSE frame, handed>>
<1> DEFINE now == IF rest = <<>> THEN NoFrame ELSE frame
           then == IF rest' = <<>> THEN NoFrame ELSE frame'
<1>1. rest # <<>> => frame \in Sendable /\ frame # NoFrame
  BY SendableFrames DEF RestOfFrame
<1>2. ParserOK
  BY LineIsTyped
<1>3. SUFFICES \/ now = NoFrame /\ then \in LineFrames /\ handed' = NoFrame
               \/ now # NoFrame /\ handed' = now /\ then = NoFrame
               \/ now # NoFrame /\ then = NoFrame /\ handed' = handed
               \/ then = now /\ handed' = handed
  BY DEF Lossy!Next, Lossy!Send, Lossy!HandOver, Lossy!Lose
<1>4. ASSUME NEW type \in 1..4, NEW c \in Contents, Send(type, c)
      PROVE  now = NoFrame /\ then \in LineFrames /\ handed' = NoFrame
  <2>1. rest = <<>> /\ handed' = NoFrame
    BY <1>4 DEF Send
  <2>2. frame' \in LineFrames /\ rest' # <<>>
    BY <1>4, SendBegins, SendableFrames
  <2> QED
    BY <2>1, <2>2
<1>5. CASE Transmit
  <2>1. rest # <<>> /\ frame' = frame
    BY <1>5 DEF Transmit
  <2>2. handed' = handed \/ (handed' = frame /\ rest' = <<>>)
    BY <1>5, TransmitReturns
  <2> QED
    BY <1>1, <2>1, <2>2
<1>6. ASSUME frame' = frame, handed' = handed, rest = <<>> => rest' = <<>>
      PROVE  \/ now # NoFrame /\ then = NoFrame /\ handed' = handed
             \/ then = now /\ handed' = handed
  BY <1>1, <1>6
<1>7. ASSUME NEW v \in Values, Plain(v) \in Bytes, Plain(v).half = 0, Feed(Plain(v)),
             Damage(v) \/ Add(v)
      PROVE  frame' = frame /\ handed' = handed /\ (rest = <<>> => rest' = <<>>)
  <2>1. handed' = handed
    BY <1>2, <1>7, NoiseReturnsNothing
  <2>2. frame' = frame /\ (rest = <<>> => rest' = <<>>)
    BY <1>7 DEF Damage, Add, Fault
  <2> QED
    BY <2>1, <2>2
<1>8. CASE Drop \/ CutShort
  <2>1. frame' = frame /\ handed' = handed /\ rest # <<>>
    BY <1>8 DEF Drop, CutShort, Fault, parser
  <2> QED
    BY <1>6, <2>1
<1>9. CASE UNCHANGED lineVars
  <2>1. frame' = frame /\ handed' = handed /\ rest' = rest
    BY <1>9 DEF lineVars, sender, parser
  <2> QED
    BY <1>6, <2>1
<1> HIDE DEF now, then
<1> QED
  BY <1>4, <1>5, <1>6, <1>7, <1>8, <1>9, LineSteps

(* Whatever bytes the line damages, drops or adds, the parser returns each *)
(* frame once, unaltered and when it ends, or not at all.                  *)
THEOREM LineIsLossyLine == LineSpec => ImplementsLossyLine
<1>1. LineInit => Lossy!Init
  BY DEF LineInit, Lossy!Init
<1>2. LineInit => LineTypeOK /\ RestOfFrame /\ NothingLeftOver
  BY LineTypeInit
<1>3. LineTypeOK /\ RestOfFrame /\ NothingLeftOver /\ [LineNext]_lineVars
        => LineTypeOK' /\ RestOfFrame' /\ NothingLeftOver'
  BY LineTypeStep
<1>4. LineTypeOK /\ RestOfFrame /\ NothingLeftOver /\ [LineNext]_lineVars
        => [Lossy!Next]_<<IF rest = <<>> THEN NoFrame ELSE frame, handed>>
  BY LineStepIsLossyStep
<1> QED
  BY <1>1, <1>2, <1>3, <1>4, PTL DEF LineSpec, ImplementsLossyLine, Lossy!Spec

-----------------------------------------------------------------------------
(* FrameLine: a frame that the parser waits for, and that suffers nothing. *)

LEMMA ByteOf ==
  ASSUME NEW f \in Sendable, NEW i \in 1..HeaderSize + Len(f.payload)
  PROVE  /\ Text(f)[i] \in Values
         /\ OnTheLine(f)[2 + i].val = Text(f)[i]
<1>1. Text(f) \in Seq(Values) /\ Len(Text(f)) = HeaderSize + Len(f.payload)
  BY TextOf
<1>2. Text(f)[i] \in Values
  BY <1>1, ElementOfSeq
<1>3. OnTheLine(f)[2 + i] = Plain(Text(f)[i])
  BY OnTheLineOf
<1> QED
  BY <1>2, <1>3, PlainBytes

LEMMA StartBytes ==
  ASSUME NEW f \in Sendable
  PROVE  OnTheLine(f)[1].val = SOF1 /\ OnTheLine(f)[2].val = SOF2
<1>1. OnTheLine(f)[1] = Plain(SOF1) /\ OnTheLine(f)[2] = Plain(SOF2)
  BY OnTheLineOf
<1> QED
  BY <1>1, PlainBytes DEF Values, SOF1, SOF2

(* One more of the first n elements. *)
LEMMA OneMore ==
  ASSUME NEW S, NEW s \in Seq(S), NEW t, NEW v \in S, NEW n \in Nat,
         Len(s) = n, \A i \in 1..n : s[i] = t[i], v = t[n + 1]
  PROVE  /\ Append(s, v) \in Seq(S) /\ Len(Append(s, v)) = n + 1
         /\ \A i \in 1..n + 1 : Append(s, v)[i] = t[i]
<1>1. Append(s, v) \in Seq(S) /\ Len(Append(s, v)) = n + 1
  OBVIOUS
<1>2. ASSUME NEW i \in 1..n + 1
      PROVE  Append(s, v)[i] = t[i]
  <2>1. CASE i \in 1..n
    BY <2>1
  <2>2. CASE i = n + 1
    BY <2>2
  <2> QED
    BY <2>1, <2>2
<1> QED
  BY <1>1, <1>2

(* A header that has the bytes of a frame announces it. *)
LEMMA HeaderAnnounces ==
  ASSUME NEW f \in Sendable, NEW h, \A i \in 1..HeaderSize : h[i] = Text(f)[i]
  PROVE  /\ h[1] = VERSION /\ h[2] = f.type /\ LengthIn(h) = Len(f.payload)
         /\ ~HeaderRefused(h)
<1>1. /\ h[1] = Text(f)[1] /\ h[2] = Text(f)[2]
      /\ h[5] = Text(f)[5] /\ h[6] = Text(f)[6]
  BY DEF HeaderSize
<1>2. h[1] = VERSION /\ h[2] = f.type /\ h[5] + 256 * h[6] = Len(f.payload)
  BY <1>1, TextOf
<1>3. LengthIn(h) = Len(f.payload)
  BY <1>2 DEF LengthIn
<1>4. Len(f.payload) <= MaxPayload /\ Len(f.payload) \in Nat
  BY SendableFrames
<1>5. ~(LengthIn(h) > MaxPayload)
  BY <1>3, <1>4, LimitsAssumption
<1> QED
  BY <1>2, <1>3, <1>5 DEF HeaderRefused, HostRefusesHeader, DongleRefusesHeader

LEMMA TextCollected ==
  ASSUME NEW f \in Sendable, header \in Seq(Values), payload \in Seq(Values),
         HeaderOf(f, HeaderSize), PayloadOf(f, Len(f.payload))
  PROVE  header \o payload = Text(f)
<1> DEFINE t == header \o payload
           n == Len(f.payload)
<1>1. /\ t \in Seq(Values) /\ Len(t) = Len(header) + Len(payload)
      /\ \A i \in 1..Len(header) + Len(payload) :
           t[i] = IF i <= Len(header) THEN header[i] ELSE payload[i - Len(header)]
  BY ConcatProperties
<1> HIDE DEF t
<1>2. /\ Len(header) = 6 /\ \A i \in 1..6 : header[i] = Text(f)[i]
      /\ Len(payload) = n /\ \A i \in 1..n : payload[i] = f.payload[i]
  BY DEF HeaderOf, PayloadOf, HeaderSize
<1>3. /\ Text(f) \in Seq(Values) /\ Len(Text(f)) = 6 + n /\ n \in Nat
      /\ \A i \in 1..n : Text(f)[6 + i] = f.payload[i]
  BY TextOf, SendableFrames DEF HeaderSize
<1> HIDE DEF n
<1>4. Len(t) = 6 + n
  BY <1>1, <1>2
<1>5. ASSUME NEW i \in 1..Len(t)
      PROVE  t[i] = Text(f)[i]
  <2>1. i \in 1..Len(header) + Len(payload)
    BY <1>1
  <2>2. CASE i <= 6
    <3>1. i \in 1..6 /\ i <= Len(header)
      BY <1>2, <1>3, <1>4, <2>2
    <3> QED
      BY <1>1, <1>2, <2>1, <3>1
  <2>3. CASE ~(i <= 6)
    <3>1. i - 6 \in 1..n /\ 6 + (i - 6) = i /\ ~(i <= Len(header))
      BY <1>2, <1>3, <1>4, <2>3
    <3>2. t[i] = payload[i - 6]
      BY <1>1, <1>2, <2>1, <3>1
    <3>3. payload[i - 6] = f.payload[i - 6] /\ Text(f)[6 + (i - 6)] = f.payload[i - 6]
      BY <1>2, <1>3, <3>1
    <3> QED
      BY <3>1, <3>2, <3>3
  <2> QED
    BY <2>2, <2>3
<1>6. t = Text(f)
  BY <1>1, <1>3, <1>4, <1>5, SeqEqual
<1> QED
  BY <1>6 DEF t

(* What the next byte of the frame does to a parser that has kept up.      *)
LEMMA FollowsStart ==
  ASSUME ParserOK, NEW f \in Sendable, NEW b, Feed(b), NEW n \in 0..1,
         Follows(f, n), b = OnTheLine(f)[n + 1]
  PROVE  Follows(f, n + 1)'
<1>1. b.val = IF n = 0 THEN SOF1 ELSE SOF2
  BY StartBytes
<1>2. Len(f.payload) \in Nat
  BY SendableFrames
<1>3. CASE n = 0
  <2>1. state \in Waiting
    BY <1>2, <1>3 DEF Follows
  <2>2. WaitSof1(b) \/ WaitSof2(b)
    BY <2>1 DEF Feed, Waiting, ReadHeader, ReadPayload, ReadCrc
  <2>3. state' = "WAIT_SOF2"
    BY <1>1, <1>3, <2>2 DEF WaitSof1, WaitSof2, Become, SOF1, SOF2
  <2> QED
    BY <1>3, <2>3 DEF Follows
<1>4. CASE n = 1
  <2>1. state = "WAIT_SOF2"
    BY <1>2, <1>4 DEF Follows
  <2>2. WaitSof2(b)
    BY <2>1 DEF Feed, WaitSof1, ReadHeader, ReadPayload, ReadCrc
  <2>3. state' = "READ_HEADER" /\ header' = header
    BY <1>1, <1>4, <2>2 DEF WaitSof2, Become, SOF1, SOF2
  <2>4. header = <<>>
    BY <2>1 DEF ParserOK, NothingLeftOver, Waiting
  <2>5. HeaderOf(f, 0)'
    BY <2>3, <2>4 DEF HeaderOf
  <2> QED
    BY <1>4, <2>3, <2>5 DEF Follows
<1> QED
  BY <1>3, <1>4

LEMMA FollowsHeader ==
  ASSUME ParserOK, NEW f \in Sendable, NEW b, Feed(b), NEW n \in 2..7,
         Follows(f, n), b = OnTheLine(f)[n + 1]
  PROVE  Follows(f, n + 1)'
<1> DEFINE read == Append(header, b.val)
           l == Len(f.payload)
<1>1. l \in Nat
  BY SendableFrames
<1> HIDE DEF l
<1>2. state = "READ_HEADER" /\ HeaderOf(f, n - 2) /\ header \in Seq(Values)
  BY <1>1 DEF Follows, ParserOK, l
<1>3. b.val \in Values /\ b.val = Text(f)[n - 1]
  <2>1. n - 1 \in 1..HeaderSize + Len(f.payload) /\ 2 + (n - 1) = n + 1
    BY <1>1 DEF HeaderSize, l
  <2> QED
    BY <2>1, ByteOf
<1>4. /\ read \in Seq(Values) /\ Len(read) = n - 1
      /\ \A i \in 1..n - 1 : read[i] = Text(f)[i]
  <2> DEFINE k == n - 2
  <2>1. k \in Nat /\ k + 1 = n - 1
    OBVIOUS
  <2>2. Len(header) = k /\ \A i \in 1..k : header[i] = Text(f)[i]
    BY <1>2 DEF HeaderOf
  <2> HIDE DEF k
  <2>3. /\ Append(header, b.val) \in Seq(Values) /\ Len(Append(header, b.val)) = k + 1
        /\ \A i \in 1..k + 1 : Append(header, b.val)[i] = Text(f)[i]
    BY <1>2, <1>3, <2>1, <2>2, OneMore
  <2> QED
    BY <2>1, <2>3
<1>5. /\ \/ Len(read) < HeaderSize /\ header' = read /\ UNCHANGED <<state, payload, crcBytes>>
         \/ Len(read) = HeaderSize /\ HeaderRefused(read) /\ Reset
         \/ /\ Len(read) = HeaderSize /\ ~HeaderRefused(read)
            /\ header' = read /\ payload' = <<>> /\ crcBytes' = <<>>
            /\ state' = AfterHeader(read)
  BY <1>2 DEF Feed, WaitSof1, WaitSof2, ReadHeader, ReadPayload, ReadCrc
<1> HIDE DEF read
<1>6. CASE n < 7
  <2>1. header' = read /\ state' = "READ_HEADER"
    BY <1>2, <1>4, <1>5, <1>6 DEF HeaderSize
  <2>2. HeaderOf(f, n - 1)'
    BY <1>4, <2>1 DEF HeaderOf
  <2>3. (n + 1) - 2 = n - 1 /\ n + 1 \in 2..7
    BY <1>6
  <2> QED
    BY <2>1, <2>2, <2>3 DEF Follows
<1>7. CASE n = 7
  <2>1. Len(read) = HeaderSize /\ \A i \in 1..HeaderSize : read[i] = Text(f)[i]
    BY <1>4, <1>7 DEF HeaderSize
  <2>2. LengthIn(read) = l /\ ~HeaderRefused(read)
    BY <2>1, HeaderAnnounces DEF l
  <2>3. /\ header' = read /\ payload' = <<>> /\ crcBytes' = <<>>
        /\ state' = IF l = 0 THEN "READ_CRC" ELSE "READ_PAYLOAD"
    BY <1>5, <2>1, <2>2 DEF AfterHeader
  <2>4. HeaderOf(f, HeaderSize)' /\ PayloadOf(f, 0)'
    BY <2>1, <2>3 DEF HeaderOf, PayloadOf
  <2>5. CASE l = 0
    BY <1>7, <2>3, <2>4, <2>5 DEF Follows, l
  <2>6. CASE l # 0
    <3>1. n + 1 \in 8..(7 + l) /\ (n + 1) - 8 = 0
      BY <1>1, <1>7, <2>6
    <3> QED
      BY <2>3, <2>4, <2>6, <3>1 DEF Follows, l
  <2> QED
    BY <2>5, <2>6
<1> QED
  BY <1>6, <1>7

LEMMA FollowsPayload ==
  ASSUME ParserOK, NEW f \in Sendable, NEW b, Feed(b),
         NEW n \in 8..(7 + Len(f.payload)), Follows(f, n), b = OnTheLine(f)[n + 1]
  PROVE  Follows(f, n + 1)'
<1> DEFINE read == Append(payload, b.val)
           l == Len(f.payload)
<1>1. l \in Nat /\ n \in 8..(7 + l)
  BY SendableFrames
<1>2. /\ state = "READ_PAYLOAD" /\ HeaderOf(f, HeaderSize) /\ PayloadOf(f, n - 8)
      /\ payload \in Seq(Values) /\ crcBytes = <<>>
  BY <1>1 DEF Follows, ParserOK, NothingLeftOver
<1> HIDE DEF l
<1>3. b.val \in Values /\ b.val = f.payload[n - 7]
  <2>1. n - 1 \in 1..HeaderSize + Len(f.payload) /\ 2 + (n - 1) = n + 1
    BY <1>1 DEF HeaderSize, l
  <2>2. b.val \in Values /\ b.val = Text(f)[n - 1]
    BY <2>1, ByteOf
  <2>3. n - 7 \in 1..Len(f.payload) /\ HeaderSize + (n - 7) = n - 1
    BY <1>1 DEF HeaderSize, l
  <2>4. Text(f)[HeaderSize + (n - 7)] = f.payload[n - 7]
    BY <2>3, TextOf
  <2> QED
    BY <2>2, <2>3, <2>4
<1>4. /\ read \in Seq(Values) /\ Len(read) = n - 7
      /\ \A i \in 1..n - 7 : read[i] = f.payload[i]
  <2> DEFINE k == n - 8
  <2>1. k \in Nat /\ k + 1 = n - 7
    BY <1>1
  <2>2. Len(payload) = k /\ \A i \in 1..k : payload[i] = f.payload[i]
    BY <1>2 DEF PayloadOf
  <2> HIDE DEF k
  <2>3. /\ Append(payload, b.val) \in Seq(Values) /\ Len(Append(payload, b.val)) = k + 1
        /\ \A i \in 1..k + 1 : Append(payload, b.val)[i] = f.payload[i]
    BY <1>2, <1>3, <2>1, <2>2, OneMore
  <2> QED
    BY <2>1, <2>3
<1>5. LengthIn(header) = l
  BY <1>2, HeaderAnnounces DEF HeaderOf, l
<1>6. /\ payload' = read /\ header' = header /\ crcBytes' = crcBytes
      /\ state' = IF Len(read) = l THEN "READ_CRC" ELSE "READ_PAYLOAD"
  BY <1>2, <1>5 DEF Feed, WaitSof1, WaitSof2, ReadHeader, ReadPayload, ReadCrc
<1> HIDE DEF read
<1>7. HeaderOf(f, HeaderSize)' /\ PayloadOf(f, n - 7)'
  BY <1>2, <1>4, <1>6 DEF HeaderOf, PayloadOf
<1>8. CASE n = 7 + l
  <2>1. n + 1 = 8 + l /\ n - 7 = l /\ state' = "READ_CRC" /\ crcBytes' = <<>>
    BY <1>1, <1>2, <1>4, <1>6, <1>8
  <2>2. PayloadOf(f, l)'
    BY <1>7, <2>1
  <2> QED
    BY <1>7, <2>1, <2>2 DEF Follows, l
<1>9. CASE n # 7 + l
  <2>1. n + 1 \in 8..(7 + l) /\ (n + 1) - 8 = n - 7 /\ state' = "READ_PAYLOAD"
    BY <1>1, <1>4, <1>6, <1>9
  <2> QED
    BY <1>7, <2>1 DEF Follows, l
<1> QED
  BY <1>8, <1>9

LEMMA FollowsChecksum ==
  ASSUME ParserOK, NEW f \in Sendable, NEW b \in Bytes, Feed(b),
         NEW n \in {8 + Len(f.payload), 9 + Len(f.payload)},
         Follows(f, n), receiver \in {"host", "dongle"}, f.type \in TypesTo(receiver),
         b = OnTheLine(f)[n + 1]
  PROVE  IF n = 8 + Len(f.payload) THEN Follows(f, n + 1)' ELSE handed' = f
<1> DEFINE read == Append(crcBytes, b)
           l == Len(f.payload)
<1>1. l \in Nat /\ n \in {8 + l, 9 + l}
  BY SendableFrames
<1>2. /\ state = "READ_CRC" /\ HeaderOf(f, HeaderSize) /\ PayloadOf(f, Len(f.payload))
      /\ crcBytes = IF n = 8 + l THEN <<>> ELSE <<Half(1, Text(f))>>
  BY <1>1 DEF Follows
<1> HIDE DEF l
<1>3. /\ header \in Seq(Values) /\ payload \in Seq(Values) /\ crcBytes \in Seq(Bytes)
  BY DEF ParserOK
<1>4. /\ \/ /\ Len(read) < CrcSize /\ crcBytes' = read
            /\ UNCHANGED <<state, header, payload, handed>>
         \/ /\ Len(read) = CrcSize
            /\ handed' = IF Taken(read) THEN Collected ELSE handed
  BY <1>2 DEF Feed, WaitSof1, WaitSof2, ReadHeader, ReadPayload, ReadCrc, Collected
<1>5. Size(f) = 10 + l
  BY SizeOf DEF l
<1>8. /\ Len(read) = Len(crcBytes) + 1 /\ read[Len(crcBytes) + 1] = b
      /\ \A i \in 1..Len(crcBytes) : read[i] = crcBytes[i]
  BY <1>3
<1> DEFINE h1 == Half(1, Text(f))
<1> HIDE DEF read, h1
<1>6. CASE n = 8 + l
  <2>1. b = h1
    <3>1. n + 1 = Size(f) - 1
      BY <1>1, <1>5, <1>6
    <3> QED
      BY <3>1, OnTheLineOf DEF h1
  <2>2. read = <<h1>> /\ Len(read) = 1
    BY <1>2, <1>6, <2>1 DEF read
  <2>3. crcBytes' = <<h1>> /\ state' = state /\ header' = header /\ payload' = payload
    BY <1>4, <2>2 DEF CrcSize
  <2>4. HeaderOf(f, HeaderSize)' /\ PayloadOf(f, Len(f.payload))'
    BY <1>2, <2>3 DEF HeaderOf, PayloadOf
  <2>5. n + 1 = 9 + l /\ n + 1 # 8 + l
    BY <1>1, <1>6
  <2>6. Follows(f, n + 1)'
    BY <1>2, <2>3, <2>4, <2>5 DEF Follows, l, h1
  <2> QED
    BY <1>6, <2>6 DEF l
<1>7. CASE n = 9 + l
  <2>1. b = Half(2, Text(f))
    <3>1. n + 1 = Size(f)
      BY <1>1, <1>5, <1>7
    <3> QED
      BY <3>1, OnTheLineOf
  <2>2. n # 8 + l
    BY <1>1, <1>7
  <2>3. crcBytes = <<h1>>
    BY <1>2, <2>2 DEF h1
  <2>4. Len(crcBytes) = 1 /\ crcBytes[1] = h1
    BY <2>3
  <2>5. Len(read) = 2 /\ read[1] = Half(1, Text(f)) /\ read[2] = Half(2, Text(f))
    BY <1>8, <2>1, <2>4 DEF h1
  <2>6. header \o payload = Text(f)
    BY <1>2, <1>3, TextCollected
  <2>7. ChecksumFits(read)
    BY <2>5, <2>6, ChecksumBytes DEF ChecksumFits
  <2>8. header[1] = VERSION /\ header[2] = f.type
    BY <1>2, HeaderAnnounces DEF HeaderOf
  <2>9. f.type \in 1..4
    BY SendableFrames
  <2>10. Taken(read)
    BY <2>7, <2>8, <2>9
       DEF Taken, HostTakes, DongleTakes, TypesTo, REQUEST, RESPONSE, EVENT, ERROR
  <2>11. handed' = Collected
    BY <1>4, <2>5, <2>10 DEF CrcSize
  <2>12. Collected = f
    BY <1>2, <1>3, <2>6, CollectedIsFrame DEF HeaderOf
  <2> QED
    BY <2>2, <2>11, <2>12 DEF l
<1> QED
  BY <1>1, <1>6, <1>7

LEMMA KeepsUpInit ==
  ASSUME LineInit
  PROVE  KeepsUp
BY DEF LineInit, KeepsUp

LEMMA KeepsUpTransmit ==
  ASSUME LineTypeOK, RestOfFrame, NothingLeftOver, KeepsUp, Transmit
  PROVE  KeepsUp'
<1>1. /\ rest # <<>> /\ Feed(Head(rest)) /\ rest' = Tail(rest)
      /\ UNCHANGED <<receiver, frame, awaited, damaged>>
  BY DEF Transmit
<1>2. /\ rest \in Seq(Bytes) /\ frame \in Sendable /\ Gone \in Nat
      /\ Gone + 1 \in 1..Size(frame) /\ Head(rest) \in Bytes
      /\ Head(rest) = OnTheLine(frame)[Gone + 1] /\ receiver \in {"host", "dongle"}
  BY <1>1, NextByte DEF LineTypeOK
<1>3. PICK f \in Sendable, n \in Nat, b \in Bytes : f = frame /\ n = Gone /\ b = Head(rest)
  BY <1>2
<1>4. Feed(b) /\ b = OnTheLine(f)[n + 1] /\ n + 1 \in 1..Size(f)
  BY <1>1, <1>2, <1>3
<1>5. frame' = f /\ Gone' = n + 1 /\ (rest' = <<>> <=> n + 1 = Size(f))
  BY <1>1, <1>2, <1>3, OneGone
<1>6. ParserOK
  BY LineIsTyped
<1>7. Size(f) = 10 + Len(f.payload) /\ Len(f.payload) \in Nat
  BY SizeOf
<1>8. ASSUME awaited, ~damaged
      PROVE  IF rest' = <<>> THEN handed' = f ELSE Follows(f, n + 1)'
  <2>1. Follows(f, n) /\ f.type \in TypesTo(receiver)
    BY <1>1, <1>3, <1>8 DEF KeepsUp
  <2>2. CASE n \in 0..1
    BY <1>4, <1>5, <1>6, <1>7, <2>1, <2>2, FollowsStart
  <2>3. CASE n \in 2..7
    BY <1>4, <1>5, <1>6, <1>7, <2>1, <2>3, FollowsHeader
  <2>4. CASE n \in 8..(7 + Len(f.payload))
    BY <1>4, <1>5, <1>6, <1>7, <2>1, <2>4, FollowsPayload
  <2>5. CASE n \in {8 + Len(f.payload), 9 + Len(f.payload)}
    <3>1. IF n = 8 + Len(f.payload) THEN Follows(f, n + 1)' ELSE handed' = f
      BY <1>2, <1>4, <1>6, <2>1, <2>5, FollowsChecksum
    <3> QED
      BY <1>5, <1>7, <2>5, <3>1
  <2> QED
    BY <1>4, <1>7, <2>2, <2>3, <2>4, <2>5
<1>9. Follows(f, n + 1)' => Follows(frame, Gone)'
  BY <1>5 DEF Follows, HeaderOf, PayloadOf
<1>10. awaited /\ ~damaged => f.type \in TypesTo(receiver)
  BY <1>1, <1>3 DEF KeepsUp
<1>11. receiver' = receiver /\ awaited' = awaited /\ damaged' = damaged
  BY <1>1
<1> QED
  BY <1>5, <1>8, <1>9, <1>10, <1>11 DEF KeepsUp, TypesTo

LEMMA KeepsUpStep ==
  ASSUME LineTypeOK, RestOfFrame, NothingLeftOver, KeepsUp, [LineNext]_lineVars
  PROVE  KeepsUp'
<1>1. ASSUME NEW type \in 1..4, NEW c \in Contents, Send(type, c)
      PROVE  KeepsUp'
  <2>1. frame' \in Sendable /\ rest' # <<>> /\ Gone' = 0
    BY <1>1, SendBegins
  <2>2. frame' = FrameOf(type, c) /\ type \in TypesTo(receiver)
    BY <1>1 DEF Send
  <2>3. frame'.type \in TypesTo(receiver)
    BY <2>2 DEF FrameOf
  <2>4. receiver' = receiver /\ state' = state /\ (awaited' => state \in Waiting)
    BY <1>1 DEF Send
  <2>5. TypesTo(receiver)' = TypesTo(receiver)
    BY <2>4 DEF TypesTo
  <2>6. awaited' => Follows(frame, Gone)'
    BY <2>1, <2>4 DEF Follows, Waiting
  <2> QED
    BY <2>1, <2>3, <2>5, <2>6 DEF KeepsUp
<1>2. CASE Transmit
  BY <1>2, KeepsUpTransmit
<1>3. ASSUME Fault
      PROVE  KeepsUp'
  BY <1>3 DEF Fault, KeepsUp
<1>4. CASE UNCHANGED lineVars
  BY <1>4 DEF lineVars, sender, parser, history, KeepsUp, Follows, HeaderOf, PayloadOf,
              Gone, TypesTo, LengthIn
<1> QED
  BY <1>1, <1>2, <1>3, <1>4 DEF LineNext, Damage, Add, Drop, CutShort

(* A frame that begins while the parser waits for one, and whose bytes all *)
(* arrive and nothing else, is returned: whatever is in it, and whatever   *)
(* the parser has been through.                                            *)
THEOREM UndamagedFramesArrive == LineSpec => []UndamagedArrives
<1> DEFINE I == LineTypeOK /\ RestOfFrame /\ NothingLeftOver /\ KeepsUp
<1>1. LineInit => I
  BY LineTypeInit, KeepsUpInit
<1>2. I /\ [LineNext]_lineVars => I'
  BY LineTypeStep, KeepsUpStep
<1>3. I => UndamagedArrives
  BY DEF KeepsUp, UndamagedArrives
<1> HIDE DEF I
<1> QED
  BY <1>1, <1>2, <1>3, PTL DEF LineSpec

-----------------------------------------------------------------------------
(* FrameLine: what a false header costs. *)

LEMMA LeftOf ==
  /\ state = "READ_HEADER" => Left = HeaderSize - Len(header) + MaxPayload + CrcSize
  /\ state = "READ_PAYLOAD" => Left = LengthIn(header) - Len(payload) + CrcSize
  /\ state = "READ_CRC" => Left = CrcSize - Len(crcBytes)
  /\ state \in Waiting => Left = 0
BY DEF Left, Waiting

LeftInBounds ==
  /\ Left \in Nat /\ Left <= Longest /\ Longest \in Nat
  /\ state \notin Waiting => Left >= 1

LEMMA LeftBounded ==
  ASSUME ParserOK
  PROVE  LeftInBounds
<1>1. MaxPayload \in Nat
  BY LimitsAssumption
<1>2. Len(header) \in Nat /\ Len(payload) \in Nat /\ Len(crcBytes) \in Nat
  BY DEF ParserOK
<1>3. CASE state \in Waiting
  BY <1>1, <1>3, LeftOf DEF LeftInBounds, Longest, HeaderSize, CrcSize
<1>4. CASE state = "READ_HEADER"
  <2>1. Left = 6 - Len(header) + MaxPayload + 2 /\ Len(header) < 6
    BY <1>4, LeftOf DEF ParserOK, HeaderSize, CrcSize
  <2> QED
    BY <1>1, <1>2, <2>1 DEF LeftInBounds, Longest, HeaderSize, CrcSize
<1>5. CASE state = "READ_PAYLOAD"
  <2>1. /\ Left = LengthIn(header) - Len(payload) + 2 /\ Len(payload) < LengthIn(header)
        /\ LengthIn(header) <= MaxPayload
    BY <1>5, LeftOf DEF ParserOK, NothingLeftOver, CrcSize
  <2>2. LengthIn(header) \in Nat
    BY <1>5, LengthInNat DEF ParserOK
  <2> QED
    BY <1>1, <1>2, <2>1, <2>2 DEF LeftInBounds, Longest, HeaderSize, CrcSize
<1>6. CASE state = "READ_CRC"
  <2>1. Left = 2 - Len(crcBytes) /\ Len(crcBytes) < 2
    BY <1>6, LeftOf DEF ParserOK, CrcSize
  <2> QED
    BY <1>1, <1>2, <2>1 DEF LeftInBounds, Longest, HeaderSize, CrcSize
<1> QED
  BY <1>3, <1>4, <1>5, <1>6 DEF ParserOK

LEMMA LeftBoundedNext ==
  (ParserOK => LeftInBounds)'
<1>1. ParserOK => LeftInBounds
  BY LeftBounded
<1> QED
  BY <1>1, PTL

(* A byte that a parser reads leaves it with one less to read, or waiting  *)
(* for a start.                                                            *)
LEMMA LeftFalls ==
  ASSUME ParserOK, NEW b \in Bytes, Feed(b), state \notin Waiting
  PROVE  \/ state' \notin Waiting /\ Left' + 1 <= Left
         \/ state' = "WAIT_SOF1"
<1>0. MaxPayload \in Nat
  BY LimitsAssumption
<1>1. Len(header) \in Nat /\ Len(payload) \in Nat /\ Len(crcBytes) \in Nat
  BY DEF ParserOK
<1>2. ParserOK'
  BY FeedParser
<1>3. /\ state' = "READ_HEADER" => Left' = HeaderSize - Len(header') + MaxPayload + CrcSize
      /\ state' = "READ_PAYLOAD" => Left' = LengthIn(header') - Len(payload') + CrcSize
      /\ state' = "READ_CRC" => Left' = CrcSize - Len(crcBytes')
  BY DEF Left
<1>4. CASE ReadHeader(b)
  <2> DEFINE read == Append(header, b.val)
  <2>1. state = "READ_HEADER" /\ header \in Seq(Values) /\ b.val \in Values
    BY <1>4 DEF ReadHeader, ParserOK, Bytes
  <2>2. Len(read) = Len(header) + 1
    BY <2>1
  <2>3. Left = 6 - Len(header) + MaxPayload + 2
    BY <2>1, LeftOf DEF HeaderSize, CrcSize
  <2>4. \/ Len(read) < HeaderSize /\ header' = read /\ state' = state
        \/ Reset
        \/ /\ Len(read) = HeaderSize /\ ~HeaderRefused(read)
           /\ header' = read /\ payload' = <<>> /\ crcBytes' = <<>>
           /\ state' = AfterHeader(read)
    BY <1>4 DEF ReadHeader
  <2> HIDE DEF read
  <2>5. CASE Len(read) < HeaderSize /\ header' = read /\ state' = state
    <3>1. Left' = 6 - (Len(header) + 1) + MaxPayload + 2
      BY <1>3, <2>1, <2>2, <2>5 DEF HeaderSize, CrcSize
    <3> QED
      BY <1>0, <1>1, <2>1, <2>3, <2>5, <3>1 DEF Waiting
  <2>6. CASE Reset
    BY <2>6 DEF Reset
  <2>7. CASE /\ Len(read) = HeaderSize /\ payload' = <<>> /\ crcBytes' = <<>>
             /\ state' = AfterHeader(read)
    <3>1. state' \in {"READ_CRC", "READ_PAYLOAD"}
      BY <2>7 DEF AfterHeader
    <3>2. Len(payload') = 0 /\ Len(crcBytes') = 0
      BY <2>7, NoBytes
    <3>3. Left = 1 + MaxPayload + 2
      <4>1. PICK k \in Nat : k = Len(header)
        BY <1>1
      <4>2. k + 1 = 6 /\ Left = 6 - k + MaxPayload + 2
        BY <2>2, <2>3, <2>7, <4>1 DEF HeaderSize
      <4>3. k = 5
        BY <4>2
      <4> QED
        BY <1>0, <4>2, <4>3
    <3>4. CASE state' = "READ_CRC"
      <4>1. Left' = 2
        BY <1>3, <3>2, <3>4 DEF CrcSize
      <4> QED
        BY <1>0, <3>3, <3>4, <4>1 DEF Waiting
    <3>5. CASE state' = "READ_PAYLOAD"
      <4>1. Left' = LengthIn(header') - 0 + 2
        BY <1>3, <3>2, <3>5 DEF CrcSize
      <4>2. LengthIn(header') <= MaxPayload
        BY <1>2, <3>5 DEF ParserOK, NothingLeftOver
      <4>3. LengthIn(header') \in Nat
        <5>1. header' \in Seq(Values) /\ Len(header') = HeaderSize
          BY <1>2, <3>5 DEF ParserOK
        <5> QED
          BY <5>1, LengthInNat
      <4> QED
        BY <1>0, <3>3, <3>5, <4>1, <4>2, <4>3 DEF Waiting
    <3> QED
      BY <3>1, <3>4, <3>5
  <2> QED
    BY <2>4, <2>5, <2>6, <2>7
<1>5. CASE ReadPayload(b)
  <2>1. state = "READ_PAYLOAD" /\ header \in Seq(Values) /\ Len(header) = HeaderSize
    BY <1>5 DEF ReadPayload, ParserOK
  <2>2. LengthIn(header) \in Nat
    BY <2>1, LengthInNat
  <2>3. Left = LengthIn(header) - Len(payload) + 2 /\ Len(payload) < LengthIn(header)
    BY <2>1, LeftOf DEF ParserOK, CrcSize
  <2>4. /\ payload' = Append(payload, b.val) /\ header' = header /\ crcBytes' = crcBytes
        /\ state' = IF Len(payload') = LengthIn(header) THEN "READ_CRC" ELSE state
    BY <1>5 DEF ReadPayload
  <2>5. Len(payload') = Len(payload) + 1
    <3>1. payload \in Seq(Values) /\ b.val \in Values
      BY DEF ParserOK, Bytes
    <3> QED
      BY <2>4, <3>1
  <2>6. CASE Len(payload') = LengthIn(header)
    <3>1. state' = "READ_CRC" /\ Len(crcBytes') = 0
      <4>1. crcBytes' = <<>>
        BY <2>1, <2>4 DEF ParserOK, NothingLeftOver
      <4> QED
        BY <2>4, <2>6, <4>1
    <3>2. Left' = 2
      BY <1>3, <3>1 DEF CrcSize
    <3>3. Left = 3
      BY <1>1, <2>2, <2>3, <2>5, <2>6
    <3> QED
      BY <3>1, <3>2, <3>3 DEF Waiting
  <2>7. CASE Len(payload') # LengthIn(header)
    <3>1. state' = "READ_PAYLOAD"
      BY <2>1, <2>4, <2>7
    <3>2. LengthIn(header') = LengthIn(header)
      BY <2>4
    <3>3. Left' = LengthIn(header) - (Len(payload) + 1) + 2
      BY <1>3, <2>5, <3>1, <3>2 DEF CrcSize
    <3> QED
      BY <1>1, <2>2, <2>3, <3>1, <3>3 DEF Waiting
  <2> QED
    BY <2>6, <2>7
<1>6. CASE ReadCrc(b)
  <2> DEFINE read == Append(crcBytes, b)
  <2>1. state = "READ_CRC" /\ crcBytes \in Seq(Bytes)
    BY <1>6 DEF ReadCrc, ParserOK
  <2>2. Len(read) = Len(crcBytes) + 1
    BY <2>1
  <2>3. Left = 2 - Len(crcBytes)
    BY <2>1, LeftOf DEF CrcSize
  <2>4. \/ crcBytes' = read /\ state' = state
        \/ Reset
    BY <1>6 DEF ReadCrc
  <2> HIDE DEF read
  <2>5. CASE crcBytes' = read /\ state' = state
    <3>1. Left' = 2 - (Len(crcBytes) + 1)
      BY <1>3, <2>1, <2>2, <2>5 DEF CrcSize
    <3> QED
      BY <1>1, <2>1, <2>3, <2>5, <3>1 DEF Waiting
  <2>6. CASE Reset
    BY <2>6 DEF Reset
  <2> QED
    BY <2>4, <2>5, <2>6
<1> QED
  BY <1>4, <1>5, <1>6 DEF Feed, WaitSof1, WaitSof2, Waiting

(* Without a start the parser goes on waiting. *)
LEMMA NoStartNoFrame ==
  ASSUME state = "WAIT_SOF1", NEW b, b.val # SOF1, Feed(b)
  PROVE  state' = "WAIT_SOF1"
BY DEF Feed, WaitSof1, WaitSof2, ReadHeader, ReadPayload, ReadCrc, Become

LEMMA PlainGoesOn ==
  ASSUME NEW f \in Sendable, IsPlain(f), NEW i \in 2..Size(f)
  PROVE  OnTheLine(f)[i].val # SOF1
<1>1. Len(OnTheLine(f)) = Size(f)
  BY OnTheLineOf
<1> QED
  BY <1>1 DEF IsPlain

LEMMA LossesInit ==
  ASSUME LineInit
  PROVE  LossesPaid
<1>1. Longest \in Nat
  BY LimitsAssumption DEF Longest, HeaderSize, CrcSize
<1>2. rest = <<>> /\ missed = 0 /\ state \in Waiting
  BY DEF LineInit, Waiting
<1> QED
  BY <1>1, <1>2 DEF LossesPaid

(* While a plain frame is under way that began in a false one, the false   *)
(* one goes on, or has ended and left the parser waiting.                  *)
LEMMA FalseFrameGoesOn ==
  ASSUME LineTypeOK, RestOfFrame, NothingLeftOver, LossesPaid, Transmit,
         ~damaged, ~awaited, IsPlain(frame)
  PROVE  \/ state' \notin Waiting /\ 10 * missed + (Gone + 1) + Left' <= Longest
         \/ state' = "WAIT_SOF1" /\ 10 * missed < Longest
<1> DEFINE b == Head(rest)
<1>1. rest \in Seq(Bytes) /\ rest # <<>> /\ Feed(b) /\ missed \in Nat
  BY DEF Transmit, LineTypeOK
<1>2. /\ frame \in Sendable /\ Gone \in Nat /\ Gone + 1 \in 1..Size(frame)
      /\ b \in Bytes /\ b = OnTheLine(frame)[Gone + 1]
  BY <1>1, NextByte
<1>3. ParserOK /\ ParserOK'
  BY <1>1, <1>2, LineIsTyped, FeedParser
<1>4. Left \in Nat /\ Left' \in Nat /\ Longest \in Nat /\ (state \notin Waiting => Left >= 1)
  <2>1. Left \in Nat /\ Longest \in Nat /\ (state \notin Waiting => Left >= 1)
    BY <1>3, LeftBounded DEF LeftInBounds
  <2>2. Left' \in Nat
    BY <1>3, LeftBoundedNext DEF LeftInBounds
  <2> QED
    BY <2>1, <2>2
<1> HIDE DEF b
<1>5. \/ state \notin Waiting /\ 10 * missed + Gone + Left <= Longest
      \/ state = "WAIT_SOF1" /\ Gone >= 1 /\ 10 * missed < Longest
  BY <1>1 DEF LossesPaid
<1>6. CASE state \notin Waiting /\ 10 * missed + Gone + Left <= Longest
  <2>1. \/ state' \notin Waiting /\ Left' + 1 <= Left
        \/ state' = "WAIT_SOF1"
    BY <1>1, <1>2, <1>3, <1>6, LeftFalls
  <2>0. PICK x \in Nat : x = Left'
    BY <1>4
  <2>2. /\ missed \in Nat /\ Gone \in Nat /\ Left \in Nat
        /\ Longest \in Nat /\ Left >= 1 /\ 10 * missed + Gone + Left <= Longest
    BY <1>1, <1>2, <1>4, <1>6
  <2>3. 10 * missed < Longest
    BY <2>2
  <2>4. x + 1 <= Left => 10 * missed + (Gone + 1) + x <= Longest
    BY <2>2
  <2> QED
    BY <2>0, <2>1, <2>3, <2>4
<1>7. CASE state = "WAIT_SOF1" /\ Gone >= 1 /\ 10 * missed < Longest
  <2>1. Size(frame) \in Nat
    BY <1>2, SizeOf
  <2>2. Gone + 1 \in 2..Size(frame)
    BY <1>2, <1>7, <2>1
  <2>3. b.val # SOF1
    BY <1>2, <2>2, PlainGoesOn
  <2> QED
    BY <1>1, <1>7, <2>3, NoStartNoFrame
<1> QED
  BY <1>5, <1>6, <1>7

LEMMA LossesTransmit ==
  ASSUME LineTypeOK, RestOfFrame, NothingLeftOver, KeepsUp, LossesPaid, Transmit
  PROVE  LossesPaid'
<1>1. /\ rest \in Seq(Bytes) /\ rest # <<>> /\ rest' = Tail(rest) /\ Feed(Head(rest))
      /\ frame' = frame /\ awaited' = awaited /\ damaged' = damaged /\ missed \in Nat
  BY DEF Transmit, LineTypeOK
<1>2. /\ frame \in Sendable /\ Gone \in Nat /\ Head(rest) \in Bytes
      /\ Gone' = Gone + 1 /\ (rest' = <<>> <=> Gone + 1 = Size(frame))
  BY <1>1, NextByte, OneGone
<1>3. /\ rest' # <<>> => missed' = missed
      /\ rest' = <<>> =>
           \/ missed' = 0
           \/ handed' = NoFrame /\ ~damaged /\ IsPlain(frame) /\ missed' = missed + 1
  <2>1. missed' = IF rest' # <<>> THEN missed
                  ELSE IF handed' # NoFrame \/ damaged \/ ~IsPlain(frame) THEN 0
                  ELSE missed + 1
    BY DEF Transmit
  <2> DEFINE zero == handed' # NoFrame \/ damaged \/ ~IsPlain(frame)
  <2>2. zero \/ (handed' = NoFrame /\ ~damaged /\ IsPlain(frame))
    OBVIOUS
  <2>3. missed' = IF rest' # <<>> THEN missed ELSE IF zero THEN 0 ELSE missed + 1
    BY <2>1
  <2> HIDE DEF zero
  <2> QED
    BY <2>2, <2>3
<1>4. ParserOK'
  BY <1>1, <1>2, LineIsTyped, FeedParser
<1>5. Left' \in Nat /\ Left' <= Longest /\ Longest \in Nat
  BY <1>4, LeftBoundedNext DEF LeftInBounds, Longest
<1>6. (damaged => missed = 0) /\ 10 * missed <= Longest + 9
  BY DEF LossesPaid
<1>7. Longest' = Longest
  BY DEF Longest
<1>8. IsPlain(frame)' <=> IsPlain(frame)
  BY <1>1 DEF IsPlain, OnTheLine, Text, Plain, Half
<1>9. CASE rest' # <<>>
  <2>1. missed' = missed
    BY <1>3, <1>9
  <2>2. ASSUME ~damaged', ~awaited', IsPlain(frame)'
        PROVE  \/ state' \notin Waiting /\ 10 * missed' + Gone' + Left' <= Longest
               \/ state' = "WAIT_SOF1" /\ Gone' >= 1 /\ 10 * missed' < Longest
    BY <1>1, <1>2, <1>8, <2>1, <2>2, FalseFrameGoesOn
  <2> QED
    BY <1>1, <1>6, <1>7, <1>9, <2>1, <2>2 DEF LossesPaid
<1>10. CASE rest' = <<>> /\ missed' = 0
  <2>1. 10 * missed' = 0
    BY <1>10
  <2>2. 10 * missed' <= Longest + 9 /\ 10 * missed' + Left' <= Longest
    <3>1. PICK x \in Nat : x = Left' /\ x <= Longest
      BY <1>5
    <3>2. x <= Longest
      BY <3>1
    <3>3. Longest \in Nat
      BY <1>5
    <3>4. 0 <= Longest + 9 /\ 0 + x <= Longest
      BY <3>2, <3>3
    <3>5. 10 * missed' = 0
      BY <2>1
    <3> QED
      BY <3>1, <3>4, <3>5
  <2> QED
    BY <1>7, <1>10, <2>2 DEF LossesPaid
<1>11. CASE rest' = <<>> /\ handed' = NoFrame /\ ~damaged /\ IsPlain(frame)
            /\ missed' = missed + 1
  <2>1. ~awaited
    <3>1. KeepsUp' /\ frame # NoFrame
      BY <1>2, KeepsUpTransmit, SendableFrames
    <3> QED
      BY <1>1, <1>11, <3>1 DEF KeepsUp
  <2>2. \/ state' \notin Waiting /\ 10 * missed + (Gone + 1) + Left' <= Longest
        \/ state' = "WAIT_SOF1" /\ 10 * missed < Longest
    BY <1>11, <2>1, FalseFrameGoesOn
  <2>3. Gone + 1 >= 10
    BY <1>2, <1>11, SizeOf
  <2>4. 10 * missed' = 10 * missed + 10
    BY <1>1, <1>11
  <2> DEFINE m == 10 * missed
  <2>0. PICK x \in Nat : x = Left'
    BY <1>5
  <2>7. m \in Nat /\ Gone \in Nat /\ Longest \in Nat
    BY <1>1, <1>2, <1>5
  <2> HIDE DEF m
  <2>8. 10 * missed' = m + 10
    BY <2>4 DEF m
  <2>9. \/ state' \notin Waiting /\ m + (Gone + 1) + x <= Longest
        \/ state' = "WAIT_SOF1" /\ m < Longest
    BY <2>0, <2>2 DEF m
  <2>5. state' \notin Waiting => m + 10 + x <= Longest
    BY <2>3, <2>7, <2>9 DEF Waiting
  <2>6. m + 10 <= Longest + 9
    BY <2>3, <2>7, <2>9
  <2> QED
    BY <1>1, <1>7, <1>11, <2>0, <2>5, <2>6, <2>8 DEF LossesPaid
<1> QED
  BY <1>3, <1>9, <1>10, <1>11

LEMMA LossesStep ==
  ASSUME LineTypeOK, RestOfFrame, NothingLeftOver, KeepsUp, LossesPaid,
         [LineNext]_lineVars
  PROVE  LossesPaid'
<1>1. missed \in Nat /\ ParserOK /\ Longest' = Longest
  BY LineIsTyped DEF LineTypeOK, Longest
<1>2. ParserOK'
  <2>1. LineTypeOK' /\ NothingLeftOver'
    BY LineTypeStep
  <2> QED
    BY <2>1 DEF LineTypeOK, ParserOK
<1>3. Left' \in Nat /\ Left' <= Longest /\ Longest \in Nat
  BY <1>2, LeftBoundedNext DEF LeftInBounds, Longest
<1>4. ASSUME NEW type \in 1..4, NEW c \in Contents, Send(type, c)
      PROVE  LossesPaid'
  <2>1. rest' # <<>> /\ Gone' = 0
    BY <1>4, SendBegins
  <2>2. /\ rest = <<>> /\ damaged' = FALSE /\ (~awaited' => state \notin Waiting)
        /\ missed' = missed /\ state' = state
        /\ header' = header /\ payload' = payload /\ crcBytes' = crcBytes
    BY <1>4 DEF Send
  <2>3. Left' = Left
    BY <2>2 DEF Left, LengthIn
  <2>4. 10 * missed <= Longest + 9 /\ (state \notin Waiting => 10 * missed + Left <= Longest)
    BY <2>2 DEF LossesPaid
  <2>5. ~awaited' => state' \notin Waiting /\ 10 * missed' + Gone' + Left' <= Longest
    BY <1>1, <1>3, <2>1, <2>2, <2>3, <2>4
  <2> QED
    BY <1>1, <2>1, <2>2, <2>4, <2>5 DEF LossesPaid
<1>5. CASE Transmit
  BY <1>5, LossesTransmit
<1>6. ASSUME Fault
      PROVE  LossesPaid'
  <2>1. damaged' /\ missed' = 0
    BY <1>6 DEF Fault
  <2>2. 10 * missed' <= Longest + 9 /\ 10 * missed' + Left' <= Longest
    <3>1. PICK x \in Nat : x = Left' /\ x <= Longest
      BY <1>3
    <3>2. x <= Longest
      BY <3>1
    <3>3. Longest \in Nat
      BY <1>3
    <3>4. 0 <= Longest + 9 /\ 0 + x <= Longest
      BY <3>2, <3>3
    <3>5. 10 * missed' = 0
      BY <2>1
    <3> QED
      BY <3>1, <3>4, <3>5
  <2> QED
    BY <1>1, <2>1, <2>2 DEF LossesPaid
<1>7. CASE UNCHANGED lineVars
  <2>1. UNCHANGED <<frame, rest, state, header, payload, crcBytes, awaited, damaged, missed>>
    BY <1>7 DEF lineVars, sender, parser, history
  <2>2. Left' = Left /\ Gone' = Gone
    BY <2>1 DEF Left, LengthIn, Gone
  <2>3. IsPlain(frame)' <=> IsPlain(frame)
    BY <2>1 DEF IsPlain, OnTheLine, Text, Plain, Half
  <2> QED
    BY <1>1, <2>1, <2>2, <2>3 DEF LossesPaid
<1> QED
  BY <1>4, <1>5, <1>6, <1>7 DEF LineNext, Damage, Add, Drop, CutShort

(* After a fault the parser loses no more undamaged frames in a row than   *)
(* fit the longest frame it accepts: it never gets stuck in a false one.   *)
THEOREM LossesAreBounded == LineSpec => []LossBounded
<1>1. LineInit => LineInv
  BY LineTypeInit, KeepsUpInit, LossesInit DEF LineInv
<1>2. LineInv /\ [LineNext]_lineVars => LineInv'
  BY LineTypeStep, KeepsUpStep, LossesStep DEF LineInv
<1>3. LineInv => LossBounded
  <2> SUFFICES ASSUME LineInv
               PROVE  LossBounded
    OBVIOUS
  <2>1. missed \in Nat /\ 10 * missed <= Longest + 9
    BY DEF LineInv, LineTypeOK, LossesPaid
  <2>2. MaxPayload \in Nat
    BY LimitsAssumption
  <2>3. 10 * missed <= 6 + MaxPayload + 2 + 10 - 1
    BY <2>1, <2>2 DEF Longest, HeaderSize, CrcSize
  <2>4. missed <= (6 + MaxPayload + 2 + 10 - 1) \div 10
    BY <2>1, <2>2, <2>3
  <2> QED
    BY <2>4 DEF LossBounded, MinFrame, HeaderSize, CrcSize
<1> QED
  BY <1>1, <1>2, <1>3, PTL DEF LineSpec
=============================================================================
