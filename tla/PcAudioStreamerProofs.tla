---------------------- MODULE PcAudioStreamerProofs ----------------------
(***************************************************************************)
(* Proofs about PcAudioStreamer, for every size of the queue and every     *)
(* number of streams and blocks.                                           *)
(***************************************************************************)
EXTENDS PcAudioStreamer, Integers, TLAPS

(* start() refuses while a thread it knows is alive, so it meets threads   *)
(* of an earlier stream only after a stop() that gave up waiting for them. *)
StartsAlone == overlap => gaveUp

(* Threads.  A thread that is alive and not the menu's own was given up;   *)
(* no stream is numbered beyond the count.                                 *)
Known ==
  /\ \A t \in Streams : Alive(t) => gaveUp \/ (t = current /\ caller # "Route")
  /\ \A t \in Streams : t > streams => ~Alive(t) /\ holds[t] = 0
  /\ StartsAlone
  /\ caller = "Route" => streams < MaxStreams
  /\ caller = "Worker" => current # 0 /\ current = streams
  /\ caller = "Join" => current # 0

(* A stream that started alone is alone, and the done event is its own.    *)
Alone == ~overlap =>
  /\ \A t \in Streams : Alive(t) => t = streams /\ caller # "Route"
  /\ \A t \in Streams : done \/ sender[t] = "Finally" =>
       stop \/ capture[t] = "Ended"
  /\ SenderOutlivesCapture
  /\ caller \in {"Route", "Worker"} => ~done /\ queue = <<>> /\ made = base
  /\ caller = "Worker" => sender[current] \in {"Get", "Empty"}
                       /\ capture[current] = "Ended"
  /\ streams = 0 => queue = <<>>

(* No block is newer than the newest; a thread that puts has a block, and a *)
(* sender that waits has none.                                             *)
Numbered ==
  /\ last <= made
  /\ \A i \in DOMAIN queue : queue[i] <= made
  /\ \A t \in Streams : fresh[t] <= made /\ holds[t] <= made
  /\ \A t \in Streams : capture[t] \in Handing => fresh[t] # 0
  /\ \A t \in Streams : sender[t] \in {"Get", "Empty"} => holds[t] = 0

Held(t) == IF capture[t] \in Handing THEN 1 ELSE 0

(* Blocks the capture thread still has to account for.                     *)
Owed(t) == IF capture[t] = "PutAgain" THEN 2 ELSE Held(t)

(* The newest block that has left the queue.                               *)
Gone(t) == made - Held(t) - Len(queue)

(* The queue is the newest blocks, without a gap.                          *)
Flows(t) ==
  /\ base <= Gone(t)
  /\ \A i \in DOMAIN queue : queue[i] = Gone(t) + i
  /\ capture[t] \in Handing => fresh[t] = made
  /\ capture[t] = "PutAgain" => Len(queue) < Capacity
  /\ last <= Gone(t)
  /\ sender[t] = "Send" => last < holds[t] /\ holds[t] <= Gone(t)
  /\ made - base <= sent + dropped + Len(queue) + Owed(t)
                    + (IF holds[t] = 0 THEN 0 ELSE 1)

Flow == \A t \in Streams : ~overlap /\ t = streams => Flows(t)
Facts == TypeOK /\ Known /\ Numbered /\ Alone /\ Flow

(***************************************************************************)
(* Sequences and the steps of one thread.                                  *)
(***************************************************************************)

LEMMA AppendShape ==
  ASSUME NEW S, NEW s \in Seq(S), NEW x \in S
  PROVE  /\ Append(s, x) \in Seq(S) /\ Len(Append(s, x)) = Len(s) + 1
         /\ \A i \in 1..Len(s) : Append(s, x)[i] = s[i]
         /\ Append(s, x)[Len(s) + 1] = x
OBVIOUS

LEMMA TailShape ==
  ASSUME NEW S, NEW s \in Seq(S), s # <<>>
  PROVE  /\ Tail(s) \in Seq(S) /\ Len(Tail(s)) = Len(s) - 1 /\ Len(s) > 0
         /\ \A i \in 1..Len(s) - 1 : Tail(s)[i] = s[i + 1]
         /\ Head(s) = s[1] /\ Head(s) \in S
OBVIOUS

LEMMA EmptyShape == ASSUME NEW S PROVE <<>> \in Seq(S) /\ Len(<<>>) = 0
OBVIOUS

CapturePlaces == {"Open", "Record", "Finally", "Ended"} \cup Handing
SenderPlaces == {"Get", "Empty", "Send", "Failed", "Finally", "Ended"}

LEMMA CaptureUpdate ==
  ASSUME TypeOK, NEW t \in Streams, NEW from, NEW to \in CapturePlaces,
         CaptureGoes(t, from, to)
  PROVE  /\ capture[t] = from /\ capture'[t] = to
         /\ capture' \in [Streams -> CapturePlaces]
         /\ \A u \in Streams : u # t => capture'[u] = capture[u]
BY DEF CaptureGoes, TypeOK, CapturePlaces

LEMMA SenderUpdate ==
  ASSUME TypeOK, NEW t \in Streams, NEW from, NEW to \in SenderPlaces,
         SenderGoes(t, from, to)
  PROVE  /\ sender[t] = from /\ sender'[t] = to
         /\ sender' \in [Streams -> SenderPlaces]
         /\ \A u \in Streams : u # t => sender'[u] = sender[u]
BY DEF SenderGoes, TypeOK, SenderPlaces

(* What a step of a capture thread comes to.                               *)
CaptureStep(t) ==
  /\ UNCHANGED <<menu, senders, sent>>
  /\ capture[t] # "Ended"
  /\ \A u \in Streams : u # t => capture'[u] = capture[u] /\ fresh'[u] = fresh[u]
  /\ capture' \in [Streams -> CapturePlaces]

(* What a step of a sender thread comes to.                                *)
SenderStep(t) ==
  /\ UNCHANGED <<menu, captures, dropped>>
  /\ sender[t] # "Ended"
  /\ \A u \in Streams : u # t => sender'[u] = sender[u] /\ holds'[u] = holds[u]
  /\ sender' \in [Streams -> SenderPlaces]

LEMMA CaptureSteps ==
  ASSUME TypeOK, NEW t \in Streams, Capture(t) PROVE CaptureStep(t)
<1> DEFINE Turn == IF stop THEN "Finally" ELSE "Record"
<1>1. Turn \in CapturePlaces
  BY DEF CapturePlaces
<1>2. \E from, to \in CapturePlaces : from # "Ended" /\ CaptureGoes(t, from, to)
  <2>1. CASE OpenRecorder(t) \/ RecordNoBlock(t) \/ Put(t) \/ PutAgain(t)
    BY <1>1, <2>1 DEF OpenRecorder, RecordNoBlock, Put, PutAgain, LoopTurns,
                      CapturePlaces, Handing
  <2>2. CASE RecordBlock(t) \/ CaptureRaises(t) \/ PutFindsFull(t) \/ Evict(t)
             \/ CaptureEnds(t)
    BY <2>2 DEF RecordBlock, CaptureRaises, PutFindsFull, Evict, CaptureEnds,
                CapturePlaces, Handing
  <2> QED
    BY <2>1, <2>2 DEF Capture
<1>3. /\ capture[t] # "Ended"
      /\ capture' \in [Streams -> CapturePlaces]
      /\ \A u \in Streams : u # t => capture'[u] = capture[u]
  BY <1>2, CaptureUpdate
<1>4. UNCHANGED <<menu, senders, sent>>
  BY DEF Capture, OpenRecorder, RecordNoBlock, Put, PutAgain, RecordBlock,
         CaptureRaises, PutFindsFull, Evict, CaptureEnds, counters
<1>5. \A u \in Streams : u # t => fresh'[u] = fresh[u]
  BY DEF Capture, OpenRecorder, RecordNoBlock, Put, PutAgain, RecordBlock,
         CaptureRaises, PutFindsFull, Evict, CaptureEnds, HandOver, TypeOK
<1> QED
  BY <1>3, <1>4, <1>5 DEF CaptureStep

LEMMA SenderSteps ==
  ASSUME TypeOK, NEW t \in Streams, Sender(t) PROVE SenderStep(t)
<1>1. \E from, to \in SenderPlaces : from # "Ended" /\ SenderGoes(t, from, to)
  BY DEF Sender, Take, TakeTimesOut, LookIfDone, SendBatch, SendRaises,
         FailureStopsCapture, SenderEnds, SenderPlaces
<1>2. /\ sender[t] # "Ended"
      /\ sender' \in [Streams -> SenderPlaces]
      /\ \A u \in Streams : u # t => sender'[u] = sender[u]
  BY <1>1, SenderUpdate
<1>3. UNCHANGED <<menu, captures, dropped>>
  BY DEF Sender, Take, TakeTimesOut, LookIfDone, SendBatch, SendRaises,
         FailureStopsCapture, SenderEnds, counters
<1>4. \A u \in Streams : u # t => holds'[u] = holds[u]
  BY DEF Sender, Take, TakeTimesOut, LookIfDone, SendBatch, SendRaises,
         FailureStopsCapture, SenderEnds, TypeOK
<1> QED
  BY <1>2, <1>3, <1>4 DEF SenderStep

(***************************************************************************)
(* Types.                                                                  *)
(***************************************************************************)

LEMMA MenuTypes == ASSUME TypeOK, Known, Menu PROVE TypeOK'
<1> USE DEF captures, senders, events, counters
<1>1. CASE StartResets
  <2>1. queue' = <<>> /\ Len(queue') = 0 /\ queue' \in Seq(Blocks)
    BY <1>1, EmptyShape DEF StartResets, Reset
  <2>2. stop' \in BOOLEAN /\ done' \in BOOLEAN /\ overlap' \in BOOLEAN
    BY <1>1, Zenon DEF StartResets, Reset
  <2>3. gaveUp' \in BOOLEAN
    BY <1>1 DEF StartResets, Reset, TypeOK
  <2>4. base' \in 0..made' /\ sent' \in Nat /\ dropped' \in Nat
    BY <1>1 DEF StartResets, Reset, TypeOK
  <2> QED
    BY <1>1, <2>1, <2>2, <2>3, <2>4, CapacityAssumption
       DEF StartResets, Reset, TypeOK
<1>2. CASE RouteUnavailable
  BY <1>2 DEF RouteUnavailable, TypeOK
<1>3. CASE StartSender
  <2>1. streams' \in 0..MaxStreams /\ current' \in 0..streams'
    BY <1>3, BoundsAssumption DEF StartSender, TypeOK, Known
  <2>2. sender' \in [Streams -> {"Get", "Empty", "Send", "Failed", "Finally", "Ended"}]
    BY <1>3 DEF StartSender, TypeOK
  <2> QED
    BY <1>3, <2>1, <2>2 DEF StartSender, TypeOK
<1>4. CASE StartWorker
  <2>1. capture' \in [Streams -> {"Open", "Record", "Finally", "Ended"} \cup Handing]
    BY <1>4 DEF StartWorker, TypeOK
  <2> QED
    BY <1>4, <2>1 DEF StartWorker, TypeOK
<1>5. CASE StopSetsEvent
  <2>1. stop' \in BOOLEAN
    BY <1>5, Zenon DEF StopSetsEvent
  <2> QED
    BY <1>5, <2>1 DEF StopSetsEvent, TypeOK
<1>6. CASE JoinEnds
  <2>1. gaveUp' \in BOOLEAN
    BY <1>6, Zenon DEF JoinEnds
  <2> QED
    BY <1>6, <2>1 DEF JoinEnds, TypeOK
<1> QED
  BY <1>1, <1>2, <1>3, <1>4, <1>5, <1>6 DEF Menu

LEMMA CaptureTypes ==
  ASSUME TypeOK, Numbered, NEW t \in Streams, Capture(t) PROVE TypeOK'
<1> USE DEF captures, senders, events, counters, menu
<1>1. CaptureStep(t)
  BY CaptureSteps
<1>2. capture' \in [Streams -> {"Open", "Record", "Finally", "Ended"} \cup Handing]
  BY <1>1 DEF CaptureStep, CapturePlaces
<1>3. CASE OpenRecorder(t) \/ RecordNoBlock(t) \/ PutFindsFull(t)
  BY <1>2, <1>3 DEF OpenRecorder, RecordNoBlock, PutFindsFull, TypeOK
<1>4. CASE CaptureRaises(t)
  BY <1>2, <1>4 DEF CaptureRaises, TypeOK
<1>5. CASE CaptureEnds(t)
  <2>1. done' \in BOOLEAN
    BY <1>5, Zenon DEF CaptureEnds
  <2> QED
    BY <1>2, <1>5, <2>1 DEF CaptureEnds, TypeOK
<1>6. CASE RecordBlock(t)
  <2>1. made' = made + 1 /\ made' \in 0..MaxBlocks
    BY <1>6, BoundsAssumption DEF RecordBlock, TypeOK
  <2>2. fresh' \in [Streams -> 0..MaxBlocks] /\ base' \in 0..made'
    BY <1>6, <2>1 DEF RecordBlock, TypeOK
  <2> QED
    BY <1>2, <1>6, <2>1, <2>2 DEF RecordBlock, TypeOK
<1>7. ASSUME HandOver(t), capture[t] \in Handing, ~Full
      PROVE  /\ queue' \in Seq(Blocks) /\ Len(queue') <= Capacity
             /\ fresh' \in [Streams -> 0..MaxBlocks]
  <2>1. fresh[t] \in Blocks
    BY <1>7 DEF Numbered, TypeOK, Blocks
  <2>2. queue' \in Seq(Blocks) /\ Len(queue') = Len(queue) + 1
    BY <1>7, <2>1, AppendShape DEF HandOver, TypeOK
  <2>3. Len(queue') <= Capacity
    BY <1>7, <2>2, CapacityAssumption DEF Full, TypeOK
  <2> QED
    BY <1>7, <2>2, <2>3, BoundsAssumption DEF HandOver, TypeOK
<1>8. CASE Put(t)
  <2>1. HandOver(t) /\ capture[t] \in Handing /\ ~Full
    BY <1>8 DEF Put, LoopTurns, CaptureGoes, Handing
  <2> QED
    BY <1>2, <1>7, <1>8, <2>1 DEF Put, TypeOK
<1>9. CASE Evict(t)
  <2>1. queue' \in Seq(Blocks) /\ Len(queue') <= Capacity
    BY <1>9, TailShape, CapacityAssumption DEF Evict, TypeOK
  <2> QED
    BY <1>2, <1>9, <2>1 DEF Evict, TypeOK
<1>10. CASE PutAgain(t)
  <2>1. capture[t] \in Handing
    BY <1>10 DEF PutAgain, LoopTurns, CaptureGoes, Handing
  <2>2. /\ queue' \in Seq(Blocks) /\ Len(queue') <= Capacity
        /\ fresh' \in [Streams -> 0..MaxBlocks]
    <3>1. CASE Full
      BY <1>10, <3>1, BoundsAssumption DEF PutAgain, TypeOK
    <3>2. CASE ~Full
      BY <1>7, <1>10, <2>1, <3>2 DEF PutAgain
    <3> QED
      BY <3>1, <3>2
  <2>3. dropped' \in Nat
    BY <1>10 DEF PutAgain, TypeOK
  <2> QED
    BY <1>2, <1>10, <2>2, <2>3 DEF PutAgain, TypeOK
<1> QED
  BY <1>3, <1>4, <1>5, <1>6, <1>8, <1>9, <1>10 DEF Capture

LEMMA SenderTypes ==
  ASSUME TypeOK, NEW t \in Streams, Sender(t) PROVE TypeOK'
<1> USE DEF captures, senders, events, counters, menu
<1>1. SenderStep(t)
  BY SenderSteps
<1>2. sender' \in [Streams -> {"Get", "Empty", "Send", "Failed", "Finally", "Ended"}]
  BY <1>1 DEF SenderStep, SenderPlaces
<1>3. CASE Take(t)
  <2>1. queue' \in Seq(Blocks) /\ Len(queue') <= Capacity /\ Head(queue) \in Blocks
    BY <1>3, TailShape, CapacityAssumption DEF Take, TypeOK
  <2>2. holds' \in [Streams -> 0..MaxBlocks]
    BY <1>3, <2>1 DEF Take, TypeOK, Blocks
  <2> QED
    BY <1>2, <1>3, <2>1, <2>2 DEF Take, TypeOK
<1>4. CASE TakeTimesOut(t) \/ LookIfDone(t)
  BY <1>2, <1>4 DEF TakeTimesOut, LookIfDone, TypeOK
<1>5. CASE SendBatch(t)
  <2>1. last' \in 0..MaxBlocks /\ holds' \in [Streams -> 0..MaxBlocks] /\ sent' \in Nat
    BY <1>5, BoundsAssumption DEF SendBatch, TypeOK
  <2> QED
    BY <1>2, <1>5, <2>1 DEF SendBatch, TypeOK
<1>6. CASE SendRaises(t)
  BY <1>2, <1>6 DEF SendRaises, TypeOK
<1>7. CASE FailureStopsCapture(t)
  <2>1. stop' \in BOOLEAN
    BY <1>7, Zenon DEF FailureStopsCapture
  <2> QED
    BY <1>2, <1>7, <2>1 DEF FailureStopsCapture, TypeOK
<1>8. CASE SenderEnds(t)
  <2>1. done' \in BOOLEAN
    BY <1>8, Zenon DEF SenderEnds
  <2> QED
    BY <1>2, <1>8, <2>1 DEF SenderEnds, TypeOK
<1> QED
  BY <1>3, <1>4, <1>5, <1>6, <1>7, <1>8 DEF Sender

(***************************************************************************)
(* Which threads are alive.                                                *)
(***************************************************************************)

LEMMA ThreadsKeepKnown ==
  ASSUME TypeOK, Known, NEW t \in Streams, CaptureStep(t) \/ SenderStep(t)
  PROVE  Known'
<1>1. UNCHANGED menu /\ Alive(t)
  BY DEF CaptureStep, SenderStep, Alive
<1>2. \A u \in Streams : u # t => (Alive(u))' = Alive(u) /\ holds'[u] = holds[u]
  BY DEF CaptureStep, SenderStep, Alive, captures, senders
<1>3. t <= streams
  BY <1>1 DEF Known, TypeOK, Streams
<1>4. \A u \in Streams : u > streams => u # t
  BY <1>3 DEF TypeOK, Streams
<1> QED
  BY <1>1, <1>2, <1>4 DEF Known, StartsAlone, menu

LEMMA MenuKeepsKnown == ASSUME TypeOK, Known, Menu PROVE Known'
<1> USE DEF captures, senders, events, counters
<1>1. CASE StartResets
  <2>1. \A u \in Streams : (Alive(u))' = Alive(u) /\ holds'[u] = holds[u]
    BY <1>1 DEF StartResets, Reset, Alive
  <2>2. \A u \in Streams : Alive(u) => gaveUp
    BY <1>1 DEF StartResets, Reset, IsRunning, Known, TypeOK, Streams
  <2>3. overlap' => gaveUp'
    BY <1>1, <2>2 DEF StartResets, Reset
  <2> QED
    BY <1>1, <2>1, <2>2, <2>3 DEF StartResets, Reset, Known, StartsAlone
<1>2. CASE RouteUnavailable \/ StopSetsEvent
  BY <1>2 DEF RouteUnavailable, StopSetsEvent, Known, StartsAlone, Alive
<1>3. CASE StartSender
  <2>1. /\ streams' = streams + 1 /\ current' = streams'
        /\ streams' \in Streams /\ caller = "Route" /\ caller' = "Worker"
        /\ capture' = capture /\ holds' = holds
        /\ overlap' = overlap /\ gaveUp' = gaveUp
    BY <1>3, BoundsAssumption DEF StartSender, Known, TypeOK, Streams
  <2>2. \A u \in Streams : u # streams' => (Alive(u))' = Alive(u)
    BY <1>3 DEF StartSender, Alive, TypeOK
  <2>3. \A u \in Streams : u > streams' => u > streams /\ u # streams'
    BY <2>1 DEF TypeOK, Streams
  <2>4. current' # 0
    BY <2>1 DEF Streams
  <2> QED
    BY <2>1, <2>2, <2>3, <2>4 DEF Known, StartsAlone
<1>4. CASE StartWorker
  <2>1. /\ UNCHANGED <<current, streams, overlap, gaveUp, sender, holds>>
        /\ caller = "Worker" /\ caller' = "Idle"
        /\ current = streams
    BY <1>4 DEF StartWorker, Known
  <2>2. \A u \in Streams : u # current => (Alive(u))' = Alive(u)
    BY <1>4 DEF StartWorker, Alive, TypeOK
  <2>3. \A u \in Streams : u > streams => u # current
    BY <2>1 DEF TypeOK, Streams
  <2> QED
    BY <2>1, <2>2, <2>3 DEF Known, StartsAlone
<1>5. CASE JoinEnds
  BY <1>5 DEF JoinEnds, Known, StartsAlone, Alive
<1> QED
  BY <1>1, <1>2, <1>3, <1>4, <1>5 DEF Menu

(***************************************************************************)
(* Numbers of blocks.                                                      *)
(***************************************************************************)

LEMMA CaptureKeepsNumbered ==
  ASSUME TypeOK, Numbered, NEW t \in Streams, Capture(t) PROVE Numbered'
<1> USE DEF captures, senders, events, counters, menu
<1>1. CaptureStep(t)
  BY CaptureSteps
<1>2. UNCHANGED <<last, sender, holds>>
  BY <1>1 DEF CaptureStep
<1>3. made' \in Nat /\ made <= made'
  BY DEF Capture, OpenRecorder, RecordNoBlock, Put, PutAgain, RecordBlock,
         CaptureRaises, PutFindsFull, Evict, CaptureEnds, TypeOK
<1>4. /\ last \in Nat /\ made \in Nat
      /\ \A u \in Streams : holds[u] \in Nat /\ fresh[u] \in Nat
      /\ \A i \in DOMAIN queue : queue[i] \in Nat /\ queue[i] <= made
      /\ queue \in Seq(Blocks)
  <2>1. queue \in Seq(Blocks) /\ Blocks \subseteq Nat
    BY DEF TypeOK, Blocks
  <2>2. \A i \in DOMAIN queue : queue[i] \in Nat
    <3>1. \A i \in DOMAIN queue : queue[i] \in Blocks
      BY <2>1
    <3> QED
      BY <2>1, <3>1
  <2>3. made \in Nat /\ last \in Nat
    BY BoundsAssumption DEF TypeOK
  <2>4. \A u \in Streams : holds[u] \in Nat /\ fresh[u] \in Nat
    BY BoundsAssumption DEF TypeOK
  <2>5. \A i \in DOMAIN queue : queue[i] <= made
    BY DEF Numbered
  <2> QED
    BY <2>1, <2>2, <2>3, <2>4, <2>5
<1>5. last' <= made' /\ \A u \in Streams : holds'[u] <= made'
  BY <1>2, <1>3, <1>4 DEF Numbered
<1>6. \A u \in Streams : sender'[u] \in {"Get", "Empty"} => holds'[u] = 0
  BY <1>2 DEF Numbered
<1>7. \A u \in Streams : u # t =>
        fresh'[u] <= made' /\ (capture'[u] \in Handing => fresh'[u] # 0)
  BY <1>1, <1>3, <1>4 DEF CaptureStep, Numbered
<1>8. ASSUME UNCHANGED queue, fresh'[t] <= made',
             capture'[t] \in Handing => fresh'[t] # 0
      PROVE  Numbered'
  BY <1>3, <1>4, <1>5, <1>6, <1>7, <1>8 DEF Numbered
<1>9. fresh[t] <= made'
  BY <1>3, <1>4 DEF Numbered
<1>10. ASSUME HandOver(t), capture[t] \in Handing, capture'[t] \notin Handing
       PROVE  Numbered'
  <2>1. fresh[t] \in Blocks
    BY <1>10 DEF Numbered, TypeOK, Blocks
  <2>2. /\ queue' \in Seq(Blocks) /\ Len(queue') = Len(queue) + 1
        /\ \A i \in 1..Len(queue) : queue'[i] = queue[i]
        /\ queue'[Len(queue) + 1] = fresh[t]
    BY <1>4, <1>10, <2>1, AppendShape DEF HandOver
  <2>3. \A i \in DOMAIN queue' : queue'[i] <= made'
    BY <1>3, <1>4, <1>9, <2>2
  <2>4. fresh'[t] = 0
    BY <1>10 DEF HandOver, TypeOK
  <2> QED
    BY <1>3, <1>5, <1>6, <1>7, <1>10, <2>3, <2>4 DEF Numbered
<1>11. CASE OpenRecorder(t) \/ RecordNoBlock(t) \/ CaptureRaises(t) \/ CaptureEnds(t)
  <2>1. UNCHANGED <<queue, fresh>>
    BY <1>11 DEF OpenRecorder, RecordNoBlock, CaptureRaises, CaptureEnds
  <2>2. capture'[t] \notin Handing
    BY <1>11 DEF OpenRecorder, RecordNoBlock, CaptureRaises, CaptureEnds,
                 LoopTurns, CaptureGoes, TypeOK, Handing
  <2> QED
    BY <1>8, <1>9, <2>1, <2>2
<1>12. CASE RecordBlock(t)
  <2>1. UNCHANGED queue /\ made' = made + 1 /\ fresh'[t] = made'
    BY <1>12 DEF RecordBlock, TypeOK
  <2>2. fresh'[t] <= made' /\ fresh'[t] # 0
    BY <1>3, <1>4, <2>1
  <2> QED
    BY <1>8, <2>1, <2>2
<1>13. CASE PutFindsFull(t)
  <2>1. UNCHANGED <<queue, fresh>> /\ capture[t] \in Handing
    BY <1>13 DEF PutFindsFull, CaptureGoes, Handing
  <2> QED
    BY <1>8, <1>9, <2>1 DEF Numbered
<1>14. CASE Put(t)
  <2>1. HandOver(t) /\ capture[t] \in Handing /\ capture'[t] \notin Handing
    BY <1>14 DEF Put, LoopTurns, CaptureGoes, Handing, TypeOK
  <2> QED
    BY <1>10, <2>1
<1>15. CASE Evict(t)
  <2>1. UNCHANGED fresh /\ capture[t] \in Handing
    BY <1>15 DEF Evict, CaptureGoes, Handing
  <2>2. queue = <<>> => UNCHANGED queue
    BY <1>15 DEF Evict
  <2>3. ASSUME queue # <<>> PROVE \A i \in DOMAIN queue' : queue'[i] <= made'
    <3>1. /\ queue' \in Seq(Blocks) /\ Len(queue') = Len(queue) - 1
          /\ \A i \in 1..Len(queue) - 1 : queue'[i] = queue[i + 1]
      BY <1>4, <1>15, <2>3, TailShape DEF Evict
    <3>2. \A i \in 1..Len(queue') : i + 1 \in 1..Len(queue) /\ i \in 1..Len(queue) - 1
      BY <1>4, <3>1
    <3>3. DOMAIN queue' = 1..Len(queue') /\ DOMAIN queue = 1..Len(queue)
      BY <1>4, <3>1
    <3>4. ASSUME NEW i \in 1..Len(queue') PROVE queue'[i] <= made'
      <4>1. queue'[i] = queue[i + 1] /\ i + 1 \in DOMAIN queue
        BY <3>1, <3>2, <3>3
      <4>2. queue[i + 1] \in Nat /\ queue[i + 1] <= made
        BY <1>4, <4>1
      <4> QED
        BY <1>3, <1>4, <4>1, <4>2
    <3> QED
      BY <3>3, <3>4
  <2>4. CASE queue = <<>>
    BY <1>8, <1>9, <2>1, <2>2, <2>4 DEF Numbered
  <2>5. CASE queue # <<>>
    BY <1>3, <1>5, <1>6, <1>7, <1>9, <2>1, <2>3, <2>5 DEF Numbered
  <2> QED
    BY <2>4, <2>5
<1>16. CASE PutAgain(t)
  <2>1. capture[t] \in Handing /\ capture'[t] \notin Handing
    BY <1>16 DEF PutAgain, LoopTurns, CaptureGoes, Handing, TypeOK
  <2>2. CASE Full
    <3>1. UNCHANGED queue /\ fresh'[t] = 0
      BY <1>16, <2>2 DEF PutAgain, TypeOK
    <3> QED
      BY <1>3, <1>8, <2>1, <3>1
  <2>3. CASE ~Full
    BY <1>10, <1>16, <2>1, <2>3 DEF PutAgain
  <2> QED
    BY <2>2, <2>3
<1> QED
  BY <1>11, <1>12, <1>13, <1>14, <1>15, <1>16 DEF Capture

LEMMA SenderKeepsNumbered ==
  ASSUME TypeOK, Numbered, NEW t \in Streams, Sender(t) PROVE Numbered'
<1> USE DEF captures, senders, events, counters, menu
<1>1. SenderStep(t)
  BY SenderSteps
<1>2. UNCHANGED <<made, capture, fresh>>
  BY <1>1 DEF SenderStep
<1>3. \A u \in Streams : u # t =>
        sender'[u] = sender[u] /\ holds'[u] = holds[u]
  BY <1>1 DEF SenderStep
<1>4. ASSUME last' <= made, \A i \in DOMAIN queue' : queue'[i] <= made,
             holds'[t] <= made, sender'[t] \in {"Get", "Empty"} => holds'[t] = 0
      PROVE  Numbered'
  BY <1>2, <1>3, <1>4 DEF Numbered
<1>5. CASE Take(t)
  <2>1. /\ queue' \in Seq(Blocks) /\ Len(queue') = Len(queue) - 1 /\ Len(queue) > 0
        /\ \A i \in 1..Len(queue) - 1 : queue'[i] = queue[i + 1]
        /\ Head(queue) = queue[1]
    BY <1>5, TailShape DEF Take, TypeOK
  <2>2. queue \in Seq(Blocks) /\ \A i \in DOMAIN queue : queue[i] <= made
    BY DEF TypeOK, Numbered
  <2>3. \A i \in DOMAIN queue' : queue'[i] <= made
    BY <2>1, <2>2
  <2>4. holds'[t] = queue[1] /\ sender'[t] = "Send" /\ last' = last
    BY <1>5, <2>1 DEF Take, SenderGoes, TypeOK
  <2>5. holds'[t] <= made
    BY <2>1, <2>2, <2>4
  <2> QED
    BY <1>4, <2>3, <2>4, <2>5 DEF Numbered
<1>6. CASE SendBatch(t)
  <2>1. last' = holds[t] /\ holds'[t] = 0 /\ UNCHANGED queue
    BY <1>6 DEF SendBatch, TypeOK
  <2>2. 0 <= made
    BY DEF TypeOK
  <2> QED
    BY <1>4, <2>1, <2>2 DEF Numbered
<1>7. CASE TakeTimesOut(t) \/ LookIfDone(t) \/ SendRaises(t)
           \/ FailureStopsCapture(t) \/ SenderEnds(t)
  <2>1. UNCHANGED <<queue, holds, last>>
    BY <1>7 DEF TakeTimesOut, LookIfDone, SendRaises, FailureStopsCapture, SenderEnds
  <2>2. sender'[t] \in {"Get", "Empty"} => sender[t] \in {"Get", "Empty"}
    BY <1>7 DEF TakeTimesOut, LookIfDone, SendRaises, FailureStopsCapture,
                SenderEnds, SenderGoes, TypeOK
  <2> QED
    BY <1>4, <2>1, <2>2 DEF Numbered
<1> QED
  BY <1>5, <1>6, <1>7 DEF Sender

LEMMA MenuKeepsNumbered == ASSUME TypeOK, Known, Numbered, Menu PROVE Numbered'
<1> USE DEF captures, senders, events, counters
<1>1. CASE StartResets
  <2>1. UNCHANGED <<captures, senders>> /\ queue' = <<>>
    BY <1>1 DEF StartResets, Reset
  <2> QED
    BY <2>1 DEF Numbered
<1>2. CASE StartSender
  <2>1. UNCHANGED <<captures, holds, last, queue>> /\ streams' = streams + 1
    BY <1>2 DEF StartSender
  <2>2. \A u \in Streams : u # streams' => sender'[u] = sender[u]
    BY <1>2 DEF StartSender, TypeOK
  <2>3. \A u \in Streams : u = streams' => holds[u] = 0
    BY <2>1 DEF Known, TypeOK, Streams
  <2> QED
    BY <2>1, <2>2, <2>3 DEF Numbered
<1>3. CASE StartWorker
  <2>1. UNCHANGED <<fresh, made, senders, queue>>
    BY <1>3 DEF StartWorker
  <2>2. \A u \in Streams : capture'[u] \in Handing => capture[u] \in Handing
    BY <1>3 DEF StartWorker, TypeOK, Handing
  <2> QED
    BY <2>1, <2>2 DEF Numbered
<1>4. CASE RouteUnavailable \/ StopSetsEvent \/ JoinEnds
  BY <1>4 DEF RouteUnavailable, StopSetsEvent, JoinEnds, Numbered
<1> QED
  BY <1>1, <1>2, <1>3, <1>4 DEF Menu

(***************************************************************************)
(* A stream that started alone.                                            *)
(***************************************************************************)

LEMMA CaptureKeepsAlone ==
  ASSUME TypeOK, Known, Alone, NEW t \in Streams, Capture(t) PROVE Alone'
<1> USE DEF captures, senders, events, counters, menu
<1>1. CaptureStep(t)
  BY CaptureSteps
<1>2. UNCHANGED <<caller, current, streams, base, overlap, sender>> /\ capture[t] # "Ended"
  BY <1>1 DEF CaptureStep
<1> SUFFICES ASSUME ~overlap PROVE Alone'
  BY <1>2 DEF Alone
<1>3. t = streams /\ caller # "Route" /\ caller # "Worker" /\ streams # 0
  BY <1>2 DEF Alone, Alive, Known, Streams
<1>4. \A u \in Streams : u # t => ~Alive(u)
  BY <1>3 DEF Alone
<1>5. \A u \in Streams : u # t => sender'[u] = "Ended" /\ capture'[u] = "Ended"
  BY <1>1, <1>2, <1>4 DEF CaptureStep, Alive
<1>6. stop' = stop /\ (done' = done \/ capture'[t] = "Ended")
  BY DEF Capture, OpenRecorder, RecordNoBlock, Put, PutAgain, RecordBlock,
         CaptureRaises, PutFindsFull, Evict, CaptureEnds, CaptureGoes, TypeOK
<1>7. done' \/ sender'[t] = "Finally" => stop' \/ capture'[t] = "Ended"
  BY <1>2, <1>6 DEF Alone
<1>8. sender'[t] = "Ended" => stop'
  BY <1>2, <1>6 DEF Alone, SenderOutlivesCapture
<1> QED
  BY <1>2, <1>3, <1>5, <1>7, <1>8 DEF Alone, Alive, SenderOutlivesCapture

LEMMA SenderKeepsAlone ==
  ASSUME TypeOK, Known, Alone, NEW t \in Streams, Sender(t) PROVE Alone'
<1> USE DEF captures, senders, events, counters, menu
<1>1. SenderStep(t)
  BY SenderSteps
<1>2. /\ UNCHANGED <<caller, current, streams, base, overlap, capture, made>>
      /\ sender[t] # "Ended"
  BY <1>1 DEF SenderStep
<1> SUFFICES ASSUME ~overlap PROVE Alone'
  BY <1>2 DEF Alone
<1>3. t = streams /\ caller # "Route" /\ streams # 0
  BY <1>2 DEF Alone, Alive, Streams
<1>4. \A u \in Streams : u # t => ~Alive(u)
  BY <1>3 DEF Alone
<1>5. \A u \in Streams : u # t => sender'[u] = "Ended" /\ capture'[u] = "Ended"
  BY <1>1, <1>2, <1>4 DEF SenderStep, Alive
<1>6. CASE caller = "Worker"
  <2>1. /\ t = current /\ ~done /\ queue = <<>> /\ made = base
        /\ sender[t] \in {"Get", "Empty"} /\ capture[t] = "Ended"
    BY <1>3, <1>6 DEF Alone, Known
  <2>2. /\ ~done' /\ queue' = <<>>
        /\ sender'[t] \in {"Get", "Empty"}
    BY <2>1 DEF Sender, Take, TakeTimesOut, LookIfDone, SendBatch, SendRaises,
                FailureStopsCapture, SenderEnds, SenderGoes, TypeOK
  <2> QED
    BY <1>2, <1>3, <1>5, <1>6, <2>1, <2>2 DEF Alone, Alive, SenderOutlivesCapture
<1>7. CASE caller # "Worker"
  <2>1. done \/ sender[t] = "Finally" => stop \/ capture[t] = "Ended"
    BY DEF Alone
  <2>2. done' \/ sender'[t] \in {"Finally", "Ended"} => stop' \/ capture[t] = "Ended"
    <3>1. CASE Take(t) \/ TakeTimesOut(t) \/ LookIfDone(t) \/ SendBatch(t) \/ SendRaises(t)
      BY <2>1, <3>1 DEF Take, TakeTimesOut, LookIfDone, SendBatch, SendRaises,
                        SenderGoes, TypeOK
    <3>2. CASE FailureStopsCapture(t)
      BY <3>2 DEF FailureStopsCapture
    <3>3. CASE SenderEnds(t)
      BY <2>1, <3>3 DEF SenderEnds, SenderGoes
    <3> QED
      BY <3>1, <3>2, <3>3 DEF Sender
  <2> QED
    BY <1>2, <1>3, <1>5, <1>7, <2>2 DEF Alone, Alive, SenderOutlivesCapture
<1> QED
  BY <1>6, <1>7

LEMMA MenuKeepsAlone == ASSUME TypeOK, Known, Alone, Menu PROVE Alone'
<1> USE DEF captures, senders, events, counters
<1>1. CASE StartResets
  <2>1. /\ UNCHANGED <<capture, sender>> /\ caller' = "Route"
        /\ ~done' /\ queue' = <<>> /\ made' = base'
        /\ overlap' = \E t \in Streams : Alive(t)
    BY <1>1 DEF StartResets, Reset
  <2>2. ~overlap' => \A t \in Streams : sender'[t] = "Ended" /\ capture'[t] = "Ended"
    BY <2>1 DEF Alive
  <2> QED
    BY <2>1, <2>2 DEF Alone, Alive, SenderOutlivesCapture
<1>2. CASE RouteUnavailable
  BY <1>2 DEF RouteUnavailable, Alone, Alive, SenderOutlivesCapture
<1>3. CASE StartSender
  <2>1. /\ UNCHANGED <<capture, base, made, done, stop, queue, overlap>>
        /\ caller = "Route" /\ caller' = "Worker"
        /\ streams' = streams + 1 /\ current' = streams' /\ streams' # 0
        /\ streams' \in Streams
    BY <1>3, BoundsAssumption DEF StartSender, Known, TypeOK, Streams
  <2>2. /\ sender'[streams'] = "Get"
        /\ \A u \in Streams : u # streams' => sender'[u] = sender[u]
    BY <1>3, <2>1 DEF StartSender, TypeOK
  <2>3. ~overlap => /\ ~done /\ queue = <<>> /\ made = base
                    /\ \A u \in Streams : sender[u] = "Ended" /\ capture[u] = "Ended"
    BY <2>1 DEF Alone, Alive
  <2> QED
    BY <2>1, <2>2, <2>3 DEF Alone, Alive, SenderOutlivesCapture
<1>4. CASE StartWorker
  <2>1. /\ UNCHANGED <<current, streams, overlap, done, sender, queue, made, base>>
        /\ caller = "Worker" /\ caller' = "Idle"
        /\ current = streams /\ current # 0
    BY <1>4 DEF StartWorker, Known
  <2>2. \A u \in Streams : u # current => capture'[u] = capture[u]
    BY <1>4 DEF StartWorker, TypeOK
  <2>3. ~overlap => /\ ~done /\ sender[current] \in {"Get", "Empty"}
                    /\ \A u \in Streams : u # current =>
                         sender[u] = "Ended" /\ capture[u] = "Ended"
    BY <2>1 DEF Alone, Alive
  <2> QED
    BY <2>1, <2>2, <2>3 DEF Alone, Alive, SenderOutlivesCapture
<1>5. CASE StopSetsEvent \/ JoinEnds
  <2>1. /\ UNCHANGED <<streams, overlap, done, sender, capture, queue, made, base>>
        /\ caller \in {"Idle", "Join"} /\ caller' \in {"Idle", "Join"}
        /\ stop => stop'
    BY <1>5 DEF StopSetsEvent, JoinEnds
  <2> QED
    BY <2>1 DEF Alone, Alive, SenderOutlivesCapture
<1> QED
  BY <1>1, <1>2, <1>3, <1>4, <1>5 DEF Menu

(***************************************************************************)
(* What flows through the queue of such a stream.                          *)
(***************************************************************************)

LEMMA Shapes ==
  ASSUME TypeOK
  PROVE  /\ made \in Nat /\ base \in Nat /\ base <= made /\ last \in Nat
         /\ sent \in Nat /\ dropped \in Nat
         /\ queue \in Seq(Blocks) /\ Len(queue) \in Nat /\ Len(queue) <= Capacity
         /\ DOMAIN queue = 1..Len(queue) /\ Capacity \in Nat
         /\ \A t \in Streams : holds[t] \in Nat
<1>1. queue \in Seq(Blocks) /\ Len(queue) <= Capacity
  BY DEF TypeOK
<1>2. Len(queue) \in Nat /\ DOMAIN queue = 1..Len(queue)
  BY <1>1
<1>3. \A t \in Streams : holds[t] \in Nat
  BY BoundsAssumption DEF TypeOK
<1> QED
  BY <1>1, <1>2, <1>3, BoundsAssumption, CapacityAssumption DEF TypeOK

LEMMA GoneIs ==
  ASSUME NEW t \in Streams
  PROVE  /\ Gone(t) = made - Held(t) - Len(queue)
         /\ (Gone(t))' = made' - (Held(t))' - Len(queue')
BY DEF Gone

(* A block put at the end of the queue is the next one.                    *)
LEMMA PutFlows ==
  ASSUME TypeOK, NEW t \in Streams, Flows(t),
         capture[t] \in Handing, fresh[t] \in Blocks,
         queue' = Append(queue, fresh[t]), made' = made
  PROVE  /\ Len(queue') = Len(queue) + 1
         /\ \A i \in DOMAIN queue' : queue'[i] = Gone(t) + i
<1>1. /\ queue' \in Seq(Blocks) /\ Len(queue') = Len(queue) + 1
      /\ \A i \in 1..Len(queue) : queue'[i] = queue[i]
      /\ queue'[Len(queue) + 1] = fresh[t]
  BY Shapes, AppendShape
<1>2. fresh[t] = Gone(t) + (Len(queue) + 1)
  <2>1. fresh[t] = made /\ Held(t) = 1
    BY DEF Flows, Held
  <2>2. made \in Nat /\ Len(queue) \in Nat
    BY Shapes
  <2> QED
    BY <2>1, <2>2, GoneIs
<1>3. \A i \in 1..Len(queue) : queue[i] = Gone(t) + i
  BY Shapes DEF Flows
<1>4. DOMAIN queue' = 1..Len(queue')
  BY <1>1
<1>5. \A i \in 1..Len(queue') : i \in 1..Len(queue) \/ i = Len(queue) + 1
  BY <1>1, Shapes
<1> QED
  BY <1>1, <1>2, <1>3, <1>4, <1>5

(* With the oldest block gone, the rest moves up.                          *)
LEMMA TailFlows ==
  ASSUME TypeOK, NEW t \in Streams, Flows(t), queue # <<>>, queue' = Tail(queue)
  PROVE  /\ Len(queue') = Len(queue) - 1 /\ Len(queue) > 0
         /\ Head(queue) = Gone(t) + 1
         /\ \A i \in DOMAIN queue' : queue'[i] = (Gone(t) + 1) + i
<1>1. /\ queue' \in Seq(Blocks) /\ Len(queue') = Len(queue) - 1 /\ Len(queue) > 0
      /\ \A i \in 1..Len(queue) - 1 : queue'[i] = queue[i + 1]
      /\ Head(queue) = queue[1]
  BY Shapes, TailShape
<1>2. \A i \in 1..Len(queue) : queue[i] = Gone(t) + i
  BY Shapes DEF Flows
<1>3. queue[1] = Gone(t) + 1
  BY <1>1, <1>2, Shapes
<1>4. Gone(t) \in Int
  BY Shapes DEF Gone, Held
<1>5. ASSUME NEW i \in 1..Len(queue) - 1 PROVE queue'[i] = (Gone(t) + 1) + i
  <2>1. i + 1 \in 1..Len(queue) /\ queue'[i] = queue[i + 1]
    BY <1>1, Shapes
  <2> QED
    BY <1>2, <1>4, <2>1
<1>6. DOMAIN queue' = 1..Len(queue) - 1
  BY <1>1
<1> QED
  BY <1>1, <1>3, <1>5, <1>6

LEMMA CaptureKeepsFlow ==
  ASSUME TypeOK, Numbered, Alone, Flow, NEW t \in Streams, Capture(t)
  PROVE  Flow'
<1> USE DEF captures, senders, events, counters, menu
<1>1. CaptureStep(t)
  BY CaptureSteps
<1>2. UNCHANGED <<streams, base, overlap, sender, holds, last, sent>> /\ capture[t] # "Ended"
  BY <1>1 DEF CaptureStep
<1> SUFFICES ASSUME ~overlap PROVE Flow'
  BY <1>2 DEF Flow
<1>3. t = streams
  BY <1>2 DEF Alone, Alive
<1>4. Flows(t)
  BY <1>3 DEF Flow
<1> SUFFICES Flows(t)'
  BY <1>2, <1>3 DEF Flow
<1>5. (fresh[t] = made /\ fresh[t] \in Blocks) \/ capture[t] \notin Handing
  BY <1>4 DEF Flows, Numbered, TypeOK, Blocks
<1>6. CASE OpenRecorder(t) \/ RecordNoBlock(t) \/ CaptureRaises(t) \/ CaptureEnds(t)
  <2>1. /\ UNCHANGED <<queue, made, dropped>>
        /\ capture[t] \notin Handing /\ capture'[t] \notin Handing
    BY <1>6 DEF OpenRecorder, RecordNoBlock, CaptureRaises, CaptureEnds,
                LoopTurns, CaptureGoes, TypeOK, Handing
  <2>2. capture[t] # "PutAgain" /\ capture'[t] # "PutAgain"
    BY <2>1 DEF Handing
  <2> QED
    BY <1>2, <1>4, <2>1, <2>2 DEF Flows, Gone, Held, Owed
<1>7. CASE RecordBlock(t)
  <2>1. /\ UNCHANGED <<queue, dropped>> /\ made' = made + 1 /\ fresh'[t] = made'
        /\ capture[t] = "Record" /\ capture'[t] = "Put"
    BY <1>7 DEF RecordBlock, CaptureGoes, TypeOK
  <2>2. /\ Held(t) = 0 /\ (Held(t))' = 1 /\ Owed(t) = 0 /\ (Owed(t))' = 1
    BY <2>1 DEF Held, Owed, Handing
  <2>3. (Gone(t))' = Gone(t)
    BY <2>1, <2>2, Shapes DEF Gone
  <2>4. made' - base <= sent + dropped + Len(queue) + 1
                        + (IF holds[t] = 0 THEN 0 ELSE 1)
    BY <1>4, <2>1, <2>2, Shapes DEF Flows
  <2> QED
    BY <1>2, <1>4, <2>1, <2>2, <2>3, <2>4 DEF Flows
<1>8. CASE PutFindsFull(t)
  <2>1. /\ UNCHANGED <<queue, made, fresh, dropped>>
        /\ capture[t] = "Put" /\ capture'[t] = "Evict"
    BY <1>8 DEF PutFindsFull, CaptureGoes, TypeOK
  <2> QED
    BY <1>2, <1>4, <2>1 DEF Flows, Gone, Held, Owed, Handing
<1>9. CASE Put(t)
  <2>1. /\ queue' = Append(queue, fresh[t]) /\ UNCHANGED <<made, dropped>>
        /\ capture[t] = "Put" /\ capture'[t] \notin Handing
    BY <1>9 DEF Put, HandOver, LoopTurns, CaptureGoes, TypeOK, Handing
  <2>2. /\ Held(t) = 1 /\ (Held(t))' = 0 /\ Owed(t) = 1 /\ (Owed(t))' = 0
        /\ capture[t] \in Handing
    BY <2>1 DEF Held, Owed, Handing
  <2>3. /\ Len(queue') = Len(queue) + 1
        /\ \A i \in DOMAIN queue' : queue'[i] = Gone(t) + i
    BY <1>4, <1>5, <2>1, <2>2, PutFlows
  <2>4. (Gone(t))' = Gone(t)
    BY <2>1, <2>2, <2>3, Shapes DEF Gone
  <2>5. made - base <= sent + dropped + Len(queue') + 0
                       + (IF holds[t] = 0 THEN 0 ELSE 1)
    BY <1>4, <2>2, <2>3, Shapes DEF Flows
  <2>6. capture'[t] # "PutAgain"
    BY <2>1 DEF Handing
  <2> QED
    BY <1>2, <1>4, <2>1, <2>2, <2>3, <2>4, <2>5, <2>6 DEF Flows
<1>10. CASE Evict(t)
  <2>1. /\ UNCHANGED <<made, fresh, dropped>>
        /\ queue' = (IF queue = <<>> THEN queue ELSE Tail(queue))
        /\ capture[t] = "Evict" /\ capture'[t] = "PutAgain"
    BY <1>10 DEF Evict, CaptureGoes, TypeOK
  <2>2. /\ Held(t) = 1 /\ (Held(t))' = 1 /\ Owed(t) = 1 /\ (Owed(t))' = 2
        /\ fresh'[t] = made'
    BY <1>4, <2>1 DEF Held, Owed, Handing, Flows
  <2>3. CASE queue = <<>>
    <3>1. queue' = queue /\ Len(queue) = 0
      BY <2>1, <2>3
    <3>2. (Gone(t))' = Gone(t)
      BY <2>1, <2>2, <3>1 DEF Gone
    <3>3. made - base <= sent + dropped + Len(queue) + 2
                         + (IF holds[t] = 0 THEN 0 ELSE 1)
      BY <1>4, <2>2, Shapes DEF Flows
    <3>4. Len(queue) < Capacity
      BY <3>1, CapacityAssumption
    <3> QED
      BY <1>2, <1>4, <2>1, <2>2, <3>1, <3>2, <3>3, <3>4 DEF Flows
  <2>4. CASE queue # <<>>
    <3>1. /\ Len(queue') = Len(queue) - 1 /\ Len(queue) > 0
          /\ \A i \in DOMAIN queue' : queue'[i] = (Gone(t) + 1) + i
      BY <1>4, <2>1, <2>4, TailFlows
    <3>2. (Gone(t))' = Gone(t) + 1
      <4>1. made \in Nat /\ Len(queue) \in Nat /\ made' = made
        BY <2>1, Shapes
      <4> QED
        BY <2>2, <3>1, <4>1, GoneIs
    <3>3. made - base <= sent + dropped + Len(queue') + 2
                         + (IF holds[t] = 0 THEN 0 ELSE 1)
      BY <1>4, <2>2, <3>1, Shapes DEF Flows
    <3>4. Len(queue') < Capacity
      BY <3>1, Shapes
    <3>5. Gone(t) \in Int
      BY Shapes DEF Gone, Held
    <3>6. base <= Gone(t) + 1 /\ last <= Gone(t) + 1
      BY <1>4, <3>5, Shapes DEF Flows
    <3>7. sender[t] = "Send" => last < holds[t] /\ holds[t] <= Gone(t) + 1
      BY <1>4, <3>5, Shapes DEF Flows
    <3> QED
      BY <1>2, <2>1, <2>2, <3>1, <3>2, <3>3, <3>4, <3>6, <3>7 DEF Flows
  <2> QED
    BY <2>3, <2>4
<1>11. CASE PutAgain(t)
  <2>1. /\ UNCHANGED made /\ dropped' = dropped + 1
        /\ capture[t] = "PutAgain" /\ capture'[t] \notin Handing
    BY <1>11 DEF PutAgain, LoopTurns, CaptureGoes, TypeOK, Handing
  <2>2. ~Full
    BY <1>4, <2>1, Shapes DEF Flows, Full
  <2>3. queue' = Append(queue, fresh[t])
    BY <1>11, <2>2 DEF PutAgain, HandOver
  <2>4. /\ Held(t) = 1 /\ (Held(t))' = 0 /\ Owed(t) = 2 /\ (Owed(t))' = 0
        /\ capture[t] \in Handing
    BY <2>1 DEF Held, Owed, Handing
  <2>5. /\ Len(queue') = Len(queue) + 1
        /\ \A i \in DOMAIN queue' : queue'[i] = Gone(t) + i
    BY <1>4, <1>5, <2>1, <2>3, <2>4, PutFlows
  <2> DEFINE h == IF holds[t] = 0 THEN 0 ELSE 1
  <2>9. /\ made \in Nat /\ base \in Nat /\ Len(queue) \in Nat
        /\ sent \in Nat /\ dropped \in Nat /\ h \in Nat
    BY Shapes
  <2>10. made - base <= sent + dropped + Len(queue) + 2 + h
    BY <1>4, <2>4 DEF Flows
  <2> HIDE DEF h
  <2>6. (Gone(t))' = Gone(t)
    BY <2>1, <2>4, <2>5, <2>9, GoneIs
  <2>7. made - base <= sent + dropped' + Len(queue') + 0 + h
    BY <2>1, <2>5, <2>9, <2>10
  <2> USE DEF h
  <2>8. capture'[t] # "PutAgain"
    BY <2>1 DEF Handing
  <2> QED
    BY <1>2, <1>4, <2>1, <2>4, <2>5, <2>6, <2>7, <2>8 DEF Flows
<1> QED
  BY <1>6, <1>7, <1>8, <1>9, <1>10, <1>11 DEF Capture

LEMMA SenderKeepsFlow ==
  ASSUME TypeOK, Numbered, Alone, Flow, NEW t \in Streams, Sender(t)
  PROVE  Flow'
<1> USE DEF captures, senders, events, counters, menu
<1>1. SenderStep(t)
  BY SenderSteps
<1>2. /\ UNCHANGED <<streams, base, overlap, capture, fresh, made, dropped>>
      /\ sender[t] # "Ended"
  BY <1>1 DEF SenderStep
<1> SUFFICES ASSUME ~overlap PROVE Flow'
  BY <1>2 DEF Flow
<1>3. t = streams
  BY <1>2 DEF Alone, Alive
<1>4. Flows(t)
  BY <1>3 DEF Flow
<1> SUFFICES Flows(t)'
  BY <1>2, <1>3 DEF Flow
<1>5. (Held(t))' = Held(t) /\ (Owed(t))' = Owed(t)
  BY <1>2 DEF Held, Owed
<1>6. Gone(t) \in Int /\ Owed(t) \in Nat
  BY Shapes DEF Gone, Held, Owed
<1>7. CASE Take(t)
  <2>1. /\ queue # <<>> /\ queue' = Tail(queue) /\ UNCHANGED <<last, sent>>
        /\ sender[t] = "Get" /\ sender'[t] = "Send" /\ holds'[t] = Head(queue)
    BY <1>7 DEF Take, SenderGoes, TypeOK
  <2>2. /\ Len(queue') = Len(queue) - 1 /\ Len(queue) > 0
        /\ holds'[t] = Gone(t) + 1
        /\ \A i \in DOMAIN queue' : queue'[i] = (Gone(t) + 1) + i
    BY <1>4, <2>1, TailFlows
  <2>3. (Gone(t))' = Gone(t) + 1
    BY <1>2, <1>5, <2>2, Shapes DEF Gone, Held
  <2>4. base <= Gone(t) + 1 /\ last <= Gone(t) + 1
        /\ last < holds'[t] /\ holds'[t] # 0
    <3>1. base <= Gone(t) /\ last <= Gone(t)
      BY <1>4 DEF Flows
    <3>2. base \in Nat /\ last \in Nat /\ holds'[t] = Gone(t) + 1
      BY <2>2, Shapes
    <3> QED
      BY <1>6, <3>1, <3>2
  <2>5. holds[t] = 0
    BY <2>1 DEF Numbered
  <2>6. made - base <= sent + dropped + Len(queue') + Owed(t) + 1
    BY <1>4, <1>6, <2>2, <2>5, Shapes DEF Flows
  <2>7. capture[t] = "PutAgain" => Len(queue') < Capacity
    BY <1>4, <2>2, Shapes DEF Flows
  <2>8. holds'[t] <= (Gone(t))'
    BY <1>6, <2>2, <2>3
  <2>9. made' - base' <= sent' + dropped' + Len(queue') + (Owed(t))'
                         + (IF holds'[t] = 0 THEN 0 ELSE 1)
    BY <1>2, <1>5, <2>1, <2>4, <2>6
  <2> QED
    BY <1>2, <1>4, <2>1, <2>2, <2>3, <2>4, <2>7, <2>8, <2>9 DEF Flows
<1>8. CASE SendBatch(t)
  <2>1. /\ UNCHANGED queue /\ last' = holds[t] /\ holds'[t] = 0 /\ sent' = sent + 1
        /\ sender[t] = "Send" /\ sender'[t] = "Get"
    BY <1>8 DEF SendBatch, SenderGoes, TypeOK
  <2>2. (Gone(t))' = Gone(t) /\ last' <= Gone(t)
    BY <1>2, <1>4, <1>5, <2>1 DEF Gone, Flows
  <2>3. made - base <= sent' + dropped + Len(queue) + Owed(t) + 0
    <3> DEFINE h == IF holds[t] = 0 THEN 0 ELSE 1
    <3>1. /\ made \in Nat /\ base \in Nat /\ Len(queue) \in Nat
          /\ sent \in Nat /\ dropped \in Nat /\ h \in 0..1
      BY Shapes
    <3>2. made - base <= sent + dropped + Len(queue) + Owed(t) + h
      BY <1>4 DEF Flows
    <3> HIDE DEF h
    <3> QED
      BY <1>6, <2>1, <3>1, <3>2
  <2>4. made' - base' <= sent' + dropped' + Len(queue') + (Owed(t))'
                         + (IF holds'[t] = 0 THEN 0 ELSE 1)
    BY <1>2, <1>5, <2>1, <2>3
  <2>5. base' <= (Gone(t))' /\ \A i \in DOMAIN queue' : queue'[i] = (Gone(t))' + i
    BY <1>2, <1>4, <2>1, <2>2 DEF Flows
  <2>6. /\ capture'[t] \in Handing => fresh'[t] = made'
        /\ capture'[t] = "PutAgain" => Len(queue') < Capacity
    BY <1>2, <1>4, <2>1 DEF Flows
  <2>7. last' <= (Gone(t))' /\ sender'[t] # "Send"
    BY <2>1, <2>2
  <2> QED
    BY <2>4, <2>5, <2>6, <2>7 DEF Flows
<1>9. CASE TakeTimesOut(t) \/ LookIfDone(t) \/ SendRaises(t)
           \/ FailureStopsCapture(t) \/ SenderEnds(t)
  <2>1. /\ UNCHANGED <<queue, holds, last, sent>> /\ sender'[t] # "Send"
    BY <1>9 DEF TakeTimesOut, LookIfDone, SendRaises, FailureStopsCapture,
                SenderEnds, SenderGoes, TypeOK
  <2>2. (Gone(t))' = Gone(t)
    BY <1>2, <1>5, <2>1 DEF Gone
  <2> QED
    BY <1>2, <1>4, <1>5, <2>1, <2>2 DEF Flows
<1> QED
  BY <1>7, <1>8, <1>9 DEF Sender

(* A stream that has captured nothing has lost nothing.                    *)
LEMMA NoDebt == \A m, s, d, h \in Nat : m - m <= s + d + 0 + 0 + h
OBVIOUS

LEMMA MenuKeepsFlow ==
  ASSUME TypeOK, Known, Numbered, Alone, Flow, Menu
  PROVE  Flow'
<1> USE DEF captures, senders, events, counters
<1> SUFFICES ASSUME ~overlap', NEW t \in Streams, t = streams' PROVE Flows(t)'
  BY DEF Flow
<1>1. CASE StartResets \/ StartSender
  <2>1. queue' = <<>> /\ made' = base' /\ capture'[t] = "Ended" /\ sender'[t] # "Send"
    <3>1. CASE StartResets
      BY <3>1 DEF StartResets, Reset, Alive
    <3>2. CASE StartSender
      <4>1. /\ caller = "Route" /\ UNCHANGED <<capture, overlap, queue, made, base>>
            /\ sender'[t] = "Get"
        BY <3>2 DEF StartSender, TypeOK
      <4> QED
        BY <4>1 DEF Alone, Alive
    <3> QED
      BY <1>1, <3>1, <3>2
  <2>2. /\ made' \in Nat /\ last' \in Nat /\ last' <= made'
        /\ sent' \in Nat /\ dropped' \in Nat /\ holds'[t] \in Nat
    <3>1. /\ made' = made /\ last' = last /\ holds' = holds
          /\ sent' \in {0, sent} /\ dropped' \in {0, dropped}
      BY <1>1 DEF StartResets, Reset, StartSender
    <3> QED
      BY <3>1, Shapes DEF Numbered
  <2>3. (Held(t))' = 0 /\ (Owed(t))' = 0 /\ Len(queue') = 0
    BY <2>1 DEF Held, Owed, Handing
  <2>4. (Gone(t))' = made'
    BY <2>2, <2>3, GoneIs
  <2>5. capture'[t] \notin Handing /\ capture'[t] # "PutAgain"
    BY <2>1 DEF Handing
  <2>6. base' <= (Gone(t))' /\ last' <= (Gone(t))' /\ DOMAIN queue' = {}
    BY <2>1, <2>2, <2>4
  <2>7. made' - base' <= sent' + dropped' + Len(queue') + (Owed(t))'
                         + (IF holds'[t] = 0 THEN 0 ELSE 1)
    <3>1. PICK h \in Nat : h = IF holds'[t] = 0 THEN 0 ELSE 1
      OBVIOUS
    <3>2. PICK m \in Nat : made' = m /\ base' = m
      BY <2>1, <2>2
    <3>3. PICK s \in Nat, d \in Nat : s = sent' /\ d = dropped'
      BY <2>2
    <3>4. m - m <= s + d + 0 + 0 + h
      BY NoDebt
    <3> QED
      BY <2>3, <3>1, <3>2, <3>3, <3>4
  <2> QED
    BY <2>1, <2>5, <2>6, <2>7 DEF Flows
<1>2. CASE StartWorker
  <2>1. /\ UNCHANGED <<streams, base, overlap, fresh, made, senders, queue, counters>>
        /\ capture'[t] \notin Handing /\ capture'[t] # "PutAgain"
        /\ capture[t] = "Ended"
    BY <1>2 DEF StartWorker, Known, Alone, TypeOK, Handing
  <2>2. Flows(t) /\ capture[t] \notin Handing /\ capture[t] # "PutAgain"
    BY <2>1 DEF Flow, Handing
  <2> QED
    BY <2>1, <2>2 DEF Flows, Gone, Held, Owed
<1>3. CASE RouteUnavailable \/ StopSetsEvent \/ JoinEnds
  <2>1. UNCHANGED <<streams, base, overlap, captures, senders, queue, counters>>
    BY <1>3 DEF RouteUnavailable, StopSetsEvent, JoinEnds
  <2>2. Flows(t)
    BY <2>1 DEF Flow
  <2> QED
    BY <2>1, <2>2 DEF Flows, Gone, Held, Owed
<1> QED
  BY <1>1, <1>2, <1>3 DEF Menu

(***************************************************************************)
(* The invariant, and the theorems.                                        *)
(***************************************************************************)

LEMMA FactsInit == ASSUME Init PROVE Facts
<1>1. stop \in BOOLEAN /\ done \in BOOLEAN /\ overlap \in BOOLEAN /\ gaveUp \in BOOLEAN
  BY Zenon DEF Init
<1>2. queue = <<>> /\ queue \in Seq(Blocks) /\ Len(queue) = 0
  BY EmptyShape DEF Init
<1>3. TypeOK
  BY <1>1, <1>2, BoundsAssumption, CapacityAssumption DEF Init, TypeOK
<1>4. \A t \in Streams : ~Alive(t) /\ capture[t] = "Ended" /\ sender[t] = "Ended"
                         /\ holds[t] = 0 /\ fresh[t] = 0
  BY DEF Init, Alive
<1>5. Known
  BY <1>4 DEF Init, Known, StartsAlone
<1>6. Numbered
  BY <1>2, <1>4 DEF Init, Numbered, Handing
<1>7. Alone
  BY <1>4 DEF Init, Alone, SenderOutlivesCapture
<1>8. Flow
  BY DEF Init, Flow, Streams
<1> QED
  BY <1>3, <1>5, <1>6, <1>7, <1>8 DEF Facts

LEMMA FactsStep == Facts /\ [Next]_vars => Facts'
<1> SUFFICES ASSUME Facts, [Next]_vars PROVE Facts'
  OBVIOUS
<1> USE DEF Facts
<1>1. CASE Menu
  <2>1. TypeOK' /\ Known' /\ Numbered' /\ Alone'
    BY <1>1, MenuTypes, MenuKeepsKnown, MenuKeepsNumbered, MenuKeepsAlone
  <2> QED
    BY <1>1, <2>1, MenuKeepsFlow
<1>2. ASSUME NEW t \in Streams, Capture(t) PROVE Facts'
  <2>1. TypeOK' /\ Numbered' /\ Alone' /\ Flow'
    BY <1>2, CaptureTypes, CaptureKeepsNumbered, CaptureKeepsAlone, CaptureKeepsFlow
  <2>2. Known'
    BY <1>2, CaptureSteps, ThreadsKeepKnown
  <2> QED
    BY <2>1, <2>2
<1>3. ASSUME NEW t \in Streams, Sender(t) PROVE Facts'
  <2>1. TypeOK' /\ Numbered' /\ Alone' /\ Flow'
    BY <1>3, SenderTypes, SenderKeepsNumbered, SenderKeepsAlone, SenderKeepsFlow
  <2>2. Known'
    BY <1>3, SenderSteps, ThreadsKeepKnown
  <2> QED
    BY <2>1, <2>2
<1>4. CASE UNCHANGED vars
  BY <1>4 DEF vars, menu, events, captures, senders, counters, TypeOK, Known,
              StartsAlone, Alive, Numbered, Alone, SenderOutlivesCapture, Flow,
              Flows, Gone, Held, Owed
<1> QED
  BY <1>1, <1>2, <1>3, <1>4 DEF Next

LEMMA FactsHold == Spec => []Facts
BY FactsInit, FactsStep, PTL DEF Spec

(* The queue never grows beyond its size, and every thread is where its    *)
(* code is, whatever streams overlap.                                      *)
THEOREM TypeCorrect == Spec => []TypeOK
<1>1. Facts => TypeOK
  BY DEF Facts
<1> QED
  BY <1>1, FactsHold, PTL

(* Streams overlap only after a stop() that gave up waiting.               *)
THEOREM AloneUnlessGivenUp == Spec => []StartsAlone
<1>1. Facts => StartsAlone
  BY DEF Facts, Known
<1> QED
  BY <1>1, FactsHold, PTL

(* No capture thread goes on unheard: its sender ends after it, or after   *)
(* having told it to stop.                                                 *)
THEOREM SenderOutlives == Spec => []SenderOutlivesCapture
<1>1. Facts => SenderOutlivesCapture
  BY DEF Facts, Alone, SenderOutlivesCapture
<1> QED
  BY <1>1, FactsHold, PTL

(* What waits is in order, and after what was sent and what is in hand.    *)
THEOREM BlocksInOrder == Spec => []InOrder
<1>1. ASSUME Facts PROVE InOrder
  <2> SUFFICES ASSUME ~overlap PROVE InOrder
    BY DEF InOrder
  <2>1. CASE streams = 0
    <3>1. queue = <<>> /\ \A t \in Streams : sender[t] = "Ended"
      BY <1>1, <2>1 DEF Facts, Alone, Alive, Streams
    <3> QED
      BY <3>1 DEF InOrder
  <2>2. CASE streams # 0
    <3>1. streams \in Streams /\ Flows(streams)
      BY <1>1, <2>2, BoundsAssumption DEF Facts, TypeOK, Flow, Streams
    <3>2. /\ Gone(streams) \in Int /\ last \in Nat /\ DOMAIN queue \subseteq Nat \ {0}
          /\ \A t \in Streams : holds[t] \in Nat
      BY <1>1, <3>1, Shapes DEF Facts, Gone, Held
    <3>3. \A i \in DOMAIN queue : queue[i] = Gone(streams) + i
      BY <3>1 DEF Flows
    <3>4. \A i, j \in DOMAIN queue : i < j => queue[i] < queue[j]
      BY <3>2, <3>3
    <3>5. last <= Gone(streams)
      BY <3>1 DEF Flows
    <3>6. \A i \in DOMAIN queue : last < queue[i]
      BY <3>2, <3>3, <3>5
    <3>7. ASSUME NEW t \in Streams, sender[t] = "Send"
          PROVE  last < holds[t] /\ \A i \in DOMAIN queue : holds[t] < queue[i]
      <4>1. t = streams
        BY <1>1, <3>7 DEF Facts, Alone, Alive
      <4>2. last < holds[t] /\ holds[t] <= Gone(streams)
        BY <3>1, <3>7, <4>1 DEF Flows
      <4> QED
        BY <3>2, <3>3, <4>2
    <3> QED
      BY <3>4, <3>6, <3>7 DEF InOrder
  <2> QED
    BY <2>1, <2>2
<1> QED
  BY <1>1, FactsHold, PTL

(* What waits is of the newest blocks, as many as the queue holds.         *)
THEOREM QueueIsFresh == Spec => []Fresh
<1>1. ASSUME Facts PROVE Fresh
  <2> SUFFICES ASSUME NEW t \in Streams, Feeds(t), NEW i \in DOMAIN queue
               PROVE  made - queue[i] < Capacity
    BY DEF Fresh
  <2>1. Flows(t) /\ Held(t) = 0
    BY <1>1 DEF Facts, Flow, Feeds, Held
  <2>2. queue[i] = made - 0 - Len(queue) + i
    BY <2>1, GoneIs DEF Flows
  <2>3. /\ made \in Nat /\ Len(queue) \in Nat /\ Len(queue) <= Capacity
        /\ Capacity \in Nat /\ i \in Nat /\ i >= 1
    BY <1>1, Shapes DEF Facts
  <2> QED
    BY <2>2, <2>3
<1> QED
  BY <1>1, FactsHold, PTL

(* No block is lost without being counted.                                 *)
THEOREM NoUncountedLoss == Spec => []LossesCounted
<1>1. ASSUME Facts PROVE LossesCounted
  <2> SUFFICES ASSUME NEW t \in Streams, Feeds(t)
               PROVE  made - base <= sent + dropped + Len(queue)
                                     + (IF holds[t] = 0 THEN 0 ELSE 1)
    BY DEF LossesCounted
  <2>1. Flows(t) /\ Owed(t) = 0
    BY <1>1 DEF Facts, Flow, Feeds, Owed, Held, Handing
  <2> DEFINE h == IF holds[t] = 0 THEN 0 ELSE 1
  <2>2. made - base <= sent + dropped + Len(queue) + 0 + h
    BY <2>1 DEF Flows
  <2>3. sent \in Nat /\ dropped \in Nat /\ Len(queue) \in Nat /\ h \in Nat
    BY <1>1, Shapes DEF Facts
  <2> HIDE DEF h
  <2>4. sent + dropped + Len(queue) + 0 + h = sent + dropped + Len(queue) + h
    BY <2>3
  <2> QED
    BY <2>2, <2>4 DEF h
<1> QED
  BY <1>1, FactsHold, PTL

(* Types, threads and queue together, as the runs check them.              *)
THEOREM StreamerInvariantHolds == Spec => []StreamerInvariant
  BY TypeCorrect, SenderOutlives, BlocksInOrder, QueueIsFresh, PTL
     DEF StreamerInvariant
(***************************************************************************)
(* How the threads come to their ends: ThreadsEnd without the fairness.    *)
(***************************************************************************)

(* The steps that are left to a capture thread once the stop event is set, *)
(* at most.                                                                *)
CaptureLeft(t) ==
  [Ended |-> 0, Finally |-> 1, Open |-> 2, Record |-> 2, PutAgain |-> 2,
   Evict |-> 3, Put |-> 4][capture[t]]

(* After stop() or a failed send, the steps of a capture thread bring it   *)
(* nearer to its end, and no other thread sets it back.                    *)
CapturesRunDown ==
  [][stop => \A t \in Streams :
       IF Capture(t)
       THEN CaptureLeft(t)' \in 0..(CaptureLeft(t) - 1)
       ELSE CaptureLeft(t)' = CaptureLeft(t) \/ (StartWorker /\ t = current)]_vars

(* And to a sender, once every capture thread has ended: what waits in the *)
(* queue is sent first.                                                    *)
SenderPhasesLeft(t) ==
  [Ended |-> 0, Finally |-> 1, Failed |-> 2, Empty |-> 2, Get |-> 3,
   Send |-> 4][sender[t]]

SenderLeft(t) == 3 * Len(queue) + SenderPhasesLeft(t)

NoCapture == \A t \in Streams : capture[t] = "Ended"

(* The same of a sender, whose queue nobody fills any more.                *)
SendersRunDown ==
  [][(done /\ NoCapture) => \A t \in Streams :
       IF Sender(t)
       THEN SenderLeft(t)' \in 0..(SenderLeft(t) - 1)
       ELSE SenderLeft(t)' \in 0..SenderLeft(t) \/ (StartSender /\ t = streams')]_vars

(* A sender whose capture thread has ended finds the done event set.       *)
EndIsTold == \A t \in Streams :
  (~overlap /\ caller \notin {"Route", "Worker"}
            /\ sender[t] # "Ended" /\ capture[t] = "Ended") => done

(* Once the stop event is set each step of a capture thread takes it       *)
(* nearer to its end, and no other thread takes it back.                   *)
THEOREM CapturesComeToEnd == Spec => CapturesRunDown
<1>1. ASSUME TypeOK, [Next]_vars, stop, NEW t \in Streams
      PROVE  IF Capture(t)
             THEN CaptureLeft(t)' \in 0..(CaptureLeft(t) - 1)
             ELSE CaptureLeft(t)' = CaptureLeft(t) \/ (StartWorker /\ t = current)
  <2>1. ASSUME Capture(t)
        PROVE  CaptureLeft(t)' \in 0..(CaptureLeft(t) - 1)
    <3> DEFINE Pair(from, to) == capture[t] = from /\ capture'[t] = to
    <3>1. ASSUME NEW from, NEW to, CaptureGoes(t, from, to) PROVE Pair(from, to)
      BY <1>1, <3>1 DEF CaptureGoes, TypeOK
    <3>2. ASSUME NEW from, LoopTurns(t, from) PROVE Pair(from, "Finally")
      BY <1>1, <3>1, <3>2 DEF LoopTurns
    <3> HIDE DEF Pair
    <3>3. \/ Pair("Open", "Finally") \/ Pair("Record", "Finally")
          \/ Pair("Put", "Finally") \/ Pair("Put", "Evict")
          \/ Pair("Evict", "PutAgain") \/ Pair("PutAgain", "Finally")
          \/ Pair("Finally", "Ended")
      <4>1. CASE OpenRecorder(t) \/ RecordNoBlock(t) \/ Put(t) \/ PutAgain(t)
        BY <3>2, <4>1 DEF OpenRecorder, RecordNoBlock, Put, PutAgain
      <4>2. CASE RecordBlock(t)
        BY <1>1, <4>2 DEF RecordBlock
      <4>3. CASE CaptureRaises(t) \/ PutFindsFull(t) \/ Evict(t) \/ CaptureEnds(t)
        BY <3>1, <4>3 DEF CaptureRaises, PutFindsFull, Evict, CaptureEnds
      <4> QED BY <2>1, <4>1, <4>2, <4>3 DEF Capture
    <3> QED BY <3>3 DEF Pair, CaptureLeft
  <2>2. capture'[t] = capture[t] => CaptureLeft(t)' = CaptureLeft(t)
    BY DEF CaptureLeft
  <2>3. ASSUME NEW u \in Streams, Capture(u) \/ Sender(u), u # t \/ ~Capture(t)
        PROVE  capture'[t] = capture[t]
    BY <1>1, <2>3, CaptureSteps, SenderSteps DEF CaptureStep, SenderStep, captures
  <2>4. CASE StartWorker
    BY <1>1, <2>1, <2>2, <2>4 DEF StartWorker, TypeOK
  <2>5. CASE StartResets \/ RouteUnavailable \/ StartSender \/ StopSetsEvent \/ JoinEnds
             \/ UNCHANGED vars
    BY <2>1, <2>2, <2>5 DEF StartResets, Reset, RouteUnavailable, StartSender,
       StopSetsEvent, JoinEnds, vars, captures
  <2>6. ASSUME ~Capture(t), NEW u \in Streams, Capture(u) \/ Sender(u)
        PROVE  CaptureLeft(t)' = CaptureLeft(t)
    BY <2>2, <2>3, <2>6
  <2>7. CASE \E u \in Streams : Capture(u) \/ Sender(u)
    BY <2>1, <2>6, <2>7
  <2>8. Menu \/ (\E u \in Streams : Capture(u) \/ Sender(u)) \/ UNCHANGED vars
    BY <1>1 DEF Next
  <2> QED BY <2>4, <2>5, <2>7, <2>8 DEF Menu
<1>2. ASSUME TypeOK, [Next]_vars
      PROVE  stop => \A t \in Streams :
               IF Capture(t)
               THEN CaptureLeft(t)' \in 0..(CaptureLeft(t) - 1)
               ELSE CaptureLeft(t)' = CaptureLeft(t) \/ (StartWorker /\ t = current)
  BY <1>1, <1>2
<1> QED BY <1>2, TypeCorrect, PTL DEF Spec, CapturesRunDown

(* When all capture threads have ended and said so, each step of a sender  *)
(* takes it nearer to its end, and nothing is put in its way again.        *)
THEOREM SendersComeToEnd == Spec => SendersRunDown
<1>1. ASSUME TypeOK, [Next]_vars, done, NoCapture, NEW t \in Streams
      PROVE  IF Sender(t)
             THEN SenderLeft(t)' \in 0..(SenderLeft(t) - 1)
             ELSE SenderLeft(t)' \in 0..SenderLeft(t) \/ (StartSender /\ t = streams')
  <2> DEFINE Rank(place) == [Ended |-> 0, Finally |-> 1, Failed |-> 2,
                             Empty |-> 2, Get |-> 3, Send |-> 4][place]
  <2>1. PICK l \in Nat : l = Len(queue)
    BY <1>1 DEF TypeOK
  <2>2. PICK r \in 0..4 : r = Rank(sender[t]) /\ SenderLeft(t) = 3 * l + r
    BY <1>1, <2>1 DEF TypeOK, SenderLeft, SenderPhasesLeft
  <2>3. ASSUME queue' = queue \/ queue' = <<>>, sender'[t] = sender[t]
        PROVE  SenderLeft(t)' \in 0..SenderLeft(t)
    <3>1. SenderPhasesLeft(t)' = r
      BY <2>2, <2>3 DEF SenderPhasesLeft
    <3>2. Len(queue') \in {0, l}
      BY <2>1, <2>3
    <3> QED BY <2>1, <2>2, <3>1, <3>2 DEF SenderLeft
  <2>4. ASSUME NEW u \in Streams, Take(u)
        PROVE  Len(queue') = l - 1 /\ l > 0
    BY <1>1, <2>1, <2>4, TailShape DEF Take, TypeOK
  <2>5. ASSUME Sender(t)
        PROVE  SenderLeft(t)' \in 0..(SenderLeft(t) - 1)
    <3> DEFINE Pair(from, to) == sender[t] = from /\ sender'[t] = to
    <3>1. ASSUME NEW from, NEW to, SenderGoes(t, from, to) PROVE Pair(from, to)
      BY <1>1, <3>1 DEF SenderGoes, TypeOK
    <3> HIDE DEF Pair
    <3>2. CASE Take(t)
      <4>1. Pair("Get", "Send")
        BY <3>1, <3>2 DEF Take
      <4>2. r = 3 /\ SenderPhasesLeft(t)' = 4
        BY <2>2, <4>1 DEF Pair, SenderPhasesLeft
      <4>3. SenderLeft(t)' = 3 * (l - 1) + 4
        BY <2>4, <3>2, <4>2 DEF SenderLeft
      <4> QED BY <2>1, <2>2, <2>4, <3>2, <4>2, <4>3
    <3>3. CASE ~Take(t)
      <4>1. /\ queue' = queue
            /\ \/ Pair("Get", "Empty") \/ Pair("Empty", "Finally")
               \/ Pair("Send", "Get") \/ Pair("Send", "Failed")
               \/ Pair("Failed", "Finally") \/ Pair("Finally", "Ended")
        BY <1>1, <2>5, <3>1, <3>3 DEF Sender, TakeTimesOut, LookIfDone, SendBatch,
           SendRaises, FailureStopsCapture, SenderEnds
      <4>2. SenderPhasesLeft(t)' \in 0..(r - 1)
        BY <2>2, <4>1 DEF Pair, SenderPhasesLeft
      <4>3. SenderLeft(t)' = 3 * l + SenderPhasesLeft(t)'
        BY <2>1, <4>1 DEF SenderLeft
      <4> HIDE DEF Rank
      <4> QED BY <2>1, <2>2, <4>2, <4>3
    <3> QED BY <3>2, <3>3
  <2>6. ASSUME NEW u \in Streams, Sender(u), u # t
        PROVE  SenderLeft(t)' \in 0..SenderLeft(t)
    <3>1. sender'[t] = sender[t]
      BY <1>1, <2>6, SenderSteps DEF SenderStep
    <3>2. CASE Take(u)
      <4>1. SenderPhasesLeft(t)' = r
        BY <2>2, <3>1 DEF SenderPhasesLeft
      <4> QED BY <2>1, <2>2, <2>4, <3>2, <4>1 DEF SenderLeft
    <3>3. CASE ~Take(u)
      BY <2>3, <2>6, <3>1, <3>3 DEF Sender, TakeTimesOut, LookIfDone, SendBatch,
         SendRaises, FailureStopsCapture, SenderEnds
    <3> QED BY <3>2, <3>3
  <2>7. ASSUME NEW u \in Streams PROVE ~Capture(u)
    BY <1>1, CaptureSteps DEF NoCapture, CaptureStep
  <2>8. CASE StartSender
    BY <1>1, <2>3, <2>5, <2>8 DEF StartSender, TypeOK
  <2>9. CASE StartResets \/ RouteUnavailable \/ StartWorker \/ StopSetsEvent \/ JoinEnds
             \/ UNCHANGED vars
    BY <2>3, <2>5, <2>9 DEF StartResets, Reset, RouteUnavailable, StartWorker,
       StopSetsEvent, JoinEnds, vars, senders
  <2>10. ASSUME ~Sender(t), NEW u \in Streams, Capture(u) \/ Sender(u)
         PROVE  SenderLeft(t)' \in 0..SenderLeft(t)
    BY <2>6, <2>7, <2>10
  <2>11. CASE \E u \in Streams : Capture(u) \/ Sender(u)
    BY <2>5, <2>10, <2>11
  <2>12. Menu \/ (\E u \in Streams : Capture(u) \/ Sender(u)) \/ UNCHANGED vars
    BY <1>1 DEF Next
  <2> QED BY <2>8, <2>9, <2>11, <2>12 DEF Menu
<1>2. ASSUME TypeOK, [Next]_vars
      PROVE  done /\ NoCapture => \A t \in Streams :
               IF Sender(t)
               THEN SenderLeft(t)' \in 0..(SenderLeft(t) - 1)
               ELSE SenderLeft(t)' \in 0..SenderLeft(t) \/ (StartSender /\ t = streams')
  BY <1>1, <1>2
<1> QED BY <1>2, TypeCorrect, PTL DEF Spec, SendersRunDown

(* Between the two nobody waits for ever: the sender of a stream that      *)
(* started alone is told of the end of its capture thread, and no start    *)
(* takes that back.                                                        *)
THEOREM EndsAreTold == Spec => []EndIsTold
<1>1. Init => EndIsTold
  BY DEF Init, EndIsTold
<1>2. ASSUME Facts, EndIsTold, [Next]_vars PROVE EndIsTold'
  <2> SUFFICES ASSUME NEW t \in Streams, ~overlap', caller' \notin {"Route", "Worker"},
                      sender'[t] # "Ended", capture'[t] = "Ended"
               PROVE  done'
    BY DEF EndIsTold
  <2>1. CASE UNCHANGED vars
    BY <1>2, <2>1 DEF EndIsTold, vars, menu, events, captures, senders
  <2>2. CASE StartResets \/ StartSender
    BY <2>2 DEF StartResets, Reset, StartSender
  <2>3. CASE StopSetsEvent \/ JoinEnds \/ RouteUnavailable
    BY <1>2, <2>3 DEF EndIsTold, StopSetsEvent, JoinEnds, RouteUnavailable,
       events, captures, senders, Facts, Known, Alone, Alive
  <2>4. CASE StartWorker
    BY <1>2, <2>4 DEF StartWorker, Facts, TypeOK, Known, Alone, Alive, senders
  <2>5. ASSUME NEW u \in Streams, Sender(u) PROVE done'
    <3>1. /\ sender[u] # "Ended" /\ UNCHANGED <<menu, captures>>
          /\ \A v \in Streams : v # u => sender'[v] = sender[v]
      BY <1>2, <2>5, SenderSteps DEF SenderStep, Facts
    <3>2. done
      BY <1>2, <3>1 DEF EndIsTold, menu, captures
    <3>3. done' = done \/ done' = TRUE
      BY <2>5 DEF Sender, Take, TakeTimesOut, LookIfDone, SendBatch, SendRaises,
         FailureStopsCapture, SenderEnds, events
    <3> QED BY <3>2, <3>3, Zenon
  <2>6. ASSUME NEW u \in Streams, Capture(u) PROVE done'
    <3>1. CASE CaptureEnds(u)
      BY <3>1 DEF CaptureEnds
    <3>2. CASE ~CaptureEnds(u)
      <4>1. /\ UNCHANGED <<menu, senders>>
            /\ \A v \in Streams : v # u => capture'[v] = capture[v]
        BY <1>2, <2>6, CaptureSteps DEF CaptureStep, Facts
      <4>2. done' = done
        BY <2>6, <3>2 DEF Capture, OpenRecorder, RecordNoBlock, RecordBlock, CaptureRaises,
           Put, PutFindsFull, Evict, PutAgain, events
      <4>3. ASSUME NEW from, NEW to, CaptureGoes(u, from, to) PROVE capture'[u] = to
        BY <1>2, <4>3 DEF CaptureGoes, Facts, TypeOK
      <4>4. capture'[u] # "Ended"
        BY <2>6, <3>2, <4>3 DEF Capture, OpenRecorder, RecordNoBlock, RecordBlock, CaptureRaises,
           Put, PutFindsFull, Evict, PutAgain, LoopTurns
      <4> QED BY <1>2, <4>1, <4>2, <4>4 DEF EndIsTold, menu, senders
    <3> QED BY <3>1, <3>2
  <2> QED BY <1>2, <2>1, <2>2, <2>3, <2>4, <2>5, <2>6 DEF Next, Menu
<1> QED BY <1>1, <1>2, FactsHold, PTL DEF Spec
=============================================================================
