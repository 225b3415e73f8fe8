-------------------------- MODULE PcAudioStreamer --------------------------
(***************************************************************************)
(* The host's PC audio, PcAudioStreamer: a capture thread that fills a     *)
(* bounded queue with blocks, a sender thread that empties it into the     *)
(* serial link, and the menu's thread, which starts and stops both.  The   *)
(* queue's own methods are atomic; between two of them, and between the    *)
(* uses of the two events, any other thread may run.                       *)
(*                                                                         *)
(* stop() waits for the threads with a timeout and forgets them either     *)
(* way, so that threads of several streams can be alive; they share the    *)
(* events, the counters and whatever self.block_queue is at the time.      *)
(* Pacing, the resampler, levels and routes are left out.                  *)
(***************************************************************************)
EXTENDS Naturals, Sequences

CONSTANTS
  Capacity,    \* AUDIO_QUEUE_MAX_BLOCKS
  MaxStreams,  \* bound: calls of start() that get as far as the threads
  MaxBlocks    \* bound: blocks captured

ASSUME CapacityAssumption == Capacity \in Nat \ {0}
ASSUME BoundsAssumption == MaxStreams \in Nat /\ MaxBlocks \in Nat

VARIABLES
  caller,   \* where the menu's thread is in start() and stop()
  current,  \* the stream self.worker and self.sender belong to, 0 for None
  streams,  \* streams whose threads have been created
  stop,     \* capture_stop_event
  done,     \* capture_done_event
  error,    \* self.error: which thread reported one
  capture,  \* capture[t], where the capture thread of stream t is
  fresh,    \* fresh[t], the block it is about to put, or 0
  sender,   \* sender[t], where the sender thread of stream t is
  holds,    \* holds[t], the block it took and has not sent, or 0
  queue,    \* self.block_queue, blocks by their number
  sent,     \* sent_blocks
  dropped,  \* dropped_chunks
  \* History.
  made,     \* blocks captured
  base,     \* of them, before the latest start()
  last,     \* the block sent last, or 0
  overlap,  \* the latest start() met threads of earlier streams
  gaveUp    \* a stop() has forgotten a thread that was alive

menu == <<caller, current, streams, base, overlap, gaveUp>>
events == <<stop, done, error>>
captures == <<capture, fresh, made>>
senders == <<sender, holds, last>>
counters == <<sent, dropped>>
vars == <<menu, events, captures, senders, queue, counters>>

Streams == 1..MaxStreams
Blocks == 1..MaxBlocks

Handing == {"Put", "Evict", "PutAgain"}

TypeOK ==
  /\ caller \in {"Idle", "Route", "Worker", "Join"}
  /\ streams \in 0..MaxStreams /\ current \in 0..streams
  /\ stop \in BOOLEAN /\ done \in BOOLEAN
  /\ error \in {"None", "Capture", "Sender"}
  /\ capture \in [Streams -> {"Open", "Record", "Finally", "Ended"} \cup Handing]
  /\ sender \in [Streams -> {"Get", "Empty", "Send", "Failed", "Finally", "Ended"}]
  /\ fresh \in [Streams -> 0..MaxBlocks] /\ holds \in [Streams -> 0..MaxBlocks]
  /\ queue \in Seq(Blocks) /\ Len(queue) <= Capacity
  /\ sent \in Nat /\ dropped \in Nat
  /\ made \in 0..MaxBlocks /\ base \in 0..made /\ last \in 0..MaxBlocks
  /\ overlap \in BOOLEAN /\ gaveUp \in BOOLEAN

(* A thread not yet started counts as ended.                               *)
Init ==
  /\ caller = "Idle" /\ current = 0 /\ streams = 0
  /\ stop = FALSE /\ done = FALSE /\ error = "None"
  /\ capture = [t \in Streams |-> "Ended"] /\ fresh = [t \in Streams |-> 0]
  /\ sender = [t \in Streams |-> "Ended"] /\ holds = [t \in Streams |-> 0]
  /\ queue = <<>> /\ sent = 0 /\ dropped = 0
  /\ made = 0 /\ base = 0 /\ last = 0
  /\ overlap = FALSE /\ gaveUp = FALSE

Alive(t) == capture[t] # "Ended" \/ sender[t] # "Ended"

-----------------------------------------------------------------------------
(* start()                                                                 *)

IsRunning == current # 0 /\ Alive(current)

(* The assignments up to the new queue are one step: what a thread of an   *)
(* earlier stream does between two of them it may as well do before them   *)
(* or after.                                                               *)
Reset ==
  /\ caller = "Idle" /\ caller' = "Route"
  /\ ~IsRunning /\ streams < MaxStreams
  /\ stop' = FALSE /\ error' = "None"
  /\ sent' = 0 /\ dropped' = 0 /\ queue' = <<>>
  /\ base' = made
  /\ overlap' = \E t \in Streams : Alive(t)
  /\ UNCHANGED <<current, streams, gaveUp, captures, senders>>

StartResets == Reset /\ done' = FALSE

(* No loopback device, or the probe of the chosen one raises.              *)
RouteUnavailable ==
  /\ caller = "Route" /\ caller' = "Idle"
  /\ UNCHANGED <<current, streams, base, overlap, gaveUp>>
  /\ UNCHANGED <<events, captures, senders, queue, counters>>

StartSender ==
  /\ caller = "Route" /\ caller' = "Worker"
  /\ streams' = streams + 1 /\ current' = streams'
  /\ sender' = [sender EXCEPT ![streams'] = "Get"]
  /\ UNCHANGED <<base, overlap, gaveUp, holds, last>>
  /\ UNCHANGED <<events, captures, queue, counters>>

StartWorker ==
  /\ caller = "Worker" /\ caller' = "Idle"
  /\ capture' = [capture EXCEPT ![current] = "Open"]
  /\ UNCHANGED <<current, streams, base, overlap, gaveUp, fresh, made>>
  /\ UNCHANGED <<events, senders, queue, counters>>

(* stop()                                                                  *)

StopSetsEvent ==
  /\ caller = "Idle"
  /\ stop' = TRUE
  /\ caller' = (IF current = 0 THEN "Idle" ELSE "Join")
  /\ UNCHANGED <<current, streams, base, overlap, gaveUp, done, error>>
  /\ UNCHANGED <<captures, senders, queue, counters>>

(* Each join() returns when its thread has ended, or after three seconds.  *)
JoinEnds ==
  /\ caller = "Join" /\ caller' = "Idle"
  /\ current' = 0
  /\ gaveUp' = (gaveUp \/ Alive(current))
  /\ UNCHANGED <<streams, base, overlap>>
  /\ UNCHANGED <<events, captures, senders, queue, counters>>

-----------------------------------------------------------------------------
(* _run_capture()                                                          *)

CaptureGoes(t, from, to) ==
  /\ capture[t] = from
  /\ capture' = [capture EXCEPT ![t] = to]

(* The loop looks at the stop event before each record(), in the same step *)
(* as what comes before.                                                   *)
LoopTurns(t, from) == CaptureGoes(t, from, IF stop THEN "Finally" ELSE "Record")

OpenRecorder(t) ==
  /\ LoopTurns(t, "Open")
  /\ UNCHANGED <<menu, events, fresh, made, senders, queue, counters>>

(* No data, not yet a block, or a block that the stop leaves behind.       *)
RecordNoBlock(t) ==
  /\ LoopTurns(t, "Record")
  /\ UNCHANGED <<menu, events, fresh, made, senders, queue, counters>>

RecordBlock(t) ==
  /\ ~stop /\ made < MaxBlocks
  /\ CaptureGoes(t, "Record", "Put")
  /\ made' = made + 1 /\ fresh' = [fresh EXCEPT ![t] = made']
  /\ UNCHANGED <<menu, events, senders, queue, counters>>

CaptureRaises(t) ==
  /\ \E from \in {"Open", "Record"} : CaptureGoes(t, from, "Finally")
  /\ error' = (IF stop THEN error ELSE "Capture")
  /\ UNCHANGED <<menu, stop, done, fresh, made, senders, queue, counters>>

Full == Len(queue) >= Capacity

HandOver(t) ==
  /\ queue' = Append(queue, fresh[t])
  /\ fresh' = [fresh EXCEPT ![t] = 0]

Put(t) ==
  /\ ~Full
  /\ LoopTurns(t, "Put")
  /\ HandOver(t)
  /\ UNCHANGED <<menu, events, made, senders, counters>>

PutFindsFull(t) ==
  /\ Full
  /\ CaptureGoes(t, "Put", "Evict")
  /\ UNCHANGED <<menu, events, fresh, made, senders, queue, counters>>

(* The sender may have emptied the queue meanwhile.                        *)
Evict(t) ==
  /\ CaptureGoes(t, "Evict", "PutAgain")
  /\ queue' = (IF queue = <<>> THEN queue ELSE Tail(queue))
  /\ UNCHANGED <<menu, events, fresh, made, senders, counters>>

(* Counting a drop only when the second attempt fails too.                 *)
PutAgainCountsFailures(t) ==
  /\ LoopTurns(t, "PutAgain")
  /\ IF Full THEN UNCHANGED queue /\ fresh' = [fresh EXCEPT ![t] = 0]
             ELSE HandOver(t)
  /\ dropped' = (IF Full THEN dropped + 1 ELSE dropped)
  /\ UNCHANGED <<menu, events, made, senders, sent>>

PutAgain(t) ==
  /\ LoopTurns(t, "PutAgain")
  /\ IF Full THEN UNCHANGED queue /\ fresh' = [fresh EXCEPT ![t] = 0]
             ELSE HandOver(t)
  /\ dropped' = dropped + 1
  /\ UNCHANGED <<menu, events, made, senders, sent>>

(* A capture thread that ends without telling the sender.                  *)
CaptureEndsSilently(t) ==
  /\ CaptureGoes(t, "Finally", "Ended")
  /\ UNCHANGED <<menu, events, fresh, made, senders, queue, counters>>

CaptureEnds(t) ==
  /\ CaptureGoes(t, "Finally", "Ended")
  /\ done' = TRUE
  /\ UNCHANGED <<menu, stop, error, fresh, made, senders, queue, counters>>

-----------------------------------------------------------------------------
(* _run_sender()                                                           *)

SenderGoes(t, from, to) ==
  /\ sender[t] = from
  /\ sender' = [sender EXCEPT ![t] = to]

(* A stack in place of a queue.                                            *)
TakeNewest(t) ==
  /\ queue # <<>>
  /\ SenderGoes(t, "Get", "Send")
  /\ holds' = [holds EXCEPT ![t] = queue[Len(queue)]]
  /\ queue' = SubSeq(queue, 1, Len(queue) - 1)
  /\ UNCHANGED <<menu, events, captures, last, counters>>

Take(t) ==
  /\ queue # <<>>
  /\ SenderGoes(t, "Get", "Send")
  /\ holds' = [holds EXCEPT ![t] = Head(queue)] /\ queue' = Tail(queue)
  /\ UNCHANGED <<menu, events, captures, last, counters>>

TakeTimesOut(t) ==
  /\ queue = <<>>
  /\ SenderGoes(t, "Get", "Empty")
  /\ UNCHANGED <<menu, events, captures, holds, last, queue, counters>>

LookIfDone(t) ==
  /\ SenderGoes(t, "Empty", IF done THEN "Finally" ELSE "Get")
  /\ UNCHANGED <<menu, events, captures, holds, last, queue, counters>>

SendBatch(t) ==
  /\ SenderGoes(t, "Send", "Get")
  /\ last' = holds[t] /\ holds' = [holds EXCEPT ![t] = 0]
  /\ sent' = sent + 1
  /\ UNCHANGED <<menu, events, captures, queue, dropped>>

SendRaises(t) ==
  /\ SenderGoes(t, "Send", "Failed")
  /\ error' = "Sender"
  /\ UNCHANGED <<menu, stop, done, captures, holds, last, queue, counters>>

FailureStopsCapture(t) ==
  /\ SenderGoes(t, "Failed", "Finally")
  /\ stop' = TRUE
  /\ UNCHANGED <<menu, done, error, captures, holds, last, queue, counters>>

SenderEnds(t) ==
  /\ SenderGoes(t, "Finally", "Ended")
  /\ done' = TRUE
  /\ UNCHANGED <<menu, stop, error, captures, holds, last, queue, counters>>

-----------------------------------------------------------------------------
Menu ==
  \/ StartResets \/ RouteUnavailable
  \/ StartSender \/ StartWorker
  \/ StopSetsEvent \/ JoinEnds

Capture(t) ==
  \/ OpenRecorder(t) \/ RecordNoBlock(t) \/ RecordBlock(t) \/ CaptureRaises(t)
  \/ Put(t) \/ PutFindsFull(t) \/ Evict(t) \/ PutAgain(t)
  \/ CaptureEnds(t)

Sender(t) ==
  \/ Take(t) \/ TakeTimesOut(t) \/ LookIfDone(t)
  \/ SendBatch(t) \/ SendRaises(t) \/ FailureStopsCapture(t)
  \/ SenderEnds(t)

Next == Menu \/ \E t \in Streams : Capture(t) \/ Sender(t)

Spec == Init /\ [][Next]_vars

(* Threads are scheduled; record() returns, with silence if nothing plays, *)
(* and a write to the port returns or raises within its timeout.           *)
FairSpec ==
  /\ Spec
  /\ \A t \in Streams : WF_vars(Capture(t)) /\ WF_vars(Sender(t))

-----------------------------------------------------------------------------
(* The sender does not end under a capture thread that goes on: it leaves  *)
(* after capture has, or has told it to stop.                              *)
SenderOutlivesCapture == \A t \in Streams :
  (~overlap /\ sender[t] = "Ended" /\ capture[t] # "Ended") => stop

(* Blocks leave in the order they were captured, whatever is dropped.      *)
InOrder == ~overlap =>
  /\ \A i, j \in DOMAIN queue : i < j => queue[i] < queue[j]
  /\ \A i \in DOMAIN queue : last < queue[i]
  /\ \A t \in Streams : sender[t] = "Send" =>
       last < holds[t] /\ \A i \in DOMAIN queue : holds[t] < queue[i]

(* The thread that feeds the queue is between two blocks.                  *)
Feeds(t) == ~overlap /\ t = streams /\ capture[t] \notin Handing

(* audio.py:35: "live audio latency bounded".  What waits is among the     *)
(* newest blocks captured, however slow the sender is: a full queue gives  *)
(* up its oldest block and never the new one.                              *)
Fresh == \A t \in Streams : Feeds(t) =>
  \A i \in DOMAIN queue : made - queue[i] < Capacity

(* What holds of every stream that started alone.                          *)
StreamerInvariant == TypeOK /\ SenderOutlivesCapture /\ InOrder /\ Fresh

(* Each block captured is sent, waiting, in the sender's hands or counted  *)
(* as dropped.  The count may be too high: a block the sender takes after  *)
(* the queue was found full is counted as dropped all the same.            *)
LossesCounted == \A t \in Streams : Feeds(t) =>
    made - base <= sent + dropped + Len(queue) + (IF holds[t] = 0 THEN 0 ELSE 1)

(* A stop, by the user or by a sender that failed, ends every thread of a  *)
(* stream that started alone, unless another start() intervenes.           *)
ThreadsEnd ==
  (stop /\ ~overlap) ~> (~stop \/ \A t \in Streams : ~Alive(t))
=============================================================================
