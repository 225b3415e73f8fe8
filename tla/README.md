# TLA+ models of the ESP32 Wireless Dongle

The firmware (`src/src`, `src/include`) turns an ESP32 into a Wi-Fi, TCP/UDP,
Bluetooth and A2DP adapter behind one serial port; the host package
(`src/host`) talks to it with framed requests, responses and events. This
directory holds TLA+ models of the parts of it that keep state over time, the
TLC configurations that check them, and TLAPS proofs about them.

## 1. Inventory

| Component | State it keeps | Operations | Talks to |
|---|---|---|---|
| A2DP life cycle: `A2DPManager.cpp`, `A2DPSource.cpp` | connection state, queued connect, shutdown reason, fallback, timers, callback mailboxes | connect by address, by name, automatic; disconnect; tone and PC audio start/stop; `update()`; library callbacks | the ESP32-A2DP library, Bluetooth Classic, event queue |
| Audio playback: `AudioStreamBuffer.cpp`, `fillFrames` | packet ring, profile, prebuffer, loaded block, resampler phase | start, stop, push packet, load block, frame callback | A2DP library task, dispatcher |
| Application loop and event queue: `DongleApplication.cpp`, `EventQueue.h`, `Logger.cpp` | 16-record ring, drop counter, protocol-ready flag | enqueue, pop, drain after each service | every service, codec |
| Wi-Fi: `WiFiManager.cpp` | connecting, sent-event flags, scan publication index | scan, connect, disconnect, `update()` | Arduino WiFi, event queue |
| Bluetooth scans: `BluetoothClassic.cpp`, `BluetoothLE.cpp` | initialised, scanning, pending start, completion, publication index | scan, stop, connect, disconnect, `update()`, suspend and restore for A2DP | Bluedroid tasks, A2DP, event queue |
| Network: `NetworkService.cpp` | three sockets and their was-connected flags | blocking TCP/UDP calls, `update()` | lwIP |
| Serial protocol: `CommandParser.cpp`, `ProtocolCodec.cpp`, `CommandDispatcher.cpp` | parser buffer | feed, dispatch, respond | UART, services |
| Host client: `host/esp32.py`, `frame.py`, `serial_transport.py` | sequence number, pending responses, deque of events, frame parser | connect, request, poll and decode events, receive loop | UART |
| Host audio: `host/audio.py`, `audio_pipeline.py` | capture and sender threads, bounded queue | start, stop, capture, send | host client |
| Host console: `host/main.py` | the streamer, deadlines of its waits; the sockets and the thread of its network tests | menu options, waits for events, six network tests, exit | host client, streamer, sockets of the PC |

What is hard here:

* Concurrency. The application task, the tasks of the A2DP library and of
  Bluedroid, and on the host a receive thread, a sender thread and a capture
  thread. The firmware's callbacks only write mailboxes, each one slot deep.
* Ordering. Classic and the A2DP source share one controller and hand it over
  at every connect and shutdown, asynchronously; events of a command may be
  published before or after its response.
* Failure and time. Connect timeouts, the disconnect debounce, media check
  retries, the fall-back from a cached address to a name, host retries.
* Partial failure. A request may raise executed or not, and every option of the
  console is a sequence of requests with a clean-up behind it.
* Bounds. 16 event records, a 28 KiB audio ring, 8-bit sequence numbers,
  8 queued audio blocks on the host.

What makes each part correct is listed with its models below; the hazards that
the properties answer to are in `PROJECT.json`.

## 2. The A2DP connection life cycle

`A2DPManager.tla` models `A2DPManager` and `A2DPSourceAdapter` together with
the dispatcher commands that reach them and the ESP32-A2DP library they drive.

### State

Each variable stands for the member named beside its declaration. Empty
strings are `NoAddress` or a Boolean "is set". `millis()` deadlines are three
values: `off`, `running`, `due`. The library is one variable, from `Off` over
`Searching`, `Discovering`, `Found` and `Ready` to `Linked` and `Playing`.
Three history variables record what the host was told and asked for
(`published`, `hostWants`, `startsLeft`); no action of the code depends on
them.

### Actions

* Commands run between two updates, at `pc = "Idle"`: one action per command,
  or one per outcome of it (`CancelQueued`, `NothingToStop` and `StopSession`
  are the three ways through `disconnect()`; a command that is refused changes
  nothing and is a stutter).
* `update()` is split at its phases, because callbacks interleave with it:
  `FinishShutdown` (`processShutdown`), `ProcessPendingConnection`,
  `ApplyPendingCallbacks` with the publications that follow, the debounce, the
  media check and the connect timeout. Callbacks touch only the mailboxes, and
  only `ApplyPendingCallbacks` and the two resets read or write them, each
  under the lock or with the library off, so finer steps add nothing.
* The library's steps (`LinkUp`, `AudioStarts`, `NameSelector`, ...) are
  external: they happen in any order its states allow and overwrite the
  mailboxes. `end()` may deliver a last callback before it returns.
* `BluetoothInit` and `BluetoothGetInfo` stand for the commands that bring
  Classic up beside a manager that is not (yet) using the controller.

### `A2DPSession.tla`, the abstract specification

A session is `Idle`, `Queued`, `Running` or `Stopping`; every start uses up one
unit of a budget of one or two that an accepted connect buys. `SessionPhase`
maps the manager's state to the four phases. `ImplementsSession` says every
step of the manager is a step of the session; `ImplementsFairSession` adds that
queued requests and shutdowns do not stay.

### Runs

| Run | Shows | Bounds |
|---|---|---|
| `a2dp_safety` | `SessionInvariant` (types, a queued connect waits alone, no source without an owner, starts within their budget), two more invariants, refinement of `A2DPSession`, over all commands | one address, one media retry; 2.1 million states |
| `a2dp_live` | attempts end, requests start, shutdowns finish | one address, no media retry, session commands only |
| `a2dp_disconnect_sticks` | a statement of the documents that the code does not keep | as `a2dp_safety`, without the media retry |

One address is enough: addresses are only compared with the empty address and
copied, never with each other. One media retry makes the retry counter both
count and stop. Nothing else is bounded: every other variable is finite.

### Fairness

`WF(Update)`: `loop()` calls `update()` for ever and no phase blocks. The three
clocks: time passes. `WF(DiscoveryStops)`: an inquiry ends, cancelled or by its
own length. Nothing is assumed of the host, the remote device or the other
library callbacks.

### What the runs say about the code

The invariants hold: the shutdown owns the state while it lasts, a queued
connect never meets a session, the library never runs behind a disconnected
manager, outcomes are published after the clean-up, and fallbacks do not loop.
The violation is listed with its quotation in `PROJECT.json`; in short, a
disconnect does not cancel a fallback in progress.

Seen while modelling, and run by no configuration: a link lost after audio has
played, and that stays down, is dropped as a start-up glitch
(`A2DPManager.cpp:979`) and never looked at again, where
`docs/state-machines.md` draws the way to Disconnected; a `CONNECTED` callback left
in its mailbox takes the state from Disconnected to Connected with no attempt
before it, and an accepted connect whose `CONNECTED` is overwritten by a
`DISCONNECTED` before `update()` reads it reports no `A2DP_CONNECTED`; `BT_INIT`
brings Classic up beside a running A2DP source, for it does not ask.

### Proofs: `A2DPManagerProofs.tla`

For every non-empty set of addresses and every retry limit:

* `TypeCorrect`: `Spec => []TypeOK`.
* `Owner`, the inductive invariant. The safety invariants are not inductive one
  by one: that a queued request waits alone needs that no phase after
  `processPendingConnection` sees one and no phase at all sees a shutdown
  (`PhaseFacts`); that the library is off when a shutdown finishes needs that
  the adapter still owes its `end()` until then (`SourceFacts`); that starts
  stay within their budget needs that every armed fallback is still paid for
  (`BudgetFacts`). `Owner` is their conjunction, and one lemma per group of
  actions shows it is preserved.
* The five safety invariants follow from it (`SessionInvariantHolds` joins three
  of them with the types, as the run checks them), with two that are only
  proved, `ShutdownOwnsState` and `ConnectingIsTimed`, and `ManagerImplementsSession`
  proves the refinement of `A2DPSession`.

The assumptions are `AddressesAssumption` and `RetriesAssumption`. The liveness
properties are model-checked only, as the prover does not reason about
fairness and ENABLED.

## 3. The event ring

`EventQueue.tla` is the ring of `EventQueue.h`, statement by statement: records,
head, tail, count and drop counter, with one action for each way through
`enqueue` and `pop`. Each of them holds the lock throughout, so each is atomic.
A record's type, length and payload are one value, and the last answer of a
call is kept in `answer`.

`BoundedFifo.tla` says what the ring promises: what is admitted comes out once,
in order, and a refusal is told. `ImplementsFifo` maps the ring to it by reading
`count` records from `head` on.

Run `event_queue`: capacity 3 and two different records, so that head and tail
wrap at different times and an overwritten or repeated record shows; a drop
counter of three values, so that it wraps. 831 states, all of them.

`EventQueueProofs.tla` proves the same for every capacity, every set of records
and every width of the counter. The step is an invariant, `Ring`: the types, the
three indices agreeing modulo the capacity, and every slot of the stored part
written. None is inductive alone: that `enqueue` overwrites nothing needs
`tail = (head + count) % CAPACITY` and the guard on `count`. Lemmas about the
remainder (`ModOnce`, `SlotForm`) carry the arithmetic, and
`RingImplementsFifo` is the refinement.

## 4. Wi-Fi

`WiFiManager.tla` models `WiFiManager.cpp`, the commands that reach it and the
Arduino station below it.

* State: the six members that steer it. `WiFi.status()` is `Down`, `Connected`
  or `Failed` (the two statuses that fail an attempt). A network list is its
  length. `out` holds what the latest step published. The history variables
  `hostUp`, `hostHasAddress` and `hostFound` are the view of
  a host that hears every event.
* Actions: `Scan`, `Connect`, `Disconnect`, and `Update`, which is
  `PublishScanResults` followed by `UpdateLink`, each a disjunction of the ways
  through the code. `update()` is one action: it reads the station once, except
  for `localIP()`, whose second read affects a payload only.
* The station (external) connects, fails, gets an address, loses the link and
  ends scans between any two steps. A disconnect takes effect after a while, so
  that a new attempt may find the old link still up.

| Run | Shows | Bounds |
|---|---|---|
| `application` (section 5) | the host's view follows the link, the result list stays under its publication, a `ScanDone` counts the networks before it, and a link that settles is learnt, all of it inside the loop and over restarts | batches of 2, up to 3 networks: no batch, a full one, a remainder |

Fairness: in the loop, `update()` runs for ever, and nothing is assumed of the
station.

Seen, and run by no configuration: `docs/protocol.md:46` promises a report for
every accepted connect, but a connect while connected gives the old link up, and
if the update that notices its loss runs before the new attempt fails, it clears
`_connecting` (`WiFiManager.cpp:135`) and the failure is not reported.

`DongleApplicationProofs.tla` proves, in its first part, the type invariant, `HostViewAgrees`,
`ResultsKept`, `BurstBounded` and `DoneCountsNetworks` for every batch size and
every number of networks. The invariant `Facts` adds two conjuncts to the
properties: a connection announced is one the host knows, and not one being
attempted (`FlagsAgree`), and no network is heard of outside a publication
(`NoneFoundYet`). `HostLearnsLink` is model-checked only.

Seen likewise: a scan that fails after it was accepted publishes nothing; a `scan()` between the completion of a scan and the next
update deletes its results. `EventQueue.h:15` speaks of four entries per
update, where `MAX_SCAN_RESULTS_PER_UPDATE` is eight and a burst reaches eleven,
which the sixteen records still hold.

## 5. The application loop

`DongleApplication.tla` composes `WiFiManager` with the loop of
`DongleApplication::update()`: commands, then each service followed by a drain
of the ring. `phase` and `draining` are the place in the pass. The Wi-Fi steps
are those of `WiFiManager`, the station moves between any two steps, and one
record is sent per step of a drain. The ring is its length: all services publish
from this task, so that nothing but the number of events matters to the
properties, and section 3 covers what the ring does with them. The other
services are bursts of 0 to `ServiceEvents` events, the commands of one pass
publish up to `CommandEvents`. `Restart` is `RESET`, or power lost and restored,
at any moment.

Two bounds are assumptions, not code (`RingHoldsBursts`): the commands of one
pass and the Wi-Fi burst together fit the ring, and so does any other burst.
With 16 records and a Wi-Fi burst of 11, five events are left to commands. A
command publishes at most three (a Classic connect: start-up record,
`CONNECTING`, outcome), and the host client waits for each response, so one
command per pass is the rule; but nothing in the firmware enforces it, and two
Classic connects that queue in the receive buffer are enough to break it. The
largest burst of the Bluetooth phase is 15 records, proved in section 6; that of
A2DP is about 13, counted by hand.

| Run | Shows | Bounds |
|---|---|---|
| `application` | `LoopInvariant` (types, the host's view, the result list, empty rings between services) and the properties of section 4; once a drain has caught up with the services, nothing is lost and no event waits behind the burst of another service; events leave the ring | ring of 6 for batches of 2, one command event and bursts of 6: every bound is met exactly; up to 3 networks, so a scan takes two batches; 139 thousand states |

Seen, and run by no configuration: `docs/state-machines.md:49` says that batches
keep a scan from overflowing the ring; before the first `GET_INFO`, while
nothing is drained, a scan of more than fifteen networks does overflow it and
loses its last networks and its `WIFI_SCAN_DONE`.

Fairness: the loop goes on, as no phase waits.

`DongleApplicationProofs.tla` proves the safety invariants for every ring that
satisfies `RingHoldsBursts`, and that `HostViewAgrees` and `ResultsKept` hold in
the loop, restarts included. The invariant `AppFacts` joins `Facts` of the Wi-Fi
proofs with the loop's own: a drain has caught up only when the host was heard,
and nothing drains between commands and the Wi-Fi update. The lemmas of
its first part, about the Wi-Fi service alone, are cited, not repeated. `EventsLeave`
is model-checked; `RingsRunDown` proves its safety half (section 13): with the host
attached, every step of the loop lowers `StepsToEmpty`, the steps to an empty ring.

## 6. Bluetooth scans

Classic and BLE share one controller, and both the A2DP source and the event
ring constrain them. Four modules build up what `BluetoothManager::update()`
does in one pass of the loop.

* `ScanPublication.tla`: the table that both publish in batches of
  `PUBLISH_ENTRIES_PER_UPDATE`, and `burst`, the records of the current pass.
  A table is its number of entries; entries and names are left out.
* `BluetoothClassic.tla`: scan, stop, the three stages of `update()` (deadline,
  pending start, publication), and suspension and restore for A2DP. All of it
  runs in the application task; the inquiry itself is known by its outcome,
  any number of results when `completeScan()` fetches them.
* `BluetoothLE.tla`: the same with the callback that ends a scan. It runs in
  the Bluetooth host task on the other core, and its three stores are three
  actions, which commands and stages of `update()` may separate. A scan of a
  stack that is up is three actions too: it clears the completion flag, arms the
  callback, and marks and starts itself, and a callback of the scan before may
  still be at work between them. The deadline's stores commute with the
  callback's and are one action.
* `BluetoothManager.tla` composes them: commands with the dispatcher's guards
  while `pc = "Commands"`, then one action per stage. The A2DP source is
  `A2DPSession`, the specification that `A2DPManager` is proved to implement, so
  that the handover of the controller is seen from Classic's side without the
  manager's own detail. It starts, fails and finishes in its stage; a shutdown
  begins by a command or at the end of that stage. A failed start leaves `update()` at once, as `return`
  does in the code: `ClassicStart` then skips the publication stage.

History variables: `found`, `cleared` and `shortfall` follow one publication;
`request` says what has become of the host's scan; `unseen`, kept by `Watch` beside
every step, says that a BLE scan and the present session have met where no guard of
the dispatcher sees the one beside the other: the scan was accepted while the connect
was queued or a shutdown ran, or an empty shutdown, which nobody asked for, met it and
fell back to the name.

Run `bluetooth`: who may use the controller together (`ControllerInvariant`), that a
`SCAN_DONE` counts the events before it, that a pass fits the ring, and that an
accepted scan is answered. `ControllerInvariant` has three parts beside the types:
the two scans exclude each other (`ScansExclude`); the source keeps Classic out
(`ClassicQuiet`); and a BLE scan beside the source is `unseen` (`BleUnseen`). The last
is as much as holds, since the source suspends Classic only. It says that the guards
of the dispatcher do what they can: no scan lasts from before a connect into its
session, and none is accepted beside the source. Bounds: two entries in batches of one, so that a
publication takes one, two or three batches, the last of them perhaps empty; a
ring of seven, the least that `RingHoldsScans` allows. 651 thousand states. The
publication index is 0 outside a publication, where the code keeps a stale value
that it resets before it reads it.

Fairness: a pass reads at most 2048 bytes, so that its commands end and its
services follow (`SF(Pass)`: passes are not put off for ever by commands); the
two deadlines come; a callback that has begun ends. That the library ever calls it is not assumed, nor that a session ends:
the deadline alone has to answer a scan.

What the two liveness properties exempt is behaviour of the code, and read as
such. A scan may stay unanswered when

* A2DP suspends Classic in the middle of a publication: `suspendForA2dp()` drops
  the rest and its `SCAN_DONE`;
* a scan that completed is followed, before the next update, by one that the
  library refuses: the refused scan has already cleared the table and the
  completion flag;
* the host scans again and again without waiting: each start clears the table
  of the publication in progress, and each completion restarts it.

Seen, and forbidden by no property: a BLE scan that is accepted while a connect is
queued or a shutdown runs goes on beside the source. The guard of the scan
(`CommandDispatcher.cpp:344`) asks whether A2DP is active or connecting, which it is
not yet or no longer, and the start suspends only Classic (`A2DPManager.cpp:626`,
`:650`), whereas a connect is refused while BLE is busy (`CommandDispatcher.cpp:369`).
The fallback to the name, after the empty shutdown that a late callback begins, passes
no guard either.

`BluetoothManagerProofs.tla` proves the type invariant, `ScansExclude`,
`ClassicQuiet`, `BleUnseen`, `DoneCounts` and `BurstFits` for every table, every batch and
every ring that satisfies `RingHoldsScans`. The invariant is `IInv`. Exclusion
is inductive only with `Owners` and `Starts` (a pending start does not outlive
its stage; a BLE start that is pending is the first of the library; Classic is
idle while a BLE scan is being started). `BleUnseen` needs `BleAdmitted`: in any session,
and not only once the source runs, a BLE scan that goes on is unseen. `BleScanAccepted`
and `SessionBegins` say what the guards see where a scan and a session begin, and
`AdmissionKeeps` that no other step brings the two together. Counts need
`ClassicPublishing` and `BlePublishing`: while the table is whole, what has been
published is the index. The burst needs `Budget`, which says for each stage
what may have been published before it: a Classic start that failed excludes a
full Classic batch, a short last batch pays for its `SCAN_DONE`, and a BLE start
that failed leaves BLE with nothing to publish (`BleFresh`). With the code's
batches of four the bound is `3 * 4 + 3 = 15` of the sixteen records: the last
full batch of Classic, a BLE deadline, and a batch of BLE.
`ClassicReports` and `BleReports` are model-checked only.

The SPP link of `BluetoothClassic` is kept only as `ClassicBegin`: its
`connect()` blocks the loop, and its events are part of the commands' burst.

## 7. Audio playback

PCM audio crosses from the application task, which pushes the packets of the
host, to the Bluetooth task, in which the A2DP library asks for frames. They
share a byte ring under one lock and the cursor's reset under another.

* `AudioStreamBuffer.tla` is the ring, one operator per operation, each atomic
  because it holds `_mux`. A byte is the content of its packet (of which the
  properties tell good headers from bad) and its place in it. A byte that has
  been read or given up is `Blank`, so that whoever read it again would show.
* `AudioPlayback.tla` runs the two tasks from one critical section to the next.
  `startAudio` is two steps, as are `stopAudio`, `beginShutdown` and
  `resetRuntimeState`; a callback is one step up to the first test of
  `fillFrames`, then one per test, frame and access to the ring. `blockBytes()`
  and `loadBlock()` are two steps, and any command may come between them.
* `PacketQueue.tla` says what the ring promises: whole packets, in order, none
  before the prebuffer has been collected. `ImplementsPacketQueue` reads the
  packets off the bytes between `read` and `write`, and `taken` off what the
  callback last copied.

Run `audio_playback`: a ring of 20 bytes, headers of one byte, blocks of two
samples, a prebuffer of two blocks, two frames per callback. A mono packet has 5
bytes and a stereo packet 9: four mono packets would fill the ring exactly, which
is one byte too many; stereo packets are torn by the end of the ring; both
prebuffers fit. 84 thousand states.

Fairness: a callback that has begun goes on. That the library asks again is
not assumed but is a premise of `StreamHeard`.

Assumptions: `PrebufferFits`, which 28672 bytes satisfy with 1027 bytes for the
largest packet and a prebuffer of 8; and, in `HostIsSlower`, that the eight
packets which prime the ring do not all arrive between two adjacent calls of the
callback. Without it the ring of bytes could be shifted by the difference of two
profiles for a whole stream: that hazard is assumed away, and no property catches it.

`OldStreamSilent` is about a stream that was stopped. A start with no stop before
it is different: `startAudio()` requests the reset before it starts the buffer,
and a callback between the two may drop one old block and load another, the rest
of which (at most 256 samples) is then played in the new stream.

`AudioPlaybackProofs.tla` has four theorems. `TypeCorrect` and
`OldStreamIsSilent` rest on `IInv`: the types; `HandedOn`, what a step passes to
the next one of its task; and `Doomed`, that while a stream runs or is being
started a block left from a stopped one is under a requested reset, which also
covers the steps at which no callback begins. `RingImplementsQueue` adds
`Packed`, that the ring holds a whole number of packets of the current profile
and that the prebuffer is a whole number of them, and `SizeAgrees`, that a
callback which asked for the block size of an older profile finds the ring empty.
The rest is arithmetic of the ring: lemmas of what `Place`, `Stored` and `Forget`
do to the bytes between `read` and `write` when either wraps, and from them that
admitting a packet appends one and loading a block takes the first.
`CallbacksRunDown` proves the safety half of `CallbackEnds` (section 13), for any
number of frames: `CallbackLeft` counts four steps for each frame left.

## 8. Host transactions

`HostTransactions.tla` models `Esp32Device` on the host: `request()`, which
holds `_request_lock` and so is one call at a time; the reader thread; the audio
sender, which draws sequence numbers from the same counter without that lock;
`connect()` and `disconnect()`; and the line. A frame is its command, its number
and, as history, the call it belongs to. The line is two queues that lose frames
and delay them at will: a damaged frame is dropped by the parser at its end
(`LossyLine`, section 10). The
dongle answers each request it receives once.

`_next_sequence()` is three steps, a read of the value, a read of the operand of
the sum and the store, between which the other thread may run: it holds no lock,
and only the interpreter's switching makes it look atomic. One test of the
waiting loop is one step, because it holds `_rx_condition`. That the loop ends
with a matching response in the deque is possible in the code and in the model.

Nothing removes a response that no request took but `connect()`, and a number
comes round after 256 frames, or earlier when the sender stores an old sum. So a
request may be handed the response of an earlier one, and then leaves its own
behind. `OwnUnlessOverdue` says what can be relied on: this happens only with the
response of a call that had gone on without it, because its time was up, it was
sent again, an error ended it, or it took another's response itself. While every
answer comes in time, no number is ever mistaken. `docs/protocol.md:55`, "Control
commands use one request/one response transactions", holds to that extent only.

Run `host_transactions`: two commands, one with a retry and one without, three
calls, two sequence numbers, so that numbers come round within the calls; 1.9
million states. `CallEnds`: whatever line, reader and port do, a call ends, with
as many attempts as it was given. Fairness: the calling thread runs and time
passes; nothing is assumed of the reader, the line or the dongle.

`HostTransactionsProofs.tla` proves `TypeCorrect` and `ResponsesAreOwn` for any
commands, retries, numbers and calls. `OwnUnlessOverdue` becomes inductive with
two facts about `InFlight`, the deque, the line from the dongle and the line to
it, read as one sequence: everything in it belongs to the waiting call or to an
overdue one (`Accounted`), and to a waiting call that is not overdue belongs one
frame at most (`OneOwn`). The reader and the dongle only move frames along that
sequence; losses, `connect()` and the taking of a response only thin it out
(`Thins`); a write adds one frame at its end. `CallsRunDown` proves the safety half of
`CallEnds` (section 13), for any number of retries.

## 9. PC audio streaming

`PcAudioStreamer.tla` models the class of that name in `host/audio.py`: the
menu's thread in `start()` and `stop()`, the capture thread that fills a bounded
queue, and the sender thread that empties it into the serial port.

* State: the two events, `error`, the queue and the two counters are the
  members of the same meaning. A block is its number. `caller`, `capture[t]` and
  `sender[t]` say where each thread is; `t` numbers the calls of `start()` that
  got as far as the threads, since a `stop()` whose `join()` timed out leaves
  the threads of an older stream running. `current` is the stream which
  `self.worker` and `self.sender` belong to.
* History: `made`, `base` and `last` number blocks captured and sent; `overlap`
  says that the latest `start()` met living threads, `gaveUp` that a `stop()`
  has forgotten one.
* Actions: one for each use of the queue and of an event, because `queue.Queue`
  locks each of its methods and nothing more. So the way through a full queue is
  four steps (`PutFindsFull`, `Evict`, `PutAgain`, the turn of the loop), and
  "nothing came" and "is capture done?" are two (`TakeTimesOut`, `LookIfDone`).
  The resets of `start()` are one step: a thread of an older stream reads each
  of those members by itself, and in a stream that starts alone no other thread
  is there. The loop's look at the stop event is part of the step before it.
* `record()` and `send_batch()` may raise at any time; so may the search for a
  route, which ends `start()` after the resets and before the threads.

Run `pc_audio`: a queue of two, two streams, three blocks, so that the queue is
found full, emptied by the sender before the eviction or filled by another
stream, and a second stream starts beside the first or after it; 584 thousand
states. Fairness, for `ThreadsEnd`: threads are scheduled, `record()` returns
(WASAPI delivers silence) and a write to the port returns or raises within its
`write_timeout`. The menu is not fair: nobody has to start or to stop.

`StreamerInvariant` joins the types, the order in which the threads end, the
order of the blocks and their freshness. Most of it is about a stream that
started alone (`~overlap`), and
`StartsAlone`, which is proved, says when that can fail: only after a `stop()`
that gave up.
`LossesCounted` is an inequality because the count may be too high: the block
that the sender takes after the queue was found full is counted as dropped too.

Seen, and run by no configuration: two pairs of threads that overlap mix their
blocks and share one stop event, so that `stop()` may forget a thread that a
later `start()` then keeps alive; and the last block captured may stay unsent,
although `audio.py:478` says "the sender is allowed to drain queued audio": the
sender's `get()` times out, the capture thread puts its block and sets
`capture_done_event`, and only then does the sender look at that event.

`PcAudioStreamerProofs.tla` proves the type invariant, `StartsAlone` and the
safety properties of the run for every capacity and any number of streams and
blocks. The invariant is the types and four parts. `Known`: a thread alive that
is not the menu's own was given up, and streams not yet created have no
threads. `Alone`: in a stream without overlap only the latest threads live, and
the done event is their own. `Numbered`: no block is newer than the newest, and
a thread that puts holds one. `Flow`: in such a stream the queue is the newest
blocks without a gap, less the one the capture thread still has in hand, and
counters, queue and hands account for all of them. `Flow` is what makes order,
freshness and losses inductive, each of which alone is lost at an eviction.
Lemmas of `Append` and `Tail` carry the sequence, and the preservation is split
by thread. Three more theorems are the safety half of `ThreadsEnd` (section 13):
after the stop event each capture thread runs down (`CapturesComeToEnd`), a sender
whose capture thread has ended is told so (`EndsAreTold`), and from then on it runs
down too, with the queue in front of it (`SendersComeToEnd`).

## 10. The serial line

`FrameLine.tla` models one direction of the line byte by byte: `build_frame()`
and the firmware's `sendFrameParts()`, the line, and the two parsers. The parsers
are one machine; `receiver` says whether it checks as `FrameParser` does
(version and length at the end of the header, type after the checksum) or as
`CommandParser` does (length at the end of the header, version and type with the
checksum). One byte is one step. `Damage`, `Drop`, `Add` and `CutShort` are what
a line, a booting dongle and a write that fails half way can do to the bytes.

A checksum is ideal: its bytes carry the text they were computed over beside
their value, so that the model has no collision (the code lets one damaged frame
in 65536 through). The cutting of the bytes into reads, the counters of the
parser, and how a write waits are left out.

`LossyLine.tla` says what the layer above relies on, and what `HostTransactions`
assumes of its two queues: a frame is handed over once, unaltered and before the
next, or lost.

Run `frame_line`: payloads that are empty, look like a start of frame, or are too
long to be sent; checksums with and without a start in them; a longest payload of
twelve bytes, and two faults, so that one may fall into the parser's recovery from the
other. `UndamagedArrives` is about a frame that begins while the parser waits;
`LossBounded` says how many frames in a row a parser that took a false header can
miss, as long as their contents hold no further start. With the code's 4096 bytes
and its smallest frames that is 411. Contents full of starts may prolong it.

The second half of `HostTransactionsProofs.tla` proves all four properties, for any
payloads, any ideal checksum, any longest payload up to 65535 and any number of
faults: `LineTypeCorrect`, `UndamagedFramesArrive`, `LossesAreBounded`, and
`LineIsLossyLine`, the refinement. The invariant is `LineInv`; TLC has checked it on
the instance of the run.

* What is still to be sent is the end of the frame being sent, or there is nothing
  (`RestOfFrame`); what the parser has collected belongs to the state it is in
  (`NothingLeftOver`). With the types these carry the refinement: a frame is handed
  over only when its collected bytes agree with their checksum, and a checksum that
  agrees was computed over those very bytes of a frame the other end has built.
* While an awaited frame arrives undamaged, the parser is exactly as far into it as
  bytes have left (`KeepsUp`, by `Follows(f, n)`: the state after `n` bytes of `f`).
* Lost frames are paid for (`LossesPaid`): a smallest frame has ten bytes, and ten times
  the frames missed so far, plus what has gone of the present one, plus what the
  parser can still take before it waits (`Left`), never exceed the longest frame.
  When the parser comes out inside a frame with no second start in it, it waits there
  and takes the next one.

The proof has corrected the model once: `missed` was set by a CASE with two guards that
may both hold, of which TLC takes the first and TLA+ either one.

## 11. The network

`NetworkService.tla` holds the sockets of the dongle: one operator per command and
`Update` for `update()` with `stopAll()`. Commands that wait hold the loop, so each
is one action, taken when it ends. What travels is nothing, a part of a message or
the whole. The network (external) loses Wi-Fi and breaks connections at any moment.

`NetworkTests.tla` runs the six network tests of the console against it. A test is
its steps before the `try`, in it and in the `finally`; `Onward` and `Raise` are how
Python gets from one to the next. A request may raise executed or not. The PC is a
peer of the dongle in the three system tests; the thread of the TCP client test is
`worker`, one action per socket call. In the three tests of the user the peer is a
stranger who connects and sends at will.

Run `network`: no bound but the data; 138 thousand states. `PassMeansBothWays`: a
test that passes has carried a message each way. `LeavesNothingOpen`: a test that
reached its `try` leaves nothing open on the dongle, unless a request of its
`finally` raised. `HostHearsOfLoss`: after an `update()` the host believes in no
connection that is gone. `TestsEnd`: every step has a timeout. Fairness: the console
goes on, and the loop of the dongle does.

`HostConsoleProofs.tla` proves the three invariants and the action property of the
run (`TestsTypeCorrect`, `PassesAreEarned`, `TestsLeaveNothingOpen`,
`LossesAreHeardOf`). The module has no constants; the proofs say why they hold. The
invariant is `TestsInv`, which TLC has checked too:

* what the host believes in is watched (`Believed`: its flag in `was` is set);
* a system test past the step that receives its message, without having raised, has
  that message, at either end (`GotFacts`, with the steps in `DonglePoint` and
  `PcPoint`), and a test that passes has not raised (`PassFacts`);
* a test that has ended, and the TCP client test between `tcp_close` and `join`,
  holds nothing open unless it was cut short (`Closed`).

The proof first works out the steps of each test from its three parts
(`StepsOfTcpClient` and so on), then what any step, request or not, must bring about
before a test goes on (`StepFacts`, `Achieves`): one lemma shows it of the thirteen
requests, one of the steps on the PC, and the rest of the argument knows no others.
`TestsComeNearer` is the safety half of `TestsEnd` (section 13).

Seen, and run by no configuration: a loss of Wi-Fi closes connections with no
`TCP_DISCONNECTED` for those that still looked connected (`stopAll()` clears the
flags); `TCP_DISCONNECTED` does not say which link it is about; a `tcpConnect()` that
fails after it stopped the old connection leaves the old flag, so that the host is
told of the loss of a connection it replaced itself; `run_tcp_server()` accepts
before its `try`, so that a wait of 30 seconds with no client leaves the server
listening. A thread that outlives its test is left out from the next test on.

## 12. The host console

`HostConsole.tla` models `main()`, `menu()` and the options that start something on
the dongle and wait for the events that tell how it ended. Between the two stands
`events`, the one deque that the reader fills with the events of all subsystems.

* `phase` is where the console is: the option's first status request, its command,
  its wait, the status request after a deadline (`Confirm`), or the steps of PC
  audio. `Waits` gives for each option the events it lists and the events it ends
  with. `Look` is one turn of a wait's loop: it takes the deque over whole, goes
  through it up to the first event that ends the wait, and drops the rest.
* `streamer` is `is_running()`. `stop()` waits three seconds for each thread and then
  forgets it (`audio.py:474`): `forgotten` says that such a thread lives, and it sends
  what is queued, after `audio_stop()` too. Section 9 has the streamer's own detail.
* Requests raise carried out or not, and lead back to the menu; `Unchecked` are the
  three Wi-Fi wrappers that do not look at the status. `Interrupt` is Ctrl-C.
* `Decoded` is `decode_event()`: what is malformed becomes nothing.
* The dongle is what the options need of it: `work` says for each kind what it is
  doing and for which option; its reports come at any moment or are lost. The
  services themselves are sections 2, 4 and 6.

Run `host_console`: three options in any order, one result per scan, two events
pending (a third is lost, as by the ring or the line), 1.4 million states. Three are
enough for an option that is given up, a second whose wait meets its events, and a
third. The dongle rests once nobody can look any more (`Over`). A request that times out
is carried out before or not at all: one that the dongle carries out later, when the
console is in the menu or in its next option (`esp32.py:284`), is not modelled.
`ConsoleInvariant` joins the types with `StreamerOnlyWhileTold`: `is_running()` tells of a
streamer only while the dongle is told to start. It is no promise that a dongle told to
stop gets no more audio, because of the threads that are forgotten.
`OwnAnswer` and `ScanListsAll` are about waits that began with nothing older of their
kind pending; `AnswerNotReused` about every wait: an answer that was given is not
given again. Fairness, for `WaitEnds`: the console runs, requests return and deadlines
pass; the menu waits for its user.

`HostConsoleProofs.tla` proves the three invariants and `AnswerNotReused` for every
number of options, of results and of pending events. First, every step of the dongle is
shown to go on with one operation and to publish at most an event of that operation
(`DongleShape`); no wait hears of the events of another (`HeardOfOwn`). The inductive
invariant `Facts` then has a part for each question:

* `StreamerFacts`: the streamer is told to stop, and no longer counts as running, before
  the dongle is told to stop;
* `OwnFacts`: in a wait that began with nothing older pending, all that it would take for
  its answer carries its number, and so does the work that goes on;
* `NumberFacts`, `EndFacts`, `AnsweredFacts`: numbers are given in order; a scan that has
  published its end is over; and once the wait has heard of it, neither work, nor a
  pending event, nor a link that is going carries its number any more. `AnswerNotReused`
  needs all three;
* `CountFacts`: the results listed and those pending are together what the dongle has
  sent, and the end is the last and carries their number. `ScanListsAll` counts a set of
  positions in the deque, which the proof follows through each append and each look.

`OptionsComeBack` is the safety half of `WaitEnds` (section 13): no phase leads back to
an earlier one, and only a wait may stay where it is.

Seen, and run by no configuration:

* no option empties the deque before it starts, so that the `WIFI_DISCONNECTED` of
  option 3 ends the wait of the next option 2, and a scan that ran into its deadline
  ends the wait of the next scan;
* `wifi_scan()`, `wifi_connect()` and `wifi_disconnect()` ignore the status: a refused
  scan waits for its deadline;
* the dongle publishes `A2DP_AUDIO_STARTED` and `A2DP_AUDIO_STOPPED` with no payload
  (`A2DPManager.cpp:922`, `:928`), and `decode_event()` takes every A2DP event but a
  failure without 18 bytes for malformed (`esp32.py:998`): option 18 always reports that
  the first callback was not observed. `EVT_AUDIO_UNDERRUN` is never decoded at all;
* threads that a `stop()` gave up on send on after `audio_stop()`, and `is_running()`
  does not tell of them (`forgotten`);
* `streamer.start()` that raises leaves the dongle streaming; option 31 stops it only if
  the streamer still runs; Ctrl-C does not;
* `audio_send_batch()` accepts 8192 bytes where `build_frame()` refuses more than 4096.

## 13. What is proved, what is only checked

Proved, for all values of the constants under the named assumptions: type
invariants, safety invariants and action properties of sections 2 to 12, and the
refinements `ImplementsSession`, `ImplementsFifo`, `ImplementsPacketQueue` and
`ImplementsLossyLine`. That is every property of a run without `<>` or `~>`.
Where a run checks a conjunction (`SessionInvariant`, `LoopInvariant`,
`ControllerInvariant`, `StreamerInvariant`), a theorem states the conjunction and
others its parts.

Model-checked only: every property with `<>` or `~>` (`ImplementsFairSession`,
`ConnectingEnds`, `HostLearnsLink`, `EventsLeave`, `ClassicReports`, `BleReports`,
`CallbackEnds`, `StreamHeard`, `CallEnds`, `ThreadsEnd`, `TestsEnd`, `WaitEnds`),
because the prover has no rules for fairness and ENABLED. The run that expects a
violation (section 2) has no proof either.

Of six of these the half that is safety is proved, for all values of the constants: a
measure of natural numbers, which each step of the process that is to come to its end
lowers, and which no other process raises but by starting the thread anew. (A restart of
the dongle empties the ring, and ends what `EventsLeave` is about.)

| Property | Measure | Theorem |
|---|---|---|
| `CallEnds` | `CallLeft`: three steps for each attempt left | `CallsRunDown` |
| `WaitEnds` | `PhasesLeft`; a wait may stay until its deadline | `OptionsComeBack` |
| `TestsEnd` | `TestsLeft`: ten steps for each test left | `TestsComeNearer` |
| `CallbackEnds` | `CallbackLeft`: four steps for each frame left | `CallbacksRunDown` |
| `EventsLeave` | `StepsToEmpty`: the ring's length, or more before the drain | `RingsRunDown` |
| `ThreadsEnd` | `CaptureLeft`, then `SenderLeft`: three steps for each block queued | `CapturesComeToEnd`, `EndsAreTold`, `SendersComeToEnd` |

What is left to TLC there is that the process can take a step at all, and takes it:
ENABLED and the fairness of `FairSpec`.

Proof and run use the same definitions. Assumptions: `AddressesAssumption`,
`RetriesAssumption`; `CapacityAssumption`, `DropAssumption`, `BlankAssumption`;
`BatchAssumption`, `NetworksAssumption`; `EventsAssumption`, `RingHoldsBursts`;
`EntriesAssumption`, `RingAssumption`, `RingHoldsScans`; `SizesAssumption`,
`PrebufferFits`, `PayloadsAssumption`, `FramesAssumption`; `RetriesKnown`,
`BoundsAssumption`; `ContentsAssumption`, `CrcAssumption`, `LimitsAssumption`.

## 14. Not modelled

* The SPP link: `connect()` blocks the loop, and the console only asks and prints.
* Options of the console that only ask and print; the dialogues about audio devices;
  the layout of the output (`console.py`).
* Routes, probes, pacing, levels, profiles and the resampler of the host audio.
* System information, log formatting: no state that a property could be about.
* Clock arithmetic: timers are running or due. `_connectStart` of zero means no timer
  (`A2DPManager.cpp:1037`), and `millis()` passes through zero when it wraps: an attempt
  started in that millisecond, once in 49 days, has no timeout.
* Command payload checks: a refused command changes nothing and is a stutter.

## 15. Plan

Done, with proofs of all that is not about fairness: the A2DP life cycle, the ring,
Wi-Fi and the loop, the scans, playback, host transactions, streaming, the line, the
network and the console. Left, in the order of what matters most:

1. The bridge from `LossyLine` to the two queues of `HostTransactions`, which now
   stands on the README's word: a module of both, and a theorem that the queues of
   the one are the frames on the line of the other.
2. `NetworkService` in the loop in place of its burst, and `BluetoothManager` likewise.
3. The SPP link of `BluetoothClassic`: `connect()` and `disconnect()` with their events,
   and a link closed by the peer.
