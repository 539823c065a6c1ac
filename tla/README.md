# A TLA+ model of sockudo-ws

sockudo-ws is a WebSocket library for Tokio and compio. This directory holds TLA+
modules for its streams, its protocol, its handshakes and transports, its queues and its
topic registry, TLC configurations that check them, and TLAPS proofs about the registry,
the queues, the heartbeat, the unified stream and both split streams.
Paths below are relative to the repository's `src/` directory of Rust code unless they
start with `tests/` or are `README.md`, the repository's own.

    tlc -workers 2 -config PubSub.cfg MCPubSub      # a run
    tlapm PubSubProofs.tla                          # the proofs

## 1. Inventory

| Component | State | Operations | What is hard | What makes it correct |
|---|---|---|---|---|
| `pubsub.rs` registry | topics -> member vectors, subscriber -> positions, socket-id map, two atomics; one RwLock | create, remove, subscribe, unsubscribe (by id or socket id), publish | ids taken before the lock; sends after it; `swap_remove` moves a member whose index must follow | the two indexes are inverses; the socket map is exact; a snapshot holds every other member once |
| `stream/websocket.rs` split stream | status byte, cancellation token, sink mutex, control channel, reader's retained message, driver's locals | `next`, `send`, `flush`, `close`, drop of either half, driver loop | three tasks; futures cancelled at any await; peer that stops reading; error, EOF, timeout and close racing | whole frames on the wire; one terminal cause; a Close answered and nothing after it; everything ends within the closing budget |
| `stream/split_transport.rs` | Open / Closing / Closed stream behind a mutex | `begin_close`, `finish_close`, polls of the halves | driver drops the stream under a polling reader | the reader sees the cause, never a forged EOF |
| `heartbeat.rs`, `stream/clock.rs` | last activity, outstanding Ping, stop flag; one lazily re-armed timer | deadlines, `ping_due`, `ping_flushed`, `on_inbound`, `stop` | Pong before flush, late Pong, activity published without a wakeup, deadline moving earlier | no timeout before its time, none missed, only its own Pong settles a Ping |
| `queue.rs` SPSC, MPMC rings | head, tail, slots, sequence numbers | `try_push`, `try_pop` | lock-free; wrapping counters; stale position after the ring went round | a bounded FIFO; one side at a time in a slot; calls end |
| `stream/websocket.rs` unified streams, `cork.rs` | protocol, read buffer, output buffer of segments, pending messages, wakers of two halves, one timer, close state | `poll_next`, `poll_ready`, `start_send`, `poll_flush`, `poll_close` | Stream and Sink polled by different tasks over one transport waker; transport and timer wake from other threads | no lost wakeup; bytes in order; Pong not starved; messages in order; close bounded |
| `protocol.rs`, `frame.rs`, `utf8.rs` | parser header state, mask position, fragment buffer, validator's carry, close state | `process`, `process_next`, `process_raw`, `split` | frames in pieces; typed and raw calls mixed; limits | a message is delivered iff the peer sent it and it is valid as a whole |
| `deflate.rs`, `compression.rs` | codec windows, shared encoder pool | negotiate, compress, decompress | windows out of step; output at the limit; encoders shared by connections | both ends agree on the window; every message decodes |
| `compio.rs` | single-threaded streams over owned-buffer I/O, a split driver, two channels | `next`, `send`, `flush`, `close`, `split`, dropped futures | a write cut off half way; hand-offs behind a full channel; reader's activity against the driver's timer | whole frames; control hand-off once; closing within its budget |
| `http2/`, `http3/`, `stream/transport_stream.rs`, `io_uring/` | one pending future per direction, buffers | polls, native calls | abandoned writes, a poll with another buffer | a byte reported written goes out once; the end only at the end |
| `handshake.rs`, `extended_connect.rs`, `multiplex.rs`, `client.rs`, `server.rs`, `axum_integration.rs` | none beyond one exchange | upgrade, CONNECT, accept | header and data in one read; foreign peers; deflate parameters | both ends agree on what was opened; the stream starts right behind the header |
| `mask.rs`, `simd.rs`, `lib.rs`, `error.rs`, `transport.rs`, `stream/receive_window.rs` | none | byte loops, types | - | - |

How they interact: a handshake yields a stream; the unified stream owns transport,
protocol and heartbeat; `split` hands the transport to `SplitTransport`, the protocol to
reader and writer, starts the driver task and shares with it the status byte, the sink
mutex, the 32-place control channel and an activity timestamp. Applications connect
streams to the registry through unbounded channels.

`PROJECT.json` lists every hazard with the line where it bites and the property that
watches it.

## 2. Modules and their correspondence to the code

**PubSub** (`pubsub.rs`). `topics`, `subTopics`, `subSocket` and `socket_id_map` are the
fields of `PubSubData`; positions are zero-based as in the code. A critical section of
the RwLock is one action, so `remove_subscriber` with its loop over topics is one step.
`create_subscriber` is two (`fetch_add`, then the insertion) and a publish is a snapshot,
one step per send and a last step for the counter. A channel is named by its
subscriber's id. `create_subscriber_with_id` stands also for `.._or_get`, which changes
the registry in the same cases. Calls that return without changing anything are left
out as stuttering.

**SplitStream** (`stream/websocket.rs`, `stream/split_transport.rs`). Variables `status`,
`cancel`, `transport`, `sink` (holder, then waiters in Tokio's FIFO order), `queue`, and
`wire`: the frames put on the transport, each whole or begun. `rd`, `wr` and `dr` are the
read handle, the write handle and the driver; their `pc` names the await or the atomic
step they are at. Each atomic operation, lock, channel operation and poll is a step.
Actions carry the code's function names: `next_*`, `send_*`, `flush`, `driver_*`, and
`poll_*` for the arms of the driver's biased `select!`, taken in its order. Futures
dropped by the application are `next_cancelled`, `send_cancelled` and one case of
`send_aborted`; both handles may be dropped, inside a pending `next` too. Payloads are
frame kinds; the closing deadline is none, armed or expired; a zero `close_timeout`, which
takes another path through `send`, is the variable `zero`. The heartbeat appears as "its
deadline may pass whenever it is armed", a superset of what Heartbeat allows. The
compressed halves run this same driver, sink and writer core; their reader loop, a second
copy of the first, is the reader of a hand-over marked compressed.

**Heartbeat** (`heartbeat.rs`, `stream/clock.rs`, and the driver's use of them). Time in
milliseconds. One pass of the driver's loop is one step, with the arms in order: control
frame, timer, finished write. `registered` is the timer's registration with the runtime,
moved when a deadline is earlier and renewed when it fires too early. `seen` is history
for the properties. Time passes only while the driver sleeps and nothing is ready, that
is, the runtime is prompt; a slow runtime makes timeouts later and never earlier. A close
request ends what the module models (`stop`).

**SpscQueue, MpmcQueue** (`queue.rs`) implement **BoundedFifo**, the abstract bounded queue.
Loads, slot accesses, compare-and-swap and stores are separate steps; counters wrap at
`Modulus`, `usize` in the code. Memory is sequentially consistent: the acquire/release
pairs justify it for the slots, and the relaxed operations are on single counters. In the
MPMC mapping an item counts from the claim of its slot, so `try_pop` may find nothing
while a claimed push is unfinished; `Strict` is off for that reason, and a turned-away
call promises nothing. For SPSC full means full and empty means empty *(Strict)*.

**Utf8, FrameParser, Protocol** (`utf8.rs`, `frame.rs`, `protocol.rs`) are one receiver in
three layers, the first two pure operators over records. Utf8 works on real byte values:
`push` carries an incomplete code point, `finish` wants none. FrameParser has the code's
fast paths for small unmasked and masked frames, the state of a header seen in part, the
extended lengths (with small thresholds) and `payload_ready`, the number of bytes of an
incomplete payload already unmasked; a masked byte carries the set of key bytes it was
xor-ed with, so unmasking from a wrong position shows. The peer's frames come from the
encoder of the same module. Protocol is the state machine: a read appends any number of
the peer's bytes, a call (`process`, `process_next_with_activity`, `process_raw`, the
reader halves after a split, the compressed protocol) consumes what it can. `truth` is
what the peer's frames say when put together, for the properties.

**CorkBuffer** (`cork.rs`), the output as segments in front of an open buffer, and
**UnifiedStream** (both unified streams of `stream/websocket.rs`). `s` is the stream
object, `p` the poll in progress, `w` the wakers (slots, `armed`, the timer, tasks asleep
and woken), `net` the transport with the peer's script and the wakers registered with it,
`due` the deadlines that have passed. A poll runs to its next transport call or waker
registration; one poll at a time, since the halves share the object, while the transport
and the timer wake through `HalfWakers` from other threads between any two of those steps,
taking a waker and waking it being two steps. Tasks may move a half to another task
between polls. The compressed stream is the same module where its code is the same and has
its own operators where it is not.

**CompioStream, CompioSplit** (`compio.rs`). An action runs from one await to the next:
everything is one thread. CompioStream has the unified stream, CompioSplit the state behind
`split()`: reader, writer, `compio_split_writer_driver` with its `select!` in order, the
control and application channels, and `await_compio_write`, which keeps an owned write
alive across controls and timers. A write that fails or whose future is dropped leaves half a
frame on the wire; `net.torn` becomes true if another write starts behind it. `drop_call` is
the application dropping `next()`, `send()`, `close()` or `flush()` of the unified stream
while it writes: `flush_bytes` (`compio.rs:353`) has taken the buffer, and the state stays
what it was. In the cleanup after the peer's Close that is Closed, and nothing is written
any more; everywhere else it may be Open, and a next call writes behind half a frame.
`README.md:809` forbids going on ("do not resume it after cancelling a potentially partial
control write"), and `seen.cut` records that the application cut a frame in this way.

**Opening** (`handshake.rs`, `client.rs`, `server.rs`, `axum_integration.rs`,
`extended_connect.rs`, `multiplex.rs`, the openings of `compio.rs`) has the HTTP/1.1
exchange with headers in cells that arrive in pieces, the Axum extractor, and the CONNECT
handlers of each server, their status and the subprotocols they answer with, and the
clients, which look at the status alone; either side may be a foreign one that sends
anything. **Deflate** (`deflate.rs`) has the negotiation as operators over offers and
policies and the codecs over token windows. **Transport** (`http2/stream.rs`,
`http3/stream.rs`, `io_uring/stream.rs`, `stream/transport_stream.rs`, the HTTP streams of
`compio.rs`) has one write side and one read side of each kind, with the library below
deciding what an operation comes to. **Session** composes them: a WebSocket that opened with
permessage-deflate goes on with messages through the codecs both ends derived; one over
HTTP/2, HTTP/3, QUIC or io_uring with its transport; and connections of the shared pool of
`compression.rs` take its encoders in turn.

**Filtering** has `Iterator::filter` over a vector as a recursive function, which TLC
evaluates and the provers can unfold; PubSub, UnifiedStream, CompioStream and CompioSplit
use it.
**Lemmas** holds the facts the proofs share, and `<Module>Proofs` the theorems about
`<Module>` (CompioProofs about CompioSplit with CompioStream).

MC modules only name small instances (and the symmetry of PubSub's sets and of the tasks).

## 3. Runs

| Run | Shows | States |
|---|---|---|
| `pubsub` | `IndexConsistent`, `SocketMapConsistent`, `PendingIdsFresh`, `SnapshotExact` | 314,451 |
| `split_safety` | request kept with its message (`TypeOK`); `FrameBoundaries`, `CloseAnswered`, `SinkExclusive`, `EofIsThePeers`, `FirstCauseWins` | 7,016,650 |
| `split_live` | `NoDataAfterClose`; `CloseEnds`, `TimeoutReported` | 672,382 |
| `split_panic` | violated: `NoPanic` (finding 1) | - |
| `spsc` | `NoSlotRace`; refinement of BoundedFifo | 13,600 |
| `mpmc` | `SlotsExclusive`; refinement of BoundedFifo; `CallsEnd` | 189,460 |
| `heartbeat` | `PongTimeoutJustified`, `IdleTimeoutJustified`, `NoDeadlineMissed`, `OnlyItsPongSettlesPing` | 1,869,112 |
| `receive` | `FragmentsExact`: what was consumed is the peer's frames; `TextValidated`: typed text is UTF-8 and bad text fails at once, raw calls between or not; `OnlyBadInputFails`; `CloseStates` | 592,449 |
| `unified` | `NoLostWakeup`; `OutputOrder`; `DeliveredInOrder`; `PingsAnswered` | 3,581,172 |
| `unified_close` | violated: `CloseTimesOut` (finding 2) | - |
| `compio` | `WholeFrames`, `DeliveredInOrder`, `HandedOver`, `ClosingBudget`, `TimeoutReleases`; `ClosingEnds` | 1,574,959 |
| `session` | `HandshakeAgrees`, `StreamsStartClean`, `MessagesDecode`, `TransportExact` | 1,686,132 |

Bounds and why they are enough:

- PubSub: three ids let a topic have three members, so `swap_remove` moves a member from
  the end into the middle; two threads interleave an allocation with everything else; two
  topics let one removal touch several vectors; one publish in flight can see every
  change made behind its snapshot. The invariants are also proved without bounds.
- SplitStream: one inbound message after the split (with the handed-over Close: two), one
  application call of any kind, one dropped future and one Ping suffice for each pair of
  racing events; capacity 2 lets a Close permit and a request compete. The hand-over set
  has an empty stream, a Close followed by a parse error and unparsed bytes, a closed
  stream and a compressed one. The liveness run takes capacity 1, the tightest, and two
  application calls, so a data send can wait behind a Close.
- Queues: N = 2 with counters modulo 8 that start at 7 in the MPMC case, so that both wrap
  within three operations; each position is reused.
- Heartbeat: twelve configurations (Ping, Pong timeout and idle timeout on or off, an idle
  timeout equal to a possible Pong deadline and one beside it), time to 7, which holds a
  Ping, its timeout and the idle timeout.
- Protocol: every frame of a set that has each opcode, length form, fault, cut code point
  and Close payload, alone, after a Ping and in messages of two and three fragments; reads
  cut the bytes anywhere, and each call may be typed or raw. Lengths of three, four and five
  bytes stand for 125, 65535 and the limit; the mask key has two bytes.
- UnifiedStream: eight situations (feeding against a Ping on a full transport, Ping and
  Close read together on a multiplexed transport, a bad frame and a broken transport,
  heartbeat, moving tasks, three of them compressed), two tasks. A segment is two bytes or
  more, a vectored write takes two slices, so a write ends inside, at the end of and behind
  a segment.
- Compio: channels of one place, so that every hand-off waits; scripts with two controls
  behind one another, so one waits in the channel and one in the reader; closing, heartbeat
  and faults, whole and split. Calls are dropped while closing and with a heartbeat on the
  whole stream, and behind a full channel and on a breaking transport on the split one.
- Session: headers of up to three cells read in pieces of up to three with two data cells
  behind them, so a read ends before, in, at the end of and behind a header, and a header is
  below, at and above the limit; all offers with windows at the ends of their range and
  outside what the backend has (8); four messages of up to three tokens with a limit of two
  and a window of two; five bytes in buffers of two, so that a transport write is taken in
  part and followed by a different one. Two connections share two encoders.

Deadlock checking is off where a bound ends a behaviour (all but `spsc`), not because the
system may stop there.

Fairness: `split_live` assumes that the runtime polls a ready task, that a deadline passes,
that the application keeps calling `next()` and drops the reader after its reported end,
and that a send that is not waiting for the peer goes on. It does not assume that the peer
sends anything or accepts a byte, nor that the application calls `send`, `close` or
cancels. `CloseEnds` counts a panicked driver as ended: whether it panics is
`split_panic`'s question. `mpmc` assumes that every thread is scheduled. `compio` assumes
that the driver and a reader that may go on are polled, that an operation of the driver that
can go on does, and that the closing deadline passes; neither that the transport accepts a
byte nor that either handle is used.

Every property has a mutant, an operator beside the definition it replaces that makes
a plausible mistake there (a re-check dropped, a lock released before the status is
published, a position not updated). TLC refutes the property for each of them.

### Findings

1. `split_panic`. The driver's `expect("a Close handshake has a closing deadline")`
   (`stream/websocket.rs:2300`) can fail. The application's `close()` has moved the status
   to LocalClosing and has not yet queued `LocalCloseStarted`; the driver takes the peer's
   Close from the queue and, seeing LocalClosing, leaves deadline and response to the local
   close; the reader's next read fails and `terminate(ConnectionClosed)` replaces
   LocalClosing; the driver, back at its loop top, no longer sees a local close, writes
   the Close response itself and then finds both Closes done and no deadline. The window
   is two driver steps wide.
2. `unified_close`. `README.md:725` promises that a silent peer produces `ConnectionClosed`
   within the closing budget. When one task waits in `next()` and another sends a Close
   through the Sink half, `begin_closing` (`stream/websocket.rs:810`) drops the timer the
   reader was registered with and, once the flush completes, nothing puts the closing
   deadline on a new one nor wakes the reader, which waits for the peer for ever. A task that
   calls `next()` after its own `close()` is not affected: that poll arms the timer.

Observations outside the runs, from reading the code for the models:

- `MpmcQueue<T, 1>` is accepted (`queue.rs:241`) and loses items: after a push the slot's
  sequence equals the next head, so the next push finds the slot free. Setting `N = 1` in
  `MpmcQueue.cfg` shows it as a violation of `ImplementsFifo`.
- Unified stream: when the Sink half's write fails or `poll_close` ends, an accepted Close
  or a timeout cause the Stream half had not reported yet is discarded; and while the Close
  response to the peer is blocked, the state stays Open, so `start_send` may still encode
  data behind it.
- compio: after a bad frame the reader sends `ReadError` and terminates at once
  (`compio.rs:2344`); the driver ends at its loop top (`compio.rs:2530`) and leaves the Pings
  queued in front of it unanswered, which the comment at `compio.rs:98` does not suggest.
- Extended CONNECT, validation. The rules of `ExtendedConnectRequest::validate`
  (`extended_connect.rs:217`) are that `:protocol` is "websocket" and the version, if
  present, 13. Tokio's HTTP/2 handlers (`server.rs:514`, `server.rs:567`) never call it:
  their comment says "Check if this is an Extended CONNECT for WebSocket", and what they
  check is the method. A CONNECT with any `:protocol`, or none, and any version opens.
  compio's HTTP/2 handler validates the version but puts "websocket" where it found no
  `:protocol` (`compio.rs:1005`), and it never finds one, since h2 keeps the value in the
  request's extensions and `from_request` looks in the headers. `HandshakeAgrees` therefore
  claims for each route what its handler checks. With `ConnectValidated` as an invariant in
  `Session.cfg` TLC shows the difference.
- Extended CONNECT, subprotocol. `build_extended_connect_response`
  (`extended_connect.rs:375`) takes an "Optional selected subprotocol"; Tokio's HTTP/2
  handlers give it the client's whole list (`server.rs:521`, `server.rs:579`), which
  `AnswerSelects` as an invariant in `Session.cfg` shows. HTTP/3 and compio answer no
  subprotocol at all, and the CONNECT clients ignore what the answer says, so a subprotocol
  is agreed over HTTP/1.1 only, Axum's upgrade included.
- The HTTP/1.1 client does not reject extensions it never offered; the filtered HTTP/3
  handler ignores a failed response.
- `CloseStates` reads from a state to the Close frames, not back: a Close that
  `encode_message` writes after the peer's (`protocol.rs:901`) leaves `CloseReceived`, and
  only `encode_close_response` moves on to `Closed`.

## 4. Proofs

The theorems hold for every value of the constants that satisfies the module's ASSUME:
any number of threads, capacity, script, configuration and bound. Each proof has the same
plan: an inductive invariant, checked by TLC on the component's run before it was proved;
a lemma that the initial states satisfy it, one lemma per action that the action keeps it;
and theorems that read the properties off it.

| Module | Theorems | Property |
|---|---|---|
| `PubSubProofs` | `RegistryInvariant`; `IndexAlwaysConsistent`, `SocketMapAlwaysConsistent`, `PendingIdsAlwaysFresh`, `SnapshotsAlwaysExact` | all of run `pubsub` |
| `SpscQueueProofs` | `SpscInvariant`; `NoRaceEver`, `SpscRefinesFifo` | all of run `spsc` |
| `MpmcQueueProofs` | `MpmcInvariant`; `SlotsAlwaysExclusive`, `MpmcRefinesFifo` | all of run `mpmc` but liveness |
| `SplitStreamProofs` | `SplitSafe`; `TypeAlways`, `SinkAlwaysExclusive`, `FramesAlwaysWhole`, `CloseAlwaysSent`, `NoDataEverAfterClose`, `EofAlwaysThePeers`, `FirstCauseAlwaysWins` | all of `split_safety`, and `NoDataAfterClose` of `split_live` |
| `HeartbeatProofs` | `HeartbeatInvariant`, `HeartbeatTypes`; `PongTimeoutAlwaysJustified`, `IdleTimeoutAlwaysJustified`, `DeadlinesNeverMissed`, `OnlyItsPongEverSettlesPing` | all of run `heartbeat` |
| `CompioProofs` | `CompioInvariant`; `FramesAlwaysWhole`, `TimeoutsAlwaysRelease`, `BudgetAlwaysKept`, `ControlsAlwaysHandedOver`, `MessagesAlwaysInOrder` | all of run `compio` but liveness |
| `UnifiedStreamProofs` | `UnifiedInvariant`; `WakeupsNeverLost`, `OutputAlwaysInOrder`, `MessagesAlwaysDelivered`, `PingsAlwaysAnswered` | all of run `unified` |
| `Lemmas` | arithmetic of wrapping indices, induction over naturals and vectors, `Filter`, messages that pass through a stream (`Flow`) | - |

**Registry.** `IndexConsistent` alone is not inductive: inserting a subscriber preserves it
only if the id is not live (PendingIdsFresh), a removal by socket id only if the map names a
live subscriber (SocketMapConsistent), and `swap_remove`'s arithmetic needs the types.
`SwapRemoveProperties` says what the vector looks like after a removal,
`MembersAfterProperties` lifts it to a topic, and `RemoveTopicMember` shows that the move
and the index update together keep the two structures inverse, for one topic or for all
topics of a subscriber. `SnapshotsAlwaysExact` follows because the index makes the members
of a topic distinct and names the excluded one's place: filtering it out leaves each other
member exactly once (`ExcludingExact`, `DistinctCount`).
Assumption: NoSocket is not a socket, bounds are naturals.

**SPSC.** The invariant says that the index a thread loaded is still the shared one (each
index has one writer), that a producer past its check has room and a consumer past its
check has an item, and what the slot about to be published or returned holds. Two indices
less than N apart are in different slots (`ModClose`). For the refinement, `Contents`, the
slots from tail to head, grows at its end with the store of the head and loses its first
with the store of the tail, and `full` and `empty` are exact. Assumption: N divides the
modulus and the modulus is at least 2N: powers of two, in the code.

**MPMC.** Positions are counted from the start of the run without wrapping (`Abs`). Of the
N positions from the tail on exactly one falls on each slot, and `SlotInv` says which
sequence number that slot then has: free, claimed, full, being emptied. `ProducerInv` and
`ConsumerInv` say that a thread which found its turn still has it while the index it loaded
is the current one, so the compare-and-swap settles who goes on. `CountInv` bounds the
claims by the calls: with fewer than Modulus calls no index comes round under a sleeping
thread. That bound (MaxPush, MaxPop below Modulus) is the model's form of "a thread does not
sleep through 2^64 operations", which the code relies on. Further assumptions: finitely many
producers, and N > 1 in every theorem: with one slot they are false (see above).

**Split stream.** `SafeInv` relates the five pieces of shared state to where the three tasks
are: who holds the sink (`SinkExclusive`), whose write the unfinished last frame is
(`MidFrame` in `WireInv`), that a Close claimed to be sent is on the wire (`AnswerInv`), that no Close is
begun while the status is Open (`ClosingInv`, whence no data behind it, `DataInv`), who owns
the transport (`TransportInv`, `EofInv`) and what a reserved permit leaves of the channel
(`PermitInv`). `FirstCauseWins` is an action property: `StepStatus` shows it step by step.
Assumption: the hand-over and bounds are of their types, the channel has a place.

**Heartbeat.** `ArmedInv`: the armed deadline is the one the state calls for and the timer
fires no later, so nothing is missed. `ArrivalInv`: the last arrival is in `last_inbound`,
in the published atomic or still queued, so an idle timeout is justified although data wakes
nobody. `PingInv` locates the outstanding Ping from write to flush, `AnswerInv` an in-time
answer. Assumption: configurations are of their type and automatic Pings have an interval.

**Compio.** Frames stay whole because a flush given up half way leaves a stream, or a
driver, that writes no more (`HalfInv`), until the application drops a call half way through a
frame (`WholeInv`: `seen.cut`, or `HalfInv`). `TimeoutInv` follows a timeout's cause through every
place that can report it. `BudgetInv` ties the late read to `post_expiry` and the batch's
Close to what next() knows of it. `HandInv`: a request waits only with the message it was
made of, and what was committed is the filter of what was returned since the split.
`FlowInv`: what was returned, what the call in progress holds and what the batch holds are the
first messages of the script, and the read buffer continues where they end; the `Flow` lemmas
say what taking, returning, reading, dropping and parsing do to that line. A Ping that is lost
with its dropped `next()` leaves a gap in it and keeps its order: the lemmas carry a flag for
that (`gap` of `Caught`). It is not part of
the main invariant because `MessagesAlwaysInOrder` has a hypothesis of its own, `CloseIsLast`:
no script has anything behind the peer's Close. Without it the statement fails: the split reader
drops what it had read behind a Close, and may still return what it reads later. RFC 6455
forbids a peer to send it, and every script of the run satisfies the hypothesis.
Assumptions: setups are of their type and `leftover`, the number of frames read before the
stream existed, is within the script.

**Unified stream.** `IInv` covers the plain and the compressed stream. `Places` says which
transport calls a poll may be in and where each returns to, `Shapes` which fields the records
have; every other part needs both.

- `NoLostWakeup` speaks of halves that sleep; what makes it hold is decided earlier, in the
  poll. `PollWakers`: from its registration to its return a poll has its waker in its half's
  slot, or its task has been called. The hard steps are the proxy's wake, which empties one slot
  and then the other, and `register`, which may skip storing a waker on an `armed` flag read
  before the proxy took it. `SlotInv` says that an armed slot holds the registered waker and in
  which half of the wake the proxy is; `SleepInv` is the property plus what the reader
  listens for: a reader of a closing stream (`ClosingInv`) may wait for writes only, and its
  deadlines are covered by the timer.
- `DeliveredInOrder`: what was delivered, the message in hand, the batch and the read buffer are
  consecutive parts of the script (`FlowInv`), with one message in hand at most (`HandInv`). A
  reader asks the transport for more only with all of them empty (`KeepInv`, `ReaderInv`), and
  so sleeps with nothing kept back (`SleepsEmpty`).
- `OutputOrder`: what was encoded is what was written and then the contents of the cork. The
  lemmas `ContentsWrite` to `ContentsConsume` say that every way of writing appends to these
  contents and that a partial, vectored write removes from their front exactly the bytes it took,
  wherever in a segment it ends.
- `PingsAnswered`: of the Pings the application was told about, each is answered by the Pong
  that waits or by one encoded since, unless a Close is parsed behind it (`PongInv`). A message
  overtakes a waiting Pong only on an admission older than the Ping, and uses it up
  (`OvertakeInv`).

Assumptions: setups are of their type, `leftover` is within the script, and NoTask is not a task.

**Induction.** The library's induction theorems take an operator and cannot be used.
`Lemmas` derives what is needed from the well-foundedness of the naturals in set form
(`LeastNatural`, `SetInduction`, `VectorInduction`: a set of vectors that has the empty one
and is closed under appending has all of them), and from it that a recursive function over
an interval exists and unfolds (`IterationExists`, `FilterUnfolds`, `FilterAppend`,
`FilterType`, `FilterConcat`). The cork's joined segments are such a function too
(`JoinedUnfolds`, `JoinedSplit`).

Model-checked only: liveness (`CloseEnds`, `TimeoutReported`, `CallsEnd`, `ClosingEnds`),
which with ENABLED is beyond the provers used here, and the safety of Protocol and of Session
with its parts. Protocol's reference, what the peer's frames and bytes say, recurs over the
input, and what it computes for every input is not stated; for Session no inductive invariant
has been worked out yet.

## 5. Not modelled

Weak memory beyond the argument above; the text of headers and payloads; the
SIMD and masking loops; the zlib codec; third-party transports (h2, h3, quinn, tokio-uring)
except as what they may answer; URL parsing, TLS and QUIC setup, accept and serve loops; the
io_uring buffer pool; the receive window's size; Rust's drop order beyond the guards named in
the modules; panics of user code. Simplifications inside modelled parts: a malformed HTTP
header is refused when it is complete (the code may refuse it earlier); HTTP/3 is taken to
yield no empty chunk; the io_uring native write completes. Left out: dropping a unified compio
call while it waits for a read, of which `README.md:725` says "not generally cancellation-safe";
dropping the pending `finish` of a compio HTTP/3 stream; errors of the reads of HTTP/2, HTTP/3
and io_uring streams, and of the writes of a handshake, which end the call that meets them. Components without a module, and
what is left out of the others, are in `PROJECT.json`.

## 6. Plan

All components with state of their own have a module, and all but the receiver and the
session have their safety proved. What remains:

1. `Transport`: `TransportExact` for every set of chunks and buffer sizes. `WritesExact` without
   its case of a broken stream looks inductive; `ReadsExact` needs `FlattenSeq` unfolded the way
   `Filtering` is. Then `StreamsStartClean` and `MessagesDecode`.
2. `Protocol`: `FragmentsExact` and `CloseStates` for every input, with the recursions over
   bytes and frames unfolded in the same way.
