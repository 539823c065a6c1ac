----------------------------- MODULE SplitStream -----------------------------
(***************************************************************************)
(* The split WebSocket stream of src/stream/websocket.rs: the application's *)
(* read handle and write handle, the connection's writer driver task, the  *)
(* shared transport of src/stream/split_transport.rs, and the three things *)
(* they share: the status byte, the sink mutex and the control channel.    *)
(*                                                                         *)
(* The three tasks run on a multi-threaded runtime, so every atomic        *)
(* operation, every lock or channel operation and every poll of the        *)
(* transport is a step of its own.  Payloads are abstracted to the kind of *)
(* frame; deadlines to "armed" and "expired".                              *)
(***************************************************************************)
EXTENDS Integers, Sequences, FiniteSets

CONSTANTS Capacity,     \* SPLIT_CONTROL_CAPACITY
          MaxInbound,   \* bound: messages the peer sends after the split
          MaxSends,     \* bound: calls of the write handle
          MaxCancels,   \* bound: futures the application drops half way
          MaxPings,     \* bound: automatic heartbeat Pings
          Handover      \* what the unified stream had in hand before split(): messages
                        \* still to deliver, unparsed data, a parse error, its closed state,
                        \* and whether it was a CompressedWebSocketStream

ASSUME SplitAssumption ==
    /\ Capacity \in Nat \ {0}
    /\ MaxInbound \in Nat /\ MaxSends \in Nat /\ MaxCancels \in Nat /\ MaxPings \in Nat
    /\ \A h \in Handover :
         /\ h.messages \in Seq({"Data", "Ping", "Pong", "Close"})
         /\ h.data \in BOOLEAN /\ h.parseError \in BOOLEAN /\ h.closed \in BOOLEAN
         /\ h.compressed \in BOOLEAN

VARIABLES
    zero,        \* Config::close_timeout = 0
    status,      \* SplitShared::status
    cancel,      \* SplitShared::cancel is cancelled
    transport,   \* TransportState
    sink,        \* the sink mutex: its holder, then the waiters in order
    queue,       \* the control channel
    wire,        \* frames put on the transport, in order; whole = fully written
    rd,          \* the read handle and its next() future
    wr,          \* the write handle and its send()/flush() future
    dr,          \* the driver task
    cancels      \* futures dropped so far

vars == <<zero, status, cancel, transport, sink, queue, wire, rd, wr, dr, cancels>>

-----------------------------------------------------------------------------

Terminal == {"Closed", "ClosedHeartbeat", "ClosedIdle"}
Status == {"Open", "LocalClosing", "PeerClosing", "ReadErrorPending"} \cup Terminal
Control == {"Ping", "Pong", "Close"}
Message == Control \cup {"Data"}
Request == {"Ping", "Pong", "PeerClose", "LocalCloseStarted", "LocalCloseSent", "ReadError", "Eof"}
Frame == [kind : Message, whole : BOOLEAN]

ReaderAwaits == {"reserve", "reserveError", "waiting", "sendEof"}
DriverEnded == {"stopped", "panicked"}

DriverInit ==
    [pc |-> "top", peerClose |-> FALSE, localCloseSent |-> FALSE, pendingPong |-> FALSE,
     readError |-> FALSE, deadline |-> "none", write |-> "none", phase |-> "new",
     heartbeat |-> "quiet", heartbeatArmed |-> FALSE, pings |-> 0, cause |-> "Closed"]

Init ==
    /\ zero \in BOOLEAN
    /\ \E h \in Handover :
         /\ status = IF h.closed THEN "Closed" ELSE
                     IF h.parseError THEN "ReadErrorPending" ELSE "Open"
         /\ rd = [pc |-> "top", batch |-> h.messages, parseError |-> h.parseError,
                  message |-> "none", request |-> "none", data |-> h.data, result |-> "none",
                  reported |-> FALSE, inbound |-> 0, compressed |-> h.compressed]
    /\ cancel = FALSE
    /\ transport = "Open"
    /\ sink = <<>>
    /\ queue = <<>>
    /\ wire = <<>>
    /\ wr = [pc |-> "idle", op |-> "none", sends |-> 0]
    /\ dr = DriverInit
    /\ cancels = 0

-----------------------------------------------------------------------------
(* SplitShared, the sink mutex, the control channel, the wire *)

terminate_overwrites(cause) == status' = cause

\* The first terminal cause wins.
terminate(cause) == status' = IF status \in Terminal THEN status ELSE cause

begin_closing(how) == status' = IF status = "Open" THEN how ELSE status

\* Tokio's mutex is fair: a release hands it to the first waiter.
Holder(a) == sink # <<>> /\ Head(sink) = a
Without(s, a) ==
    IF \E i \in 1 .. Len(s) : s[i] = a
    THEN LET k == CHOOSE i \in 1 .. Len(s) : s[i] = a
         IN [i \in 1 .. Len(s) - 1 |-> IF i < k THEN s[i] ELSE s[i + 1]]
    ELSE s

ChannelOpen == dr.pc \notin DriverEnded

\* The permit send() reserved for a Close is held until its notification.
WriterPermit ==
    \/ wr.pc \in {"begin", "began"}
    \/ zero /\ wr.op = "Close" /\ wr.pc \in {"check", "write", "notify", "terminate", "cancel"}

HasCapacity == Len(queue) + (IF WriterPermit THEN 1 ELSE 0) < Capacity

\* A send on a closed channel is dropped.
Push(request) == queue' = IF ChannelOpen THEN Append(queue, request) ELSE queue

\* A transport the driver took away accepts nothing.
BeginFrame(kind) ==
    wire' = IF transport = "Open" THEN Append(wire, [kind |-> kind, whole |-> FALSE]) ELSE wire
EndFrame == wire' = [wire EXCEPT ![Len(wire)].whole = TRUE]

CanCancel == cancels < MaxCancels /\ cancels' = cancels + 1

-----------------------------------------------------------------------------
(* The read handle: SplitReader::next *)

shared == <<zero, cancel, transport, sink, wire>>

\* The head of the loop of next(), also where it stands between two calls.  After the
\* terminal result every call returns None at once.
AtTop == rd.pc = "top" /\ ~rd.reported

TakesTerminal == status \in Terminal /\ ~rd.parseError

\* take_terminal at the top of the loop; a parse error in hand comes first.
next_terminal ==
    /\ AtTop /\ TakesTerminal
    /\ rd' = [rd EXCEPT !.pc = "top", !.reported = TRUE]
    /\ UNCHANGED <<shared, status, queue, wr, dr, cancels>>

\* What next() does with one message.  r: the reader's state once the message is taken.
\* A control message waits for its request to be handed to the driver; a request left by
\* a cancelled call is used again.
Deliver(msg, r) ==
    CASE msg = "Data" ->
           /\ rd' = [r EXCEPT !.pc = "top"]
           /\ UNCHANGED status
      [] msg \in {"Ping", "Pong"} ->
           /\ rd' = [r EXCEPT !.pc = "reserve", !.message = msg,
                              !.request = IF @ = "none" THEN msg ELSE @]
           /\ UNCHANGED status
      [] msg = "Close" /\ r.request # "none" ->
           /\ rd' = [r EXCEPT !.pc = "reserve", !.message = msg]
           /\ UNCHANGED status
      [] OTHER ->
           /\ rd' = [r EXCEPT !.pc = "reserve", !.message = msg, !.request = "PeerClose",
                              !.batch = <<>>, !.parseError = FALSE, !.data = FALSE]
           /\ begin_closing("PeerClosing")

\* A message in hand: the one a cancelled call left, or the next one parsed before split.
next_pending ==
    /\ AtTop /\ ~TakesTerminal
    /\ \/ /\ rd.message # "none"
          /\ Deliver(rd.message, [rd EXCEPT !.message = "none"])
       \/ /\ rd.message = "none" /\ rd.batch # <<>>
          /\ Deliver(Head(rd.batch), [rd EXCEPT !.batch = Tail(@)])
    /\ UNCHANGED <<shared, queue, wr, dr, cancels>>

NothingInHand == rd.message = "none" /\ rd.batch = <<>>

\* process_next_with_activity accepts one message; more bytes may be left.
next_parse ==
    /\ AtTop /\ ~TakesTerminal /\ NothingInHand
    /\ ~rd.parseError /\ rd.data /\ ~rd.compressed
    /\ \/ /\ rd.inbound < MaxInbound
          /\ \E msg \in Message, more \in BOOLEAN :
               Deliver(msg, [rd EXCEPT !.inbound = @ + 1, !.data = more])
       \/ \* only part of a message so far
          /\ rd' = [rd EXCEPT !.pc = "read", !.data = FALSE]
          /\ UNCHANGED status
       \/ \* malformed
          /\ rd' = [rd EXCEPT !.pc = "reserveError", !.data = FALSE, !.parseError = TRUE]
          /\ begin_closing("ReadErrorPending")
    /\ UNCHANGED <<shared, queue, wr, dr, cancels>>

next_nothing ==
    /\ AtTop /\ ~TakesTerminal /\ NothingInHand
    /\ rd.parseError \/ ~rd.data
    /\ rd' = [rd EXCEPT !.pc = IF rd.parseError THEN "reserveError" ELSE "read"]
    /\ UNCHANGED <<shared, status, queue, wr, dr, cancels>>

forgetful_hand_off ==
    /\ rd.pc = "reserve"
    /\ ChannelOpen /\ HasCapacity
    /\ Push(rd.request)
    /\ rd' = [rd EXCEPT !.pc = "top", !.message = "none"]
    /\ UNCHANGED <<shared, status, wr, dr, cancels>>

\* The driver accepts the request and the message is returned.
next_hand_off ==
    /\ rd.pc = "reserve"
    /\ ChannelOpen /\ HasCapacity
    /\ Push(rd.request)
    /\ rd' = [rd EXCEPT !.pc = "top", !.message = "none", !.request = "none"]
    /\ UNCHANGED <<shared, status, wr, dr, cancels>>

\* The driver is gone: the message is lost and the connection closed.
next_no_driver ==
    /\ rd.pc = "reserve" /\ ~ChannelOpen
    /\ rd' = [rd EXCEPT !.pc = "top", !.message = "none", !.request = "none"]
    /\ terminate("Closed")
    /\ UNCHANGED <<shared, queue, wr, dr, cancels>>

\* The parse error is reported after the driver was told, or found gone.
next_read_error ==
    /\ rd.pc = "reserveError"
    /\ ~ChannelOpen \/ HasCapacity
    /\ Push("ReadError")
    /\ rd' = [rd EXCEPT !.pc = "top", !.parseError = FALSE, !.reported = TRUE]
    /\ UNCHANGED <<shared, status, wr, dr, cancels>>

\* What next() makes of a finished read: a terminal cause published while it was pending
\* wins over bytes, end of file or an error.
ReadDone(result) ==
    IF status \in Terminal THEN [rd EXCEPT !.pc = "top", !.reported = TRUE]
    ELSE CASE result = "bytes" -> [rd EXCEPT !.pc = IF rd.compressed THEN "parse" ELSE "top",
                                             !.data = TRUE]
           [] result = "error" -> [rd EXCEPT !.pc = "failed"]
           [] OTHER -> [rd EXCEPT !.pc = "sendEof", !.result = result]

\* SplitTransport::poll_read: end of file once closed; pending while open, or while the
\* driver closes it, and in that case no waker is kept.
poll_read ==
    /\ rd.pc = "read"
    /\ rd' = IF transport = "Closed" THEN ReadDone("gone") ELSE [rd EXCEPT !.pc = "waiting"]
    /\ UNCHANGED <<shared, status, queue, wr, dr, cancels>>

\* The peer's bytes, end of file or connection error.
poll_read_ready ==
    /\ rd.pc = "waiting" /\ transport = "Open"
    /\ \E result \in {"bytes", "eof", "error"} : rd' = ReadDone(result)
    /\ UNCHANGED <<shared, status, queue, wr, dr, cancels>>

next_eof ==
    /\ rd.pc = "sendEof"
    /\ ~ChannelOpen \/ HasCapacity
    /\ Push("Eof")
    /\ rd' = [rd EXCEPT !.pc = "ended"]
    /\ UNCHANGED <<shared, status, wr, dr, cancels>>

\* terminate after Eof (loop again) or after an I/O error (returned).
next_terminate ==
    /\ rd.pc \in {"ended", "failed"}
    /\ terminate("Closed")
    /\ rd' = [rd EXCEPT !.pc = "top", !.result = "none"]
    /\ UNCHANGED <<shared, queue, wr, dr, cancels>>

next_misses_timeout ==
    /\ rd.pc = "waiting" /\ status = "Closed"
    /\ rd' = [rd EXCEPT !.pc = "top"]
    /\ UNCHANGED <<shared, status, queue, wr, dr, cancels>>

\* terminal_rx.changed(): all that wakes a reader whose stream the driver took.
next_notified ==
    /\ rd.pc = "waiting" /\ status \in Terminal
    /\ rd' = [rd EXCEPT !.pc = "top"]
    /\ UNCHANGED <<shared, status, queue, wr, dr, cancels>>

\* The application drops the future at an await; what it kept stays in the reader.
next_cancelled ==
    /\ rd.pc \in ReaderAwaits /\ CanCancel
    /\ rd' = [rd EXCEPT !.pc = "top", !.result = "none"]
    /\ UNCHANGED <<shared, status, queue, wr, dr>>

drop_reader ==
    /\ rd.pc \in ReaderAwaits \cup {"top"}
    /\ rd' = [rd EXCEPT !.pc = "dropped", !.batch = <<>>, !.message = "none", !.request = "none",
                        !.data = FALSE, !.parseError = FALSE, !.result = "none"]
    /\ cancel' = TRUE
    /\ UNCHANGED <<zero, status, transport, sink, queue, wire, wr, dr, cancels>>

\* CompressedSplitReader parses all that was read, a fresh read before it looks at the
\* status again; an error is known before the messages in front of it are delivered.
compressed_next_parse ==
    /\ rd.compressed /\ rd.data
    /\ rd.pc = "parse" \/ (AtTop /\ ~TakesTerminal /\ NothingInHand /\ ~rd.parseError)
    /\ \E k \in 0 .. MaxInbound - rd.inbound, bad \in BOOLEAN :
       \E batch \in [1 .. k -> Message] :
         /\ rd' = [rd EXCEPT !.data = FALSE, !.batch = batch, !.inbound = @ + k, !.parseError = bad,
                             !.pc = IF k = 0 /\ ~bad /\ rd.pc = "top" THEN "read" ELSE "top"]
         /\ IF bad THEN begin_closing("ReadErrorPending") ELSE UNCHANGED status
    /\ UNCHANGED <<shared, queue, wr, dr, cancels>>

delivering == next_terminal \/ next_pending \/ next_hand_off \/ next_no_driver \/ next_read_error
reading == next_nothing \/ poll_read \/ next_eof \/ next_terminate \/ next_notified

\* The rest of CompressedSplitReader::next is a second copy of the loop.
compressed_next_deliver == rd.compressed /\ delivering
compressed_next_read == rd.compressed /\ reading

Reader ==
    \/ ~rd.compressed /\ (delivering \/ next_parse \/ reading)
    \/ compressed_next_deliver \/ compressed_next_parse \/ compressed_next_read

-----------------------------------------------------------------------------
(* The write handle: SplitWriterCore::send and flush *)

\* The call returned.
WriterIdle == [wr EXCEPT !.pc = "idle", !.op = "none"]

\* is_open, then on to the sink, or to a permit when a Close is sent.
send(op) ==
    /\ wr.pc = "idle" /\ wr.sends < MaxSends
    /\ status = "Open"
    /\ wr' = [wr EXCEPT !.pc = IF op = "Close" THEN "reserve" ELSE "enter",
                        !.op = op, !.sends = @ + 1]
    /\ UNCHANGED <<zero, status, cancel, transport, sink, queue, wire, rd, dr, cancels>>

send_reserve ==
    /\ wr.pc = "reserve"
    /\ ~ChannelOpen \/ HasCapacity
    /\ wr' = IF ChannelOpen THEN [wr EXCEPT !.pc = "begin"] ELSE WriterIdle
    /\ UNCHANGED <<zero, status, cancel, transport, sink, queue, wire, rd, dr, cancels>>

\* begin_local_closing, or the error when somebody else closed first.
send_begin_local_closing ==
    /\ wr.pc = "begin"
    /\ begin_closing("LocalClosing")
    /\ wr' = IF status = "Open" THEN [wr EXCEPT !.pc = "began"] ELSE WriterIdle
    /\ UNCHANGED <<zero, cancel, transport, sink, queue, wire, rd, dr, cancels>>

\* With a budget, announce the Close before waiting for the sink; without one, try the
\* sink exactly once.
send_close_started ==
    /\ wr.pc = "began"
    /\ \/ /\ ~zero
          /\ Push("LocalCloseStarted")
          /\ wr' = [wr EXCEPT !.pc = "enter"]
          /\ UNCHANGED sink
       \/ /\ zero /\ UNCHANGED queue
          /\ sink' = IF sink = <<>> THEN <<"W">> ELSE sink
          /\ wr' = [wr EXCEPT !.pc = IF sink = <<>> THEN "check" ELSE "terminate"]
    /\ UNCHANGED <<zero, status, cancel, transport, wire, rd, dr, cancels>>

\* sink.lock(): everything may have changed since is_open.
send_lock ==
    /\ wr.pc = "enter"
    /\ sink' = Append(sink, "W")
    /\ wr' = [wr EXCEPT !.pc = "lock"]
    /\ UNCHANGED <<zero, status, cancel, transport, queue, wire, rd, dr, cancels>>

send_skips_recheck ==
    /\ wr.pc = "lock" /\ Holder("W")
    /\ wr' = [wr EXCEPT !.pc = IF wr.op = "Flush" THEN "flush" ELSE "check"]
    /\ UNCHANGED <<zero, status, cancel, transport, sink, queue, wire, rd, dr, cancels>>

\* The sink is ours: re-check the status, the driver may have closed meanwhile.
send_locked ==
    /\ wr.pc = "lock" /\ Holder("W")
    /\ LET go == status = "Open" \/ (wr.op = "Close" /\ status = "LocalClosing")
       IN IF wr.op = "Flush" \/ go
          THEN /\ wr' = [wr EXCEPT !.pc = IF wr.op = "Flush" THEN "flush" ELSE "check"]
               /\ UNCHANGED sink
          ELSE /\ wr' = WriterIdle
               /\ sink' = Without(sink, "W")
    /\ UNCHANGED <<zero, status, cancel, transport, queue, wire, rd, dr, cancels>>

\* write_frame: nothing is written on a cancelled connection, or when the encoder fails.
send_write ==
    /\ wr.pc = "check"
    /\ \/ ~cancel /\ wr' = [wr EXCEPT !.pc = "write"] /\ BeginFrame(wr.op)
       \/ wr' = [wr EXCEPT !.pc = "terminate"] /\ UNCHANGED wire
    /\ UNCHANGED <<zero, status, cancel, transport, sink, queue, rd, dr, cancels>>

\* The frame is flushed: the guard is disarmed and the sink released.
send_written ==
    /\ wr.pc = "write" /\ transport = "Open"
    /\ EndFrame
    /\ sink' = Without(sink, "W")
    /\ wr' = IF wr.op = "Close" THEN [wr EXCEPT !.pc = "notify"] ELSE WriterIdle
    /\ UNCHANGED <<zero, status, cancel, transport, queue, rd, dr, cancels>>

\* The write fails, is cancelled with the connection, does not finish in the only poll
\* of a zero budget, or its future is dropped: SplitSendGuard runs.
send_aborted ==
    /\ wr.pc = "write"
    /\ wr' = [wr EXCEPT !.pc = "terminate"]
    /\ \/ (transport # "Closing" \/ cancel) /\ UNCHANGED cancels
       \/ zero /\ wr.op = "Close" /\ UNCHANGED cancels
       \/ CanCancel
    /\ UNCHANGED <<zero, status, cancel, transport, sink, queue, wire, rd, dr>>

guard_released_first ==
    /\ wr.pc = "terminate"
    /\ terminate("Closed")
    /\ sink' = Without(sink, "W")
    /\ wr' = [wr EXCEPT !.pc = "cancel"]
    /\ UNCHANGED <<zero, cancel, transport, queue, wire, rd, dr, cancels>>

\* SplitSendGuard::drop and the zero-budget failure: terminate, ...
send_terminate ==
    /\ wr.pc = "terminate"
    /\ terminate("Closed")
    /\ wr' = [wr EXCEPT !.pc = "cancel"]
    /\ UNCHANGED <<zero, cancel, transport, sink, queue, wire, rd, dr, cancels>>

\* ... cancel, and only then release the sink.
send_cancel ==
    /\ wr.pc = "cancel"
    /\ cancel' = TRUE
    /\ sink' = Without(sink, "W")
    /\ wr' = WriterIdle
    /\ UNCHANGED <<zero, status, transport, queue, wire, rd, dr, cancels>>

send_notify ==
    /\ wr.pc = "notify"
    /\ zero \/ ~ChannelOpen \/ HasCapacity
    /\ Push("LocalCloseSent")
    /\ wr' = WriterIdle
    /\ UNCHANGED <<zero, status, cancel, transport, sink, wire, rd, dr, cancels>>

\* The flush ends; a failure closes the connection but does not cancel the driver.
flush ==
    /\ wr.pc = "flush"
    /\ sink' = Without(sink, "W")
    /\ wr' = WriterIdle
    /\ \/ transport = "Open" /\ UNCHANGED status
       \/ (transport # "Closing" \/ cancel) /\ terminate("Closed")
    /\ UNCHANGED <<zero, cancel, transport, queue, wire, rd, dr, cancels>>

\* The application drops a send that has written nothing, or has written everything.
send_cancelled ==
    /\ wr.pc \in {"reserve", "lock", "flush"} \/ (wr.pc = "notify" /\ ~zero)
    /\ CanCancel
    /\ sink' = Without(sink, "W")
    /\ wr' = WriterIdle
    /\ UNCHANGED <<zero, status, cancel, transport, queue, wire, rd, dr>>

drop_writer ==
    /\ wr.pc = "idle"
    /\ wr' = [wr EXCEPT !.pc = "dropped"]
    /\ cancel' = TRUE
    /\ UNCHANGED <<zero, status, transport, sink, queue, wire, rd, dr, cancels>>

Writer ==
    \/ send_reserve \/ send_begin_local_closing \/ send_close_started \/ send_lock
    \/ send_locked \/ send_write \/ send_written \/ send_aborted \/ send_terminate \/ send_cancel
    \/ send_notify \/ flush

-----------------------------------------------------------------------------
(* The driver: split_writer_driver *)

io == <<zero, rd, wr, cancels>>

\* SplitTransport::begin_close takes the stream away from the two handles; the driver
\* then shuts it down in order, when it owns the sink, or drops it at once (close_with).
BeginClose(d, cause, next) ==
    /\ transport' = "Closing"
    /\ dr' = [d EXCEPT !.pc = next, !.cause = cause]

\* Entering the select: the preconditions of its arms are read once.
EnterSelect(d) ==
    [d EXCEPT !.pc = "cancel?",
              !.heartbeatArmed = (d.heartbeat # "stopped" /\ status = "Open")]

\* Top of the loop: one write at a time; a read error, then the close handshake, then
\* the latest Pong.
driver_top ==
    /\ dr.pc = "top"
    /\ \/ dr.write # "none" \/ (~dr.readError /\ ~dr.peerClose /\ ~dr.pendingPong)
       \/ dr.peerClose /\ ~dr.readError /\ ~dr.localCloseSent /\ status = "LocalClosing"
    /\ dr' = EnterSelect(dr)
    /\ UNCHANGED <<io, status, cancel, transport, sink, queue, wire>>

driver_start_write ==
    /\ dr.pc = "top" /\ dr.write = "none" /\ ~dr.readError
    /\ \/ /\ dr.peerClose /\ ~dr.localCloseSent /\ status # "LocalClosing"
          /\ dr' = EnterSelect([dr EXCEPT !.write = "Close", !.phase = "new"])
       \/ /\ ~dr.peerClose /\ dr.pendingPong
          /\ dr' = EnterSelect([dr EXCEPT !.write = "Pong", !.phase = "new", !.pendingPong = FALSE])
    /\ UNCHANGED <<io, status, cancel, transport, sink, queue, wire>>

\* Both Close frames are done, or the input is broken: wait for the sink within the budget.
driver_wait_sink ==
    /\ dr.pc = "top" /\ dr.write = "none" /\ dr.deadline # "none"
    /\ dr.readError \/ (dr.peerClose /\ dr.localCloseSent)
    /\ sink' = Append(sink, "D")
    /\ dr' = [dr EXCEPT !.pc = "lock"]
    /\ UNCHANGED <<io, status, cancel, transport, queue, wire>>

\* closing_deadline.expect(..): the task unwinds, dropping its write and the channel.
driver_panic ==
    /\ dr.pc = "top" /\ dr.write = "none" /\ dr.deadline = "none"
    /\ dr.readError \/ (dr.peerClose /\ dr.localCloseSent)
    /\ dr' = [DriverInit EXCEPT !.pc = "panicked"]
    /\ queue' = <<>>
    /\ UNCHANGED <<io, status, cancel, transport, sink, wire>>

\* A read error closes at once even with the sink in hand; a handshake shuts down first.
driver_sink_wait_over ==
    /\ dr.pc = "lock"
    /\ \/ /\ Holder("D") /\ UNCHANGED sink
          /\ BeginClose(dr, "Closed", "finish")
       \/ /\ ~Holder("D") /\ dr.deadline = "expired" /\ sink' = Without(sink, "D")
          /\ BeginClose(dr, "Closed", "finish")
    /\ UNCHANGED <<io, status, cancel, queue, wire>>

finish_close_early ==
    /\ dr.pc = "finish"
    /\ transport' = "Closed"
    /\ IF transport = "Closed"
       THEN terminate(dr.cause) /\ dr' = [dr EXCEPT !.pc = "cancel"]
       ELSE UNCHANGED status /\ dr' = dr
    /\ UNCHANGED <<io, cancel, sink, queue, wire>>

\* bounded_shutdown_until, done, failed or out of time, changes nothing the handles see:
\* the transport is pending for them.  finish_close: the stream is gone and the cause published in one critical section of
\* the transport mutex.  Only the read-error path keeps the sink beyond this point.
driver_finish_close ==
    /\ dr.pc = "finish"
    /\ transport' = "Closed"
    /\ terminate(dr.cause)
    /\ sink' = IF dr.readError /\ dr.write = "none" THEN sink ELSE Without(sink, "D")
    /\ dr' = [dr EXCEPT !.pc = "cancel"]
    /\ UNCHANGED <<io, cancel, queue, wire>>

\* cancel the token and leave the loop: the pending write, the sink guard and the channel go.
driver_stop ==
    /\ dr.pc = "cancel"
    /\ cancel' = TRUE
    /\ sink' = Without(Without(sink, "D"), "P")
    /\ queue' = <<>>
    /\ dr' = [DriverInit EXCEPT !.pc = "stopped"]
    /\ UNCHANGED <<io, status, transport, wire>>

-----------------------------------------------------------------------------
(* The arms of the biased select, polled in this order *)

\* What the select waits for may be ready; a heartbeat deadline may pass at any time.
Woken ==
    \/ cancel \/ queue # <<>> \/ dr.deadline = "expired" \/ dr.heartbeatArmed
    \/ dr.write # "none" /\ (dr.phase # "queued" \/ Holder("P"))

poll_cancelled ==
    /\ dr.pc = "cancel?" /\ Woken
    /\ IF cancel THEN BeginClose(dr, "Closed", "finish")
       ELSE dr' = [dr EXCEPT !.pc = "control?"] /\ UNCHANGED transport
    /\ UNCHANGED <<io, status, cancel, sink, queue, wire>>

Armed(d) == IF d.deadline = "none" THEN "armed" ELSE d.deadline

requests_without_budget(d, request) ==
    [d EXCEPT !.heartbeat = "stopped", !.peerClose = (@ \/ request = "PeerClose"),
              !.localCloseSent = (@ \/ request = "LocalCloseSent"),
              !.readError = (@ \/ request = "ReadError")]

\* One request other than Eof.  A PeerClose during a local Close leaves the budget to it.
OnRequest(d, request) ==
    CASE request = "Ping" -> [d EXCEPT !.pendingPong = TRUE]
      [] request = "PeerClose" ->
           [d EXCEPT !.heartbeat = "stopped", !.peerClose = TRUE,
                     !.deadline = IF status = "LocalClosing" THEN @ ELSE Armed(d)]
      [] request = "LocalCloseStarted" ->
           [d EXCEPT !.heartbeat = "stopped", !.deadline = Armed(d)]
      [] request = "LocalCloseSent" ->
           [d EXCEPT !.heartbeat = "stopped", !.localCloseSent = TRUE, !.deadline = Armed(d)]
      [] OTHER -> \* ReadError
           [d EXCEPT !.heartbeat = "stopped", !.readError = TRUE, !.deadline = Armed(d)]

\* A Pong clears the outstanding Ping when it carries its payload and is in time; one that
\* overtakes the Ping's flush is kept until then.
OnPong(d, matches) ==
    [d EXCEPT !.heartbeat = IF matches /\ @ = "unflushed" THEN "acknowledged"
                            ELSE IF matches /\ @ = "awaiting" THEN "quiet" ELSE @]

\* Both handles were dropped: recv() returns None.
SendersGone == rd.pc = "dropped" /\ wr.pc = "dropped"

poll_control ==
    /\ dr.pc = "control?"
    /\ \/ /\ queue = <<>> /\ ~SendersGone
          /\ dr' = [dr EXCEPT !.pc = "timers?"]
          /\ UNCHANGED <<queue, transport>>
       \/ /\ queue = <<>> /\ SendersGone
          /\ BeginClose(dr, "Closed", "finish")
          /\ UNCHANGED queue
       \/ /\ queue # <<>> /\ Head(queue) = "Eof"
          /\ queue' = Tail(queue)
          /\ BeginClose([dr EXCEPT !.heartbeat = "stopped"], "Closed", "finish")
       \/ /\ queue # <<>> /\ Head(queue) = "Pong"
          /\ queue' = Tail(queue)
          /\ \E matches \in BOOLEAN : dr' = [OnPong(dr, matches) EXCEPT !.pc = "top"]
          /\ UNCHANGED transport
       \/ /\ queue # <<>> /\ Head(queue) \notin {"Eof", "Pong"}
          /\ queue' = Tail(queue)
          /\ dr' = [OnRequest(dr, Head(queue)) EXCEPT !.pc = "top"]
          /\ UNCHANGED transport
    /\ UNCHANGED <<io, status, cancel, sink, wire>>

\* The closing budget is spent: an orderly shutdown only if the sink is free.
poll_close_timer ==
    /\ dr.pc = "timers?" /\ dr.deadline = "expired"
    /\ sink' = IF sink = <<>> THEN <<"D">> ELSE sink
    /\ BeginClose(dr, "Closed", "finish")
    /\ UNCHANGED <<io, status, cancel, queue, wire>>

timeout_close_ignores_sink(cause) ==
    /\ sink' = <<"D">>
    /\ BeginClose(dr, cause, "timeoutClose")

\* timeout_close: a Close frame only if nobody is in the middle of one.
timeout_close(cause) ==
    /\ sink' = IF sink = <<>> THEN <<"D">> ELSE sink
    /\ BeginClose(dr, cause, IF sink = <<>> THEN "timeoutClose" ELSE "finish")

\* Whatever arms the closing deadline has stopped the heartbeat: only one timer is live.
poll_heartbeat ==
    /\ dr.pc = "timers?" /\ dr.deadline # "expired"
    /\ \/ \* not armed, or not due
          /\ dr' = [dr EXCEPT !.pc = IF dr.write = "none" THEN "cancel?" ELSE "write?"]
          /\ UNCHANGED <<transport, sink>>
       \/ /\ dr.heartbeatArmed
          /\ \/ \* activity arrived meanwhile
                /\ dr' = [dr EXCEPT !.pc = "top"] /\ UNCHANGED <<transport, sink>>
             \/ \* Deadline::Ping
                /\ dr.write = "none" /\ dr.heartbeat = "quiet" /\ dr.pings < MaxPings
                /\ dr' = [dr EXCEPT !.pc = "top", !.write = "Ping", !.phase = "new",
                                    !.heartbeat = "unflushed", !.pings = @ + 1]
                /\ UNCHANGED <<transport, sink>>
             \/ dr.heartbeat = "awaiting" /\ timeout_close("ClosedHeartbeat")
             \/ dr.heartbeat # "stopped" /\ timeout_close("ClosedIdle")
    /\ UNCHANGED <<io, status, cancel, queue, wire>>

\* timeout_close's own frame, on the stream it took from the transport.
timeout_close_write ==
    /\ dr.pc = "timeoutClose"
    /\ IF cancel THEN UNCHANGED wire
       ELSE \E whole \in BOOLEAN : wire' = Append(wire, [kind |-> "Close", whole |-> whole])
    /\ dr' = [dr EXCEPT !.pc = "finish"]
    /\ UNCHANGED <<io, status, cancel, transport, sink, queue>>

\* write_split_control, polled inside the driver: cancelled, queued for the sink, writing.
poll_write_pending ==
    /\ dr.pc = "write?"
    /\ \/ dr.phase = "queued" /\ ~cancel /\ ~Holder("P")
       \/ dr.phase = "begun" /\ ~cancel
    /\ dr' = [dr EXCEPT !.pc = "cancel?"]
    /\ UNCHANGED <<io, status, cancel, transport, sink, queue, wire>>

poll_write_lock ==
    /\ dr.pc = "write?" /\ dr.phase = "new" /\ ~cancel
    /\ sink' = Append(sink, "P")
    /\ dr' = [dr EXCEPT !.phase = "queued"]
    /\ UNCHANGED <<io, status, cancel, transport, queue, wire>>

poll_write_begin ==
    /\ dr.pc = "write?" /\ dr.phase = "queued" /\ ~cancel /\ Holder("P")
    /\ BeginFrame(dr.write)
    /\ dr' = [dr EXCEPT !.phase = "begun"]
    /\ UNCHANGED <<io, status, cancel, transport, sink, queue>>

unflushed_close_counts ==
    /\ dr.pc = "write?" /\ dr.phase = "queued" /\ transport = "Open" /\ ~cancel
    /\ sink' = Without(sink, "P")
    /\ dr' = [dr EXCEPT !.pc = "top", !.write = "none",
                        !.localCloseSent = (@ \/ dr.write = "Close")]
    /\ UNCHANGED <<io, status, cancel, transport, queue, wire>>

\* The frame is flushed: a Ping starts its Pong deadline unless it was answered already, a
\* Close completes this side of the handshake.
poll_write_done ==
    /\ dr.pc = "write?" /\ dr.phase = "begun" /\ transport = "Open"
    /\ EndFrame
    /\ sink' = Without(sink, "P")
    /\ dr' = [dr EXCEPT !.pc = "top", !.write = "none",
                        !.heartbeat = IF dr.write # "Ping" THEN @
                                      ELSE IF @ = "unflushed" THEN "awaiting"
                                      ELSE IF @ = "acknowledged" THEN "quiet" ELSE @,
                        !.localCloseSent = (@ \/ dr.write = "Close")]
    /\ UNCHANGED <<io, status, cancel, transport, queue>>

poll_write_failed ==
    /\ dr.pc = "write?"
    /\ cancel \/ dr.phase = "begun"
    /\ sink' = Without(sink, "P")
    /\ BeginClose([dr EXCEPT !.write = "none"], "Closed", "finish")
    /\ UNCHANGED <<io, status, cancel, queue, wire>>

Driver ==
    \/ driver_top \/ driver_start_write \/ driver_wait_sink \/ driver_panic
    \/ driver_sink_wait_over \/ driver_finish_close \/ driver_stop
    \/ poll_cancelled \/ poll_control \/ poll_close_timer \/ poll_heartbeat
    \/ timeout_close_write \/ poll_write_pending \/ poll_write_lock \/ poll_write_begin
    \/ poll_write_done \/ poll_write_failed

-----------------------------------------------------------------------------
(* Time *)

deadline_expires ==
    /\ dr.deadline = "armed" /\ dr.pc \notin DriverEnded
    /\ dr' = [dr EXCEPT !.deadline = "expired"]
    /\ UNCHANGED <<io, status, cancel, transport, sink, queue, wire>>

-----------------------------------------------------------------------------

Next ==
    \/ Reader \/ poll_read_ready \/ next_cancelled \/ drop_reader
    \/ \E op \in {"Data", "Close", "Flush"} : send(op)
    \/ Writer \/ send_cancelled \/ drop_writer
    \/ Driver
    \/ deadline_expires

Spec == Init /\ [][Next]_vars

\* The runtime polls ready tasks, a deadline passes, the application keeps calling next()
\* and drops the reader once it reported the end.  It owes no other call and never has to
\* cancel one; the peer owes no byte and need not accept one.
WaitsForPeer == wr.pc \in {"write", "flush"} /\ ~cancel /\ ~(zero /\ wr.op = "Close")

Fairness ==
    /\ WF_vars(Driver)
    /\ WF_vars(deadline_expires)
    /\ WF_vars(Reader)
    /\ WF_vars(~WaitsForPeer /\ Writer)
    /\ WF_vars(rd.reported /\ drop_reader)

FairSpec == Spec /\ Fairness

-----------------------------------------------------------------------------
(* Properties *)

ReaderState ==
    [pc : ReaderAwaits \cup {"top", "read", "parse", "ended", "failed", "dropped"},
     batch : Seq(Message), parseError : BOOLEAN, message : Control \cup {"none"},
     request : {"Ping", "Pong", "PeerClose", "none"}, data : BOOLEAN,
     result : {"none", "eof", "gone"}, reported : BOOLEAN, inbound : Nat, compressed : BOOLEAN]

WriterState ==
    [pc : {"idle", "reserve", "begin", "began", "enter", "lock", "check", "write", "flush",
           "terminate", "cancel", "notify", "dropped"},
     op : {"none", "Data", "Close", "Flush"}, sends : Nat]

DriverState ==
    [pc : DriverEnded \cup {"top", "lock", "cancel?", "control?", "timers?", "write?", "timeoutClose",
                            "finish", "cancel"},
     peerClose : BOOLEAN, localCloseSent : BOOLEAN, pendingPong : BOOLEAN, readError : BOOLEAN,
     deadline : {"none", "armed", "expired"}, write : Control \cup {"none"},
     phase : {"new", "queued", "begun"},
     heartbeat : {"quiet", "unflushed", "acknowledged", "awaiting", "stopped"},
     heartbeatArmed : BOOLEAN, pings : Nat, cause : Terminal]

\* Type invariant: the control channel never holds more than its capacity, though send()
\* keeps a permit over several awaits, and pending_request is only kept with its message.
TypeOK ==
    /\ zero \in BOOLEAN /\ cancel \in BOOLEAN /\ cancels \in Nat
    /\ status \in Status
    /\ transport \in {"Open", "Closing", "Closed"}
    /\ sink \in Seq({"W", "P", "D"})
    /\ queue \in Seq(Request) /\ Len(queue) <= Capacity
    /\ wire \in Seq(Frame)
    /\ rd \in ReaderState /\ wr \in WriterState /\ dr \in DriverState
    /\ rd.request # "none" => rd.message # "none"
    /\ rd.pc = "reserve" => rd.request # "none"

\* SplitSendGuard: "Close before releasing the sink so no subsequent frame can follow" a
\* frame prefix.  Every frame but the last on the wire is complete, whoever was cancelled.
FrameBoundaries ==
    \A i \in 1 .. Len(wire) - 1 : wire[i].whole

\* Once this side's Close frame was begun no data frame follows it.
NoDataAfterClose ==
    \A i, j \in 1 .. Len(wire) : i < j /\ wire[i].kind = "Close" => wire[j].kind # "Data"

\* local_close_sent means what the shutdown relies on: our Close is completely on the wire.
CloseAnswered ==
    dr.localCloseSent => \E i \in 1 .. Len(wire) : wire[i] = [kind |-> "Close", whole |-> TRUE]

\* finish_close: "a concurrent reader observes the typed cause after drop".  The reader
\* never takes the driver's own closing of the transport for the peer's end of file.
EofIsThePeers ==
    rd.pc \in {"sendEof", "ended"} => rd.result = "eof"

\* terminate: "The first terminal cause wins".
FirstCauseWins == [][(status \in Terminal) => (status' = status)]_vars

\* The sink is exclusive: one frame is being written at most, by the task that holds it.
SinkExclusive ==
    /\ wr.pc \in {"check", "write", "flush"} => Holder("W")
    /\ dr.write # "none" /\ dr.phase = "begun" => Holder("P")
    /\ dr.pc = "timeoutClose" => Holder("D")

\* The driver's expect()s and the unreachable!() of begin_close.
NoPanic == dr.pc # "panicked"

\* However it started, a close ends: the driver stops within the closing budget or when
\* the application, told of the end, drops its handle.
CloseEnds == (status # "Open") ~> (dr.pc \in DriverEnded)

\* A typed timeout reaches the application: next() reports the end unless it was dropped.
TimeoutReported ==
    (status \in {"ClosedHeartbeat", "ClosedIdle"}) ~> (rd.reported \/ rd.pc = "dropped")

=============================================================================
