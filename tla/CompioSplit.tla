----------------------------- MODULE CompioSplit -----------------------------
(***************************************************************************)
(* The split Compio streams of src/compio.rs: a reader and a writer handle *)
(* and the spawned compio_split_writer_driver, tasks of one thread that    *)
(* give way to each other only where they await.  Reader and driver share  *)
(* a status cell and a bounded control channel; writer and driver a        *)
(* bounded application channel.  The stream starts unified (module         *)
(* CompioStream) and split() may happen between any two calls.             *)
(***************************************************************************)
EXTENDS CompioStream

CONSTANTS ControlCapacity, ApplicationCapacity   \* SPLIT_*_CAPACITY

ASSUME CapacityAssumption == ControlCapacity \in Nat /\ ApplicationCapacity \in Nat

VARIABLES
    sh,     \* CompioSplitShared, the cancel and terminal channels; moved: deadlines a data
            \* frame noted in last_inbound_ms has moved and the driver has not synced
    rd,     \* CompioSplitReader
    wr,     \* CompioSplitWriter
    drv,    \* the writer driver
    ctl,    \* the control channel
    app     \* the application channel

vars == <<setup, u, net, due, seen, sh, rd, wr, drv, ctl, app>>
stream == <<setup, u, net, due>>

Init ==
    /\ StreamInit
    /\ sh = [status |-> "Open", terminal |-> "none", moved |-> {}, cancel |-> FALSE, notice |-> "none"]
    /\ rd = [pc |-> "unborn", pending |-> <<>>, request |-> NoFrame, parse_error |-> FALSE,
             read_buf |-> <<>>, reported |-> FALSE]
    /\ wr = [pc |-> "unborn", item |-> NoFrame, results |-> {}]
    /\ drv = [pc |-> "unborn", hb |-> "off", closing |-> FALSE, local_close |-> FALSE,
              deferred |-> NoFrame, frame |-> NoFrame, cause |-> "none", released |-> FALSE,
              hasty |-> FALSE, pings |-> 0]
    /\ ctl = <<>> /\ app = <<>>

\* Nobody runs: every task is at an await.
Free == u.pc # "top" /\ rd.pc # "top" /\ drv.pc \notin {"top", "timer"}

-----------------------------------------------------------------------------
(* split() and CompioSplitShared *)

half_without_batch(r) == [r EXCEPT !.pc = "idle", !.parse_error = u.parse_error, !.read_buf = u.read_buf]

\* Receive progress moves to the reader.
reader_half(r) ==
    [r EXCEPT !.pc = "idle", !.pending = u.pending, !.parse_error = u.parse_error, !.read_buf = u.read_buf]

split ==
    /\ At("idle") /\ setup.splits
    /\ u' = [u EXCEPT !.phase = "split", !.pending = <<>>, !.read_buf = <<>>, !.write_buf = <<>>]
    /\ due' = {}
    /\ LET closed == u.state \notin {"Open", "ReadErrorPending"}
       IN sh' = [sh EXCEPT !.status = IF closed THEN "Closed" ELSE IF u.parse_error THEN "Closing" ELSE "Open",
                           !.terminal = IF closed THEN "ConnectionClosed" ELSE "none"]
    /\ rd' = reader_half(rd)
    /\ wr' = [wr EXCEPT !.pc = "idle"]
    /\ drv' = [drv EXCEPT !.pc = "top", !.hb = IF setup.beats \/ setup.idle THEN "waiting" ELSE "off"]
    /\ seen' = [seen EXCEPT !.split_at = Len(seen.delivered), !.ended = "no"]
    /\ UNCHANGED <<setup, net, ctl, app>>

begin_closing_shared(c) == IF c.status = "Open" THEN [c EXCEPT !.status = "Closing"] ELSE c
terminate(c, cause) ==
    IF c.status = "Closed" THEN c ELSE [c EXCEPT !.status = "Closed", !.terminal = cause]
note_inbound(c) == IF setup.beats \/ setup.idle THEN [c EXCEPT !.moved = {"ping", "idle"}] ELSE c

-----------------------------------------------------------------------------
(* CompioSplitReader::next *)

Reader(pc) == rd.pc = pc
Unread == <<wr, drv, app>>

reader_called ==
    /\ Reader("idle") /\ Free /\ seen.ended = "no"
    /\ rd' = [rd EXCEPT !.pc = "top"]
    /\ UNCHANGED <<stream, seen, sh, ctl, Unread>>

Reports(c) == IF c.terminal \in {"HeartbeatTimeout", "IdleTimeout"} THEN c.terminal ELSE "end"

\* The terminal cause is reported once, then the stream ends.
reader_ends ==
    /\ Reader("top") /\ (rd.reported \/ (~rd.parse_error /\ sh.status = "Closed"))
    /\ rd' = [rd EXCEPT !.pc = "idle", !.reported = TRUE]
    /\ Ended(IF rd.reported THEN "end" ELSE Reports(sh))
    /\ UNCHANGED <<stream, sh, ctl, Unread>>

ReaderGoes == Reader("top") /\ ~rd.reported /\ (rd.parse_error \/ sh.status # "Closed")

reader_data ==
    /\ ReaderGoes /\ rd.pending # <<>> /\ Head(rd.pending).kind = "data"
    /\ rd' = [rd EXCEPT !.pc = "idle", !.pending = Tail(@)]
    /\ sh' = note_inbound(sh)
    /\ Delivered(Head(rd.pending))
    /\ UNCHANGED <<stream, ctl, Unread>>

\* A control message waits on top of pending_messages, with its request, for the driver.
reader_control ==
    /\ ReaderGoes /\ rd.pending # <<>> /\ Head(rd.pending).kind # "data"
    /\ LET msg == Head(rd.pending)
           fresh == rd.request = NoFrame
           first == fresh /\ msg.kind = "close"
       IN /\ rd' = [rd EXCEPT !.pc = "handoff", !.request = IF fresh THEN msg ELSE @,
                              !.pending = IF first THEN <<msg>> ELSE @,
                              !.parse_error = ~first /\ @, !.read_buf = IF first THEN <<>> ELSE @]
          /\ sh' = IF first THEN begin_closing_shared(sh) ELSE sh
    /\ UNCHANGED <<stream, seen, ctl, Unread>>

\* One sender: poll_ready waits while it is parked behind more than the capacity.
Room == Len(ctl) <= ControlCapacity
Gone == drv.pc = "done"

committed_but_kept(r) == [r EXCEPT !.pc = "idle", !.pending = Tail(@)]

\* start_send is the commit point: the request and its message leave the reader together.
handoff_committed(r) == [r EXCEPT !.pc = "idle", !.pending = Tail(@), !.request = NoFrame]

reader_commits ==
    /\ Reader("handoff") /\ Free /\ Room /\ ~Gone
    /\ ctl' = Append(ctl, rd.request)
    /\ rd' = handoff_committed(rd)
    /\ seen' = [seen EXCEPT !.delivered = Append(@, Head(rd.pending).id),
                            !.committed = Append(@, rd.request.id)]
    /\ UNCHANGED <<stream, sh, Unread>>

reader_orphaned ==
    /\ Reader("handoff") /\ Free /\ Gone
    /\ rd' = [rd EXCEPT !.pc = "top", !.pending = Tail(@), !.request = NoFrame]
    /\ sh' = terminate(sh, "ConnectionClosed")
    /\ seen' = [seen EXCEPT !.discarded = TRUE]
    /\ UNCHANGED <<stream, ctl, Unread>>

reader_meets_error ==
    /\ ReaderGoes /\ rd.pending = <<>> /\ rd.parse_error
    /\ rd' = [rd EXCEPT !.pc = "error"]
    /\ UNCHANGED <<stream, seen, sh, ctl, Unread>>

\* The driver is told of the bad frame, then the error is returned.
reader_error ==
    /\ Reader("error") /\ Free /\ (Room \/ Gone)
    /\ ctl' = IF Gone THEN ctl ELSE Append(ctl, [kind |-> "readerror", id |-> 0])
    /\ sh' = terminate(sh, "ConnectionClosed")
    /\ rd' = [rd EXCEPT !.pc = "idle", !.parse_error = FALSE, !.reported = TRUE]
    /\ Ended("error")
    /\ UNCHANGED <<stream, Unread>>

\* Parsing what was read, then waiting for more or for the driver's end.
reader_parses ==
    /\ ReaderGoes /\ rd.pending = <<>> /\ ~rd.parse_error
    /\ LET good == UpTo(rd.read_buf)
           bad == BadAt(rd.read_buf) # {}
       IN /\ rd' = [rd EXCEPT !.pending = Complete(good), !.parse_error = bad, !.read_buf = <<>>,
                              !.pc = IF bad \/ Complete(good) # <<>> THEN "top" ELSE "read"]
          /\ sh' = IF bad THEN begin_closing_shared(sh)
                   ELSE IF Fragments(good) THEN note_inbound(sh) ELSE sh
    /\ UNCHANGED <<stream, seen, ctl, Unread>>

Told == sh.notice # "none" \/ Gone

reader_told ==
    /\ Reader("read") /\ Free /\ Told
    /\ sh' = [terminate(sh, IF sh.notice = "none" THEN "ConnectionClosed" ELSE sh.notice)
                EXCEPT !.notice = "none"]
    /\ rd' = [rd EXCEPT !.pc = "top"]
    /\ UNCHANGED <<stream, seen, ctl, Unread>>

reader_reads ==
    /\ Reader("read") /\ Free /\ ~Told /\ net.arrived > net.read
    /\ \E n \in 1 .. net.arrived - net.read :
         /\ rd' = [rd EXCEPT !.pc = "top", !.read_buf = SubSeq(net.script, net.read + 1, net.read + n)]
         /\ net' = [net EXCEPT !.read = @ + n]
    /\ UNCHANGED <<setup, u, due, seen, sh, ctl, Unread>>

reader_input_ends ==
    /\ Reader("read") /\ Free /\ ~Told /\ net.arrived = net.read /\ net.input # "open"
    /\ IF net.input = "eof"
       THEN rd' = [rd EXCEPT !.pc = "eof"] /\ UNCHANGED <<sh, seen>>
       ELSE /\ rd' = [rd EXCEPT !.pc = "idle"]
            /\ sh' = terminate(sh, "ConnectionClosed") /\ Ended("error")
    /\ UNCHANGED <<stream, ctl, Unread>>

reader_eof ==
    /\ Reader("eof") /\ Free /\ (Room \/ Gone)
    /\ ctl' = IF Gone THEN ctl ELSE Append(ctl, [kind |-> "eof", id |-> 0])
    /\ sh' = terminate(sh, "ConnectionClosed")
    /\ rd' = [rd EXCEPT !.pc = "top"]
    /\ UNCHANGED <<stream, seen, Unread>>

\* The application drops next() while it waits for the control channel.
reader_cancelled ==
    /\ setup.drops /\ rd.pc \in {"handoff", "error", "eof"} /\ Free /\ ~Room /\ ~Gone
    /\ rd' = [rd EXCEPT !.pc = "idle"]
    /\ UNCHANGED <<stream, seen, sh, ctl, Unread>>

reader_dropped ==
    /\ setup.drops /\ Reader("idle") /\ Free
    /\ rd' = [rd EXCEPT !.pc = "dropped"]
    /\ sh' = [sh EXCEPT !.cancel = TRUE]
    /\ seen' = [seen EXCEPT !.ended = IF @ = "no" THEN "dropped" ELSE @]
    /\ UNCHANGED <<stream, ctl, Unread>>

reader_next ==
    \/ reader_called \/ reader_ends \/ reader_data \/ reader_control \/ reader_commits
    \/ reader_orphaned \/ reader_meets_error \/ reader_error \/ reader_parses \/ reader_told
    \/ reader_reads \/ reader_input_ends \/ reader_eof

-----------------------------------------------------------------------------
(* CompioSplitWriter *)

Unwritten == <<rd, drv, ctl>>

current_error == IF sh.terminal = "none" THEN "ConnectionClosed" ELSE sh.terminal
Result(result) ==
    wr' = [wr EXCEPT !.pc = "idle", !.item = NoFrame, !.results = @ \cup {[id |-> wr.item.id, result |-> result]}]

\* send, close and flush.
writer_called(kind) ==
    /\ wr.pc = "idle" /\ Free /\ seen.sends < setup.sends /\ kind \in setup.items
    /\ seen' = [seen EXCEPT !.sends = @ + 1]
    /\ IF sh.status # "Open" THEN UNCHANGED wr
       ELSE wr' = [wr EXCEPT !.pc = "queue", !.item = [kind |-> kind, id |-> seen.sends + 1]]
    /\ UNCHANGED <<stream, sh, app, Unwritten>>

writer_queues ==
    /\ wr.pc = "queue" /\ Free /\ (Len(app) <= ApplicationCapacity \/ Gone)
    /\ IF Gone THEN Result(current_error) /\ UNCHANGED app
       ELSE app' = Append(app, wr.item) /\ wr' = [wr EXCEPT !.pc = "wait"]
    /\ UNCHANGED <<stream, seen, sh, Unwritten>>

\* The completion channel was dropped with the driver.
writer_orphaned ==
    /\ wr.pc = "wait" /\ Free /\ Gone
    /\ Result(current_error)
    /\ UNCHANGED <<stream, seen, sh, app, Unwritten>>

\* The application drops the future; a queued request stays queued.
writer_cancelled ==
    /\ setup.drops /\ wr.pc \in {"queue", "wait"} /\ Free
    /\ wr' = [wr EXCEPT !.pc = "idle", !.item = NoFrame]
    /\ UNCHANGED <<stream, seen, sh, app, Unwritten>>

writer_dropped ==
    /\ setup.drops /\ wr.pc = "idle" /\ Free
    /\ wr' = [wr EXCEPT !.pc = "dropped"]
    /\ sh' = [sh EXCEPT !.cancel = TRUE]
    /\ UNCHANGED <<stream, seen, app, Unwritten>>

writer_send ==
    \/ \E kind \in setup.items : writer_called(kind)
    \/ writer_queues \/ writer_orphaned

-----------------------------------------------------------------------------
(* compio_split_writer_driver *)

Driver(pc) == drv.pc = pc
Undriven == <<setup, u, seen, rd>>

without_activity == due

\* The activity the reader published is picked up.
synced_due == due \ sh.moved
Synced(c) == [c EXCEPT !.moved = {}]

Requests == {"data", "close", "flush"}
\* A request's completion; nobody listens when its future was dropped.
Completed(id, result) ==
    IF wr.pc = "wait" /\ wr.item.id = id
    THEN [wr EXCEPT !.pc = "idle", !.item = NoFrame, !.results = @ \cup {[id |-> id, result |-> result]}]
    ELSE wr

\* The loop is left: the transport writer is released before anyone can observe the end.
Finish(c, cause) ==
    /\ drv' = [drv EXCEPT !.pc = "done", !.released = TRUE, !.frame = NoFrame]
    /\ sh' = [terminate(begin_closing_shared(c), cause) EXCEPT !.notice = cause]
    /\ wr' = IF drv.pc = "write" /\ drv.frame.kind \in Requests THEN Completed(drv.frame.id, cause) ELSE wr

Bytes(frame) == IF frame.kind = "flush" THEN <<>> ELSE <<frame>>
\* await_compio_write and the bounded flushes of Close start a write of their own.
StartWrite(d, pc, frame) ==
    /\ drv' = [d EXCEPT !.pc = pc, !.frame = frame]
    /\ net' = Begun(net, Bytes(frame))

budget_not_while_writing == drv.closing /\ drv.pc # "write" /\ "close" \in due
CloseDue == drv.closing /\ "close" \in due
Alarm(passed) == CloseDue \/ next_deadline(drv.hb, passed) \in passed

driver_top ==
    /\ Driver("top")
    /\ IF sh.status = "Closed" THEN Finish(sh, "ConnectionClosed") /\ UNCHANGED due
       ELSE /\ due' = synced_due /\ sh' = Synced(sh)
            /\ drv' = [drv EXCEPT !.pc = IF Alarm(synced_due) THEN "timer" ELSE "select"]
            /\ UNCHANGED wr
    /\ UNCHANGED <<Undriven, net, ctl, app>>

\* select_biased!: cancellation, control, application, timer.
Control == drv.deferred # NoFrame \/ ctl # <<>>

driver_cancelled ==
    /\ Driver("select") /\ Free /\ sh.cancel
    /\ Finish(sh, "ConnectionClosed")
    /\ UNCHANGED <<Undriven, net, due, ctl, app>>

driver_control ==
    /\ Driver("select") /\ Free /\ ~sh.cancel /\ Control
    /\ LET request == IF drv.deferred # NoFrame THEN drv.deferred ELSE Head(ctl)
           st == [drv EXCEPT !.deferred = NoFrame, !.hb = Inbound(@, request.kind = "pong")]
       IN /\ ctl' = IF drv.deferred # NoFrame THEN ctl ELSE Tail(ctl)
          /\ due' = IF request.kind \in {"ping", "pong"}
                    THEN InboundDue(drv.hb, due, request.kind = "pong") ELSE due
          /\ \/ request.kind = "pong" /\ drv' = [st EXCEPT !.pc = "top"] /\ UNCHANGED <<sh, net, wr>>
             \/ /\ request.kind = "ping" /\ UNCHANGED <<sh, wr>>
                /\ StartWrite(st, "write", [kind |-> "pong", id |-> request.id])
             \/ /\ request.kind = "close" /\ ~drv.local_close /\ UNCHANGED <<sh, wr>>
                /\ StartWrite([st EXCEPT !.hb = "off", !.closing = TRUE, !.cause = "ConnectionClosed"],
                              "closing", [kind |-> "close", id |-> request.id])
             \/ /\ request.kind \in {"readerror", "eof"} \/ (request.kind = "close" /\ drv.local_close)
                /\ Finish(sh, "ConnectionClosed") /\ UNCHANGED net
    /\ UNCHANGED <<Undriven, app>>

driver_application ==
    /\ Driver("select") /\ Free /\ ~sh.cancel /\ ~Control /\ app # <<>>
    /\ app' = Tail(app)
    /\ LET item == Head(app)
           close == item.kind = "close"
       IN IF item.kind # "flush" /\ sh.status # "Open"
          THEN /\ wr' = Completed(item.id, "ConnectionClosed")
               /\ drv' = [drv EXCEPT !.pc = "top"] /\ UNCHANGED <<sh, net>>
          ELSE /\ StartWrite(IF close THEN [drv EXCEPT !.hb = "off", !.local_close = TRUE, !.closing = TRUE]
                             ELSE drv, "write", item)
               /\ sh' = IF close THEN begin_closing_shared(sh) ELSE sh
               /\ UNCHANGED wr
    /\ UNCHANGED <<Undriven, due, ctl>>

\* The timer was set for the deadline as the driver last knew it.
driver_alarm ==
    /\ Driver("select") /\ Free /\ ~sh.cancel /\ ~Control /\ app = <<>> /\ Alarm(due)
    /\ drv' = [drv EXCEPT !.pc = "timer"]
    /\ UNCHANGED <<Undriven, net, due, sh, wr, ctl, app>>

driver_timer ==
    /\ Driver("timer")
    /\ LET deadline == next_deadline(drv.hb, synced_due)
       IN IF CloseDue THEN Finish(sh, "ConnectionClosed") /\ UNCHANGED <<net, due>>
          ELSE /\ UNCHANGED wr /\ sh' = Synced(sh)
               /\ \/ /\ deadline = "ping" /\ "ping" \in synced_due /\ due' = synced_due \ {"ping"}
                     /\ StartWrite([drv EXCEPT !.hb = "queued", !.pings = @ + 1], "write",
                                   [kind |-> "autoping", id |-> 0])
                  \/ /\ deadline \in synced_due \ {"ping"} /\ due' = synced_due
                     /\ StartWrite([drv EXCEPT !.hb = "off", !.cause = TimeoutError(deadline),
                                               !.hasty = deadline = "idle" /\ "idle" \in sh.moved],
                                   "closing", Close0)
                  \/ /\ deadline \notin synced_due /\ due' = synced_due
                     /\ drv' = [drv EXCEPT !.pc = "top"] /\ UNCHANGED net
    /\ UNCHANGED <<Undriven, ctl, app>>

-----------------------------------------------------------------------------
(* await_compio_write: one owned write stays alive across controls and timer wakes *)

write_part ==
    /\ drv.pc \in {"write", "closing"} /\ Free /\ net.output = "free"
    /\ Bytes(drv.frame) # <<>> /\ ~net.partial
    /\ net' = HalfWritten
    /\ UNCHANGED <<Undriven, due, sh, wr, drv, ctl, app>>

write_completes ==
    /\ Driver("write") /\ Free /\ net.output = "free"
    /\ net' = Written(Bytes(drv.frame))
    /\ wr' = IF drv.frame.kind \in Requests THEN Completed(drv.frame.id, "ok") ELSE wr
    /\ drv' = [drv EXCEPT !.pc = "top", !.frame = NoFrame,
                          !.hb = IF drv.frame.kind = "autoping" THEN ping_flushed(@) ELSE @]
    /\ UNCHANGED <<Undriven, due, sh, ctl, app>>

Blocked == Driver("write") /\ Free /\ net.output = "full"
ReadsControl == drv.deferred.kind \notin {"close", "readerror"}

\* Controls are noted while the frame is blocked; only the latest Ping is answered.
write_hears ==
    /\ Blocked /\ ~sh.cancel /\ ReadsControl /\ ctl # <<>> /\ Head(ctl).kind # "eof"
    /\ LET request == Head(ctl)
           closes == request.kind \in {"close", "readerror"}
       IN /\ drv' = [drv EXCEPT !.hb = IF closes THEN "off" ELSE Inbound(@, request.kind = "pong"),
                                !.closing = @ \/ closes,
                                !.deferred = IF request.kind = "pong" THEN @ ELSE request]
          /\ due' = IF closes THEN synced_due ELSE InboundDue(drv.hb, synced_due, request.kind = "pong")
    /\ ctl' = Tail(ctl) /\ sh' = Synced(sh)
    /\ UNCHANGED <<Undriven, net, wr, app>>

NoControl == ~(ReadsControl /\ ctl # <<>>)
HardDue(passed) == next_hard_deadline(drv.hb, passed) \in passed

\* The timer fires for a deadline that data has moved meanwhile.
write_waits ==
    /\ Blocked /\ ~sh.cancel /\ NoControl /\ ~CloseDue /\ HardDue(due) /\ ~HardDue(synced_due)
    /\ due' = synced_due /\ sh' = Synced(sh)
    /\ UNCHANGED <<Undriven, net, drv, wr, ctl, app>>

\* An error, cancellation or expiry abandons the frame and ends the driver.
write_fails ==
    Finish(sh, IF net.output = "error" \/ sh.cancel \/ ~NoControl \/ CloseDue THEN "ConnectionClosed"
               ELSE TimeoutError(next_hard_deadline(drv.hb, synced_due)))

write_stops ==
    /\ Driver("write") /\ Free
    /\ \/ net.output = "error"
       \/ Blocked /\ sh.cancel
       \/ Blocked /\ ReadsControl /\ ctl # <<>> /\ Head(ctl).kind = "eof"
       \/ Blocked /\ NoControl /\ (CloseDue \/ HardDue(synced_due))
    /\ write_fails
    /\ UNCHANGED <<Undriven, net, due, ctl, app>>

\* compio_bounded_flush of a Close, of the peer's or of a timeout.
close_flush_ends ==
    /\ Driver("closing") /\ Free /\ (net.output # "full" \/ "close" \in due)
    /\ net' = IF net.output = "free" THEN Written(<<drv.frame>>) ELSE net
    /\ Finish(sh, drv.cause)
    /\ UNCHANGED <<Undriven, due, ctl, app>>

split_writer_driver ==
    \/ driver_top \/ driver_cancelled \/ driver_control \/ driver_application \/ driver_alarm
    \/ driver_timer \/ close_flush_ends
await_compio_write ==
    write_part \/ write_completes \/ write_hears \/ write_waits \/ write_stops

split_time_passes(d) ==
    /\ u.phase = "split" /\ Free /\ ~Gone
    /\ \/ d = "close" /\ (drv.closing \/ Driver("closing"))
       \/ d = "ping" /\ drv.hb = "waiting" /\ setup.beats /\ drv.pings < setup.pings
       \/ d = "pong" /\ drv.hb = "sent"
       \/ d = "idle" /\ drv.hb # "off" /\ setup.idle
    /\ \/ d \notin due /\ due' = due \cup {d} /\ UNCHANGED sh
       \/ d \in due \cap sh.moved /\ sh' = [sh EXCEPT !.moved = @ \ {d}] /\ UNCHANGED due
    /\ UNCHANGED <<setup, u, net, seen, rd, wr, drv, ctl, app>>

-----------------------------------------------------------------------------

next_ ==
    \/ call_next \/ next_closed \/ next_message \/ next_close \/ next_error \/ next_deadline_passed
    \/ process_read_buf \/ next_expired \/ next_read
    \/ read_completes \/ read_abandoned \/ read_cancelled \/ read_recovered \/ recovery_expires
flush_ == flush_part \/ flush_completes \/ flush_stops \/ shutdown_ends

\* The compressed streams are the same control over their own protocol halves.
compressed_next == setup.compressed /\ next_
compressed_flush == setup.compressed /\ flush_
compressed_reader_next == setup.compressed /\ reader_next
compressed_writer_send == setup.compressed /\ writer_send

Unified == <<sh, rd, wr, drv, ctl, app>>

Next ==
    \/ /\ \/ ~setup.compressed /\ (next_ \/ flush_)
          \/ compressed_next \/ compressed_flush
          \/ drop_call
          \/ \E item \in setup.items : send(item)
          \/ \E d \in {"ping", "pong", "idle", "close", "recovery"} : time_passes(d)
       /\ UNCHANGED Unified
    \/ split
    \/ ~setup.compressed /\ (reader_next \/ writer_send)
    \/ compressed_reader_next \/ compressed_writer_send
    \/ reader_cancelled \/ reader_dropped \/ writer_cancelled \/ writer_dropped
    \/ split_writer_driver \/ await_compio_write
    \/ \E d \in {"ping", "pong", "idle", "close"} : split_time_passes(d)
    \/ Free /\ (peer_sends \/ fills \/ frees \/ ends) /\ UNCHANGED Unified

\* The runtime polls a task that was woken, and time passes.
Fairness ==
    /\ WF_vars(split_writer_driver) /\ WF_vars(await_compio_write)
    /\ WF_vars(Reader("top") /\ reader_next)
    /\ WF_vars(split_time_passes("close"))

Spec == Init /\ [][Next]_vars /\ Fairness

-----------------------------------------------------------------------------
(* Properties *)

\* "Restarting write_all after a partial write would duplicate bytes in the current frame":
\* no write starts behind half a frame, whether its predecessor failed, timed out, was
\* interrupted by controls and timers, was abandoned by the driver, or was dropped with next()
\* in the cleanup after the peer's Close.  The one excuse: the application dropped another call
\* of the unified stream half way through a frame and uses the stream still, which README.md
\* forbids ("do not resume it after cancelling a potentially partial control write").
WholeFrames == net.torn => seen.cut

\* The application gets the peer's messages in wire order, across split(), across calls dropped
\* while they write or wait for the control channel, and before a bad frame; and without a gap,
\* unless a Ping went with the next() that was dropped while it wrote the Pong, or a control
\* message was discarded because its response could not be written (README.md: "A control
\* write failure or timeout [...] may discard undelivered Ping/data messages").
DeliveredInOrder ==
    /\ \A i, j \in DOMAIN seen.delivered : i < j => seen.delivered[i] < seen.delivered[j]
    /\ seen.discarded \/ seen.delivered =
         SubSeq([i \in DOMAIN Complete(net.script) |-> Complete(net.script)[i].id], 1, Len(seen.delivered))

Controls(ids) ==
    Filter(ids, {i \in DOMAIN net.script : net.script[i].kind \in {"ping", "pong", "close"}})

\* Every control message the split reader returned was handed to the driver, once, in order,
\* also when the call that began the hand-off was cancelled and another finished it.
HandedOver ==
    u.phase = "split" => seen.committed = Controls(SubSeq(seen.delivered, seen.split_at + 1, Len(seen.delivered)))

\* One nonwaiting read after the closing budget, and no Pong behind an accepted Close or an
\* expired budget, however often next() is called.
ClosingBudget == seen.late_reads <= 1 /\ ~seen.late_pong

\* "A terminal deadline releases the transport writer before pending operations return their
\* error", and inbound data the reader noted has always been considered first.
TimeoutReleases ==
    /\ ~drv.hasty
    /\ (u.phase = "split" /\ (seen.ended \in {"HeartbeatTimeout", "IdleTimeout"}
          \/ \E r \in wr.results : r.result \in {"HeartbeatTimeout", "IdleTimeout"})) => drv.released

\* Once a Close was sent or received, the driver ends and releases the transport, however long
\* the transport stays blocked and whatever either handle does: one budget covers the frame
\* in progress and the Close behind it.
ClosingEnds == drv.closing ~> Gone
==============================================================================
