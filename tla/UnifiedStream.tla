---------------------------- MODULE UnifiedStream ----------------------------
(***************************************************************************)
(* The unified streams of src/stream/websocket.rs, WebSocketStream and     *)
(* CompressedWebSocketStream.  Tasks poll the Stream half and the Sink     *)
(* half, one poll at a time (the halves share one object); the transport   *)
(* and the timer wake them through a proxy waker from other threads, so    *)
(* every transport call and every waker registration is a step of its own. *)
(* Time is abstracted to the deadlines that have passed; module Heartbeat  *)
(* has the arithmetic.                                                     *)
(***************************************************************************)
EXTENDS CorkBuffer, FiniteSets, Filtering

CONSTANTS Setups,   \* the situations examined, see SetupType
          Tasks     \* the application's tasks

\* Frames of the peer; a "frag" completes no message.
Kinds == {"data", "frag", "ping", "pong", "close", "bad"}

SetupType ==
    [compressed : BOOLEAN,   \* CompressedWebSocketStream
     immediate : BOOLEAN,    \* with_immediate_write_shutdown
     vectored : BOOLEAN,     \* the transport writes vectored
     beats : BOOLEAN,        \* automatic Pings and timeouts
     threshold : Nat,        \* bytes queued before poll_ready drains
     full : BOOLEAN,         \* the transport is full at the start
     leftover : Nat,         \* frames that came with the handshake
     script : Seq(Kinds),    \* what the peer sends
     items : SUBSET {"small", "large", "close"},   \* what the application sends
     calls : SUBSET {"next", "ready", "flush", "close", "close_both"},   \* what it calls
     sends : Nat,            \* bound: how often it does
     pings : Nat,            \* bound: automatic Pings
     moves : Nat,            \* bound: halves handed to another task
     faults : BOOLEAN]       \* the transport may break

NoTask == "none"

ASSUME UnifiedAssumption ==
    /\ Setups \subseteq SetupType /\ \A st \in Setups : st.leftover <= Len(st.script)
    /\ NoTask \notin Tasks

VARIABLES
    setup,
    s,      \* the fields of the stream; write_buf, pending_pong and the flush flags are its UnifiedOutput
    p,      \* the poll in progress and its local variables
    w,      \* wakers: the two slots, registered, the shared timer, and who sleeps or was woken
    net,    \* the transport
    due,    \* deadlines that have passed
    seen    \* history: what was encoded and not written, what was delivered

vars == <<setup, s, p, w, net, due, seen>>

Half == {"Stream", "Sink"}
NoFrame == [kind |-> "none", id |-> 0]
Idle == [op |-> "none"]

Init ==
    /\ setup \in Setups
    /\ LET script == setup.script
           leftover == setup.leftover IN
         /\ net = [script |-> [i \in DOMAIN script |-> [kind |-> script[i], id |-> i]],
                   read |-> leftover, arrived |-> leftover, writable |-> ~setup.full, broken |-> FALSE,
                   interest |-> {}, waking |-> "none", taken |-> {}]
         /\ s = [state |-> "Open", closing |-> FALSE, post_expiry |-> FALSE,
                 shutdown |-> "NotStarted", pending |-> <<>>, batch |-> <<>>,
                 read_buf |-> SubSeq(net.script, 1, leftover), unprocessed |-> leftover > 0,
                 parse_error |-> FALSE, control |-> NoFrame, terminal |-> "none",
                 flush_on_read |-> FALSE, close_after_flush |-> FALSE,
                 write_buf |-> EmptyCork, pending_pong |-> 0, ping_flush |-> FALSE,
                 ready_flush |-> FALSE,
                 ping |-> "none", stopped |-> ~setup.beats, pings |-> 0, batch_has_close |-> FALSE]
    /\ p = Idle
    /\ \E owner \in [Half -> Tasks] :
       w = [waker |-> [h \in Half |-> NoTask], armed |-> [h \in Half |-> FALSE],
            waiting |-> [h \in Half |-> FALSE], registered |-> [h \in Half |-> NoTask],
            owner |-> owner, moves |-> 0, timer |-> "none", asleep |-> [h \in Half |-> NoTask], woken |-> {}]
    /\ due = {}
    /\ seen = [queue |-> <<>>, ordered |-> TRUE, pong |-> 0, delivered |-> <<>>,
               ended |-> "no", sends |-> 0, admitted |-> FALSE, overtook |-> 0]

-----------------------------------------------------------------------------
(* Wakers *)

\* HalfWakers::take for the halves hs: a half that is not waiting keeps its waker.
Taking(wk, hs) == {h \in hs : wk.waiting[h]}
Taken(wk, hs) ==
    [wk EXCEPT !.waker = [h \in Half |-> IF h \in Taking(wk, hs) THEN NoTask ELSE @[h]],
               !.armed = [h \in Half |-> IF h \in Taking(wk, hs) THEN FALSE ELSE @[h]]]

\* Waking a task that is about to poll anyway makes no difference.
Polling == IF p.op \in {"none", "closing"} THEN {} ELSE {p.task}
Heard(wk, tasks) == (tasks \cap ({wk.asleep[h] : h \in Half} \cup Polling)) \ {NoTask}

\* HalfWakers::wake and wake_both from inside a poll.
Wake(wk, hs) ==
    [Taken(wk, hs) EXCEPT !.woken = @ \cup Heard(wk, {wk.waker[h] : h \in Taking(wk, hs)})]

registered_without_armed(wk, h) ==
    {IF wk.registered[h] = p.task THEN [wk EXCEPT !.waiting[h] = TRUE]
     ELSE [wk EXCEPT !.waiting[h] = TRUE, !.waker[h] = p.task, !.armed[h] = TRUE,
                     !.registered[h] = p.task]}

\* UnifiedOutput::register, what it may leave.  A Relaxed load may return the value `armed`
\* had when the poll began, although a wake took the waker since.
register(wk, h) ==
    {IF armed /\ wk.registered[h] = p.task THEN [wk EXCEPT !.waiting[h] = TRUE]
     ELSE [wk EXCEPT !.waiting[h] = TRUE, !.waker[h] = p.task, !.armed[h] = TRUE,
                     !.registered[h] = p.task] : armed \in {wk.armed[h], p.armed}}

\* UnifiedOutput::settle.
Settled(wk, half) == IF half = "Sink" THEN [wk EXCEPT !.waiting["Sink"] = FALSE] ELSE wk

\* The transport or the timer calls the proxy waker on its own thread: wake_both.  Its two
\* steps fall before a registration or between polls; the steps of a poll in between do not
\* look at the slots.
ReactorTurn == p.op \notin {"none", "closing"} => p.pc \in {"register", "read"}

reactor_takes_stream ==
    /\ net.waking = "Stream" /\ ReactorTurn
    /\ net' = [net EXCEPT !.waking = "Sink",
                          !.taken = Heard(w, {w.waker[h] : h \in Taking(w, {"Stream"})})]
    /\ w' = Taken(w, {"Stream"})
    /\ UNCHANGED <<setup, s, p, due, seen>>

reactor_wakes ==
    /\ net.waking = "Sink" /\ ReactorTurn
    /\ net' = [net EXCEPT !.waking = "none", !.taken = {}]
    /\ w' = [Wake(w, {"Sink"}) EXCEPT !.woken = @ \cup Heard(w, net.taken)]
    /\ UNCHANGED <<setup, s, p, due, seen>>

\* An event wakes whoever registered for it; the registration is used up.
Event(interest) ==
    [net EXCEPT !.waking = IF interest \in net.interest THEN "Stream" ELSE @,
                !.interest = @ \ {interest}]

-----------------------------------------------------------------------------
(* Deadlines *)

Primary(st) == CASE st.ping = "none" -> "ping" [] st.ping = "sent" -> "pong" [] OTHER -> "idle"

\* Heartbeat::next_deadline and next_hard_deadline: the one that passed first, else the next.
next_hard_deadline(st) ==
    IF st.stopped THEN "none"
    ELSE IF st.ping = "sent" /\ ("pong" \in due \/ "idle" \notin due) THEN "pong" ELSE "idle"
next_deadline(st) ==
    IF st.stopped THEN "none"
    ELSE IF Primary(st) = "ping" /\ ~("idle" \in due /\ "ping" \notin due) THEN "ping"
    ELSE next_hard_deadline(st)

\* Inbound traffic; the matching Pong settles the Ping.
Inbound(st, pong) ==
    IF ~st.stopped /\ pong /\ st.ping = "sent" THEN [st EXCEPT !.ping = "none"]
    ELSE IF ~st.stopped /\ pong /\ st.ping = "queued" THEN [st EXCEPT !.ping = "acknowledged"]
    ELSE st
InboundDue(pong) == due \ ({"ping", "idle"} \cup (IF pong THEN {"pong"} ELSE {}))

\* record_ping_flush.
PingFlushed(st) ==
    IF ~st.ping_flush THEN st
    ELSE [st EXCEPT !.ping_flush = FALSE,
                    !.ping = CASE @ = "queued" -> "sent" [] @ = "acknowledged" -> "none" [] OTHER -> @]

\* Only the reader polls heartbeat deadlines: a flush by the Sink half wakes it.
PingFlushWakes(wk, half) == IF s.ping_flush /\ half = "Sink" THEN Wake(wk, {"Stream"}) ELSE wk

begin_closing(st) == [st EXCEPT !.pending_pong = 0, !.stopped = TRUE, !.closing = TRUE]
ClosingTimer(wk) == IF s.closing THEN wk ELSE [wk EXCEPT !.timer = "none"]

Expired == s.closing /\ "close" \in due

\* poll_closing_expired and poll_heartbeat_timer leave the shared timer armed no later than
\* the deadline they were given.
ClosingPolled(wk) == IF s.closing THEN [wk EXCEPT !.timer = "close"] ELSE wk
TimerPolled(wk, deadline) == IF deadline = "none" THEN wk ELSE [wk EXCEPT !.timer = deadline]

-----------------------------------------------------------------------------
(* Ending *)

close_terminal(st) == [st EXCEPT !.state = "Closed", !.stopped = TRUE, !.pending_pong = 0]
TerminalWakes(wk) == [Wake(wk, Half) EXCEPT !.timer = "none"]

Dropped(st) ==
    [st EXCEPT !.flush_on_read = FALSE, !.close_after_flush = FALSE, !.ping_flush = FALSE,
               !.pending = <<>>, !.batch = <<>>, !.control = NoFrame, !.terminal = "none"]

\* The compressed stream leaves its shutdown state alone.
compressed_finish_read_close(st) == Dropped(close_terminal(st))
finish_read_close(st) ==
    IF setup.compressed THEN compressed_finish_read_close(st)
    ELSE [Dropped(close_terminal(st)) EXCEPT !.shutdown = IF @ = "Pending" THEN "Failed" ELSE @]
FinishResult(st, fallback) ==
    IF st.terminal # "none" THEN st.terminal
    ELSE IF st.control.kind = "close" THEN "message" ELSE fallback

\* The poll is over.  A task that returned Pending sleeps until it is woken.
Return(wk) ==
    /\ p' = Idle
    /\ w' = [wk EXCEPT !.woken = {task \in @ : \E h \in Half \ {p.half} : wk.asleep[h] = task}]
Pending(wk) == p' = Idle /\ w' = [wk EXCEPT !.asleep[p.half] = p.task]
At(pc) == p.op # "none" /\ p.pc = pc
Jump(pc) == [p EXCEPT !.pc = pc, !.call = "none", !.ret = "none", !.res = "none",
                      !.late = (pc \notin {"top", "errors"} /\ @), !.buffered = (pc = "process" /\ @)]
Goto(pc) == p' = Jump(pc)

Delivered(frame) == seen' = [seen EXCEPT !.delivered = Append(@, frame.id)]
Ended(result) == seen' = [seen EXCEPT !.ended = result]

\* poll_next ends the stream through finish_read_close.
FinishRead(st, wk, fallback) ==
    /\ s' = finish_read_close(st)
    /\ Return(TerminalWakes(wk))
    /\ LET r == FinishResult(st, fallback)
       IN IF r = "message" THEN Delivered(st.control) ELSE Ended(r)

Encode(st, frame) == [st EXCEPT !.write_buf = write(@, <<frame>>)]
Encoded(frame) == seen' = [seen EXCEPT !.queue = Append(@, frame)]

-----------------------------------------------------------------------------
(* Polls begin *)

\* The owner of a half polls it at will, but one that sleeps in this half only once woken; it then
\* polls everything it waits for.  At most one poll holds the object.
poll(op) ==
    LET half == IF op = "next" THEN "Stream" ELSE "Sink"
        task == w.owner[half]
    IN /\ p = Idle
       /\ w.asleep[half] = task => task \in w.woken
       /\ op = "next" => seen.ended = "no"
       /\ p' = [op |-> op, half |-> half, task |-> task, pc |-> IF op = "next" THEN "top" ELSE "start",
                call |-> "none", ret |-> "none", res |-> "none", parsed |-> NoFrame,
                expired |-> "none", late |-> FALSE, buffered |-> FALSE, armed |-> w.armed[half]]
       /\ w' = [w EXCEPT !.woken = @ \ {task},
                         !.asleep = [h \in Half |-> IF h = half \/ @[h] = task THEN NoTask ELSE @[h]]]
       /\ UNCHANGED <<setup, s, net, due, seen>>

\* Another task takes a half over, also one that somebody waits for.
handover(h, task) ==
    /\ p = Idle /\ w.moves < setup.moves /\ task # w.owner[h]
    /\ w' = [w EXCEPT !.owner[h] = task, !.moves = @ + 1, !.asleep[h] = NoTask]
    /\ UNCHANGED <<setup, s, p, net, due, seen>>

\* Every transport call first registers the half.
Call(call, ret) == p' = [p EXCEPT !.pc = "register", !.call = call, !.ret = ret, !.res = "none"]
poll_registers ==
    /\ p.op # "none" /\ p.pc = "register"
    /\ w' \in register(w, p.half)
    /\ p' = [p EXCEPT !.pc = p.call, !.call = "none"]
    /\ UNCHANGED <<setup, s, net, due, seen>>

Result(res) == p' = [p EXCEPT !.pc = p.ret, !.ret = "none", !.res = res]

-----------------------------------------------------------------------------
(* UnifiedOutput::drain, poll_shutdown *)

Offered == IF has_segments(s.write_buf) /\ setup.vectored THEN fill_write_slices(s.write_buf)
           ELSE chunk(s.write_buf)

\* One write takes any part of what is offered; after a part the transport is full.
Write ==
    \E n \in 1 .. Len(Offered) : \E more \in {FALSE, n = Len(Offered)} :
      /\ s' = [s EXCEPT !.write_buf = consume(@, n)]
      /\ seen' = [seen EXCEPT !.ordered = @ /\ SubSeq(Offered, 1, n) = SubSeq(seen.queue, 1, n),
                              !.queue = SubSeq(@, n + 1, Len(@))]
      /\ net' = [net EXCEPT !.writable = more]

drain_write ==
    /\ At("drain") /\ net.writable /\ ~net.broken /\ has_data(s.write_buf)
    /\ Write
    /\ UNCHANGED <<setup, p, w, due>>

\* The Pong is encoded only once everything before it is flushed.
drain_pong ==
    /\ At("drain") /\ net.writable /\ ~net.broken
    /\ ~has_data(s.write_buf) /\ s.pending_pong # 0
    /\ LET frame == [kind |-> "pong", id |-> s.pending_pong]
       IN /\ s' = [Encode(PingFlushed(s), frame) EXCEPT !.pending_pong = 0]
          /\ seen' = [seen EXCEPT !.queue = Append(@, frame), !.pong = frame.id, !.overtook = 0]
    /\ w' = PingFlushWakes(w, p.half)
    /\ UNCHANGED <<setup, p, net, due>>

drain_flush ==
    /\ At("drain") /\ net.writable /\ ~net.broken
    /\ ~has_data(s.write_buf) /\ s.pending_pong = 0
    /\ s' = [PingFlushed(s) EXCEPT !.ready_flush = FALSE]
    /\ w' = Settled(PingFlushWakes(w, p.half), p.half)
    /\ Result("ready")
    /\ UNCHANGED <<setup, net, due, seen>>

drain_blocked ==
    /\ At("drain") /\ ~net.writable /\ ~net.broken
    /\ net' = [net EXCEPT !.interest = @ \cup {"write"}]
    /\ Result("pending")
    /\ UNCHANGED <<setup, s, w, due, seen>>

\* poll_write_out ends the stream on any error.
drain_fails ==
    /\ At("drain") /\ net.broken
    /\ s' = close_terminal(s)
    /\ w' = TerminalWakes(Settled(w, p.half))
    /\ Result("err")
    /\ UNCHANGED <<setup, net, due, seen>>

\* poll_transport_shutdown.
poll_transport_shutdown ==
    /\ At("shutdown")
    /\ s' = [s EXCEPT !.shutdown = IF net.broken THEN "Failed" ELSE IF net.writable THEN "Complete"
                                   ELSE "Pending"]
    /\ IF net.writable \/ net.broken
       THEN w' = Settled(w, p.half) /\ Result(IF net.broken THEN "err" ELSE "ready") /\ UNCHANGED net
       ELSE /\ net' = [net EXCEPT !.interest = @ \cup {"write"}]
            /\ Result("pending") /\ UNCHANGED w
    /\ ~setup.compressed
    /\ UNCHANGED <<setup, due, seen>>

\* The compressed stream remembers only success.
compressed_transport_shutdown ==
    /\ At("shutdown")
    /\ s' = [s EXCEPT !.shutdown = IF net.writable /\ ~net.broken THEN "Complete" ELSE @]
    /\ IF net.writable \/ net.broken
       THEN w' = Settled(w, p.half) /\ Result(IF net.broken THEN "err" ELSE "ready") /\ UNCHANGED net
       ELSE /\ net' = [net EXCEPT !.interest = @ \cup {"write"}]
            /\ Result("pending") /\ UNCHANGED w
    /\ setup.compressed
    /\ UNCHANGED <<setup, due, seen>>

-----------------------------------------------------------------------------
(* poll_next *)

next_top ==
    /\ At("top")
    /\ IF s.state = "Closed" THEN Return(w) /\ Ended("end")
       ELSE /\ UNCHANGED <<w, seen>>
            /\ IF s.flush_on_read /\ p.expired = "none" THEN Call("drain", "flushed") ELSE Goto("errors")
    /\ UNCHANGED <<setup, s, net, due>>

\* A suspension keeps the message just parsed.
Kept(st) == IF p.parsed = NoFrame THEN st ELSE [st EXCEPT !.pending = <<p.parsed>>]

\* Control responses and automatic Pings are driven by the read path.
next_flushed ==
    /\ At("flushed")
    /\ \/ /\ p.res = "ready" /\ s.close_after_flush /\ s.shutdown # "Complete"
          /\ Call("shutdown", "shut") /\ UNCHANGED <<s, w, seen>>
       \/ /\ p.res = "ready" /\ s.close_after_flush /\ s.shutdown = "Complete"
          /\ FinishRead(s, w, "end")
       \/ /\ p.res = "ready" /\ ~s.close_after_flush
          /\ s' = [s EXCEPT !.flush_on_read = FALSE, !.control = NoFrame]
          /\ IF s.control # NoFrame THEN Return(w) /\ Delivered(s.control)
             ELSE Goto("errors") /\ UNCHANGED <<w, seen>>
       \/ p.res = "err" /\ FinishRead(s, w, "error")
       \/ p.res = "pending" /\ Expired /\ FinishRead(s, w, "error")
       \/ /\ p.res = "pending" /\ ~Expired
          /\ LET hard == next_hard_deadline(s)
                 wk == TimerPolled(ClosingPolled(w), hard)
             IN \/ /\ hard \in due
                   /\ p' = [Jump("top") EXCEPT !.expired = hard]
                   /\ w' = wk /\ UNCHANGED <<s, seen>>
                \/ hard \notin due /\ s.closing /\ s' = Kept(s) /\ Pending(wk) /\ UNCHANGED seen
                \/ /\ hard \notin due /\ ~s.closing /\ s.control # NoFrame
                   /\ s' = [s EXCEPT !.control = NoFrame]
                   /\ Return(wk) /\ Delivered(s.control)
                \/ /\ hard \notin due /\ ~s.closing /\ s.control = NoFrame
                   /\ Goto("errors") /\ w' = wk /\ UNCHANGED <<s, seen>>
    /\ UNCHANGED <<setup, net, due>>

next_shut ==
    /\ At("shut")
    /\ IF p.res # "pending" \/ Expired THEN FinishRead(s, w, "end")
       ELSE s' = Kept(s) /\ Pending(ClosingPolled(w)) /\ UNCHANGED seen
    /\ UNCHANGED <<setup, net, due>>

ErrorFirst == p.parsed = NoFrame /\ s.pending = <<>> /\ s.batch = <<>> /\ s.parse_error

\* A parse error is reported after the messages before it; the plain stream drops its output.
next_errors ==
    /\ At("errors") /\ ErrorFirst
    /\ s' = [close_terminal(s) EXCEPT !.parse_error = FALSE,
                                      !.write_buf = IF setup.compressed THEN @ ELSE EmptyCork]
    /\ Return(TerminalWakes(w))
    /\ seen' = [seen EXCEPT !.ended = "error", !.queue = IF setup.compressed THEN @ ELSE <<>>]
    /\ UNCHANGED <<setup, net, due>>

\* The deadline looked at before a message is delivered.
Deadline == IF p.expired # "none" THEN p.expired
            ELSE IF s.parse_error THEN "none" ELSE next_deadline(s)

\* A Ping is due, or the peer is given up.
next_deadlines ==
    /\ At("errors") /\ ~ErrorFirst /\ Deadline \in due
    /\ LET frame == [kind |-> IF Deadline = "ping" THEN "autoping" ELSE "close", id |-> 0]
       IN /\ Encoded(frame)
          /\ s' = IF Deadline = "ping"
                  THEN [Encode(s, frame) EXCEPT !.ping = "queued", !.pings = @ + 1,
                                                !.ping_flush = TRUE, !.flush_on_read = TRUE]
                  ELSE [begin_closing(Encode(s, frame)) EXCEPT
                          !.state = "CloseSent", !.terminal = "timeout",
                          !.flush_on_read = TRUE, !.close_after_flush = TRUE]
    /\ w' = [w EXCEPT !.timer = "none"]
    /\ p' = [Jump("top") EXCEPT !.expired = "none"]
    /\ UNCHANGED <<setup, net, due>>

Delivering == At("errors") /\ ~ErrorFirst /\ Deadline \notin due

\* The next message in hand.
InHand == (IF p.parsed = NoFrame THEN <<>> ELSE <<p.parsed>>) \o s.pending \o s.batch
Taking1(st) ==
    IF p.parsed # NoFrame THEN st
    ELSE IF st.pending # <<>> THEN [st EXCEPT !.pending = <<>>]
    ELSE [st EXCEPT !.batch = Tail(@)]

HasClose(frames) == \E i \in DOMAIN frames : frames[i].kind = "close"
Complete(frames) == Filter(frames, [kind : Kinds \ {"frag", "bad"}, id : Nat])
BadAt(frames) == {i \in DOMAIN frames : frames[i].kind = "bad"}
UpTo(frames) ==
    IF BadAt(frames) = {} THEN frames
    ELSE SubSeq(frames, 1, (CHOOSE i \in BadAt(frames) : \A j \in BadAt(frames) : i <= j) - 1)

ReadError(st) ==
    [st EXCEPT !.parse_error = TRUE, !.state = IF @ = "Open" THEN "ReadErrorPending" ELSE @]

rest_forgotten(st) == [st EXCEPT !.read_buf = <<>>, !.unprocessed = FALSE]

\* Everything already buffered is parsed, up to the first bad frame.
ProcessAll(st) ==
    LET st2 == [st EXCEPT !.batch = Complete(UpTo(st.read_buf)), !.read_buf = <<>>,
                          !.unprocessed = FALSE]
    IN IF BadAt(st.read_buf) = {} THEN st2 ELSE ReadError(st2)

process_buffered_after_ping(st) == IF st.unprocessed THEN ProcessAll(st) ELSE st

\* Data and Pongs.
next_message ==
    /\ Delivering /\ InHand # <<>> /\ InHand[1].kind \in {"data", "pong"}
    /\ s' = Inbound(Taking1(s), InHand[1].kind = "pong")
    /\ due' = IF s.stopped THEN due ELSE InboundDue(InHand[1].kind = "pong" /\ s.ping = "sent")
    /\ Return(w) /\ Delivered(InHand[1])
    /\ UNCHANGED <<setup, net>>

\* No Pong is started after expiry, after the write half ended, or when Close is already here.
next_ping ==
    /\ Delivering /\ InHand # <<>> /\ InHand[1].kind = "ping"
    /\ due' = IF s.stopped THEN due ELSE InboundDue(FALSE)
    /\ LET st == IF setup.compressed THEN Taking1(s) ELSE process_buffered_after_ping(Taking1(s))
           close == IF setup.compressed THEN s.batch_has_close ELSE HasClose(st.batch)
       IN IF s.shutdown = "Complete" \/ Expired \/ close
          THEN s' = st /\ Return(ClosingPolled(w)) /\ Delivered(InHand[1])
          ELSE /\ s' = [st EXCEPT !.pending_pong = InHand[1].id, !.control = InHand[1],
                                  !.flush_on_read = TRUE]
               /\ w' = ClosingPolled(w)
               /\ p' = [Jump("top") EXCEPT !.parsed = NoFrame]
               /\ UNCHANGED seen
    /\ UNCHANGED <<setup, net>>

\* The peer's Close: answered unless ours was sent; what follows it is dropped.
next_close ==
    /\ Delivering /\ InHand # <<>> /\ InHand[1].kind = "close"
    /\ LET answer == s.state \in {"Open", "ReadErrorPending"}
           frame == [kind |-> "close", id |-> InHand[1].id]
           st == [begin_closing(s) EXCEPT
                    !.pending = <<>>, !.batch = <<>>, !.read_buf = <<>>, !.parse_error = FALSE,
                    !.control = InHand[1], !.flush_on_read = TRUE, !.close_after_flush = TRUE]
       IN /\ s' = IF answer THEN Encode(st, frame) ELSE st
          /\ IF answer THEN Encoded(frame) ELSE UNCHANGED seen
    /\ due' = IF s.stopped THEN due ELSE InboundDue(FALSE)
    /\ w' = ClosingTimer(w)
    /\ p' = [Jump("top") EXCEPT !.parsed = NoFrame]
    /\ UNCHANGED <<setup, net>>

\* Nothing in hand: the bytes already buffered.
next_buffered ==
    /\ Delivering /\ InHand = <<>> /\ s.unprocessed
    /\ p' = [p EXCEPT !.pc = "process", !.buffered = TRUE]
    /\ UNCHANGED <<setup, s, w, net, due, seen>>

CanShutdown == IF setup.compressed THEN s.shutdown # "Complete"
               ELSE s.shutdown \in {"NotStarted", "Pending"}

\* Then the transport; after expiry one read without waiting, then one poll of shutdown.
next_io ==
    /\ Delivering /\ InHand = <<>> /\ ~s.unprocessed
    /\ LET to(call, ret) == /\ p' = [p EXCEPT !.pc = IF call = "read" THEN "read" ELSE "register",
                                             !.call = call, !.ret = ret,
                                             !.buffered = FALSE, !.late = Expired]
                            /\ w' = ClosingPolled(w) /\ UNCHANGED <<s, seen>>
       IN IF Expired /\ s.post_expiry
          THEN IF CanShutdown /\ ~has_data(s.write_buf) THEN to("shutdown", "lateShut")
               ELSE FinishRead(s, w, "error")
          ELSE IF has_data(s.write_buf) THEN to("drain", "fed") ELSE to("read", "none")
    /\ UNCHANGED <<setup, net, due>>

next_late_shut ==
    /\ At("lateShut")
    /\ FinishRead(s, w, "error")
    /\ UNCHANGED <<setup, net, due>>

\* Frames queued by feed() go out before the reader waits.
next_fed ==
    /\ At("fed")
    /\ \/ p.res = "ready" /\ Goto("read") /\ UNCHANGED <<s, w, seen>>
       \/ p.res = "err" /\ Return(w) /\ Ended("error") /\ UNCHANGED s
       \/ p.res = "pending" /\ Expired /\ FinishRead(s, w, "error")
       \/ /\ p.res = "pending" /\ ~Expired
          /\ UNCHANGED <<s, seen>>
          /\ LET deadline == IF s.parse_error THEN "none" ELSE next_deadline(s)
                 wk == TimerPolled(ClosingPolled(w), deadline)
             IN IF deadline \in due
                THEN p' = [Jump("top") EXCEPT !.expired = deadline] /\ w' = wk
                ELSE IF s.closing THEN Pending(wk)
                ELSE Goto("read") /\ w' = wk
    /\ UNCHANGED <<setup, net, due>>

\* poll_read_more, through UnifiedOutput::poll_read.
next_read ==
    /\ At("read")
    /\ \E wk \in register(w, "Stream") :
       LET st == IF p.late THEN [s EXCEPT !.post_expiry = TRUE] ELSE s
       IN \/ \E n \in 1 .. net.arrived - net.read :
               /\ s' = [st EXCEPT !.read_buf = @ \o SubSeq(net.script, net.read + 1, net.read + n)]
               /\ net' = [net EXCEPT !.read = @ + n]
               /\ Goto("process") /\ w' = wk /\ UNCHANGED seen
          \/ /\ net.broken
             /\ s' = close_terminal(st)
             /\ Return(TerminalWakes(wk)) /\ UNCHANGED net
             /\ \E r \in {"end", "error"} : Ended(r)
          \/ /\ net.arrived = net.read /\ ~net.broken
             /\ s' = st
             /\ net' = [net EXCEPT !.interest = @ \cup {"read"}]
             /\ Goto("nodata") /\ w' = wk /\ UNCHANGED seen
    /\ UNCHANGED <<setup, due>>

next_nodata ==
    /\ At("nodata")
    /\ IF Expired THEN FinishRead(s, w, "error")
       ELSE LET deadline == IF s.parse_error THEN "none" ELSE next_deadline(s)
                wk == TimerPolled(ClosingPolled(w), deadline)
            IN /\ UNCHANGED <<s, seen>>
               /\ IF deadline \in due
                  THEN p' = [Jump("top") EXCEPT !.expired = deadline] /\ w' = wk
                  ELSE Pending(wk)
    /\ UNCHANGED <<setup, net, due>>

Fragments(frames) == \E i \in DOMAIN frames : frames[i].kind = "frag"

\* WebSocketStream::process_read_buf: through the next complete message only.
process_read_buf ==
    /\ At("process") /\ ~setup.compressed
    /\ LET ends == {i \in DOMAIN s.read_buf : s.read_buf[i].kind # "frag"}
           n == IF ends = {} THEN Len(s.read_buf) ELSE CHOOSE i \in ends : \A j \in ends : i <= j
           rest == SubSeq(s.read_buf, n + 1, Len(s.read_buf))
           st == [s EXCEPT !.read_buf = rest, !.unprocessed = ends # {} /\ rest # <<>>]
       IN /\ due' = IF s.stopped \/ (n = 1 /\ ends # {}) THEN due ELSE InboundDue(FALSE)
          /\ \/ /\ ends # {} /\ s.read_buf[n].kind = "bad"
                /\ s' = [ReadError(st) EXCEPT !.unprocessed = FALSE]
                /\ Goto("top")
             \/ /\ ends # {} /\ s.read_buf[n].kind # "bad"
                /\ s' = st
                /\ p' = [Jump("top") EXCEPT !.parsed = s.read_buf[n]]
             \/ ends = {} /\ s' = st /\ Goto(IF p.buffered THEN "errors" ELSE "top")
    /\ UNCHANGED <<setup, w, net, seen>>

\* CompressedWebSocketStream::process_read_buf: everything that was read.
compressed_process_read_buf ==
    /\ At("process") /\ setup.compressed
    /\ LET st == ProcessAll(s)
       IN /\ s' = [st EXCEPT !.batch_has_close = HasClose(st.batch)]
          /\ Goto(IF p.buffered /\ st.batch = <<>> /\ ~st.parse_error THEN "errors" ELSE "top")
    /\ due' = IF s.stopped \/ ~Fragments(UpTo(s.read_buf)) THEN due ELSE InboundDue(FALSE)
    /\ UNCHANGED <<setup, w, net, seen>>

-----------------------------------------------------------------------------
(* The Sink half *)

ready_ignores_pong(st) == st.ready_flush \/ pending_bytes(st.write_buf) >= setup.threshold

needs_drain_before_send(st) ==
    st.ready_flush \/ st.pending_pong # 0 \/ pending_bytes(st.write_buf) >= setup.threshold

poll_ready ==
    /\ At("start") /\ p.op = "ready"
    /\ IF s.state # "Open" THEN Return(w) /\ UNCHANGED <<s, seen>>
       ELSE IF needs_drain_before_send(s)
       THEN s' = [s EXCEPT !.ready_flush = TRUE] /\ Call("drain", "done") /\ UNCHANGED <<w, seen>>
       ELSE Return(w) /\ seen' = [seen EXCEPT !.admitted = TRUE] /\ UNCHANGED s
    /\ UNCHANGED <<setup, net, due>>

\* The end of poll_ready and of poll_flush.
sink_done ==
    /\ At("done")
    /\ IF p.res # "pending"
       THEN /\ Return(w) /\ UNCHANGED s
            /\ seen' = [seen EXCEPT !.admitted = @ \/ (p.op = "ready" /\ p.res = "ready")]
       ELSE /\ UNCHANGED seen
            /\ IF p.op = "flush" /\ Expired
               THEN s' = finish_read_close(s) /\ Return(TerminalWakes(w))
               ELSE Pending(IF p.op = "flush" THEN ClosingPolled(w) ELSE w) /\ UNCHANGED s
    /\ UNCHANGED <<setup, net, due>>

Cells(item, id) ==
    IF item = "close" THEN <<[kind |-> "close", id |-> 0]>>
    ELSE IF item = "small" THEN <<[kind |-> "data", id |-> id]>>
    ELSE <<[kind |-> "head", id |-> id], [kind |-> "data", id |-> id]>>

\* start_send: a large payload of the server goes behind its header by reference.
start_send(item) ==
    /\ p = Idle /\ seen.admitted /\ seen.sends < setup.sends
    /\ LET cells == Cells(item, seen.sends + 1)
           st == IF item = "close" THEN [begin_closing(s) EXCEPT !.state = "CloseSent"] ELSE s
       IN IF s.state # "Open" THEN seen' = [seen EXCEPT !.admitted = FALSE] /\ UNCHANGED <<s, w>>
          ELSE /\ s' = [st EXCEPT !.write_buf =
                          IF item = "large" /\ ~setup.compressed
                          THEN push_segment(write(@, <<cells[1]>>), <<cells[2]>>)
                          ELSE write(@, cells)]
               /\ w' = IF item = "close" THEN ClosingTimer(w) ELSE w
               /\ seen' = [seen EXCEPT !.admitted = FALSE, !.sends = @ + 1,
                                       !.queue = @ \o cells,
                                       !.overtook = IF s.pending_pong = 0 THEN @ ELSE @ + 1]
    /\ UNCHANGED <<setup, p, net, due>>

poll_flush ==
    /\ At("start") /\ p.op = "flush"
    /\ IF s.state = "Closed" THEN Return(w) ELSE Call("drain", "done") /\ UNCHANGED w
    /\ UNCHANGED <<setup, s, net, due, seen>>

\* poll_close on a stream that ended: shut the transport down unless a frame was abandoned.
poll_close_ended ==
    /\ At("start") /\ p.op = "close" /\ (s.state = "Closed" \/ s.shutdown = "Complete")
    /\ IF ~setup.compressed /\ CanShutdown /\ ~has_data(s.write_buf)
       THEN s' = begin_closing(s) /\ w' = ClosingTimer(w) /\ Call("shutdown", "closeShut")
       ELSE s' = finish_read_close(s) /\ Return(TerminalWakes(w))
    /\ UNCHANGED <<setup, net, due, seen>>

poll_close ==
    /\ At("start") /\ p.op = "close" /\ ~(s.state = "Closed" \/ s.shutdown = "Complete")
    /\ LET close == [kind |-> "close", id |-> 0]
       IN IF s.state = "Open"
          THEN s' = [begin_closing(Encode(s, close)) EXCEPT !.state = "CloseSent"] /\ Encoded(close)
          ELSE s' = begin_closing(s) /\ UNCHANGED seen
    /\ w' = ClosingTimer(w)
    /\ Call("drain", "closeFlushed")
    /\ UNCHANGED <<setup, net, due>>

poll_close_flushed ==
    /\ At("closeFlushed")
    /\ IF p.res = "ready" THEN Call("shutdown", "closeShut") /\ UNCHANGED <<s, w>>
       ELSE IF p.res = "err" \/ Expired THEN s' = finish_read_close(s) /\ Return(TerminalWakes(w))
       ELSE Pending(ClosingPolled(w)) /\ UNCHANGED s
    /\ UNCHANGED <<setup, net, due, seen>>

poll_close_shut ==
    /\ At("closeShut")
    /\ IF p.res # "pending" \/ Expired THEN s' = finish_read_close(s) /\ Return(TerminalWakes(w))
       ELSE Pending(ClosingPolled(w)) /\ UNCHANGED s
    /\ UNCHANGED <<setup, net, due, seen>>

-----------------------------------------------------------------------------
(* close(): the whole object is borrowed, and its own waker is used *)

close ==
    /\ "close_both" \in setup.calls /\ p = Idle /\ s.state = "Open" /\ w.asleep = [h \in Half |-> NoTask]
    /\ LET frame == [kind |-> "close", id |-> 0]
       IN s' = [begin_closing(Encode(s, frame)) EXCEPT !.state = "CloseSent"] /\ Encoded(frame)
    /\ w' = ClosingTimer(w)
    /\ p' = [op |-> "closing", half |-> "Stream", pc |-> "write"]
    /\ UNCHANGED <<setup, net, due>>

\* flush_write_buf, then the shutdown of a multiplexed transport's send half.
close_write ==
    /\ p.op = "closing" /\ p.pc = "write" /\ net.writable /\ ~net.broken
    /\ IF has_data(s.write_buf) THEN Write /\ UNCHANGED p
       ELSE /\ UNCHANGED <<net, seen>>
            /\ IF setup.immediate
               THEN p' = [p EXCEPT !.pc = "end"]
                    /\ s' = [s EXCEPT !.shutdown = IF setup.compressed THEN @ ELSE "Pending"]
               ELSE p' = Idle /\ UNCHANGED s
    /\ UNCHANGED <<setup, w, due>>

close_shutdown ==
    /\ p.op = "closing" /\ p.pc = "end" /\ net.writable /\ ~net.broken
    /\ s' = [s EXCEPT !.shutdown = "Complete"]
    /\ p' = Idle
    /\ UNCHANGED <<setup, w, net, due, seen>>

\* An error, or the deadline while the transport is blocked.
close_fails ==
    /\ p.op = "closing" /\ (net.broken \/ (~net.writable /\ Expired))
    /\ LET st == IF p.pc = "end" /\ net.broken /\ ~setup.compressed
                 THEN [s EXCEPT !.shutdown = "Failed"] ELSE s
       IN s' = finish_read_close(st)
    /\ w' = TerminalWakes(w) /\ p' = Idle
    /\ UNCHANGED <<setup, net, due, seen>>

\* The application drops the future.
close_cancelled ==
    /\ p.op = "closing" /\ ~net.writable
    /\ p' = Idle
    /\ UNCHANGED <<setup, s, w, net, due, seen>>

-----------------------------------------------------------------------------
(* The transport and the clock (external).  What happens during a poll is as if it happened *)
(* before or after it, but the wakes of an earlier event may run during the poll.            *)

peer_sends ==
    /\ p = Idle /\ net.waking = "none" /\ net.arrived < Len(net.script) /\ ~net.broken
    /\ net.script[net.arrived + 1].kind = "pong" => s.ping # "none"
    /\ net' = [Event("read") EXCEPT !.arrived = @ + 1]
    /\ UNCHANGED <<setup, s, p, w, due, seen>>

becomes_writable ==
    /\ p.op \in {"none", "closing"} /\ net.waking = "none" /\ ~net.writable
    /\ net' = [Event("write") EXCEPT !.writable = TRUE]
    /\ UNCHANGED <<setup, s, p, w, due, seen>>

\* Both directions end; both registrations are woken by the same proxy.
breaks ==
    /\ p.op \in {"none", "closing"} /\ setup.faults /\ net.waking = "none" /\ ~net.broken
    /\ net' = [net EXCEPT !.broken = TRUE, !.interest = {},
                          !.waking = IF @ = "none" /\ net.interest # {} THEN "Stream" ELSE @]
    /\ UNCHANGED <<setup, s, p, w, due, seen>>

\* A deadline passes; the idle deadline is the later one.
time_passes(d) ==
    /\ p.op \in {"none", "closing"} /\ d \notin due
    /\ \/ d = "close" /\ s.closing
       \/ ~s.stopped /\ d = Primary(s) /\ (d = "ping" => s.pings < setup.pings)
       \/ ~s.stopped /\ d = "idle" /\ Primary(s) \in due
    /\ due' = due \cup {d}
    /\ UNCHANGED <<setup, s, p, w, net, seen>>

\* The registered instant has come; traffic may have moved its deadline later since.
timer_fires ==
    /\ p = Idle /\ w.timer \in due \cup {"ping", "idle"} /\ net.waking = "none"
    /\ net' = [net EXCEPT !.waking = "Stream"]
    /\ w' = [w EXCEPT !.timer = "none"]
    /\ UNCHANGED <<setup, s, p, due, seen>>

-----------------------------------------------------------------------------
(* The two stream types *)

poll_next_flushing == next_top \/ next_flushed \/ next_shut
poll_next_delivering ==
    next_errors \/ next_deadlines \/ next_message \/ next_ping \/ next_close \/ next_buffered
poll_next_reading == next_io \/ next_late_shut \/ next_fed \/ next_read \/ next_nodata
sink_half ==
    \/ poll_ready \/ sink_done \/ poll_flush \/ poll_close_ended \/ poll_close
    \/ poll_close_flushed \/ poll_close_shut
    \/ \E item \in setup.items : start_send(item)
close_call == close \/ close_write \/ close_shutdown \/ close_fails \/ close_cancelled

WebSocketStream ==
    /\ ~setup.compressed
    /\ \/ poll_next_flushing \/ poll_next_delivering \/ poll_next_reading
       \/ sink_half \/ close_call \/ poll_transport_shutdown \/ process_read_buf

\* CompressedWebSocketStream repeats these methods over CompressedProtocol; where its copy
\* differs, the action above says so.
compressed_poll_next_flushing == setup.compressed /\ poll_next_flushing
compressed_poll_next_delivering == setup.compressed /\ poll_next_delivering
compressed_poll_next_reading == setup.compressed /\ poll_next_reading
compressed_sink_half == setup.compressed /\ sink_half
compressed_close_call == setup.compressed /\ close_call
CompressedWebSocketStream ==
    \/ compressed_poll_next_flushing \/ compressed_poll_next_delivering
    \/ compressed_poll_next_reading \/ compressed_sink_half \/ compressed_close_call
    \/ compressed_transport_shutdown \/ compressed_process_read_buf

Next ==
    \/ reactor_takes_stream \/ reactor_wakes
    \/ \E op \in setup.calls \ {"close_both"} : poll(op)
    \/ \E h \in Half, task \in Tasks : handover(h, task)
    \/ poll_registers \/ drain_write \/ drain_pong \/ drain_flush \/ drain_blocked \/ drain_fails
    \/ WebSocketStream \/ CompressedWebSocketStream
    \/ peer_sends \/ becomes_writable \/ breaks
    \/ \E d \in {"ping", "pong", "idle", "close"} : time_passes(d)
    \/ timer_fires

Spec == Init /\ [][Next]_vars

-----------------------------------------------------------------------------
(* Properties *)

\* The shared timer is set no later than the deadline.
Covered(deadline) ==
    \/ deadline \in {"none", w.timer}
    \/ deadline = "idle" /\ w.timer \in {"ping", "pong"}

\* A half whose last poll returned Pending, with no wake for its task under way.
Asleep(h) == w.asleep[h] # NoTask /\ w.asleep[h] \notin w.woken \cup net.taken

\* "Neither half depends on the other's task polling again": a half that returned Pending is
\* woken by the transport and by the heartbeat timer, whatever the other half, its task or a
\* concurrent wake did since.  Its own waker is in its slot, the slot counts as waiting, and
\* the proxy is registered where the half waits, or a wake that is under way will take it.
NoLostWakeup ==
    \A h \in Half :
      Asleep(h) =>
        /\ w.waker[h] = w.asleep[h] /\ w.waiting[h]
        /\ net.waking \notin {"Stream", h} =>
             IF h = "Sink" THEN "write" \in net.interest
             ELSE /\ net.interest # {}
                  /\ ~s.closing => "read" \in net.interest
                  /\ p = Idle => Covered(next_deadline(s))

\* The bytes on the transport are the frames in the order they were encoded, whoever of
\* the two halves wrote them, in whatever pieces and from whichever segment.
OutputOrder == seen.ordered /\ seen.queue = Contents(s.write_buf)

Ids(frames) == [i \in DOMAIN frames |-> frames[i].id]
Pings == {i \in DOMAIN net.script : net.script[i].kind = "ping"}

\* The application receives the peer's messages in wire order without gaps, also those
\* parsed ahead after a Ping, those before a bad frame, and those after a blocked write; and
\* a reader that sleeps on an open connection has been given all that was read: no message
\* waits in pending, in a batch or in the read buffer for more bytes to arrive.
DeliveredInOrder ==
    /\ seen.delivered = SubSeq(Ids(Complete(net.script)), 1, Len(seen.delivered))
    /\ (w.asleep["Stream"] # NoTask /\ s.state = "Open" /\ ~s.closing) =>
         seen.delivered = Ids(Complete(SubSeq(net.script, 1, net.read)))

\* The latest Ping is answered when the reader goes to sleep with nothing left to write, and
\* the application, which waits for poll_ready, gets at most one message in front of a Pong
\* that waits for the output to drain.
PingsAnswered ==
    /\ seen.overtook <= 1
    /\ (w.asleep["Stream"] # NoTask /\ p = Idle /\ s.state = "Open" /\ ~s.closing /\ ~has_data(s.write_buf)) =>
         \A i \in Pings : i \in {seen.delivered[j] : j \in DOMAIN seen.delivered} =>
            s.pending_pong >= i \/ seen.pong >= i

\* README.md, "Unified closing": one close_timeout budget starts when a local Close is queued,
\* and a silent peer produces ConnectionClosed once, then the stream ends.  For a reader that
\* waits in next() while the Close is out, the closing deadline must therefore be on the timer.
CloseTimesOut ==
    (Asleep("Stream") /\ p = Idle /\ s.closing /\ ~has_data(s.write_buf) /\ net.waking = "none")
      => w.timer = "close"
=============================================================================
