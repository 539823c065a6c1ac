---------------------------- MODULE CompioStream ----------------------------
(***************************************************************************)
(* CompioWebSocketStream and CompioCompressedWebSocketStream of            *)
(* src/compio.rs: one owner calls next, send, close and flush, each an     *)
(* async function over completion I/O.  An action runs from one await to   *)
(* the next.  A write whose future is dropped may have put part of a frame *)
(* on the wire, and a read whose future is dropped is gone.  Time is the   *)
(* set of deadlines that have passed (module Heartbeat has the             *)
(* arithmetic).  Module CompioSplit continues where split() leaves off.    *)
(***************************************************************************)
EXTENDS Naturals, Sequences, Filtering

CONSTANT Setups   \* the situations examined, see SetupType

Kinds == {"data", "frag", "ping", "pong", "close", "bad"}
SetupType ==
    [compressed : BOOLEAN,
     immediate : BOOLEAN,    \* with_immediate_write_shutdown
     beats : BOOLEAN,        \* automatic Pings
     idle : BOOLEAN,         \* an idle timeout
     stubborn : BOOLEAN,     \* the transport's reads ignore cancellation
     script : Seq(Kinds),    \* what the peer sends
     leftover : Nat,         \* frames that came with the handshake
     items : SUBSET {"data", "close", "flush"},   \* what the application sends
     sends : Nat,            \* bound: how often it does
     pings : Nat,            \* bound: automatic Pings
     faults : BOOLEAN,       \* the transport may end or break
     splits : BOOLEAN,       \* the application splits the stream
     drops : BOOLEAN]        \* bound: futures and handles may be dropped

ASSUME CompioAssumption ==
    /\ Setups \subseteq SetupType
    /\ \A s \in Setups : s.leftover <= Len(s.script)

VARIABLES
    setup,
    u,      \* the unified stream and the call in progress
    net,    \* the transport and the wire
    due,    \* deadlines that have passed
    seen    \* history: what the application was given; cut: it dropped a call half way
            \* through a frame

NoFrame == [kind |-> "none", id |-> 0]
Close0 == [kind |-> "close", id |-> 0]

StreamInit ==
    /\ setup \in Setups
    /\ net = [script |-> [i \in DOMAIN setup.script |-> [kind |-> setup.script[i], id |-> i]],
              arrived |-> setup.leftover, read |-> setup.leftover,
              input |-> "open", output |-> "free", wire |-> <<>>, partial |-> FALSE, torn |-> FALSE]
    /\ u = [phase |-> "unified", pc |-> "idle", state |-> "Open", closing |-> FALSE,
            post_expiry |-> FALSE, batch_has_close |-> FALSE, shutdown |-> FALSE,
            pending |-> <<>>, parse_error |-> FALSE,
            read_buf |-> SubSeq(net.script, 1, setup.leftover), write_buf |-> <<>>,
            hb |-> IF setup.beats \/ setup.idle THEN "waiting" ELSE "off",
            bound |-> "none", then |-> "none", msg |-> NoFrame, pings |-> 0]
    /\ due = {}
    /\ seen = [delivered |-> <<>>, ended |-> "no", late_reads |-> 0, sends |-> 0, late_pong |-> FALSE, discarded |-> FALSE,
               cut |-> FALSE, split_at |-> 0, committed |-> <<>>]

-----------------------------------------------------------------------------
(* Heartbeat deadlines *)

next_hard_deadline(hb, passed) ==
    CASE hb = "off" -> "none"
      [] hb = "sent" -> IF "idle" \in passed /\ "pong" \notin passed THEN "idle" ELSE "pong"
      [] OTHER -> IF setup.idle THEN "idle" ELSE "none"
next_deadline(hb, passed) ==
    IF hb = "waiting" /\ setup.beats /\ ~("idle" \in passed /\ "ping" \notin passed) THEN "ping"
    ELSE next_hard_deadline(hb, passed)

Inbound(hb, pong) ==
    CASE hb = "sent" /\ pong -> "waiting" [] hb = "queued" /\ pong -> "acknowledged" [] OTHER -> hb
InboundDue(hb, passed, pong) ==
    IF hb = "off" THEN passed
    ELSE passed \ ({"ping", "idle"} \cup IF pong /\ hb = "sent" THEN {"pong"} ELSE {})
ping_flushed(hb) == CASE hb = "queued" -> "sent" [] hb = "acknowledged" -> "waiting" [] OTHER -> hb

\* CompioTerminalCause and flush_control_until: the error of a hard deadline.
TimeoutError(deadline) == IF deadline = "idle" THEN "IdleTimeout" ELSE "HeartbeatTimeout"

-----------------------------------------------------------------------------
(* Owned writes *)

\* A new write operation; one that starts behind half a frame tears the stream.
Begun(n, buf) == [n EXCEPT !.torn = @ \/ (n.partial /\ buf # <<>>)]
\* write_all and flush complete.
Written(buf) == [net EXCEPT !.wire = @ \o buf, !.partial = @ /\ buf = <<>>]
\* The first frame is half out when the transport fills.
HalfWritten == [net EXCEPT !.partial = TRUE, !.output = "full"]

-----------------------------------------------------------------------------
(* The pieces of an async call *)

At(pc) == u.phase = "unified" /\ u.pc = pc
Return(st) == u' = [st EXCEPT !.pc = "idle", !.bound = "none", !.then = "none", !.msg = NoFrame]
Delivered(frame) == seen' = [seen EXCEPT !.delivered = Append(@, frame.id)]
Ended(result) == seen' = [seen EXCEPT !.ended = result]

begin_closing(st) == [st EXCEPT !.hb = "off", !.closing = TRUE]
Expired == u.closing /\ "close" \in due

\* Every flush awaits flush_bytes under a bound: none, the closing budget, or a hard deadline.
Flush(n, st, bound, then) ==
    /\ u' = [st EXCEPT !.pc = "flush", !.bound = bound, !.then = then]
    /\ net' = Begun(n, st.write_buf)

\* flush: the closing budget once there is one.
flush_bound(st) == IF st.closing THEN "close" ELSE "none"
\* flush_control: the existing hard deadline, else as flush.
flush_control_bound(st) ==
    IF next_hard_deadline(st.hb, due) # "none" THEN next_hard_deadline(st.hb, due) ELSE flush_bound(st)

-----------------------------------------------------------------------------
(* next *)

call_next ==
    /\ At("idle") /\ seen.ended = "no"
    /\ u' = [u EXCEPT !.pc = "top"]
    /\ UNCHANGED <<setup, net, due, seen>>

next_closed ==
    /\ At("top") /\ u.state = "Closed"
    /\ Return(u) /\ Ended("end")
    /\ UNCHANGED <<setup, net, due>>

Accepting == At("top") /\ u.state # "Closed" /\ u.pending # <<>>
Popped == [u EXCEPT !.pending = Tail(@), !.hb = Inbound(@, Head(u.pending).kind = "pong")]
Heard == due' = InboundDue(u.hb, due, Head(u.pending).kind = "pong")

pong_despite_close(st) == ~st.shutdown /\ ~Expired

\* No Pong after END_STREAM, once Close is accepted, or after the closing budget.
may_pong(st) == ~st.shutdown /\ ~st.batch_has_close /\ ~Expired

\* handle_incoming_message for everything but Close.
next_message ==
    /\ Accepting /\ Head(u.pending).kind # "close" /\ Heard
    /\ LET msg == Head(u.pending)
       IN IF msg.kind = "ping" /\ may_pong(Popped)
          THEN /\ Flush(net, [Popped EXCEPT !.write_buf = Append(@, [kind |-> "pong", id |-> msg.id]),
                                            !.msg = msg],
                        flush_control_bound(Popped), "pong")
               /\ seen' = [seen EXCEPT !.late_pong = @ \/ "close" \in due
                             \/ \E i \in DOMAIN u.pending : u.pending[i].kind = "close"]
          ELSE Return(Popped) /\ Delivered(msg) /\ UNCHANGED net
    /\ UNCHANGED setup

published_after_cleanup(st) == st

\* The terminal state is published before cleanup is awaited.
close_published(st) == [st EXCEPT !.state = "Closed"]

\* handle_incoming_message for Close.
next_close ==
    /\ Accepting /\ Head(u.pending).kind = "close" /\ Heard
    /\ LET msg == Head(u.pending)
           st == [begin_closing(Popped) EXCEPT
                    !.pending = <<>>, !.parse_error = FALSE, !.read_buf = <<>>,
                    !.write_buf = IF u.state \in {"Open", "ReadErrorPending"}
                                  THEN Append(@, [kind |-> "close", id |-> msg.id]) ELSE @,
                    !.msg = msg]
       IN IF u.shutdown THEN Return(close_published(st)) /\ Delivered(msg) /\ UNCHANGED net
          ELSE Flush(net, close_published(st), "close", "finish") /\ UNCHANGED seen
    /\ UNCHANGED setup

Waiting == At("top") /\ u.state # "Closed" /\ u.pending = <<>>

next_error ==
    /\ Waiting /\ u.parse_error
    /\ Return([u EXCEPT !.parse_error = FALSE, !.hb = "off", !.state = "Closed"]) /\ Ended("error")
    /\ UNCHANGED <<setup, net, due>>

\* handle_deadline, also from the read.
handle_deadline(n, deadline, st) ==
    IF deadline = "ping"
    THEN /\ Flush(n, [st EXCEPT !.write_buf = Append(@, [kind |-> "autoping", id |-> 0]),
                             !.hb = "queued", !.pings = @ + 1],
                  flush_control_bound([st EXCEPT !.hb = "queued"]), "ping")
         /\ due' = due \ {"ping"}
    ELSE /\ Flush(n, [begin_closing(st) EXCEPT !.state = "CloseSent",
                                            !.write_buf = Append(@, Close0), !.msg = NoFrame],
                  "close", TimeoutError(deadline))
         /\ UNCHANGED due

\* An expired deadline wins over bytes that were not parsed yet.
next_deadline_passed ==
    /\ Waiting /\ ~u.parse_error /\ next_deadline(u.hb, due) \in due
    /\ handle_deadline(net, next_deadline(u.hb, due), u)
    /\ UNCHANGED <<setup, seen>>

Parsing == Waiting /\ ~u.parse_error /\ next_deadline(u.hb, due) \notin due

Complete(frames) == Filter(frames, [kind : Kinds \ {"frag", "bad"}, id : Nat])
BadAt(frames) == {i \in DOMAIN frames : frames[i].kind = "bad"}
UpTo(frames) ==
    IF BadAt(frames) = {} THEN frames
    ELSE SubSeq(frames, 1, (CHOOSE i \in BadAt(frames) : \A j \in BadAt(frames) : i <= j) - 1)
HasClose(frames) == \E i \in DOMAIN frames : frames[i].kind = "close"
Fragments(frames) == \E i \in DOMAIN frames : frames[i].kind = "frag"

\* process_read_buf: everything that was read, up to the first bad frame.
process_read_buf ==
    /\ Parsing /\ u.read_buf # <<>>
    /\ LET batch == Complete(UpTo(u.read_buf))
           bad == BadAt(u.read_buf) # {}
       IN /\ u' = [u EXCEPT !.pending = batch, !.read_buf = <<>>, !.batch_has_close = HasClose(batch),
                            !.parse_error = bad,
                            !.state = IF bad /\ @ = "Open" THEN "ReadErrorPending" ELSE @]
          /\ due' = IF Fragments(UpTo(u.read_buf)) THEN InboundDue(u.hb, due, FALSE) ELSE due
    /\ UNCHANGED <<setup, net, seen>>

\* The budget and its one late read are used up: shut down once without waiting.
next_expired ==
    /\ Parsing /\ u.read_buf = <<>> /\ Expired /\ u.post_expiry
    /\ \E done \in {FALSE, net.output = "free" /\ u.write_buf = <<>>} :
         Return([u EXCEPT !.state = "Closed", !.shutdown = @ \/ done])
    /\ Ended("error")
    /\ UNCHANGED <<setup, net, due>>

late_read_taken(st) == [st EXCEPT !.post_expiry = @ \/ Expired]

next_read ==
    /\ Parsing /\ u.read_buf = <<>> /\ ~(Expired /\ u.post_expiry)
    /\ u' = [late_read_taken(u) EXCEPT !.pc = "read",
               !.bound = IF u.closing THEN "close" ELSE next_deadline(u.hb, due)]
    /\ seen' = [seen EXCEPT !.late_reads = @ + (IF Expired THEN 1 ELSE 0)]
    /\ UNCHANGED <<setup, net, due>>

Ready == net.arrived > net.read \/ net.input # "open"

\* What a completed read leaves; end of input ends the stream.
ReadResult(st) ==
    IF net.arrived > net.read
    THEN /\ \E n \in 1 .. net.arrived - net.read :
              /\ u' = [st EXCEPT !.read_buf = @ \o SubSeq(net.script, net.read + 1, net.read + n),
                                 !.pc = "top", !.bound = "none"]
              /\ net' = [net EXCEPT !.read = @ + n]
         /\ UNCHANGED seen
    ELSE /\ Return([st EXCEPT !.hb = "off", !.state = "Closed"])
         /\ Ended(IF net.input = "eof" THEN "end" ELSE "error")
         /\ UNCHANGED net

read_completes ==
    /\ At("read") /\ Ready
    /\ ReadResult(u)
    /\ UNCHANGED <<setup, due>>

\* The closing budget, or read_more_until with a hard deadline: the owned read is abandoned.
read_abandoned ==
    /\ At("read") /\ ~Ready /\ u.bound \in due \ {"ping"}
    /\ IF u.bound = "close"
       THEN /\ Return([u EXCEPT !.state = "Closed"]) /\ Ended("error")
            /\ UNCHANGED <<net, due>>
       ELSE handle_deadline(net, u.bound, u) /\ UNCHANGED seen
    /\ UNCHANGED setup

\* Before a Ping the read is cancelled and its buffer awaited.
read_cancelled ==
    /\ At("read") /\ ~Ready /\ u.bound = "ping" /\ "ping" \in due
    /\ u' = [u EXCEPT !.pc = "recover",
                      !.bound = IF setup.idle THEN "idle" ELSE "recovery"]
    /\ UNCHANGED <<setup, net, due, seen>>

\* The buffer is back, empty or with bytes that came at the deadline.
read_recovered ==
    /\ At("recover") /\ u.bound \notin due /\ (~setup.stubborn \/ net.arrived > net.read)
    /\ handle_deadline([net EXCEPT !.read = net.arrived], "ping",
                       [u EXCEPT !.read_buf = SubSeq(net.script, net.read + 1, net.arrived)])
    /\ UNCHANGED <<setup, seen>>

\* "A custom reader must not postpone a hard timeout indefinitely."
recovery_expires ==
    /\ At("recover") /\ u.bound \in due
    /\ handle_deadline(net, u.bound, u)
    /\ UNCHANGED <<setup, seen>>

-----------------------------------------------------------------------------
(* flush_bytes under a bound, and what follows it *)

flush_part ==
    /\ At("flush") /\ net.output = "free" /\ u.write_buf # <<>> /\ ~net.partial
    /\ net' = HalfWritten
    /\ UNCHANGED <<setup, u, due, seen>>

flush_completes ==
    /\ At("flush") /\ net.output = "free"
    /\ LET st == [u EXCEPT !.write_buf = <<>>]
       IN \/ /\ u.then = "pong" /\ Return(st) /\ Delivered(u.msg)
          \/ /\ u.then = "ping" /\ UNCHANGED seen
             /\ u' = [st EXCEPT !.hb = ping_flushed(@), !.pc = "top", !.bound = "none", !.then = "none"]
          \/ u.then = "send" /\ Return(st) /\ UNCHANGED seen
          \/ /\ u.then \in {"close", "finish", "IdleTimeout", "HeartbeatTimeout"} /\ UNCHANGED seen
             /\ IF u.then = "close" /\ ~setup.immediate THEN Return(st)
                ELSE u' = [st EXCEPT !.pc = "shutdown"]
    /\ net' = Written(u.write_buf)
    /\ UNCHANGED <<setup, due>>

\* A failed or timed out flush is terminal: the frame may be half written.
failed_flush(st) == [st EXCEPT !.state = "Closed", !.hb = "off", !.write_buf = <<>>]

\* compio_finish_close is best effort: Close is delivered and a timeout keeps its cause.
FinishResult(st) ==
    /\ Return([st EXCEPT !.state = "Closed"])
    /\ IF u.then = "finish" THEN Delivered(u.msg) ELSE Ended(u.then)

FlushStopped == net.output = "error" \/ (net.output = "full" /\ u.bound \in due)

flush_stops ==
    /\ At("flush") /\ FlushStopped
    /\ IF u.then \in {"finish", "IdleTimeout", "HeartbeatTimeout"}
       THEN FinishResult([u EXCEPT !.write_buf = <<>>])
       ELSE /\ Return(failed_flush(u))
            /\ IF u.then \in {"pong", "ping"}
               THEN seen' = [seen EXCEPT !.discarded = @ \/ u.then = "pong",
                               !.ended = IF net.output = "error" \/ u.bound = "close" THEN "error"
                                         ELSE TimeoutError(u.bound)]
               ELSE UNCHANGED seen
    /\ UNCHANGED <<setup, net, due>>

\* writer.shutdown under the closing budget.
shutdown_ends ==
    /\ At("shutdown") /\ (net.output # "full" \/ "close" \in due)
    /\ LET done == net.output = "free"
       IN IF u.then = "close"
          THEN Return([u EXCEPT !.shutdown = done, !.state = IF done THEN @ ELSE "Closed"]) /\ UNCHANGED seen
          ELSE FinishResult([u EXCEPT !.shutdown = done])
    /\ UNCHANGED <<setup, net, due>>

\* How far the frames got when their future is dropped: as far as they are, or out.
DroppedWrites == {net} \cup IF net.output = "free" THEN {Written(u.write_buf)} ELSE {}

\* The application drops next(), send(), close() or flush() while it writes.  flush_bytes had
\* taken the buffer, and the state stays what it was: Closed in the cleanup after the peer's
\* Close ("dropping next() during owned I/O cannot resume a partially written frame"), and
\* otherwise one in which the stream writes on.
drop_call ==
    /\ setup.drops /\ u.phase = "unified" /\ u.pc \in {"flush", "shutdown"}
    /\ Return([u EXCEPT !.write_buf = <<>>])
    /\ net' \in DroppedWrites
    /\ seen' = [seen EXCEPT !.discarded = @ \/ u.then = "pong",
                            !.cut = @ \/ (u.then # "finish" /\ net'.partial)]
    /\ UNCHANGED <<setup, due>>

-----------------------------------------------------------------------------
(* send, close, flush *)

send(item) ==
    /\ At("idle") /\ seen.sends < setup.sends /\ item \in setup.items
    /\ IF u.state = "Closed" \/ (item # "flush" /\ u.state # "Open") THEN UNCHANGED <<u, net>>
       ELSE LET msg == [kind |-> item, id |-> seen.sends + 1]
                st == IF item = "flush" THEN u ELSE [u EXCEPT !.write_buf = Append(@, msg)]
            IN IF item = "close"
               THEN Flush(net, [begin_closing(st) EXCEPT !.state = "CloseSent"], "close", "close")
               ELSE Flush(net, st, flush_bound(u), "send")
    /\ seen' = [seen EXCEPT !.sends = @ + 1]
    /\ UNCHANGED <<setup, due>>

-----------------------------------------------------------------------------
(* The transport and the clock (external) *)

\* The thread is between awaits of the unified stream.
StreamFree == u.pc # "top"

peer_sends ==
    /\ StreamFree /\ net.arrived < Len(net.script) /\ net.input = "open"
    /\ net' = [net EXCEPT !.arrived = @ + 1]
    /\ UNCHANGED <<setup, u, due, seen>>

fills ==
    /\ StreamFree /\ net.output = "free" /\ net' = [net EXCEPT !.output = "full"]
    /\ UNCHANGED <<setup, u, due, seen>>
frees ==
    /\ StreamFree /\ net.output = "full" /\ net' = [net EXCEPT !.output = "free"]
    /\ UNCHANGED <<setup, u, due, seen>>

\* The peer ends its side, or the connection breaks.
ends ==
    /\ setup.faults /\ StreamFree /\ net.input = "open"
    /\ \E broken \in BOOLEAN :
         net' = [net EXCEPT !.input = IF broken THEN "error" ELSE "eof",
                            !.output = IF broken THEN "error" ELSE @]
    /\ UNCHANGED <<setup, u, due, seen>>

time_passes(d) ==
    /\ u.phase = "unified" /\ StreamFree /\ d \notin due
    /\ \/ d = "close" /\ u.closing
       \/ d = "ping" /\ u.hb = "waiting" /\ setup.beats /\ u.pings < setup.pings
       \/ d = "pong" /\ u.hb = "sent"
       \/ d = "idle" /\ u.hb # "off" /\ setup.idle
       \/ d = "recovery" /\ u.pc = "recover" /\ ~setup.idle
    /\ due' = due \cup {d}
    /\ UNCHANGED <<setup, u, net, seen>>
=============================================================================
