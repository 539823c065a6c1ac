------------------------------ MODULE Transport ------------------------------
(***************************************************************************)
(* The byte streams a WebSocket runs over once it is open: HTTP/2 streams  *)
(* of src/http2/stream.rs, HTTP/3 and QUIC streams of src/http3/stream.rs, *)
(* the io_uring bridge of src/io_uring/stream.rs, and the compio HTTP      *)
(* streams of src/compio.rs.                                               *)
(*                                                                         *)
(* The libraries below (h2, h3, quinn, tokio-uring) are external: what a   *)
(* pending operation comes to is an outcome o, a chunk of received data    *)
(* arrives when it likes.  A byte is a number; each call offers fresh      *)
(* bytes, so a caller that got Pending may come back with other bytes.     *)
(***************************************************************************)
EXTENDS Integers, SequencesExt

CONSTANTS MaxBytes,        \* bound: the bytes ever offered to a stream
          MaxRoom,         \* bound: the largest buffer of one call
          UringCapacity,   \* IO_BUFFER_SIZE of the write buffer
          Chunks           \* the data the peer sends, as it arrives

ASSUME TransportAssumption ==
    /\ {MaxBytes, MaxRoom, UringCapacity} \subseteq Nat \ {0}
    /\ Chunks \in Seq(Seq(Nat))

VARIABLES tx,    \* the write side of one endpoint, with what was promised and what went out
          rx     \* its read side

Outcomes == {"ok", "error", "pending"}
H2Kinds == {"h2", "http2_stream", "compio_h2"}
H3Kinds == {"h3_server", "h3_client"}
CompioH3Kinds == {"compio_h3_server", "compio_h3_client"}
Rooms == 1..MaxRoom

NoTransport == [kind |-> "none"]

tx_new(kind) ==
    [kind |-> kind, state |-> "Ready", data |-> <<>>, buffer |-> <<>>, wire |-> <<>>,
     fin |-> FALSE, cancelled |-> FALSE, accepted |-> <<>>, next |-> 1, said |-> "none",
     capacity |-> 0, requested |-> 0, capacity_needed |-> 0]
Solid(chunk) == chunk # <<>>
rx_new(kind) ==
    [kind |-> "open", queue |-> <<>>, fin |-> FALSE, buf |-> <<>>, eof |-> FALSE,
     left |-> IF kind \in H2Kinds THEN Chunks ELSE SelectSeq(Chunks, Solid),
     pending_read |-> FALSE, completed |-> <<>>, delivered |-> <<>>, said |-> "none"]

-----------------------------------------------------------------------------
(* The write side *)

\* A caller stops after an error; a cancelled write is no error to its caller.
Usable(kinds) == tx.kind \in kinds /\ tx.said # "error"
Offers(kinds, n) == Usable(kinds) /\ n \in Rooms /\ tx.next + n - 1 <= MaxBytes

Buf(n) == [i \in 1..n |-> tx.next + i - 1]
Says(t, what) == [t EXCEPT !.said = what]
Refused(t, n, what) == [t EXCEPT !.next = @ + n, !.said = what]
Wrote(t, n, w) ==
    [t EXCEPT !.next = @ + n, !.said = "wrote", !.accepted = @ \o SubSeq(Buf(n), 1, w)]
Sent(t, bytes) == [t EXCEPT !.wire = @ \o bytes]

(* HTTP/2: send_data queues what capacity allows. *)

Reserved(n) ==
    IF tx.capacity_needed > 0 \/ tx.capacity = 0
    THEN [tx EXCEPT !.requested = n, !.capacity_needed = n, !.capacity = Min({@, n})]
    ELSE tx

h2_write(n) ==
    LET t == Reserved(n)
        w == Min({t.capacity, n})
    IN /\ \/ tx' = Refused(t, n, "error")
          \/ /\ ~tx.fin /\ w = 0
             /\ tx' = Refused([t EXCEPT !.capacity_needed = n], n, "pending")
          \/ /\ ~tx.fin /\ w > 0
             /\ tx' = Sent(Wrote([t EXCEPT !.capacity = @ - w, !.requested = @ - w,
                                           !.capacity_needed = 0], n, w), SubSeq(Buf(n), 1, w))
       /\ UNCHANGED rx

\* Stream<Http2>, the stand-alone Http2Stream and CompioHttp2Stream each have this code.
h2_poll_write(n) == Offers({"h2"}, n) /\ h2_write(n)
http2_stream_poll_write(n) == Offers({"http2_stream"}, n) /\ h2_write(n)
compio_h2_write(n) == Offers({"compio_h2"}, n) /\ h2_write(n)

\* The peer opens its window: h2 assigns capacity that was reserved.
h2_assigns_capacity ==
    /\ tx.kind \in H2Kinds /\ ~tx.fin
    /\ \E c \in (tx.capacity + 1)..tx.requested : tx' = [tx EXCEPT !.capacity = c]
    /\ UNCHANGED rx

\* A flush is the library's own business; shutdown sends the empty DATA frame with
\* END_STREAM, or finishes the QUIC stream.
h2_poll_flush == Usable(H2Kinds \cup {"quic"}) /\ tx' = Says(tx, "flushed") /\ UNCHANGED rx
h2_poll_shutdown ==
    /\ Usable(H2Kinds \cup {"quic"})
    /\ tx' = IF tx.fin THEN Says(tx, "error") ELSE [tx EXCEPT !.fin = TRUE, !.said = "shut"]
    /\ UNCHANGED rx

(* A raw QUIC stream *)

quic_poll_write(n) ==
    /\ Offers({"quic"}, n)
    /\ \/ \E what \in {"error", "pending"} : tx' = Refused(tx, n, what)
       \/ ~tx.fin /\ \E w \in 1..n : tx' = Sent(Wrote(tx, n, w), SubSeq(Buf(n), 1, w))
    /\ UNCHANGED rx

(* HTTP/3: H3Writer owns the future of a write or a finish until it is done. *)

\* What polling the future of a write leaves behind, before the caller goes on.
Resolved(o) == CASE o = "ok" -> [Sent(tx, tx.data) EXCEPT !.state = "Ready", !.data = <<>>]
                 [] o = "error" -> [tx EXCEPT !.state = "Ready", !.data = <<>>, !.said = "error"]
                 [] o = "pending" -> Says(tx, "pending")
Finish(t, f, done) ==
    CASE f = "ok" -> [t EXCEPT !.state = "Finished", !.fin = TRUE, !.said = done]
      [] f = "error" -> [t EXCEPT !.state = "Ready", !.said = "error"]
      [] f = "pending" -> [t EXCEPT !.state = "Finishing", !.said = "pending"]

reports_on_completion(n, o) ==
    LET start(t) == [t EXCEPT !.state = "Writing", !.data = Buf(n)]
    IN /\ Offers(H3Kinds, n)
       /\ tx' = CASE tx.state = "Ready" -> Refused(start(tx), n, "pending")
                  [] tx.state = "Writing" /\ o = "ok" -> Wrote(Resolved(o), n, n)
                  [] tx.state = "Writing" /\ o # "ok" -> Refused(Resolved(o), n, Resolved(o).said)
                  [] tx.state = "Finishing" -> Refused(Finish(tx, o, "error"), n,
                                                       Finish(tx, o, "error").said)
                  [] tx.state = "Finished" -> Refused(tx, n, "error")
       /\ UNCHANGED rx

h3_poll_write(n, o) ==
    LET start(t) == [t EXCEPT !.state = "Writing", !.data = Buf(n)]
    IN /\ Offers(H3Kinds, n)
       /\ tx' = CASE tx.state = "Ready" -> Wrote(start(tx), n, n)
                  [] tx.state = "Writing" /\ o = "ok" -> Wrote(start(Resolved(o)), n, n)
                  [] tx.state = "Writing" /\ o # "ok" -> Refused(Resolved(o), n, Resolved(o).said)
                  [] tx.state = "Finishing" -> Refused(Finish(tx, o, "error"), n,
                                                       Finish(tx, o, "error").said)
                  [] tx.state = "Finished" -> Refused(tx, n, "error")
       /\ UNCHANGED rx

h3_poll_flush(o) ==
    /\ Usable(H3Kinds)
    /\ tx' = CASE tx.state \in {"Ready", "Finished"} -> Says(tx, "flushed")
               [] tx.state = "Writing" -> IF o = "ok" THEN Says(Resolved(o), "flushed") ELSE Resolved(o)
               [] tx.state = "Finishing" -> Finish(tx, o, "flushed")
    /\ UNCHANGED rx

\* The write is polled to its end before the finish is started; o is the outcome of the one,
\* f of the other.
h3_poll_shutdown(o, f) ==
    /\ Usable(H3Kinds)
    /\ tx' = CASE tx.state = "Writing" -> IF o = "ok" THEN Finish(Resolved(o), f, "shut") ELSE Resolved(o)
               [] tx.state \in {"Ready", "Finishing"} -> Finish(tx, f, "shut")
               [] tx.state = "Finished" -> Says(tx, "shut")
    /\ UNCHANGED rx

(* io_uring: poll_write fills a buffer, the pending operation owns it until it is written.  The *)
(* socket takes nothing after its shutdown, though the buffer still does.                        *)

poll_flush_buffer(o) ==
    LET taken == o = "ok" /\ ~tx.fin
        bytes == tx.data \o tx.buffer
        empty == [tx EXCEPT !.data = <<>>, !.buffer = <<>>]
    IN CASE bytes = <<>> -> Says(tx, "flushed")
         [] bytes # <<>> /\ taken -> Says(Sent(empty, bytes), "flushed")
         [] bytes # <<>> /\ ~taken /\ o # "pending" -> Says(empty, "error")
         [] bytes # <<>> /\ o = "pending" ->
                [tx EXCEPT !.data = bytes, !.buffer = <<>>, !.said = "pending"]

uring_poll_write(n, o) ==
    LET full == tx.data # <<>> \/ Len(tx.buffer) = UringCapacity
        t == IF full THEN poll_flush_buffer(o) ELSE Says(tx, "flushed")
        w == Min({n, UringCapacity - Len(t.buffer)})
    IN /\ Offers({"uring"}, n)
       /\ tx' = IF t.said = "flushed"
                THEN Wrote([t EXCEPT !.buffer = @ \o SubSeq(Buf(n), 1, w)], n, w)
                ELSE Refused(t, n, t.said)
       /\ UNCHANGED rx

uring_poll_flush(o) == Usable({"uring"}) /\ tx' = poll_flush_buffer(o) /\ UNCHANGED rx

uring_poll_shutdown(o) ==
    LET t == poll_flush_buffer(o)
    IN /\ Usable({"uring"})
       /\ tx' = IF t.said = "flushed" THEN [t EXCEPT !.fin = TRUE, !.said = "shut"] ELSE t
       /\ UNCHANGED rx

\* write_native and write_all_native: straight to the socket, behind what the bridge holds.
write_native(n, o) ==
    LET t == poll_flush_buffer(o)
    IN /\ Offers({"uring"}, n)
       /\ IF t.said = "flushed" /\ ~tx.fin
          THEN \E w \in 1..n : tx' = Sent(Wrote(t, n, w), SubSeq(Buf(n), 1, w))
          ELSE tx' = Refused(t, n, IF tx.fin THEN "error" ELSE t.said)
       /\ UNCHANGED rx

(* compio HTTP/3: a write borrows the stream until it ends or its guard is dropped. *)

compio_h3_begin(n) ==
    /\ tx.state = "Ready"
    /\ tx' = IF tx.cancelled \/ tx.fin THEN Refused(tx, n, IF tx.cancelled THEN "aborted" ELSE "error")
             ELSE [tx EXCEPT !.state = "Writing", !.data = Buf(n), !.next = @ + n, !.said = "pending"]
    /\ UNCHANGED rx

\* CompioHttp3ClientStream and CompioHttp3ServerStream have the same code.
compio_h3_client_write(n) == Offers({"compio_h3_client"}, n) /\ compio_h3_begin(n)
compio_h3_server_write(n) == Offers({"compio_h3_server"}, n) /\ compio_h3_begin(n)

compio_h3_written(o) ==
    /\ tx.kind \in CompioH3Kinds /\ tx.state = "Writing" /\ o # "pending"
    /\ tx' = IF o = "ok" THEN [Resolved(o) EXCEPT !.accepted = @ \o tx.data, !.said = "wrote"]
             ELSE Resolved(o)
    /\ UNCHANGED rx

\* CompioH3WriteGuard::drop: part of the data may be on the wire, so the stream is cancelled.
write_guard_drop ==
    /\ tx.kind \in CompioH3Kinds /\ tx.state = "Writing"
    /\ \E k \in 0..Len(tx.data) :
          tx' = [Sent(tx, SubSeq(tx.data, 1, k)) EXCEPT !.state = "Ready", !.cancelled = TRUE,
                                                        !.said = "cancelled"]
    /\ UNCHANGED rx

compio_h3_flush ==
    /\ Usable(CompioH3Kinds) /\ tx.state = "Ready"
    /\ tx' = Says(tx, IF tx.cancelled THEN "aborted" ELSE "flushed")
    /\ UNCHANGED rx
compio_h3_shutdown(f) ==
    /\ Usable(CompioH3Kinds) /\ tx.state = "Ready" /\ f # "pending"
    /\ tx' = CASE tx.cancelled -> Says(tx, "aborted")
               [] ~tx.cancelled /\ (f = "error" \/ tx.fin) -> Says(tx, "error")
               [] ~tx.cancelled /\ f = "ok" /\ ~tx.fin -> [tx EXCEPT !.fin = TRUE, !.said = "shut"]
    /\ UNCHANGED rx

-----------------------------------------------------------------------------
(* The read side *)

Reads(kinds) == tx.kind \in kinds /\ rx.said # "error"

\* The peer's next chunk arrives, and after the last one the end of its stream.
arrives ==
    /\ rx.kind = "open" /\ ~rx.fin
    /\ rx' = IF rx.left = <<>> THEN [rx EXCEPT !.fin = TRUE]
             ELSE [rx EXCEPT !.queue = Append(@, Head(rx.left)), !.left = Tail(@)]
    /\ UNCHANGED tx

\* As much of bytes as the caller has room for; the rest is kept.
Given(r, bytes, room) ==
    [r EXCEPT !.delivered = @ \o SubSeq(bytes, 1, Min({room, Len(bytes)})), !.said = "data",
              !.buf = SubSeq(bytes, room + 1, Len(bytes))]
Waiting == [rx EXCEPT !.said = "pending"]
Ended(r) == [r EXCEPT !.eof = TRUE, !.said = "eof"]

\* An empty DATA frame without END_STREAM is skipped.
h2_read(room) ==
    LET full == {i \in DOMAIN rx.queue : rx.queue[i] # <<>>}
        i == Min(full)
    IN /\ rx' = CASE rx.buf # <<>> -> Given(rx, rx.buf, room)
                  [] rx.buf = <<>> /\ rx.eof -> Ended(rx)
                  [] rx.buf = <<>> /\ ~rx.eof /\ full # {} ->
                        Given([rx EXCEPT !.queue = SubSeq(@, i + 1, Len(@))], rx.queue[i], room)
                  [] rx.buf = <<>> /\ ~rx.eof /\ full = {} ->
                        [IF rx.fin THEN Ended(rx) ELSE Waiting EXCEPT !.queue = <<>>]
       /\ UNCHANGED tx

h2_poll_read(room) == Reads({"h2"}) /\ h2_read(room)
http2_stream_poll_read(room) == Reads({"http2_stream"}) /\ h2_read(room)
compio_h2_read(room) == Reads({"compio_h2"}) /\ h2_read(room)

\* h3 yields no empty chunk.
h3_read(room) ==
    /\ rx' = CASE rx.buf # <<>> -> Given(rx, rx.buf, room)
               [] rx.buf = <<>> /\ rx.queue # <<>> ->
                     Given([rx EXCEPT !.queue = Tail(@)], Head(rx.queue), room)
               [] rx.buf = <<>> /\ rx.queue = <<>> ->
                     IF rx.fin THEN [rx EXCEPT !.said = "eof"] ELSE Waiting
    /\ UNCHANGED tx
h3_server_poll_read(room) == Reads({"h3_server"}) /\ h3_read(room)
h3_client_poll_read(room) == Reads({"h3_client"}) /\ h3_read(room)

\* After a cancelled write every read is refused; a pending write has the stream.
compio_h3_read(room) ==
    /\ tx.state = "Ready"
    /\ IF tx.cancelled THEN rx' = [rx EXCEPT !.said = "aborted"] /\ UNCHANGED tx ELSE h3_read(room)
compio_h3_client_read(room) == Reads({"compio_h3_client"}) /\ compio_h3_read(room)
compio_h3_server_read(room) == Reads({"compio_h3_server"}) /\ compio_h3_read(room)

\* Bytes taken from the socket itself: what does not fit stays there.
Taken(room) ==
    IF rx.queue = <<>> THEN IF rx.fin THEN [rx EXCEPT !.said = "eof"] ELSE Waiting
    ELSE LET r == Given(rx, Head(rx.queue), room)
         IN [r EXCEPT !.buf = <<>>,
                      !.queue = IF r.buf = <<>> THEN Tail(@) ELSE [@ EXCEPT ![1] = r.buf]]

\* A reset is reported once, and is the end of the stream from then on.
quic_poll_read(room) ==
    /\ Reads({"quic"})
    /\ rx' \in IF rx.eof THEN {Ended(rx)} ELSE {Taken(room), [Ended(rx) EXCEPT !.said = "error"]}
    /\ UNCHANGED tx

\* The operation poll_read submitted survives a caller that walks away.
uring_poll_read(room) ==
    /\ Reads({"uring"})
    /\ rx' = CASE rx.eof -> Ended(rx)
               [] ~rx.eof /\ rx.buf # <<>> -> Given(rx, rx.buf, room)
               [] ~rx.eof /\ rx.buf = <<>> /\ rx.completed = <<>> ->
                     [Waiting EXCEPT !.pending_read = TRUE]
               [] ~rx.eof /\ rx.buf = <<>> /\ rx.completed # <<>> ->
                     LET r == [rx EXCEPT !.pending_read = FALSE, !.completed = <<>>]
                     IN IF Head(rx.completed) = <<>> THEN Ended(r) ELSE Given(r, Head(rx.completed), room)
    /\ UNCHANGED tx

\* The kernel completes it: one chunk, or nothing at the end of the stream.
uring_completes ==
    /\ tx.kind = "uring" /\ rx.pending_read /\ rx.completed = <<>>
    /\ \/ rx.queue # <<>> /\ rx' = [rx EXCEPT !.completed = <<Head(rx.queue)>>, !.queue = Tail(@)]
       \/ rx.queue = <<>> /\ rx.fin /\ rx' = [rx EXCEPT !.completed = << <<>> >>]
    /\ UNCHANGED tx

\* read_native goes to the socket only if the bridge holds nothing.
read_native(room) ==
    /\ Reads({"uring"})
    /\ IF rx.buf # <<>> \/ rx.pending_read \/ rx.eof THEN uring_poll_read(room)
       ELSE rx' = Taken(room) /\ UNCHANGED tx

-----------------------------------------------------------------------------
\* Stream<Http3> is raw QUIC, or the server's or client's h3 request stream.
http3_poll_write(n) == quic_poll_write(n) \/ \E o \in Outcomes : h3_poll_write(n, o)
http3_poll_read(room) ==
    quic_poll_read(room) \/ h3_server_poll_read(room) \/ h3_client_poll_read(room)

poll_write(n) ==
    \/ h2_poll_write(n) \/ http2_stream_poll_write(n) \/ compio_h2_write(n) \/ http3_poll_write(n)
    \/ compio_h3_client_write(n) \/ compio_h3_server_write(n)
    \/ \E o \in Outcomes : uring_poll_write(n, o) \/ write_native(n, o)

poll_read(room) ==
    \/ h2_poll_read(room) \/ http2_stream_poll_read(room) \/ compio_h2_read(room)
    \/ http3_poll_read(room) \/ compio_h3_client_read(room) \/ compio_h3_server_read(room)
    \/ uring_poll_read(room) \/ read_native(room)

poll_flush(o) == h3_poll_flush(o) \/ uring_poll_flush(o)
poll_shutdown(o) ==
    \/ uring_poll_shutdown(o) \/ compio_h3_shutdown(o)
    \/ \E f \in Outcomes : h3_poll_shutdown(o, f)

TransportNext ==
    \/ \E n \in Rooms : poll_write(n) \/ poll_read(n)
    \/ \E o \in Outcomes : poll_flush(o) \/ poll_shutdown(o) \/ compio_h3_written(o)
    \/ h2_poll_flush \/ h2_poll_shutdown \/ compio_h3_flush
    \/ write_guard_drop \/ h2_assigns_capacity \/ arrives \/ uring_completes

-----------------------------------------------------------------------------
(* What is in order *)

\* What the stream owes its caller: all it accepted, and a compio write in progress.
Promised == IF tx.kind \in CompioH3Kinds THEN tx.accepted \o tx.data ELSE tx.accepted
Broken == tx.said = "error" \/ tx.cancelled

WritesExact ==
    /\ IsPrefix(tx.wire, Promised)
    /\ ~Broken => tx.wire \o tx.data \o tx.buffer = Promised
    /\ tx.said \in {"flushed", "shut"} => tx.wire = Promised
    /\ tx.cancelled => tx.said \in {"cancelled", "aborted"}

ReadsExact ==
    /\ rx.delivered \o rx.buf \o FlattenSeq(rx.completed \o rx.queue \o rx.left) = FlattenSeq(Chunks)
    /\ rx.said = "eof" => rx.delivered = FlattenSeq(Chunks)

\* Whatever the caller does after a Pending (comes back with other bytes, flushes, shuts
\* down, reads natively), and however operations end, the bytes a stream reported as written
\* go out once and in order, a flush or shutdown that succeeds has sent them all, nothing
\* succeeds after a cancelled compio HTTP/3 write; and the bytes of the peer are delivered
\* once and in order, with an end only after the last (poll_write, poll_flush, poll_shutdown,
\* poll_read and the native calls).
TransportExact == tx.kind # "none" => WritesExact /\ ReadsExact
=============================================================================
