------------------------------ MODULE Protocol ------------------------------
(***************************************************************************)
(* The receive path of one endpoint, src/protocol.rs: frames are parsed    *)
(* from the bytes read so far, messages reassembled, text validated as it  *)
(* arrives, Close frames drive the close state.  The three kinds are       *)
(* Protocol (typed and raw calls may alternate), CompressedProtocol, and   *)
(* the CompressedReaderProtocol it splits into.                            *)
(***************************************************************************)
EXTENDS FrameParser, FiniteSets

CONSTANTS Scripts,         \* what a peer may send: sequences of [opcode, fin, rsv1, payload, fault]
          Expands,         \* what a compressed payload may inflate to
          MaxFrame,        \* max_frame_size
          SplitMaxFrame,   \* the lower limit given to the compressed split
          MaxMessage,      \* max_message_size
          Setups           \* the endpoints examined: [kind, server, validate]

ASSUME ProtocolAssumption == MaxFrame \in Nat /\ MaxMessage \in Nat

VARIABLES
    kind,      \* "plain", "compressed" or "reader"
    sent,      \* the peer's frames that are not accepted yet, oldest first
    net,       \* their bytes not yet read
    buf,       \* the read buffer
    parser,    \* FrameParser
    proto,     \* the fields of Protocol
    writer,    \* after Protocol::split: the writer's close state
    call,      \* none, ready (bytes were read), typed, next, raw (a call in progress), failed
    last,      \* the API of the last finished call, or why it failed
    out,       \* the message the call just accepted
    truth      \* reference: the fragmented message so far and what was accepted of Close

vars == <<kind, sent, net, buf, parser, proto, writer, call, last, out, truth>>

NoMessage == [opcode |-> "None", payload |-> <<>>, api |-> "none"]
NoClose == <<0>>        \* pending_close = None; a payload is at most one reason

Key == [i \in 1 .. KeyLen |-> i]

\* The bytes of a frame, possibly with one rule of the header broken.
Wire(frame, masked) ==
    LET key == IF masked # (frame.fault = "mask") THEN Key ELSE <<>>
        cells == encode_frame(frame.opcode, frame.payload, frame.fin, key, frame.rsv1)
    IN CASE frame.fault = "rsv" -> [cells EXCEPT ![1].rsv23 = TRUE]
         [] frame.fault = "length" ->
              <<cells[1], [cells[2] EXCEPT !.len = Length16], Len(frame.payload)>> \o Drop(cells, 2)
         [] OTHER -> cells

\* A whole script; how the bytes are cut into reads is left to the transport.
Bytes(script, masked) ==
    LET upto[i \in 0 .. Len(script)] ==
          IF i = 0 THEN <<>> ELSE upto[i - 1] \o Wire(script[i], masked)
    IN upto[Len(script)]

Init ==
    /\ \E e \in Setups, script \in Scripts :
         /\ sent = script /\ net = Bytes(script, e.server)
         /\ kind = e.kind
         /\ parser = new(MaxFrame, e.server, e.kind = "compressed")
         /\ proto = [state |-> "Open", fragment_opcode |-> "None", fragment_buf |-> <<>>,
                     validated |-> 0, utf8 |-> <<>>, partial_checked |-> 0,
                     pending_close |-> NoClose, compressed |-> FALSE, validate |-> e.validate]
    /\ buf = <<>>
    /\ writer = [split |-> FALSE, state |-> "Open", pending_close |-> NoClose]
    /\ call = "none" /\ last = "none" /\ out = NoMessage
    /\ truth = [opcode |-> "None", bytes |-> <<>>, rsv1 |-> FALSE, closed |-> NoClose, closeSent |-> FALSE,
                answer |-> NoClose]

-----------------------------------------------------------------------------
(* One frame.  A handler returns the new protocol and a message, a fragment or an error. *)

Outcome(s, tag, opcode, payload) ==
    [s |-> s, tag |-> tag, message |-> [opcode |-> opcode, payload |-> payload]]
Deliver(s, opcode, payload) == Outcome(s, "message", opcode, payload)
Fragment(s) == Outcome(s, "fragment", "None", <<>>)
Error(s) == Outcome(s, "error", "None", <<>>)
BadUtf8(s) == Outcome(s, "utf8", "None", <<>>)

complete_data_skips_finish(s, opcode, payload, prevalidated) ==
    LET u == IF prevalidated = 0 THEN [ok |-> validate_utf8(payload), carry |-> s.utf8]
             ELSE push(s.utf8, Drop(payload, prevalidated))
    IN IF s.fragment_opcode # "None" \/ Len(payload) > MaxMessage THEN Error(s)
       ELSE IF opcode # "Text" \/ ~s.validate THEN Deliver(s, opcode, payload)
       ELSE IF ~u.ok THEN BadUtf8(s)
       ELSE Deliver([s EXCEPT !.utf8 = u.carry], opcode, payload)

handle_complete_data(s, opcode, payload, prevalidated) ==
    LET u == IF prevalidated = 0 THEN [ok |-> validate_utf8(payload), carry |-> s.utf8]
             ELSE push(s.utf8, Drop(payload, prevalidated))
    IN IF s.fragment_opcode # "None" \/ Len(payload) > MaxMessage THEN Error(s)
       ELSE IF opcode # "Text" \/ ~s.validate THEN Deliver(s, opcode, payload)
       ELSE IF ~u.ok \/ (prevalidated # 0 /\ u.carry # <<>>) THEN BadUtf8(s)
       ELSE Deliver([s EXCEPT !.utf8 = u.carry], opcode, payload)

start_raw_fragment(s, opcode, payload) ==
    IF Len(payload) > MaxMessage THEN Error(s)
    ELSE Fragment([s EXCEPT !.fragment_opcode = opcode, !.fragment_buf = payload, !.validated = 0])

start_fragment(s, opcode, payload, prevalidated) ==
    LET u == push(IF prevalidated = 0 THEN <<>> ELSE s.utf8, Drop(payload, prevalidated))
    IN IF opcode # "Text" \/ Len(payload) > MaxMessage THEN start_raw_fragment(s, opcode, payload)
       ELSE IF ~u.ok THEN BadUtf8(s)
       ELSE Fragment([s EXCEPT !.fragment_opcode = opcode, !.fragment_buf = payload,
                               !.utf8 = u.carry, !.validated = Len(payload) - Len(u.carry)])

\* handle_raw_text and handle_raw_binary.
handle_raw_data(s, f, opcode) ==
    IF s.fragment_opcode # "None" THEN Error(s)
    ELSE IF ~f.fin THEN start_raw_fragment(s, opcode, f.payload)
    ELSE IF Len(f.payload) > MaxMessage THEN Error(s)
    ELSE Deliver(s, opcode, f.payload)

\* handle_text and handle_binary.
handle_data(s, f, opcode, prevalidated) ==
    IF f.fin THEN handle_complete_data(s, opcode, f.payload, prevalidated)
    ELSE IF opcode = "Text" /\ ~s.validate THEN handle_raw_data(s, f, opcode)
    ELSE IF s.fragment_opcode # "None" THEN Error(s)
    ELSE start_fragment(s, opcode, f.payload, prevalidated)

Completed(s) == [s EXCEPT !.fragment_opcode = "None", !.fragment_buf = <<>>]

\* handle_raw_continuation and complete_raw_fragment.
handle_raw_continuation(s, f) ==
    LET all == s.fragment_buf \o f.payload
    IN IF s.fragment_opcode = "None" \/ Len(all) > MaxMessage THEN Error(s)
       ELSE IF f.fin THEN Deliver(Completed(s), s.fragment_opcode, all)
       ELSE Fragment([s EXCEPT !.fragment_buf = all])

\* handle_continuation and complete_fragment.
handle_continuation(s, f, prevalidated) ==
    LET all == s.fragment_buf \o f.payload
        seed == IF prevalidated # 0 THEN [ok |-> TRUE, carry |-> s.utf8]
                ELSE resume(s.utf8, Drop(s.fragment_buf, s.validated))
        u == push(seed.carry, Drop(f.payload, prevalidated))
    IN IF ~s.validate \/ s.fragment_opcode # "Text" \/ Len(all) > MaxMessage
       THEN handle_raw_continuation(s, f)
       ELSE IF ~seed.ok \/ ~u.ok \/ (f.fin /\ u.carry # <<>>) THEN BadUtf8(s)
       ELSE IF f.fin THEN Deliver([Completed(s) EXCEPT !.utf8 = u.carry], "Text", all)
       ELSE Fragment([s EXCEPT !.fragment_buf = all, !.utf8 = u.carry,
                               !.validated = Len(all) - Len(u.carry)])

\* The payload of a Close: none, or a valid code with UTF-8 text.
IsValidCode(code) == code \in (1000 .. 1003) \cup (1007 .. 1014) \cup (3000 .. 4999)
ValidClose(payload) ==
    \/ payload = <<>>
    \/ /\ Len(payload) >= 2
       /\ IsValidCode(payload[1] * 256 + payload[2])
       /\ validate_utf8(Drop(payload, 2))

close_overwrites_reason(s, f) ==
    IF ~ValidClose(f.payload) THEN Error(s)
    ELSE Deliver([s EXCEPT !.state = IF @ = "Open" THEN "CloseReceived"
                                     ELSE IF @ = "CloseSent" THEN "Closed" ELSE @,
                           !.pending_close = f.payload], "Close", f.payload)

handle_close(s, f) ==
    IF ~ValidClose(f.payload) THEN Error(s)
    ELSE Deliver([s EXCEPT !.state = IF @ = "Open" THEN "CloseReceived"
                                     ELSE IF @ = "CloseSent" THEN "Closed" ELSE @,
                           !.pending_close = IF s.state = "Open" THEN f.payload ELSE @],
                 "Close", f.payload)

\* Protocol::handle_frame.
handle_frame(s, f, prevalidated) ==
    CASE f.opcode = "Continuation" -> handle_continuation(s, f, prevalidated)
      [] f.opcode = "Text" -> handle_data(s, f, "Text", prevalidated)
      [] f.opcode = "Binary" -> handle_data(s, f, "Binary", 0)
      [] f.opcode = "Close" -> handle_close(s, f)
      [] OTHER -> Deliver(s, f.opcode, f.payload)

handle_raw_frame(s, f) ==
    CASE f.opcode = "Continuation" -> handle_raw_continuation(s, f)
      [] f.opcode \in {"Text", "Binary"} -> handle_raw_data(s, f, f.opcode)
      [] f.opcode = "Close" -> handle_close(s, f)
      [] OTHER -> Deliver(s, f.opcode, f.payload)

-----------------------------------------------------------------------------
(* CompressedProtocol and CompressedReaderProtocol *)

\* A whole message: inflated to `data` (external), or as it is; validated at the end.
Finish(s, opcode, payload, compressed, data) ==
    LET content == IF compressed THEN data ELSE payload
    IN IF Len(content) > MaxMessage THEN Error(s)
       ELSE IF opcode = "Text" /\ s.validate /\ ~validate_utf8(content) THEN BadUtf8(s)
       ELSE Deliver(s, opcode, content)

\* CompressedProtocol::handle_text and handle_binary: an uncompressed first fragment of a
\* text message is validated at once.
compressed_data(s, f, data) ==
    IF s.fragment_opcode # "None" THEN Error(s)
    ELSE IF f.fin THEN Finish(s, f.opcode, f.payload, f.rsv1, data)
    ELSE LET started == [s EXCEPT !.compressed = f.rsv1]
         IN IF f.rsv1 \/ ~s.validate THEN start_raw_fragment(started, f.opcode, f.payload)
            ELSE start_fragment(started, f.opcode, f.payload, 0)

\* CompressedReaderProtocol::handle_text, handle_binary and start_fragment.
reader_data(s, f, data) ==
    IF s.fragment_opcode # "None" THEN Error(s)
    ELSE IF f.fin THEN Finish(s, f.opcode, f.payload, f.rsv1, data)
    ELSE start_raw_fragment([s EXCEPT !.compressed = f.rsv1], f.opcode, f.payload)

\* CompressedProtocol::handle_continuation and complete_fragment.
compressed_continuation(s, f, data) ==
    LET all == s.fragment_buf \o f.payload
    IN IF s.fragment_opcode = "None" \/ Len(all) > MaxMessage THEN Error(s)
       ELSE IF ~f.fin THEN Fragment([s EXCEPT !.fragment_buf = all])
       ELSE Finish([Completed(s) EXCEPT !.compressed = FALSE],
                   s.fragment_opcode, all, s.compressed, data)

\* CompressedReaderProtocol::handle_continuation and complete_fragment: the same.
reader_continuation(s, f, data) == compressed_continuation(s, f, data)

\* CompressedReaderProtocol::handle_close keeps no close state.
reader_close(s, f) ==
    IF ~ValidClose(f.payload) THEN Error(s) ELSE Deliver(s, "Close", f.payload)

compressed_handle_frame(s, f, data) ==
    CASE f.opcode = "Continuation" -> compressed_continuation(s, f, data)
      [] f.opcode \in {"Text", "Binary"} -> compressed_data(s, f, data)
      [] f.opcode = "Close" -> handle_close(s, f)
      [] OTHER -> Deliver(s, f.opcode, f.payload)

reader_handle_frame(s, f, data) ==
    CASE f.opcode = "Continuation" -> reader_continuation(s, f, data)
      [] f.opcode \in {"Text", "Binary"} -> reader_data(s, f, data)
      [] f.opcode = "Close" -> reader_close(s, f)
      [] OTHER -> Deliver(s, f.opcode, f.payload)

-----------------------------------------------------------------------------
(* The reads *)

\* The stream appends what one transport read returned, then processes it.
read(n) ==
    /\ call = "none" /\ n <= Len(net)
    /\ buf' = buf \o Take(net, n)
    /\ net' = Drop(net, n)
    /\ call' = "ready" /\ last' = "none" /\ out' = NoMessage
    /\ UNCHANGED <<kind, sent, parser, proto, writer, truth>>

-----------------------------------------------------------------------------
(* The calls: process_into, process_next_with_activity, process_raw_into *)

process(api) ==
    /\ call = "ready" \/ (call = "none" /\ last = "next")
    /\ buf # <<>>
    /\ api \in IF kind = "plain" THEN {"typed", "next", "raw"} ELSE {"typed"}
    /\ call' = api
    /\ out' = NoMessage
    /\ UNCHANGED <<kind, sent, net, buf, parser, proto, writer, last, truth>>

\* What the reference makes of the oldest frame sent.
Accept(f) ==
    [truth EXCEPT
       !.opcode = IF f.opcode \in {"Text", "Binary"} /\ ~f.fin THEN f.opcode
                  ELSE IF f.opcode = "Continuation" /\ f.fin THEN "None" ELSE @,
       !.rsv1 = IF f.opcode \in {"Text", "Binary"} /\ ~f.fin THEN f.rsv1 ELSE @,
       !.bytes = IF f.opcode \in {"Text", "Binary"} /\ ~f.fin THEN f.payload
                 ELSE IF f.opcode # "Continuation" THEN @
                 ELSE IF f.fin THEN <<>> ELSE @ \o f.payload,
       !.closed = IF f.opcode = "Close" /\ @ = NoClose THEN f.payload ELSE @]

Handled(f, data) ==
    CASE kind = "compressed" -> compressed_handle_frame(proto, f, data)
      [] kind = "reader" -> reader_handle_frame(proto, f, data)
      [] call = "raw" -> handle_raw_frame([proto EXCEPT !.partial_checked = 0], f)
      [] OTHER -> handle_frame([proto EXCEPT !.partial_checked = 0], f, proto.partial_checked)

Frame(header, payload) ==
    [opcode |-> header.opcode, fin |-> header.fin, rsv1 |-> header.rsv1, payload |-> payload]

\* One turn of the loop that parses a whole frame.  A bad frame fails the call for good.
process_frame ==
    /\ call \in {"typed", "next", "raw"} /\ buf # <<>>
    /\ LET r == parse(parser, buf)
           f == Frame(r.out.header, BytesOf(r.out.payload))
       IN /\ r.out.tag = "frame"
          /\ parser' = r.p /\ buf' = r.buf
          /\ \E data \in IF f.rsv1 \/ proto.compressed THEN Expands ELSE {<<>>} :
               LET h == Handled(f, data)
               IN /\ proto' = h.s
                  /\ out' = [opcode |-> h.message.opcode, payload |-> h.message.payload,
                             api |-> IF \E i \in DOMAIN r.out.payload : r.out.payload[i].keys # {}
                                     THEN "masked" ELSE call]
                  /\ call' = CASE h.tag \in {"error", "utf8"} -> "failed"
                               [] h.tag = "message" /\ call = "next" -> "none"
                               [] OTHER -> call
                  /\ last' = IF h.tag = "utf8" THEN "utf8" ELSE
                             IF call' = "none" THEN call ELSE last
                  /\ IF call' = "failed" THEN UNCHANGED <<sent, truth>>
                     ELSE /\ sent' = Tail(sent)
                          /\ truth' = Accept(Head(sent))
    /\ UNCHANGED <<kind, net, writer>>

\* prevalidate_partial_text: the text that already arrived of an incomplete frame.
prevalidate_partial_text(s, p, bytes) ==
    LET text == \/ p.header.opcode = "Text" /\ s.fragment_opcode = "None"
                \/ p.header.opcode = "Continuation" /\ s.fragment_opcode = "Text"
        seed == IF s.partial_checked # 0 THEN [ok |-> TRUE, carry |-> s.utf8]
                ELSE IF p.header.opcode = "Continuation"
                THEN resume(s.utf8, Drop(s.fragment_buf, s.validated))
                ELSE [ok |-> TRUE, carry |-> <<>>]
        u == push(seed.carry, SubSeq(bytes, s.partial_checked + 1, p.ready))
    IN IF ~s.validate \/ ~Pending(p) THEN Fragment(s)
       ELSE IF p.header.rsv1 \/ p.ready <= s.partial_checked \/ ~text THEN Fragment(s)
       ELSE IF ~seed.ok \/ ~u.ok THEN BadUtf8(s)
       ELSE Fragment([s EXCEPT !.utf8 = u.carry, !.partial_checked = p.ready])

\* Cells that are payload at the front of the buffer.
ReadyBytes(p, cells) == [i \in 1 .. p.ready |-> cells[i].byte]

\* The loop ends because the buffer is empty, holds part of a frame, or no valid one.
process_return ==
    /\ call \in {"typed", "next", "raw"}
    /\ IF buf = <<>>
       THEN /\ call' = "none" /\ last' = call /\ UNCHANGED <<parser, buf, proto>>
       ELSE LET r == parse(parser, buf)
                h == IF kind = "plain" /\ call # "raw"
                     THEN prevalidate_partial_text(proto, r.p, ReadyBytes(r.p, r.buf))
                     ELSE Fragment(proto)
            IN /\ r.out.tag # "frame"
               /\ parser' = r.p /\ buf' = r.buf /\ proto' = h.s
               /\ call' = IF r.out = Invalid \/ h.tag = "utf8" THEN "failed" ELSE "none"
               /\ last' = IF h.tag = "utf8" THEN "utf8" ELSE call
    /\ out' = NoMessage
    /\ UNCHANGED <<kind, sent, net, writer, truth>>

-----------------------------------------------------------------------------
(* Sending Close; split.  Except for the compressed split nothing here looks at received  *)
(* bytes, so these steps are taken between messages only.                                  *)

\* The record whose close state the sender uses.
Sender == IF writer.split THEN [state |-> writer.state, pending_close |-> writer.pending_close]
          ELSE [state |-> proto.state, pending_close |-> proto.pending_close]
SetSender(state) ==
    IF writer.split THEN writer' = [writer EXCEPT !.state = state] /\ UNCHANGED proto
    ELSE proto' = [proto EXCEPT !.state = state] /\ UNCHANGED writer

\* encode_message(Close) by the application, once.
encode_close ==
    /\ kind # "reader" /\ call = "none" /\ ~truth.closeSent
    /\ SetSender(IF Sender.state = "Open" THEN "CloseSent" ELSE Sender.state)
    /\ truth' = [truth EXCEPT !.closeSent = TRUE]
    /\ UNCHANGED <<kind, sent, net, buf, parser, call, last, out>>

\* encode_close_response, after the peer's Close was delivered; in the split stream the
\* driver passes the reason along (encode_split_close_response).
encode_close_response ==
    /\ kind # "reader" /\ call = "none"
    /\ truth.closed # NoClose /\ ~truth.closeSent
    /\ truth' = [truth EXCEPT !.closeSent = TRUE,
                              !.answer = IF writer.split THEN truth.closed
                                         ELSE proto.pending_close]
    /\ SetSender(IF Sender.state = "CloseReceived" THEN "Closed" ELSE Sender.state)
    /\ UNCHANGED <<kind, sent, net, buf, parser, call, last, out>>

\* Protocol::split: the reader keeps everything, the writer starts with the close state.
split ==
    /\ kind = "plain" /\ call = "none" /\ ~writer.split
    /\ writer' = [split |-> TRUE, state |-> proto.state, pending_close |-> proto.pending_close]
    /\ UNCHANGED <<kind, sent, net, buf, parser, proto, call, last, out, truth>>

\* CompressedProtocol::split: a partly received frame meets the new limit.
compressed_split ==
    /\ kind = "compressed" /\ call = "none"
    /\ kind' = "reader"
    /\ parser' = set_max_frame_size(parser, SplitMaxFrame)
    /\ UNCHANGED <<sent, net, buf, proto, writer, call, last, out, truth>>

Next ==
    \/ \E n \in 1 .. Len(net) : read(n)
    \/ \E api \in {"typed", "next", "raw"} : process(api)
    \/ process_frame \/ process_return
    \/ encode_close \/ encode_close_response \/ split \/ compressed_split

Spec == Init /\ [][Next]_vars

-----------------------------------------------------------------------------
(* Properties *)

\* The oldest frame is legal where it stands.
Allowed(f) ==
    /\ f.fault = "none" /\ f.opcode # "Reserved" /\ (f.opcode \in Control => f.fin)
    /\ f.rsv1 => f.opcode \in {"Text", "Binary"}
    /\ f.opcode \in Control => Len(f.payload) <= Small
    /\ f.rsv1 => kind # "plain"
    /\ f.opcode \in {"Text", "Binary"} => truth.opcode = "None"
    /\ f.opcode = "Continuation" => truth.opcode # "None"
    /\ f.opcode = "Close" => ValidClose(f.payload)
    /\ Len(f.payload) <= parser.max_frame_size
    /\ Len(f.payload) + (IF f.opcode = "Continuation" THEN Len(truth.bytes) ELSE 0) <= MaxMessage

\* However the bytes are cut into reads and the calls alternate, what was consumed is the
\* peer's frames one by one and nothing else: unparsed bytes belong to frames not accepted,
\* and the message in progress has the opcode, bytes and compression of its own fragments.
FragmentsExact ==
    call # "failed" =>
      /\ proto.fragment_opcode = truth.opcode
      /\ proto.fragment_buf = truth.bytes
      /\ truth.opcode # "None" => proto.compressed = truth.rsv1
      /\ (call = "none" /\ sent = <<>>) => (buf = <<>> /\ net = <<>> /\ parser.header_buf = <<>>)
      /\ out.api # "masked"

\* A text message a typed call returned is valid UTF-8 even when raw calls consumed its
\* first fragments.  prevalidate_partial_text makes "invalid UTF-8 fail as soon as it
\* arrives": after a typed call everything received up to the middle of a text frame, the
\* fragments raw calls took included, can still become valid.
TextValidated ==
    proto.validate =>
      /\ (out.opcode = "Text" /\ out.api \in {"typed", "next"}) => validate_utf8(out.payload)
      /\ (/\ kind = "plain" /\ call = "none" /\ last \in {"typed", "next"}
          /\ Pending(parser) /\ parser.ready > 0)
         => LET opcode == parser.header.opcode
            IN /\ (opcode = "Text" /\ truth.opcode = "None") => Viable(ReadyBytes(parser, buf))
               /\ (opcode = "Continuation" /\ truth.opcode = "Text")
                    => Viable(truth.bytes \o ReadyBytes(parser, buf))

\* A call fails only because the peer broke a rule: the oldest frame is not allowed, or its
\* text, with what came before, is not UTF-8 any more.
OnlyBadInputFails ==
    call = "failed" =>
      LET f == Head(sent)
          text == f.opcode = "Text" \/ (f.opcode = "Continuation" /\ truth.opcode = "Text")
          whole == IF f.opcode = "Continuation" THEN truth.bytes \o f.payload ELSE f.payload
      IN \/ ~Allowed(f)
         \/ IF f.opcode = "Continuation" THEN truth.rsv1 ELSE f.rsv1
         \/ last = "utf8" /\ text /\ (~Viable(whole) \/ (f.fin /\ ~validate_utf8(whole)))

\* What a state tells of the Close frames: Closed only after both were, in either order, one
\* sent and one received; CloseSent only after ours was sent; Open, before split(), only before
\* either; and the response repeats the reason of the peer's first Close.  The converse does
\* not hold: a Close that encode_message writes after the peer's leaves CloseReceived.
CloseStates ==
    kind # "reader" =>
      /\ Sender.state = "Closed" => truth.closeSent /\ truth.closed # NoClose
      /\ Sender.state = "CloseSent" => truth.closeSent
      /\ (Sender.state = "Open" /\ ~writer.split) => ~truth.closeSent /\ truth.closed = NoClose
      /\ truth.answer \in {NoClose, truth.closed}
=============================================================================
