----------------------------- MODULE FrameParser -----------------------------
(***************************************************************************)
(* Frames on the wire and the incremental parser of src/frame.rs.          *)
(*                                                                         *)
(* The wire is a sequence of cells, one per byte: the two base header      *)
(* bytes, the digits of an extended length, the bytes of the masking key,  *)
(* the payload.  The length fields are scaled down: Small and Medium stand *)
(* for SMALL_MESSAGE_THRESHOLD and MEDIUM_MESSAGE_THRESHOLD, an extended   *)
(* length has one or two digits to the base Medium + 1.  A masked payload  *)
(* byte carries the set of key bytes it was xor-ed with.                   *)
(***************************************************************************)
EXTENDS Utf8

CONSTANTS Small, Medium, KeyLen

ASSUME FrameAssumption ==
    /\ Small \in Nat /\ Medium \in Nat /\ Small < Medium
    /\ KeyLen \in Nat \ {0}

Control == {"Close", "Ping", "Pong"}
Length16 == Small + 1        \* 126
Length64 == Small + 2        \* 127
LengthMsb == ((Medium + 1) * (Medium + 1)) \div 2

ExtendedSize(len) == IF len > Medium THEN 2 ELSE IF len > Small THEN 1 ELSE 0

\* The digits of an extended length, big endian.
Number(digits) ==
    IF Len(digits) = 1 THEN digits[1] ELSE digits[1] * (Medium + 1) + digits[2]
Digits(len, size) ==
    CASE size = 0 -> <<>>
      [] size = 1 -> <<len>>
      [] OTHER -> <<len \div (Medium + 1), len % (Medium + 1)>>

Toggle(keys, k) == (keys \ {k}) \cup ({k} \ keys)

\* apply_mask_offset: the key is applied from phase offset on.
apply_mask_offset(cells, key, offset) ==
    IF key = <<>> THEN cells
    ELSE [i \in 1 .. Len(cells) |->
            [cells[i] EXCEPT !.keys = Toggle(@, key[((offset + i - 1) % KeyLen) + 1])]]

Plain(bytes) == [i \in 1 .. Len(bytes) |-> [byte |-> bytes[i], keys |-> {}]]
BytesOf(cells) == [i \in 1 .. Len(cells) |-> cells[i].byte]

\* FrameHeader::encode and encode_frame_with_rsv.
Header(b0, b1, digits, key) == <<b0, b1>> \o digits \o key
encode_frame(opcode, payload, fin, key, rsv1) ==
    LET size == ExtendedSize(Len(payload))
        b0 == [fin |-> fin, rsv1 |-> rsv1, rsv23 |-> FALSE, opcode |-> opcode]
        b1 == [masked |-> key # <<>>,
               len |-> IF size = 0 THEN Len(payload) ELSE IF size = 1 THEN Length16 ELSE Length64]
    IN Header(b0, b1, Digits(Len(payload), size), key)
         \o apply_mask_offset(Plain(payload), key, 0)

-----------------------------------------------------------------------------
(* The parser: p is the FrameParser, buf the caller's buffer *)

NoHeader == [none |-> TRUE]
More == [tag |-> "more"]
Invalid == [tag |-> "error"]
Parsed(header, payload) == [tag |-> "frame", header |-> header, payload |-> payload]
Result(p, buf, out) == [p |-> p, buf |-> buf, out |-> out]

new(max_frame_size, expect_masked, allow_rsv1) ==
    [state |-> "Header", header_buf |-> <<>>, header |-> NoHeader, ready |-> 0,
     max_frame_size |-> max_frame_size, expect_masked |-> expect_masked,
     allow_rsv1 |-> allow_rsv1]

reset(p) ==
    [p EXCEPT !.state = "Header", !.header_buf = <<>>, !.header = NoHeader, !.ready = 0]

\* A lower limit also applies to the frame whose header was accepted.
set_max_frame_size(p, limit) ==
    [p EXCEPT !.max_frame_size = limit,
              !.state = IF p.header # NoHeader /\ p.header.len > limit THEN "FrameTooLarge" ELSE @]

HeaderOf(b0, b1, len, key) ==
    [fin |-> b0.fin, rsv1 |-> b0.rsv1, opcode |-> b0.opcode, masked |-> b1.masked,
     len |-> len, key |-> key]

\* What the first two bytes rule out.
BaseInvalid(p, b0, b1) ==
    \/ b0.rsv1 /\ (~p.allow_rsv1 \/ b0.opcode \notin {"Text", "Binary"})
    \/ b0.rsv23
    \/ b0.opcode = "Reserved"
    \/ b0.opcode \in Control /\ ~b0.fin
    \/ b1.masked # p.expect_masked

\* parse_header_with_len.
LengthRefused(p, opcode, len) ==
    \/ opcode \in Control /\ len > Small
    \/ len > p.max_frame_size

\* The 16 and 64 bit encodings must be minimal.
NotMinimal(b1, len) ==
    \/ b1.len = Length16 /\ len <= Small
    \/ b1.len = Length64 /\ (len <= Medium \/ len >= LengthMsb)

\* try_parse_complete_unmasked_data: a complete, final, uncompressed data frame.
try_parse_complete_unmasked_data(p, buf) ==
    IF p.state # "Header" \/ p.expect_masked \/ Len(buf) < 2 THEN Result(p, buf, More)
    ELSE LET b0 == buf[1]
             b1 == buf[2]
             extended == ~b1.masked /\ b1.len = Length16 /\ Len(buf) >= 3
             size == IF extended THEN 3 ELSE 2
             len == IF extended THEN buf[3] ELSE b1.len
         IN IF /\ b0.fin /\ ~b0.rsv1 /\ ~b0.rsv23 /\ b0.opcode \in {"Text", "Binary"}
               /\ ~b1.masked /\ (extended \/ b1.len <= Small)
               /\ ~(extended /\ len <= Small)
               /\ len <= p.max_frame_size /\ Len(buf) >= size + len
            THEN Result(p, Drop(buf, size + len),
                        Parsed(HeaderOf(b0, b1, len, <<>>), SubSeq(buf, size + 1, size + len)))
            ELSE Result(p, buf, More)

\* The two inline paths for small frames, masked or not.
ParseSmall(p, buf) ==
    LET size == IF p.expect_masked THEN 2 + KeyLen ELSE 2
    IN IF p.state # "Header" \/ Len(buf) < size THEN Result(p, buf, More)
       ELSE LET b0 == buf[1]
                b1 == buf[2]
                key == SubSeq(buf, 3, size)
            IN IF \/ b1.len > Small \/ b1.masked # p.expect_masked \/ Len(buf) < size + b1.len
                  \/ b0.rsv23 \/ b0.opcode = "Reserved"
                  \/ b0.rsv1 /\ (~p.allow_rsv1 \/ b0.opcode \notin {"Text", "Binary"})
               THEN Result(p, buf, More)
               ELSE IF (b0.opcode \in Control /\ ~b0.fin) \/ b1.len > p.max_frame_size
               THEN Result(p, buf, Invalid)
               ELSE Result(p, Drop(buf, size + b1.len),
                           Parsed(HeaderOf(b0, b1, b1.len, key),
                                  apply_mask_offset(SubSeq(buf, size + 1, size + b1.len), key, 0)))

Continue == [tag |-> "continue"]

\* Save the next cells of the header, at most n.
Save(p, buf, n) ==
    LET k == IF n < Len(buf) THEN n ELSE Len(buf)
    IN Result([p EXCEPT !.header_buf = @ \o Take(buf, k)], Drop(buf, k), More)

\* parse_slow, ParseState::Header.
SlowHeader(r) ==
    IF r.p.state # "Header" THEN r
    ELSE IF Len(r.buf) < 2 THEN [r EXCEPT !.out = More]
    ELSE LET p == r.p
             buf == r.buf
             b0 == buf[1]
             b1 == buf[2]
             size == IF b1.len = Length16 THEN 1 ELSE IF b1.len = Length64 THEN 2 ELSE 0
             total == 2 + size + (IF b1.masked THEN KeyLen ELSE 0)
             len == IF size = 0 THEN b1.len ELSE Number(SubSeq(buf, 3, 2 + size))
         IN IF BaseInvalid(p, b0, b1) THEN [r EXCEPT !.out = Invalid]
            ELSE IF Len(buf) < 2 + size
            THEN Save([p EXCEPT !.state = IF size = 1 THEN "ExtendedLen16" ELSE "ExtendedLen64"],
                      buf, 2)
            ELSE IF NotMinimal(b1, len) \/ LengthRefused(p, b0.opcode, len)
            THEN [r EXCEPT !.out = Invalid]
            ELSE IF Len(buf) < total
            THEN Save([p EXCEPT !.state = "Mask", !.header = HeaderOf(b0, b1, len, <<>>)],
                      buf, Len(buf))
            ELSE LET header == HeaderOf(b0, b1, len, SubSeq(buf, 3 + size, total))
                 IN IF Len(buf) - total >= len
                    THEN Result(p, Drop(buf, total + len),
                                Parsed(header, apply_mask_offset(
                                                 SubSeq(buf, total + 1, total + len), header.key, 0)))
                    ELSE Result([p EXCEPT !.state = "Payload", !.header = header],
                                Drop(buf, total), Continue)

\* ParseState::ExtendedLen16 and ExtendedLen64.
SlowExtended(r) ==
    IF r.out # Continue \/ r.p.state \notin {"ExtendedLen16", "ExtendedLen64"} THEN r
    ELSE LET target == IF r.p.state = "ExtendedLen16" THEN 3 ELSE 4
             saved == Save(r.p, r.buf, target - Len(r.p.header_buf))
             bytes == saved.p.header_buf
             len == Number(SubSeq(bytes, 3, target))
         IN IF Len(bytes) < target THEN saved
            ELSE IF NotMinimal(bytes[2], len) \/ LengthRefused(r.p, bytes[1].opcode, len)
            THEN [saved EXCEPT !.out = Invalid]
            ELSE [saved EXCEPT !.out = Continue,
                               !.p.header = HeaderOf(bytes[1], bytes[2], len, <<>>),
                               !.p.state = IF bytes[2].masked THEN "Mask" ELSE "Payload"]

\* ParseState::Mask; the size of the header follows from the length.
SlowMask(r) ==
    IF r.out # Continue \/ r.p.state # "Mask" THEN r
    ELSE LET base == 2 + ExtendedSize(r.p.header.len)
             saved == Save(r.p, r.buf, base + KeyLen - Len(r.p.header_buf))
         IN IF Len(saved.p.header_buf) < base + KeyLen THEN saved
            ELSE [saved EXCEPT !.out = Continue, !.p.state = "Payload",
                               !.p.header.key = Drop(saved.p.header_buf, base)]

unmask_from_start(r) ==
    IF r.out # Continue THEN r
    ELSE LET p == r.p
             len == p.header.len
         IN IF Len(r.buf) < len
            THEN Result([p EXCEPT !.ready = Len(r.buf)],
                        apply_mask_offset(r.buf, p.header.key, 0), More)
            ELSE Result(reset(p), Drop(r.buf, len),
                        Parsed(p.header, apply_mask_offset(Take(r.buf, len), p.header.key, 0)))

\* ParseState::Payload: unmask what arrived, once; the frame when all of it is there.
SlowPayload(r) ==
    IF r.out # Continue \/ r.p.state # "Payload" THEN r
    ELSE LET p == r.p
             len == p.header.len
             unmask(cells) == Take(cells, p.ready)
                                \o apply_mask_offset(Drop(cells, p.ready), p.header.key, p.ready)
         IN IF Len(r.buf) < len
            THEN IF Len(r.buf) > p.ready
                 THEN Result([p EXCEPT !.ready = Len(r.buf)], unmask(r.buf), More)
                 ELSE [r EXCEPT !.out = More]
            ELSE Result(reset(p), Drop(r.buf, len), Parsed(p.header, unmask(Take(r.buf, len))))

parse_slow(p, buf) ==
    IF p.state = "FrameTooLarge" THEN Result(p, buf, Invalid)
    ELSE SlowPayload(SlowMask(SlowExtended(SlowHeader(Result(p, buf, Continue)))))

\* parse_after_complete_data_miss.
parse_after_miss(p, buf) ==
    LET small == ParseSmall(p, buf)
    IN IF small.out # More THEN small ELSE parse_slow(p, buf)

parse(p, buf) ==
    LET data == try_parse_complete_unmasked_data(p, buf)
    IN IF data.out # More THEN data ELSE parse_after_miss(p, buf)

\* pending_payload: the frame in progress, if its header is complete.
Pending(p) == p.state = "Payload"
=============================================================================
