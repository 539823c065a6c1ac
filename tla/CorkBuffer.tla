----------------------------- MODULE CorkBuffer -----------------------------
(***************************************************************************)
(* The write buffer of src/cork.rs: frozen segments in front of an open    *)
(* buffer.  Bytes are any values; a payload of ZeroCopyMin bytes or more   *)
(* is queued by reference, which freezes the open buffer before it.        *)
(***************************************************************************)
EXTENDS Integers, Sequences

CONSTANTS ZeroCopyMin,      \* ZERO_COPY_MIN
          MaxWriteSlices    \* MAX_WRITE_SLICES

ASSUME CorkAssumption == ZeroCopyMin \in Nat /\ MaxWriteSlices \in Nat \ {0}

EmptyCork == [segments |-> <<>>, buffer |-> <<>>]

has_data(c) == c.buffer # <<>> \/ c.segments # <<>>
has_segments(c) == c.segments # <<>>

\* The first n segments, one after the other.
Joined(segments, n) ==
    LET upto[i \in 0 .. n] == IF i = 0 THEN <<>> ELSE upto[i - 1] \o segments[i]
    IN upto[n]

Contents(c) == Joined(c.segments, Len(c.segments)) \o c.buffer
pending_bytes(c) == Len(Contents(c))

write(c, data) == [c EXCEPT !.buffer = @ \o data]

push_segment_keeps_buffer(c, data) ==
    IF data = <<>> THEN c ELSE [c EXCEPT !.segments = Append(@, data)]

push_segment(c, data) ==
    IF data = <<>> THEN c
    ELSE [segments |-> (IF c.buffer = <<>> THEN c.segments ELSE Append(c.segments, c.buffer))
                         \o <<data>>,
          buffer |-> <<>>]

write_bytes(c, data) ==
    IF Len(data) < ZeroCopyMin THEN write(c, data) ELSE push_segment(c, data)

\* Buf::chunk and fill_write_slices: what one write call is offered.
chunk(c) == IF has_segments(c) THEN c.segments[1] ELSE c.buffer
fill_write_slices(c) ==
    IF Len(c.segments) >= MaxWriteSlices THEN Joined(c.segments, MaxWriteSlices) ELSE Contents(c)

\* consume: whole segments first, then part of the next one or of the buffer.
consume(c, n) ==
    LET whole == {k \in 0 .. Len(c.segments) : Len(Joined(c.segments, k)) <= n}
        k == CHOOSE k \in whole : \A other \in whole : other <= k
        rest == n - Len(Joined(c.segments, k))
        segments == SubSeq(c.segments, k + 1, Len(c.segments))
    IN IF segments # <<>>
       THEN [c EXCEPT !.segments = [segments EXCEPT ![1] = SubSeq(@, rest + 1, Len(@))]]
       ELSE [segments |-> <<>>, buffer |-> SubSeq(c.buffer, rest + 1, Len(c.buffer))]
=============================================================================
