-------------------------------- MODULE Utf8 --------------------------------
(***************************************************************************)
(* The incremental UTF-8 validator of src/utf8.rs over real byte values,   *)
(* and what it is checked against: UTF-8 as the encodings of the Unicode   *)
(* scalar values.                                                          *)
(***************************************************************************)
EXTENDS Integers, Sequences

IsContinuation(b) == b \in 128 .. 191

Drop(s, n) == SubSeq(s, n + 1, Len(s))
Take(s, n) == SubSeq(s, 1, n)

-----------------------------------------------------------------------------
(* The reference *)

\* The number encoded by a lead byte and its continuation bytes.
CodePoint(s) ==
    CASE Len(s) = 1 -> s[1]
      [] Len(s) = 2 -> (s[1] % 32) * 64 + (s[2] % 64)
      [] Len(s) = 3 -> (s[1] % 16) * 4096 + (s[2] % 64) * 64 + (s[3] % 64)
      [] OTHER -> (s[1] % 8) * 262144 + (s[2] % 64) * 4096 + (s[3] % 64) * 64 + (s[4] % 64)

Leads == <<0 .. 127, 192 .. 223, 224 .. 239, 240 .. 247>>
Scalars == <<0 .. 127, 128 .. 2047, (2048 .. 65535) \ (55296 .. 57343), 65536 .. 1114111>>

\* One scalar value in its shortest encoding.
IsCharacter(s) ==
    /\ Len(s) \in 1 .. 4
    /\ s[1] \in Leads[Len(s)]
    /\ \A i \in 2 .. Len(s) : IsContinuation(s[i])
    /\ CodePoint(s) \in Scalars[Len(s)]

\* simdutf8 and std::str::from_utf8 accept exactly the concatenations of characters.
validate_utf8(s) ==
    LET ok[i \in 0 .. Len(s)] ==
          i = 0 \/ \E w \in 1 .. 4 : w <= i /\ IsCharacter(SubSeq(s, i - w + 1, i)) /\ ok[i - w]
    IN ok[Len(s)]

\* s can still be continued to a character; the extreme continuations decide.
IsCharacterPrefix(s) ==
    \E n \in 1 .. 3 : \E t \in [1 .. n -> {128, 191}] : IsCharacter(s \o t)

\* s can be continued to valid UTF-8.
Viable(s) ==
    \E k \in 0 .. 3 :
      /\ k <= Len(s)
      /\ validate_utf8(Take(s, Len(s) - k))
      /\ k = 0 \/ IsCharacterPrefix(Drop(s, Len(s) - k))

-----------------------------------------------------------------------------
(* The code *)

utf8_sequence_width(lead) ==
    CASE lead \in 0 .. 127 -> 1
      [] lead \in 192 .. 223 -> 2
      [] lead \in 224 .. 239 -> 3
      [] lead \in 240 .. 247 -> 4
      [] OTHER -> 0

SecondRange(lead) ==
    CASE lead \in 194 .. 223 -> 128 .. 191
      [] lead = 224 -> 160 .. 191
      [] lead \in (225 .. 236) \cup (238 .. 239) -> 128 .. 191
      [] lead = 237 -> 128 .. 159
      [] lead = 240 -> 144 .. 191
      [] lead \in 241 .. 243 -> 128 .. 191
      [] lead = 244 -> 128 .. 143
      [] OTHER -> {}

incomplete_prefix_may_be_valid(prefix) ==
    \/ prefix = <<>>
    \/ /\ SecondRange(prefix[1]) # {}
       /\ Len(prefix) >= 2 => prefix[2] \in SecondRange(prefix[1])
       /\ \A i \in 3 .. Len(prefix) : IsContinuation(prefix[i])

\* Only a tail that starts with a lead byte of a longer sequence is held back.
complete_prefix_len(chunk) ==
    LET n == Len(chunk)
        leads == {back \in 1 .. 3 : back <= n /\ ~IsContinuation(chunk[n - back + 1])}
        first == CHOOSE back \in leads : \A other \in leads : back <= other
    IN IF leads # {} /\ chunk[n - first + 1] >= 192
                     /\ utf8_sequence_width(chunk[n - first + 1]) > first
       THEN n - first ELSE n

\* The chunk after the carried sequence was completed.
PushWhole(chunk) ==
    LET complete == complete_prefix_len(chunk)
        tail == Drop(chunk, complete)
    IN IF ~validate_utf8(Take(chunk, complete)) THEN [ok |-> FALSE, carry |-> <<>>]
       ELSE [ok |-> incomplete_prefix_may_be_valid(tail), carry |-> tail]

push_forgets_carry(carry, chunk) == PushWhole(chunk)

\* Utf8Stream::push: fill the carried sequence first, then the rest of the chunk.
push(carry, chunk) ==
    IF carry = <<>> THEN PushWhole(chunk)
    ELSE LET width == utf8_sequence_width(carry[1])
             missing == width - Len(carry)
             take == IF missing < Len(chunk) THEN missing ELSE Len(chunk)
             filled == carry \o Take(chunk, take)
         IN IF Len(filled) < width
            THEN [ok |-> incomplete_prefix_may_be_valid(filled), carry |-> filled]
            ELSE IF ~validate_utf8(filled) THEN [ok |-> FALSE, carry |-> filled]
            ELSE PushWhole(Drop(chunk, take))

\* Utf8Stream::resume: compare contents, not just length.
resume(carry, suffix) ==
    IF suffix = carry THEN [ok |-> TRUE, carry |-> carry] ELSE push(<<>>, suffix)
=============================================================================
