------------------------------- MODULE Deflate -------------------------------
(***************************************************************************)
(* permessage-deflate of src/deflate.rs: what a server answers to the      *)
(* offers of a client, and the two codecs.                                 *)
(*                                                                         *)
(* zlib is abstracted to its window.  A message is a sequence of tokens;   *)
(* what an encoder makes of it may refer back to any token of its window,  *)
(* so it can be read exactly by a decoder that still has those tokens.  A  *)
(* window of b bits holds Window(b) tokens.                                *)
(***************************************************************************)
EXTENDS Integers, Sequences, FiniteSetsExt

CONSTANTS Threshold,        \* compression_threshold
          MaxMessageSize    \* max_size of decompress

ASSUME DeflateAssumption == Threshold \in Nat /\ MaxMessageSize \in Nat

MinBits == 9             \* MIN_WINDOW_BITS: the backend has no 8 bit window
MaxBits == 15            \* MAX_WINDOW_BITS
Absent == 0              \* the parameter is not there
NoValue == 1             \* client_max_window_bits without a value

Window(bits) == bits - 7

LastOf(s, n) == SubSeq(s, Len(s) - Min({n, Len(s)}) + 1, Len(s))

-----------------------------------------------------------------------------
(* Negotiation.  legal = FALSE stands for an extension or a parameter that is unknown, *)
(* repeated or malformed.                                                              *)

NoDeflate == [response |-> [deflate |-> FALSE]]

Unless15(bits) == IF bits < MaxBits THEN bits ELSE Absent

\* The modes of Compression: their window and whether they keep it between messages.
window_bits(mode) == CASE mode = "Window1KB" -> 10
                       [] mode = "Window2KB" -> 11
                       [] mode = "Window4KB" -> 12
                       [] mode = "Window8KB" -> 13
                       [] mode = "Window16KB" -> 14
                       [] mode \in {"Dedicated", "Shared", "Window32KB"} -> MaxBits
context_takeover(mode) == mode \notin {"Shared", "Window1KB", "Window2KB"}
to_deflate_config(mode) ==
    [server |-> window_bits(mode), client |-> window_bits(mode),
     snct |-> ~context_takeover(mode), cnct |-> ~context_takeover(mode)]

\* What parse_deflate_offer and DeflateOffer::from_params let through: parameters that are
\* known, not repeated, with a value where one belongs, and window bits in 8..15.
Understood(offer) ==
    /\ offer.legal
    /\ offer.server \in {Absent} \cup (MinBits - 1)..MaxBits
    /\ offer.client \in {Absent, NoValue} \cup (MinBits - 1)..MaxBits

\* What negotiate_server_deflate does not skip.
Acceptable(offer, policy) ==
    /\ Understood(offer)
    /\ offer.server # MinBits - 1
    /\ offer.client # Absent \/ policy.client = MaxBits

widens_to_backend(policy, offer) ==
    LET server == IF offer.server = Absent THEN policy.server ELSE Min({policy.server, offer.server})
        client == IF offer.client \in {Absent, NoValue} THEN policy.client
                  ELSE Min({policy.client, offer.client})
    IN [response |-> [deflate |-> TRUE, snct |-> policy.snct \/ offer.snct,
                      cnct |-> policy.cnct \/ offer.cnct,
                      server |-> Unless15(server), client |-> Absent],
        config |-> [server |-> server, client |-> IF client < MinBits THEN MinBits ELSE client,
                    snct |-> policy.snct \/ offer.snct, cnct |-> policy.cnct \/ offer.cnct]]

\* The codec configuration and the response parameters for one offer; a limit of 8 bits is
\* answered as such while the decoder gets the smallest window there is.
Negotiated(policy, offer) ==
    LET server == IF offer.server = Absent THEN policy.server ELSE Min({policy.server, offer.server})
        client == IF offer.client \in {Absent, NoValue} THEN policy.client
                  ELSE Min({policy.client, offer.client})
    IN [response |-> [deflate |-> TRUE, snct |-> policy.snct \/ offer.snct,
                      cnct |-> policy.cnct \/ offer.cnct,
                      server |-> IF offer.server = Absent THEN Unless15(server) ELSE server,
                      client |-> Unless15(client)],
        config |-> [server |-> server, client |-> IF client < MinBits THEN MinBits ELSE client,
                    snct |-> policy.snct \/ offer.snct, cnct |-> policy.cnct \/ offer.cnct]]

\* The first client offer that satisfies the policy.
negotiate_server_deflate(offers, policy) ==
    LET fit == {i \in DOMAIN offers : Acceptable(offers[i], policy)}
    IN IF fit = {} THEN NoDeflate
       ELSE Negotiated(policy, offers[CHOOSE i \in fit : \A j \in fit : i <= j])

\* DeflateConfig::from_params, as a client reads the response; 8 bits are not supported.
CanUse(response) == {response.server, response.client} \cap {MinBits - 1} = {}
from_params(response) ==
    [server |-> IF response.server = Absent THEN MaxBits ELSE response.server,
     client |-> IF response.client = Absent THEN MaxBits ELSE response.client,
     snct |-> response.snct, cnct |-> response.cnct]

-----------------------------------------------------------------------------
(* The codecs *)

Codec(bits, no_context_takeover) == [bits |-> bits, nct |-> no_context_takeover, window |-> <<>>]

\* DeflateContext::server and client: one encoder and one decoder each.
server_context(config) ==
    [encoder |-> Codec(config.server, config.snct), decoder |-> Codec(config.client, config.cnct)]
client_context(config) ==
    [encoder |-> Codec(config.client, config.cnct), decoder |-> Codec(config.server, config.snct)]

Remember(codec, tokens) ==
    [codec EXCEPT !.window = LastOf(codec.window \o tokens, Window(codec.bits))]
Forget(codec) == [codec EXCEPT !.window = <<>>]

Raw(tokens) == [compressed |-> FALSE, dictionary |-> <<>>, tokens |-> tokens]

skips_incompressible(encoder, tokens, dense) ==
    LET packet == [compressed |-> TRUE, dictionary |-> encoder.window, tokens |-> tokens]
        after == IF encoder.nct THEN Forget(encoder) ELSE Remember(encoder, tokens)
    IN IF Len(tokens) < Threshold THEN [encoder |-> encoder, packet |-> Raw(tokens)]
       ELSE [encoder |-> after, packet |-> IF dense THEN Raw(tokens) ELSE packet]

\* DeflateEncoder::compress: below the threshold nothing happens; with no_context_takeover
\* the final Full flush clears the window and an output no smaller than its input (dense) is
\* sent raw; otherwise the message is in the window and must go out compressed.
compress(encoder, tokens, dense) ==
    LET packet == [compressed |-> TRUE, dictionary |-> encoder.window, tokens |-> tokens]
        after == IF encoder.nct THEN Forget(encoder) ELSE Remember(encoder, tokens)
    IN IF Len(tokens) < Threshold THEN [encoder |-> encoder, packet |-> Raw(tokens)]
       ELSE [encoder |-> after,
             packet |-> IF encoder.nct /\ dense THEN Raw(tokens) ELSE packet]

\* The decoder has every token the packet may refer to.
Readable(decoder, packet) ==
    LET needed == Len(packet.dictionary)
    IN needed <= Len(decoder.window) /\ LastOf(decoder.window, needed) = packet.dictionary

\* DeflateDecoder::decompress begins: the context is reset if it is not taken over.
begin_decompress(decoder) == IF decoder.nct THEN Forget(decoder) ELSE decoder

\* One turn of its loop.  inflate was offered room for `offered` tokens, produced `produced`
\* of the `left` still to come, and left `rest` of the input; `ended` says that a block was
\* the final one of its stream, which keeps the window and begins another.  At the limit the
\* room is a probe, and whatever appears in it is too much.
inflate_turn(out, left, offered, produced, rest, ended) ==
    CASE out = MaxMessageSize /\ produced # 0 -> "too large"
      [] ~(out = MaxMessageSize /\ produced # 0) /\ ended -> IF produced < left THEN "more" ELSE "done"
      [] ~(out = MaxMessageSize /\ produced # 0) /\ ~ended ->
             IF ~rest /\ produced < offered THEN "done" ELSE "more"
=============================================================================
