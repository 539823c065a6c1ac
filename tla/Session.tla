------------------------------- MODULE Session -------------------------------
(***************************************************************************)
(* A WebSocket from its opening to the bytes it runs over: Opening decides *)
(* whether and how; a session with permessage-deflate goes on with the     *)
(* codecs that were agreed, one over Extended CONNECT or io_uring with its *)
(* transport.  The shared encoder pool of src/compression.rs serves        *)
(* several connections.                                                    *)
(***************************************************************************)
EXTENDS Opening, Transport

CONSTANTS Connections,       \* users of the shared encoder pool
          PoolSize,          \* SHARED_POOL_SIZE
          MaxMessages,       \* bound: messages of a dedicated connection
          PoolMessages,      \* bound: messages of each user of the pool
          MaxSize            \* bound: tokens per message

ASSUME SessionAssumption ==
    /\ {PoolSize, MaxMessages, PoolMessages, MaxSize} \subseteq Nat \ {0}
    /\ Connections \subseteq Nat \ {0}

VARIABLE link     \* the compressed messages of one direction

vars == <<hs, tx, rx, link>>

Started == [route |-> "started"]
NoLink == [mode |-> "none"]
Idle == [busy |-> FALSE]
NoResult == [outcome |-> "none"]

NewLink(mode, users, encoders, decoder, foreign) ==
    [mode |-> mode, users |-> users, encoders |-> encoders, next_encoder |-> 0, foreign |-> foreign,
     decoder |-> [c \in users |-> decoder], chosen |-> [c \in users |-> Idle],
     queue |-> [c \in users |-> <<>>], sent |-> [c \in users |-> 0],
     work |-> [c \in users |-> Idle], got |-> [c \in users |-> NoResult]]

-----------------------------------------------------------------------------
(* Sessions start *)

\* An upgraded Axum connection: DeflateContext on both sides, one direction of them.
new_compressed ==
    /\ hs.route = "axum" /\ IsOpen /\ hs.answer.response.deflate
    /\ LET server == server_context(hs.answer.config)
           client == client_context(from_params(hs.answer.response))
       IN \/ link' = NewLink("dedicated", {1}, <<server.encoder>>, client.decoder, FALSE)
          \/ link' = NewLink("dedicated", {1}, <<client.encoder>>, server.decoder, ~hs.own_client)
    /\ hs' = Started /\ UNCHANGED <<tx, rx>>

\* with_shared_pool: the encoders of the pool always forget; the decoders follow the
\* configuration, which is the pool's on both sides.
with_shared_pool(config, bits, no_context_takeover) ==
    NewLink("shared", Connections, [i \in 1..PoolSize |-> Codec(bits, TRUE)],
            Codec(bits, no_context_takeover), FALSE)
PoolInit ==
    /\ hs = Started /\ tx = NoTransport /\ rx = NoTransport
    /\ \E config \in Policies : \/ link = with_shared_pool(config, config.server, config.snct)
                                \/ link = with_shared_pool(config, config.client, config.cnct)

\* The transport of an open WebSocket: Stream::from_h2, from_h3_server, from_h3_client, the
\* compio streams, or the socket itself.
KindsOf(route) == CASE route \in H2Routes -> {"h2"}
                    [] route = "compio_h2" -> {"compio_h2"}
                    [] route = "compio_h3" -> CompioH3Kinds
                    [] route \in {"h3", "h3_filtered"} -> H3Kinds
                    [] OTHER -> {"uring"}
from_raw ==
    /\ hs.route \in ConnectRoutes \cup {"http1"} /\ IsOpen
    /\ \E kind \in KindsOf(hs.route) : tx' = tx_new(kind) /\ rx' = rx_new(kind)
    /\ hs' = Started /\ UNCHANGED link

\* Streams made by hand: Http3Stream or Stream::from_quic, and Http2Stream.
BareInit ==
    /\ hs = Started /\ link = NoLink
    /\ \E kind \in {"quic", "http2_stream"} : tx = tx_new(kind) /\ rx = rx_new(kind)

-----------------------------------------------------------------------------
(* Compressed messages *)

\* Every message has tokens of its own.
Message(c, size) == [i \in 1..size |-> 100 * c + link.sent[c] + 1]

Sends(c, packet) == [link EXCEPT !.queue[c] = Append(@, packet), !.sent[c] = @ + 1]

MaySend(mode, c, most) ==
    /\ link.mode = mode /\ c \in link.users
    /\ link.sent[c] < most /\ Len(link.queue[c]) < 2

\* DeflateContext::compress
dedicated_compress(c, size, dense) ==
    /\ MaySend("dedicated", c, MaxMessages)
    /\ LET r == compress(link.encoders[1], Message(c, size), dense)
       IN link' = [Sends(c, r.packet) EXCEPT !.encoders[1] = r.encoder]
    /\ UNCHANGED <<hs, tx, rx>>

\* SharedEncoderPool::compress takes a ticket, after the threshold was checked, ...
shared_choose(c, size, dense) ==
    /\ MaySend("shared", c, PoolMessages) /\ ~link.chosen[c].busy
    /\ link' = IF size < Threshold THEN Sends(c, Raw(Message(c, size)))
               ELSE [link EXCEPT !.next_encoder = (@ + 1) % PoolSize,
                                 !.chosen[c] = [busy |-> TRUE, size |-> size, dense |-> dense,
                                                index |-> (link.next_encoder % PoolSize) + 1]]
    /\ UNCHANGED <<hs, tx, rx>>

\* ... and then locks the encoder it drew, which another connection may have used since.
shared_compress(c) ==
    /\ link.mode = "shared" /\ link.chosen[c].busy
    /\ LET i == link.chosen[c].index
           r == compress(link.encoders[i], Message(c, link.chosen[c].size), link.chosen[c].dense)
       IN link' = [Sends(c, r.packet) EXCEPT !.encoders[i] = r.encoder, !.chosen[c] = Idle]
    /\ UNCHANGED <<hs, tx, rx>>

\* The peer takes the next message; a raw one does not touch its decoder.
decompress(c) ==
    /\ link.mode # "none" /\ link.queue[c] # <<>> /\ ~link.work[c].busy
    /\ link.got[c].outcome # "too large"
    /\ LET packet == Head(link.queue[c])
           rest == [link EXCEPT !.queue[c] = Tail(@)]
           decoder == begin_decompress(link.decoder[c])
       IN link' = IF ~packet.compressed THEN rest
                  ELSE [rest EXCEPT !.decoder[c] = decoder,
                                    !.work[c] = [busy |-> TRUE, packet |-> packet, out |-> 0,
                                                 left |-> Len(packet.tokens),
                                                 readable |-> Readable(decoder, packet)]]
    /\ UNCHANGED <<hs, tx, rx>>

\* What zlib (external) may do with that room: fill it, or run out of input; a foreign
\* encoder may end a stream anywhere.
Inflated(left, offered, foreign) ==
    {[produced |-> Min({offered, left}), ended |-> FALSE, rest |-> rest] :
        rest \in IF left < offered THEN {FALSE} ELSE BOOLEAN}
    \cup {[produced |-> n, ended |-> TRUE, rest |-> TRUE] :
             n \in IF foreign THEN 0..Min({offered, left}) ELSE {}}

\* A turn of the loop of DeflateDecoder::decompress.
inflate(c, offered) ==
    /\ link.mode # "none" /\ link.work[c].busy
    /\ LET w == link.work[c]
       IN /\ IF w.out = MaxMessageSize THEN offered = 1 ELSE offered <= MaxMessageSize - w.out
          /\ \E z \in Inflated(w.left, offered, link.foreign) :
               LET turn == inflate_turn(w.out, w.left, offered, z.produced, z.rest, z.ended)
                   size == Len(w.packet.tokens)
                   over == [outcome |-> turn, size |-> size, out |-> w.out + z.produced]
               IN link' = IF turn = "more"
                          THEN [link EXCEPT !.work[c].out = @ + z.produced, !.work[c].left = @ - z.produced]
                          ELSE [link EXCEPT !.work[c] = Idle, !.got[c] = over,
                                            !.decoder[c] = Remember(@, w.packet.tokens)]
    /\ UNCHANGED <<hs, tx, rx>>

-----------------------------------------------------------------------------
Init == \/ OpeningInit /\ link = NoLink /\ tx = NoTransport /\ rx = NoTransport
        \/ PoolInit
        \/ BareInit

Users == DOMAIN (IF link.mode = "none" THEN <<>> ELSE link.sent)

Messaging ==
    \E c \in Users :
       \/ \E size \in 1..MaxSize, dense \in BOOLEAN :
             dedicated_compress(c, size, dense) \/ shared_choose(c, size, dense)
       \/ shared_compress(c) \/ decompress(c)
       \/ \E offered \in 1..MaxSize : inflate(c, offered)

Next == \/ OpeningNext /\ UNCHANGED <<tx, rx, link>>
        \/ TransportNext /\ UNCHANGED <<hs, link>>
        \/ new_compressed \/ from_raw
        \/ Messaging

Spec == Init /\ [][Next]_vars

-----------------------------------------------------------------------------
(* Properties *)

\* Both ends of an open WebSocket agree.  HTTP/1.1: the client has the answer to its own
\* key and the subprotocol the server chose from its offer, by the server's preference.
\* Axum: the deflate answer is one RFC 7692 allows for an offer the client made, stays
\* within the server's policy, and the windows and context takeover the client derives from
\* it fit the codec the server built.  Extended CONNECT, where the clients look at the
\* status alone and no subprotocol is agreed: every stream that opens is a CONNECT past the
\* filter, on an enabled server; over HTTP/3 its :protocol and version were validated, over
\* compio's HTTP/2 its version, over Tokio's HTTP/2 neither (ConnectValidated); and this
\* library's own clients are refused by filter and configuration alone (server_handshake,
\* client_handshake, negotiate_server_deflate, on_upgrade, the CONNECT handlers).
HandshakeAgrees == Agrees

\* An Extended CONNECT that opened had a :protocol of websocket (over HTTP/3 also the
\* webtransport that stands for it) and no version but 13, as the rules of
\* ExtendedConnectRequest::validate say.  The HTTP/2 handlers do not see to it.
ConnectValidated == hs.route \in ConnectRoutes /\ hs.at = "open" => Proper

\* The answer to an Extended CONNECT names the one subprotocol the server selected, or none,
\* as build_extended_connect_response says of its argument.  Tokio's HTTP/2 handlers give
\* it the client's whole list.
AnswerSelects == hs.route \in ConnectRoutes /\ hs.status = 200 => Len(hs.selected) <= 1

\* However the bytes of header and data arrive, an open HTTP/1.1 stream starts exactly at
\* the data behind the header: leftover and unread bytes are all the other side sent.  A
\* header is refused as too large if and only if it is (server_handshake, client_handshake,
\* parse_request, parse_response).
StreamsStartClean ==
    hs.route = "http1" =>
      /\ hs.server.at = "open" => hs.server.read_buf \o hs.c2s = FirstData(hs.c2s_data)
      /\ hs.client.at = "open" => hs.client.read_buf \o hs.s2c = FirstData(hs.s2c_data)
      /\ hs.server.at = "too large" => hs.request.len > MAX_HEADER_SIZE
      /\ hs.client.at = "too large" => hs.response.len > MAX_HEADER_SIZE
      /\ hs.server.at = "shaken" => hs.request.len <= MAX_HEADER_SIZE
      /\ hs.client.at = "shaken" => hs.response.len <= MAX_HEADER_SIZE

\* Every compressed message finds in its decoder all it refers to and comes out whole, with
\* context takeover or without, compressed messages mixed with raw ones, and encoders
\* shared by connections; it fails with MessageTooLarge if and only if it is larger than
\* the limit, a message of exactly the limit and its trailer included (DeflateEncoder::
\* compress, DeflateDecoder::decompress, SharedEncoderPool::compress).
MessagesDecode ==
    link.mode # "none" => \A c \in link.users :
      /\ link.work[c].busy => link.work[c].readable
      /\ link.got[c].outcome = "done" =>
            link.got[c].out = link.got[c].size /\ link.got[c].size <= MaxMessageSize
      /\ link.got[c].outcome = "too large" => link.got[c].size > MaxMessageSize
=============================================================================
