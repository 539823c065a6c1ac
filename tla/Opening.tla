------------------------------- MODULE Opening -------------------------------
(***************************************************************************)
(* How a WebSocket is opened: the HTTP/1.1 upgrade of src/handshake.rs     *)
(* (used by client.rs, server.rs and compio.rs), the Axum extractor of     *)
(* src/axum_integration.rs with its negotiation of permessage-deflate, and *)
(* Extended CONNECT over HTTP/2 and HTTP/3.                                *)
(*                                                                         *)
(* The bytes of an HTTP/1.1 connection are cells: Header, End for the last *)
(* cell of a header, and the numbers of WebSocket data behind it.  What a  *)
(* header says is a record beside it.  The other side may be this library  *)
(* or a foreign implementation.                                            *)
(***************************************************************************)
EXTENDS Deflate, SequencesExt

CONSTANTS MAX_HEADER_SIZE,   \* largest HTTP/1.1 header, in cells
          MaxPiece,          \* bound: cells one read returns
          MaxData,           \* bound: data cells one side sends here
          Protocols,         \* subprotocol names
          Policies,          \* the deflate policies of the servers considered
          Bids               \* the lists of deflate offers of the clients considered

ASSUME OpeningAssumption ==
    {MAX_HEADER_SIZE, MaxPiece, MaxData} \subseteq Nat \ {0} /\ "none" \notin Protocols

VARIABLE hs

Header == 0
End == -1
NoProtocol == "none"

\* What a client may offer, and a server support: lists without repetition.
ProtocolLists == {list \in UNION {[1..n -> Protocols] : n \in 0..2} : IsInjective(list)}

HeaderOf(len) == [i \in 1..len |-> IF i = len THEN End ELSE Header]
FirstData(n) == [i \in 1..n |-> i]

-----------------------------------------------------------------------------
(* Selecting a subprotocol *)

\* The first protocol of the offer, whatever it is.
select_default_subprotocol(offered) == IF offered = <<>> THEN NoProtocol ELSE Head(offered)

\* The first one the server prefers that the client offered.
select_supported_subprotocol(offered, supported) ==
    LET both == {i \in DOMAIN supported : supported[i] \in ToSet(offered)}
    IN IF both = {} THEN NoProtocol ELSE supported[Min(both)]

validate_selected_protocol(offered, selected) ==
    selected = NoProtocol \/ selected \in ToSet(offered)

-----------------------------------------------------------------------------
(* The HTTP/1.1 upgrade *)

Peer == [at |-> "idle", buf |-> <<>>, leftover |-> <<>>, read_buf |-> <<>>, protocol |-> NoProtocol]

\* What a client sends: build_request_inner validates every field, a foreign one may not.
build_request_inner(own_client) ==
    [len : 1..(MAX_HEADER_SIZE + 1), well_formed : IF own_client THEN {TRUE} ELSE BOOLEAN]

Http1Init ==
    \E own_client, own_server, picky, compio \in BOOLEAN, offered \in ProtocolLists,
       supported \in ProtocolLists :
       /\ ~picky => supported = <<>>
       /\ compio => ~picky
       /\ \E request \in build_request_inner(own_client) :
            hs = [route |-> "http1", own_client |-> own_client, own_server |-> own_server,
                  picky |-> picky, compio |-> compio, offered |-> offered, supported |-> supported,
                  request |-> request,
                  response |-> [len |-> 0, well_formed |-> TRUE, accept |-> TRUE,
                                protocol |-> NoProtocol],
                  c2s |-> <<>>, s2c |-> <<>>, c2s_data |-> 0, s2c_data |-> 0, gone |-> FALSE,
                  client |-> Peer, server |-> [Peer EXCEPT !.at = "reading"]]

\* At most MAX_HEADER_SIZE + 1 cells are looked at, so a header that is too large is told
\* from one that is not all there.
limits_whole_buffer(buf) ==
    LET ends == {i \in DOMAIN buf : buf[i] = End}
    IN CASE Len(buf) > MAX_HEADER_SIZE -> "too large"
         [] Len(buf) <= MAX_HEADER_SIZE /\ ends = {} -> "partial"
         [] Len(buf) <= MAX_HEADER_SIZE /\ ends # {} -> "complete"

Parsed(buf) ==
    LET looked_at == SubSeq(buf, 1, Min({Len(buf), MAX_HEADER_SIZE + 1}))
        ends == {i \in DOMAIN looked_at : looked_at[i] = End}
    IN CASE ends # {} -> IF Min(ends) > MAX_HEADER_SIZE THEN "too large" ELSE "complete"
         [] ends = {} -> IF Len(buf) > MAX_HEADER_SIZE THEN "too large" ELSE "partial"

parse_request(buf) ==
    IF Parsed(buf) = "complete" /\ ~hs.request.well_formed THEN "refused" ELSE Parsed(buf)
parse_response(buf) ==
    IF Parsed(buf) = "complete" /\ ~hs.response.well_formed THEN "refused" ELSE Parsed(buf)

Behind(buf) == LET end == SelectInSeq(buf, LAMBDA cell : cell = End) IN SubSeq(buf, end + 1, Len(buf))
Shaken(buf, protocol) ==
    [Peer EXCEPT !.at = "shaken", !.leftover = Behind(buf), !.protocol = protocol]

client_sends_request ==
    /\ hs.route = "http1" /\ hs.client.at = "idle"
    /\ hs' = [hs EXCEPT !.client.at = "reading", !.c2s = HeaderOf(hs.request.len)]

\* Frames follow the header: a foreign client need not wait for the answer.
client_sends_data ==
    /\ hs.route = "http1" /\ hs.c2s_data < MaxData
    /\ hs.client.at = "open" \/ (~hs.own_client /\ hs.client.at = "reading")
    /\ hs' = [hs EXCEPT !.c2s = Append(@, hs.c2s_data + 1), !.c2s_data = @ + 1]
server_sends_data ==
    /\ hs.route = "http1" /\ hs.server.at = "open" /\ hs.s2c_data < MaxData
    /\ hs' = [hs EXCEPT !.s2c = Append(@, hs.s2c_data + 1), !.s2c_data = @ + 1]

\* The 101; a foreign server may answer anything.
build_response(protocol) ==
    IF hs.own_server
    THEN {[len |-> 1, well_formed |-> TRUE, accept |-> TRUE, protocol |-> protocol]}
    ELSE [len : {1, MAX_HEADER_SIZE, MAX_HEADER_SIZE + 1}, well_formed : BOOLEAN, accept : BOOLEAN,
          protocol : Protocols \cup {NoProtocol}]

\* One turn of the server's loop: a read, a parse, and the answer once the header is
\* complete.  What was read beyond it is the leftover.
ServerTurn(n, protocol) ==
    LET buf == hs.server.buf \o SubSeq(hs.c2s, 1, n)
        parsed == parse_request(buf)
        seen == [hs EXCEPT !.c2s = SubSeq(@, n + 1, Len(@)), !.server.buf = buf]
    IN /\ hs.server.at = "reading" /\ n <= Len(hs.c2s)
       /\ CASE parsed \in {"too large", "refused"} -> hs' = [seen EXCEPT !.server.at = parsed]
            [] parsed = "partial" -> hs' = seen
            [] parsed = "complete" ->
                  \E r \in build_response(protocol) :
                     hs' = [seen EXCEPT !.response = r, !.s2c = HeaderOf(r.len),
                                        !.server = Shaken(buf, protocol)]

server_handshake(n) ==
    /\ hs.route = "http1" /\ ~hs.compio
    /\ ServerTurn(n, IF hs.picky THEN select_supported_subprotocol(hs.offered, hs.supported)
                     ELSE select_default_subprotocol(hs.offered))
compio_server_handshake(n) ==
    /\ hs.route = "http1" /\ hs.compio
    /\ ServerTurn(n, select_default_subprotocol(hs.offered))

\* One turn of the client's.
ClientTurn(n) ==
    LET buf == hs.client.buf \o SubSeq(hs.s2c, 1, n)
        r == hs.response
        valid == r.accept /\ validate_selected_protocol(hs.offered, r.protocol)
        parsed == IF parse_response(buf) = "complete" /\ ~valid THEN "refused" ELSE parse_response(buf)
        seen == [hs EXCEPT !.s2c = SubSeq(@, n + 1, Len(@)), !.client.buf = buf]
    IN /\ hs.client.at = "reading" /\ n <= Len(hs.s2c)
       /\ hs' = CASE parsed \in {"too large", "refused"} -> [seen EXCEPT !.client.at = parsed]
                  [] parsed = "partial" -> seen
                  [] parsed = "complete" -> [seen EXCEPT !.client = Shaken(buf, r.protocol)]

client_handshake(n) == hs.route = "http1" /\ ~hs.compio /\ ClientTurn(n)
compio_client_handshake(n) == hs.route = "http1" /\ hs.compio /\ ClientTurn(n)

\* The stream is made with the leftover as the start of what it read.
WithLeftover(peer) == [peer EXCEPT !.at = "open", !.read_buf = peer.leftover]
accept == /\ hs.route = "http1" /\ ~hs.compio /\ hs.server.at = "shaken"
          /\ hs' = [hs EXCEPT !.server = WithLeftover(@)]
accept_async == /\ hs.route = "http1" /\ hs.compio /\ hs.server.at = "shaken"
                /\ hs' = [hs EXCEPT !.server = WithLeftover(@)]
connect == /\ hs.route = "http1" /\ ~hs.compio /\ hs.client.at = "shaken"
           /\ hs' = [hs EXCEPT !.client = WithLeftover(@)]
connect_async == /\ hs.route = "http1" /\ hs.compio /\ hs.client.at = "shaken"
                 /\ hs' = [hs EXCEPT !.client = WithLeftover(@)]

\* The connection goes at any time; a read that returns nothing is ConnectionClosed.
connection_lost == hs.route = "http1" /\ ~hs.gone /\ hs' = [hs EXCEPT !.gone = TRUE]
handshake_closed ==
    /\ hs.route = "http1" /\ hs.gone
    /\ \/ /\ hs.server.at = "reading" /\ hs.c2s = <<>>
          /\ hs' = [hs EXCEPT !.server.at = "closed"]
       \/ /\ hs.client.at = "reading" /\ hs.s2c = <<>>
          /\ hs' = [hs EXCEPT !.client.at = "closed"]

-----------------------------------------------------------------------------
(* The Axum upgrade.  hyper is external: it reads and writes the headers. *)

Requests == {"good", "not GET", "bad Upgrade", "bad Connection", "no key", "bad version"}

AxumInit ==
    \E request \in Requests, own_client, deflate \in BOOLEAN, offered \in ProtocolLists,
       offers \in Bids, policy \in Policies :
       /\ request # "good" => offered = <<>> /\ ~deflate /\ own_client
       /\ ~deflate => policy = CHOOSE p \in Policies : TRUE
       /\ hs = [route |-> "axum", at |-> "request", request |-> request, own_client |-> own_client,
                offered |-> offered, offers |-> offers, policy |-> policy, deflate |-> deflate,
                protocol |-> NoProtocol, answer |-> NoDeflate]

\* A request that is no upgrade is rejected.
from_request_parts ==
    /\ hs.route = "axum" /\ hs.at = "request"
    /\ hs' = IF hs.request # "good" THEN [hs EXCEPT !.at = "rejected"]
             ELSE [hs EXCEPT !.at = "upgrade", !.protocol = select_default_subprotocol(hs.offered)]

\* The response and the codec come from the same negotiation.
on_upgrade ==
    /\ hs.route = "axum" /\ hs.at = "upgrade"
    /\ hs' = [hs EXCEPT !.at = "response",
                        !.answer = IF hs.deflate THEN negotiate_server_deflate(hs.offers, hs.policy)
                                   ELSE NoDeflate]

\* The 101 goes out; the spawned task waits for hyper to hand over the connection, which
\* may fail.
into_response ==
    /\ hs.route = "axum" /\ hs.at = "response"
    /\ \E at \in {"answered", "upgrade failed"} : hs' = [hs EXCEPT !.at = at]

\* A client reads the 101; this library's takes no window of 8 bits.
axum_client_opens ==
    /\ hs.route = "axum" /\ hs.at = "answered"
    /\ hs' = [hs EXCEPT !.at = IF hs.own_client /\ hs.answer.response.deflate
                                  /\ ~CanUse(hs.answer.response) THEN "rejected" ELSE "open"]

-----------------------------------------------------------------------------
(* Extended CONNECT *)

H2Routes == {"h2", "h2_filtered"}
H3Routes == {"h3", "h3_filtered", "compio_h3"}
ConnectRoutes == H2Routes \cup H3Routes \cup {"compio_h2"}
Filtered == {"h2_filtered", "h3_filtered"}

\* This library's clients send CONNECT, version 13 and, over HTTP/2, :protocol websocket,
\* over HTTP/3 webtransport; they open a connection of their own or use a multiplexed one.
\* version: sec-websocket-version is 13 or absent.
ConnectInit ==
    \E route \in ConnectRoutes, own_client, multiplexed, connect_method, filter, enabled, version \in BOOLEAN,
       protocol \in {"absent", "websocket", "webtransport", "other"}, offered \in ProtocolLists :
       /\ own_client => /\ connect_method /\ version
                        /\ protocol = IF route \in H3Routes THEN "webtransport" ELSE "websocket"
       /\ multiplexed => own_client
       /\ route \notin Filtered => filter
       /\ route \notin H3Routes => enabled
       /\ hs = [route |-> route, at |-> "request", own_client |-> own_client,
                multiplexed |-> multiplexed, connect |-> connect_method, protocol |-> protocol,
                version |-> version, filter |-> filter, enabled |-> enabled, status |-> 0,
                offered |-> offered, selected |-> <<>>]

\* ExtendedConnectRequest::from_request: any CONNECT, and :protocol is never in its headers.
from_request == hs.connect

\* ExtendedConnectRequest::validate, of the :protocol value the handler gives it.
validate(protocol) == CASE protocol # "websocket" -> 501
                        [] protocol = "websocket" /\ ~hs.version -> 400
                        [] OTHER -> 200

\* What the sec-websocket-protocol of a 200 says; an error response has none.
Answer(status, protocols) ==
    hs' = [hs EXCEPT !.at = "answered", !.status = status,
                     !.selected = IF status = 200 THEN protocols ELSE <<>>]

\* Tokio HTTP/2: :protocol is taken to be websocket, the request is not validated, and the
\* whole offer goes back as the selection.
handle_http2_request ==
    /\ hs.route = "h2" /\ hs.at = "request"
    /\ Answer(IF from_request THEN 200 ELSE 400, hs.offered)
handle_http2_request_filtered ==
    /\ hs.route = "h2_filtered" /\ hs.at = "request"
    /\ Answer(CASE ~from_request -> 400 [] from_request /\ ~hs.filter -> 403 [] OTHER -> 200,
              hs.offered)

\* compio HTTP/2: :protocol is taken to be websocket too; no subprotocol is selected.
compio_handle_http2_request ==
    /\ hs.route = "compio_h2" /\ hs.at = "request"
    /\ Answer(IF ~from_request THEN 405 ELSE validate("websocket"), <<>>)

\* HTTP/3: :protocol is looked at, webtransport counts as websocket; no subprotocol is
\* selected.
H3Protocol == IF hs.protocol = "webtransport" THEN "websocket" ELSE hs.protocol
H3Unless(refused) ==
    Answer(CASE ~hs.enabled -> 501
             [] hs.enabled /\ ~from_request -> 405
             [] hs.enabled /\ from_request /\ refused -> 403
             [] OTHER -> validate(H3Protocol), <<>>)
handle_http3_request == hs.route = "h3" /\ hs.at = "request" /\ H3Unless(FALSE)
handle_http3_request_filtered ==
    hs.route = "h3_filtered" /\ hs.at = "request" /\ H3Unless(~hs.filter)
compio_handle_http3_request == hs.route = "compio_h3" /\ hs.at = "request" /\ H3Unless(FALSE)

\* Every client opens on 200 alone, whatever subprotocol the answer names.
Opens(routes, multiplexed) ==
    /\ hs.route \in routes /\ hs.multiplexed = multiplexed /\ hs.at = "answered"
    /\ hs' = [hs EXCEPT !.at = IF hs.status = 200 THEN "open" ELSE "rejected"]
http2_connect == Opens(H2Routes, FALSE)
http2_open_websocket == Opens(H2Routes, TRUE)
http3_connect == Opens({"h3", "h3_filtered"}, FALSE)
http3_open_websocket == Opens({"h3", "h3_filtered"}, TRUE)
compio_http2_open_websocket == \E multiplexed \in BOOLEAN : Opens({"compio_h2"}, multiplexed)
compio_http3_open_websocket == \E multiplexed \in BOOLEAN : Opens({"compio_h3"}, multiplexed)

IsOpen == IF hs.route = "http1" THEN hs.server.at = "open" /\ hs.client.at = "open" ELSE hs.at = "open"

-----------------------------------------------------------------------------
OpeningInit == Http1Init \/ AxumInit \/ ConnectInit

OpeningNext ==
    \/ client_sends_request \/ client_sends_data \/ server_sends_data
    \/ \E n \in 1..MaxPiece :
          \/ server_handshake(n) \/ compio_server_handshake(n)
          \/ client_handshake(n) \/ compio_client_handshake(n)
    \/ accept \/ accept_async \/ connect \/ connect_async
    \/ connection_lost \/ handshake_closed
    \/ from_request_parts \/ on_upgrade \/ into_response \/ axum_client_opens
    \/ handle_http2_request \/ handle_http2_request_filtered \/ compio_handle_http2_request
    \/ handle_http3_request \/ handle_http3_request_filtered \/ compio_handle_http3_request
    \/ http2_connect \/ http2_open_websocket \/ compio_http2_open_websocket
    \/ http3_connect \/ http3_open_websocket \/ compio_http3_open_websocket

-----------------------------------------------------------------------------
(* What is agreed *)

\* The server took a proper request; it chose what the client offered, by its own preference
\* if it has one; and an open client saw the answer to its own key and holds the same choice.
Http1Agrees ==
    /\ hs.server.at \in {"shaken", "open"} =>
          /\ hs.request.well_formed
          /\ hs.server.protocol \in ToSet(hs.offered) \cup {NoProtocol}
          /\ hs.picky => \A i \in DOMAIN hs.supported : hs.supported[i] \in ToSet(hs.offered) =>
                            \E j \in 1..i : hs.server.protocol = hs.supported[j]
    /\ hs.client.at = "open" =>
          /\ hs.response.well_formed /\ hs.response.accept
          /\ hs.client.protocol \in ToSet(hs.offered) \cup {NoProtocol}
          /\ hs.own_server => /\ hs.server.at \in {"shaken", "open"}
                              /\ hs.client.protocol = hs.server.protocol

\* RFC 7692: what an answer may say to an offer.
Legal(response, offer) ==
    /\ response.client # Absent => offer.client # Absent
    /\ offer.client \notin {Absent, NoValue} =>
          response.client <= offer.client /\ (response.client = Absent => offer.client = MaxBits)
    /\ offer.server # Absent => response.server # Absent /\ response.server <= offer.server
    /\ offer.snct => response.snct

\* The windows a client derives from the answer fit those of the server's codec, within the
\* server's policy.
AxumAgrees ==
    hs.answer.response.deflate =>
      LET response == hs.answer.response
          config == hs.answer.config
          theirs == from_params(response)
      IN /\ \E i \in DOMAIN hs.offers : hs.offers[i].legal /\ Legal(response, hs.offers[i])
         /\ config.server <= Min({theirs.server, hs.policy.server})
         /\ theirs.client <= Min({config.client, hs.policy.client})
         /\ [snct |-> config.snct, cnct |-> config.cnct] = [snct |-> theirs.snct, cnct |-> theirs.cnct]
         /\ (hs.policy.snct => config.snct) /\ (hs.policy.cnct => config.cnct)

\* What validate() asks of a request.
Proper == /\ hs.version
          /\ hs.protocol \in IF hs.route \in H3Routes THEN {"websocket", "webtransport"} ELSE {"websocket"}

\* What opens is a CONNECT past the filter, on a server that has Extended CONNECT enabled;
\* over HTTP/3 a proper one, and over compio's HTTP/2 one of version 13.  Those answer with
\* no subprotocol, Tokio's HTTP/2 with the client's offer.  This library's clients are
\* refused by the filter and by a disabled server only.
ConnectAgrees ==
    /\ hs.at = "open" => /\ hs.connect /\ hs.filter /\ hs.enabled
                         /\ hs.route \in H3Routes => Proper
                         /\ hs.route = "compio_h2" => hs.version
                         /\ hs.selected = IF hs.route \in H2Routes THEN hs.offered ELSE <<>>
    /\ hs.at = "rejected" /\ hs.own_client => ~hs.filter \/ ~hs.enabled

Agrees == CASE hs.route = "http1" -> Http1Agrees
            [] hs.route = "axum" -> AxumAgrees
            [] hs.route \in ConnectRoutes -> ConnectAgrees
            [] OTHER -> TRUE
=============================================================================
