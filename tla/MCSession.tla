------------------------------ MODULE MCSession ------------------------------
(* Instances of Session for TLC. *)
EXTENDS Session

\* Windows at both ends of their range, with and without context takeover, and modes.
MCPolicies == [server : {9, 15}, client : {9, 15}, snct : BOOLEAN, cnct : BOOLEAN]
              \cup {to_deflate_config(mode) : mode \in {"Window1KB", "Window8KB", "Shared", "Dedicated"}}

Offer(server, client, snct, cnct) ==
    [legal |-> TRUE, server |-> server, client |-> client, snct |-> snct, cnct |-> cnct]
Unknown == [Offer(Absent, Absent, FALSE, FALSE) EXCEPT !.legal = FALSE]
MCOffers == {Offer(server, client, snct, cnct) : server \in {Absent, 8, 9, 15},
                client \in {Absent, NoValue, 8, 9, 15}, snct \in BOOLEAN, cnct \in BOOLEAN}

\* Every offer alone, an unknown one before it, and a plain fallback behind a strict one.
MCBids == {<<>>} \cup {<<offer>> : offer \in MCOffers}
          \cup {<<Unknown, Offer(Absent, NoValue, FALSE, FALSE)>>,
                <<Offer(8, NoValue, FALSE, FALSE), Offer(Absent, NoValue, FALSE, FALSE)>>,
                <<Offer(9, Absent, TRUE, TRUE), Offer(Absent, NoValue, FALSE, FALSE)>>}

MCChunks == << <<1, 2>>, <<>>, <<3>> >>
=============================================================================
