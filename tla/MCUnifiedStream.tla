--------------------------- MODULE MCUnifiedStream ---------------------------
(* UnifiedStream for TLC: transports, peers and what the application sends. *)
EXTENDS UnifiedStream, TLC

Plain == [compressed |-> FALSE, immediate |-> FALSE, vectored |-> TRUE, beats |-> FALSE,
          threshold |-> 3, full |-> FALSE, leftover |-> 0, script |-> <<>>, items |-> {}, sends |-> 0,
          pings |-> 0, calls |-> {"next", "ready", "flush"}, moves |-> 0, faults |-> FALSE]

\* A Ping while the application feeds; a Ping and Close read together.
Feeding == [Plain EXCEPT !.script = <<"ping">>, !.items = {"small", "large"}, !.sends = 2, !.full = TRUE]
Crossing == [Plain EXCEPT !.script = <<"ping", "close">>, !.items = {"small"}, !.sends = 1,
                          !.leftover = 1, !.immediate = TRUE,
                          !.calls = @ \cup {"close", "close_both"}]
\* Messages before a bad frame; the transport breaks.
Broken == [Plain EXCEPT !.script = <<"frag", "data", "bad">>, !.vectored = FALSE, !.faults = TRUE, !.calls = @ \cup {"close"}]
\* Heartbeat.
Beating == [Plain EXCEPT !.script = <<"pong">>, !.beats = TRUE, !.pings = 1,
                         !.items = {"small"}, !.sends = 1]
Moving == [Plain EXCEPT !.script = <<"ping", "data">>, !.leftover = 2, !.moves = 1, !.items = {"small"}, !.sends = 1,
                        !.threshold = 1]
Squeezed(situation) == [situation EXCEPT !.compressed = TRUE]

SomeSetups == {Feeding, Crossing, Broken, Beating, Moving, Squeezed(Crossing), Squeezed(Broken), Squeezed(Beating)}
\* The Sink half sends Close through start_send; the peer stays silent.
SilentPeer == {[Plain EXCEPT !.items = {"close"}, !.sends = 1]}
AnyTask == Permutations(Tasks)
=============================================================================
