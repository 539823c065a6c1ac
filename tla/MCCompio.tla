------------------------------ MODULE MCCompio ------------------------------
(* The Compio streams for TLC: peers, applications and transports. *)
EXTENDS CompioSplit

Plain == [compressed |-> FALSE, immediate |-> FALSE, beats |-> FALSE, idle |-> FALSE,
          stubborn |-> FALSE, script |-> <<>>, leftover |-> 0, items |-> {}, sends |-> 0,
          pings |-> 0, faults |-> FALSE, splits |-> FALSE, drops |-> FALSE]

\* The unified stream: closing from both sides; heartbeat; a transport that breaks.
Closing == [Plain EXCEPT !.script = <<"ping", "data", "ping", "close">>, !.leftover = 1, !.immediate = TRUE,
                         !.items = {"data", "close", "flush"}, !.sends = 2, !.drops = TRUE]
Beating == [Plain EXCEPT !.beats = TRUE, !.idle = TRUE, !.script = <<"pong", "frag", "ping">>,
                         !.pings = 2, !.items = {"data", "close"}, !.sends = 1, !.drops = TRUE]
Stubborn == [Plain EXCEPT !.beats = TRUE, !.stubborn = TRUE, !.script = <<"data", "pong">>, !.pings = 2]
Breaking == [Plain EXCEPT !.script = <<"data", "ping", "bad">>, !.faults = TRUE,
                          !.items = {"data", "close"}, !.sends = 1]

\* Split: controls behind a full channel, cancelled calls, closing, heartbeat, faults.
Crowded == [Plain EXCEPT !.splits = TRUE, !.drops = TRUE, !.script = <<"ping", "pong", "ping", "close">>,
                         !.leftover = 2, !.items = {"data"}, !.sends = 1]
SplitClosing == [Plain EXCEPT !.splits = TRUE, !.script = <<"data", "ping", "close">>,
                              !.items = {"data", "close", "flush"}, !.sends = 2]
SplitBeating == [Plain EXCEPT !.splits = TRUE, !.beats = TRUE, !.idle = TRUE, !.pings = 1,
                              !.script = <<"data", "pong", "frag">>, !.items = {"data"}, !.sends = 1]
SplitBreaking == [Plain EXCEPT !.splits = TRUE, !.faults = TRUE, !.drops = TRUE,
                               !.script = <<"ping", "data", "bad">>, !.items = {"data"}, !.sends = 1]
Squeezed(situation) == [situation EXCEPT !.compressed = TRUE]

WholeStream == {Closing, Beating, Stubborn, Breaking}
SomeSetups == WholeStream \cup {Squeezed(situation) : situation \in WholeStream}
    \cup {Crowded, SplitClosing, SplitBeating, SplitBreaking, Squeezed(Crowded), Squeezed(SplitBreaking)}
=============================================================================
