----------------------------- MODULE MCHeartbeat -----------------------------
(* Heartbeat for TLC: intervals of a few milliseconds, any of them disabled by 0. *)
EXTENDS Heartbeat

AllConfigs ==
    {c \in [auto_ping : BOOLEAN, ping_interval : {0, 2}, idle_timeout : {0, 4, 5},
            pong_timeout : {0, 2}] : c.auto_ping <=> c.ping_interval # 0}
=============================================================================
