------------------------------ MODULE Heartbeat ------------------------------
(***************************************************************************)
(* The keepalive of src/heartbeat.rs with explicit time, driven as the     *)
(* split writer driver of src/stream/websocket.rs drives it through the    *)
(* timer of src/stream/clock.rs.                                           *)
(*                                                                         *)
(* The reader publishes data activity in an atomic that wakes nobody and   *)
(* hands control frames, stamped with the time they arrived, to the        *)
(* driver's queue.  One pass of the driver's select is one step here (its  *)
(* inner interleavings are SplitStream's); time passes only while the      *)
(* driver waits and nothing it waits for is ready.  Time is in             *)
(* milliseconds from the connection's epoch.                               *)
(***************************************************************************)
EXTENDS Integers, Sequences

CONSTANTS Configs,   \* records [auto_ping, ping_interval, idle_timeout, pong_timeout]
          MaxTime,   \* bound: the clock
          Far,       \* the timer's first registration, an hour after the epoch
          MaxQueue   \* bound: control frames not yet taken by the driver

ASSUME HeartbeatAssumption ==
    /\ \A c \in Configs :
         /\ c.auto_ping \in BOOLEAN
         /\ c.ping_interval \in Nat /\ c.idle_timeout \in Nat /\ c.pong_timeout \in Nat
         /\ c.auto_ping => c.ping_interval # 0
    /\ MaxTime \in Nat /\ MaxQueue \in Nat /\ Far \in Nat

VARIABLES
    config,
    now,
    last_inbound,   \* Heartbeat::last_inbound_ms
    outstanding,    \* Heartbeat::outstanding
    stopped,        \* Heartbeat::stopped
    published,      \* SplitShared::last_inbound_ms
    queue,          \* control frames handed over: kind, payload, arrival time
    drv,            \* the driver's locals: write in progress, Pong owed, early Pong
    armed,          \* the deadline of the current select: kind and time
    registered,     \* HeartbeatTimer's registration with the runtime
    outcome,        \* open, or how the connection ended
    nonce,          \* NEXT_NONCE
    seen            \* history: last frame's arrival, flush time and in-time answer of
                    \* the outstanding Ping

vars == <<config, now, last_inbound, outstanding, stopped, published, queue, drv, armed,
          registered, outcome, nonce, seen>>

-----------------------------------------------------------------------------
(* Heartbeat: its deadlines and transitions.  hb is a record of the three fields. *)

NoPing == [active |-> FALSE, payload |-> 0, timed |-> FALSE, deadline |-> 0,
           flushed |-> FALSE, acknowledged |-> FALSE]

hb == [last |-> last_inbound, ping |-> outstanding, stopped |-> stopped]

NoDeadline == [kind |-> "none", at |-> 0]

idle_deadline(h) == h.last + config.idle_timeout

\* The Pong deadline wins a tie with the idle deadline.
next_hard_deadline(h) ==
    IF h.stopped THEN NoDeadline
    ELSE IF h.ping.timed /\ ~(config.idle_timeout # 0 /\ idle_deadline(h) < h.ping.deadline)
         THEN [kind |-> "Pong", at |-> h.ping.deadline]
    ELSE IF config.idle_timeout # 0 THEN [kind |-> "Idle", at |-> idle_deadline(h)]
    ELSE NoDeadline

\* Without a Pong deadline: the earlier of idle timeout and next Ping, idle first.
next_deadline(h) ==
    LET ping == h.last + config.ping_interval
    IN IF h.stopped \/ h.ping.timed \/ ~config.auto_ping \/ h.ping.active
            \/ (config.idle_timeout # 0 /\ idle_deadline(h) <= ping)
       THEN next_hard_deadline(h)
       ELSE [kind |-> "Ping", at |-> ping]

ping_due_starts_timer(h, payload) ==
    [h EXCEPT !.ping = [NoPing EXCEPT !.active = TRUE, !.payload = payload,
                                      !.timed = (config.pong_timeout # 0),
                                      !.deadline = now + config.pong_timeout]]

ping_due(h, payload) ==
    [h EXCEPT !.ping = [NoPing EXCEPT !.active = TRUE, !.payload = payload]]

\* The Pong timer starts now, unless the Pong came before the flush.
ping_flushed(h, at) ==
    IF ~h.ping.active \/ h.ping.flushed THEN h
    ELSE IF h.ping.acknowledged THEN [h EXCEPT !.ping = NoPing]
    ELSE [h EXCEPT !.ping.flushed = TRUE, !.ping.timed = (config.pong_timeout # 0),
                   !.ping.deadline = IF config.pong_timeout = 0 THEN 0 ELSE at + config.pong_timeout]

Later(a, b) == IF a < b THEN b ELSE a

any_pong_matches(h, at, payload) ==
    IF h.stopped THEN h
    ELSE [h EXCEPT !.last = Later(@, at), !.ping = IF payload # 0 /\ @.flushed THEN NoPing ELSE @]

\* Every frame resets inactivity (payload 0: not a Pong); only the outstanding Ping's own Pong, in time, clears it.
on_inbound(h, at, payload) ==
    LET matching == h.ping.active /\ payload # 0 /\ payload = h.ping.payload
    IN IF h.stopped THEN h
       ELSE [h EXCEPT
               !.last = Later(@, at),
               !.ping = IF matching /\ ~@.flushed THEN [@ EXCEPT !.acknowledged = TRUE]
                        ELSE IF matching /\ (~@.timed \/ at < @.deadline) THEN NoPing ELSE @]

stop(h) == [h EXCEPT !.stopped = TRUE, !.ping = NoPing]

SetHeartbeat(h) ==
    last_inbound' = h.last /\ outstanding' = h.ping /\ stopped' = h.stopped

-----------------------------------------------------------------------------
(* The driver *)

Init ==
    /\ config \in Configs
    /\ now = 0 /\ last_inbound = 0 /\ published = 0 /\ nonce = 0
    /\ outstanding = NoPing /\ stopped = FALSE
    /\ queue = <<>>
    /\ drv = [write |-> "none", pong |-> FALSE, synced |-> 0, payload |-> 0, early |-> FALSE, earlyAt |-> 0]
    /\ armed = next_deadline(hb)
    /\ registered = IF armed.kind # "none" /\ armed.at < Far THEN armed.at ELSE Far
    /\ outcome = "open"
    /\ seen = [last |-> 0, flushedAt |-> 0, answered |-> FALSE]

\* Data activity the reader published since the last look.
Synced(h, d) == IF published > d.synced THEN on_inbound(h, published, 0) ELSE h

\* HeartbeatTimer::poll on entering the select: an earlier deadline moves the registration.
timer_keeps_registration(deadline) == UNCHANGED registered

Register(deadline) ==
    registered' = IF deadline.kind # "none" /\ deadline.at < registered THEN deadline.at
                  ELSE registered

\* Top of the loop: pick up activity, start the Pong that is owed, arm the timer.
Loop(h, d) ==
    LET h2 == Synced(h, d)
        d2 == [d EXCEPT !.synced = Later(@, published),
                        !.write = IF @ = "none" /\ d.pong THEN "Pong" ELSE @,
                        !.pong = IF d.write = "none" THEN FALSE ELSE @]
        next == IF d2.write = "none" THEN next_deadline(h2) ELSE next_hard_deadline(h2)
    IN /\ SetHeartbeat(h2)
       /\ drv' = d2
       /\ armed' = next
       /\ Register(next)

\* The first arm of the select that is ready: a control frame.
driver_control ==
    /\ outcome = "open" /\ queue # <<>>
    /\ queue' = Tail(queue)
    /\ LET f == Head(queue)
       IN \/ /\ f.kind = "Ping"
             /\ Loop(on_inbound(hb, f.at, 0), [drv EXCEPT !.pong = TRUE])
             /\ UNCHANGED outcome
          \/ /\ f.kind = "Pong"
             /\ Loop(on_inbound(hb, f.at, f.payload),
                     IF drv.payload # 0 /\ drv.payload = f.payload
                     THEN [drv EXCEPT !.early = TRUE, !.earlyAt = f.at] ELSE drv)
             /\ UNCHANGED outcome
          \/ \* any of the requests that start closing
             /\ f.kind = "Close"
             /\ SetHeartbeat(stop(hb))
             /\ outcome' = "closing"
             /\ armed' = NoDeadline
             /\ UNCHANGED <<drv, registered>>
    /\ UNCHANGED <<config, now, published, nonce, seen>>

\* The timer is polled when its registration passes; a deadline that is later than the
\* registration is registered anew.
Fires == armed.kind # "none" /\ registered <= now

timer_rearm ==
    /\ outcome = "open" /\ queue = <<>> /\ Fires /\ armed.at > now
    /\ registered' = armed.at
    /\ UNCHANGED <<config, now, last_inbound, outstanding, stopped, published, queue, drv,
                   armed, outcome, nonce, seen>>

Expire(h, d, next) ==
    IF next.kind = "Ping" /\ next.at <= now
    THEN /\ nonce' = nonce + 1
         /\ seen' = [seen EXCEPT !.answered = FALSE]
         /\ Loop(ping_due(h, nonce + 1), [d EXCEPT !.write = "Ping", !.payload = nonce + 1])
         /\ UNCHANGED outcome
    ELSE IF next.kind \in {"Pong", "Idle"} /\ next.at <= now
    THEN /\ outcome' = next.kind
         /\ SetHeartbeat(h) /\ drv' = d /\ armed' = NoDeadline
         /\ UNCHANGED <<nonce, registered, seen>>
    ELSE /\ Loop(h, d)
         /\ UNCHANGED <<nonce, outcome, seen>>

driver_trusts_armed_deadline ==
    /\ outcome = "open" /\ queue = <<>> /\ Fires /\ armed.at <= now
    /\ Expire(hb, drv, armed)
    /\ UNCHANGED <<config, now, published, queue>>

\* "Activity may have arrived while the driver waited on this timer": decide again.
driver_timer ==
    /\ outcome = "open" /\ queue = <<>> /\ Fires /\ armed.at <= now
    /\ LET h == Synced(hb, drv)
           d == [drv EXCEPT !.synced = Later(@, published)]
       IN Expire(h, d, IF d.write = "none" THEN next_deadline(h) ELSE next_hard_deadline(h))
    /\ UNCHANGED <<config, now, published, queue>>

\* The frame in progress is flushed.  A matching Pong that overtook the flush is applied.
driver_written ==
    /\ outcome = "open" /\ queue = <<>> /\ ~Fires /\ drv.write # "none"
    /\ IF drv.write = "Ping"
       THEN LET h == ping_flushed(hb, now)
            IN /\ Loop(IF drv.early THEN on_inbound(h, drv.earlyAt, drv.payload) ELSE h,
                       [drv EXCEPT !.write = "none", !.payload = 0, !.early = FALSE, !.earlyAt = 0])
               /\ seen' = [seen EXCEPT !.flushedAt = now]
       ELSE Loop(hb, [drv EXCEPT !.write = "none"]) /\ UNCHANGED seen
    /\ UNCHANGED <<config, now, published, queue, outcome, nonce>>

-----------------------------------------------------------------------------
(* The reader and time *)

tracks_inbound_activity == config.auto_ping \/ config.idle_timeout # 0

\* note_inbound: a data frame or fragment.
note_inbound ==
    /\ outcome = "open"
    /\ published' = IF tracks_inbound_activity THEN Later(published, now) ELSE published
    /\ seen' = [seen EXCEPT !.last = now]
    /\ UNCHANGED <<config, now, last_inbound, outstanding, stopped, queue, drv, armed,
                   registered, outcome, nonce>>

\* A control frame; a Pong carries any payload seen so far or one of the peer's own (0 for
\* Pings, nonce + 1 for a foreign payload).
hand_over(kind, payload) ==
    /\ outcome = "open" /\ Len(queue) < MaxQueue
    /\ queue' = Append(queue, [kind |-> kind, payload |-> payload, at |-> now])
    /\ seen' = [seen EXCEPT !.last = now,
                            !.answered = @ \/ (/\ kind = "Pong" /\ payload = outstanding.payload
                                               /\ outstanding.active
                                               /\ outstanding.timed => now < outstanding.deadline)]
    /\ UNCHANGED <<config, now, last_inbound, outstanding, stopped, published, drv, armed,
                   registered, outcome, nonce>>

\* Time passes while the driver sleeps.
tick ==
    /\ outcome = "open" /\ now < MaxTime
    /\ queue = <<>> /\ ~Fires
    /\ now' = now + 1
    /\ UNCHANGED <<config, last_inbound, outstanding, stopped, published, queue, drv, armed,
                   registered, outcome, nonce, seen>>

-----------------------------------------------------------------------------

Next ==
    \/ driver_control \/ timer_rearm \/ driver_timer \/ driver_written
    \/ note_inbound \/ tick
    \/ hand_over("Ping", 0) \/ hand_over("Close", 0)
    \/ \E payload \in 1 .. nonce + 1 : hand_over("Pong", payload)

Spec == Init /\ [][Next]_vars

-----------------------------------------------------------------------------
(* Properties *)

\* Type invariant: no activity is from the future, and only a flushed Ping is timed.
TypeOK ==
    /\ last_inbound <= now /\ published <= now
    /\ outstanding.timed => outstanding.flushed
    /\ config \in Configs
    /\ now \in Nat /\ last_inbound \in Nat /\ published \in Nat /\ nonce \in Nat
    /\ registered \in Nat /\ stopped \in BOOLEAN
    /\ outstanding \in [active : BOOLEAN, payload : Nat, timed : BOOLEAN, deadline : Nat,
                        flushed : BOOLEAN, acknowledged : BOOLEAN]
    /\ queue \in Seq([kind : {"Ping", "Pong", "Close"}, payload : Nat, at : Nat])
    /\ drv \in [write : {"none", "Ping", "Pong"}, pong : BOOLEAN, synced : Nat, payload : Nat,
                early : BOOLEAN, earlyAt : Nat]
    /\ armed \in [kind : {"none", "Ping", "Pong", "Idle"}, at : Nat]
    /\ outcome \in {"open", "closing", "Pong", "Idle"}
    /\ seen \in [last : Nat, flushedAt : Nat, answered : BOOLEAN]

\* README: "The Pong timer begins only after that Ping is written and flushed.  Only a Pong
\* with the exact payload clears it".  A connection is given up for a missing Pong only
\* when the full pong_timeout passed since the flush and no in-time answer came.
PongTimeoutJustified ==
    outcome = "Pong" =>
        /\ outstanding.flushed
        /\ now >= seen.flushedAt + config.pong_timeout
        /\ ~seen.answered

\* A connection is given up as idle only when no frame at all arrived for idle_timeout,
\* though data frames are published without waking the driver; and "if a hard idle_timeout
\* and Pong deadline tie, the more specific Pong timeout wins".
IdleTimeoutJustified ==
    outcome = "Idle" =>
        /\ now >= seen.last + config.idle_timeout
        /\ outstanding.timed => idle_deadline(hb) < outstanding.deadline

\* No deadline passes unnoticed: while the connection is open a silent peer is pinged after
\* ping_interval, given up pong_timeout after the flush and idle_timeout after its last
\* frame, even behind a write that does not finish.  (A Ping that was due behind such a
\* write goes out in the driver's next step after it, before time passes.)
NoDeadlineMissed ==
    outcome = "open" =>
        /\ config.idle_timeout # 0 => now <= seen.last + config.idle_timeout
        /\ outstanding.timed => now <= outstanding.deadline
        /\ config.auto_ping /\ ~outstanding.active /\ drv.write = "none" =>
               now <= seen.last + config.ping_interval \/ Fires

\* README: "Only a Pong with the exact payload clears it; unsolicited, stale, late, or
\* wrong-payload Pongs do not", and other traffic "does not extend or satisfy that Ping's
\* Pong deadline".
OnlyItsPongSettlesPing ==
    [][outstanding.active /\ ~stopped' =>
         \/ /\ outstanding'.active /\ outstanding'.payload = outstanding.payload
            /\ outstanding.timed => outstanding'.deadline = outstanding.deadline
         \/ seen.answered]_vars

=============================================================================
