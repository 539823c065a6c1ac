-------------------------- MODULE HeartbeatProofs --------------------------
(***************************************************************************)
(* The heartbeat's timing, for every configuration, clock bound and queue  *)
(* bound: no connection is given up early, no deadline passes unnoticed,   *)
(* and only its own Pong settles a Ping.                                   *)
(*                                                                         *)
(* None of these is inductive.  The invariant says that the armed deadline *)
(* is the one the current state calls for and that the timer is registered *)
(* no later (ArmedInv: why nothing is missed); that the last arrival is in *)
(* last_inbound, in the published atomic or in the queue (ArrivalInv: why  *)
(* an idle timeout is justified although data frames wake nobody); where   *)
(* the outstanding Ping is, from the write in progress to the flush and    *)
(* the early Pong (PingInv); and that an in-time answer is either          *)
(* acknowledged or still queued (AnswerInv: why a Pong timeout is          *)
(* justified).                                                             *)
(***************************************************************************)
EXTENDS Heartbeat, SequenceTheorems, TLAPS

HB == [last : Nat,
       ping : [active : BOOLEAN, payload : Nat, timed : BOOLEAN, deadline : Nat,
               flushed : BOOLEAN, acknowledged : BOOLEAN],
       stopped : BOOLEAN]

Driver == [write : {"none", "Ping", "Pong"}, pong : BOOLEAN, synced : Nat, payload : Nat,
           early : BOOLEAN, earlyAt : Nat]

\* The deadline the select waits for
Current(h, d) == IF d.write = "none" THEN next_deadline(h) ELSE next_hard_deadline(h)

ArmedInv ==
    /\ ~stopped
    /\ armed = Current(hb, drv)
    /\ armed.kind # "none" => registered <= armed.at

ArrivalInv ==
    /\ seen.last <= now
    /\ last_inbound <= seen.last /\ published <= seen.last /\ drv.earlyAt <= seen.last
    /\ drv.synced <= last_inbound
    /\ \A i \in 1 .. Len(queue) : queue[i].at <= seen.last
    /\ tracks_inbound_activity =>
         \/ seen.last <= last_inbound \/ seen.last <= published
         \/ \E i \in 1 .. Len(queue) : seen.last <= queue[i].at

PingInv ==
    /\ outstanding.active => outstanding.payload # 0
    /\ outstanding.timed =>
         /\ outstanding.active /\ outstanding.flushed
         /\ outstanding.deadline = seen.flushedAt + config.pong_timeout
    /\ outstanding.acknowledged => outstanding.active /\ ~outstanding.flushed
    /\ drv.write = "Ping" =>
         outstanding.active /\ ~outstanding.flushed /\ drv.payload = outstanding.payload
    /\ drv.write # "Ping" =>
         ~(outstanding.active /\ ~outstanding.flushed) /\ drv.payload = 0 /\ ~drv.early
    /\ drv.early => outstanding.acknowledged

\* f is the Pong of the outstanding Ping, and in time
Answers(f) ==
    /\ f.kind = "Pong" /\ outstanding.active /\ f.payload = outstanding.payload
    /\ outstanding.timed => f.at < outstanding.deadline

AnswerInv ==
    /\ outstanding.acknowledged => seen.answered
    /\ (\E i \in 1 .. Len(queue) : Answers(queue[i])) => seen.answered
    /\ seen.answered /\ outstanding.active =>
         outstanding.acknowledged \/ \E i \in 1 .. Len(queue) : Answers(queue[i])

InTime ==
    /\ config.idle_timeout # 0 => now <= seen.last + config.idle_timeout
    /\ outstanding.timed => now <= outstanding.deadline

IInv ==
    /\ TypeOK
    /\ outcome = "open" => ArmedInv /\ ArrivalInv /\ PingInv /\ AnswerInv /\ InTime
    /\ PongTimeoutJustified
    /\ IdleTimeoutJustified

-----------------------------------------------------------------------------
(* The heartbeat's operators *)

Deadline == [kind : {"none", "Ping", "Pong", "Idle"}, at : Nat]

\* The configured durations are natural numbers.
LEMMA ConfigType ==
    ASSUME config \in Configs
    PROVE  /\ config.auto_ping \in BOOLEAN /\ config.ping_interval \in Nat
           /\ config.idle_timeout \in Nat /\ config.pong_timeout \in Nat
BY HeartbeatAssumption

\* The later of two times.
LEMMA LaterType ==
    ASSUME NEW a \in Nat, NEW b \in Nat
    PROVE  Later(a, b) \in Nat /\ a <= Later(a, b) /\ b <= Later(a, b) /\ Later(a, b) \in {a, b}
BY DEF Later

\* The heartbeat's three fields as a record, the driver's locals and the armed deadline.
LEMMA HeartbeatType == TypeOK => hb \in HB /\ drv \in Driver /\ armed \in Deadline
BY DEF TypeOK, hb, HB, Driver, Deadline

\* The cleared Ping is well typed.
LEMMA NoPingType == NoPing \in [active : BOOLEAN, payload : Nat, timed : BOOLEAN, deadline : Nat,
                                flushed : BOOLEAN, acknowledged : BOOLEAN]
BY DEF NoPing

Matches(h, payload) == h.ping.active /\ payload # 0 /\ payload = h.ping.payload

\* on_inbound: activity moves forward; the Ping is acknowledged before its flush, cleared
\* by its Pong in time, and otherwise untouched.
LEMMA OnInbound ==
    ASSUME NEW h \in HB, NEW at \in Nat, NEW payload \in Nat, ~h.stopped
    PROVE  /\ on_inbound(h, at, payload) \in HB
           /\ on_inbound(h, at, payload).last = Later(h.last, at)
           /\ ~on_inbound(h, at, payload).stopped
           /\ Matches(h, payload) /\ ~h.ping.flushed =>
                on_inbound(h, at, payload).ping = [h.ping EXCEPT !.acknowledged = TRUE]
           /\ Matches(h, payload) /\ h.ping.flushed /\ (h.ping.timed => at < h.ping.deadline) =>
                on_inbound(h, at, payload).ping = NoPing
           /\ ~Matches(h, payload) \/ (h.ping.flushed /\ h.ping.timed /\ ~(at < h.ping.deadline)) =>
                on_inbound(h, at, payload).ping = h.ping
<1> DEFINE new == IF Matches(h, payload) /\ ~h.ping.flushed THEN [h.ping EXCEPT !.acknowledged = TRUE]
                  ELSE IF Matches(h, payload) /\ (~h.ping.timed \/ at < h.ping.deadline) THEN NoPing
                  ELSE h.ping
<1>1. on_inbound(h, at, payload) = [h EXCEPT !.last = Later(@, at), !.ping = new]
  BY DEF on_inbound, Matches
<1>2. new \in [active : BOOLEAN, payload : Nat, timed : BOOLEAN, deadline : Nat,
               flushed : BOOLEAN, acknowledged : BOOLEAN]
  BY NoPingType DEF HB
<1>3. Later(h.last, at) \in Nat
  BY LaterType DEF HB
<1>4. /\ on_inbound(h, at, payload) \in HB
      /\ on_inbound(h, at, payload).last = Later(h.last, at)
      /\ on_inbound(h, at, payload).stopped = h.stopped
      /\ on_inbound(h, at, payload).ping = new
  <2> HIDE DEF new
  <2> QED BY <1>1, <1>2, <1>3 DEF HB
<1> QED
  BY <1>4 DEF HB

\* The two deadline functions return a deadline.
LEMMA DeadlineType ==
    ASSUME config \in Configs, NEW h \in HB
    PROVE  /\ next_hard_deadline(h) \in Deadline /\ next_deadline(h) \in Deadline
           /\ idle_deadline(h) \in Nat
<1>1. /\ idle_deadline(h) \in Nat /\ h.last + config.ping_interval \in Nat /\ h.ping.deadline \in Nat
  BY ConfigType DEF idle_deadline, HB
<1>2. next_hard_deadline(h) \in Deadline
  BY <1>1 DEF next_hard_deadline, NoDeadline, Deadline
<1> QED
  BY <1>1, <1>2 DEF next_deadline, Deadline

\* One pass of the loop: the published activity is folded in, the Ping is untouched, and
\* the timer is registered no later than the deadline it now waits for.
LEMMA LoopEffect ==
    ASSUME TypeOK, NEW h \in HB, NEW d \in Driver, ~h.stopped, d.synced <= h.last, Loop(h, d),
           UNCHANGED config
    PROVE  /\ last_inbound' = Later(h.last, published) /\ last_inbound' \in Nat
           /\ outstanding' = h.ping /\ stopped' = FALSE
           /\ drv' \in Driver /\ drv'.synced = Later(d.synced, published)
           /\ drv'.payload = d.payload /\ drv'.early = d.early /\ drv'.earlyAt = d.earlyAt
           /\ drv'.write = IF d.write = "none" /\ d.pong THEN "Pong" ELSE d.write
           /\ hb' \in HB /\ armed' \in Deadline /\ registered' \in Nat
           /\ armed' = Current(hb, drv)'
           /\ armed'.kind # "none" => registered' <= armed'.at
<1> DEFINE h2 == Synced(h, d)
           d2 == [d EXCEPT !.synced = Later(@, published),
                           !.write = IF @ = "none" /\ d.pong THEN "Pong" ELSE @,
                           !.pong = IF d.write = "none" THEN FALSE ELSE @]
           next == IF d2.write = "none" THEN next_deadline(h2) ELSE next_hard_deadline(h2)
<1>0. published \in Nat /\ config \in Configs /\ registered \in Nat
  BY DEF TypeOK
<1>1. h2 \in HB /\ h2.last = Later(h.last, published) /\ h2.stopped = FALSE /\ h2.ping = h.ping
  <2>1. CASE published > d.synced
    <3>1. ~Matches(h, 0)
      BY DEF Matches
    <3>2. h2 = on_inbound(h, published, 0)
      BY <2>1 DEF Synced
    <3>3. 0 \in Nat
      OBVIOUS
    <3>4. /\ on_inbound(h, published, 0) \in HB
          /\ on_inbound(h, published, 0).last = Later(h.last, published)
          /\ ~on_inbound(h, published, 0).stopped
          /\ on_inbound(h, published, 0).ping = h.ping
      BY <1>0, <3>1, <3>3, OnInbound
    <3>5. h2.stopped \in BOOLEAN
      BY <3>2, <3>4 DEF HB
    <3> QED
      BY <3>2, <3>4, <3>5
  <2>2. CASE ~(published > d.synced)
    <3>1. h2 = h /\ published <= h.last /\ h.last \in Nat
      BY <1>0, <2>2 DEF Synced, HB, Driver
    <3> QED
      BY <1>0, <3>1 DEF Later, HB
  <2> QED
    BY <2>1, <2>2
<1>2. /\ d2 \in Driver /\ d2.synced = Later(d.synced, published)
      /\ d2.payload = d.payload /\ d2.early = d.early /\ d2.earlyAt = d.earlyAt
      /\ d2.write = IF d.write = "none" /\ d.pong THEN "Pong" ELSE d.write
  <2>1. Later(d.synced, published) \in Nat
    BY <1>0, LaterType DEF Driver
  <2> QED
    BY <2>1 DEF Driver
<1>3. /\ SetHeartbeat(h2) /\ drv' = d2 /\ armed' = next /\ Register(next)
  BY DEF Loop
<1> HIDE DEF h2, d2
<1>4. next \in Deadline
  BY <1>0, <1>1, DeadlineType
<1>5. hb' = h2
  <2>1. hb' = [last |-> h2.last, ping |-> h2.ping, stopped |-> h2.stopped]
    BY <1>3 DEF hb, SetHeartbeat
  <2> QED
    BY <1>1, <2>1 DEF HB
<1>6. armed' = Current(hb, drv)'
  <2>1. Current(hb, drv)' = IF drv'.write = "none" THEN next_deadline(h2) ELSE next_hard_deadline(h2)
    BY <1>5 DEF Current, next_deadline, next_hard_deadline, idle_deadline
  <2> QED
    BY <1>3, <2>1
<1>7. registered' \in Nat /\ (next.kind # "none" => registered' <= next.at)
  <2> HIDE DEF next
  <2> QED BY <1>0, <1>3, <1>4 DEF Register, Deadline
<1>8. last_inbound' = h2.last /\ outstanding' = h2.ping /\ stopped' = h2.stopped
  BY <1>3 DEF SetHeartbeat
<1>9. h2.last \in Nat
  BY <1>1 DEF HB
<1> QED
  <2> HIDE DEF next
  <2> QED BY <1>1, <1>2, <1>3, <1>4, <1>5, <1>6, <1>7, <1>8, <1>9

-----------------------------------------------------------------------------
(* What the timer waits for is never later than the deadline it stands for *)

\* The deadline waited for is never later than the idle deadline, the Pong deadline, or,
\* with no write in progress, the next Ping.
LEMMA DeadlineBound ==
    ASSUME config \in Configs, NEW h \in HB, NEW d, ~h.stopped
    PROVE  /\ config.idle_timeout # 0 =>
                Current(h, d).kind # "none" /\ Current(h, d).at <= h.last + config.idle_timeout
           /\ h.ping.timed =>
                Current(h, d).kind # "none" /\ Current(h, d).at <= h.ping.deadline
           /\ config.auto_ping /\ ~h.ping.active /\ ~h.ping.timed /\ d.write = "none" =>
                Current(h, d).kind # "none" /\ Current(h, d).at <= h.last + config.ping_interval
<1>1. /\ h.last \in Nat /\ h.ping.deadline \in Nat
      /\ config.ping_interval \in Nat /\ config.idle_timeout \in Nat
  BY ConfigType DEF HB
<1>2. config.idle_timeout # 0 =>
        next_hard_deadline(h).kind # "none" /\ next_hard_deadline(h).at <= h.last + config.idle_timeout
  BY <1>1 DEF next_hard_deadline, idle_deadline, NoDeadline
<1>3. h.ping.timed =>
        next_hard_deadline(h).kind # "none" /\ next_hard_deadline(h).at <= h.ping.deadline
  BY <1>1 DEF next_hard_deadline, idle_deadline, NoDeadline
<1>4. config.idle_timeout # 0 =>
        next_deadline(h).kind # "none" /\ next_deadline(h).at <= h.last + config.idle_timeout
  BY <1>1, <1>2 DEF next_deadline, idle_deadline
<1>5. h.ping.timed => next_deadline(h) = next_hard_deadline(h)
  BY DEF next_deadline
<1>6. config.auto_ping /\ ~h.ping.active /\ ~h.ping.timed =>
        next_deadline(h).kind # "none" /\ next_deadline(h).at <= h.last + config.ping_interval
  <2>1. next_hard_deadline(h).at \in Nat
    BY DeadlineType DEF Deadline
  <2> QED
    BY <1>1, <1>2, <2>1 DEF next_deadline, idle_deadline
<1> QED
  BY <1>2, <1>3, <1>4, <1>5, <1>6 DEF Current

\* The kind of the deadline says which condition set it.
LEMMA DeadlineKind ==
    ASSUME config \in Configs, NEW h \in HB, NEW d
    PROVE  /\ Current(h, d).kind = "Ping" =>
                d.write = "none" /\ ~h.ping.active /\ ~h.ping.timed
           /\ Current(h, d).kind = "Pong" => h.ping.timed /\ Current(h, d).at = h.ping.deadline
           /\ Current(h, d).kind = "Idle" =>
                /\ config.idle_timeout # 0 /\ Current(h, d).at = h.last + config.idle_timeout
                /\ h.ping.timed => idle_deadline(h) < h.ping.deadline
<1>1. next_hard_deadline(h).kind # "Ping"
  BY DEF next_hard_deadline, NoDeadline
<1>2. next_hard_deadline(h).kind = "Pong" =>
        h.ping.timed /\ next_hard_deadline(h).at = h.ping.deadline
  BY DEF next_hard_deadline, NoDeadline
<1>3. next_hard_deadline(h).kind = "Idle" =>
        /\ config.idle_timeout # 0 /\ next_hard_deadline(h).at = h.last + config.idle_timeout
        /\ h.ping.timed => idle_deadline(h) < h.ping.deadline
  BY DEF next_hard_deadline, NoDeadline, idle_deadline
<1>4. \/ next_deadline(h) = next_hard_deadline(h)
      \/ next_deadline(h).kind = "Ping" /\ ~h.ping.active /\ ~h.ping.timed
  BY DEF next_deadline
<1> QED
  BY <1>1, <1>2, <1>3, <1>4 DEF Current

\* The invariant implies NoDeadlineMissed.
LEMMA InTimeDeadlines ==
    IInv => NoDeadlineMissed
<1> SUFFICES ASSUME IInv, outcome = "open"
             PROVE  /\ config.idle_timeout # 0 => now <= seen.last + config.idle_timeout
                    /\ outstanding.timed => now <= outstanding.deadline
                    /\ config.auto_ping /\ ~outstanding.active /\ drv.write = "none" =>
                         now <= seen.last + config.ping_interval \/ Fires
  BY DEF NoDeadlineMissed
<1>1. TypeOK /\ ArmedInv /\ ArrivalInv /\ PingInv /\ InTime
  BY DEF IInv
<1>2. hb \in HB /\ config \in Configs /\ ~hb.stopped /\ hb.ping = outstanding /\ hb.last = last_inbound
  BY <1>1, HeartbeatType DEF TypeOK, ArmedInv, hb
<1>3. ASSUME config.auto_ping, ~outstanding.active, drv.write = "none", ~Fires
      PROVE  now <= seen.last + config.ping_interval
  <2>1. ~outstanding.timed
    BY <1>1, <1>3 DEF PingInv
  <2>2. armed.kind # "none" /\ armed.at <= last_inbound + config.ping_interval
    BY <1>1, <1>2, <1>3, <2>1, DeadlineBound DEF ArmedInv
  <2>3. /\ registered \in Nat /\ now \in Nat /\ armed.at \in Nat /\ last_inbound \in Nat
        /\ seen.last \in Nat /\ config.ping_interval \in Nat
    BY <1>1, <1>2, ConfigType DEF TypeOK
  <2>4. now < registered /\ registered <= armed.at /\ last_inbound <= seen.last
    BY <1>1, <1>3, <2>2, <2>3 DEF Fires, ArmedInv, ArrivalInv
  <2> QED
    BY <2>2, <2>3, <2>4
<1> QED
  BY <1>1, <1>3 DEF InTime

-----------------------------------------------------------------------------
(* Every step keeps the invariant *)

\* A Ping that is settled was answered in time (the body of OnlyItsPongSettlesPing).
Settles ==
    outstanding.active /\ ~stopped' =>
        \/ /\ outstanding'.active /\ outstanding'.payload = outstanding.payload
           /\ outstanding.timed => outstanding'.deadline = outstanding.deadline
        \/ seen.answered

\* The initial states satisfy the invariant.
LEMMA InitInv == Init => IInv
<1> SUFFICES ASSUME Init PROVE IInv
  OBVIOUS
<1>1. config \in Configs /\ hb \in HB /\ armed = next_deadline(hb) /\ outstanding = NoPing
  BY NoPingType DEF Init, hb, HB
<1>2. armed \in Deadline
  BY <1>1, DeadlineType
<1>3. registered \in Nat /\ (armed.kind # "none" => registered <= armed.at)
  BY <1>2, HeartbeatAssumption DEF Init, Deadline
<1>4. TypeOK
  <2>1. outstanding.timed = FALSE /\ outstanding.active = FALSE
    BY <1>1 DEF NoPing
  <2>2. queue \in Seq([kind : {"Ping", "Pong", "Close"}, payload : Nat, at : Nat])
    BY DEF Init
  <2>3. drv \in [write : {"none", "Ping", "Pong"}, pong : BOOLEAN, synced : Nat, payload : Nat,
                early : BOOLEAN, earlyAt : Nat]
    BY DEF Init
  <2>4. seen \in [last : Nat, flushedAt : Nat, answered : BOOLEAN]
    BY DEF Init
  <2>5. /\ now = 0 /\ last_inbound = 0 /\ published = 0 /\ nonce = 0
        /\ stopped = FALSE /\ outcome = "open"
    BY DEF Init
  <2>6. /\ last_inbound <= now /\ published <= now
        /\ now \in Nat /\ last_inbound \in Nat /\ published \in Nat /\ nonce \in Nat
    BY <2>5
  <2>7. /\ outstanding \in [active : BOOLEAN, payload : Nat, timed : BOOLEAN, deadline : Nat,
                            flushed : BOOLEAN, acknowledged : BOOLEAN]
        /\ outstanding.timed => outstanding.flushed
    BY <1>1, <2>1, NoPingType
  <2>8. stopped \in BOOLEAN /\ outcome \in {"open", "closing", "Pong", "Idle"}
    BY <2>5
  <2> QED
    BY <1>1, <1>2, <1>3, <2>2, <2>3, <2>4, <2>6, <2>7, <2>8 DEF TypeOK, Deadline
<1>5. ArmedInv
  BY <1>1, <1>3 DEF Init, ArmedInv, Current
<1>6. ArrivalInv
  BY DEF Init, ArrivalInv
<1>7. PingInv /\ AnswerInv
  <2>1. /\ outstanding.timed = FALSE /\ outstanding.active = FALSE
        /\ outstanding.acknowledged = FALSE
    BY <1>1 DEF NoPing
  <2> QED
    BY <2>1 DEF Init, PingInv, AnswerInv, Answers
<1>8. InTime
  BY <1>1, ConfigType DEF Init, InTime, NoPing
<1> QED
  BY <1>4, <1>5, <1>6, <1>7, <1>8 DEF IInv, PongTimeoutJustified, IdleTimeoutJustified, Init

\* The state a pass of the loop leaves, from what the handler made of the heartbeat and of
\* the driver's locals.
LEMMA LoopInv ==
    ASSUME TypeOK, outcome = "open", NEW h \in HB, NEW d \in Driver,
           ~h.stopped, d.synced <= h.last, h.last <= now, h.ping.timed => h.ping.flushed, Loop(h, d),
           UNCHANGED <<config, now, published, outcome>>, nonce' \in Nat,
           queue' \in Seq([kind : {"Ping", "Pong", "Close"}, payload : Nat, at : Nat]),
           seen' \in [last : Nat, flushedAt : Nat, answered : BOOLEAN]
    PROVE  /\ TypeOK' /\ ArmedInv'
           /\ last_inbound' = Later(h.last, published) /\ outstanding' = h.ping
           /\ drv'.synced = Later(d.synced, published)
           /\ drv'.payload = d.payload /\ drv'.early = d.early /\ drv'.earlyAt = d.earlyAt
           /\ drv'.write = IF d.write = "none" /\ d.pong THEN "Pong" ELSE d.write
<1>1. /\ last_inbound' = Later(h.last, published) /\ last_inbound' \in Nat
      /\ outstanding' = h.ping /\ stopped' = FALSE
      /\ drv' \in Driver /\ drv'.synced = Later(d.synced, published)
      /\ drv'.payload = d.payload /\ drv'.early = d.early /\ drv'.earlyAt = d.earlyAt
      /\ drv'.write = IF d.write = "none" /\ d.pong THEN "Pong" ELSE d.write
      /\ hb' \in HB /\ armed' \in Deadline /\ registered' \in Nat
      /\ armed' = Current(hb, drv)'
      /\ armed'.kind # "none" => registered' <= armed'.at
  BY LoopEffect
<1>2. ArmedInv'
  BY <1>1 DEF ArmedInv
<1>3. last_inbound' <= now' /\ published' <= now'
  BY <1>1 DEF TypeOK, Later
<1>4. outstanding'.timed => outstanding'.flushed
  BY <1>1
<1>5. outstanding' \in [active : BOOLEAN, payload : Nat, timed : BOOLEAN, deadline : Nat,
                        flushed : BOOLEAN, acknowledged : BOOLEAN]
  BY <1>1 DEF HB
<1>6. TypeOK'
  BY <1>1, <1>3, <1>4, <1>5 DEF TypeOK, Driver, Deadline
<1> QED
  BY <1>1, <1>2, <1>6

\* Everything the reader has noted is still in view after a pass of the loop.
LEMMA LoopArrivals ==
    ASSUME TypeOK, ArrivalInv, NEW h \in HB, NEW d \in Driver,
           h.last <= seen.last, d.synced <= h.last, d.earlyAt <= seen.last,
           last_inbound' = Later(h.last, published), drv'.synced = Later(d.synced, published),
           drv'.earlyAt = d.earlyAt,
           UNCHANGED <<config, now, published>>, seen'.last = seen.last,
           \A i \in 1 .. Len(queue') : queue'[i].at <= seen.last,
           tracks_inbound_activity => \/ seen.last <= h.last \/ seen.last <= published
                                      \/ \E i \in 1 .. Len(queue') : seen.last <= queue'[i].at
    PROVE  ArrivalInv'
<1>1. /\ h.last \in Nat /\ published \in Nat /\ seen.last \in Nat
      /\ d.synced \in Nat
  BY DEF TypeOK, HB, Driver
<1>2. /\ last_inbound' <= seen.last /\ h.last <= last_inbound' /\ published <= last_inbound'
      /\ drv'.synced <= last_inbound' /\ last_inbound' \in Nat
  BY <1>1 DEF Later, ArrivalInv
<1>3. tracks_inbound_activity' = tracks_inbound_activity
  BY DEF tracks_inbound_activity
<1>4. seen.last <= h.last \/ seen.last <= published => seen.last <= last_inbound'
  BY <1>1, <1>2
<1> QED
  BY <1>1, <1>2, <1>3, <1>4 DEF ArrivalInv

\* The queue without its head.
LEMMA QueueTail ==
    ASSUME TypeOK, queue # <<>>, queue' = Tail(queue)
    PROVE  /\ queue' \in Seq([kind : {"Ping", "Pong", "Close"}, payload : Nat, at : Nat])
           /\ Head(queue) = queue[1] /\ 1 \in 1 .. Len(queue)
           /\ Head(queue) \in [kind : {"Ping", "Pong", "Close"}, payload : Nat, at : Nat]
           /\ \A i \in 1 .. Len(queue') : i + 1 \in 1 .. Len(queue) /\ queue'[i] = queue[i + 1]
           /\ \A i \in 1 .. Len(queue) : i # 1 =>
                \E j \in 1 .. Len(queue') : queue'[j] = queue[i]
<1> DEFINE R == [kind : {"Ping", "Pong", "Close"}, payload : Nat, at : Nat]
<1>1. queue \in Seq(R) /\ Len(queue) \in Nat /\ Len(queue) # 0
  BY EmptySeq, LenProperties DEF TypeOK
<1> HIDE DEF R
<1>2. /\ queue' \in Seq(R) /\ Len(queue') = Len(queue) - 1
      /\ \A i \in 1 .. Len(queue') : queue'[i] = queue[i + 1]
  BY <1>1, HeadTailProperties
<1>3. Head(queue) = queue[1] /\ 1 \in 1 .. Len(queue) /\ Head(queue) \in R
  BY <1>1, HeadTailProperties
<1>4. ASSUME NEW i \in 1 .. Len(queue), i # 1
      PROVE  \E j \in 1 .. Len(queue') : queue'[j] = queue[i]
  <2>1. i - 1 \in 1 .. Len(queue') /\ (i - 1) + 1 = i
    BY <1>1, <1>2, <1>4
  <2>2. queue'[i - 1] = queue[i]
    BY <1>2, <2>1
  <2> QED
    BY <2>1, <2>2
<1>5. \A i \in 1 .. Len(queue') : i + 1 \in 1 .. Len(queue)
  BY <1>1, <1>2
<1> QED
  BY <1>2, <1>3, <1>4, <1>5 DEF R

\* driver_control: a Ping only counts as activity, the outstanding Ping's Pong settles it
\* when it is in time, and a request to close stops the heartbeat.
LEMMA ControlStep == IInv /\ driver_control => IInv' /\ Settles
<1> SUFFICES ASSUME IInv, driver_control PROVE IInv' /\ Settles
  OBVIOUS
<1> DEFINE f == Head(queue)
<1>1. /\ TypeOK /\ ArmedInv /\ ArrivalInv /\ PingInv /\ AnswerInv /\ InTime
      /\ outcome = "open" /\ queue # <<>> /\ queue' = Tail(queue)
      /\ UNCHANGED <<config, now, published, nonce, seen>>
  BY DEF driver_control, IInv
<1>2. /\ queue' \in Seq([kind : {"Ping", "Pong", "Close"}, payload : Nat, at : Nat])
      /\ f = queue[1] /\ 1 \in 1 .. Len(queue)
      /\ f \in [kind : {"Ping", "Pong", "Close"}, payload : Nat, at : Nat]
      /\ \A i \in 1 .. Len(queue') : i + 1 \in 1 .. Len(queue) /\ queue'[i] = queue[i + 1]
      /\ \A i \in 1 .. Len(queue) : i # 1 => \E j \in 1 .. Len(queue') : queue'[j] = queue[i]
  BY <1>1, QueueTail
<1>3. \/ f.kind = "Ping" /\ Loop(on_inbound(hb, f.at, 0), [drv EXCEPT !.pong = TRUE]) /\ UNCHANGED outcome
      \/ /\ f.kind = "Pong"
         /\ Loop(on_inbound(hb, f.at, f.payload),
                 IF drv.payload # 0 /\ drv.payload = f.payload
                 THEN [drv EXCEPT !.early = TRUE, !.earlyAt = f.at] ELSE drv)
         /\ UNCHANGED outcome
      \/ /\ f.kind = "Close" /\ SetHeartbeat(stop(hb)) /\ outcome' = "closing"
         /\ armed' = NoDeadline /\ UNCHANGED <<drv, registered>>
  BY DEF driver_control
<1> HIDE DEF f
<1>4. /\ hb \in HB /\ drv \in Driver /\ ~hb.stopped /\ hb.last = last_inbound /\ hb.ping = outstanding
      /\ f.at \in Nat /\ f.payload \in Nat /\ now \in Nat /\ seen.last \in Nat /\ last_inbound \in Nat
      /\ drv.synced \in Nat /\ 0 \in Nat
  BY <1>1, <1>2, HeartbeatType DEF ArmedInv, hb, TypeOK
<1>5. f.at <= seen.last /\ \A i \in 1 .. Len(queue') : queue'[i].at <= seen.last
  BY <1>1, <1>2 DEF ArrivalInv
<1>6. /\ f.at <= Later(last_inbound, f.at) /\ Later(last_inbound, f.at) <= seen.last
      /\ last_inbound <= Later(last_inbound, f.at) /\ seen.last <= now
      /\ drv.synced <= last_inbound
      /\ drv.synced <= Later(last_inbound, f.at) /\ Later(last_inbound, f.at) <= now
  BY <1>1, <1>4, <1>5 DEF ArrivalInv, Later
<1>7. tracks_inbound_activity =>
        \/ seen.last <= Later(last_inbound, f.at) \/ seen.last <= published
        \/ \E i \in 1 .. Len(queue') : seen.last <= queue'[i].at
  <2>1. CASE seen.last <= last_inbound
    BY <1>4, <1>6, <2>1 DEF Later
  <2>2. ASSUME NEW i \in 1 .. Len(queue), seen.last <= queue[i].at
        PROVE  \/ seen.last <= Later(last_inbound, f.at)
               \/ \E j \in 1 .. Len(queue') : seen.last <= queue'[j].at
    <3>1. CASE i = 1
      BY <1>2, <1>4, <1>6, <2>2, <3>1 DEF Later
    <3>2. CASE i # 1
      BY <1>2, <2>2, <3>2
    <3> QED
      BY <3>1, <3>2
  <2> QED
    BY <1>1, <2>1, <2>2 DEF ArrivalInv
<1>8. hb \in HB /\ ~hb.stopped /\ f.at \in Nat /\ f.payload \in Nat /\ 0 \in Nat
  BY <1>4
<1>9. ASSUME f.kind = "Ping", Loop(on_inbound(hb, f.at, 0), [drv EXCEPT !.pong = TRUE]), UNCHANGED outcome
      PROVE  IInv' /\ Settles
  <2> DEFINE h == on_inbound(hb, f.at, 0)
             d == [drv EXCEPT !.pong = TRUE]
  <2>1. /\ h \in HB /\ h.last = Later(last_inbound, f.at) /\ ~h.stopped /\ h.ping = outstanding
    <3>1. ~Matches(hb, 0)
      BY DEF Matches
    <3>2. h \in HB /\ h.last = Later(hb.last, f.at) /\ ~h.stopped /\ h.ping = hb.ping
      BY <1>8, <3>1, OnInbound, ZenonT(60)
    <3> QED
      BY <1>4, <3>2
  <2>2. /\ d \in Driver /\ d.write = drv.write /\ d.synced = drv.synced /\ d.payload = drv.payload
        /\ d.early = drv.early /\ d.earlyAt = drv.earlyAt
    BY <1>4 DEF Driver
  <2>3. Loop(h, d)
    BY <1>9
  <2> HIDE DEF h, d
  <2>4. outstanding.timed => outstanding.flushed
    BY <1>1 DEF TypeOK
  <2>5. seen' \in [last : Nat, flushedAt : Nat, answered : BOOLEAN] /\ nonce' \in Nat
    BY <1>1 DEF TypeOK
  <2>6. d.synced <= h.last /\ h.last <= now /\ h.last <= seen.last
    BY <1>6, <2>1, <2>2
  <2>7. /\ TypeOK' /\ ArmedInv'
        /\ last_inbound' = Later(h.last, published) /\ outstanding' = h.ping
        /\ drv'.synced = Later(d.synced, published)
        /\ drv'.payload = d.payload /\ drv'.early = d.early /\ drv'.earlyAt = d.earlyAt
        /\ drv'.write = IF d.write = "none" /\ d.pong THEN "Pong" ELSE d.write
    BY <1>1, <1>2, <1>9, <2>1, <2>2, <2>3, <2>4, <2>5, <2>6, LoopInv
  <2>8. ArrivalInv'
    <3>1. d.earlyAt <= seen.last /\ seen'.last = seen.last
      BY <1>1, <2>2 DEF ArrivalInv
    <3>2. tracks_inbound_activity => \/ seen.last <= h.last \/ seen.last <= published
                                     \/ \E i \in 1 .. Len(queue') : seen.last <= queue'[i].at
      BY <1>7, <2>1
    <3> QED
      BY <1>1, <1>5, <2>1, <2>2, <2>6, <2>7, <3>1, <3>2, LoopArrivals
  <2>9. PingInv'
    BY <1>1, <2>1, <2>2, <2>7 DEF PingInv
  <2>10. AnswerInv'
    <3>1. ~Answers(queue[1])
      BY <1>2, <1>9 DEF Answers
    <3>2. \A g : Answers(g)' = Answers(g)
      BY <2>1, <2>7 DEF Answers
    <3>3. (\E i \in 1 .. Len(queue) : Answers(queue[i])) = \E i \in 1 .. Len(queue') : Answers(queue'[i])
      BY <1>2, <3>1
    <3> QED
      BY <1>1, <2>1, <2>7, <3>2, <3>3 DEF AnswerInv, Answers
  <2>11. InTime'
    BY <1>1, <2>1, <2>7 DEF InTime
  <2>12. Settles
    BY <2>1, <2>7 DEF Settles
  <2> QED
    BY <1>1, <1>9, <2>7, <2>8, <2>9, <2>10, <2>11, <2>12
       DEF IInv, PongTimeoutJustified, IdleTimeoutJustified
<1>10. ASSUME f.kind = "Close", SetHeartbeat(stop(hb)), outcome' = "closing", armed' = NoDeadline,
              UNCHANGED <<drv, registered>>
       PROVE  IInv' /\ Settles
  <2>1. last_inbound' = last_inbound /\ outstanding' = NoPing /\ stopped' = TRUE
    BY <1>4, <1>10 DEF SetHeartbeat, stop, HB
  <2>2. armed' \in Deadline
    BY <1>10 DEF NoDeadline, Deadline
  <2>3. outstanding'.timed = FALSE
    BY <2>1 DEF NoPing
  <2>4. TypeOK'
    BY <1>1, <1>2, <1>10, <2>1, <2>2, <2>3, NoPingType DEF TypeOK, Deadline
  <2> QED
    BY <1>10, <2>1, <2>4 DEF IInv, Settles, PongTimeoutJustified, IdleTimeoutJustified
<1>11. ASSUME f.kind = "Pong",
              Loop(on_inbound(hb, f.at, f.payload),
                   IF drv.payload # 0 /\ drv.payload = f.payload
                   THEN [drv EXCEPT !.early = TRUE, !.earlyAt = f.at] ELSE drv),
              UNCHANGED outcome
       PROVE  IInv' /\ Settles
  <2> DEFINE h == on_inbound(hb, f.at, f.payload)
             d == IF drv.payload # 0 /\ drv.payload = f.payload
                  THEN [drv EXCEPT !.early = TRUE, !.earlyAt = f.at] ELSE drv
             inTime == outstanding.timed => f.at < outstanding.deadline
  <2>1. /\ h \in HB /\ h.last = Later(last_inbound, f.at) /\ ~h.stopped
        /\ Matches(hb, f.payload) /\ ~outstanding.flushed =>
             h.ping = [outstanding EXCEPT !.acknowledged = TRUE]
        /\ Matches(hb, f.payload) /\ outstanding.flushed /\ inTime => h.ping = NoPing
        /\ ~Matches(hb, f.payload) \/ (outstanding.flushed /\ outstanding.timed /\ ~(f.at < outstanding.deadline)) =>
             h.ping = outstanding
    <3>1. h \in HB /\ h.last = Later(hb.last, f.at) /\ ~h.stopped
      BY <1>8, OnInbound, ZenonT(60)
    <3>2. /\ Matches(hb, f.payload) /\ ~hb.ping.flushed =>
               h.ping = [hb.ping EXCEPT !.acknowledged = TRUE]
          /\ Matches(hb, f.payload) /\ hb.ping.flushed /\ (hb.ping.timed => f.at < hb.ping.deadline) => h.ping = NoPing
          /\ ~Matches(hb, f.payload) \/ (hb.ping.flushed /\ hb.ping.timed /\ ~(f.at < hb.ping.deadline)) =>
               h.ping = hb.ping
      BY <1>8, OnInbound
    <3> QED
      BY <1>4, <3>1, <3>2
  <2>2. /\ d \in Driver /\ d.write = drv.write /\ d.synced = drv.synced /\ d.payload = drv.payload
        /\ d.pong = drv.pong /\ d.earlyAt \in {drv.earlyAt, f.at}
        /\ d.early = (drv.early \/ (drv.payload # 0 /\ drv.payload = f.payload))
    <3>1. CASE drv.payload # 0 /\ drv.payload = f.payload
      BY <1>4, <3>1 DEF Driver
    <3>2. CASE ~(drv.payload # 0 /\ drv.payload = f.payload)
      BY <1>4, <3>2 DEF Driver
    <3> QED
      BY <3>1, <3>2
  <2>3. Loop(h, d)
    BY <1>11
  <2> HIDE DEF h, d
  <2>4. Matches(hb, f.payload) = (outstanding.active /\ f.payload = outstanding.payload)
    BY <1>1, <1>4 DEF Matches, PingInv
  <2>5. Answers(queue[1]) = (Matches(hb, f.payload) /\ inTime)
    BY <1>2, <1>11, <2>4 DEF Answers
  <2>6. (drv.payload # 0 /\ drv.payload = f.payload) = (Matches(hb, f.payload) /\ ~outstanding.flushed)
    BY <1>1, <2>4 DEF PingInv, TypeOK
  <2>7. /\ outstanding.timed => outstanding.flushed
        /\ outstanding \in [active : BOOLEAN, payload : Nat, timed : BOOLEAN, deadline : Nat,
                            flushed : BOOLEAN, acknowledged : BOOLEAN]
        /\ seen' \in [last : Nat, flushedAt : Nat, answered : BOOLEAN] /\ nonce' \in Nat
    BY <1>1 DEF TypeOK
  \* The three things the Pong can do
  <2>8. \/ /\ Matches(hb, f.payload) /\ ~outstanding.flushed /\ ~outstanding.timed
           /\ h.ping = [outstanding EXCEPT !.acknowledged = TRUE]
           /\ Answers(queue[1]) /\ d.early
        \/ /\ Matches(hb, f.payload) /\ outstanding.flushed
           /\ h.ping = NoPing /\ Answers(queue[1]) /\ d.early = drv.early
        \/ h.ping = outstanding /\ ~Answers(queue[1]) /\ d.early = drv.early
    <3>1. drv.early \in BOOLEAN /\ d.early \in BOOLEAN
      BY <1>4, <2>2 DEF Driver
    <3>2. CASE Matches(hb, f.payload) /\ ~outstanding.flushed
      BY <2>1, <2>2, <2>5, <2>6, <2>7, <3>2
    <3>3. CASE ~(Matches(hb, f.payload) /\ ~outstanding.flushed)
      <4>1. d.early = drv.early
        BY <2>2, <2>6, <3>1, <3>3
      <4> QED
        BY <2>1, <2>5, <2>7, <3>3, <4>1
    <3> QED
      BY <3>2, <3>3
  <2>9. h.ping.timed => h.ping.flushed
    BY <2>7, <2>8 DEF NoPing
  <2>10. d.synced <= h.last /\ h.last <= now /\ h.last <= seen.last
    BY <1>6, <2>1, <2>2
  <2>11. /\ TypeOK' /\ ArmedInv'
         /\ last_inbound' = Later(h.last, published) /\ outstanding' = h.ping
         /\ drv'.synced = Later(d.synced, published)
         /\ drv'.payload = d.payload /\ drv'.early = d.early /\ drv'.earlyAt = d.earlyAt
         /\ drv'.write = IF d.write = "none" /\ d.pong THEN "Pong" ELSE d.write
    BY <1>1, <1>2, <1>11, <2>1, <2>2, <2>3, <2>7, <2>9, <2>10, LoopInv
  <2>12. ArrivalInv'
    <3>1. d.earlyAt <= seen.last /\ seen'.last = seen.last
      BY <1>1, <1>5, <2>2 DEF ArrivalInv
    <3>2. tracks_inbound_activity => \/ seen.last <= h.last \/ seen.last <= published
                                     \/ \E i \in 1 .. Len(queue') : seen.last <= queue'[i].at
      BY <1>7, <2>1
    <3> QED
      BY <1>1, <1>5, <2>1, <2>2, <2>10, <2>11, <3>1, <3>2, LoopArrivals
  <2>13. CASE /\ Matches(hb, f.payload) /\ ~outstanding.flushed /\ ~outstanding.timed
              /\ h.ping = [outstanding EXCEPT !.acknowledged = TRUE]
              /\ Answers(queue[1]) /\ d.early
    <3>1. /\ outstanding'.active = outstanding.active /\ outstanding'.payload = outstanding.payload
          /\ outstanding'.timed = outstanding.timed /\ outstanding'.deadline = outstanding.deadline
          /\ outstanding'.flushed = outstanding.flushed /\ outstanding'.acknowledged
      BY <2>7, <2>11, <2>13
    <3>2. seen.answered /\ outstanding.active
      BY <1>1, <1>2, <2>4, <2>13 DEF AnswerInv
    <3>3. PingInv'
      BY <1>1, <2>2, <2>11, <2>13, <3>1, <3>2 DEF PingInv
    <3>4. AnswerInv'
      BY <1>1, <3>1, <3>2 DEF AnswerInv
    <3>5. InTime' /\ Settles
      BY <1>1, <3>1 DEF InTime, Settles
    <3> QED
      BY <1>1, <1>11, <2>11, <2>12, <3>3, <3>4, <3>5 DEF IInv, PongTimeoutJustified,
         IdleTimeoutJustified
  <2>14. CASE /\ Matches(hb, f.payload) /\ outstanding.flushed
              /\ h.ping = NoPing /\ Answers(queue[1]) /\ d.early = drv.early
    <3>1. /\ outstanding'.active = FALSE /\ outstanding'.timed = FALSE
          /\ outstanding'.flushed = FALSE /\ outstanding'.acknowledged = FALSE
      BY <2>11, <2>14 DEF NoPing
    <3>2. seen.answered /\ drv.write # "Ping" /\ ~drv.early /\ drv.payload = 0
      BY <1>1, <1>2, <2>14 DEF AnswerInv, PingInv
    <3>3. PingInv'
      BY <2>2, <2>11, <2>14, <3>1, <3>2 DEF PingInv
    <3>4. AnswerInv'
      BY <3>1 DEF AnswerInv, Answers
    <3>5. InTime' /\ Settles
      BY <1>1, <3>1, <3>2 DEF InTime, Settles
    <3> QED
      BY <1>1, <1>11, <2>11, <2>12, <3>3, <3>4, <3>5 DEF IInv, PongTimeoutJustified,
         IdleTimeoutJustified
  <2>15. CASE h.ping = outstanding /\ ~Answers(queue[1]) /\ d.early = drv.early
    <3>1. outstanding' = outstanding
      BY <2>11, <2>15
    <3>2. PingInv'
      BY <1>1, <2>2, <2>11, <2>15, <3>1 DEF PingInv
    <3>3. AnswerInv'
      <4>1. (\E i \in 1 .. Len(queue) : Answers(queue[i])) = \E i \in 1 .. Len(queue') : Answers(queue'[i])
        BY <1>2, <2>15
      <4> QED
        BY <1>1, <3>1, <4>1 DEF AnswerInv, Answers
    <3>4. InTime' /\ Settles
      BY <1>1, <3>1 DEF InTime, Settles
    <3> QED
      BY <1>1, <1>11, <2>11, <2>12, <3>2, <3>3, <3>4 DEF IInv, PongTimeoutJustified,
         IdleTimeoutJustified
  <2> QED
    BY <2>8, <2>13, <2>14, <2>15
<1> QED
  BY <1>3, <1>9, <1>10, <1>11

\* What the driver knows when it looks again at the activity: with no control frame
\* waiting, the last arrival itself.
LEMMA SyncedState ==
    ASSUME IInv, outcome = "open",
           NEW h, h = Synced(hb, drv), NEW d, d = [drv EXCEPT !.synced = Later(@, published)]
    PROVE  /\ h \in HB /\ h.last = Later(last_inbound, published) /\ ~h.stopped /\ h.ping = outstanding
           /\ d \in Driver /\ d.write = drv.write /\ d.pong = drv.pong /\ d.payload = drv.payload
           /\ d.early = drv.early /\ d.earlyAt = drv.earlyAt
           /\ d.synced <= h.last /\ h.last <= seen.last /\ h.last <= now
           /\ tracks_inbound_activity /\ queue = <<>> => h.last = seen.last
<1>1. TypeOK /\ ArmedInv /\ ArrivalInv
  BY DEF IInv
<1>2. /\ hb \in HB /\ drv \in Driver /\ ~hb.stopped /\ hb.last = last_inbound /\ hb.ping = outstanding
      /\ hb.stopped \in BOOLEAN
  BY <1>1, HeartbeatType DEF ArmedInv, hb, TypeOK
<1>3. /\ published \in Nat /\ last_inbound \in Nat /\ seen.last \in Nat /\ now \in Nat
      /\ drv.synced \in Nat /\ drv.synced <= last_inbound /\ last_inbound <= seen.last
      /\ published <= seen.last /\ seen.last <= now
  BY <1>1 DEF TypeOK, ArrivalInv
<1>4. h \in HB /\ h.last = Later(last_inbound, published) /\ ~h.stopped /\ h.ping = outstanding
  <2>1. CASE published > drv.synced
    <3>1. ~Matches(hb, 0) /\ 0 \in Nat
      BY DEF Matches
    <3>2. h = on_inbound(hb, published, 0)
      BY <2>1 DEF Synced
    <3>4. hb \in HB /\ ~hb.stopped /\ published \in Nat /\ 0 \in Nat
      BY <1>2, <1>3
    <3>3. /\ on_inbound(hb, published, 0) \in HB
          /\ on_inbound(hb, published, 0).last = Later(hb.last, published)
          /\ ~on_inbound(hb, published, 0).stopped
          /\ on_inbound(hb, published, 0).ping = hb.ping
      BY <3>1, <3>4, OnInbound
    <3> QED
      BY <1>2, <3>2, <3>3
  <2>2. CASE ~(published > drv.synced)
    <3>1. h = hb
      BY <2>2 DEF Synced
    <3>2. Later(last_inbound, published) = last_inbound
      BY <1>3, <2>2 DEF Later
    <3> QED
      BY <1>2, <3>1, <3>2
  <2> QED
    BY <2>1, <2>2
<1>5. /\ d \in Driver /\ d.write = drv.write /\ d.pong = drv.pong /\ d.payload = drv.payload
      /\ d.early = drv.early /\ d.earlyAt = drv.earlyAt /\ d.synced = Later(drv.synced, published)
  <2>1. Later(drv.synced, published) \in Nat
    BY <1>3, LaterType
  <2> QED
    BY <1>2, <2>1 DEF Driver
<1>6. /\ d.synced <= h.last /\ h.last <= seen.last /\ h.last <= now
      /\ last_inbound <= h.last /\ published <= h.last /\ h.last \in Nat
  BY <1>3, <1>4, <1>5 DEF Later
<1>7. tracks_inbound_activity /\ queue = <<>> => h.last = seen.last
  <2> SUFFICES ASSUME tracks_inbound_activity, queue = <<>> PROVE seen.last <= h.last
    BY <1>3, <1>6
  <2>1. Len(queue) = 0
    OBVIOUS
  <2>2. seen.last <= last_inbound \/ seen.last <= published
    BY <1>1, <2>1 DEF ArrivalInv
  <2> QED
    BY <1>3, <1>6, <2>2
<1> QED
  BY <1>4, <1>5, <1>6, <1>7

\* driver_timer: the deadline the driver acts on is the one it computes after looking at
\* the published activity again.
LEMMA TimerStep == IInv /\ driver_timer => IInv' /\ Settles
<1> SUFFICES ASSUME IInv, driver_timer PROVE IInv' /\ Settles
  OBVIOUS
<1>1. /\ TypeOK /\ ArmedInv /\ ArrivalInv /\ PingInv /\ AnswerInv /\ InTime
      /\ outcome = "open" /\ queue = <<>>
      /\ UNCHANGED <<config, now, published, queue>>
  BY DEF driver_timer, IInv
<1>2. PICK h, d : /\ h = Synced(hb, drv) /\ d = [drv EXCEPT !.synced = Later(@, published)]
                  /\ Expire(h, d, Current(h, d))
  BY DEF driver_timer, Current
<1>3. /\ h \in HB /\ h.last = Later(last_inbound, published) /\ ~h.stopped /\ h.ping = outstanding
      /\ d \in Driver /\ d.write = drv.write /\ d.pong = drv.pong /\ d.payload = drv.payload
      /\ d.early = drv.early /\ d.earlyAt = drv.earlyAt
      /\ d.synced <= h.last /\ h.last <= seen.last /\ h.last <= now
      /\ tracks_inbound_activity /\ queue = <<>> => h.last = seen.last
  BY <1>1, <1>2, SyncedState
<1>4. config \in Configs /\ queue' \in Seq([kind : {"Ping", "Pong", "Close"}, payload : Nat, at : Nat])
  BY <1>1 DEF TypeOK
<1>5. /\ tracks_inbound_activity => seen.last <= h.last
      /\ d.earlyAt <= seen.last
      /\ \A i \in 1 .. Len(queue') : queue'[i].at <= seen.last
      /\ now \in Nat /\ seen.last \in Nat /\ nonce \in Nat
      /\ seen \in [last : Nat, flushedAt : Nat, answered : BOOLEAN]
  BY <1>1, <1>3 DEF ArrivalInv, TypeOK
<1>6. Len(queue) = 0 /\ Len(queue') = 0
  BY <1>1
<1> DEFINE next == Current(h, d)
<1>7. /\ next.kind = "Ping" => d.write = "none" /\ ~h.ping.active /\ ~h.ping.timed
      /\ next.kind = "Pong" => h.ping.timed /\ next.at = h.ping.deadline
      /\ next.kind = "Idle" =>
           /\ config.idle_timeout # 0 /\ next.at = h.last + config.idle_timeout
           /\ h.ping.timed => idle_deadline(h) < h.ping.deadline
  BY <1>3, <1>4, DeadlineKind
<1> HIDE DEF next
<1>8. CASE next.kind = "Ping" /\ next.at <= now
  <2> DEFINE h2 == ping_due(h, nonce + 1)
             d2 == [d EXCEPT !.write = "Ping", !.payload = nonce + 1]
             p == [NoPing EXCEPT !.active = TRUE, !.payload = nonce + 1]
  <2>1. /\ nonce' = nonce + 1 /\ seen' = [seen EXCEPT !.answered = FALSE]
        /\ Loop(h2, d2) /\ UNCHANGED outcome
    BY <1>2, <1>8 DEF Expire, next
  <2>2. nonce + 1 \in Nat /\ nonce + 1 # 0
    BY <1>5
  <2>3. /\ p \in [active : BOOLEAN, payload : Nat, timed : BOOLEAN, deadline : Nat,
                  flushed : BOOLEAN, acknowledged : BOOLEAN]
        /\ p.active = TRUE /\ p.payload = nonce + 1 /\ p.timed = FALSE /\ p.flushed = FALSE
        /\ p.acknowledged = FALSE
    BY <2>2 DEF NoPing
  <2>4. h2 = [h EXCEPT !.ping = p]
    BY DEF ping_due
  <2> HIDE DEF p
  <2>5. h2 \in HB /\ h2.last = h.last /\ ~h2.stopped /\ h2.ping = p
    <3> HIDE DEF h2
    <3> QED BY <1>3, <2>3, <2>4 DEF HB
  <2>6. /\ d2 \in Driver /\ d2.synced = d.synced /\ d2.write = "Ping" /\ d2.payload = nonce + 1
        /\ d2.early = d.early /\ d2.earlyAt = d.earlyAt
    BY <1>3, <2>2 DEF Driver
  <2>7. /\ seen' \in [last : Nat, flushedAt : Nat, answered : BOOLEAN]
        /\ seen'.last = seen.last /\ seen'.flushedAt = seen.flushedAt /\ seen'.answered = FALSE
    BY <1>5, <2>1
  <2> HIDE DEF h2, d2
  <2>8. /\ d2.synced <= h2.last /\ h2.last <= now /\ h2.last <= seen.last /\ d2.earlyAt <= seen.last
        /\ h2.ping.timed => h2.ping.flushed
    BY <1>3, <1>5, <2>3, <2>5, <2>6
  <2>9. /\ TypeOK' /\ ArmedInv'
        /\ last_inbound' = Later(h2.last, published) /\ outstanding' = h2.ping
        /\ drv'.synced = Later(d2.synced, published)
        /\ drv'.payload = d2.payload /\ drv'.early = d2.early /\ drv'.earlyAt = d2.earlyAt
        /\ drv'.write = IF d2.write = "none" /\ d2.pong THEN "Pong" ELSE d2.write
    BY <1>1, <1>4, <2>1, <2>2, <2>5, <2>6, <2>7, <2>8, LoopInv
  <2>10. ArrivalInv'
    BY <1>1, <1>5, <2>5, <2>6, <2>7, <2>8, <2>9, LoopArrivals
  <2>11. drv.write # "Ping" /\ ~drv.early
    BY <1>1, <1>3, <1>7, <1>8 DEF PingInv
  <2>12. PingInv'
    BY <1>3, <2>2, <2>3, <2>5, <2>6, <2>9, <2>11 DEF PingInv
  <2>13. AnswerInv'
    BY <1>6, <2>3, <2>5, <2>7, <2>9 DEF AnswerInv
  <2>14. InTime'
    BY <1>1, <2>3, <2>5, <2>7, <2>9 DEF InTime
  <2>15. Settles
    BY <1>3, <1>7, <1>8 DEF Settles
  <2> QED
    BY <1>1, <2>1, <2>9, <2>10, <2>12, <2>13, <2>14, <2>15
       DEF IInv, PongTimeoutJustified, IdleTimeoutJustified
<1>9. CASE next.kind \in {"Pong", "Idle"} /\ next.at <= now
  <2>1. /\ outcome' = next.kind /\ SetHeartbeat(h) /\ drv' = d /\ armed' = NoDeadline
        /\ UNCHANGED <<nonce, registered, seen>>
    BY <1>2, <1>9 DEF Expire, next
  <2>2. /\ last_inbound' = h.last /\ outstanding' = h.ping /\ stopped' = h.stopped
        /\ last_inbound' \in Nat /\ stopped' \in BOOLEAN
    BY <1>3, <2>1 DEF SetHeartbeat, HB
  <2>3. armed' \in Deadline /\ drv' \in Driver
    BY <1>3, <2>1 DEF NoDeadline, Deadline
  <2>4. outcome' \in {"open", "closing", "Pong", "Idle"} /\ outcome' # "open"
    BY <1>9, <2>1
  <2>5. TypeOK'
    BY <1>1, <1>3, <2>1, <2>2, <2>3, <2>4 DEF TypeOK, Deadline, Driver
  <2>6. PongTimeoutJustified'
    <3> SUFFICES ASSUME next.kind = "Pong"
                 PROVE  outstanding'.flushed /\ now' >= seen'.flushedAt + config'.pong_timeout /\ ~seen'.answered
      BY <2>1 DEF PongTimeoutJustified
    <3>1. /\ outstanding.timed /\ outstanding.flushed /\ outstanding.active
          /\ next.at = seen.flushedAt + config.pong_timeout
      BY <1>1, <1>3, <1>7 DEF PingInv
    <3>2. ~seen.answered
      BY <1>1, <1>6, <3>1 DEF AnswerInv, PingInv
    <3>3. seen.flushedAt + config.pong_timeout \in Nat
      BY <1>4, <1>5, ConfigType
    <3> QED
      BY <1>1, <1>3, <1>5, <1>9, <2>1, <2>2, <3>1, <3>2, <3>3
  <2>7. IdleTimeoutJustified'
    <3> SUFFICES ASSUME next.kind = "Idle"
                 PROVE  /\ now' >= seen'.last + config'.idle_timeout
                        /\ outstanding'.timed => idle_deadline(hb)' < outstanding'.deadline
      BY <2>1 DEF IdleTimeoutJustified
    <3>1. /\ config.idle_timeout # 0 /\ next.at = h.last + config.idle_timeout
          /\ h.ping.timed => idle_deadline(h) < h.ping.deadline
      BY <1>7
    <3>2. h.last = seen.last
      BY <1>1, <1>3, <3>1 DEF tracks_inbound_activity
    <3>3. idle_deadline(hb)' = idle_deadline(h)
      BY <1>1, <2>2 DEF idle_deadline, hb
    <3>4. seen.last + config.idle_timeout \in Nat
      BY <1>4, <1>5, ConfigType
    <3> QED
      BY <1>1, <1>5, <1>9, <2>1, <2>2, <3>1, <3>2, <3>3, <3>4
  <2>8. Settles
    BY <1>3, <2>2 DEF Settles
  <2> QED
    BY <2>4, <2>5, <2>6, <2>7, <2>8 DEF IInv
<1>10. CASE /\ ~(next.kind = "Ping" /\ next.at <= now)
            /\ ~(next.kind \in {"Pong", "Idle"} /\ next.at <= now)
  <2>1. Loop(h, d) /\ UNCHANGED <<nonce, outcome, seen>>
    BY <1>2, <1>10 DEF Expire, next
  <2>2. /\ nonce' \in Nat /\ seen' \in [last : Nat, flushedAt : Nat, answered : BOOLEAN] /\ seen' = seen
        /\ outstanding.timed => outstanding.flushed
    BY <1>1, <1>5, <2>1 DEF TypeOK
  <2>3. /\ TypeOK' /\ ArmedInv'
        /\ last_inbound' = Later(h.last, published) /\ outstanding' = h.ping
        /\ drv'.synced = Later(d.synced, published)
        /\ drv'.payload = d.payload /\ drv'.early = d.early /\ drv'.earlyAt = d.earlyAt
        /\ drv'.write = IF d.write = "none" /\ d.pong THEN "Pong" ELSE d.write
    BY <1>1, <1>3, <1>4, <2>1, <2>2, LoopInv
  <2>4. ArrivalInv'
    BY <1>1, <1>3, <1>5, <2>2, <2>3, LoopArrivals
  <2>5. PingInv'
    BY <1>1, <1>3, <2>2, <2>3 DEF PingInv
  <2>6. AnswerInv'
    BY <1>1, <1>3, <1>6, <2>2, <2>3 DEF AnswerInv
  <2>7. InTime' /\ Settles
    BY <1>1, <1>3, <2>2, <2>3 DEF InTime, Settles
  <2> QED
    BY <1>1, <2>1, <2>3, <2>4, <2>5, <2>6, <2>7 DEF IInv, PongTimeoutJustified, IdleTimeoutJustified
<1> QED
  BY <1>8, <1>9, <1>10

\* driver_written: the Pong timer starts with the flush, or the Ping that was already
\* answered is settled by it.
LEMMA WrittenStep == IInv /\ driver_written => IInv' /\ Settles
<1> SUFFICES ASSUME IInv, driver_written PROVE IInv' /\ Settles
  OBVIOUS
<1>1. /\ TypeOK /\ ArmedInv /\ ArrivalInv /\ PingInv /\ AnswerInv /\ InTime
      /\ outcome = "open" /\ queue = <<>> /\ drv.write # "none"
      /\ UNCHANGED <<config, now, published, queue, outcome, nonce>>
  BY DEF driver_written, IInv
<1>2. /\ hb \in HB /\ drv \in Driver /\ ~hb.stopped /\ hb.last = last_inbound /\ hb.ping = outstanding
      /\ outstanding \in [active : BOOLEAN, payload : Nat, timed : BOOLEAN, deadline : Nat,
                          flushed : BOOLEAN, acknowledged : BOOLEAN]
      /\ queue' \in Seq([kind : {"Ping", "Pong", "Close"}, payload : Nat, at : Nat])
      /\ seen \in [last : Nat, flushedAt : Nat, answered : BOOLEAN] /\ nonce' \in Nat
      /\ outstanding.timed => outstanding.flushed
  BY <1>1, HeartbeatType DEF ArmedInv, hb, TypeOK
<1>3. /\ Len(queue) = 0 /\ Len(queue') = 0
      /\ \A i \in 1 .. Len(queue') : queue'[i].at <= seen.last
  BY <1>1
<1>4. /\ now \in Nat /\ seen.last \in Nat /\ last_inbound \in Nat /\ published \in Nat
      /\ drv.synced \in Nat /\ drv.earlyAt \in Nat /\ drv.payload \in Nat
      /\ config.pong_timeout \in Nat /\ config.idle_timeout \in Nat
      /\ seen.last <= now /\ last_inbound <= seen.last /\ drv.earlyAt <= seen.last
      /\ drv.synced <= last_inbound
      /\ tracks_inbound_activity => seen.last <= last_inbound \/ seen.last <= published
  BY <1>1, <1>3, ConfigType DEF TypeOK, ArrivalInv
\* a Pong was flushed
<1>5. CASE drv.write # "Ping"
  <2> DEFINE d == [drv EXCEPT !.write = "none"]
  <2>1. Loop(hb, d) /\ seen' = seen
    BY <1>5 DEF driver_written
  <2>2. /\ d \in Driver /\ d.write = "none" /\ d.synced = drv.synced /\ d.payload = drv.payload
        /\ d.early = drv.early /\ d.earlyAt = drv.earlyAt
    BY <1>2 DEF Driver
  <2> HIDE DEF d
  <2>3. /\ d.synced <= hb.last /\ hb.last <= now /\ hb.last <= seen.last /\ d.earlyAt <= seen.last
        /\ seen' \in [last : Nat, flushedAt : Nat, answered : BOOLEAN]
        /\ hb.ping.timed => hb.ping.flushed
    BY <1>2, <1>4, <2>1, <2>2
  <2>4. /\ TypeOK' /\ ArmedInv'
        /\ last_inbound' = Later(hb.last, published) /\ outstanding' = hb.ping
        /\ drv'.synced = Later(d.synced, published)
        /\ drv'.payload = d.payload /\ drv'.early = d.early /\ drv'.earlyAt = d.earlyAt
        /\ drv'.write = IF d.write = "none" /\ d.pong THEN "Pong" ELSE d.write
    BY <1>1, <1>2, <2>1, <2>2, <2>3, LoopInv
  <2>5. ArrivalInv'
    BY <1>1, <1>2, <1>3, <1>4, <2>1, <2>2, <2>3, <2>4, LoopArrivals
  <2>6. PingInv'
    BY <1>1, <1>2, <1>5, <2>1, <2>2, <2>4 DEF PingInv
  <2>7. AnswerInv'
    BY <1>1, <1>2, <1>3, <2>1, <2>4 DEF AnswerInv
  <2>8. InTime' /\ Settles
    BY <1>1, <1>2, <2>1, <2>4 DEF InTime, Settles
  <2> QED
    BY <1>1, <2>4, <2>5, <2>6, <2>7, <2>8 DEF IInv, PongTimeoutJustified, IdleTimeoutJustified
\* the Ping was flushed
<1>6. CASE drv.write = "Ping"
  <2> DEFINE g == ping_flushed(hb, now)
             h == IF drv.early THEN on_inbound(g, drv.earlyAt, drv.payload) ELSE g
             d == [drv EXCEPT !.write = "none", !.payload = 0, !.early = FALSE, !.earlyAt = 0]
             p == [outstanding EXCEPT !.flushed = TRUE, !.timed = (config.pong_timeout # 0),
                                      !.deadline = IF config.pong_timeout = 0 THEN 0
                                                   ELSE now + config.pong_timeout]
  <2>1. Loop(h, d) /\ seen' = [seen EXCEPT !.flushedAt = now]
    BY <1>6 DEF driver_written
  <2>2. /\ d \in Driver /\ d.write = "none" /\ d.synced = drv.synced /\ d.payload = 0
        /\ d.early = FALSE /\ d.earlyAt = 0
    BY <1>2 DEF Driver
  <2>3. outstanding.active /\ ~outstanding.flushed /\ (drv.early => outstanding.acknowledged)
    BY <1>1, <1>6 DEF PingInv
  <2>4. /\ seen' \in [last : Nat, flushedAt : Nat, answered : BOOLEAN]
        /\ seen'.last = seen.last /\ seen'.flushedAt = now /\ seen'.answered = seen.answered
    BY <1>2, <1>4, <2>1
  <2>5. /\ p \in [active : BOOLEAN, payload : Nat, timed : BOOLEAN, deadline : Nat,
                  flushed : BOOLEAN, acknowledged : BOOLEAN]
        /\ p.active = outstanding.active /\ p.payload = outstanding.payload
        /\ p.acknowledged = outstanding.acknowledged /\ p.flushed
        /\ p.timed => p.deadline = now + config.pong_timeout
    <3>1. now + config.pong_timeout \in Nat
      BY <1>4
    <3> QED
      BY <1>2, <3>1
  <2>6. outstanding.acknowledged => g = [hb EXCEPT !.ping = NoPing]
    BY <1>2, <2>3 DEF ping_flushed
  <2>7. ~outstanding.acknowledged => g = [hb EXCEPT !.ping = p]
    BY <1>2, <2>3 DEF ping_flushed, HB
  <2> HIDE DEF g, p
  <2>8. /\ g \in HB /\ g.last = last_inbound /\ ~g.stopped
        /\ outstanding.acknowledged => g.ping = NoPing
        /\ ~outstanding.acknowledged => g.ping = p
    BY <1>2, <2>5, <2>6, <2>7, NoPingType DEF HB
  <2>9. /\ h \in HB /\ last_inbound <= h.last /\ h.last <= seen.last /\ ~h.stopped
        /\ outstanding.acknowledged => h.ping = NoPing
        /\ ~outstanding.acknowledged => h.ping = p
    <3>1. CASE drv.early
      <4>1. outstanding.acknowledged /\ g.ping = NoPing
        BY <2>3, <2>8, <3>1
      <4>2. ~Matches(g, drv.payload)
        BY <4>1 DEF Matches, NoPing
      <4>3. g \in HB /\ ~g.stopped /\ drv.earlyAt \in Nat /\ drv.payload \in Nat
        BY <1>4, <2>8
      <4> HIDE DEF h, d
      <4>4. \A at \in Nat, q \in Nat : ~Matches(g, q) =>
              /\ on_inbound(g, at, q) \in HB /\ on_inbound(g, at, q).last = Later(g.last, at)
              /\ ~on_inbound(g, at, q).stopped /\ on_inbound(g, at, q).ping = g.ping
        BY <4>3, OnInbound, ZenonT(60)
      <4>5. h = on_inbound(g, drv.earlyAt, drv.payload)
        BY <3>1 DEF h
      <4>6. h.last = Later(last_inbound, drv.earlyAt)
        BY <2>8, <4>2, <4>3, <4>4, <4>5
      <4>7. last_inbound <= h.last /\ h.last <= seen.last
        BY <1>4, <4>6 DEF Later
      <4> QED
        BY <4>1, <4>2, <4>3, <4>4, <4>5, <4>7
    <3>2. CASE ~drv.early
      BY <1>4, <2>8, <3>2
    <3> QED
      BY <3>1, <3>2
  <2> HIDE DEF h, d
  <2>10. /\ d.synced <= h.last /\ h.last <= now /\ d.earlyAt <= seen.last
         /\ tracks_inbound_activity => seen.last <= h.last \/ seen.last <= published
    <3>1. h.last \in Nat
      BY <2>9 DEF HB
    <3> QED
      BY <1>4, <2>2, <2>9, <3>1
  <2>11. h.ping.timed => h.ping.flushed
    BY <2>5, <2>9 DEF NoPing
  <2>12. /\ TypeOK' /\ ArmedInv'
         /\ last_inbound' = Later(h.last, published) /\ outstanding' = h.ping
         /\ drv'.synced = Later(d.synced, published)
         /\ drv'.payload = d.payload /\ drv'.early = d.early /\ drv'.earlyAt = d.earlyAt
         /\ drv'.write = IF d.write = "none" /\ d.pong THEN "Pong" ELSE d.write
    BY <1>1, <1>2, <2>1, <2>2, <2>4, <2>9, <2>10, <2>11, LoopInv
  <2>13. ArrivalInv'
    BY <1>1, <1>3, <2>2, <2>4, <2>9, <2>10, <2>12, LoopArrivals
  <2>14. drv'.write # "Ping" /\ drv'.payload = 0 /\ ~drv'.early
    BY <2>2, <2>12
  <2>15. CASE outstanding.acknowledged
    <3>1. /\ outstanding'.active = FALSE /\ outstanding'.timed = FALSE
          /\ outstanding'.flushed = FALSE /\ outstanding'.acknowledged = FALSE
      BY <2>9, <2>12, <2>15 DEF NoPing
    <3>2. PingInv' /\ AnswerInv'
      BY <2>14, <3>1 DEF PingInv, AnswerInv, Answers
    <3>3. InTime'
      BY <1>1, <2>4, <3>1 DEF InTime
    <3>4. Settles
      BY <1>1, <2>15 DEF Settles, AnswerInv
    <3> QED
      BY <1>1, <2>12, <2>13, <3>2, <3>3, <3>4 DEF IInv, PongTimeoutJustified, IdleTimeoutJustified
  <2>16. CASE ~outstanding.acknowledged
    <3>1. outstanding' = p
      BY <2>9, <2>12, <2>16
    <3>2. outstanding.payload # 0 /\ ~seen.answered /\ ~outstanding.timed
      BY <1>1, <1>3, <2>3, <2>16 DEF PingInv, AnswerInv
    <3>3. PingInv'
      BY <1>1, <2>3, <2>4, <2>5, <2>14, <2>16, <3>1, <3>2 DEF PingInv
    <3>4. AnswerInv'
      BY <1>3, <2>4, <2>5, <2>16, <3>1, <3>2 DEF AnswerInv
    <3>5. InTime'
      <4>1. now <= now + config.pong_timeout
        BY <1>4
      <4> QED
        BY <1>1, <2>4, <2>5, <3>1, <4>1 DEF InTime
    <3>6. Settles
      BY <2>3, <2>5, <3>1, <3>2 DEF Settles
    <3> QED
      BY <1>1, <2>12, <2>13, <3>3, <3>4, <3>5, <3>6 DEF IInv, PongTimeoutJustified,
         IdleTimeoutJustified
  <2> QED
    BY <2>15, <2>16
<1> QED
  BY <1>5, <1>6

\* timer_rearm: moving the registration to the armed deadline delays nothing.
LEMMA RearmStep == IInv /\ timer_rearm => IInv' /\ Settles
<1> SUFFICES ASSUME IInv, timer_rearm PROVE IInv' /\ Settles
  OBVIOUS
<1>1. /\ TypeOK /\ ArmedInv /\ ArrivalInv /\ PingInv /\ AnswerInv /\ InTime
      /\ outcome = "open" /\ registered' = armed.at
      /\ UNCHANGED <<config, now, last_inbound, outstanding, stopped, published, queue, drv,
                     armed, outcome, nonce, seen>>
  BY DEF timer_rearm, IInv
<1>2. armed.at \in Nat
  BY <1>1 DEF TypeOK
<1>3. TypeOK'
  BY <1>1, <1>2 DEF TypeOK
<1>4. ArmedInv'
  BY <1>1, <1>2 DEF ArmedInv, Current, next_deadline, next_hard_deadline, idle_deadline, hb
<1>5. ArrivalInv' /\ PingInv' /\ AnswerInv' /\ InTime'
  BY <1>1 DEF ArrivalInv, tracks_inbound_activity, PingInv, AnswerInv, Answers, InTime
<1> QED
  BY <1>1, <1>3, <1>4, <1>5 DEF IInv, PongTimeoutJustified, IdleTimeoutJustified, Settles

\* note_inbound: a data frame is published but wakes nobody.
LEMMA NoteStep == IInv /\ note_inbound => IInv' /\ Settles
<1> SUFFICES ASSUME IInv, note_inbound PROVE IInv' /\ Settles
  OBVIOUS
<1>1. /\ TypeOK /\ ArmedInv /\ ArrivalInv /\ PingInv /\ AnswerInv /\ InTime /\ outcome = "open"
      /\ published' = IF tracks_inbound_activity THEN Later(published, now) ELSE published
      /\ seen' = [seen EXCEPT !.last = now]
      /\ UNCHANGED <<config, now, last_inbound, outstanding, stopped, queue, drv, armed,
                     registered, outcome, nonce>>
  BY DEF note_inbound, IInv
<1>2. /\ seen \in [last : Nat, flushedAt : Nat, answered : BOOLEAN]
      /\ now \in Nat /\ published \in Nat /\ published <= now /\ seen.last <= now
      /\ config.idle_timeout \in Nat /\ seen.last \in Nat /\ last_inbound \in Nat /\ drv.earlyAt \in Nat
      /\ \A i \in 1 .. Len(queue) : queue[i].at \in Nat
  <2>1. \A i \in 1 .. Len(queue) : queue[i].at \in Nat
    <3>1. queue \in Seq([kind : {"Ping", "Pong", "Close"}, payload : Nat, at : Nat])
      BY <1>1 DEF TypeOK
    <3>2. \A i \in 1 .. Len(queue) : queue[i] \in [kind : {"Ping", "Pong", "Close"}, payload : Nat, at : Nat]
      BY <3>1, ElementOfSeq
    <3> QED
      BY <3>2
  <2> QED
    BY <1>1, <2>1, ConfigType DEF TypeOK, ArrivalInv
<1>3. /\ seen' \in [last : Nat, flushedAt : Nat, answered : BOOLEAN]
      /\ seen'.last = now /\ seen'.flushedAt = seen.flushedAt /\ seen'.answered = seen.answered
  BY <1>1, <1>2
<1>4. published' \in Nat /\ published' <= now /\ (tracks_inbound_activity => published' = now)
  BY <1>1, <1>2 DEF Later
<1>5. TypeOK'
  BY <1>1, <1>3, <1>4 DEF TypeOK
<1>6. ArmedInv'
  BY <1>1 DEF ArmedInv, Current, next_deadline, next_hard_deadline, idle_deadline, hb
<1>7. ArrivalInv'
  <2>1. tracks_inbound_activity' => seen'.last <= published'
    BY <1>1, <1>2, <1>3, <1>4 DEF tracks_inbound_activity
  <2>2. \A i \in 1 .. Len(queue) : queue[i].at <= now
    BY <1>1, <1>2 DEF ArrivalInv
  <2> QED
    BY <1>1, <1>2, <1>3, <1>4, <2>1, <2>2 DEF ArrivalInv
<1>8. PingInv' /\ AnswerInv'
  BY <1>1, <1>3 DEF PingInv, AnswerInv, Answers
<1>9. InTime'
  BY <1>1, <1>2, <1>3 DEF InTime
<1> QED
  BY <1>1, <1>5, <1>6, <1>7, <1>8, <1>9 DEF IInv, PongTimeoutJustified, IdleTimeoutJustified,
     Settles

\* tick: time passes only while nothing the driver waits for is due.
LEMMA TickStep == IInv /\ tick => IInv' /\ Settles
<1> SUFFICES ASSUME IInv, tick PROVE IInv' /\ Settles
  OBVIOUS
<1>1. /\ TypeOK /\ ArmedInv /\ ArrivalInv /\ PingInv /\ AnswerInv /\ InTime /\ outcome = "open"
      /\ ~Fires /\ now' = now + 1
      /\ UNCHANGED <<config, last_inbound, outstanding, stopped, published, queue, drv, armed,
                     registered, outcome, nonce, seen>>
  BY DEF tick, IInv
<1>2. /\ now \in Nat /\ last_inbound \in Nat /\ published \in Nat /\ seen.last \in Nat
      /\ registered \in Nat /\ armed.at \in Nat /\ outstanding.deadline \in Nat
      /\ config.idle_timeout \in Nat /\ config \in Configs
  BY <1>1, ConfigType DEF TypeOK
<1>3. TypeOK'
  BY <1>1, <1>2 DEF TypeOK
<1>4. ArmedInv'
  BY <1>1 DEF ArmedInv, Current, next_deadline, next_hard_deadline, idle_deadline, hb
<1>5. ArrivalInv'
  <2>1. seen'.last <= now'
    BY <1>1, <1>2 DEF ArrivalInv
  <2> QED
    BY <1>1, <2>1 DEF ArrivalInv, tracks_inbound_activity
<1>6. PingInv' /\ AnswerInv'
  BY <1>1 DEF PingInv, AnswerInv, Answers
<1>7. InTime'
  <2>1. hb \in HB /\ ~hb.stopped /\ hb.ping = outstanding /\ hb.last = last_inbound
    BY <1>1, HeartbeatType DEF ArmedInv, hb
  <2>2. armed.kind # "none" => now < armed.at
    BY <1>1, <1>2 DEF Fires, ArmedInv
  <2>3. config.idle_timeout # 0 => armed.kind # "none" /\ armed.at <= last_inbound + config.idle_timeout
    BY <1>1, <1>2, <2>1, DeadlineBound DEF ArmedInv
  <2>4. outstanding.timed => armed.kind # "none" /\ armed.at <= outstanding.deadline
    BY <1>1, <1>2, <2>1, DeadlineBound DEF ArmedInv
  <2>5. last_inbound <= seen.last
    BY <1>1 DEF ArrivalInv
  <2> QED
    BY <1>1, <1>2, <2>2, <2>3, <2>4, <2>5 DEF InTime
<1> QED
  BY <1>1, <1>3, <1>4, <1>5, <1>6, <1>7 DEF IInv, PongTimeoutJustified, IdleTimeoutJustified,
     Settles

\* hand_over: the reader stamps a control frame with its arrival and queues it.
LEMMA HandOverStep ==
    ASSUME NEW kind \in {"Ping", "Pong", "Close"}, NEW payload \in Nat
    PROVE  IInv /\ hand_over(kind, payload) => IInv' /\ Settles
<1> SUFFICES ASSUME IInv, hand_over(kind, payload) PROVE IInv' /\ Settles
  OBVIOUS
<1> DEFINE f == [kind |-> kind, payload |-> payload, at |-> now]
           R == [kind : {"Ping", "Pong", "Close"}, payload : Nat, at : Nat]
<1>1. /\ TypeOK /\ ArmedInv /\ ArrivalInv /\ PingInv /\ AnswerInv /\ InTime /\ outcome = "open"
      /\ queue' = Append(queue, f)
      /\ seen' = [seen EXCEPT !.last = now,
                              !.answered = @ \/ (/\ kind = "Pong" /\ payload = outstanding.payload
                                                 /\ outstanding.active
                                                 /\ outstanding.timed => now < outstanding.deadline)]
      /\ UNCHANGED <<config, now, last_inbound, outstanding, stopped, published, drv, armed,
                     registered, outcome, nonce>>
  BY DEF hand_over, IInv
<1>2. /\ seen \in [last : Nat, flushedAt : Nat, answered : BOOLEAN] /\ queue \in Seq(R)
      /\ now \in Nat /\ seen.last <= now
      /\ config.idle_timeout \in Nat /\ seen.last \in Nat /\ last_inbound \in Nat /\ drv.earlyAt \in Nat
      /\ published \in Nat
  BY <1>1, ConfigType DEF TypeOK, ArrivalInv
<1>3. f \in R /\ f.at = now /\ f.kind = kind /\ f.payload = payload
  BY <1>2
<1>4. /\ seen' \in [last : Nat, flushedAt : Nat, answered : BOOLEAN]
      /\ seen'.last = now /\ seen'.flushedAt = seen.flushedAt
      /\ seen'.answered = (seen.answered \/ Answers(f))
  BY <1>1, <1>2, <1>3 DEF Answers
<1> HIDE DEF f, R
<1>5. /\ queue' \in Seq(R) /\ Len(queue') = Len(queue) + 1 /\ queue'[Len(queue) + 1] = f
      /\ \A i \in 1 .. Len(queue) : queue'[i] = queue[i]
      /\ Len(queue) \in Nat
  BY <1>1, <1>2, <1>3, AppendProperties, LenProperties
<1>6. \A i \in 1 .. Len(queue) : queue[i].at \in Nat
  <2>1. \A i \in 1 .. Len(queue) : queue[i] \in R
    BY <1>2, ElementOfSeq
  <2> QED
    BY <2>1 DEF R
<1>7. \A i \in 1 .. Len(queue') : i \in 1 .. Len(queue) \/ queue'[i] = f
  BY <1>5
<1>8. Len(queue) + 1 \in 1 .. Len(queue') /\ \A i \in 1 .. Len(queue) : i \in 1 .. Len(queue')
  BY <1>5
<1>9. TypeOK'
  BY <1>1, <1>4, <1>5 DEF TypeOK, R
<1>10. ArmedInv'
  BY <1>1 DEF ArmedInv, Current, next_deadline, next_hard_deadline, idle_deadline, hb
<1>11. ArrivalInv'
  <2>1. \A i \in 1 .. Len(queue) : queue[i].at <= now
    BY <1>1, <1>2, <1>6 DEF ArrivalInv
  <2>2. \A i \in 1 .. Len(queue') : queue'[i].at <= now
    BY <1>2, <1>3, <1>5, <1>7, <2>1
  <2>3. \E i \in 1 .. Len(queue') : now <= queue'[i].at
    BY <1>2, <1>3, <1>5, <1>8
  <2>4. /\ now <= now /\ last_inbound <= now /\ published <= now /\ drv.earlyAt <= now
    BY <1>1, <1>2 DEF ArrivalInv
  <2> QED
    BY <1>1, <1>4, <2>2, <2>3, <2>4 DEF ArrivalInv
<1>12. PingInv'
  BY <1>1, <1>4 DEF PingInv
<1>13. AnswerInv'
  <2>1. (\E i \in 1 .. Len(queue') : Answers(queue'[i])) =
          (Answers(f) \/ \E i \in 1 .. Len(queue) : Answers(queue[i]))
    BY <1>5, <1>7, <1>8
  <2>2. (\E i \in 1 .. Len(queue) : Answers(queue[i]))' = \E i \in 1 .. Len(queue') : Answers(queue'[i])
    BY <1>1 DEF Answers
  <2>3. Answers(f) => outstanding.active
    BY DEF Answers
  <2> QED
    BY <1>1, <1>4, <2>1, <2>2, <2>3 DEF AnswerInv
<1>14. InTime'
  BY <1>1, <1>2, <1>4 DEF InTime
<1> QED
  BY <1>1, <1>9, <1>10, <1>11, <1>12, <1>13, <1>14
     DEF IInv, PongTimeoutJustified, IdleTimeoutJustified, Settles

-----------------------------------------------------------------------------
(* The theorems *)

\* Every step keeps the invariant and settles a Ping only by its Pong.
LEMMA NextStep == IInv /\ [Next]_vars => IInv' /\ (Settles \/ UNCHANGED vars)
<1> SUFFICES ASSUME IInv, [Next]_vars PROVE IInv' /\ (Settles \/ UNCHANGED vars)
  OBVIOUS
<1>1. CASE hand_over("Ping", 0)
  BY <1>1, HandOverStep
<1>2. CASE hand_over("Close", 0)
  BY <1>2, HandOverStep
<1>3. CASE \E payload \in 1 .. nonce + 1 : hand_over("Pong", payload)
  <2>1. PICK payload \in 1 .. nonce + 1 : hand_over("Pong", payload)
    BY <1>3
  <2>2. payload \in Nat
    BY DEF IInv, TypeOK
  <2> QED
    BY <2>1, <2>2, HandOverStep
<1>4. CASE UNCHANGED vars
  <2>1. IInv'
    BY <1>4 DEF vars, IInv, TypeOK, ArmedInv, Current, next_deadline, next_hard_deadline,
       idle_deadline,
       hb, ArrivalInv, tracks_inbound_activity, PingInv, AnswerInv, Answers, InTime,
       PongTimeoutJustified, IdleTimeoutJustified
  <2> QED
    BY <1>4, <2>1
<1> QED
  BY <1>1, <1>2, <1>3, <1>4, ControlStep, RearmStep, TimerStep, WrittenStep, NoteStep,
     TickStep DEF Next

\* Every reachable state satisfies the inductive invariant.
THEOREM HeartbeatInvariant == Spec => []IInv
BY InitInv, NextStep, PTL DEF Spec

\* The types and the bounds of the clock's copies hold in every reachable state.
THEOREM HeartbeatTypes == Spec => []TypeOK
<1>1. IInv => TypeOK
  BY DEF IInv
<1> QED
  BY <1>1, HeartbeatInvariant, PTL

\* A connection is given up for a missing Pong only after the full pong_timeout since the
\* flush, and never when an in-time answer was handed over.
THEOREM PongTimeoutAlwaysJustified == Spec => []PongTimeoutJustified
<1>1. IInv => PongTimeoutJustified
  BY DEF IInv
<1> QED
  BY <1>1, HeartbeatInvariant, PTL

\* A connection is given up as idle only when no frame of any kind arrived for
\* idle_timeout, and a tie goes to the Pong deadline.
THEOREM IdleTimeoutAlwaysJustified == Spec => []IdleTimeoutJustified
<1>1. IInv => IdleTimeoutJustified
  BY DEF IInv
<1> QED
  BY <1>1, HeartbeatInvariant, PTL

\* While the connection is open no idle, Pong or Ping deadline has passed, even behind a
\* write that does not finish and although the timer's registration is only ever moved
\* earlier when the loop is entered.
THEOREM DeadlinesNeverMissed == Spec => []NoDeadlineMissed
BY InTimeDeadlines, HeartbeatInvariant, PTL

\* An outstanding Ping keeps its payload and its deadline until its own in-time Pong
\* settles it.
THEOREM OnlyItsPongEverSettlesPing == Spec => OnlyItsPongSettlesPing
<1>1. IInv /\ [Next]_vars =>
        [outstanding.active /\ ~stopped' =>
           \/ /\ outstanding'.active /\ outstanding'.payload = outstanding.payload
              /\ outstanding.timed => outstanding'.deadline = outstanding.deadline
           \/ seen.answered]_vars
  BY NextStep DEF Settles
<1> QED
  BY <1>1, HeartbeatInvariant, PTL DEF Spec, OnlyItsPongSettlesPing

=============================================================================
