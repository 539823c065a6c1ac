------------------------ MODULE UnifiedStreamProofs ------------------------
(***************************************************************************)
(* The unified streams for every set of setups and tasks: a sleeping half  *)
(* is woken, messages are delivered in wire order, the bytes written are   *)
(* the frames in the order they were encoded, and Pings are answered.      *)
(*                                                                         *)
(* None of these is inductive. A wake-up is not lost because a poll that   *)
(* registered is in its slot or has been called, from its registration to  *)
(* its return, against a proxy that takes the two slots one after the      *)
(* other and a stale read of the armed flag (PollWakers, SlotInv,          *)
(* SleepInv); which transport calls a poll may be in, and where each       *)
(* returns to, is Places, and that a reader which sleeps while closing     *)
(* need not listen for reads rests on ClosingInv. Messages keep their      *)
(* order because what was delivered, the one message in hand, the batch    *)
(* and the read buffer are always consecutive parts of the script          *)
(* (FlowInv, HandInv), and a reader reaches the transport only with all of *)
(* them empty (KeepInv, ReaderInv). The output is the contents of the      *)
(* cork, which writing and consuming change at its two ends only (lemmas   *)
(* ContentsWrite to ContentsConsume). Of the Pings the application knows,  *)
(* the latest is answered by the Pong that waits or by one that was        *)
(* encoded, or a Close is parsed behind it (PongInv); a message overtakes  *)
(* a waiting Pong only if it was admitted before the Ping was answered,    *)
(* and it uses its admission up (OvertakeInv).                             *)
(*                                                                         *)
(* The records of the model carry their shape in the invariant (Shapes):   *)
(* every lemma about an action then reads it off the EXCEPT of the action. *)
(***************************************************************************)
EXTENDS UnifiedStream, Lemmas

\* A record with just these fields: what EXCEPT keeps.
Record(r, fields) == r = [f \in fields |-> r[f]]

\* The fields of the records of the state.
SFields == {"state", "closing", "post_expiry", "shutdown", "pending", "batch", "read_buf",
            "unprocessed", "parse_error", "control", "terminal", "flush_on_read",
            "close_after_flush", "write_buf", "pending_pong", "ping_flush", "ready_flush", "ping",
            "stopped", "pings", "batch_has_close"}
PFields == {"op", "half", "task", "pc", "call", "ret", "res", "parsed", "expired", "late",
            "buffered", "armed"}
WFields == {"waker", "armed", "waiting", "registered", "owner", "moves", "timer", "asleep", "woken"}
NetFields == {"script", "read", "arrived", "writable", "broken", "interest", "waking", "taken"}
SeenFields == {"queue", "ordered", "pong", "delivered", "ended", "sends", "admitted", "overtook"}

\* The shapes of the records; each half has a slot.
WShape(wk) ==
    /\ Record(wk, WFields) /\ wk.owner \in [Half -> Tasks]
    /\ Record(wk.waker, Half) /\ Record(wk.armed, Half) /\ Record(wk.waiting, Half)
    /\ Record(wk.registered, Half) /\ Record(wk.asleep, Half)
Shapes == Record(s, SFields) /\ Record(net, NetFields) /\ Record(seen, SeenFields) /\ WShape(w)

-----------------------------------------------------------------------------
(* Where the poll in progress is *)

\* Where a poll is, or where the call to the transport it makes will return to.
Bound(q) == IF q.pc \in {"register", "drain", "shutdown"} THEN q.ret ELSE q.pc
Towards == Bound(p)

\* The locations of each poll.
PlacesOf(op) ==
    IF op = "next"
    THEN {"top", "errors", "process", "read", "nodata", "flushed", "shut", "fed", "lateShut"}
    ELSE IF op = "close" THEN {"start", "closeFlushed", "closeShut"} ELSE {"start", "done"}
Reading == p.op = "next"
Sinking == p.op \in {"ready", "flush", "close"}

\* The calls to the transport that return where the poll looks at their result.
Waits == {"flushed", "shut", "fed", "done", "closeFlushed", "closeShut"}
Returns(op) == PlacesOf(op) \cap (Waits \cup {"lateShut"})

PollAt(q) ==
    /\ Record(q, PFields) /\ q.task \in Tasks /\ q.op \in {"next", "ready", "flush", "close"}
    /\ q.half = (IF q.op = "next" THEN "Stream" ELSE "Sink")
    /\ q.op # "next" => q.parsed = NoFrame
    /\ Bound(q) \in PlacesOf(q.op)
    /\ q.pc = "register" => q.call \in {"drain", "shutdown"}
    /\ q.pc \in {"register", "drain", "shutdown"} => q.ret \in Returns(q.op)
    /\ q.pc \in Waits => q.res \in {"ready", "pending", "err"}

Places ==
    \/ p = Idle
    \/ p = [op |-> "closing", half |-> "Stream", pc |-> p.pc] /\ p.pc \in {"write", "end"}
    \/ PollAt(p)

\* The write side is shut down only while closing, and a stream with a bad frame is not open.
ClosingFields(st) ==
    /\ (st.closing => st.stopped) /\ (st.close_after_flush => st.closing)
    /\ (st.shutdown # "NotStarted" => st.closing) /\ (st.state = "Closed" => st.stopped)
    /\ (st.parse_error => st.state # "Open") /\ st.terminal # "message"
Ending(q) ==
    \/ q.op = "closing"
    \/ q.op = "next" /\ Bound(q) \in {"shut", "lateShut"}
    \/ q.op = "close" /\ Bound(q) # "start"
    \/ q.op # "none" /\ (q.pc = "shutdown" \/ (q.pc = "register" /\ q.call = "shutdown"))
ClosingInv == ClosingFields(s) /\ (Ending(p) => s.closing)

-----------------------------------------------------------------------------
(* Wakers *)

\* The half that is polled, and the transport or the timer, know of each other.
Registered == p.pc \in {"drain", "shutdown", "nodata"} \/ (p.pc \in Waits /\ p.res = "pending")
Polled == Reading \/ Sinking

\* A task that will be polled again anyway.
Called(task) == task \in w.woken \cup net.taken

PollWakers ==
    Polled =>
      /\ w.asleep[p.half] = NoTask
      /\ p.armed /\ w.registered[p.half] = p.task => w.waker[p.half] = p.task \/ Called(p.task)
      /\ Registered => w.waiting[p.half] /\ (w.waker[p.half] = p.task \/ Called(p.task))
      /\ p.pc \in Waits /\ p.res = "pending" => "write" \in net.interest
      /\ p.pc = "nodata" => "read" \in net.interest

SlotInv ==
    /\ \A h \in Half : w.armed[h] => w.waker[h] = w.registered[h]
    /\ net.waking \in {"none", "Stream", "Sink"}
    /\ net.waking # "Sink" => net.taken = {}
    /\ p.op = "closing" => \A h \in Half : w.asleep[h] = NoTask

\* The deadlines a sleeping reader waits for pass in their order.
Timed == /\ ~s.stopped /\ "idle" \in due => Primary(s) \in due
         /\ Covered(next_deadline(s))

SleepInv ==
    \A h \in Half :
      w.asleep[h] # NoTask /\ ~Called(w.asleep[h]) =>
        /\ w.waker[h] = w.asleep[h] /\ w.waiting[h]
        /\ net.waking \notin {"Stream", h} =>
             IF h = "Sink" THEN "write" \in net.interest
             ELSE /\ net.interest # {} /\ (~s.closing => "read" \in net.interest)
                  /\ Timed

Wakers == PollWakers /\ SlotInv /\ SleepInv

-----------------------------------------------------------------------------
(* The output *)

Cell == [kind : {"data", "head", "pong", "close", "autoping"}, id : Nat]
Corks(T) == [segments : Seq(Seq(T) \ {<<>>}), buffer : Seq(T)]
OutInv ==
    /\ s.write_buf \in Corks(Cell) /\ OutputOrder
    /\ s.pending_pong \in Nat /\ seen.sends \in Nat

-----------------------------------------------------------------------------
(* Messages *)

Sent == {net.script[i] : i \in 1 .. Len(net.script)}
Whole == [kind : Kinds \ {"frag", "bad"}, id : Nat]

NetInv ==
    /\ net.script \in Seq([kind : Kinds, id : Nat])
    /\ \A i \in 1 .. Len(net.script) : net.script[i].id = i
    /\ net.arrived \in 0 .. Len(net.script) /\ net.read \in 0 .. net.arrived

Message == Sent \cap Whole
\* The message parsed last.
InParser == IF Reading THEN p.parsed ELSE NoFrame
FrameTypes ==
    /\ s.control \in Message \cup {NoFrame} /\ InParser \in Message \cup {NoFrame}
    /\ s.pending \in {<<>>} \cup {<<f>> : f \in Message}
    /\ s.batch \in Seq(Message) /\ s.read_buf \in Seq(Sent)

\* At most one message is in hand: answered, parsed or kept by a poll that returned Pending.
HandInv ==
    /\ s.control # NoFrame => InParser = NoFrame /\ s.pending = <<>>
    /\ InParser # NoFrame => s.pending = <<>> /\ s.batch = <<>>
    /\ s.pending # <<>> => s.batch = <<>>
Hand == IF s.control # NoFrame THEN <<s.control.id>>
        ELSE IF InParser # NoFrame THEN <<InParser.id>>
        ELSE IF s.pending # <<>> THEN <<s.pending[1].id>> ELSE <<>>

Live == s.state # "Closed" /\ ~s.parse_error /\ ~s.close_after_flush
EmptyHanded == Hand = <<>> /\ s.batch = <<>>

\* What the stream keeps between polls: a control frame to deliver is behind a flush, and the
\* read buffer is empty unless it is known to hold something.
KeepInv ==
    /\ s.state # "Closed" /\ (s.control # NoFrame \/ s.close_after_flush) => s.flush_on_read
    /\ Live /\ s.unprocessed => s.batch = <<>>
    /\ Live /\ ~(Reading /\ Towards = "process") /\ ~s.unprocessed => s.read_buf = <<>>
    /\ s.parse_error => ~s.unprocessed
    /\ "none" \notin due

\* What a reader may hold where it is.
ReaderInv ==
    Reading =>
      IF s.state = "Closed" THEN p.pc = "top" \/ (p.pc \in {"flushed", "fed"} /\ p.res = "err")
      ELSE /\ p.expired # "none" => p.expired \in due /\ Towards \in {"top", "errors"}
           /\ s.close_after_flush => Towards \in {"top", "flushed", "shut"} /\ p.expired = "none"
           /\ s.control # NoFrame => Towards \in {"top", "flushed", "shut"} \/ p.expired # "none"
           /\ Towards \in {"process", "read", "nodata", "fed", "lateShut"} => EmptyHanded /\ Live
           /\ Towards \in {"read", "nodata", "fed", "lateShut"} => ~s.unprocessed
           /\ p.pc = "drain" \/ (p.pc = "register" /\ p.call = "drain") => p.ret \in {"flushed", "fed"}

\* A reader sleeps on an open connection only when it was given everything.
SleepsEmpty ==
    w.asleep["Stream"] # NoTask /\ s.state = "Open" /\ ~s.closing => EmptyHanded /\ s.read_buf = <<>>

ReadInv == KeepInv /\ ReaderInv /\ SleepsEmpty

FlowInv == Flow(net.script, Whole, net.read, FALSE, seen.delivered, Hand, s.batch, s.read_buf, FALSE, Live)

-----------------------------------------------------------------------------
(* Pongs *)

OpenNow == s.state = "Open" /\ ~s.closing
\* The messages the application was given or is about to be given.
Told == {seen.delivered[j] : j \in 1 .. Len(seen.delivered)} \cup
        (IF s.control # NoFrame THEN {s.control.id} ELSE {})

\* The compressed stream parses into its batch only.
BatchOnly == setup.compressed => InParser = NoFrame /\ s.pending = <<>>

\* Every Ping the application was told about is answered by the Pong that waits or by one that was
\* encoded, unless the Close that was parsed behind it makes the answer pointless.
PongInv ==
    /\ seen.pong \in Nat
    /\ s.state = "Open" /\ s.closing => s.pending_pong = 0 /\ s.close_after_flush
    /\ OpenNow =>
         /\ {s.pending_pong, seen.pong} \subseteq {0} \cup Told
         /\ s.pending_pong # 0 => seen.pong <= s.pending_pong
         /\ HasClose(s.batch) \/ \A i \in Pings \cap Told : i <= s.pending_pong \/ i <= seen.pong
         /\ setup.compressed /\ s.batch_has_close /\ s.batch # <<>> => HasClose(s.batch)

\* poll_ready drains, and admits a message only behind the Pong.
ReadyFor == p.op = "ready" => /\ p.pc = "done" /\ p.res = "ready" => s.pending_pong = 0
                              /\ p.pc # "shutdown" /\ (p.pc = "register" => p.call = "drain")

\* At most one message, admitted before the Ping came, goes in front of a Pong that waits.
OvertakeInv ==
    /\ seen.overtook \in {0, 1} /\ ReadyFor
    /\ OpenNow /\ seen.overtook = 1 => s.pending_pong # 0 /\ ~seen.admitted

\* The inductive invariant.
IInv ==
    /\ setup \in Setups /\ Shapes /\ Places /\ ClosingInv /\ Wakers
    /\ NetInv /\ FrameTypes /\ HandInv /\ FlowInv /\ ReadInv
    /\ OutInv /\ BatchOnly /\ PongInv /\ OvertakeInv

-----------------------------------------------------------------------------
(* The cork buffer *)

\* Three sequences in a row.
LEMMA Associative ==
    ASSUME NEW T
    PROVE  \A x, y, z \in Seq(T) : (x \o y) \o z = x \o (y \o z)
  BY ConcatAssociative

\* f holds the first segments put together, up to each of them.
JoinedRun(T, segs, n, f) ==
    /\ f \in [0 .. n -> Seq(T)] /\ f[0] = <<>>
    /\ \A i \in 1 .. n : f[i] = f[i - 1] \o segs[i]

\* The recursion that defines Joined has a solution, and Joined is its last value.
LEMMA JoinedUnfolds ==
    ASSUME NEW T, NEW segs \in Seq(Seq(T)), NEW n \in 0 .. Len(segs)
    PROVE  \E f : JoinedRun(T, segs, n, f) /\ Joined(segs, n) = f[n]
<1> DEFINE Q == Seq(T)
           z == <<>>
           F == [i \in 1 .. n |-> [v \in Q |-> v \o segs[i]]]
           Step(f) == [i \in 0 .. n |-> IF i = 0 THEN <<>> ELSE f[i - 1] \o segs[i]]
           g == CHOOSE f : f = Step(f)
<1>1. n \in Nat /\ \A i \in 1 .. n : segs[i] \in Q
  OBVIOUS
<1>2. Joined(segs, n) = g[n]
  BY DEF Joined
<1>3. \A i \in 1 .. n, v \in Q : F[i][v] = v \o segs[i]
  OBVIOUS
<1>4. StaysIn(Q, n, F) /\ z \in Q
  <2>1. ASSUME NEW i \in 1 .. n, NEW v \in Q PROVE F[i][v] \in Q
    <3>1. segs[i] \in Q
      BY <1>1
    <3>2. v \o segs[i] \in Q
      BY <3>1
    <3> HIDE DEF F, Q
    <3> QED BY <1>3, <3>2
  <2> HIDE DEF F, Q
  <2>2. StaysIn(Q, n, F)
    BY <2>1 DEF StaysIn
  <2>3. z \in Q
    BY DEF Q
  <2> QED
    BY <2>2, <2>3
<1> HIDE DEF F, z, Q
<1>5. \E f : f = Step(f)
  <2> HIDE DEF Step
  <2>1. \E f : Iterates(Q, n, F, z, f)
    BY <1>1, <1>4, IterationExists
  <2>2. PICK f : Iterates(Q, n, F, z, f)
    BY <2>1
  <2>3. f \in [0 .. n -> Q] /\ f[0] = <<>> /\ \A i \in 1 .. n : f[i] = F[i][f[i - 1]]
    BY <2>2 DEF Iterates, z
  <2>4. ASSUME NEW i \in 0 .. n PROVE f[i] = Step(f)[i]
    <3>1. CASE i = 0
      BY <2>3, <3>1 DEF Step
    <3>2. CASE i # 0
      <4>1. i \in 1 .. n /\ i - 1 \in 0 .. n
        BY <1>1, <3>2
      <4>2. f[i - 1] \in Q
        BY <2>3, <4>1
      <4>3. f[i] = f[i - 1] \o segs[i]
        BY <1>3, <2>3, <4>1, <4>2
      <4> QED
        BY <3>2, <4>1, <4>3 DEF Step
    <3> QED
      BY <3>1, <3>2
  <2>5. f = [i \in 0 .. n |-> f[i]] /\ Step(f) = [i \in 0 .. n |-> Step(f)[i]]
    BY <2>3 DEF Step
  <2> QED
    BY <2>4, <2>5
<1>6. g = Step(g)
  BY <1>5
<1> HIDE DEF g
<1>7. /\ g[0] = <<>>
      /\ \A i \in 1 .. n : g[i] = g[i - 1] \o segs[i]
  <2>1. ASSUME NEW i \in 0 .. n PROVE g[i] = Step(g)[i]
    <3> HIDE DEF Step
    <3> QED BY <1>6
  <2>2. 0 \in 0 .. n /\ \A i \in 1 .. n : i \in 0 .. n /\ i # 0
    BY <1>1
  <2> QED
    BY <2>1, <2>2
<1> DEFINE K == {k \in Nat : k <= n => g[k] \in Q}
<1>8. 0 \in K
  BY <1>4, <1>7 DEF z
<1>9. ASSUME NEW k \in K PROVE k + 1 \in K
  <2> SUFFICES ASSUME k + 1 <= n PROVE g[k + 1] \in Q
    OBVIOUS
  <2>1. k + 1 \in 1 .. n /\ (k + 1) - 1 = k /\ g[k] \in Q
    BY <1>1, <1>9
  <2>2. segs[k + 1] \in Q
    BY <1>1, <2>1
  <2>3. g[k + 1] = g[k] \o segs[k + 1]
    BY <1>7, <2>1
  <2>4. g[k] \o segs[k + 1] \in Q
    BY <2>1, <2>2 DEF Q
  <2> QED
    BY <2>3, <2>4
<1>10. K \in SUBSET Nat
  OBVIOUS
<1>11. \A k \in 0 .. n : g[k] \in Q
  <2> HIDE DEF K
  <2>1. K = Nat
    BY <1>8, <1>9, <1>10, SetInduction
  <2> QED
    BY <1>1, <2>1 DEF K
<1>12. g \in [0 .. n -> Q]
  <2>1. g = [i \in 0 .. n |-> Step(g)[i]]
    BY <1>6
  <2> HIDE DEF Step
  <2> QED BY <1>11, <2>1
<1>13. JoinedRun(T, segs, n, g)
  BY <1>7, <1>12 DEF JoinedRun, Q
<1> QED
  BY <1>2, <1>13

\* Two runs over the same segments agree.
LEMMA JoinedSame ==
    ASSUME NEW T, NEW a \in Seq(Seq(T)), NEW b \in Seq(Seq(T)), NEW n \in Nat,
           n <= Len(a), n <= Len(b), \A i \in 1 .. n : a[i] = b[i]
    PROVE  Joined(a, n) = Joined(b, n) /\ Joined(a, n) \in Seq(T)
<1>0. n \in 0 .. Len(a) /\ n \in 0 .. Len(b)
  OBVIOUS
<1>1. PICK f : JoinedRun(T, a, n, f) /\ Joined(a, n) = f[n]
  BY <1>0, JoinedUnfolds
<1>2. PICK g : JoinedRun(T, b, n, g) /\ Joined(b, n) = g[n]
  BY <1>0, JoinedUnfolds
<1> DEFINE K == {k \in Nat : k <= n => f[k] = g[k]}
<1>3. 0 \in K
  BY <1>1, <1>2 DEF JoinedRun
<1>4. ASSUME NEW k \in K PROVE k + 1 \in K
  <2> SUFFICES ASSUME k + 1 <= n PROVE f[k + 1] = g[k + 1]
    OBVIOUS
  <2>1. k + 1 \in 1 .. n /\ (k + 1) - 1 = k /\ f[k] = g[k] /\ a[k + 1] = b[k + 1]
    BY <1>4
  <2>2. f[k + 1] = f[k] \o a[k + 1] /\ g[k + 1] = g[k] \o b[k + 1]
    BY <1>1, <1>2, <2>1 DEF JoinedRun
  <2> QED
    BY <2>1, <2>2
<1>5. K \in SUBSET Nat
  OBVIOUS
<1>6. f[n] = g[n]
  <2> HIDE DEF K
  <2>1. K = Nat
    BY <1>3, <1>4, <1>5, SetInduction
  <2> QED
    BY <2>1 DEF K
<1>7. f[n] \in Seq(T)
  BY <1>1, <1>0 DEF JoinedRun
<1> QED
  BY <1>1, <1>2, <1>6, <1>7

\* One segment more.
LEMMA JoinedStep ==
    ASSUME NEW T, NEW a \in Seq(Seq(T))
    PROVE  /\ Joined(a, 0) = <<>>
           /\ \A n \in 0 .. Len(a) : Joined(a, n) \in Seq(T)
           /\ \A n \in 0 .. Len(a) - 1 : Joined(a, n + 1) = Joined(a, n) \o a[n + 1]
<1>1. Joined(a, 0) = <<>>
  <2>1. 0 \in 0 .. Len(a)
    OBVIOUS
  <2>2. PICK f : JoinedRun(T, a, 0, f) /\ Joined(a, 0) = f[0]
    BY <2>1, JoinedUnfolds
  <2> QED
    BY <2>2 DEF JoinedRun
<1>2. ASSUME NEW n \in 0 .. Len(a) PROVE Joined(a, n) \in Seq(T)
  BY JoinedSame
<1>3. ASSUME NEW n \in 0 .. Len(a) - 1 PROVE Joined(a, n + 1) = Joined(a, n) \o a[n + 1]
  <2>0. n \in Nat /\ n + 1 \in 0 .. Len(a) /\ n \in 0 .. Len(a) /\ n + 1 \in 1 .. n + 1
    OBVIOUS
  <2>1. PICK f : JoinedRun(T, a, n + 1, f) /\ Joined(a, n + 1) = f[n + 1]
    BY <2>0, JoinedUnfolds
  <2>2. PICK g : JoinedRun(T, a, n, g) /\ Joined(a, n) = g[n]
    BY <2>0, JoinedUnfolds
  <2> DEFINE K == {k \in Nat : k <= n => f[k] = g[k]}
  <2>3. 0 \in K
    BY <2>1, <2>2 DEF JoinedRun
  <2>4. ASSUME NEW k \in K PROVE k + 1 \in K
    <3> SUFFICES ASSUME k + 1 <= n PROVE f[k + 1] = g[k + 1]
      OBVIOUS
    <3>1. k + 1 \in 1 .. n /\ k + 1 \in 1 .. n + 1 /\ (k + 1) - 1 = k /\ f[k] = g[k]
      BY <2>4
    <3>2. f[k + 1] = f[k] \o a[k + 1] /\ g[k + 1] = g[k] \o a[k + 1]
      BY <2>1, <2>2, <3>1 DEF JoinedRun
    <3> QED
      BY <3>1, <3>2
  <2>5. K \in SUBSET Nat
    OBVIOUS
  <2>6. f[n] = g[n]
    <3> HIDE DEF K
    <3>1. K = Nat
      BY <2>3, <2>4, <2>5, SetInduction
    <3> QED
      BY <3>1, <2>0 DEF K
  <2>7. (n + 1) - 1 = n
    OBVIOUS
  <2>8. f[n + 1] = f[n] \o a[n + 1]
    <3>1. \A i \in 1 .. n + 1 : f[i] = f[i - 1] \o a[i]
      BY <2>1 DEF JoinedRun
    <3> QED
      BY <3>1, <2>0, <2>7
  <2> QED
    BY <2>1, <2>2, <2>6, <2>8
<1> QED
  BY <1>1, <1>2, <1>3

\* The first k segments, then the others.
LEMMA JoinedSplit ==
    ASSUME NEW T, NEW a \in Seq(Seq(T)), NEW k \in 0 .. Len(a), NEW m \in 0 .. Len(a) - k
    PROVE  Joined(a, k + m) = Joined(a, k) \o Joined(SubSeq(a, k + 1, Len(a)), m)
<1> DEFINE b == SubSeq(a, k + 1, Len(a))
           N == Len(a) - k
           K == {j \in Nat : j <= N => Joined(a, k + j) = Joined(a, k) \o Joined(b, j)}
<1>1. /\ b \in Seq(Seq(T)) /\ Len(b) = N /\ N \in Nat /\ k \in Nat /\ Len(a) \in Nat
      /\ \A j \in 1 .. N : b[j] = a[k + j]
  OBVIOUS
<1> HIDE DEF b
<1>2. Joined(a, k) \in Seq(T) /\ Joined(b, 0) = <<>>
  BY <1>1, JoinedStep
<1>3. 0 \in K
  <2>1. Joined(a, k) = Joined(a, k) \o <<>> /\ k + 0 = k
    BY <1>1, <1>2
  <2> QED
    BY <2>1, <1>2
<1>4. ASSUME NEW j \in K PROVE j + 1 \in K
  <2> SUFFICES ASSUME j + 1 <= N
               PROVE  Joined(a, k + (j + 1)) = Joined(a, k) \o Joined(b, j + 1)
    OBVIOUS
  <2>1. /\ j \in Nat /\ j \in 0 .. Len(b) - 1 /\ k + j \in 0 .. Len(a) - 1 /\ j \in 0 .. Len(b)
        /\ k + (j + 1) = (k + j) + 1 /\ b[j + 1] = a[k + j + 1]
    BY <1>1, <1>4, SMTT(40)
  <2>2. Joined(a, k + j) = Joined(a, k) \o Joined(b, j)
    <3>1. j <= N
      BY <2>1, <1>1
    <3>2. j <= N => Joined(a, k + j) = Joined(a, k) \o Joined(b, j)
      BY <1>4, Zenon
    <3> QED
      BY <3>1, <3>2, Zenon
  <2>3. /\ Joined(a, (k + j) + 1) = Joined(a, k + j) \o a[(k + j) + 1]
        /\ Joined(b, j + 1) = Joined(b, j) \o b[j + 1] /\ Joined(b, j) \in Seq(T)
    BY <2>1, <1>1, JoinedStep
  <2>4. a[k + j + 1] \in Seq(T)
    BY <2>1, <1>1
  <2>5. (Joined(a, k) \o Joined(b, j)) \o b[j + 1] = Joined(a, k) \o (Joined(b, j) \o b[j + 1])
    <3>1. PICK x \in Seq(T) : x = Joined(a, k)
      BY <1>2
    <3>2. PICK y \in Seq(T) : y = Joined(b, j)
      BY <2>3
    <3>3. PICK t \in Seq(T) : t = b[j + 1]
      BY <2>1, <2>4
    <3> HIDE DEF K
    <3>4. (x \o y) \o t = x \o (y \o t)
      BY Associative, SMTT(40)
    <3> QED
      BY <3>1, <3>2, <3>3, <3>4
  <2> QED
    BY <2>1, <2>2, <2>3, <2>5
<1>5. K \in SUBSET Nat
  OBVIOUS
<1> HIDE DEF K
<1>6. K = Nat
  BY <1>3, <1>4, <1>5, SetInduction
<1>7. m \in Nat /\ m <= N
  BY <1>1
<1> QED
  BY <1>6, <1>7 DEF K, b

\* The first segment is shorter.
LEMMA JoinedCut ==
    ASSUME NEW T, NEW a \in Seq(Seq(T)), a # <<>>, NEW x \in Seq(T)
    PROVE  /\ [a EXCEPT ![1] = x] \in Seq(Seq(T)) /\ Len([a EXCEPT ![1] = x]) = Len(a)
           /\ Joined(a, Len(a)) = a[1] \o Joined(SubSeq(a, 2, Len(a)), Len(a) - 1)
           /\ Joined([a EXCEPT ![1] = x], Len(a)) = x \o Joined(SubSeq(a, 2, Len(a)), Len(a) - 1)
<1> DEFINE b == [a EXCEPT ![1] = x]
           n == Len(a)
<1>1. n \in Nat /\ n >= 1 /\ a[1] \in Seq(T)
  OBVIOUS
<1>2. b \in Seq(Seq(T)) /\ Len(b) = n /\ b[1] = x
  BY <1>1
<1>3. SubSeq(b, 2, n) = SubSeq(a, 2, n)
  <2>1. \A i \in 1 .. n - 1 : b[i + 1] = a[i + 1]
    BY <1>1
  <2>2. /\ SubSeq(b, 2, n) = [i \in 1 .. n - 1 |-> b[i + 1]]
        /\ SubSeq(a, 2, n) = [i \in 1 .. n - 1 |-> a[i + 1]]
    BY <1>1, <1>2
  <2> QED
    BY <2>1, <2>2
<1> HIDE DEF b
<1>4. ASSUME NEW c \in Seq(Seq(T)), Len(c) = n
      PROVE  Joined(c, n) = c[1] \o Joined(SubSeq(c, 2, n), n - 1)
  <2>1. 0 \in 0 .. Len(c) - 1 /\ 1 \in 0 .. Len(c) /\ n - 1 \in 0 .. Len(c) - 1 /\ 1 + (n - 1) = n
    BY <1>1, <1>4
  <2>2. Joined(c, 0) = <<>> /\ Joined(c, 0 + 1) = Joined(c, 0) \o c[0 + 1] /\ c[1] \in Seq(T)
    <3>1. c[1] \in Seq(T)
      BY <1>1, <1>4
    <3>2. Joined(c, 0) = <<>> /\ \A i \in 0 .. Len(c) - 1 : Joined(c, i + 1) = Joined(c, i) \o c[i + 1]
      BY JoinedStep
    <3> QED
      BY <2>1, <3>1, <3>2
  <2>3. Joined(c, 1) = c[1]
    <3>1. 0 + 1 = 1
      OBVIOUS
    <3>2. \A z \in Seq(T) : <<>> \o z = z
      OBVIOUS
    <3>3. Joined(c, 1) = <<>> \o c[1]
      BY <2>2, <3>1
    <3>4. <<>> \o c[1] = c[1]
      BY <2>2, <3>2
    <3> QED
      BY <3>3, <3>4
  <2>4. Joined(c, 1 + (n - 1)) = Joined(c, 1) \o Joined(SubSeq(c, 1 + 1, Len(c)), n - 1)
    BY <2>1, JoinedSplit
  <2>5. 1 + 1 = 2
    OBVIOUS
  <2> QED
    BY <2>1, <2>3, <2>4, <2>5, <1>4
<1>5. Len(a) = n
  OBVIOUS
<1> HIDE DEF n
<1>6. Joined(a, n) = a[1] \o Joined(SubSeq(a, 2, n), n - 1)
  BY <1>4, <1>5
<1>7. Joined(b, n) = b[1] \o Joined(SubSeq(b, 2, n), n - 1)
  BY <1>4, <1>2
<1> QED
  BY <1>2, <1>3, <1>5, <1>6, <1>7 DEF b, n

\* The types of what a cork buffer holds.
LEMMA ContentsType ==
    ASSUME NEW T, NEW c \in Corks(T)
    PROVE  /\ c.segments \in Seq(Seq(T)) /\ c.buffer \in Seq(T)
           /\ \A i \in 1 .. Len(c.segments) : c.segments[i] # <<>>
           /\ Joined(c.segments, Len(c.segments)) \in Seq(T) /\ Contents(c) \in Seq(T)
           /\ c = [segments |-> c.segments, buffer |-> c.buffer]
<1>1. c.segments \in Seq(Seq(T) \ {<<>>}) /\ c.buffer \in Seq(T)
  BY DEF Corks
<1>2. c.segments \in Seq(Seq(T)) /\ \A i \in 1 .. Len(c.segments) : c.segments[i] # <<>>
  BY <1>1
<1>3. Joined(c.segments, Len(c.segments)) \in Seq(T)
  <2>1. Len(c.segments) \in 0 .. Len(c.segments)
    BY <1>2
  <2> QED
    BY <2>1, <1>2, JoinedStep
<1>4. Contents(c) \in Seq(T)
  BY <1>1, <1>3 DEF Contents
<1>5. c = [segments |-> c.segments, buffer |-> c.buffer]
  BY DEF Corks
<1> QED
  BY <1>1, <1>2, <1>3, <1>4, <1>5

\* An empty cork buffer holds nothing.
LEMMA ContentsEmpty ==
    ASSUME NEW T
    PROVE  EmptyCork \in Corks(T) /\ Contents(EmptyCork) = <<>>
<1>1. EmptyCork \in Corks(T)
  BY DEF EmptyCork, Corks
<1>2. <<>> \in Seq(Seq(T)) /\ Len(<<>>) = 0
  OBVIOUS
<1>3. Joined(<<>>, 0) = <<>>
  BY <1>2, JoinedStep
<1> QED
  BY <1>1, <1>2, <1>3 DEF Contents, EmptyCork

\* write appends to what is held.
LEMMA ContentsWrite ==
    ASSUME NEW T, NEW c \in Corks(T), NEW d \in Seq(T)
    PROVE  write(c, d) \in Corks(T) /\ Contents(write(c, d)) = Contents(c) \o d
<1> DEFINE j == Joined(c.segments, Len(c.segments))
<1>1. j \in Seq(T) /\ c.buffer \in Seq(T) /\ c = [segments |-> c.segments, buffer |-> c.buffer]
  BY ContentsType
<1>2. write(c, d) = [segments |-> c.segments, buffer |-> c.buffer \o d]
  <2>1. DOMAIN c = {"segments", "buffer"}
    BY <1>1
  <2>2. write(c, d) = [f \in {"segments", "buffer"} |-> IF f = "buffer" THEN c.buffer \o d ELSE c[f]]
    BY <2>1 DEF write
  <2> QED
    BY <2>2
<1>3. c.buffer \o d \in Seq(T) /\ c.segments \in Seq(Seq(T) \ {<<>>})
  BY <1>1 DEF Corks
<1>4. write(c, d) \in Corks(T)
  BY <1>2, <1>3 DEF Corks
<1>5. Contents(write(c, d)) = j \o (c.buffer \o d)
  <2>1. write(c, d).segments = c.segments /\ write(c, d).buffer = c.buffer \o d
    BY <1>2
  <2> QED
    BY <2>1 DEF Contents
<1>6. Contents(c) = j \o c.buffer
  BY DEF Contents
<1> HIDE DEF j
<1>7. (j \o c.buffer) \o d = j \o (c.buffer \o d)
  BY <1>1, Associative, SMTT(40)
<1> QED
  BY <1>4, <1>5, <1>6, <1>7

\* A segment behind the others.
LEMMA JoinedAppend ==
    ASSUME NEW T, NEW a \in Seq(Seq(T)), NEW x \in Seq(T)
    PROVE  Joined(Append(a, x), Len(Append(a, x))) = Joined(a, Len(a)) \o x
<1> DEFINE b == Append(a, x)
           n == Len(a)
<1>1. /\ b \in Seq(Seq(T)) /\ n \in Nat /\ Len(b) = n + 1 /\ b[n + 1] = x
      /\ n <= Len(b) /\ n <= Len(a) /\ \A i \in 1 .. n : a[i] = b[i]
  OBVIOUS
<1> HIDE DEF b
<1>2. Joined(a, n) = Joined(b, n)
  <2> HIDE DEF n
  <2> QED BY <1>1, JoinedSame
<1>3. n \in 0 .. Len(b) - 1
  BY <1>1
<1>4. Joined(b, n + 1) = Joined(b, n) \o b[n + 1]
  BY <1>1, <1>3, JoinedStep
<1> QED
  BY <1>1, <1>2, <1>4 DEF b

\* push_segment appends to what is held, too.
LEMMA ContentsPush ==
    ASSUME NEW T, NEW c \in Corks(T), NEW d \in Seq(T), d # <<>>
    PROVE  push_segment(c, d) \in Corks(T) /\ Contents(push_segment(c, d)) = Contents(c) \o d
<1> DEFINE a == c.segments
           b == IF c.buffer = <<>> THEN a ELSE Append(a, c.buffer)
           e == Append(b, d)
           Q == Seq(T) \ {<<>>}
<1>1. /\ a \in Seq(Seq(T)) /\ a \in Seq(Q) /\ c.buffer \in Seq(T) /\ d \in Q
      /\ Joined(a, Len(a)) \in Seq(T) /\ Contents(c) = Joined(a, Len(a)) \o c.buffer
  BY ContentsType DEF Contents, Corks
<1>2. b \in Seq(Seq(T)) /\ b \in Seq(Q)
  BY <1>1
<1>3. Joined(b, Len(b)) = Contents(c)
  <2>1. CASE c.buffer = <<>>
    <3>1. Joined(a, Len(a)) \o <<>> = Joined(a, Len(a))
      BY <1>1
    <3> QED
      BY <2>1, <3>1, <1>1
  <2>2. CASE c.buffer # <<>>
    BY <2>2, <1>1, JoinedAppend
  <2> QED
    BY <2>1, <2>2
<1>4. push_segment(c, d) = [segments |-> b \o <<d>>, buffer |-> <<>>] /\ b \o <<d>> = e
  BY <1>1, <1>2 DEF push_segment
<1> HIDE DEF b
<1>5. e \in Seq(Q) /\ Joined(e, Len(e)) = Contents(c) \o d
  <2>1. e \in Seq(Q)
    BY <1>1, <1>2
  <2>2. Joined(e, Len(e)) = Joined(b, Len(b)) \o d
    BY <1>2, JoinedAppend
  <2> QED
    BY <2>1, <2>2, <1>3
<1> HIDE DEF e
<1>6. Contents(c) \o d \in Seq(T)
  BY ContentsType
<1>7. push_segment(c, d) \in Corks(T)
  <2>1. push_segment(c, d) = [segments |-> e, buffer |-> <<>>]
    BY <1>4
  <2>2. <<>> \in Seq(T)
    OBVIOUS
  <2> QED
    BY <2>1, <2>2, <1>5 DEF Corks
<1>8. Contents(push_segment(c, d)) = Joined(e, Len(e)) \o <<>>
  <2>1. push_segment(c, d) = [segments |-> e, buffer |-> <<>>]
    BY <1>4
  <2>2. push_segment(c, d).segments = e /\ push_segment(c, d).buffer = <<>>
    BY <2>1
  <2> QED
    BY <2>2 DEF Contents
<1>9. (Contents(c) \o d) \o <<>> = Contents(c) \o d
  BY <1>6
<1> QED
  BY <1>5, <1>7, <1>8, <1>9

\* Dropping more than the first of two sequences.
LEMMA DropBoth ==
    ASSUME NEW T, NEW x \in Seq(T), NEW y \in Seq(T), NEW r \in 0 .. Len(y)
    PROVE  SubSeq(x \o y, Len(x) + r + 1, Len(x \o y)) = SubSeq(y, r + 1, Len(y))
<1> DEFINE z == x \o y
           m == Len(x)
           n == Len(y)
<1>1. /\ z \in Seq(T) /\ Len(z) = m + n /\ m \in Nat /\ n \in Nat /\ r \in Nat /\ r <= n
      /\ \A i \in 1 .. n : z[m + i] = y[i]
  OBVIOUS
<1> HIDE DEF z
<1>2. SubSeq(z, m + r + 1, m + n) = [i \in 1 .. n - r |-> z[m + r + i]]
  BY <1>1
<1>3. SubSeq(y, r + 1, n) = [i \in 1 .. n - r |-> y[r + i]]
  BY <1>1
<1>4. ASSUME NEW i \in 1 .. n - r PROVE z[m + r + i] = y[r + i]
  <2>1. r + i \in 1 .. n /\ m + r + i = m + (r + i)
    BY <1>1
  <2> QED
    BY <2>1, <1>1
<1> QED
  BY <1>1, <1>2, <1>3, <1>4 DEF z

\* Dropping part of the first of two sequences.
LEMMA DropFirst ==
    ASSUME NEW T, NEW x \in Seq(T), NEW y \in Seq(T), NEW r \in 0 .. Len(x)
    PROVE  SubSeq(x \o y, r + 1, Len(x \o y)) = SubSeq(x, r + 1, Len(x)) \o y
<1> DEFINE z == x \o y
           m == Len(x)
           n == Len(y)
           b == SubSeq(x, r + 1, m)
           c == b \o y
           a == SubSeq(z, r + 1, m + n)
<1>1. /\ z \in Seq(T) /\ Len(z) = m + n /\ m \in Nat /\ n \in Nat /\ r \in Nat /\ r <= m
      /\ \A i \in 1 .. m + n : z[i] = IF i <= m THEN x[i] ELSE y[i - m]
  OBVIOUS
<1>2. /\ b \in Seq(T) /\ Len(b) = m - r
      /\ \A i \in 1 .. m - r : b[i] = x[r + i]
  BY <1>1
<1> HIDE DEF z, b
<1>3. /\ c \in Seq(T) /\ Len(c) = m + n - r
      /\ \A i \in 1 .. m + n - r : c[i] = IF i <= m - r THEN b[i] ELSE y[i - (m - r)]
  <2>0. b \in Seq(T) /\ Len(b) = m - r
    BY <1>2
  <2>1. c \in Seq(T) /\ Len(c) = Len(b) + n
    BY <2>0
  <2>2. \A i \in 1 .. Len(b) + n : c[i] = IF i <= Len(b) THEN b[i] ELSE y[i - Len(b)]
    BY <2>0
  <2>3. (m - r) + n = m + n - r
    BY <1>1
  <2> HIDE DEF c
  <2> QED
    BY <2>0, <2>1, <2>2, <2>3
<1>4. /\ a \in Seq(T) /\ Len(a) = m + n - r
      /\ \A i \in 1 .. m + n - r : a[i] = z[r + i]
  BY <1>1
<1> HIDE DEF a, c
<1>5. ASSUME NEW i \in 1 .. m + n - r PROVE a[i] = c[i]
  <2>1. /\ a[i] = IF r + i <= m THEN x[r + i] ELSE y[(r + i) - m]
        /\ c[i] = IF i <= m - r THEN b[i] ELSE y[i - (m - r)]
    BY <1>1, <1>3, <1>4
  <2>2. CASE r + i <= m
    BY <2>1, <2>2, <1>1, <1>2
  <2>3. CASE ~(r + i <= m)
    <3>1. ~(i <= m - r) /\ (r + i) - m = i - (m - r)
      BY <2>3, <1>1
    <3> QED
      BY <2>1, <2>3, <3>1
  <2> QED
    BY <2>2, <2>3
<1>6. a = c
  BY <1>3, <1>4, <1>5, SeqEqual
<1> QED
  BY <1>1, <1>6 DEF a, b, c, z

\* What one write is offered is the first part of what is held.
LEMMA OfferedPrefix ==
    ASSUME NEW T, NEW c \in Corks(T)
    PROVE  /\ \E r \in Seq(T) : Contents(c) = chunk(c) \o r
           /\ \E r \in Seq(T) : Contents(c) = fill_write_slices(c) \o r
           /\ chunk(c) \in Seq(T) /\ fill_write_slices(c) \in Seq(T)
<1> DEFINE a == c.segments
           N == Len(a)
           j == Joined(a, N)
<1>1. /\ a \in Seq(Seq(T)) /\ c.buffer \in Seq(T) /\ j \in Seq(T) /\ N \in Nat
      /\ Contents(c) = j \o c.buffer /\ Contents(c) \in Seq(T)
  BY ContentsType DEF Contents
<1>2. \A x \in Seq(T) : x = x \o <<>> /\ <<>> \o x = x
  OBVIOUS
<1>3. <<>> \in Seq(T)
  OBVIOUS
<1>4. (\E r \in Seq(T) : Contents(c) = chunk(c) \o r) /\ chunk(c) \in Seq(T)
  <2>1. CASE a # <<>>
    <3> DEFINE t == Joined(SubSeq(a, 2, N), N - 1)
    <3>1. j = a[1] \o t
      <4>1. <<>> \in Seq(T)
        OBVIOUS
      <4> QED
        BY <4>1, <2>1, <1>1, JoinedCut
    <3>2. t \in Seq(T)
      <4>1. SubSeq(a, 2, N) \in Seq(Seq(T)) /\ N - 1 \in 0 .. Len(SubSeq(a, 2, N))
        BY <2>1, <1>1
      <4> QED
        BY <4>1, JoinedStep
    <3>3. chunk(c) = a[1] /\ a[1] \in Seq(T)
      BY <2>1, <1>1 DEF chunk, has_segments
    <3> HIDE DEF t
    <3>4. Contents(c) = a[1] \o (t \o c.buffer)
      <4> HIDE DEF t, j, N, a
      <4>1. PICK p1 \in Seq(T) : p1 = a[1]
        BY <3>2, <3>3, <1>1
      <4>2. PICK p2 \in Seq(T) : p2 = t
        BY <3>2, <3>3, <1>1
      <4>3. PICK p3 \in Seq(T) : p3 = c.buffer
        BY <3>2, <3>3, <1>1
      <4>4. (p1 \o p2) \o p3 = p1 \o (p2 \o p3)
        BY Associative
      <4>5. j = p1 \o p2
        BY <4>1, <4>2, <3>1
      <4> QED
        BY <4>1, <4>2, <4>3, <4>4, <4>5, <1>1
    <3>5. t \o c.buffer \in Seq(T)
      BY <3>2, <1>1
    <3> QED
      BY <3>3, <3>4, <3>5
  <2>2. CASE a = <<>>
    <3>1. j = <<>> /\ chunk(c) = c.buffer
      <4>1. N = 0
        BY <2>2
      <4>2. Joined(a, 0) = <<>>
        BY <1>1, JoinedStep
      <4> QED
        BY <2>2, <4>1, <4>2 DEF chunk, has_segments
    <3>2. Contents(c) = chunk(c)
      BY <3>1, <1>1, <1>2
    <3> QED
      BY <3>2, <1>1, <1>2, <1>3
  <2> QED
    BY <2>1, <2>2
<1>5. (\E r \in Seq(T) : Contents(c) = fill_write_slices(c) \o r) /\ fill_write_slices(c) \in Seq(T)
  <2> DEFINE M == MaxWriteSlices
  <2>1. CASE N >= M
    <3>1. M \in 0 .. N /\ N - M \in 0 .. N - M /\ M + (N - M) = N
      BY <2>1, <1>1, CorkAssumption
    <3> DEFINE x == Joined(a, M)
               t == Joined(SubSeq(a, M + 1, N), N - M)
    <3>2. j = x \o t
      BY <3>1, <1>1, JoinedSplit
    <3>3. x \in Seq(T)
      BY <3>1, <1>1, JoinedStep
    <3>4. t \in Seq(T)
      <4>1. SubSeq(a, M + 1, N) \in Seq(Seq(T)) /\ N - M \in 0 .. Len(SubSeq(a, M + 1, N))
        BY <3>1, <1>1
      <4> QED
        BY <4>1, JoinedStep
    <3>5. fill_write_slices(c) = x
      BY <2>1 DEF fill_write_slices
    <3> HIDE DEF x, t
    <3>6. Contents(c) = x \o (t \o c.buffer)
      <4> HIDE DEF t, j, N, a, x
      <4>1. PICK p1 \in Seq(T) : p1 = x
        BY <3>3, <3>4, <1>1
      <4>2. PICK p2 \in Seq(T) : p2 = t
        BY <3>3, <3>4, <1>1
      <4>3. PICK p3 \in Seq(T) : p3 = c.buffer
        BY <3>3, <3>4, <1>1
      <4>4. (p1 \o p2) \o p3 = p1 \o (p2 \o p3)
        BY Associative
      <4>5. j = p1 \o p2
        BY <4>1, <4>2, <3>2
      <4> QED
        BY <4>1, <4>2, <4>3, <4>4, <4>5, <1>1
    <3>7. t \o c.buffer \in Seq(T)
      BY <3>4, <1>1
    <3> QED
      BY <3>3, <3>5, <3>6, <3>7
  <2>2. CASE ~(N >= M)
    <3>1. fill_write_slices(c) = Contents(c)
      BY <2>2 DEF fill_write_slices
    <3> QED
      BY <3>1, <1>1, <1>2, <1>3
  <2> QED
    BY <2>1, <2>2
<1> QED
  BY <1>4, <1>5

\* consume drops the bytes that were written, and no others.
LEMMA ContentsConsume ==
    ASSUME NEW T, NEW c \in Corks(T), NEW n \in 0 .. Len(Contents(c))
    PROVE  /\ consume(c, n) \in Corks(T)
           /\ Contents(consume(c, n)) = SubSeq(Contents(c), n + 1, Len(Contents(c)))
<1> DEFINE a == c.segments
           N == Len(a)
           whole == {k \in 0 .. N : Len(Joined(a, k)) <= n}
           k == CHOOSE k \in whole : \A other \in whole : other <= k
           rest == n - Len(Joined(a, k))
           b == SubSeq(a, k + 1, N)
           Q == Seq(T) \ {<<>>}
<1>1. /\ a \in Seq(Seq(T)) /\ c.buffer \in Seq(T) /\ N \in Nat /\ n \in Nat
      /\ \A i \in 1 .. N : a[i] # <<>>
      /\ c = [segments |-> a, buffer |-> c.buffer]
  BY ContentsType
<1>2. /\ Joined(a, 0) = <<>>
      /\ \A i \in 0 .. N : Joined(a, i) \in Seq(T)
      /\ \A i \in 0 .. N - 1 : Joined(a, i + 1) = Joined(a, i) \o a[i + 1]
  BY <1>1, JoinedStep
<1>3. k \in whole /\ \A other \in whole : other <= k
  <2> DEFINE D == {N - i : i \in whole}
  <2>1. 0 \in whole
    BY <1>1, <1>2
  <2>2. D \in SUBSET Nat /\ D # {}
    BY <2>1, <1>1
  <2>3. PICK m \in D : \A l \in D : m <= l
    BY <2>2, LeastNatural
  <2>4. PICK i \in whole : m = N - i
    BY <2>3
  <2>5. ASSUME NEW other \in whole PROVE other <= i
    <3>1. N - other \in D /\ other \in Nat /\ i \in Nat
      BY <1>1
    <3>2. N - i <= N - other
      BY <2>3, <2>4, <3>1
    <3> QED
      BY <3>1, <3>2, <1>1
  <2> QED
    BY <2>4, <2>5
<1>3a. consume(c, n) = IF b # <<>>
                      THEN [c EXCEPT !.segments = [b EXCEPT ![1] = SubSeq(@, rest + 1, Len(@))]]
                      ELSE [segments |-> <<>>, buffer |-> SubSeq(c.buffer, rest + 1, Len(c.buffer))]
  BY DEF consume
<1> HIDE DEF k
<1> DEFINE x == Joined(a, k)
<1>4. k \in 0 .. N /\ k \in Nat /\ x \in Seq(T) /\ Len(x) <= n /\ rest \in Nat /\ n = Len(x) + rest
  BY <1>1, <1>2, <1>3
<1>5. ASSUME k < N PROVE Len(x) + Len(a[k + 1]) > n
  <2>1. k + 1 \in 0 .. N /\ k \in 0 .. N - 1 /\ k + 1 \in 1 .. N /\ ~(k + 1 <= k)
    BY <1>5, <1>1, <1>4
  <2>2. k + 1 \notin whole
    BY <2>1, <1>3
  <2>3. ~(Len(Joined(a, k + 1)) <= n)
    BY <2>1, <2>2
  <2>4. Joined(a, k + 1) = x \o a[k + 1] /\ a[k + 1] \in Seq(T)
    BY <2>1, <1>1, <1>2, SMTT(40)
  <2>5. Len(x \o a[k + 1]) = Len(x) + Len(a[k + 1]) /\ Len(x \o a[k + 1]) \in Nat
    <3> DEFINE o == a[k + 1]
    <3>1. x \in Seq(T) /\ o \in Seq(T)
      BY <2>4, <1>4
    <3> HIDE DEF o, x
    <3> QED
      BY <3>1 DEF o
  <2> QED
    BY <2>3, <2>4, <2>5, <1>1
<1> DEFINE t == Joined(b, N - k)
<1>7. Joined(a, N) = x \o t
  <2>1. k + (N - k) = N /\ N - k \in 0 .. N - k
    BY <1>1, <1>4
  <2> QED
    BY <2>1, <1>1, <1>4, JoinedSplit
<1>8. b \in Seq(Seq(T)) /\ Len(b) = N - k /\ \A i \in 1 .. N - k : b[i] = a[k + i]
  <2>1. k \in 0 .. N /\ k \in Nat
    BY <1>4
  <2> HIDE DEF k
  <2>2. \A i \in k + 1 .. N : a[i] \in Seq(T)
    BY <2>1, <1>1
  <2>3. N - k \in Nat /\ k + 1 \in Int /\ N \in Int
    BY <2>1, <1>1
  <2> HIDE DEF N
  <2>4. /\ b \in Seq(Seq(T))
        /\ Len(b) = IF k + 1 <= N THEN N - (k + 1) + 1 ELSE 0
        /\ \A i \in 1 .. N - (k + 1) + 1 : b[i] = a[(k + 1) + i - 1]
    BY <2>2, <2>3, SubSeqProperties, SMTT(40)
  <2> HIDE DEF b
  <2>5. N - (k + 1) + 1 = N - k /\ \A i \in 1 .. N - k : (k + 1) + i - 1 = k + i
    BY <2>1, <2>3
  <2> QED
    BY <2>1, <2>3, <2>4, <2>5, SMTT(40)
<1> HIDE DEF b, x
<1>9. t \in Seq(T)
  <2>1. N - k \in 0 .. Len(b)
    BY <1>1, <1>4, <1>8
  <2> QED
    BY <2>1, <1>8, JoinedStep
<1> HIDE DEF t
<1>10. Contents(c) = x \o (t \o c.buffer)
  <2>0. Contents(c) = Joined(a, N) \o c.buffer
    BY DEF Contents
  <2> HIDE DEF t, a, N, x, k
  <2>1. PICK p1 \in Seq(T) : p1 = x
    BY <1>1, <1>4, <1>9
  <2>2. PICK p2 \in Seq(T) : p2 = t
    BY <1>1, <1>4, <1>9
  <2>3. PICK p3 \in Seq(T) : p3 = c.buffer
    BY <1>1, <1>4, <1>9
  <2>4. (p1 \o p2) \o p3 = p1 \o (p2 \o p3)
    BY Associative
  <2>5. Joined(a, N) = p1 \o p2
    BY <2>1, <2>2, <1>7
  <2> QED
    BY <2>1, <2>2, <2>3, <2>4, <2>5, <2>0
<1> DEFINE y == t \o c.buffer
<1>11. y \in Seq(T) /\ rest \in 0 .. Len(y)
  <2>1. y \in Seq(T)
    BY <1>1, <1>9
  <2>2. Len(Contents(c)) = Len(x) + Len(y)
    BY <1>4, <1>10, <2>1
  <2> HIDE DEF y
  <2> QED
    BY <2>1, <2>2, <1>4, <1>1
<1>12. SubSeq(Contents(c), n + 1, Len(Contents(c))) = SubSeq(y, rest + 1, Len(y))
  <2> HIDE DEF y, rest
  <2>1. SubSeq(x \o y, Len(x) + rest + 1, Len(x \o y)) = SubSeq(y, rest + 1, Len(y))
    BY <1>4, <1>11, DropBoth
  <2> QED
    BY <2>1, <1>4, <1>10 DEF y
<1>13. CASE b # <<>>
  <2> DEFINE u == b[1]
             v == SubSeq(u, rest + 1, Len(u))
             e == [b EXCEPT ![1] = v]
             z == Joined(SubSeq(b, 2, Len(b)), Len(b) - 1)
  <2>1. k < N /\ u = a[k + 1] /\ u \in Seq(T) /\ Len(b) \in Nat /\ Len(b) >= 1
    <3>1. Len(b) \in Nat /\ Len(b) >= 1 /\ Len(b) = N - k
      BY <1>13, <1>8
    <3>2. k < N /\ 1 \in 1 .. N - k
      BY <3>1, <1>4, <1>1
    <3> QED
      BY <3>1, <3>2, <1>8
  <2>2. rest < Len(u)
    BY <2>1, <1>4, <1>5
  <2>3. v \in Seq(T) /\ v # <<>>
    <3> HIDE DEF u, rest
    <3>1. Len(u) \in Nat /\ rest + 1 \in 1 .. Len(u)
      BY <2>1, <2>2, <1>4, SMTT(40)
    <3>2. v \in Seq(T) /\ Len(v) = Len(u) - rest
      BY <3>1, <2>1, <1>4
    <3> HIDE DEF v
    <3>3. Len(v) # 0
      BY <3>1, <3>2, <1>4
    <3> QED
      BY <3>2, <3>3
  <2> HIDE DEF u, rest
  <2>4. e \in Seq(Seq(T)) /\ Len(e) = Len(b) /\ t = u \o z /\ Joined(e, Len(b)) = v \o z
    <3> HIDE DEF v
    <3>1. Len(b) = N - k
      BY <1>8
    <3> QED
      BY <3>1, <1>8, <1>13, <2>3, JoinedCut DEF u, t
  <2>5. \A i \in 1 .. Len(e) : e[i] # <<>>
    <3> HIDE DEF v
    <3>1. ASSUME NEW i \in 1 .. Len(b) PROVE e[i] # <<>>
      <4>1. CASE i = 1
        <5>1. e[1] = v
          BY <2>1, <1>8
        <5> QED
          BY <5>1, <4>1, <2>3
      <4>2. CASE i # 1
        <5>1. e[i] = b[i]
          BY <4>2, <1>8
        <5>2. b[i] = a[k + i] /\ k + i \in 1 .. N
          <6> DEFINE l == Len(b)
          <6>1. l = N - k /\ i \in 1 .. l /\ k \in Nat /\ N \in Nat
            BY <1>1, <1>4, <1>8
          <6> HIDE DEF l
          <6>2. i \in 1 .. N - k /\ k + i \in 1 .. N
            BY <6>1
          <6> QED
            BY <6>2, <1>8
        <5> QED
          BY <5>1, <5>2, <1>1
      <4> QED
        BY <4>1, <4>2
    <3> QED
      BY <3>1, <2>4
  <2>6. e \in Seq(Q)
    <3> HIDE DEF e
    <3>1. \A i \in 1 .. Len(e) : e[i] \in Q
      BY <2>4, <2>5
    <3> HIDE DEF Q
    <3>2. e = [i \in 1 .. Len(e) |-> e[i]] /\ Len(e) \in Nat
      BY <2>4
    <3> QED
      BY <3>1, <3>2
  <2>7. consume(c, n) = [segments |-> e, buffer |-> c.buffer]
    <3>1. consume(c, n) = [c EXCEPT !.segments = [b EXCEPT ![1] = SubSeq(@, rest + 1, Len(@))]]
      BY <1>3a, <1>13 DEF rest
    <3>2. [b EXCEPT ![1] = SubSeq(@, rest + 1, Len(@))] = e
      BY DEF u
    <3>3. consume(c, n) = [c EXCEPT !.segments = e]
      BY <3>1, <3>2
    <3> HIDE DEF e
    <3>4. DOMAIN c = {"segments", "buffer"}
      BY <1>1
    <3>5. consume(c, n) = [f \in {"segments", "buffer"} |-> IF f = "segments" THEN e ELSE c[f]]
      BY <3>3, <3>4
    <3> QED
      BY <3>5
  <2>8. consume(c, n) \in Corks(T)
    <3> HIDE DEF e, Q
    <3>1. consume(c, n) \in [segments : Seq(Q), buffer : Seq(T)]
      BY <2>6, <2>7, <1>1
    <3> QED
      BY <3>1 DEF Corks, Q
  <2>9. Contents(consume(c, n)) = (v \o z) \o c.buffer
    <3> HIDE DEF e, v, z
    <3>1. consume(c, n).segments = e /\ consume(c, n).buffer = c.buffer
      BY <2>7
    <3> QED
      BY <3>1, <2>4 DEF Contents
  <2>10. z \in Seq(T)
    <3>1. SubSeq(b, 2, Len(b)) \in Seq(Seq(T)) /\ Len(b) - 1 \in 0 .. Len(SubSeq(b, 2, Len(b)))
      BY <1>8, <2>1
    <3> QED
      BY <3>1, JoinedStep
  <2> HIDE DEF z
  <2>11. y = u \o (z \o c.buffer)
    <3> HIDE DEF u, z, t, a, N, k, e, v
    <3>1. PICK p1 \in Seq(T) : p1 = u
      BY <2>1, <2>10, <1>1
    <3>2. PICK p2 \in Seq(T) : p2 = z
      BY <2>1, <2>10, <1>1
    <3>3. PICK p3 \in Seq(T) : p3 = c.buffer
      BY <2>1, <2>10, <1>1
    <3>4. (p1 \o p2) \o p3 = p1 \o (p2 \o p3)
      BY Associative
    <3>5. t = p1 \o p2
      BY <3>1, <3>2, <2>4
    <3> QED
      BY <3>1, <3>2, <3>3, <3>4, <3>5, <2>10
  <2>12. z \o c.buffer \in Seq(T)
    BY <2>10, <1>1
  <2> DEFINE q == z \o c.buffer
  <2>13. rest \in 0 .. Len(u)
    BY <2>1, <2>2, <1>4
  <2>14. SubSeq(u \o q, rest + 1, Len(u \o q)) = v \o q
    <3> HIDE DEF q
    <3> QED BY <2>1, <2>12, <2>13, DropFirst DEF q
  <2>15. v \o q = (v \o z) \o c.buffer
    <3> HIDE DEF u, z, t, a, N, k, e, v
    <3>1. PICK p1 \in Seq(T) : p1 = v
      BY <2>3, <2>10, <1>1
    <3>2. PICK p2 \in Seq(T) : p2 = z
      BY <2>3, <2>10, <1>1
    <3>3. PICK p3 \in Seq(T) : p3 = c.buffer
      BY <2>3, <2>10, <1>1
    <3>4. (p1 \o p2) \o p3 = p1 \o (p2 \o p3)
      BY Associative
    <3>5. v \o z = p1 \o p2
      BY <3>1, <3>2, <2>10
    <3> QED
      BY <3>1, <3>2, <3>3, <3>4, <3>5, <2>10
  <2> HIDE DEF v, y
  <2> QED
    BY <2>8, <2>9, <2>11, <2>14, <2>15, <1>12 DEF rest
<1>14. CASE b = <<>>
  <2>1. N - k = 0
    BY <1>8, <1>14
  <2>2. t = <<>>
    <3>1. Joined(b, 0) = <<>>
      BY <1>8, JoinedStep
    <3> QED
      BY <2>1, <3>1 DEF t
  <2>3. y = c.buffer
    <3>1. \A q \in Seq(T) : <<>> \o q = q
      OBVIOUS
    <3> QED
      BY <2>2, <3>1, <1>1
  <2> DEFINE v == SubSeq(c.buffer, rest + 1, Len(c.buffer))
  <2>4. v \in Seq(T)
    BY <1>1, <1>4, SMTT(40)
  <2>5. consume(c, n) = [segments |-> <<>>, buffer |-> v]
    BY <1>3a, <1>14
  <2> HIDE DEF v
  <2>6. consume(c, n) \in Corks(T)
    <3>1. <<>> \in Seq(Seq(T) \ {<<>>})
      OBVIOUS
    <3> QED
      BY <2>4, <2>5, <3>1 DEF Corks
  <2>7. Contents(consume(c, n)) = v
    <3>1. consume(c, n).segments = <<>> /\ consume(c, n).buffer = v
      BY <2>5
    <3>2. Joined(<<>>, 0) = <<>>
      <4>1. <<>> \in Seq(Seq(T))
        OBVIOUS
      <4> QED
        BY <4>1, JoinedStep
    <3>3. <<>> \o v = v /\ Len(<<>>) = 0
      BY <2>4
    <3> QED
      BY <3>1, <3>2, <3>3 DEF Contents
  <2> HIDE DEF y
  <2> QED
    BY <2>3, <2>6, <2>7, <1>12 DEF v
<1> QED
  BY <1>13, <1>14

-----------------------------------------------------------------------------
(* Steps *)

\* Next, one action after the other.
Steps ==
    \/ reactor_takes_stream
    \/ reactor_wakes
    \/ \E op \in setup.calls \ {"close_both"} : poll(op)
    \/ \E h \in Half, task \in Tasks : handover(h, task)
    \/ poll_registers
    \/ drain_write
    \/ drain_pong
    \/ drain_flush
    \/ drain_blocked
    \/ drain_fails
    \/ poll_transport_shutdown
    \/ compressed_transport_shutdown
    \/ next_top
    \/ next_flushed
    \/ next_shut
    \/ next_errors
    \/ next_deadlines
    \/ next_message
    \/ next_ping
    \/ next_close
    \/ next_buffered
    \/ next_io
    \/ next_late_shut
    \/ next_fed
    \/ next_read
    \/ next_nodata
    \/ process_read_buf
    \/ compressed_process_read_buf
    \/ poll_ready
    \/ sink_done
    \/ \E item \in setup.items : start_send(item)
    \/ poll_flush
    \/ poll_close_ended
    \/ poll_close
    \/ poll_close_flushed
    \/ poll_close_shut
    \/ close
    \/ close_write
    \/ close_shutdown
    \/ close_fails
    \/ close_cancelled
    \/ peer_sends
    \/ becomes_writable
    \/ breaks
    \/ \E d \in {"ping", "pong", "idle", "close"} : time_passes(d)
    \/ timer_fires

\* Both stream types take these steps.
LEMMA NextSteps ==
    ASSUME Next
    PROVE  Steps
  BY DEF Next, Steps, WebSocketStream, CompressedWebSocketStream, poll_next_flushing,
     poll_next_delivering, poll_next_reading, sink_half, close_call, compressed_poll_next_flushing,
     compressed_poll_next_delivering, compressed_poll_next_reading, compressed_sink_half,
     compressed_close_call

\* The stream's fields.
LEMMA SRecord ==
    ASSUME Record(s, SFields), Steps
    PROVE  Record(s', SFields)
<1>1. CASE drain_write
  BY <1>1 DEF drain_write, Write, Record, SFields
<1>2. CASE drain_pong
  BY <1>2 DEF drain_pong, PingFlushed, Encode, Record, SFields
<1>3. CASE drain_flush
  BY <1>3 DEF drain_flush, PingFlushed, Record, SFields
<1>4. CASE drain_fails
  BY <1>4 DEF drain_fails, close_terminal, Record, SFields
<1>5. CASE poll_transport_shutdown
  BY <1>5 DEF poll_transport_shutdown, Record, SFields
<1>6. CASE compressed_transport_shutdown
  BY <1>6 DEF compressed_transport_shutdown, Record, SFields
<1>7. CASE next_flushed
  BY <1>7 DEF next_flushed, Kept, FinishRead, finish_read_close, close_terminal, Dropped,
     compressed_finish_read_close, Record, SFields
<1>8. CASE next_shut
  BY <1>8 DEF next_shut, Kept, FinishRead, finish_read_close, close_terminal, Dropped,
     compressed_finish_read_close, Record, SFields
<1>9. CASE next_errors
  BY <1>9 DEF next_errors, close_terminal, Record, SFields
<1>10. CASE next_deadlines
  BY <1>10 DEF next_deadlines, Encode, begin_closing, Record, SFields
<1>11. CASE next_message
  BY <1>11, ZenonT(60) DEF next_message, Taking1, Inbound, Record, SFields
<1>12. CASE next_ping
  BY <1>12 DEF next_ping, close, Encode, begin_closing, Taking1, process_buffered_after_ping,
     ProcessAll, ReadError, Record, SFields
<1>13. CASE next_close
  BY <1>13 DEF next_close, Encode, begin_closing, Record, SFields
<1>14. CASE next_io
  BY <1>14 DEF next_io, FinishRead, finish_read_close, close_terminal, Dropped,
     compressed_finish_read_close, Record, SFields
<1>15. CASE next_late_shut
  BY <1>15 DEF next_late_shut, FinishRead, finish_read_close, close_terminal, Dropped,
     compressed_finish_read_close, Record, SFields
<1>16. CASE next_fed
  BY <1>16 DEF next_fed, FinishRead, finish_read_close, close_terminal, Dropped,
     compressed_finish_read_close, Record, SFields
<1>17. CASE next_read
  BY <1>17 DEF next_read, close_terminal, Record, SFields
<1>18. CASE next_nodata
  BY <1>18 DEF next_nodata, FinishRead, finish_read_close, close_terminal, Dropped,
     compressed_finish_read_close, Record, SFields
<1>19. CASE process_read_buf
  BY <1>19 DEF process_read_buf, ReadError, Record, SFields
<1>20. CASE compressed_process_read_buf
  BY <1>20 DEF compressed_process_read_buf, ProcessAll, ReadError, Record, SFields
<1>21. CASE poll_ready
  BY <1>21 DEF poll_ready, needs_drain_before_send, Record, SFields
<1>22. CASE sink_done
  BY <1>22 DEF sink_done, finish_read_close, close_terminal, Dropped,
     compressed_finish_read_close, Record, SFields
<1>23. CASE \E item \in setup.items : start_send(item)
  BY <1>23, ZenonT(60) DEF start_send, begin_closing, Record, SFields
<1>24. CASE poll_close_ended
  BY <1>24 DEF poll_close_ended, finish_read_close, close_terminal, Dropped,
     compressed_finish_read_close, begin_closing, Record, SFields
<1>25. CASE poll_close
  BY <1>25 DEF poll_close, begin_closing, close, Encode, Record, SFields
<1>26. CASE poll_close_flushed
  BY <1>26 DEF poll_close_flushed, finish_read_close, close_terminal, Dropped,
     compressed_finish_read_close, Record, SFields
<1>27. CASE poll_close_shut
  BY <1>27 DEF poll_close_shut, finish_read_close, close_terminal, Dropped,
     compressed_finish_read_close, Record, SFields
<1>28. CASE close
  BY <1>28 DEF close, Encode, begin_closing, Record, SFields
<1>29. CASE close_write
  BY <1>29 DEF close_write, Write, Record, SFields
<1>30. CASE close_shutdown
  BY <1>30 DEF close_shutdown, Record, SFields
<1>31. CASE close_fails
  BY <1>31, ZenonT(60) DEF close_fails, finish_read_close, close_terminal, Dropped,
     compressed_finish_read_close, Record, SFields
<1>32. CASE UNCHANGED s
  BY <1>32 DEF Record, SFields
<1> QED
  BY <1>1, <1>2, <1>3, <1>4, <1>5, <1>6, <1>7, <1>8, <1>9, <1>10, <1>11, <1>12, <1>13, <1>14,
     <1>15, <1>16, <1>17, <1>18, <1>19, <1>20, <1>21, <1>22, <1>23, <1>24, <1>25, <1>26, <1>27,
     <1>28, <1>29, <1>30, <1>31, <1>32
  DEF Steps, reactor_takes_stream, reactor_wakes, poll, handover, poll_registers, drain_blocked,
      next_top, next_buffered, poll_flush, close_cancelled, peer_sends, becomes_writable,
      breaks, time_passes, timer_fires

\* The transport's fields.
LEMMA NetRecord ==
    ASSUME Record(net, NetFields), Steps
    PROVE  Record(net', NetFields)
<1>1. CASE reactor_takes_stream
  BY <1>1 DEF reactor_takes_stream, Record, NetFields
<1>2. CASE reactor_wakes
  BY <1>2 DEF reactor_wakes, Record, NetFields
<1>3. CASE drain_write
  BY <1>3 DEF drain_write, Write, Record, NetFields
<1>4. CASE drain_blocked
  BY <1>4 DEF drain_blocked, Record, NetFields
<1>5. CASE poll_transport_shutdown
  BY <1>5 DEF poll_transport_shutdown, Record, NetFields
<1>6. CASE compressed_transport_shutdown
  BY <1>6 DEF compressed_transport_shutdown, Record, NetFields
<1>7. CASE next_read
  BY <1>7 DEF next_read, Record, NetFields
<1>8. CASE close_write
  BY <1>8 DEF close_write, Write, Record, NetFields
<1>9. CASE peer_sends
  BY <1>9 DEF peer_sends, Event, Record, NetFields
<1>10. CASE becomes_writable
  BY <1>10 DEF becomes_writable, Event, Record, NetFields
<1>11. CASE breaks
  BY <1>11 DEF breaks, Record, NetFields
<1>12. CASE timer_fires
  BY <1>12 DEF timer_fires, Record, NetFields
<1>13. CASE UNCHANGED net
  BY <1>13 DEF Record, NetFields
<1> QED
  BY <1>1, <1>2, <1>3, <1>4, <1>5, <1>6, <1>7, <1>8, <1>9, <1>10, <1>11, <1>12, <1>13
  DEF Steps, poll, handover, poll_registers, drain_pong, drain_flush, drain_fails, next_top,
      next_flushed, next_shut, next_errors, next_deadlines, next_message, next_ping, next_close,
      next_buffered, next_io, next_late_shut, next_fed, next_nodata, process_read_buf,
      compressed_process_read_buf, poll_ready, sink_done, start_send, poll_flush,
      poll_close_ended, poll_close, poll_close_flushed, poll_close_shut, close, close_shutdown,
      close_fails, close_cancelled, time_passes

\* The fields of the history.
LEMMA SeenRecord ==
    ASSUME Record(seen, SeenFields), Steps
    PROVE  Record(seen', SeenFields)
<1>1. CASE drain_write
  BY <1>1 DEF drain_write, Write, Record, SeenFields
<1>2. CASE drain_pong
  BY <1>2 DEF drain_pong, Record, SeenFields
<1>3. CASE next_top
  BY <1>3 DEF next_top, Ended, Record, SeenFields
<1>4. CASE next_flushed
  BY <1>4 DEF next_flushed, Delivered, FinishRead, Ended, FinishResult, Record, SeenFields
<1>5. CASE next_shut
  BY <1>5 DEF next_shut, FinishRead, Ended, Delivered, FinishResult, Record, SeenFields
<1>6. CASE next_errors
  BY <1>6 DEF next_errors, Record, SeenFields
<1>7. CASE next_deadlines
  BY <1>7 DEF next_deadlines, Encoded, Record, SeenFields
<1>8. CASE next_message
  BY <1>8 DEF next_message, Delivered, Record, SeenFields
<1>9. CASE next_ping
  BY <1>9 DEF next_ping, Delivered, close, Encoded, Record, SeenFields
<1>10. CASE next_close
  BY <1>10 DEF next_close, Encoded, Record, SeenFields
<1>11. CASE next_io
  BY <1>11 DEF next_io, FinishRead, Ended, Delivered, FinishResult, Record, SeenFields
<1>12. CASE next_late_shut
  BY <1>12 DEF next_late_shut, FinishRead, Ended, Delivered, FinishResult, Record, SeenFields
<1>13. CASE next_fed
  BY <1>13 DEF next_fed, FinishRead, Ended, Delivered, FinishResult, Record, SeenFields
<1>14. CASE next_read
  BY <1>14 DEF next_read, Ended, Record, SeenFields
<1>15. CASE next_nodata
  BY <1>15 DEF next_nodata, FinishRead, Ended, Delivered, FinishResult, Record, SeenFields
<1>16. CASE poll_ready
  BY <1>16 DEF poll_ready, needs_drain_before_send, Record, SeenFields
<1>17. CASE sink_done
  BY <1>17 DEF sink_done, Record, SeenFields
<1>18. CASE \E item \in setup.items : start_send(item)
  BY <1>18 DEF start_send, Record, SeenFields
<1>19. CASE poll_close
  BY <1>19 DEF poll_close, close, Encoded, Record, SeenFields
<1>20. CASE close
  BY <1>20 DEF close, Encoded, Record, SeenFields
<1>21. CASE close_write
  BY <1>21 DEF close_write, Write, Record, SeenFields
<1>22. CASE UNCHANGED seen
  BY <1>22 DEF Record, SeenFields
<1> QED
  BY <1>1, <1>2, <1>3, <1>4, <1>5, <1>6, <1>7, <1>8, <1>9, <1>10, <1>11, <1>12, <1>13, <1>14,
     <1>15, <1>16, <1>17, <1>18, <1>19, <1>20, <1>21, <1>22
  DEF Steps, reactor_takes_stream, reactor_wakes, poll, handover, poll_registers, drain_flush,
      drain_blocked, drain_fails, poll_transport_shutdown, compressed_transport_shutdown,
      next_buffered, process_read_buf, compressed_process_read_buf, poll_flush,
      poll_close_ended, poll_close_flushed, poll_close_shut, close_shutdown, close_fails,
      close_cancelled, peer_sends, becomes_writable, breaks, time_passes, timer_fires

-----------------------------------------------------------------------------
(* Polls *)

\* A step at a location other than those of close() is one of a poll, and the location tells
\* which.
LEMMA PollSteps ==
    ASSUME Places, p.op # "none", p.pc \notin {"write", "end"}
    PROVE  /\ PollAt(p) /\ Polled /\ p # Idle /\ p.op # "closing"
           /\ p.pc \in {"top", "errors", "process", "read", "nodata", "flushed", "shut", "fed",
                        "lateShut"} => p.op = "next" /\ p.half = "Stream" /\ Towards = p.pc
           /\ p.pc \in {"start", "done", "closeFlushed", "closeShut"} =>
                p.op # "next" /\ p.half = "Sink" /\ Towards = p.pc
<1>1. p # Idle
  BY DEF Idle
<1>2. PollAt(p)
  BY <1>1 DEF Places
<1> QED
  BY <1>1, <1>2 DEF PollAt, Polled, Reading, Sinking, Towards, Bound, PlacesOf

\* What a poll keeps from step to step.
SamePoll(q) ==
    /\ q.op = p.op /\ q.half = p.half /\ q.task = p.task /\ q.armed = p.armed
    /\ q.parsed = p.parsed /\ q.expired = p.expired

\* Jump.
LEMMA JumpAt ==
    ASSUME PollAt(p), NEW x \in PlacesOf(p.op) \ Waits
    PROVE  /\ PollAt(Jump(x)) /\ SamePoll(Jump(x)) /\ Jump(x).pc = x /\ Bound(Jump(x)) = x
           /\ Jump(x).res = "none" /\ Jump(x).op = p.op
<1>1. Record(p, PFields)
  BY DEF PollAt
<1>2. /\ Record(Jump(x), PFields) /\ SamePoll(Jump(x)) /\ Jump(x).pc = x
      /\ Jump(x).res = "none" /\ Jump(x).op = p.op
  BY <1>1 DEF Jump, Record, PFields, SamePoll
<1>3. x \notin {"register", "drain", "shutdown"}
  BY DEF PlacesOf
<1> QED
  BY <1>2, <1>3 DEF PollAt, Bound, SamePoll

\* Call.
LEMMA CallAt ==
    ASSUME PollAt(p), NEW call \in {"drain", "shutdown"}, NEW ret \in Returns(p.op), Call(call, ret)
    PROVE  /\ PollAt(p') /\ SamePoll(p') /\ p'.pc = "register" /\ p'.call = call /\ p'.op = p.op
           /\ Bound(p') = ret
<1>1. Record(p, PFields)
  BY DEF PollAt
<1>2. /\ Record(p', PFields) /\ SamePoll(p') /\ p'.pc = "register" /\ p'.call = call
      /\ p'.ret = ret /\ p'.op = p.op
  BY <1>1 DEF Call, Record, PFields, SamePoll
<1> QED
  BY <1>2 DEF PollAt, Bound, SamePoll, Returns, Waits

\* Result.
LEMMA ResultAt ==
    ASSUME PollAt(p), p.pc \in {"drain", "shutdown"},
           NEW res \in {"ready", "pending", "err"}, Result(res)
    PROVE  /\ PollAt(p') /\ SamePoll(p') /\ p'.pc = p.ret /\ p'.res = res /\ Bound(p') = p.ret
           /\ p.ret \in Returns(p.op) /\ Bound(p) = p.ret /\ p'.op = p.op
<1>1. Record(p, PFields) /\ p.ret \in Returns(p.op) /\ p.ret \in PlacesOf(p.op) /\ Bound(p) = p.ret
  BY DEF PollAt, Bound
<1>2. /\ Record(p', PFields) /\ SamePoll(p') /\ p'.pc = p.ret /\ p'.res = res /\ p'.op = p.op
  BY <1>1 DEF Result, Record, PFields, SamePoll
<1>3. p.ret \notin {"register", "drain", "shutdown"}
  BY <1>1 DEF PlacesOf
<1> QED
  BY <1>1, <1>2, <1>3 DEF PollAt, Bound, SamePoll

\* What a poll keeps when it notes a deadline or a message.
NotedPoll(q, x) ==
    /\ PollAt(q) /\ q.pc = x /\ Bound(q) = x /\ q.res = "none" /\ q.op = p.op /\ q.half = p.half
    /\ q.task = p.task /\ q.armed = p.armed

\* Jump with a deadline that has passed.
LEMMA JumpExpired ==
    ASSUME PollAt(p), NEW x \in PlacesOf(p.op) \ Waits, NEW d, NEW q, q = [Jump(x) EXCEPT !.expired = d]
    PROVE  NotedPoll(q, x) /\ q.expired = d /\ q.parsed = p.parsed
<1> DEFINE j == Jump(x)
<1>1. PollAt(j) /\ SamePoll(j) /\ j.pc = x /\ Bound(j) = x /\ j.res = "none"
  BY JumpAt
<1> HIDE DEF j
<1>2. Record(j, PFields)
  BY <1>1 DEF PollAt
<1>3. /\ Record(q, PFields) /\ q.expired = d /\ q.pc = j.pc /\ q.ret = j.ret /\ q.call = j.call
      /\ q.res = j.res /\ q.op = j.op /\ q.half = j.half /\ q.task = j.task /\ q.armed = j.armed
      /\ q.parsed = j.parsed
  <2>1. q = [j EXCEPT !.expired = d]
    BY DEF j
  <2> QED
    BY <1>2, <2>1 DEF Record, PFields
<1> QED
  BY <1>1, <1>3 DEF PollAt, SamePoll, NotedPoll, Bound

\* Jump of poll_next with the message it parsed or took.
LEMMA JumpParsed ==
    ASSUME PollAt(p), Reading, NEW x \in PlacesOf(p.op) \ Waits, NEW f, NEW q,
           q = [Jump(x) EXCEPT !.parsed = f]
    PROVE  NotedPoll(q, x) /\ q.parsed = f /\ q.expired = p.expired
<1> DEFINE j == Jump(x)
<1>1. PollAt(j) /\ SamePoll(j) /\ j.pc = x /\ Bound(j) = x /\ j.res = "none"
  BY JumpAt
<1> HIDE DEF j
<1>2. Record(j, PFields)
  BY <1>1 DEF PollAt
<1>3. /\ Record(q, PFields) /\ q.expired = j.expired /\ q.pc = j.pc /\ q.ret = j.ret /\ q.call = j.call
      /\ q.res = j.res /\ q.op = j.op /\ q.half = j.half /\ q.task = j.task /\ q.armed = j.armed
      /\ q.parsed = f
  <2>1. q = [j EXCEPT !.parsed = f]
    BY DEF j
  <2> QED
    BY <1>2, <2>1 DEF Record, PFields
<1> QED
  BY <1>1, <1>3 DEF PollAt, SamePoll, NotedPoll, Bound, Reading

\* Registering for the call.
LEMMA RegisterAt ==
    ASSUME PollAt(p), p.pc = "register", NEW q, q = [p EXCEPT !.pc = p.call, !.call = "none"]
    PROVE  PollAt(q) /\ SamePoll(q) /\ q.pc = p.call /\ Bound(q) = Bound(p)
<1>1. Record(p, PFields) /\ p.call \in {"drain", "shutdown"}
  BY DEF PollAt
<1>2. Record(q, PFields) /\ SamePoll(q) /\ q.pc = p.call /\ q.ret = p.ret
  BY <1>1 DEF Record, PFields, SamePoll
<1> QED
  BY <1>1, <1>2 DEF PollAt, SamePoll, Bound, Waits

\* The last of the steps before the transport.
LEMMA ReadAt ==
    ASSUME PollAt(p), Reading, NEW call, NEW ret, NEW late,
           \/ call = "read"
           \/ call \in {"drain", "shutdown"} /\ ret \in Returns("next"),
           p' = [p EXCEPT !.pc = IF call = "read" THEN "read" ELSE "register",
                          !.call = call, !.ret = ret, !.buffered = FALSE, !.late = late]
    PROVE  /\ PollAt(p') /\ SamePoll(p') /\ p'.pc = (IF call = "read" THEN "read" ELSE "register")
           /\ Bound(p') = (IF call = "read" THEN "read" ELSE ret) /\ p'.call = call
<1>1. Record(p, PFields)
  BY DEF PollAt
<1>2. /\ Record(p', PFields) /\ SamePoll(p') /\ p'.ret = ret /\ p'.call = call
      /\ p'.pc = (IF call = "read" THEN "read" ELSE "register")
  BY <1>1 DEF Record, PFields, SamePoll
<1> QED
  BY <1>2 DEF PollAt, SamePoll, Bound, Reading, PlacesOf, Returns, Waits

\* The bytes already buffered.
LEMMA BufferedAt ==
    ASSUME PollAt(p), Reading, NEW q, q = [p EXCEPT !.pc = "process", !.buffered = TRUE]
    PROVE  PollAt(q) /\ SamePoll(q) /\ q.pc = "process" /\ Bound(q) = "process"
<1>1. Record(p, PFields)
  BY DEF PollAt
<1>2. Record(q, PFields) /\ SamePoll(q) /\ q.pc = "process"
  BY <1>1 DEF Record, PFields, SamePoll
<1> QED
  BY <1>2 DEF PollAt, SamePoll, Bound, Reading, PlacesOf, Waits

-----------------------------------------------------------------------------
(* Wakers *)

\* Only the timer may differ.
Turned(wk) == \E x : wk = [w EXCEPT !.timer = x]

\* The slots, and who sleeps or was woken.
SameSlots(wk) ==
    /\ wk.waker = w.waker /\ wk.armed = w.armed /\ wk.waiting = w.waiting
    /\ wk.registered = w.registered /\ wk.owner = w.owner /\ wk.asleep = w.asleep /\ wk.woken = w.woken

\* Setting the timer touches no slot.
LEMMA TurnedSlots ==
    ASSUME WShape(w), NEW wk, Turned(wk)
    PROVE  WShape(wk) /\ SameSlots(wk)
<1>1. PICK x : wk = [w EXCEPT !.timer = x]
  BY DEF Turned
<1>2. Record(wk, WFields) /\ SameSlots(wk)
  BY <1>1 DEF WShape, Record, WFields, SameSlots
<1> QED
  BY <1>2 DEF WShape, SameSlots

\* The timer's operations.
LEMMA TimersTurn ==
    ASSUME WShape(w)
    PROVE  /\ Turned(w) /\ Turned(ClosingPolled(w)) /\ Turned(ClosingTimer(w))
           /\ \A d : Turned(TimerPolled(ClosingPolled(w), d))
           /\ \A x : Turned([w EXCEPT !.timer = x])
           /\ s.closing => ClosingTimer(w) = w
           /\ ~s.closing => ClosingPolled(w) = w
<1>1. w = [w EXCEPT !.timer = w.timer]
  BY DEF WShape, Record, WFields
<1>2. \A x, y : [[w EXCEPT !.timer = x] EXCEPT !.timer = y] = [w EXCEPT !.timer = y]
  BY DEF WShape, Record, WFields
<1>3. \A x : Turned([w EXCEPT !.timer = x])
  BY DEF Turned
<1>4. Turned(w)
  BY <1>1 DEF Turned
<1>5. Turned(ClosingPolled(w)) /\ Turned(ClosingTimer(w))
  BY <1>3, <1>4 DEF ClosingPolled, ClosingTimer
<1>6. ASSUME NEW d PROVE Turned(TimerPolled(ClosingPolled(w), d))
  BY <1>2, <1>3, <1>4 DEF ClosingPolled, TimerPolled
<1>7. (s.closing => ClosingTimer(w) = w) /\ (~s.closing => ClosingPolled(w) = w)
  BY DEF ClosingTimer, ClosingPolled
<1> QED
  BY <1>3, <1>4, <1>5, <1>6, <1>7

\* Whoever sleeps in a half or polls hears its waker; the others keep theirs.
LEMMA WakeEffect ==
    ASSUME NEW wk, WShape(wk), NEW hs, NEW wk2, wk2 = Wake(wk, hs)
    PROVE  /\ WShape(wk2)
           /\ wk2.asleep = wk.asleep /\ wk2.registered = wk.registered /\ wk2.waiting = wk.waiting
           /\ wk2.owner = wk.owner /\ wk2.timer = wk.timer
           /\ wk.woken \subseteq wk2.woken
           /\ \A h \in Half : h \notin hs => wk2.waker[h] = wk.waker[h] /\ wk2.armed[h] = wk.armed[h]
           /\ \A h \in Half : wk2.armed[h] => wk.armed[h] /\ wk2.waker[h] = wk.waker[h]
           /\ \A h \in Half : \A t :
                /\ wk.waker[h] = t /\ t # NoTask
                /\ t \in Polling \/ \E g \in Half : wk.asleep[g] = t
                => wk2.waker[h] = t \/ t \in wk2.woken
           /\ \A h \in hs \cap Half :
                wk.asleep[h] # NoTask /\ wk.waker[h] = wk.asleep[h] /\ wk.waiting[h]
                  => wk.asleep[h] \in wk2.woken
<1> DEFINE tk == Taken(wk, hs)
<1>1. /\ Record(tk, WFields) /\ tk.asleep = wk.asleep /\ tk.registered = wk.registered
      /\ tk.waiting = wk.waiting /\ tk.owner = wk.owner /\ tk.timer = wk.timer /\ tk.woken = wk.woken
      /\ tk.waker = [h \in Half |-> IF h \in Taking(wk, hs) THEN NoTask ELSE wk.waker[h]]
      /\ tk.armed = [h \in Half |-> IF h \in Taking(wk, hs) THEN FALSE ELSE wk.armed[h]]
  BY DEF Taken, WShape, Record, WFields
<1> DEFINE heard == Heard(wk, {wk.waker[h] : h \in Taking(wk, hs)})
<1>2. wk2 = [tk EXCEPT !.woken = @ \cup heard]
  BY DEF Wake
<1> HIDE DEF tk, heard
<1>3. /\ Record(wk2, WFields) /\ wk2.asleep = wk.asleep /\ wk2.registered = wk.registered
      /\ wk2.waiting = wk.waiting /\ wk2.owner = wk.owner /\ wk2.timer = wk.timer
      /\ wk2.waker = tk.waker /\ wk2.armed = tk.armed /\ wk2.woken = wk.woken \cup heard
  BY <1>1, <1>2 DEF Record, WFields
<1>4. WShape(wk2)
  BY <1>1, <1>3 DEF WShape, Record
<1>5. \A h \in Half : /\ wk2.waker[h] = IF h \in Taking(wk, hs) THEN NoTask ELSE wk.waker[h]
                      /\ wk2.armed[h] = IF h \in Taking(wk, hs) THEN FALSE ELSE wk.armed[h]
  BY <1>1, <1>3
<1>6. \A h \in Taking(wk, hs) : h \in hs /\ wk.waiting[h]
  BY DEF Taking
<1>7. \A h \in hs : wk.waiting[h] => h \in Taking(wk, hs)
  BY DEF Taking
<1>8. ASSUME NEW h \in Taking(wk, hs), NEW t, wk.waker[h] = t, t # NoTask,
             t \in Polling \/ \E g \in Half : wk.asleep[g] = t
      PROVE  t \in heard
  BY <1>8 DEF heard, Heard
<1> QED
  BY <1>3, <1>4, <1>5, <1>6, <1>7, <1>8, ZenonT(60)

\* A reader that sleeps keeps its deadlines when nothing about them changes, and has none once
\* the heartbeat has stopped.
Timely ==
    \/ s'.stopped
    \/ s'.stopped = s.stopped /\ s'.ping = s.ping /\ due' = due /\ w'.timer = w.timer

\* Such a step leaves the timer early enough.
LEMMA TimedKept ==
    ASSUME Timely, Timed
    PROVE  Timed'
  BY DEF Timely, Timed, Covered, next_deadline, next_hard_deadline, Primary

\* The transport wakes whom it would have woken.
Quiet ==
    /\ net'.waking = net.waking /\ net'.taken = net.taken /\ net.interest \subseteq net'.interest
    /\ s.closing => s'.closing

\* The sleepers other than the half that is polled.
LEMMA OthersSleep ==
    ASSUME WShape(w), Wakers, PollAt(p), Polled, Quiet, Sinking => Timely,
           NEW h \in Half, h # p.half,
           w'.waker[h] = w.waker[h], w'.waiting[h] = w.waiting[h], w'.asleep[h] = w.asleep[h],
           w.asleep[h] \in w.woken => w.asleep[h] \in w'.woken
    PROVE  w'.asleep[h] # NoTask /\ ~Called(w.asleep[h])' =>
             /\ w'.waker[h] = w'.asleep[h] /\ w'.waiting[h]
             /\ net'.waking \notin {"Stream", h} =>
                  IF h = "Sink" THEN "write" \in net'.interest
                  ELSE /\ net'.interest # {} /\ (~s'.closing => "read" \in net'.interest)
                       /\ Timed'
<1> SUFFICES ASSUME w'.asleep[h] # NoTask, ~Called(w.asleep[h])'
             PROVE  /\ w'.waker[h] = w'.asleep[h] /\ w'.waiting[h]
                    /\ net'.waking \notin {"Stream", h} =>
                         IF h = "Sink" THEN "write" \in net'.interest
                         ELSE /\ net'.interest # {} /\ (~s'.closing => "read" \in net'.interest)
                              /\ Timed'
  OBVIOUS
<1>1. ~Called(w.asleep[h])
  BY DEF Called, Quiet
<1>2. /\ w.waker[h] = w.asleep[h] /\ w.waiting[h]
      /\ net.waking \notin {"Stream", h} =>
           IF h = "Sink" THEN "write" \in net.interest
           ELSE /\ net.interest # {} /\ (~s.closing => "read" \in net.interest) /\ Timed
  BY <1>1 DEF Wakers, SleepInv
<1>3. h = "Stream" => Sinking
  BY DEF PollAt, Sinking
<1>4. h \in {"Stream", "Sink"}
  BY DEF Half
<1> QED
  BY <1>2, <1>3, <1>4, TimedKept DEF Quiet

\* What a poll keeps while it goes on.
Goes ==
    /\ PollAt(p') /\ p'.op = p.op /\ p'.half = p.half /\ p'.task = p.task /\ p'.armed = p.armed

\* The poll goes on: the slots are as they were.
LEMMA WakersGo ==
    ASSUME WShape(w), Wakers, PollAt(p), Polled, Quiet, Sinking => Timely,
           Goes, Turned(w'),
           Registered' => Registered,
           p'.pc \in Waits /\ p'.res = "pending" => "write" \in net'.interest,
           p'.pc = "nodata" => "read" \in net'.interest
    PROVE  WShape(w') /\ Wakers'
<1>1. WShape(w') /\ SameSlots(w')
  BY TurnedSlots
<1>2. \A t : Called(t)' <=> Called(t)
  BY <1>1 DEF Called, SameSlots, Quiet
<1>3. PollWakers'
  BY <1>1, <1>2 DEF Wakers, PollWakers, SameSlots, Goes, Polled, Reading, Sinking
<1>4. SlotInv'
  BY <1>1 DEF Wakers, SlotInv, SameSlots, Quiet, Goes, PollAt
<1>5. SleepInv'
  <2>1. w'.asleep[p.half] = NoTask
    BY <1>1 DEF Wakers, PollWakers, SameSlots
  <2>2. ASSUME NEW h \in Half, h # p.half
        PROVE  w'.asleep[h] # NoTask /\ ~Called(w.asleep[h])' =>
             /\ w'.waker[h] = w'.asleep[h] /\ w'.waiting[h]
             /\ net'.waking \notin {"Stream", h} =>
                  IF h = "Sink" THEN "write" \in net'.interest
                  ELSE /\ net'.interest # {} /\ (~s'.closing => "read" \in net'.interest)
                       /\ Timed'
    BY <1>1, <2>2, OthersSleep DEF SameSlots
  <2> QED
    BY <2>1, <2>2 DEF SleepInv
<1> QED
  BY <1>1, <1>3, <1>4, <1>5 DEF Wakers

\* Between polls nothing is asked of the slots.
LEMMA IdleWakers ==
    ASSUME p' = Idle
    PROVE  PollWakers' /\ p'.op # "closing" /\ ~Polled'
  BY DEF PollWakers, Polled, Reading, Sinking, Idle

\* The poll is over.
LEMMA WakersReturn ==
    ASSUME WShape(w), Wakers, PollAt(p), Polled, Quiet, Sinking => Timely,
           NEW wk, Turned(wk), Return(wk)
    PROVE  WShape(w') /\ Wakers'
<1>1. WShape(wk) /\ SameSlots(wk)
  BY TurnedSlots
<1>2. /\ p' = Idle
      /\ w' = [wk EXCEPT !.woken = {task \in @ : \E h \in Half \ {p.half} : wk.asleep[h] = task}]
  BY DEF Return
<1>3. /\ Record(w', WFields) /\ w'.waker = w.waker /\ w'.armed = w.armed /\ w'.waiting = w.waiting
      /\ w'.registered = w.registered /\ w'.owner = w.owner /\ w'.asleep = w.asleep
      /\ w'.woken = {task \in w.woken : \E h \in Half \ {p.half} : w.asleep[h] = task}
  <2> DEFINE kept == {task \in wk.woken : \E h \in Half \ {p.half} : wk.asleep[h] = task}
  <2>1. w' = [wk EXCEPT !.woken = kept]
    BY <1>2
  <2>2. kept = {task \in w.woken : \E h \in Half \ {p.half} : w.asleep[h] = task}
    BY <1>1 DEF SameSlots
  <2> HIDE DEF kept
  <2> QED
    BY <1>1, <2>1, <2>2 DEF WShape, Record, WFields, SameSlots
<1>4. WShape(w')
  BY <1>3 DEF WShape
<1>5. PollWakers' /\ p'.op # "closing"
  BY <1>2, IdleWakers
<1>6. SlotInv'
  BY <1>3, <1>5 DEF Wakers, SlotInv, Quiet
<1>7. SleepInv'
  <2>1. w'.asleep[p.half] = NoTask
    BY <1>3 DEF Wakers, PollWakers
  <2>2. ASSUME NEW h \in Half, h # p.half
        PROVE  w'.asleep[h] # NoTask /\ ~Called(w.asleep[h])' =>
             /\ w'.waker[h] = w'.asleep[h] /\ w'.waiting[h]
             /\ net'.waking \notin {"Stream", h} =>
                  IF h = "Sink" THEN "write" \in net'.interest
                  ELSE /\ net'.interest # {} /\ (~s'.closing => "read" \in net'.interest)
                       /\ Timed'
    BY <1>3, <2>2, OthersSleep
  <2> QED
    BY <2>1, <2>2 DEF SleepInv
<1> QED
  BY <1>4, <1>5, <1>6, <1>7 DEF Wakers

\* Everybody who sleeps is woken.
LEMMA AllWoken ==
    ASSUME NEW wk, WShape(wk), NEW wk2, wk2 = TerminalWakes(wk)
    PROVE  /\ WShape(wk2) /\ wk2.asleep = wk.asleep /\ wk2.registered = wk.registered
           /\ wk2.waiting = wk.waiting /\ wk2.owner = wk.owner /\ wk.woken \subseteq wk2.woken
           /\ \A h \in Half : wk2.armed[h] => wk.armed[h] /\ wk2.waker[h] = wk.waker[h]
           /\ \A h \in Half : \A t :
                /\ wk.waker[h] = t /\ t # NoTask
                /\ t \in Polling \/ \E g \in Half : wk.asleep[g] = t
                => wk2.waker[h] = t \/ t \in wk2.woken
           /\ \A h \in Half :
                wk.asleep[h] # NoTask /\ wk.waker[h] = wk.asleep[h] /\ wk.waiting[h]
                  => wk.asleep[h] \in wk2.woken
<1> DEFINE k == Wake(wk, Half)
<1>1. wk2 = [k EXCEPT !.timer = "none"]
  BY DEF TerminalWakes
<1>2. /\ WShape(k) /\ k.asleep = wk.asleep /\ k.registered = wk.registered
      /\ k.waiting = wk.waiting /\ k.owner = wk.owner /\ wk.woken \subseteq k.woken
      /\ \A h \in Half : k.armed[h] => wk.armed[h] /\ k.waker[h] = wk.waker[h]
      /\ \A h \in Half : \A t :
           /\ wk.waker[h] = t /\ t # NoTask
           /\ t \in Polling \/ \E g \in Half : wk.asleep[g] = t
           => k.waker[h] = t \/ t \in k.woken
      /\ \A h \in Half :
           wk.asleep[h] # NoTask /\ wk.waker[h] = wk.asleep[h] /\ wk.waiting[h]
             => wk.asleep[h] \in k.woken
  BY WakeEffect
<1> HIDE DEF k
<1>3. /\ Record(wk2, WFields) /\ wk2.asleep = k.asleep /\ wk2.registered = k.registered
      /\ wk2.waiting = k.waiting /\ wk2.owner = k.owner /\ wk2.woken = k.woken
      /\ wk2.waker = k.waker /\ wk2.armed = k.armed
  BY <1>1, <1>2 DEF WShape, Record, WFields
<1>4. WShape(wk2)
  BY <1>2, <1>3 DEF WShape
<1> QED
  BY <1>2, <1>3, <1>4

\* The poll ends the stream: it wakes everybody who sleeps.
LEMMA WakersEnd ==
    ASSUME Wakers, PollAt(p), Polled, net'.waking = net.waking, net'.taken = net.taken,
           NEW wk, WShape(wk), Return(TerminalWakes(wk)),
           wk.asleep = w.asleep, wk.woken = w.woken,
           \A h \in Half : wk.armed[h] => wk.waker[h] = wk.registered[h],
           \A h \in Half \ {p.half} : wk.waker[h] = w.waker[h] /\ wk.waiting[h] = w.waiting[h]
    PROVE  WShape(w') /\ Wakers'
<1> DEFINE k == TerminalWakes(wk)
<1>1. /\ WShape(k) /\ k.asleep = wk.asleep /\ k.registered = wk.registered /\ wk.woken \subseteq k.woken
      /\ \A h \in Half : k.armed[h] => wk.armed[h] /\ k.waker[h] = wk.waker[h]
      /\ \A h \in Half :
           wk.asleep[h] # NoTask /\ wk.waker[h] = wk.asleep[h] /\ wk.waiting[h]
             => wk.asleep[h] \in k.woken
  BY AllWoken
<1>2. /\ p' = Idle
      /\ w' = [k EXCEPT !.woken = {task \in @ : \E h \in Half \ {p.half} : k.asleep[h] = task}]
  BY DEF Return
<1> HIDE DEF k
<1> DEFINE kept == {task \in k.woken : \E h \in Half \ {p.half} : k.asleep[h] = task}
<1>3. w' = [k EXCEPT !.woken = kept]
  BY <1>2
<1> HIDE DEF kept
<1>4. /\ Record(w', WFields) /\ w'.waker = k.waker /\ w'.armed = k.armed /\ w'.waiting = k.waiting
      /\ w'.registered = k.registered /\ w'.owner = k.owner /\ w'.asleep = k.asleep /\ w'.woken = kept
  BY <1>1, <1>3 DEF WShape, Record, WFields
<1>5. WShape(w')
  BY <1>1, <1>4 DEF WShape
<1>6. PollWakers' /\ p'.op # "closing"
  BY <1>2, IdleWakers
<1>7. SlotInv'
  BY <1>1, <1>4, <1>6 DEF Wakers, SlotInv
<1>8. ASSUME NEW h \in Half, w'.asleep[h] # NoTask PROVE Called(w.asleep[h])'
  <2>1. w'.asleep = w.asleep
    BY <1>1, <1>4
  <2>2. h # p.half
    BY <1>8, <2>1 DEF Wakers, PollWakers
  <2>3. w.asleep[h] \in kept \cup net.taken
    <3>1. CASE Called(w.asleep[h])
      BY <1>1, <2>1, <2>2, <3>1 DEF Called, kept
    <3>2. CASE ~Called(w.asleep[h])
      <4>1. w.waker[h] = w.asleep[h] /\ w.waiting[h]
        BY <1>8, <2>1, <3>2 DEF Wakers, SleepInv
      <4>2. wk.waker[h] = wk.asleep[h] /\ wk.waiting[h] /\ wk.asleep[h] # NoTask
        BY <1>8, <2>1, <2>2, <4>1
      <4>3. wk.asleep[h] \in k.woken
        BY <1>1, <4>2
      <4> QED
        BY <1>1, <2>2, <4>3 DEF kept
    <3> QED
      BY <3>1, <3>2
  <2> QED
    BY <1>4, <2>1, <2>3 DEF Called
<1>9. SleepInv'
  BY <1>1, <1>4, <1>8 DEF SleepInv
<1> QED
  BY <1>5, <1>6, <1>7, <1>9 DEF Wakers

\* The poll returned Pending: its task sleeps, and what it waits for wakes it.
LEMMA WakersSleep ==
    ASSUME WShape(w), Wakers, PollAt(p), Polled, Quiet, Sinking => Timely,
           NEW wk, Turned(wk), Pending(wk), Registered,
           Sinking => "write" \in net.interest,
           Reading => /\ net'.interest # {} /\ (~s'.closing => "read" \in net'.interest)
                      /\ Timed'
    PROVE  WShape(w') /\ Wakers'
<1>1. WShape(wk) /\ SameSlots(wk)
  BY TurnedSlots
<1>2. p' = Idle /\ w' = [wk EXCEPT !.asleep[p.half] = p.task] /\ p.half \in Half
  BY DEF Pending, PollAt, Half
<1>3. /\ Record(w', WFields) /\ w'.waker = w.waker /\ w'.armed = w.armed /\ w'.waiting = w.waiting
      /\ w'.registered = w.registered /\ w'.owner = w.owner /\ w'.woken = w.woken
      /\ w'.asleep = [w.asleep EXCEPT ![p.half] = p.task]
  BY <1>1, <1>2 DEF WShape, Record, WFields, SameSlots
<1>4. /\ Record(w'.asleep, Half) /\ w'.asleep[p.half] = p.task
      /\ \A h \in Half : h # p.half => w'.asleep[h] = w.asleep[h]
  BY <1>2, <1>3 DEF WShape, Record
<1>5. WShape(w')
  BY <1>3, <1>4 DEF WShape
<1>6. PollWakers' /\ p'.op # "closing"
  BY <1>2, IdleWakers
<1>7. SlotInv'
  BY <1>3, <1>6 DEF Wakers, SlotInv, Quiet
<1>8. SleepInv'
  <2>1. ASSUME NEW h \in Half, h # p.half
        PROVE  w'.asleep[h] # NoTask /\ ~Called(w.asleep[h])' =>
             /\ w'.waker[h] = w'.asleep[h] /\ w'.waiting[h]
             /\ net'.waking \notin {"Stream", h} =>
                  IF h = "Sink" THEN "write" \in net'.interest
                  ELSE /\ net'.interest # {} /\ (~s'.closing => "read" \in net'.interest)
                       /\ Timed'
    BY <1>3, <1>4, <2>1, OthersSleep
  <2>2. ASSUME NEW h \in Half, h = p.half, ~Called(w.asleep[h])'
        PROVE  /\ w'.waker[h] = w'.asleep[h] /\ w'.waiting[h]
               /\ net'.waking \notin {"Stream", h} =>
                    IF h = "Sink" THEN "write" \in net'.interest
                    ELSE /\ net'.interest # {} /\ (~s'.closing => "read" \in net'.interest)
                         /\ Timed'
    <3>1. ~Called(p.task)
      BY <1>3, <1>4, <2>2 DEF Called, Quiet
    <3>2. w.waiting[h] /\ w.waker[h] = p.task
      BY <2>2, <3>1 DEF Wakers, PollWakers
    <3>3. (h = "Sink" => Sinking) /\ (h # "Sink" => Reading)
      BY <2>2 DEF PollAt, Sinking, Reading
    <3> QED
      BY <1>3, <1>4, <2>2, <3>2, <3>3 DEF Quiet
  <2> QED
    BY <2>1, <2>2 DEF SleepInv
<1> QED
  BY <1>5, <1>6, <1>7, <1>8 DEF Wakers

\* What register leaves: the half waits, and its slot holds its task's waker unless that was
\* taken to be woken.
RegisterDone(wk) ==
    /\ WShape(wk) /\ wk.asleep = w.asleep /\ wk.woken = w.woken /\ wk.timer = w.timer
    /\ wk.waiting[p.half] /\ (wk.waker[p.half] = p.task \/ Called(p.task))
    /\ \A h \in Half : wk.armed[h] => wk.waker[h] = wk.registered[h]
    /\ \A h \in Half \ {p.half} : /\ wk.waker[h] = w.waker[h] /\ wk.waiting[h] = w.waiting[h]
                                  /\ wk.registered[h] = w.registered[h] /\ wk.armed[h] = w.armed[h]

\* register, with the value of `armed` the load returned.
LEMMA Registers ==
    ASSUME WShape(w), Wakers, PollAt(p), Polled, NEW wk, wk \in register(w, p.half)
    PROVE  RegisterDone(wk)
<1> DEFINE h == p.half
<1>1. h \in Half
  BY DEF PollAt, Half
<1>2. PICK armed \in {w.armed[h], p.armed} :
        wk = IF armed /\ w.registered[h] = p.task THEN [w EXCEPT !.waiting[h] = TRUE]
             ELSE [w EXCEPT !.waiting[h] = TRUE, !.waker[h] = p.task, !.armed[h] = TRUE,
                            !.registered[h] = p.task]
  BY DEF register
<1> HIDE DEF h
<1>3. /\ w.armed[h] => w.waker[h] = w.registered[h]
      /\ p.armed /\ w.registered[h] = p.task => w.waker[h] = p.task \/ Called(p.task)
      /\ \A g \in Half : w.armed[g] => w.waker[g] = w.registered[g]
  BY <1>1 DEF Wakers, SlotInv, PollWakers, h
<1>4. CASE armed /\ w.registered[h] = p.task
  <2>1. wk = [w EXCEPT !.waiting[h] = TRUE]
    BY <1>2, <1>4
  <2>2. /\ Record(wk, WFields) /\ wk.waker = w.waker /\ wk.armed = w.armed
        /\ wk.registered = w.registered /\ wk.owner = w.owner /\ wk.asleep = w.asleep
        /\ wk.woken = w.woken /\ wk.timer = w.timer /\ wk.waiting = [w.waiting EXCEPT ![h] = TRUE]
    BY <2>1 DEF WShape, Record, WFields
  <2>3. /\ Record(wk.waiting, Half) /\ wk.waiting[h]
        /\ \A g \in Half \ {h} : wk.waiting[g] = w.waiting[g]
    BY <1>1, <2>2 DEF WShape, Record
  <2>4. WShape(wk)
    BY <2>2, <2>3 DEF WShape
  <2>5. w.waker[h] = p.task \/ Called(p.task)
    BY <1>2, <1>3, <1>4
  <2> QED
    BY <1>3, <2>2, <2>3, <2>4, <2>5 DEF RegisterDone, h
<1>5. CASE ~(armed /\ w.registered[h] = p.task)
  <2>1. wk = [w EXCEPT !.waiting[h] = TRUE, !.waker[h] = p.task, !.armed[h] = TRUE,
                       !.registered[h] = p.task]
    BY <1>2, <1>5
  <2>2. /\ Record(wk, WFields) /\ wk.owner = w.owner /\ wk.asleep = w.asleep
        /\ wk.woken = w.woken /\ wk.timer = w.timer /\ wk.waiting = [w.waiting EXCEPT ![h] = TRUE]
        /\ wk.waker = [w.waker EXCEPT ![h] = p.task] /\ wk.armed = [w.armed EXCEPT ![h] = TRUE]
        /\ wk.registered = [w.registered EXCEPT ![h] = p.task]
    BY <2>1 DEF WShape, Record, WFields
  <2>3. /\ Record(wk.waiting, Half) /\ wk.waiting[h] /\ Record(wk.waker, Half)
        /\ Record(wk.armed, Half) /\ Record(wk.registered, Half)
        /\ wk.waker[h] = p.task /\ wk.registered[h] = p.task
    BY <1>1, <2>2 DEF WShape, Record
  <2>4. \A g \in Half \ {h} : /\ wk.waiting[g] = w.waiting[g] /\ wk.waker[g] = w.waker[g]
                              /\ wk.registered[g] = w.registered[g] /\ wk.armed[g] = w.armed[g]
    BY <2>2 DEF WShape, Record
  <2>5. WShape(wk)
    BY <2>2, <2>3 DEF WShape
  <2>6. \A g \in Half : wk.armed[g] => wk.waker[g] = wk.registered[g]
    BY <1>3, <2>3, <2>4
  <2> QED
    BY <2>2, <2>3, <2>4, <2>5, <2>6 DEF RegisterDone, h
<1> QED
  BY <1>4, <1>5

\* A registration inside a poll that goes on.
LEMMA WakersRegister ==
    ASSUME WShape(w), Wakers, PollAt(p), Polled, Quiet, Sinking => Timely,
           RegisterDone(w'), Goes,
           p'.pc \in Waits => p'.res # "pending",
           p'.pc = "nodata" => "read" \in net'.interest
    PROVE  Wakers'
<1>1. \A t : Called(t)' <=> Called(t)
  BY DEF Called, RegisterDone, Quiet
<1>2. p.half \in Half
  BY DEF PollAt, Half
<1>3. PollWakers'
  BY <1>1, <1>2 DEF Wakers, PollWakers, RegisterDone, Goes, Polled, Reading, Sinking
<1>4. SlotInv'
  BY DEF Wakers, SlotInv, RegisterDone, Quiet, Goes, PollAt
<1>5. SleepInv'
  <2>1. w'.asleep[p.half] = NoTask
    BY DEF Wakers, PollWakers, RegisterDone
  <2>2. ASSUME NEW h \in Half, h # p.half
        PROVE  w'.asleep[h] # NoTask /\ ~Called(w.asleep[h])' =>
             /\ w'.waker[h] = w'.asleep[h] /\ w'.waiting[h]
             /\ net'.waking \notin {"Stream", h} =>
                  IF h = "Sink" THEN "write" \in net'.interest
                  ELSE /\ net'.interest # {} /\ (~s'.closing => "read" \in net'.interest)
                       /\ Timed'
    BY <2>2, OthersSleep DEF RegisterDone
  <2> QED
    BY <2>1, <2>2 DEF SleepInv
<1> QED
  BY <1>3, <1>4, <1>5 DEF Wakers

\* The polling half stops waiting; the other half is woken, or keeps its deadlines.
LEMMA WakersResult ==
    ASSUME WShape(w), Wakers, PollAt(p), Polled, WShape(w'), Goes, ~Registered',
           net'.waking = net.waking, net'.taken = net.taken, net.interest \subseteq net'.interest,
           s.closing => s'.closing,
           w'.asleep = w.asleep, w'.registered = w.registered, w.woken \subseteq w'.woken,
           \A h \in Half : w'.armed[h] => w.armed[h] /\ w'.waker[h] = w.waker[h],
           w.waker[p.half] = p.task => w'.waker[p.half] = p.task \/ p.task \in w'.woken,
           \A h \in Half \ {p.half} :
             \/ /\ w'.waker[h] = w.waker[h] /\ w'.waiting[h] = w.waiting[h]
                /\ Sinking => Timely
             \/ w.asleep[h] # NoTask /\ w.waker[h] = w.asleep[h] /\ w.waiting[h]
                  => w.asleep[h] \in w'.woken
    PROVE  Wakers'
<1>1. \A t : Called(t) => Called(t)'
  BY DEF Called
<1>2. p.half \in Half
  BY DEF PollAt, Half
<1>3. PollWakers'
  <2>1. w'.asleep[p.half] = NoTask
    BY DEF Wakers, PollWakers
  <2>2. p.armed /\ w'.registered[p.half] = p.task => w'.waker[p.half] = p.task \/ Called(p.task)'
    <3>1. Called(p.task)' <=> p.task \in w'.woken \cup net'.taken
      BY DEF Called, Goes
    <3> QED
      BY <1>1, <3>1 DEF Wakers, PollWakers, Called, Goes
  <2> QED
    BY <2>1, <2>2 DEF PollWakers, Goes, Registered
<1>4. SlotInv'
  BY DEF Wakers, SlotInv, Goes, PollAt
<1>5. SleepInv'
  <2>1. w'.asleep[p.half] = NoTask
    BY DEF Wakers, PollWakers
  <2>2. ASSUME NEW h \in Half, h # p.half
        PROVE  w'.asleep[h] # NoTask /\ ~Called(w.asleep[h])' =>
             /\ w'.waker[h] = w'.asleep[h] /\ w'.waiting[h]
             /\ net'.waking \notin {"Stream", h} =>
                  IF h = "Sink" THEN "write" \in net'.interest
                  ELSE /\ net'.interest # {} /\ (~s'.closing => "read" \in net'.interest)
                       /\ Timed'
    <3>1. CASE /\ w'.waker[h] = w.waker[h] /\ w'.waiting[h] = w.waiting[h]
               /\ Sinking => Timely
      BY <2>2, <3>1, OthersSleep DEF Quiet
    <3>2. CASE w.asleep[h] # NoTask /\ w.waker[h] = w.asleep[h] /\ w.waiting[h]
                  => w.asleep[h] \in w'.woken
      <4>1. CASE Called(w.asleep[h])
        BY <4>1 DEF Called
      <4>2. CASE ~Called(w.asleep[h])
        BY <3>2, <4>2 DEF Wakers, SleepInv, Called
      <4> QED
        BY <4>1, <4>2
    <3> QED
      BY <2>2, <3>1, <3>2
  <2> QED
    BY <2>1, <2>2 DEF SleepInv
<1> QED
  BY <1>3, <1>4, <1>5 DEF Wakers

\* A sleeper that is woken by a flush of the other half.
LEMMA FlushWakes ==
    ASSUME WShape(w), NEW half \in Half, NEW wk, wk = PingFlushWakes(w, half)
    PROVE  /\ WShape(wk) /\ wk.asleep = w.asleep /\ wk.registered = w.registered
           /\ wk.waiting = w.waiting /\ wk.timer = w.timer /\ wk.owner = w.owner
           /\ w.woken \subseteq wk.woken
           /\ \A h \in Half : wk.armed[h] => w.armed[h] /\ wk.waker[h] = w.waker[h]
           /\ wk.waker[half] = w.waker[half] /\ wk.waker["Sink"] = w.waker["Sink"]
           /\ half = "Sink" =>
                \/ ~s.ping_flush /\ wk.waker["Stream"] = w.waker["Stream"]
                \/ (w.asleep["Stream"] # NoTask /\ w.waker["Stream"] = w.asleep["Stream"]
                      /\ w.waiting["Stream"]) => w.asleep["Stream"] \in wk.woken
<1>1. CASE s.ping_flush /\ half = "Sink"
  <2>1. wk = Wake(w, {"Stream"})
    BY <1>1 DEF PingFlushWakes
  <2>2. "Stream" \in Half /\ "Sink" \in Half /\ "Sink" \notin {"Stream"}
    BY DEF Half
  <2>3. \A h \in {"Stream"} \cap Half :
           w.asleep[h] # NoTask /\ w.waker[h] = w.asleep[h] /\ w.waiting[h]
             => w.asleep[h] \in wk.woken
    BY <2>1, WakeEffect
  <2>4. /\ WShape(wk) /\ wk.asleep = w.asleep /\ wk.registered = w.registered
        /\ wk.waiting = w.waiting /\ wk.timer = w.timer /\ wk.owner = w.owner
        /\ w.woken \subseteq wk.woken
        /\ \A h \in Half : wk.armed[h] => w.armed[h] /\ wk.waker[h] = w.waker[h]
        /\ \A h \in Half : h \notin {"Stream"} => wk.waker[h] = w.waker[h]
    BY <2>1, WakeEffect
  <2> QED
    BY <1>1, <2>2, <2>3, <2>4
<1>2. CASE ~(s.ping_flush /\ half = "Sink")
  BY <1>2 DEF PingFlushWakes
<1> QED
  BY <1>1, <1>2

\* settle.
LEMMA Settles ==
    ASSUME NEW wk, WShape(wk), NEW half, NEW wk2, wk2 = Settled(wk, half)
    PROVE  /\ WShape(wk2) /\ wk2.asleep = wk.asleep /\ wk2.registered = wk.registered
           /\ wk2.timer = wk.timer /\ wk2.woken = wk.woken /\ wk2.armed = wk.armed
           /\ wk2.waker = wk.waker /\ wk2.owner = wk.owner
           /\ \A h \in Half \ {half} : wk2.waiting[h] = wk.waiting[h]
<1>1. CASE half = "Sink"
  <2>1. wk2 = [wk EXCEPT !.waiting["Sink"] = FALSE]
    BY <1>1 DEF Settled
  <2>2. /\ Record(wk2, WFields) /\ wk2.asleep = wk.asleep /\ wk2.registered = wk.registered
        /\ wk2.timer = wk.timer /\ wk2.woken = wk.woken /\ wk2.armed = wk.armed
        /\ wk2.waker = wk.waker /\ wk2.owner = wk.owner
        /\ wk2.waiting = [wk.waiting EXCEPT !["Sink"] = FALSE]
    BY <2>1 DEF WShape, Record, WFields
  <2>3. Record(wk2.waiting, Half) /\ \A h \in Half \ {"Sink"} : wk2.waiting[h] = wk.waiting[h]
    BY <2>2 DEF WShape, Record
  <2> QED
    BY <1>1, <2>2, <2>3 DEF WShape
<1>2. CASE half # "Sink"
  BY <1>2 DEF Settled
<1> QED
  BY <1>1, <1>2

\* The transport's thread takes the reader's waker.
LEMMA ReactorTakes ==
    ASSUME WShape(w), Record(net, NetFields), Places, Wakers, reactor_takes_stream
    PROVE  WShape(w') /\ Wakers'
<1> DEFINE st == {"Stream"}
           heard == Heard(w, {w.waker[h] : h \in Taking(w, st)})
<1>1. /\ net.waking = "Stream" /\ ReactorTurn /\ p' = p /\ s' = s /\ due' = due
      /\ net' = [net EXCEPT !.waking = "Sink", !.taken = heard] /\ w' = Taken(w, st)
  BY DEF reactor_takes_stream
<1> HIDE DEF heard
<1>2. /\ net'.waking = "Sink" /\ net'.taken = heard /\ net'.interest = net.interest /\ net.taken = {}
  BY <1>1 DEF Record, NetFields, Wakers, SlotInv
<1>3. /\ Record(w', WFields) /\ w'.asleep = w.asleep /\ w'.registered = w.registered
      /\ w'.waiting = w.waiting /\ w'.owner = w.owner /\ w'.timer = w.timer /\ w'.woken = w.woken
      /\ w'.waker = [h \in Half |-> IF h \in Taking(w, st) THEN NoTask ELSE w.waker[h]]
      /\ w'.armed = [h \in Half |-> IF h \in Taking(w, st) THEN FALSE ELSE w.armed[h]]
  BY <1>1 DEF Taken, WShape, Record, WFields
<1>4. WShape(w')
  BY <1>3 DEF WShape, Record
<1>5. \A h \in Half : /\ w'.waker[h] = IF h = "Stream" /\ w.waiting[h] THEN NoTask ELSE w.waker[h]
                      /\ w'.armed[h] = IF h = "Stream" /\ w.waiting[h] THEN FALSE ELSE w.armed[h]
  BY <1>3 DEF Taking
<1>6. ASSUME NEW t, t # NoTask, w.waker["Stream"] = t, w.waiting["Stream"],
             t \in Polling \/ \E g \in Half : w.asleep[g] = t
      PROVE  t \in heard
  BY <1>6 DEF heard, Heard, Taking
<1>7. PollWakers'
  <2> SUFFICES ASSUME Polled PROVE PollWakers'
    BY <1>1 DEF PollWakers, Polled, Reading, Sinking
  <2>1. PollAt(p) /\ p.pc \in {"register", "read"} /\ Polling = {p.task}
    BY <1>1 DEF ReactorTurn, Polled, Reading, Sinking, Polling, Places, Idle
  <2>2. p.task # NoTask /\ p.half \in Half
    BY <2>1, UnifiedAssumption DEF PollAt, Half
  <2>3. ~Registered
    BY <2>1 DEF Registered, Waits
  <2>4. ASSUME w.waker[p.half] = p.task \/ Called(p.task)
        PROVE  w'.waker[p.half] = p.task \/ Called(p.task)'
    <3>1. CASE Called(p.task)
      BY <1>1, <1>2, <1>3, <3>1 DEF Called
    <3>2. CASE w.waker[p.half] = p.task /\ ~(p.half = "Stream" /\ w.waiting["Stream"])
      BY <1>5, <2>2, <3>2
    <3>3. CASE w.waker[p.half] = p.task /\ p.half = "Stream" /\ w.waiting["Stream"]
      BY <1>1, <1>2, <1>6, <2>1, <2>2, <3>3 DEF Called
    <3> QED
      BY <2>4, <3>1, <3>2, <3>3
  <2>5. p.pc \notin Waits /\ p.pc # "nodata"
    BY <2>1 DEF Waits
  <2> QED
    BY <1>1, <1>3, <2>3, <2>4, <2>5 DEF Wakers, PollWakers, Registered
<1>8. SlotInv'
  <2>1. ASSUME NEW h \in Half, w'.armed[h] PROVE w'.waker[h] = w'.registered[h]
    <3>1. ~(h = "Stream" /\ w.waiting[h])
      BY <1>5, <2>1
    <3>2. w.armed[h] /\ w'.waker[h] = w.waker[h]
      BY <1>5, <2>1, <3>1
    <3> QED
      BY <1>3, <3>2 DEF Wakers, SlotInv
  <2>2. p.op = "closing" => \A h \in Half : w'.asleep[h] = NoTask
    BY <1>3 DEF Wakers, SlotInv
  <2> QED
    BY <1>1, <1>2, <2>1, <2>2 DEF SlotInv
<1>9. SleepInv'
  <2> SUFFICES ASSUME NEW h \in Half, w'.asleep[h] # NoTask, ~Called(w.asleep[h])'
               PROVE  h = "Sink" /\ w'.waker[h] = w'.asleep[h] /\ w'.waiting[h]
    BY <1>2 DEF SleepInv
  <2>1. ~Called(w.asleep[h])
    BY <1>2, <1>3 DEF Called
  <2>2. w.waker[h] = w.asleep[h] /\ w.waiting[h]
    BY <1>3, <2>1 DEF Wakers, SleepInv
  <2>3. h # "Stream"
    <3>1. w.asleep[h] \notin heard
      BY <1>2, <1>3 DEF Called
    <3> QED
      BY <1>3, <1>6, <2>2, <3>1
  <2> QED
    BY <1>3, <1>5, <2>2, <2>3 DEF Half
<1> QED
  BY <1>4, <1>7, <1>8, <1>9 DEF Wakers

\* It takes the other half's waker, and wakes both.
LEMMA ReactorWakes ==
    ASSUME WShape(w), Record(net, NetFields), Places, Wakers, reactor_wakes
    PROVE  WShape(w') /\ Wakers'
<1> DEFINE k == Wake(w, {"Sink"})
           heard == Heard(w, net.taken)
<1>1. /\ net.waking = "Sink" /\ ReactorTurn /\ p' = p /\ s' = s /\ due' = due
      /\ net' = [net EXCEPT !.waking = "none", !.taken = {}] /\ w' = [k EXCEPT !.woken = @ \cup heard]
  BY DEF reactor_wakes
<1>2. /\ WShape(k) /\ k.asleep = w.asleep /\ k.registered = w.registered /\ k.waiting = w.waiting
      /\ w.woken \subseteq k.woken
      /\ \A h \in Half : h \notin {"Sink"} => k.waker[h] = w.waker[h] /\ k.armed[h] = w.armed[h]
      /\ \A h \in Half : k.armed[h] => w.armed[h] /\ k.waker[h] = w.waker[h]
      /\ \A h \in Half : \A t :
           /\ w.waker[h] = t /\ t # NoTask
           /\ t \in Polling \/ \E g \in Half : w.asleep[g] = t
           => k.waker[h] = t \/ t \in k.woken
      /\ \A h \in {"Sink"} \cap Half :
           w.asleep[h] # NoTask /\ w.waker[h] = w.asleep[h] /\ w.waiting[h] => w.asleep[h] \in k.woken
  BY WakeEffect
<1> HIDE DEF k, heard
<1>3. net'.waking = "none" /\ net'.taken = {} /\ net'.interest = net.interest
  BY <1>1 DEF Record, NetFields
<1>4. /\ Record(w', WFields) /\ w'.asleep = w.asleep /\ w'.registered = w.registered
      /\ w'.waiting = w.waiting /\ w'.owner = k.owner /\ w'.timer = k.timer
      /\ w'.waker = k.waker /\ w'.armed = k.armed /\ w'.woken = k.woken \cup heard
  BY <1>1, <1>2 DEF WShape, Record, WFields
<1>5. WShape(w')
  BY <1>2, <1>4 DEF WShape
<1>6. ASSUME NEW t, t # NoTask, t \in net.taken,
             t \in Polling \/ \E g \in Half : w.asleep[g] = t
      PROVE  t \in heard
  BY <1>6 DEF heard, Heard
<1>7. w.timer = w'.timer
  BY <1>4, WakeEffect DEF k
<1>8. PollWakers'
  <2> SUFFICES ASSUME Polled PROVE PollWakers'
    BY <1>1 DEF PollWakers, Polled, Reading, Sinking
  <2>1. PollAt(p) /\ p.pc \in {"register", "read"} /\ Polling = {p.task}
    BY <1>1 DEF ReactorTurn, Polled, Reading, Sinking, Polling, Places, Idle
  <2>2. p.task # NoTask /\ p.half \in Half
    BY <2>1, UnifiedAssumption DEF PollAt, Half
  <2>3. ~Registered /\ p.pc \notin Waits /\ p.pc # "nodata"
    BY <2>1 DEF Registered, Waits
  <2>4. ASSUME w.waker[p.half] = p.task \/ Called(p.task)
        PROVE  w'.waker[p.half] = p.task \/ Called(p.task)'
    <3>1. CASE Called(p.task)
      <4>1. p.task \in w.woken \/ p.task \in heard
        BY <1>6, <2>1, <2>2, <3>1 DEF Called
      <4> QED
        BY <1>1, <1>2, <1>4, <4>1 DEF Called
    <3>2. CASE w.waker[p.half] = p.task
      BY <1>1, <1>2, <1>4, <2>1, <2>2, <3>2 DEF Called
    <3> QED
      BY <2>4, <3>1, <3>2
  <2> QED
    BY <1>1, <1>4, <2>3, <2>4 DEF Wakers, PollWakers, Registered
<1>9. SlotInv'
  BY <1>1, <1>2, <1>3, <1>4 DEF Wakers, SlotInv
<1>10. SleepInv'
  <2> SUFFICES ASSUME NEW h \in Half, w'.asleep[h] # NoTask, ~Called(w.asleep[h])'
               PROVE  /\ h = "Stream" /\ w'.waker[h] = w'.asleep[h] /\ w'.waiting[h]
                      /\ net'.interest # {} /\ (~s'.closing => "read" \in net'.interest) /\ Timed'
    BY <1>3 DEF SleepInv
  <2>1. w.asleep[h] \notin w'.woken
    BY <1>3, <1>4 DEF Called
  <2>2. ~Called(w.asleep[h])
    BY <1>2, <1>4, <1>6, <2>1 DEF Called
  <2>3. /\ w.waker[h] = w.asleep[h] /\ w.waiting[h]
        /\ net.waking \notin {"Stream", h} =>
             IF h = "Sink" THEN "write" \in net.interest
             ELSE /\ net.interest # {} /\ (~s.closing => "read" \in net.interest) /\ Timed
    BY <1>4, <2>2 DEF Wakers, SleepInv
  <2>4. h = "Stream"
    BY <1>2, <1>4, <2>1, <2>3 DEF Half
  <2>5. Timely
    BY <1>1, <1>7 DEF Timely
  <2> QED
    BY <1>1, <1>2, <1>3, <1>4, <2>3, <2>4, <2>5, TimedKept
<1> QED
  BY <1>5, <1>8, <1>9, <1>10 DEF Wakers

\* A poll begins: its task sleeps nowhere, and its slot is as it was.
LEMMA PollBegins ==
    ASSUME WShape(w), Wakers, NEW op \in {"next", "ready", "flush", "close"}, poll(op)
    PROVE  PollAt(p') /\ p'.op = op /\ p'.pc = (IF op = "next" THEN "top" ELSE "start")
           /\ p'.parsed = NoFrame /\ p'.expired = "none" /\ Bound(p') = p'.pc
           /\ WShape(w') /\ Wakers'
<1> DEFINE half == IF op = "next" THEN "Stream" ELSE "Sink"
           task == w.owner[half]
           left == [h \in Half |-> IF h = half \/ w.asleep[h] = task THEN NoTask ELSE w.asleep[h]]
<1>1. /\ p = Idle /\ s' = s /\ net' = net /\ due' = due
      /\ p' = [op |-> op, half |-> half, task |-> task, pc |-> IF op = "next" THEN "top" ELSE "start",
               call |-> "none", ret |-> "none", res |-> "none", parsed |-> NoFrame,
               expired |-> "none", late |-> FALSE, buffered |-> FALSE, armed |-> w.armed[half]]
      /\ w' = [w EXCEPT !.woken = @ \ {task}, !.asleep = left]
  BY DEF poll
<1>2. half \in Half /\ task \in Tasks /\ task # NoTask
  BY UnifiedAssumption DEF Half, WShape
<1> HIDE DEF half, task, left
<1>3. /\ Record(p', PFields) /\ p'.task = task /\ p'.op = op /\ p'.half = half /\ p'.parsed = NoFrame
      /\ p'.pc = (IF op = "next" THEN "top" ELSE "start") /\ p'.expired = "none" /\ p'.res = "none"
      /\ p'.armed = w.armed[half]
  BY <1>1 DEF Record, PFields
<1>4. PollAt(p') /\ Bound(p') = p'.pc
  <2>1. p'.pc \in {"top", "start"} /\ p'.pc \in PlacesOf(op)
    BY <1>3 DEF PlacesOf
  <2>2. Bound(p') = p'.pc
    BY <2>1 DEF Bound
  <2>3. p'.half = (IF p'.op = "next" THEN "Stream" ELSE "Sink")
    BY <1>3 DEF half
  <2> QED
    BY <1>2, <1>3, <2>1, <2>2, <2>3 DEF PollAt, Waits
<1>5. /\ Record(w', WFields) /\ w'.waker = w.waker /\ w'.armed = w.armed /\ w'.waiting = w.waiting
      /\ w'.registered = w.registered /\ w'.owner = w.owner /\ w'.timer = w.timer
      /\ w'.woken = w.woken \ {task} /\ w'.asleep = left
  BY <1>1 DEF WShape, Record, WFields
<1>6. WShape(w')
  BY <1>5 DEF WShape, Record, left
<1>7. \A h \in Half : /\ left[h] # NoTask => left[h] = w.asleep[h] /\ w.asleep[h] # task
                      /\ left[half] = NoTask
  BY <1>2 DEF left
<1>8. PollWakers'
  <2>1. w'.asleep[p'.half] = NoTask
    BY <1>2, <1>3, <1>5, <1>7
  <2>2. ~Registered'
    BY <1>3 DEF Registered, Waits
  <2>3. p'.armed /\ w'.registered[p'.half] = p'.task => w'.waker[p'.half] = p'.task
    <3>1. w.armed[half] => w.waker[half] = w.registered[half]
      BY <1>2 DEF Wakers, SlotInv
    <3> QED
      BY <1>3, <1>5, <3>1
  <2>4. p'.pc \notin Waits /\ p'.pc # "nodata"
    BY <1>3 DEF Waits
  <2> QED
    BY <2>1, <2>2, <2>3, <2>4 DEF PollWakers
<1>9. SlotInv'
  <2>1. p'.op # "closing"
    BY <1>3
  <2> QED
    BY <1>1, <1>5, <2>1 DEF Wakers, SlotInv
<1>10. SleepInv'
  <2> SUFFICES ASSUME NEW h \in Half, w'.asleep[h] # NoTask, ~Called(w.asleep[h])'
               PROVE  /\ w'.waker[h] = w'.asleep[h] /\ w'.waiting[h]
                      /\ net'.waking \notin {"Stream", h} =>
                           IF h = "Sink" THEN "write" \in net'.interest
                           ELSE /\ net'.interest # {} /\ (~s'.closing => "read" \in net'.interest)
                                /\ Timed'
    BY DEF SleepInv
  <2>1. w'.asleep[h] = w.asleep[h] /\ w.asleep[h] # task /\ w.asleep[h] # NoTask
    BY <1>5, <1>7
  <2>2. ~Called(w.asleep[h])
    BY <1>1, <1>5, <2>1 DEF Called
  <2>3. Timely
    BY <1>1, <1>5 DEF Timely
  <2> QED
    BY <1>1, <1>5, <2>1, <2>2, <2>3, TimedKept DEF Wakers, SleepInv
<1> QED
  BY <1>3, <1>4, <1>6, <1>8, <1>9, <1>10 DEF Wakers

\* A half is handed over: nobody sleeps in it.
LEMMA HandsOver ==
    ASSUME WShape(w), Wakers, NEW h0 \in Half, NEW task \in Tasks, handover(h0, task)
    PROVE  WShape(w') /\ Wakers'
<1>1. /\ p' = Idle /\ s' = s /\ net' = net /\ due' = due
      /\ w' = [w EXCEPT !.owner[h0] = task, !.moves = @ + 1, !.asleep[h0] = NoTask]
  BY DEF handover
<1>2. /\ Record(w', WFields) /\ w'.waker = w.waker /\ w'.armed = w.armed /\ w'.waiting = w.waiting
      /\ w'.registered = w.registered /\ w'.timer = w.timer /\ w'.woken = w.woken
      /\ w'.asleep = [w.asleep EXCEPT ![h0] = NoTask] /\ w'.owner = [w.owner EXCEPT ![h0] = task]
  BY <1>1 DEF WShape, Record, WFields
<1>3. /\ Record(w'.asleep, Half) /\ w'.owner \in [Half -> Tasks]
      /\ \A h \in Half : w'.asleep[h] # NoTask => w'.asleep[h] = w.asleep[h]
  BY <1>2 DEF WShape, Record
<1>4. WShape(w')
  BY <1>2, <1>3 DEF WShape
<1>5. PollWakers' /\ p'.op # "closing"
  BY <1>1, IdleWakers
<1>6. SlotInv'
  BY <1>1, <1>2, <1>5 DEF Wakers, SlotInv
<1>7. SleepInv'
  <2> SUFFICES ASSUME NEW h \in Half, w'.asleep[h] # NoTask, ~Called(w.asleep[h])'
               PROVE  /\ w'.waker[h] = w'.asleep[h] /\ w'.waiting[h]
                      /\ net'.waking \notin {"Stream", h} =>
                           IF h = "Sink" THEN "write" \in net'.interest
                           ELSE /\ net'.interest # {} /\ (~s'.closing => "read" \in net'.interest)
                                /\ Timed'
    BY DEF SleepInv
  <2>1. w'.asleep[h] = w.asleep[h] /\ w.asleep[h] # NoTask
    BY <1>3
  <2>2. ~Called(w.asleep[h])
    BY <1>1, <1>2, <2>1 DEF Called
  <2>3. Timely
    BY <1>1, <1>2 DEF Timely
  <2> QED
    BY <1>1, <1>2, <2>1, <2>2, <2>3, TimedKept DEF Wakers, SleepInv
<1> QED
  BY <1>4, <1>5, <1>6, <1>7 DEF Wakers

\* Steps between the polls.
LEMMA WakersBetween ==
    ASSUME WShape(w), Wakers, p' = p, p.op \in {"none", "closing"}, Turned(w'), s.closing => s'.closing,
           net.waking \in {"none", "Stream"} => net'.waking \in {net.waking, "Stream"},
           net.waking = "Sink" => net'.waking = "Sink", net'.taken = net.taken,
           net'.waking = "Stream" \/ net.interest \subseteq net'.interest,
           net'.waking = "Stream" \/ (Timed => Timed')
    PROVE  WShape(w') /\ Wakers'
<1>1. WShape(w') /\ SameSlots(w')
  BY TurnedSlots
<1>2. ~Polled'
  BY DEF Polled, Reading, Sinking
<1>3. SlotInv'
  BY <1>1 DEF Wakers, SlotInv, SameSlots
<1>4. SleepInv'
  <2> SUFFICES ASSUME NEW h \in Half, w'.asleep[h] # NoTask, ~Called(w.asleep[h])'
               PROVE  /\ w'.waker[h] = w'.asleep[h] /\ w'.waiting[h]
                      /\ net'.waking \notin {"Stream", h} =>
                           IF h = "Sink" THEN "write" \in net'.interest
                           ELSE /\ net'.interest # {} /\ (~s'.closing => "read" \in net'.interest)
                                /\ Timed'
    BY DEF SleepInv
  <2>1. ~Called(w.asleep[h]) /\ w'.asleep[h] = w.asleep[h]
    BY <1>1 DEF Called, SameSlots
  <2>2. /\ w.waker[h] = w.asleep[h] /\ w.waiting[h]
        /\ net.waking \notin {"Stream", h} =>
             IF h = "Sink" THEN "write" \in net.interest
             ELSE /\ net.interest # {} /\ (~s.closing => "read" \in net.interest) /\ Timed
    BY <2>1 DEF Wakers, SleepInv
  <2>3. net'.waking \notin {"Stream", h} => net.waking \notin {"Stream", h}
    BY DEF Wakers, SlotInv
  <2> QED
    BY <1>1, <2>1, <2>2, <2>3 DEF SameSlots
<1> QED
  BY <1>1, <1>2, <1>3, <1>4 DEF Wakers, PollWakers

-----------------------------------------------------------------------------
(* Closing *)


\* What finish_read_close leaves of the stream.
LEMMA FinishFields ==
    ASSUME NEW st, Record(st, SFields), NEW r, r = finish_read_close(st)
    PROVE  /\ Record(r, SFields) /\ r.state = "Closed" /\ r.stopped /\ r.closing = st.closing
           /\ r.write_buf = st.write_buf /\ r.pending_pong = 0 /\ r.batch = <<>> /\ r.pending = <<>>
           /\ r.control = NoFrame /\ ~r.close_after_flush /\ r.read_buf = st.read_buf
           /\ r.unprocessed = st.unprocessed /\ r.parse_error = st.parse_error /\ r.ping = st.ping
           /\ r.shutdown # "NotStarted" => st.shutdown # "NotStarted"
           /\ r.terminal = "none"
  BY ZenonT(60) DEF finish_read_close, compressed_finish_read_close, Dropped, close_terminal, Record, SFields

\* What Kept changes.
LEMMA KeptFields ==
    ASSUME Record(s, SFields), NEW r, r = Kept(s)
    PROVE  /\ Record(r, SFields) /\ r.state = s.state /\ r.stopped = s.stopped /\ r.closing = s.closing
           /\ r.write_buf = s.write_buf /\ r.pending_pong = s.pending_pong /\ r.batch = s.batch
           /\ r.control = s.control /\ r.close_after_flush = s.close_after_flush
           /\ r.flush_on_read = s.flush_on_read /\ r.read_buf = s.read_buf
           /\ r.unprocessed = s.unprocessed /\ r.parse_error = s.parse_error /\ r.ping = s.ping
           /\ r.shutdown = s.shutdown /\ r.batch_has_close = s.batch_has_close
           /\ r.pending = (IF p.parsed = NoFrame THEN s.pending ELSE <<p.parsed>>)
           /\ r.terminal = s.terminal
  BY DEF Kept, Record, SFields

\* What ProcessAll changes.
LEMMA ProcessFields ==
    ASSUME NEW st, Record(st, SFields), NEW r, r = ProcessAll(st)
    PROVE  /\ Record(r, SFields) /\ r.stopped = st.stopped /\ r.closing = st.closing
           /\ r.write_buf = st.write_buf /\ r.pending_pong = st.pending_pong
           /\ r.control = st.control /\ r.close_after_flush = st.close_after_flush
           /\ r.flush_on_read = st.flush_on_read /\ r.read_buf = <<>> /\ ~r.unprocessed
           /\ r.pending = st.pending /\ r.batch = Complete(UpTo(st.read_buf)) /\ r.ping = st.ping
           /\ r.shutdown = st.shutdown /\ r.batch_has_close = st.batch_has_close
           /\ r.terminal = st.terminal
           /\ BadAt(st.read_buf) = {} => r.state = st.state /\ r.parse_error = st.parse_error
           /\ BadAt(st.read_buf) # {} =>
                r.parse_error /\ r.state = IF st.state = "Open" THEN "ReadErrorPending" ELSE st.state
  BY DEF ProcessAll, ReadError, Record, SFields


\* Closing, and a heartbeat that has stopped, are for good.
LEMMA ClosingStays ==
    ASSUME Record(s, SFields), Steps
    PROVE  /\ s.closing => s'.closing
           /\ s.stopped => s'.stopped
           /\ s'.state = "Open" => s.state = "Open"
<1>1. CASE drain_write
  BY <1>1 DEF drain_write, Write, Record, SFields
<1>2. CASE drain_pong
  BY <1>2 DEF drain_pong, PingFlushed, Encode, Record, SFields
<1>3. CASE drain_flush
  BY <1>3 DEF drain_flush, PingFlushed, Record, SFields
<1>4. CASE drain_fails
  BY <1>4 DEF drain_fails, close_terminal, Record, SFields
<1>5. CASE poll_transport_shutdown
  BY <1>5 DEF poll_transport_shutdown, Record, SFields
<1>6. CASE compressed_transport_shutdown
  BY <1>6 DEF compressed_transport_shutdown, Record, SFields
<1>7. CASE next_flushed
  <2>1. CASE s' = finish_read_close(s)
    BY <2>1, FinishFields
  <2>2. CASE s' = Kept(s)
    BY <2>2, KeptFields
  <2>3. CASE s' = [s EXCEPT !.flush_on_read = FALSE, !.control = NoFrame]
    BY <2>3 DEF Record, SFields
  <2>4. CASE s' = [s EXCEPT !.control = NoFrame]
    BY <2>4 DEF Record, SFields
  <2> QED
    BY <1>7, <2>1, <2>2, <2>3, <2>4 DEF next_flushed, FinishRead
<1>8. CASE next_shut
  BY <1>8, FinishFields, KeptFields DEF next_shut, FinishRead, Record, SFields
<1>9. CASE next_errors
  BY <1>9 DEF next_errors, close_terminal, Record, SFields
<1>10. CASE next_deadlines
  BY <1>10 DEF next_deadlines, Encode, begin_closing, Record, SFields
<1>11. CASE next_message
  BY <1>11, ZenonT(60) DEF next_message, Taking1, Inbound, Record, SFields
<1>12. CASE next_ping
  <2> DEFINE st == IF setup.compressed THEN Taking1(s) ELSE process_buffered_after_ping(Taking1(s))
  <2>1. /\ Record(st, SFields) /\ st.closing = s.closing /\ st.stopped = s.stopped
        /\ st.state = "Open" => s.state = "Open"
    <3>1. /\ Record(Taking1(s), SFields) /\ Taking1(s).closing = s.closing
          /\ Taking1(s).stopped = s.stopped /\ Taking1(s).state = s.state
      BY DEF Taking1, Record, SFields
    <3> DEFINE a == Taking1(s)
               r == ProcessAll(a)
    <3> HIDE DEF a
    <3>2. Record(r, SFields) /\ r.closing = a.closing /\ r.stopped = a.stopped
      BY <3>1, ProcessFields DEF a
    <3>3. r.state = "Open" => a.state = "Open"
      <4>1. CASE BadAt(a.read_buf) = {}
        BY <3>1, <4>1, ProcessFields DEF a
      <4>2. CASE BadAt(a.read_buf) # {}
        <5>1. r.state = IF a.state = "Open" THEN "ReadErrorPending" ELSE a.state
          BY <3>1, <4>2, ProcessFields DEF a
        <5> QED
          BY <5>1
      <4> QED
        BY <4>1, <4>2
    <3> HIDE DEF r
    <3>4. st = IF setup.compressed \/ ~a.unprocessed THEN a ELSE r
      BY DEF process_buffered_after_ping, a, r
    <3> QED
      BY <3>1, <3>2, <3>3, <3>4 DEF a
  <2>2. \/ s' = st
        \/ s' = [st EXCEPT !.pending_pong = InHand[1].id, !.control = InHand[1], !.flush_on_read = TRUE]
    BY <1>12 DEF next_ping
  <2> HIDE DEF st
  <2> QED
    BY <2>1, <2>2 DEF Record, SFields
<1>13. CASE next_close
  BY <1>13 DEF next_close, Encode, begin_closing, Record, SFields
<1>14. CASE next_io
  BY <1>14, FinishFields DEF next_io, FinishRead, Record, SFields
<1>15. CASE next_late_shut
  BY <1>15, FinishFields DEF next_late_shut, FinishRead, Record, SFields
<1>16. CASE next_fed
  BY <1>16, FinishFields DEF next_fed, FinishRead, Record, SFields
<1>17. CASE next_read
  <2> DEFINE st == IF p.late THEN [s EXCEPT !.post_expiry = TRUE] ELSE s
  <2>1. /\ Record(st, SFields) /\ st.closing = s.closing /\ st.stopped = s.stopped
        /\ st.state = s.state
    BY DEF Record, SFields
  <2>2. \/ \E x : s' = [st EXCEPT !.read_buf = x]
        \/ s' = close_terminal(st)
        \/ s' = st
    BY <1>17 DEF next_read
  <2> HIDE DEF st
  <2> QED
    BY <2>1, <2>2 DEF close_terminal, Record, SFields
<1>18. CASE next_nodata
  BY <1>18, FinishFields DEF next_nodata, FinishRead, Record, SFields
<1>19. CASE process_read_buf
  BY <1>19 DEF process_read_buf, ReadError, Record, SFields
<1>20. CASE compressed_process_read_buf
  <2> DEFINE st == ProcessAll(s)
  <2>1. s' = [st EXCEPT !.batch_has_close = HasClose(st.batch)]
    BY <1>20 DEF compressed_process_read_buf
  <2>2. Record(st, SFields) /\ st.closing = s.closing /\ st.stopped = s.stopped
        /\ (st.state = "Open" => s.state = "Open")
    <3>1. /\ Record(st, SFields) /\ st.closing = s.closing /\ st.stopped = s.stopped
          /\ BadAt(s.read_buf) = {} => st.state = s.state
          /\ BadAt(s.read_buf) # {} => st.state = IF s.state = "Open" THEN "ReadErrorPending" ELSE s.state
      <4>1. st = ProcessAll(s)
        OBVIOUS
      <4> HIDE DEF st
      <4> QED
        BY <4>1, ProcessFields
    <3> HIDE DEF st
    <3> QED
      BY <3>1
  <2> HIDE DEF st
  <2> QED
    BY <2>1, <2>2 DEF Record, SFields
<1>21. CASE poll_ready
  BY <1>21 DEF poll_ready, needs_drain_before_send, Record, SFields
<1>22. CASE sink_done
  BY <1>22, FinishFields DEF sink_done, Record, SFields
<1>23. CASE \E item \in setup.items : start_send(item)
  BY <1>23, ZenonT(60) DEF start_send, begin_closing, Record, SFields
<1>24. CASE poll_close_ended
  <2>1. CASE s' = finish_read_close(s)
    BY <2>1, FinishFields
  <2>2. CASE s' = begin_closing(s)
    BY <2>2 DEF begin_closing, Record, SFields
  <2> QED
    BY <1>24, <2>1, <2>2 DEF poll_close_ended
<1>25. CASE poll_close
  BY <1>25 DEF poll_close, begin_closing, close, Encode, Record, SFields
<1>26. CASE poll_close_flushed
  BY <1>26, FinishFields DEF poll_close_flushed, Record, SFields
<1>27. CASE poll_close_shut
  BY <1>27, FinishFields DEF poll_close_shut, Record, SFields
<1>28. CASE close
  BY <1>28 DEF close, Encode, begin_closing, Record, SFields
<1>29. CASE close_write
  <2>1. s' = s \/ \E x, y : s' = [s EXCEPT !.shutdown = x] \/ s' = [s EXCEPT !.write_buf = y]
    BY <1>29 DEF close_write, Write
  <2> QED
    BY <2>1 DEF Record, SFields
<1>30. CASE close_shutdown
  BY <1>30 DEF close_shutdown, Record, SFields
<1>31. CASE close_fails
  BY <1>31, FinishFields DEF close_fails, Record, SFields
<1>32. CASE UNCHANGED s
  BY <1>32
<1> QED
  BY <1>1, <1>2, <1>3, <1>4, <1>5, <1>6, <1>7, <1>8, <1>9, <1>10, <1>11, <1>12, <1>13, <1>14,
     <1>15, <1>16, <1>17, <1>18, <1>19, <1>20, <1>21, <1>22, <1>23, <1>24, <1>25, <1>26, <1>27,
     <1>28, <1>29, <1>30, <1>31, <1>32
  DEF Steps, reactor_takes_stream, reactor_wakes, poll, handover, poll_registers, drain_blocked,
      next_top, next_buffered, poll_flush, close_cancelled, peer_sends, becomes_writable,
      breaks, time_passes, timer_fires

-----------------------------------------------------------------------------
(* What the steps of a poll do to the wakers *)

Base == setup \in Setups /\ Shapes /\ Places /\ ClosingInv /\ Wakers

\* The poll goes on, returns, ends the stream or sleeps.
Passes == Goes /\ p'.pc \in {"register", "top", "errors", "process", "read"} /\ Turned(w')
Leaves == \E wk : Turned(wk) /\ Return(wk)
Ends == \E wk : Turned(wk) /\ Return(TerminalWakes(wk))
Dozes ==
    /\ \E wk : Turned(wk) /\ Pending(wk)
    /\ Registered /\ (Sinking => "write" \in net.interest)
    /\ Reading => net'.interest # {} /\ (~s'.closing => "read" \in net'.interest) /\ Timed'
Outcome == Passes \/ Leaves \/ Ends \/ Dozes

\* Whatever the outcome, no wakeup is lost.
LEMMA Outcomes ==
    ASSUME Base, PollAt(p), Polled, Quiet, Sinking => Timely, Outcome
    PROVE  Places' /\ WShape(w') /\ Wakers'
<1>0. WShape(w) /\ Wakers
  BY DEF Base, Shapes
<1>1. CASE Passes
  <2>1. ~Registered' /\ p'.pc \notin Waits /\ p'.pc # "nodata"
    BY <1>1 DEF Passes, Registered, Waits
  <2>2. WShape(w') /\ Wakers'
    BY <1>0, <1>1, <2>1, WakersGo DEF Passes
  <2> QED
    BY <1>1, <2>2 DEF Passes, Goes, Places
<1>2. CASE Leaves
  <2>1. PICK wk : Turned(wk) /\ Return(wk)
    BY <1>2 DEF Leaves
  <2>2. WShape(w') /\ Wakers'
    BY <1>0, <2>1, WakersReturn
  <2> QED
    BY <2>1, <2>2 DEF Return, Places
<1>3. CASE Ends
  <2>1. PICK wk : Turned(wk) /\ Return(TerminalWakes(wk))
    BY <1>3 DEF Ends
  <2>2. WShape(wk) /\ SameSlots(wk)
    BY <1>0, <2>1, TurnedSlots
  <2>3. \A h \in Half : wk.armed[h] => wk.waker[h] = wk.registered[h]
    BY <1>0, <2>2 DEF SameSlots, Wakers, SlotInv
  <2>4. WShape(w') /\ Wakers'
    BY <1>0, <2>1, <2>2, <2>3, WakersEnd DEF SameSlots, Quiet
  <2> QED
    BY <2>1, <2>4 DEF Return, Places
<1>4. CASE Dozes
  <2>1. PICK wk : Turned(wk) /\ Pending(wk)
    BY <1>4 DEF Dozes
  <2>2. WShape(w') /\ Wakers'
    BY <1>0, <1>4, <2>1, WakersSleep DEF Dozes
  <2> QED
    BY <2>1, <2>2 DEF Pending, Places
<1> QED
  BY <1>1, <1>2, <1>3, <1>4 DEF Outcome

\* Jumps and calls pass.
LEMMA JumpPasses ==
    ASSUME PollAt(p), NEW x \in {"top", "errors", "process", "read"}, x \in PlacesOf(p.op) \ Waits,
           \/ p' = Jump(x)
           \/ \E d : p' = [Jump(x) EXCEPT !.expired = d]
           \/ Reading /\ \E f : p' = [Jump(x) EXCEPT !.parsed = f],
           Turned(w')
    PROVE  Passes
<1>1. CASE p' = Jump(x)
  BY <1>1, JumpAt DEF Passes, Goes, SamePoll
<1>2. CASE \E d : p' = [Jump(x) EXCEPT !.expired = d]
  <2>1. PICK d : p' = [Jump(x) EXCEPT !.expired = d]
    BY <1>2
  <2>2. NotedPoll(p', x)
    BY <2>1, JumpExpired
  <2> QED
    BY <2>2 DEF Passes, Goes, NotedPoll
<1>3. CASE Reading /\ \E f : p' = [Jump(x) EXCEPT !.parsed = f]
  <2>1. PICK f : p' = [Jump(x) EXCEPT !.parsed = f]
    BY <1>3
  <2>2. NotedPoll(p', x)
    BY <1>3, <2>1, JumpParsed
  <2> QED
    BY <2>2 DEF Passes, Goes, NotedPoll
<1> QED
  BY <1>1, <1>2, <1>3

\* Call.
LEMMA CallPasses ==
    ASSUME PollAt(p), NEW call \in {"drain", "shutdown"}, NEW ret \in Returns(p.op), Call(call, ret),
           Turned(w')
    PROVE  Passes
  BY CallAt DEF Passes, Goes, SamePoll

\* poll_next ends the stream.
LEMMA FinishReadEnds ==
    ASSUME NEW st, NEW wk, NEW r, FinishRead(st, wk, r), Turned(wk)
    PROVE  Ends
  BY DEF FinishRead, Ends

\* A reader that found no deadline due sleeps with the next one on its timer.
LEMMA ReaderTimed ==
    ASSUME UNCHANGED <<s, due>>, next_deadline(s) \notin due,
           next_deadline(s) # "none" => w'.timer = next_deadline(s)
    PROVE  Timed'
  BY DEF Timed, Covered, next_deadline, next_hard_deadline, Primary
\* Once the heartbeat has stopped there is no deadline.
LEMMA StoppedTimed ==
    ASSUME s'.stopped
    PROVE  Timed'
  BY DEF Timed, Covered, next_deadline

\* The places of poll_next.
LEMMA NextPlaces ==
    /\ {"top", "errors", "process", "read", "nodata"} \subseteq PlacesOf("next") \ Waits
    /\ {"flushed", "shut", "fed", "lateShut"} \subseteq Returns("next")
    /\ "done" \in Returns("ready") /\ "done" \in Returns("flush")
    /\ {"closeFlushed", "closeShut"} \subseteq Returns("close")
  BY DEF PlacesOf, Returns, Waits

\* The step of the poll of a half.
LEMMA ReaderAt ==
    ASSUME Base, NEW x \in {"top", "errors", "process", "read", "nodata", "flushed", "shut", "fed",
                            "lateShut"}, At(x)
    PROVE  /\ PollAt(p) /\ Polled /\ Reading /\ ~Sinking /\ p.op = "next" /\ p.half = "Stream"
           /\ p.pc = x /\ Towards = x
           /\ Turned(w) /\ Turned(ClosingPolled(w)) /\ Turned(ClosingTimer(w))
           /\ \A d : Turned(TimerPolled(ClosingPolled(w), d))
           /\ \A t : Turned([w EXCEPT !.timer = t])
<1>1. p.op # "none" /\ p.pc \notin {"write", "end"} /\ Places /\ WShape(w)
  BY DEF At, Base, Shapes
<1> QED
  BY <1>1, PollSteps, TimersTurn DEF At, Reading, Sinking

\* Of the Sink half.
LEMMA SinkAt ==
    ASSUME Base, NEW x \in {"start", "done", "closeFlushed", "closeShut"}, At(x)
    PROVE  /\ PollAt(p) /\ Polled /\ Sinking /\ ~Reading /\ p.op # "next" /\ p.half = "Sink"
           /\ p.pc = x /\ Towards = x
           /\ Turned(w) /\ Turned(ClosingPolled(w)) /\ Turned(ClosingTimer(w))
<1>1. p.op # "none" /\ p.pc \notin {"write", "end"} /\ Places /\ WShape(w)
  BY DEF At, Base, Shapes
<1> QED
  BY <1>1, PollSteps, TimersTurn DEF At, Reading, Sinking, Polled

\* A reader that waits for its output sleeps.
LEMMA ReaderDozes ==
    ASSUME Base, PollAt(p), Polled, Reading, NEW wk, Turned(wk), Pending(wk), p.res = "pending",
           p.pc \in Waits, net' = net, s'.closing, s'.stopped
    PROVE  Dozes
<1>1. "write" \in net.interest
  BY DEF Base, Wakers, PollWakers
<1> QED
  BY <1>1, StoppedTimed DEF Dozes, Registered, Sinking, Reading

\* The steps of poll_next that flush.
LEMMA FlushingOutcome ==
    ASSUME Base, next_top \/ next_flushed \/ next_shut
    PROVE  Outcome /\ net' = net /\ PollAt(p) /\ Polled /\ ~Sinking
<1> USE NextPlaces
<1>0. Record(s, SFields) /\ ClosingInv
  BY DEF Base, Shapes
<1>1. net' = net /\ (At("top") \/ At("flushed") \/ At("shut"))
  BY DEF next_top, next_flushed, next_shut
<1>2. /\ PollAt(p) /\ Polled /\ Reading /\ ~Sinking /\ p.op = "next" /\ Turned(w) /\ Turned(ClosingPolled(w))
      /\ (\A d : Turned(TimerPolled(ClosingPolled(w), d))) /\ Towards = p.pc
  BY <1>1, ReaderAt
<1> SUFFICES Outcome
  BY <1>1, <1>2
<1>3. CASE Leaves \/ Ends \/ Dozes
  BY <1>3 DEF Outcome
<1>4. CASE \E wk : Return(wk) /\ Turned(wk)
  BY <1>3, <1>4 DEF Leaves
<1>5. CASE \E r : FinishRead(s, w, r)
  BY <1>2, <1>3, <1>5, FinishReadEnds
<1>6. CASE Turned(w') /\ (Call("drain", "flushed") \/ Call("shutdown", "shut"))
  BY <1>2, <1>6, CallPasses DEF Outcome
<1>7. CASE Turned(w') /\ (Goto("errors") \/ \E d : p' = [Jump("top") EXCEPT !.expired = d])
  BY <1>2, <1>7, JumpPasses DEF Outcome, Goto
<1>8. CASE /\ p.res = "pending" /\ p.pc \in {"flushed", "shut"} /\ s.closing /\ s' = Kept(s)
           /\ \E wk : Turned(wk) /\ Pending(wk)
  <2>1. s'.closing /\ s'.stopped
    BY <1>0, <1>8, KeptFields DEF ClosingInv, ClosingFields
  <2> QED
    BY <1>1, <1>2, <1>3, <1>8, <2>1, ReaderDozes DEF Waits
<1>9. CASE next_top
  BY <1>2, <1>4, <1>6, <1>7, <1>9 DEF next_top
<1>10. CASE next_flushed
  BY <1>2, <1>4, <1>5, <1>6, <1>7, <1>8, <1>10 DEF next_flushed, At
<1>11. CASE next_shut
  BY <1>0, <1>2, <1>5, <1>8, <1>11 DEF next_shut, At, ClosingInv, Ending, Reading, Towards
<1> QED
  BY <1>9, <1>10, <1>11

\* The steps of poll_next that deliver.
LEMMA DeliveringOutcome ==
    ASSUME Base, \/ next_errors \/ next_deadlines \/ next_message \/ next_ping \/ next_close
                 \/ next_buffered
    PROVE  Outcome /\ net' = net /\ PollAt(p) /\ Polled /\ ~Sinking
<1> USE NextPlaces
<1>1. net' = net /\ At("errors")
  BY DEF next_errors, next_deadlines, next_message, next_ping, next_close, next_buffered, Delivering
<1>2. /\ PollAt(p) /\ Polled /\ Reading /\ ~Sinking /\ p.op = "next" /\ Turned(w)
      /\ Turned(ClosingPolled(w)) /\ Turned(ClosingTimer(w)) /\ \A t : Turned([w EXCEPT !.timer = t])
  BY <1>1, ReaderAt
<1> SUFFICES Outcome
  BY <1>1, <1>2
<1>3. CASE \E wk : Return(wk) /\ Turned(wk)
  BY <1>3 DEF Outcome, Leaves
<1>4. CASE Return(TerminalWakes(w))
  BY <1>2, <1>4 DEF Outcome, Ends
<1>5. CASE /\ Turned(w')
           /\ \/ \E d : p' = [Jump("top") EXCEPT !.expired = d]
              \/ \E f : p' = [Jump("top") EXCEPT !.parsed = f]
  BY <1>2, <1>5, JumpPasses DEF Outcome
<1>6. CASE next_errors
  BY <1>4, <1>6 DEF next_errors
<1>7. CASE next_deadlines
  BY <1>2, <1>5, <1>7 DEF next_deadlines
<1>8. CASE next_message
  BY <1>2, <1>3, <1>8 DEF next_message
<1>9. CASE next_ping
  BY <1>2, <1>3, <1>5, <1>9 DEF next_ping
<1>10. CASE next_close
  BY <1>2, <1>5, <1>10 DEF next_close
<1>11. CASE next_buffered
  BY <1>2, <1>11, BufferedAt DEF next_buffered, Outcome, Passes, Goes, SamePoll
<1> QED
  BY <1>6, <1>7, <1>8, <1>9, <1>10, <1>11

\* The steps of poll_next that read, but for the read itself.
LEMMA ReadingOutcome ==
    ASSUME Base, ReadInv, \/ next_io \/ next_late_shut \/ next_fed \/ next_nodata
                          \/ process_read_buf \/ compressed_process_read_buf
    PROVE  Outcome /\ net' = net /\ PollAt(p) /\ Polled /\ ~Sinking
<1> USE NextPlaces
<1>0. Record(s, SFields) /\ WShape(w) /\ ClosingInv
  BY DEF Base, Shapes
<1>1. net' = net /\ (At("errors") \/ At("lateShut") \/ At("fed") \/ At("nodata") \/ At("process"))
  BY DEF next_io, next_late_shut, next_fed, next_nodata, process_read_buf,
         compressed_process_read_buf, Delivering
<1>2. /\ PollAt(p) /\ Polled /\ Reading /\ ~Sinking /\ p.op = "next" /\ Turned(w)
      /\ Turned(ClosingPolled(w)) /\ (\A d : Turned(TimerPolled(ClosingPolled(w), d))) /\ Towards = p.pc
  BY <1>1, ReaderAt
<1> SUFFICES Outcome
  BY <1>1, <1>2
<1>3. CASE \E wk : Return(wk) /\ Turned(wk)
  BY <1>3 DEF Outcome, Leaves
<1>4. CASE \E r : FinishRead(s, w, r)
  BY <1>2, <1>4, FinishReadEnds DEF Outcome
<1>5. CASE /\ Turned(w')
           /\ \/ Goto("read") \/ Goto("top") \/ Goto("errors")
              \/ \E d : p' = [Jump("top") EXCEPT !.expired = d]
              \/ \E f : p' = [Jump("top") EXCEPT !.parsed = f]
  BY <1>2, <1>5, JumpPasses DEF Outcome, Goto
<1>6. CASE next_io
  <2>1. ASSUME NEW call, NEW ret, \/ call = "read"
                                  \/ call \in {"drain", "shutdown"} /\ ret \in Returns("next"),
               p' = [p EXCEPT !.pc = IF call = "read" THEN "read" ELSE "register",
                              !.call = call, !.ret = ret, !.buffered = FALSE, !.late = Expired],
               w' = ClosingPolled(w)
        PROVE  Outcome
    <3>1. PollAt(p') /\ SamePoll(p') /\ p'.pc \in {"read", "register"}
      <4> DEFINE late == Expired
      <4> HIDE DEF late
      <4>1. p' = [p EXCEPT !.pc = IF call = "read" THEN "read" ELSE "register",
                           !.call = call, !.ret = ret, !.buffered = FALSE, !.late = late]
        BY <2>1 DEF late
      <4>2. PollAt(p') /\ SamePoll(p') /\ p'.pc = (IF call = "read" THEN "read" ELSE "register")
        BY <1>2, <2>1, <4>1, ReadAt
      <4> QED
        BY <4>2
    <3> QED
      BY <1>2, <2>1, <3>1 DEF Outcome, Passes, Goes, SamePoll
  <2>2. "lateShut" \in Returns("next") /\ "fed" \in Returns("next")
    OBVIOUS
  <2>3. CASE FinishRead(s, w, "error")
    BY <1>4, <2>3
  <2>4. CASE /\ p' = [p EXCEPT !.pc = IF "shutdown" = "read" THEN "read" ELSE "register",
                              !.call = "shutdown", !.ret = "lateShut", !.buffered = FALSE, !.late = Expired]
             /\ w' = ClosingPolled(w)
    BY <2>1, <2>2, <2>4
  <2>5. CASE /\ p' = [p EXCEPT !.pc = IF "drain" = "read" THEN "read" ELSE "register",
                              !.call = "drain", !.ret = "fed", !.buffered = FALSE, !.late = Expired]
             /\ w' = ClosingPolled(w)
    BY <2>1, <2>2, <2>5
  <2>6. CASE /\ p' = [p EXCEPT !.pc = IF "read" = "read" THEN "read" ELSE "register",
                              !.call = "read", !.ret = "none", !.buffered = FALSE, !.late = Expired]
             /\ w' = ClosingPolled(w)
    BY <2>1, <2>6
  <2> QED
    BY <1>6, <2>3, <2>4, <2>5, <2>6 DEF next_io
<1>7. CASE next_late_shut
  BY <1>4, <1>7 DEF next_late_shut
<1>8. CASE next_fed
  <2>1. CASE /\ p.res = "pending" /\ s.closing /\ s' = s /\ p.pc = "fed"
             /\ \E wk : Turned(wk) /\ Pending(wk)
    BY <1>0, <1>1, <1>2, <2>1, ReaderDozes DEF Waits, ClosingInv, ClosingFields, Outcome
  <2> QED
    BY <1>2, <1>3, <1>4, <1>5, <1>8, <2>1 DEF next_fed, At
<1>9. CASE next_nodata
  <2> DEFINE deadline == IF s.parse_error THEN "none" ELSE next_deadline(s)
             wk == TimerPolled(ClosingPolled(w), deadline)
  <2>1. CASE Pending(wk) /\ deadline \notin due /\ UNCHANGED <<s, due>>
    <3>1. "read" \in net.interest /\ Registered
      BY <1>2, <1>9 DEF Base, Wakers, PollWakers, Registered, next_nodata, At
    <3>2. Timed'
      <4>1. CASE s.stopped
        BY <2>1, <4>1, StoppedTimed
      <4>2. CASE ~s.stopped
        <5>1. ~s.parse_error /\ ~s.closing
          BY <1>0, <1>2, <1>9, <4>2 DEF ReadInv, ReaderInv, ClosingInv, ClosingFields, Live, next_nodata, At
        <5>2. deadline = next_deadline(s) /\ wk = TimerPolled(w, deadline)
          BY <5>1 DEF ClosingPolled
        <5>3. deadline # "none" => wk.timer = deadline
          BY <1>0, <5>2 DEF TimerPolled, WShape, Record, WFields
        <5>4. Record(wk, WFields)
          BY <1>0, <1>2, TurnedSlots DEF WShape
        <5> HIDE DEF wk
        <5>5. w'.timer = wk.timer
          BY <2>1, <5>4 DEF Pending, Record, WFields
        <5> QED
          BY <2>1, <5>2, <5>3, <5>5, ReaderTimed
      <4> QED
        BY <4>1, <4>2
    <3> QED
      BY <1>1, <1>2, <2>1, <3>1, <3>2 DEF Outcome, Dozes, Sinking
  <2>2. CASE p' = [Jump("top") EXCEPT !.expired = deadline] /\ w' = wk
    BY <1>2, <1>5, <2>2
  <2> QED
    BY <1>4, <1>9, <2>1, <2>2 DEF next_nodata
<1>10. CASE process_read_buf
  BY <1>2, <1>5, <1>10 DEF process_read_buf
<1>11. CASE compressed_process_read_buf
  BY <1>2, <1>5, <1>11 DEF compressed_process_read_buf
<1> QED
  BY <1>6, <1>7, <1>8, <1>9, <1>10, <1>11

\* The steps of the Sink half's polls.
LEMMA SinkOutcome ==
    ASSUME Base, \/ poll_ready \/ sink_done \/ poll_flush \/ poll_close_ended \/ poll_close
                 \/ poll_close_flushed \/ poll_close_shut
    PROVE  Outcome /\ net' = net /\ PollAt(p) /\ Polled /\ Timely
<1> USE NextPlaces
<1>0. Record(s, SFields) /\ WShape(w) /\ ClosingInv
  BY DEF Base, Shapes
<1>1. net' = net /\ due' = due /\ (At("start") \/ At("done") \/ At("closeFlushed") \/ At("closeShut"))
  BY DEF poll_ready, sink_done, poll_flush, poll_close_ended, poll_close, poll_close_flushed,
         poll_close_shut
<1>2. /\ PollAt(p) /\ Polled /\ Sinking /\ ~Reading /\ Turned(w) /\ Turned(ClosingPolled(w))
      /\ Turned(ClosingTimer(w)) /\ Towards = p.pc
  BY <1>1, SinkAt
<1>3. ASSUME s' = finish_read_close(s), Return(TerminalWakes(w))
      PROVE  Outcome /\ Timely
  <2>1. s'.stopped
    BY <1>0, <1>3, FinishFields
  <2> QED
    BY <1>2, <1>3, <2>1 DEF Outcome, Ends, Timely
<1>4. ASSUME s' = s, Return(w)
      PROVE  Outcome /\ Timely
  <2>1. w'.timer = w.timer
    BY <1>0, <1>4 DEF Return, WShape, Record, WFields
  <2> QED
    BY <1>1, <1>2, <1>4, <2>1 DEF Outcome, Leaves, Timely
<1>5. ASSUME s' = s, p.pc \in Waits, p.res = "pending",
             Pending(ClosingPolled(w)) \/ Pending(w)
      PROVE  Outcome /\ Timely
  <2>1. Registered /\ "write" \in net.interest
    BY <1>2, <1>5 DEF Registered, Base, Wakers, PollWakers
  <2>2. Timely
    <3>1. CASE s.closing
      BY <1>0, <1>5, <3>1 DEF Timely, ClosingInv, ClosingFields
    <3>2. CASE ~s.closing
      <4>1. w'.timer = w.timer
        BY <1>0, <1>5, <3>2 DEF Pending, ClosingPolled, WShape, Record, WFields
      <4> QED
        BY <1>1, <1>5, <4>1 DEF Timely
    <3> QED
      BY <3>1, <3>2
  <2> QED
    BY <1>2, <1>5, <2>1, <2>2 DEF Outcome, Dozes
<1>6. ASSUME NEW call \in {"drain", "shutdown"}, NEW ret \in Returns(p.op), Call(call, ret), Turned(w'),
             s'.stopped \/ (w' = w /\ s'.stopped = s.stopped /\ s'.ping = s.ping)
      PROVE  Outcome /\ Timely
  BY <1>1, <1>2, <1>6, CallPasses DEF Outcome, Timely
<1>7. CASE poll_ready
  <2>1. s' = s \/ s' = [s EXCEPT !.ready_flush = TRUE]
    BY <1>7 DEF poll_ready
  <2>2. s'.stopped = s.stopped /\ s'.ping = s.ping
    BY <1>0, <2>1 DEF Record, SFields
  <2>3. (s' = s /\ Return(w)) \/ (Call("drain", "done") /\ w' = w /\ p.op = "ready")
    BY <1>7 DEF poll_ready
  <2> QED
    BY <1>1, <1>2, <1>4, <1>6, <2>2, <2>3
<1>8. CASE sink_done
  <2>1. \/ s' = s /\ Return(w)
        \/ p.res = "pending" /\ s' = finish_read_close(s) /\ Return(TerminalWakes(w))
        \/ p.res = "pending" /\ s' = s /\ (Pending(ClosingPolled(w)) \/ Pending(w))
    BY <1>8 DEF sink_done
  <2>2. p.pc = "done"
    BY <1>8 DEF sink_done, At
  <2> QED
    BY <1>1, <1>2, <1>3, <1>4, <1>5, <2>1, <2>2 DEF Waits
<1>9. CASE poll_flush
  BY <1>1, <1>2, <1>4, <1>6, <1>9 DEF poll_flush
<1>10. CASE poll_close_ended
  <2>1. s' = begin_closing(s) => s'.stopped
    BY <1>0 DEF begin_closing, Record, SFields
  <2> QED
    BY <1>1, <1>2, <1>3, <1>6, <1>10, <2>1 DEF poll_close_ended
<1>11. CASE poll_close
  <2>1. s'.stopped
    BY <1>0, <1>11 DEF poll_close, begin_closing, Encode, Record, SFields
  <2> QED
    BY <1>1, <1>2, <1>6, <1>11, <2>1 DEF poll_close
<1>12. CASE poll_close_flushed
  <2>1. p.op = "close" /\ p.res \in {"ready", "err", "pending"}
    BY <1>1, <1>2, <1>12 DEF poll_close_flushed, At, PollAt, Bound, PlacesOf, Waits
  <2>2. p.pc = "closeFlushed"
    BY <1>12 DEF poll_close_flushed, At
  <2> QED
    BY <1>1, <1>2, <1>3, <1>5, <1>6, <1>12, <2>1, <2>2 DEF poll_close_flushed, Waits
<1>13. CASE poll_close_shut
  BY <1>1, <1>2, <1>3, <1>5, <1>13 DEF poll_close_shut, At, Waits
<1> QED
  BY <1>1, <1>2, <1>7, <1>8, <1>9, <1>10, <1>11, <1>12, <1>13

-----------------------------------------------------------------------------
(* What the calls to the transport do to the wakers *)

\* A step of a poll at a call of the transport.
LEMMA CallingAt ==
    ASSUME Base, p.op # "none", p.pc \in {"register", "drain", "shutdown"}
    PROVE  /\ PollAt(p) /\ Polled /\ p.half \in Half /\ p.ret \in Returns(p.op) /\ Towards = p.ret
           /\ (Sinking <=> ~Reading) /\ (p.half = "Sink" <=> Sinking) /\ (p.half = "Stream" <=> Reading)
<1>1. PollAt(p) /\ Polled
  BY PollSteps DEF Base
<1> QED
  BY <1>1 DEF PollAt, Half, Polled, Reading, Sinking, Towards, Bound

\* A half is registered before each call.
LEMMA RegisterStep ==
    ASSUME Base, poll_registers
    PROVE  Places' /\ WShape(w') /\ Wakers'
<1>1. /\ p.op # "none" /\ p.pc = "register" /\ w' \in register(w, p.half) /\ s' = s /\ net' = net
      /\ due' = due /\ p' = [p EXCEPT !.pc = p.call, !.call = "none"]
  BY DEF poll_registers
<1>2. WShape(w) /\ Wakers /\ PollAt(p) /\ Polled
  BY <1>1, CallingAt DEF Base, Shapes
<1>3. RegisterDone(w')
  BY <1>1, <1>2, Registers
<1>4. PollAt(p') /\ SamePoll(p') /\ p'.pc = p.call /\ p.call \in {"drain", "shutdown"}
  BY <1>1, <1>2, RegisterAt DEF PollAt
<1>5. Quiet /\ Timely /\ Goes
  BY <1>1, <1>3, <1>4 DEF Quiet, Timely, Goes, SamePoll, RegisterDone
<1>6. p'.pc \notin Waits /\ p'.pc # "nodata"
  BY <1>4 DEF Waits
<1>7. Wakers'
  BY <1>2, <1>3, <1>5, <1>6, WakersRegister
<1> QED
  BY <1>3, <1>4, <1>7 DEF Places, RegisterDone

\* poll_read registers and reads.
LEMMA ReadStep ==
    ASSUME Base, Steps, next_read
    PROVE  Places' /\ WShape(w') /\ Wakers'
<1>0. Record(s, SFields) /\ Record(net, NetFields) /\ WShape(w) /\ Wakers
  BY DEF Base, Shapes
<1>1. At("read") /\ due' = due
  BY DEF next_read
<1>2. PollAt(p) /\ Polled /\ Reading /\ ~Sinking /\ p.op = "next" /\ p.half = "Stream"
  BY <1>1, ReaderAt
<1>3. PICK wk \in register(w, p.half) :
        \/ \E n : /\ net' = [net EXCEPT !.read = @ + n] /\ Goto("process") /\ w' = wk
        \/ Return(TerminalWakes(wk)) /\ net' = net
        \/ net' = [net EXCEPT !.interest = @ \cup {"read"}] /\ Goto("nodata") /\ w' = wk
  BY <1>2 DEF next_read
<1>4. RegisterDone(wk)
  BY <1>0, <1>2, <1>3, Registers
<1>5. /\ net'.waking = net.waking /\ net'.taken = net.taken /\ net.interest \subseteq net'.interest
  BY <1>0, <1>3 DEF Record, NetFields
<1>6. Quiet
  BY <1>0, <1>5, ClosingStays DEF Quiet
<1>7. CASE Return(TerminalWakes(wk))
  <2>1. WShape(w') /\ Wakers'
    BY <1>0, <1>2, <1>4, <1>6, <1>7, WakersEnd DEF RegisterDone, Quiet
  <2> QED
    BY <1>7, <2>1 DEF Return, Places
<1>8. CASE w' = wk /\ Goto("process")
  <2>1. PollAt(p') /\ SamePoll(p') /\ p'.pc = "process"
    BY <1>2, <1>8, JumpAt, NextPlaces DEF Goto
  <2>2. Wakers'
    BY <1>0, <1>2, <1>4, <1>6, <1>8, <2>1, WakersRegister DEF Goes, SamePoll, Waits
  <2> QED
    BY <1>4, <1>8, <2>1, <2>2 DEF Places, RegisterDone
<1>9. CASE w' = wk /\ Goto("nodata") /\ net' = [net EXCEPT !.interest = @ \cup {"read"}]
  <2>1. PollAt(p') /\ SamePoll(p') /\ p'.pc = "nodata"
    BY <1>2, <1>9, JumpAt, NextPlaces DEF Goto
  <2>2. "read" \in net'.interest
    BY <1>0, <1>9 DEF Record, NetFields
  <2>3. Wakers'
    BY <1>0, <1>2, <1>4, <1>6, <1>9, <2>1, <2>2, WakersRegister DEF Goes, SamePoll, Waits
  <2> QED
    BY <1>4, <1>9, <2>1, <2>3 DEF Places, RegisterDone
<1> QED
  BY <1>3, <1>7, <1>8, <1>9

\* The result of the call that wrote, or that must wait.
LEMMA DrainStep ==
    ASSUME Base, Steps, drain_write \/ drain_blocked
    PROVE  Places' /\ WShape(w') /\ Wakers'
<1>0. Record(s, SFields) /\ Record(net, NetFields) /\ WShape(w) /\ Wakers
  BY DEF Base, Shapes
<1>1. p.op # "none" /\ p.pc = "drain" /\ w' = w /\ due' = due
  BY DEF drain_write, drain_blocked, At
<1>2. PollAt(p) /\ Polled /\ Turned(w')
  BY <1>0, <1>1, CallingAt, TimersTurn
<1>3. /\ net'.waking = net.waking /\ net'.taken = net.taken /\ net.interest \subseteq net'.interest
  BY <1>0 DEF drain_write, drain_blocked, Write, Record, NetFields
<1>4. s'.stopped = s.stopped /\ s'.ping = s.ping
  BY <1>0 DEF drain_write, drain_blocked, Write, Record, SFields
<1>5. Quiet /\ Timely
  BY <1>0, <1>1, <1>3, <1>4, ClosingStays DEF Quiet, Timely
<1>6. CASE drain_write
  <2>1. p' = p
    BY <1>6 DEF drain_write
  <2>2. WShape(w') /\ Wakers'
    BY <1>0, <1>1, <1>2, <1>5, <2>1, WakersGo DEF Goes, Registered, Waits
  <2> QED
    BY <1>2, <2>1, <2>2 DEF Places
<1>7. CASE drain_blocked
  <2>1. PollAt(p') /\ SamePoll(p') /\ p'.pc = p.ret
    BY <1>1, <1>2, <1>7, ResultAt DEF drain_blocked
  <2>2. "write" \in net'.interest
    BY <1>0, <1>7 DEF drain_blocked, Record, NetFields
  <2>3. p.ret # "nodata" /\ Registered
    BY <1>1, <1>2 DEF PollAt, Returns, PlacesOf, Waits, Registered
  <2>4. WShape(w') /\ Wakers'
    BY <1>0, <1>2, <1>5, <2>1, <2>2, <2>3, WakersGo DEF Goes, SamePoll
  <2> QED
    BY <2>1, <2>4 DEF Places
<1> QED
  BY <1>6, <1>7

\* The transport is shut down.
LEMMA ShutdownStep ==
    ASSUME Base, Steps, poll_transport_shutdown \/ compressed_transport_shutdown
    PROVE  Places' /\ WShape(w') /\ Wakers'
<1>0. Record(s, SFields) /\ Record(net, NetFields) /\ WShape(w) /\ Wakers
  BY DEF Base, Shapes
<1>1. p.op # "none" /\ p.pc = "shutdown" /\ due' = due
  BY DEF poll_transport_shutdown, compressed_transport_shutdown, At
<1>2. PollAt(p) /\ Polled /\ p.half \in Half
  BY <1>1, CallingAt
<1>3. /\ net'.waking = net.waking /\ net'.taken = net.taken /\ net.interest \subseteq net'.interest
  BY <1>0 DEF poll_transport_shutdown, compressed_transport_shutdown, Record, NetFields
<1>4. s'.stopped = s.stopped /\ s'.ping = s.ping
  BY <1>0 DEF poll_transport_shutdown, compressed_transport_shutdown, Record, SFields
<1>5. s.closing => s'.closing
  BY <1>0, ClosingStays
<1>6. CASE \E res \in {"err", "ready"} : w' = Settled(w, p.half) /\ Result(res)
  <2>1. PICK res \in {"err", "ready"} : w' = Settled(w, p.half) /\ Result(res)
    BY <1>6
  <2>2. PollAt(p') /\ SamePoll(p') /\ p'.pc = p.ret /\ p'.res = res /\ p.ret \in Returns(p.op)
    BY <1>1, <1>2, <2>1, ResultAt
  <2>3. ~Registered'
    BY <2>1, <2>2 DEF Registered, Returns, PlacesOf, Waits
  <2>4. /\ WShape(w') /\ w'.asleep = w.asleep /\ w'.registered = w.registered
        /\ w'.timer = w.timer /\ w'.woken = w.woken /\ w'.armed = w.armed
        /\ w'.waker = w.waker /\ \A h \in Half \ {p.half} : w'.waiting[h] = w.waiting[h]
    BY <1>0, <2>1, Settles
  <2>5. Timely
    BY <1>1, <1>4, <2>4 DEF Timely
  <2>6. Wakers'
    BY <1>0, <1>2, <1>3, <1>5, <2>2, <2>3, <2>4, <2>5, WakersResult DEF Goes, SamePoll
  <2> QED
    BY <2>2, <2>4, <2>6 DEF Places
<1>7. CASE w' = w /\ Result("pending") /\ net' = [net EXCEPT !.interest = @ \cup {"write"}]
  <2>1. PollAt(p') /\ SamePoll(p') /\ p'.pc = p.ret
    BY <1>1, <1>2, <1>7, ResultAt
  <2>2. "write" \in net'.interest
    BY <1>0, <1>7 DEF Record, NetFields
  <2>3. p.ret # "nodata" /\ Registered
    BY <1>1, <1>2 DEF PollAt, Returns, PlacesOf, Waits, Registered
  <2>4. Quiet /\ Timely /\ Turned(w')
    BY <1>0, <1>1, <1>3, <1>4, <1>5, <1>7, TimersTurn DEF Quiet, Timely
  <2>5. WShape(w') /\ Wakers'
    BY <1>0, <1>2, <2>1, <2>2, <2>3, <2>4, WakersGo DEF Goes, SamePoll
  <2> QED
    BY <2>1, <2>5 DEF Places
<1> QED
  BY <1>6, <1>7 DEF poll_transport_shutdown, compressed_transport_shutdown

\* Everything is flushed: the reader that waits for the Ping to be sent is woken.
LEMMA FlushStep ==
    ASSUME Base, Steps, drain_pong \/ drain_flush
    PROVE  Places' /\ WShape(w') /\ Wakers'
<1> DEFINE wk == PingFlushWakes(w, p.half)
<1>0. Record(s, SFields) /\ WShape(w) /\ Wakers
  BY DEF Base, Shapes
<1>1. p.op # "none" /\ p.pc = "drain" /\ due' = due /\ net' = net
  BY DEF drain_pong, drain_flush, At
<1>2. PollAt(p) /\ Polled /\ p.half \in Half /\ (p.half = "Sink" <=> Sinking)
  BY <1>1, CallingAt
<1>3. s.closing => s'.closing
  BY <1>0, ClosingStays
<1>4. s'.stopped = s.stopped /\ (~s.ping_flush => s'.ping = s.ping)
  <2>1. CASE drain_pong
    BY <1>0, <2>1 DEF drain_pong, PingFlushed, Encode, Record, SFields
  <2>2. CASE drain_flush
    BY <1>0, <2>2 DEF drain_flush, PingFlushed, Record, SFields
  <2> QED
    BY <2>1, <2>2
<1>5. /\ WShape(wk) /\ wk.asleep = w.asleep /\ wk.registered = w.registered
      /\ wk.waiting = w.waiting /\ wk.timer = w.timer
      /\ w.woken \subseteq wk.woken
      /\ \A h \in Half : wk.armed[h] => w.armed[h] /\ wk.waker[h] = w.waker[h]
      /\ wk.waker[p.half] = w.waker[p.half] /\ wk.waker["Sink"] = w.waker["Sink"]
      /\ p.half = "Sink" =>
           \/ ~s.ping_flush /\ wk.waker["Stream"] = w.waker["Stream"]
           \/ (w.asleep["Stream"] # NoTask /\ w.waker["Stream"] = w.asleep["Stream"]
                 /\ w.waiting["Stream"]) => w.asleep["Stream"] \in wk.woken
  BY <1>0, <1>2, FlushWakes
<1> HIDE DEF wk
<1>6. CASE drain_pong
  <2>1. w' = wk /\ p' = p
    BY <1>6 DEF drain_pong, wk
  <2>2. \A h \in Half \ {p.half} :
             \/ /\ wk.waker[h] = w.waker[h] /\ wk.waiting[h] = w.waiting[h]
                /\ Sinking => ~s.ping_flush
             \/ w.asleep[h] # NoTask /\ w.waker[h] = w.asleep[h] /\ w.waiting[h]
                  => w.asleep[h] \in wk.woken
    BY <1>2, <1>5 DEF Half
  <2>3. \A t : Called(t) => Called(t)'
    BY <1>1, <1>5, <2>1 DEF Called
  <2>4. PollWakers'
    BY <1>0, <1>1, <1>5, <2>1, <2>3 DEF Wakers, PollWakers, Polled, Reading, Sinking, Registered
  <2>5. SlotInv'
    BY <1>0, <1>1, <1>5, <2>1 DEF Wakers, SlotInv
  <2>6. SleepInv'
    <3>1. w'.asleep[p.half] = NoTask
      BY <1>0, <1>2, <1>5, <2>1 DEF Wakers, PollWakers
    <3>2. ASSUME NEW h \in Half, h # p.half
          PROVE  w'.asleep[h] # NoTask /\ ~Called(w.asleep[h])' =>
               /\ w'.waker[h] = w'.asleep[h] /\ w'.waiting[h]
               /\ net'.waking \notin {"Stream", h} =>
                    IF h = "Sink" THEN "write" \in net'.interest
                    ELSE /\ net'.interest # {} /\ (~s'.closing => "read" \in net'.interest)
                         /\ Timed'
      <4>1. CASE /\ wk.waker[h] = w.waker[h] /\ wk.waiting[h] = w.waiting[h]
                 /\ Sinking => ~s.ping_flush
        <5>1. Sinking => Timely
          BY <1>1, <1>4, <1>5, <2>1, <4>1 DEF Timely
        <5> QED
          BY <1>0, <1>1, <1>2, <1>3, <1>5, <2>1, <3>2, <4>1, <5>1, OthersSleep DEF Quiet
      <4>2. CASE w.asleep[h] # NoTask /\ w.waker[h] = w.asleep[h] /\ w.waiting[h]
                    => w.asleep[h] \in wk.woken
        <5>1. CASE Called(w.asleep[h])
          BY <1>1, <1>5, <2>1, <5>1 DEF Called
        <5>2. CASE ~Called(w.asleep[h])
          BY <1>0, <1>5, <2>1, <4>2, <5>2 DEF Wakers, SleepInv, Called
        <5> QED
          BY <5>1, <5>2
      <4> QED
        BY <2>2, <3>2, <4>1, <4>2
    <3> QED
      BY <3>1, <3>2 DEF SleepInv
  <2> QED
    BY <1>2, <1>5, <2>1, <2>4, <2>5, <2>6 DEF Wakers, Places
<1>7. CASE drain_flush
  <2>1. w' = Settled(wk, p.half) /\ Result("ready")
    BY <1>7 DEF drain_flush, wk
  <2>2. PollAt(p') /\ SamePoll(p') /\ p'.pc = p.ret /\ p'.res = "ready" /\ p.ret \in Returns(p.op)
    BY <1>1, <1>2, <2>1, ResultAt
  <2>3. ~Registered'
    BY <2>2 DEF Registered, Returns, PlacesOf, Waits
  <2>4. /\ WShape(w') /\ w'.asleep = wk.asleep /\ w'.registered = wk.registered
        /\ w'.timer = wk.timer /\ w'.woken = wk.woken /\ w'.armed = wk.armed
        /\ w'.waker = wk.waker /\ \A h \in Half \ {p.half} : w'.waiting[h] = wk.waiting[h]
    BY <1>5, <2>1, Settles
  <2>5. \A h \in Half \ {p.half} :
             \/ /\ w'.waker[h] = w.waker[h] /\ w'.waiting[h] = w.waiting[h]
                /\ Sinking => ~s.ping_flush
             \/ w.asleep[h] # NoTask /\ w.waker[h] = w.asleep[h] /\ w.waiting[h]
                  => w.asleep[h] \in w'.woken
    BY <1>2, <1>5, <2>4 DEF Half
  <2>6. ~s.ping_flush => Timely
    BY <1>1, <1>4, <1>5, <2>4 DEF Timely
  <2>7. \A h \in Half \ {p.half} :
             \/ /\ w'.waker[h] = w.waker[h] /\ w'.waiting[h] = w.waiting[h]
                /\ Sinking => Timely
             \/ w.asleep[h] # NoTask /\ w.waker[h] = w.asleep[h] /\ w.waiting[h]
                  => w.asleep[h] \in w'.woken
    BY <2>5, <2>6
  <2>8. /\ net'.waking = net.waking /\ net'.taken = net.taken /\ net.interest \subseteq net'.interest
    BY <1>1
  <2>9. Wakers'
    BY <1>0, <1>2, <1>3, <1>5, <2>2, <2>3, <2>4, <2>7, <2>8, WakersResult DEF Goes, SamePoll
  <2> QED
    BY <2>2, <2>4, <2>9 DEF Places
<1> QED
  BY <1>6, <1>7

\* An error ends the stream and wakes both halves.
LEMMA FailStep ==
    ASSUME Base, Steps, drain_fails
    PROVE  Places' /\ WShape(w') /\ Wakers'
<1> DEFINE wk == Settled(w, p.half)
<1>0. Record(s, SFields) /\ WShape(w) /\ Wakers
  BY DEF Base, Shapes
<1>1. p.op # "none" /\ p.pc = "drain" /\ net' = net /\ w' = TerminalWakes(wk) /\ Result("err")
  BY DEF drain_fails, At
<1>2. PollAt(p) /\ Polled /\ p.half \in Half
  BY <1>1, CallingAt
<1>3. s.closing => s'.closing
  BY <1>0, ClosingStays
<1>4. PollAt(p') /\ SamePoll(p') /\ p'.pc = p.ret /\ p'.res = "err" /\ p.ret \in Returns(p.op)
  BY <1>1, <1>2, ResultAt
<1>5. ~Registered'
  BY <1>4 DEF Registered, Returns, PlacesOf, Waits
<1>6. /\ WShape(wk) /\ wk.asleep = w.asleep /\ wk.registered = w.registered
      /\ wk.woken = w.woken /\ wk.armed = w.armed
      /\ wk.waker = w.waker /\ \A h \in Half \ {p.half} : wk.waiting[h] = w.waiting[h]
  BY <1>0, Settles
<1> HIDE DEF wk
<1>7. /\ WShape(w') /\ w'.asleep = wk.asleep /\ w'.registered = wk.registered
      /\ wk.woken \subseteq w'.woken
      /\ \A h \in Half : w'.armed[h] => wk.armed[h] /\ w'.waker[h] = wk.waker[h]
      /\ \A h \in Half : \A t :
           /\ wk.waker[h] = t /\ t # NoTask
           /\ t \in Polling \/ \E g \in Half : wk.asleep[g] = t
           => w'.waker[h] = t \/ t \in w'.woken
      /\ \A h \in Half :
           wk.asleep[h] # NoTask /\ wk.waker[h] = wk.asleep[h] /\ wk.waiting[h]
             => wk.asleep[h] \in w'.woken
  BY <1>1, <1>6, AllWoken
<1>8. w.waker[p.half] = p.task => w'.waker[p.half] = p.task \/ p.task \in w'.woken
  <2>1. p.task # NoTask /\ p.task \in Polling
    BY <1>2, UnifiedAssumption DEF PollAt, Polling, Polled, Reading, Sinking
  <2> QED
    BY <1>2, <1>6, <1>7, <2>1
<1>9. \A h \in Half \ {p.half} :
        w.asleep[h] # NoTask /\ w.waker[h] = w.asleep[h] /\ w.waiting[h] => w.asleep[h] \in w'.woken
  BY <1>6, <1>7
<1>10. /\ net'.waking = net.waking /\ net'.taken = net.taken /\ net.interest \subseteq net'.interest
       /\ w'.asleep = w.asleep /\ w'.registered = w.registered /\ w.woken \subseteq w'.woken
       /\ \A h \in Half : w'.armed[h] => w.armed[h] /\ w'.waker[h] = w.waker[h]
  BY <1>1, <1>6, <1>7
<1>11. Wakers'
  BY <1>0, <1>2, <1>3, <1>4, <1>5, <1>7, <1>8, <1>9, <1>10, WakersResult DEF Goes, SamePoll
<1> QED
  BY <1>4, <1>7, <1>11 DEF Places

-----------------------------------------------------------------------------
(* Every step keeps the wakers *)

\* Nobody sleeps while close() borrows the object.
LEMMA WakersClosing ==
    ASSUME WShape(w), Wakers, \A h \in Half : w.asleep[h] = NoTask, Turned(w') \/ w' = TerminalWakes(w),
           net'.waking = net.waking, net'.taken = net.taken, p' = Idle \/ p'.op = "closing"
    PROVE  WShape(w') /\ Wakers'
<1>1. /\ WShape(w') /\ w'.asleep = w.asleep /\ w'.registered = w.registered
      /\ \A h \in Half : w'.armed[h] => w.armed[h] /\ w'.waker[h] = w.waker[h]
  <2>1. CASE Turned(w')
    BY <2>1, TurnedSlots DEF SameSlots
  <2>2. CASE w' = TerminalWakes(w)
    BY <2>2, AllWoken
  <2> QED
    BY <2>1, <2>2
<1>2. PollWakers'
  BY DEF PollWakers, Polled, Reading, Sinking, Idle
<1>3. SlotInv' /\ SleepInv'
  BY <1>1 DEF Wakers, SlotInv, SleepInv
<1> QED
  BY <1>1, <1>2, <1>3 DEF Wakers

\* close().
LEMMA CloseStep ==
    ASSUME Base, close \/ close_write \/ close_shutdown \/ close_fails \/ close_cancelled
    PROVE  Places' /\ WShape(w') /\ Wakers'
<1>0. WShape(w) /\ Wakers /\ Record(net, NetFields) /\ Places
  BY DEF Base, Shapes
<1>1. \A h \in Half : w.asleep[h] = NoTask
  BY <1>0 DEF close, close_write, close_shutdown, close_fails, close_cancelled, Wakers, SlotInv
<1>2. Turned(w') \/ w' = TerminalWakes(w)
  BY <1>0, TimersTurn DEF close, close_write, close_shutdown, close_fails, close_cancelled
<1>3. net'.waking = net.waking /\ net'.taken = net.taken
  BY <1>0 DEF close, close_write, close_shutdown, close_fails, close_cancelled, Write, Record, NetFields
<1>4. /\ Places' /\ (p' = Idle \/ p'.op = "closing")
  <2>1. CASE close
    BY <2>1 DEF close, Places
  <2>2. CASE ~close /\ p' # Idle
    <3>1. p.op = "closing" /\ p.pc = "write" /\ (p' = p \/ p' = [p EXCEPT !.pc = "end"])
      BY <2>2 DEF close_write, close_shutdown, close_fails, close_cancelled
    <3>2. p = [op |-> "closing", half |-> "Stream", pc |-> "write"]
      BY <1>0, <3>1 DEF Places, Idle, PollAt
    <3>3. p' = p \/ p' = [op |-> "closing", half |-> "Stream", pc |-> "end"]
      BY <3>1, <3>2
    <3> QED
      BY <3>2, <3>3 DEF Places
  <2>3. CASE p' = Idle
    BY <2>3 DEF Places
  <2> QED
    BY <2>1, <2>2, <2>3
<1> QED
  BY <1>0, <1>1, <1>2, <1>3, <1>4, WakersClosing

\* The steps between the polls.
LEMMA BetweenStep ==
    ASSUME Base, \/ \E item \in setup.items : start_send(item)
                 \/ peer_sends \/ becomes_writable \/ breaks \/ timer_fires
                 \/ \E d \in {"ping", "pong", "idle", "close"} : time_passes(d)
    PROVE  Places' /\ WShape(w') /\ Wakers'
<1>0. WShape(w) /\ Wakers /\ Record(net, NetFields) /\ Record(s, SFields) /\ Places /\ ClosingInv
  BY DEF Base, Shapes
<1>1. p' = p /\ p.op \in {"none", "closing"}
  <2>1. CASE \E item \in setup.items : start_send(item)
    <3>1. p' = p /\ p = Idle
      BY <2>1 DEF start_send
    <3> QED
      BY <3>1 DEF Idle
  <2>2. CASE \E d \in {"ping", "pong", "idle", "close"} : time_passes(d)
    BY <2>2 DEF time_passes
  <2>3. CASE peer_sends \/ becomes_writable \/ breaks \/ timer_fires
    BY <2>3 DEF peer_sends, becomes_writable, breaks, timer_fires, Idle
  <2> QED
    BY <2>1, <2>2, <2>3
<1>2. Turned(w')
  BY <1>0, TimersTurn, ZenonT(60) DEF start_send, peer_sends, becomes_writable, breaks, timer_fires, time_passes
<1>3. Places'
  BY <1>0, <1>1 DEF Places
<1>4. /\ net.waking \in {"none", "Stream"} => net'.waking \in {net.waking, "Stream"}
      /\ net.waking = "Sink" => net'.waking = "Sink"
      /\ net'.taken = net.taken /\ (net'.waking = "Stream" \/ net.interest \subseteq net'.interest)
  <2>1. CASE net' = net
    BY <2>1
  <2>2. CASE peer_sends
    BY <1>0, <2>2 DEF peer_sends, Event, Record, NetFields
  <2>3. CASE becomes_writable
    BY <1>0, <2>3 DEF becomes_writable, Event, Record, NetFields
  <2>4. CASE breaks
    BY <1>0, <2>4 DEF breaks, Record, NetFields
  <2>5. CASE timer_fires
    BY <1>0, <2>5 DEF timer_fires, Record, NetFields
  <2> QED
    BY <2>1, <2>2, <2>3, <2>4, <2>5 DEF start_send, time_passes
<1>5. (s.closing => s'.closing) /\ (net'.waking = "Stream" \/ (Timed => Timed'))
  <2>1. CASE \E item \in setup.items : start_send(item)
    <3>1. PICK item \in setup.items : start_send(item)
      BY <2>1
    <3>2. due' = due
      BY <3>1 DEF start_send
    <3>3. CASE s' = s /\ w' = w
      BY <3>2, <3>3, TimedKept DEF Timely
    <3>4. CASE /\ s.state = "Open"
               /\ \E x : s' = [(IF item = "close" THEN [begin_closing(s) EXCEPT !.state = "CloseSent"]
                                ELSE s) EXCEPT !.write_buf = x]
               /\ w' = IF item = "close" THEN ClosingTimer(w) ELSE w
      <4>1. PICK x : s' = [(IF item = "close" THEN [begin_closing(s) EXCEPT !.state = "CloseSent"]
                            ELSE s) EXCEPT !.write_buf = x]
        BY <3>4
      <4>2. CASE item = "close"
        <5>1. s'.stopped /\ s'.closing
          BY <1>0, <4>1, <4>2 DEF begin_closing, Record, SFields
        <5> QED
          BY <5>1, StoppedTimed
      <4>3. CASE item # "close"
        <5>1. s'.stopped = s.stopped /\ s'.ping = s.ping /\ s'.closing = s.closing /\ w' = w
          BY <1>0, <3>4, <4>1, <4>3 DEF Record, SFields
        <5> QED
          BY <3>2, <5>1, TimedKept DEF Timely
      <4> QED
        BY <4>2, <4>3
    <3> QED
      BY <3>1, <3>3, <3>4 DEF start_send
  <2>2. CASE peer_sends \/ becomes_writable \/ breaks
    <3>1. Timely /\ s' = s
      BY <2>2 DEF peer_sends, becomes_writable, breaks, Timely
    <3> QED
      BY <3>1, TimedKept
  <2>3. CASE timer_fires
    BY <1>0, <2>3 DEF timer_fires, Record, NetFields
  <2>4. CASE \E d \in {"ping", "pong", "idle", "close"} : time_passes(d)
    <3>1. PICK d \in {"ping", "pong", "idle", "close"} : time_passes(d)
      BY <2>4
    <3>2. /\ s' = s /\ w' = w /\ due' = due \cup {d} /\ d \notin due
          /\ \/ d = "close"
             \/ ~s.stopped /\ d = Primary(s)
             \/ ~s.stopped /\ d = "idle" /\ Primary(s) \in due
      BY <3>1 DEF time_passes
    <3>3. Primary(s)' = Primary(s) /\ Primary(s) \in {"ping", "pong", "idle"}
          /\ (Primary(s) = "ping" <=> s.ping = "none") /\ (Primary(s) = "pong" <=> s.ping = "sent")
      BY <3>2 DEF Primary
    <3>4. ASSUME Timed PROVE Timed'
      <4>1. CASE s.stopped
        BY <3>2, <4>1, StoppedTimed
      <4>2. CASE ~s.stopped
        <5>1. "idle" \in due => Primary(s) \in due
          BY <3>4, <4>2 DEF Timed
        <5>2. "idle" \in due' => Primary(s) \in due'
          BY <3>2, <5>1
        <5>3. next_deadline(s)' = next_deadline(s)
          BY <3>2, <3>3, <4>2, <5>1, <5>2 DEF next_deadline, next_hard_deadline
        <5> QED
          BY <3>2, <3>3, <3>4, <5>2, <5>3 DEF Timed, Covered
      <4> QED
        BY <4>1, <4>2
    <3> QED
      BY <3>2, <3>4
  <2> QED
    BY <2>1, <2>2, <2>3, <2>4
<1>6. WShape(w') /\ Wakers'
  BY <1>0, <1>1, <1>2, <1>4, <1>5, WakersBetween
<1> QED
  BY <1>3, <1>6

\* Every step.
LEMMA WakersStep ==
    ASSUME Base, ReadInv, Steps
    PROVE  Places' /\ WShape(w') /\ Wakers'
<1>0. WShape(w) /\ Wakers /\ Record(net, NetFields) /\ Record(s, SFields) /\ Places
  BY DEF Base, Shapes
<1>1. ASSUME Outcome, net' = net, PollAt(p), Polled, Sinking => Timely
      PROVE  Places' /\ WShape(w') /\ Wakers'
  <2>1. Quiet
    BY <1>0, <1>1, ClosingStays DEF Quiet
  <2> QED
    BY <1>1, <2>1, Outcomes
<1>2. CASE reactor_takes_stream \/ reactor_wakes
  <2>1. p' = p
    BY <1>2 DEF reactor_takes_stream, reactor_wakes
  <2> QED
    BY <1>0, <1>2, <2>1, ReactorTakes, ReactorWakes DEF Places
<1>3. CASE \E op \in setup.calls \ {"close_both"} : poll(op)
  <2>1. PICK op \in setup.calls \ {"close_both"} : poll(op)
    BY <1>3
  <2>2. op \in {"next", "ready", "flush", "close"}
    BY UnifiedAssumption DEF Base, SetupType
  <2>3. PollAt(p') /\ WShape(w') /\ Wakers'
    BY <1>0, <2>1, <2>2, PollBegins
  <2> QED
    BY <2>3 DEF Places
<1>4. CASE \E h \in Half, task \in Tasks : handover(h, task)
  <2>1. p' = Idle
    BY <1>4 DEF handover
  <2> QED
    BY <1>0, <1>4, <2>1, HandsOver DEF Places
<1>5. CASE poll_registers
  BY <1>5, RegisterStep
<1>6. CASE drain_write \/ drain_blocked
  BY <1>6, DrainStep
<1>7. CASE drain_pong \/ drain_flush
  BY <1>7, FlushStep
<1>8. CASE drain_fails
  BY <1>8, FailStep
<1>9. CASE poll_transport_shutdown \/ compressed_transport_shutdown
  BY <1>9, ShutdownStep
<1>10. CASE next_top \/ next_flushed \/ next_shut
  BY <1>1, <1>10, FlushingOutcome
<1>11. CASE \/ next_errors \/ next_deadlines \/ next_message \/ next_ping \/ next_close
            \/ next_buffered
  BY <1>1, <1>11, DeliveringOutcome
<1>12. CASE \/ next_io \/ next_late_shut \/ next_fed \/ next_nodata
            \/ process_read_buf \/ compressed_process_read_buf
  BY <1>1, <1>12, ReadingOutcome
<1>13. CASE next_read
  BY <1>13, ReadStep
<1>14. CASE \/ poll_ready \/ sink_done \/ poll_flush \/ poll_close_ended \/ poll_close
            \/ poll_close_flushed \/ poll_close_shut
  BY <1>1, <1>14, SinkOutcome
<1>15. CASE close \/ close_write \/ close_shutdown \/ close_fails \/ close_cancelled
  BY <1>15, CloseStep
<1>16. CASE \/ \E item \in setup.items : start_send(item)
            \/ peer_sends \/ becomes_writable \/ breaks \/ timer_fires
            \/ \E d \in {"ping", "pong", "idle", "close"} : time_passes(d)
  BY <1>16, BetweenStep
<1> QED
  BY <1>2, <1>3, <1>4, <1>5, <1>6, <1>7, <1>8, <1>9, <1>10, <1>11, <1>12, <1>13, <1>14, <1>15, <1>16
  DEF Steps
\* Parsing keeps it: a stream with a bad frame is not open.
LEMMA Processed ==
    ASSUME NEW st, Record(st, SFields), ClosingFields(st), NEW r, r = ProcessAll(st)
    PROVE  Record(r, SFields) /\ ClosingFields(r)
<1>1. /\ Record(r, SFields) /\ r.stopped = st.stopped /\ r.closing = st.closing
      /\ r.close_after_flush = st.close_after_flush /\ r.shutdown = st.shutdown /\ r.terminal = st.terminal
      /\ BadAt(st.read_buf) = {} => r.state = st.state /\ r.parse_error = st.parse_error
      /\ BadAt(st.read_buf) # {} =>
           r.parse_error /\ r.state = IF st.state = "Open" THEN "ReadErrorPending" ELSE st.state
  BY ProcessFields
<1> QED
  BY <1>1 DEF ClosingFields

\* Every step keeps it: the transport is shut down only while closing.
LEMMA FieldsStep ==
    ASSUME Record(s, SFields), Steps, ClosingInv, Places
    PROVE  ClosingFields(s')
<1>0. /\ ClosingFields(s) /\ (p.op = "closing" => s.closing)
      /\ p.op # "none" /\ p.pc = "shutdown" => s.closing
  BY DEF ClosingInv, Ending
<1> USE <1>0
<1>1. CASE drain_write
  BY <1>1 DEF drain_write, Write, Record, SFields, ClosingFields
<1>2. CASE drain_pong
  BY <1>2 DEF drain_pong, PingFlushed, Encode, Record, SFields, ClosingFields
<1>3. CASE drain_flush
  BY <1>3 DEF drain_flush, PingFlushed, Record, SFields, ClosingFields
<1>4. CASE drain_fails
  BY <1>4 DEF drain_fails, close_terminal, Record, SFields, ClosingFields
<1>5. CASE poll_transport_shutdown
  BY <1>5 DEF poll_transport_shutdown, At, Record, SFields, ClosingFields
<1>6. CASE compressed_transport_shutdown
  BY <1>6 DEF compressed_transport_shutdown, At, Record, SFields, ClosingFields
<1>7. CASE next_flushed
  <2>1. CASE s' = finish_read_close(s)
    BY <2>1, FinishFields DEF ClosingFields
  <2>2. CASE s' = Kept(s)
    BY <2>2, KeptFields DEF ClosingFields
  <2>3. CASE s' = [s EXCEPT !.flush_on_read = FALSE, !.control = NoFrame]
    BY <2>3 DEF Record, SFields, ClosingFields
  <2>4. CASE s' = [s EXCEPT !.control = NoFrame]
    BY <2>4 DEF Record, SFields, ClosingFields
  <2> QED
    BY <1>7, <2>1, <2>2, <2>3, <2>4 DEF next_flushed, FinishRead
<1>8. CASE next_shut
  BY <1>8, FinishFields, KeptFields DEF next_shut, FinishRead, Record, SFields, ClosingFields
<1>9. CASE next_errors
  BY <1>9 DEF next_errors, close_terminal, Record, SFields, ClosingFields
<1>10. CASE next_deadlines
  BY <1>10 DEF next_deadlines, Encode, begin_closing, Record, SFields, ClosingFields
<1>11. CASE next_message
  BY <1>11 DEF next_message, Taking1, Inbound, Record, SFields, ClosingFields
<1>12. CASE next_ping
  <2> DEFINE st == IF setup.compressed THEN Taking1(s) ELSE process_buffered_after_ping(Taking1(s))
             a == Taking1(s)
             r == ProcessAll(a)
  <2>1. Record(a, SFields) /\ ClosingFields(a)
    BY DEF Taking1, Record, SFields, ClosingFields
  <2>2. Record(r, SFields) /\ ClosingFields(r)
    BY <2>1, Processed
  <2>3. st \in {a, r}
    BY DEF process_buffered_after_ping
  <2>4. \/ s' = st
        \/ s' = [st EXCEPT !.pending_pong = InHand[1].id, !.control = InHand[1], !.flush_on_read = TRUE]
    BY <1>12 DEF next_ping
  <2> HIDE DEF st, a, r
  <2>5. Record(st, SFields) /\ ClosingFields(st)
    BY <2>1, <2>2, <2>3
  <2> QED
    BY <2>4, <2>5, ZenonT(60) DEF Record, SFields, ClosingFields
<1>13. CASE next_close
  BY <1>13 DEF next_close, Encode, begin_closing, Record, SFields, ClosingFields
<1>14. CASE next_io
  BY <1>14, FinishFields DEF next_io, FinishRead, Record, SFields, ClosingFields
<1>15. CASE next_late_shut
  BY <1>15, FinishFields DEF next_late_shut, FinishRead, Record, SFields, ClosingFields
<1>16. CASE next_fed
  BY <1>16, FinishFields DEF next_fed, FinishRead, Record, SFields, ClosingFields
<1>17. CASE next_read
  <2> DEFINE st == IF p.late THEN [s EXCEPT !.post_expiry = TRUE] ELSE s
  <2>1. Record(st, SFields) /\ ClosingFields(st)
    BY DEF Record, SFields, ClosingFields
  <2>2. \/ \E x : s' = [st EXCEPT !.read_buf = x]
        \/ s' = close_terminal(st)
        \/ s' = st
    BY <1>17 DEF next_read
  <2> HIDE DEF st
  <2>3. CASE \E x : s' = [st EXCEPT !.read_buf = x]
    BY <2>1, <2>3 DEF Record, SFields, ClosingFields
  <2>4. CASE s' = close_terminal(st)
    BY <2>1, <2>4 DEF close_terminal, Record, SFields, ClosingFields
  <2> QED
    BY <2>1, <2>2, <2>3, <2>4
<1>18. CASE next_nodata
  BY <1>18, FinishFields DEF next_nodata, FinishRead, Record, SFields, ClosingFields
<1>19. CASE process_read_buf
  <2>1. \E x, y : LET st == [s EXCEPT !.read_buf = x, !.unprocessed = y]
                  IN s' = st \/ s' = [ReadError(st) EXCEPT !.unprocessed = FALSE]
    BY <1>19 DEF process_read_buf
  <2>2. PICK x, y : LET st == [s EXCEPT !.read_buf = x, !.unprocessed = y]
                    IN s' = st \/ s' = [ReadError(st) EXCEPT !.unprocessed = FALSE]
    BY <2>1
  <2> DEFINE st == [s EXCEPT !.read_buf = x, !.unprocessed = y]
  <2>3. Record(st, SFields) /\ ClosingFields(st)
    BY DEF Record, SFields, ClosingFields
  <2>4. s' = st \/ s' = [ReadError(st) EXCEPT !.unprocessed = FALSE]
    BY <2>2
  <2> HIDE DEF st
  <2>5. CASE s' = [ReadError(st) EXCEPT !.unprocessed = FALSE]
    BY <2>3, <2>5 DEF ReadError, Record, SFields, ClosingFields
  <2> QED
    BY <2>3, <2>4, <2>5
<1>20. CASE compressed_process_read_buf
  <2> DEFINE st == ProcessAll(s)
  <2>1. s' = [st EXCEPT !.batch_has_close = HasClose(st.batch)]
    BY <1>20 DEF compressed_process_read_buf
  <2>2. Record(st, SFields) /\ ClosingFields(st)
    BY Processed
  <2> HIDE DEF st
  <2> QED
    BY <2>1, <2>2 DEF Record, SFields, ClosingFields
<1>21. CASE poll_ready
  BY <1>21 DEF poll_ready, needs_drain_before_send, Record, SFields, ClosingFields
<1>22. CASE sink_done
  BY <1>22, FinishFields DEF sink_done, Record, SFields, ClosingFields
<1>23. CASE \E item \in setup.items : start_send(item)
  <2>1. CASE s' = s
    BY <2>1
  <2>2. CASE \E x : s' = [s EXCEPT !.write_buf = x]
    BY <2>2 DEF Record, SFields, ClosingFields
  <2>3. CASE \E x : s' = [[begin_closing(s) EXCEPT !.state = "CloseSent"] EXCEPT !.write_buf = x]
    BY <2>3 DEF begin_closing, Record, SFields, ClosingFields
  <2> QED
    BY <1>23, <2>1, <2>2, <2>3 DEF start_send
<1>24. CASE poll_close_ended
  <2>1. CASE s' = finish_read_close(s)
    BY <2>1, FinishFields DEF ClosingFields
  <2>2. CASE s' = begin_closing(s)
    BY <2>2 DEF begin_closing, Record, SFields, ClosingFields
  <2> QED
    BY <1>24, <2>1, <2>2 DEF poll_close_ended
<1>25. CASE poll_close
  BY <1>25, ZenonT(60) DEF poll_close, begin_closing, close, Encode, Record, SFields, ClosingFields
<1>26. CASE poll_close_flushed
  BY <1>26, FinishFields DEF poll_close_flushed, Record, SFields, ClosingFields
<1>27. CASE poll_close_shut
  BY <1>27, FinishFields DEF poll_close_shut, Record, SFields, ClosingFields
<1>28. CASE close
  BY <1>28 DEF close, Encode, begin_closing, Record, SFields, ClosingFields
<1>29. CASE close_write
  <2>1. s' = s \/ \E x, y : s' = [s EXCEPT !.shutdown = x] \/ s' = [s EXCEPT !.write_buf = y]
    BY <1>29 DEF close_write, Write
  <2>2. s.closing
    BY <1>29 DEF close_write
  <2> QED
    BY <2>1, <2>2 DEF Record, SFields, ClosingFields
<1>30. CASE close_shutdown
  BY <1>30 DEF close_shutdown, Record, SFields, ClosingFields
<1>31. CASE close_fails
  BY <1>31, FinishFields DEF close_fails, Record, SFields, ClosingFields
<1>32. CASE UNCHANGED s
  BY <1>32
<1> QED
  BY <1>1, <1>2, <1>3, <1>4, <1>5, <1>6, <1>7, <1>8, <1>9, <1>10, <1>11, <1>12, <1>13, <1>14,
     <1>15, <1>16, <1>17, <1>18, <1>19, <1>20, <1>21, <1>22, <1>23, <1>24, <1>25, <1>26, <1>27,
     <1>28, <1>29, <1>30, <1>31, <1>32
  DEF Steps, reactor_takes_stream, reactor_wakes, poll, handover, poll_registers, drain_blocked,
      next_top, next_buffered, poll_flush, close_cancelled, peer_sends, becomes_writable,
      breaks, time_passes, timer_fires

\* A jump ends nothing, and neither does the end of a poll.
LEMMA JumpEnds ==
    ASSUME NEW q, q = Idle \/ (q.op = "next" /\ q.pc \in {"top", "errors", "process", "read", "nodata"})
    PROVE  ~Ending(q)
  BY DEF Ending, Idle, Bound

\* What the steps of poll_next otherwise do.
LEMMA ReaderEnds ==
    ASSUME Base, NEW x \in {"top", "errors", "process", "read", "nodata", "flushed", "shut", "fed",
                            "lateShut"}, At(x), Ending(p')
    PROVE  /\ ~Goto("top") /\ ~Goto("errors") /\ ~Goto("process") /\ ~Goto("read") /\ ~Goto("nodata")
           /\ \A y : p' # [Jump("top") EXCEPT !.expired = y] /\ p' # [Jump("top") EXCEPT !.parsed = y]
           /\ \A wk : ~Return(wk) /\ ~Pending(wk)
           /\ ~Call("drain", "flushed") /\ ~next_buffered /\ (next_io => Expired)
<1>1. p' # Idle /\ ~(p'.op = "next" /\ p'.pc \in {"top", "errors", "process", "read", "nodata"})
  BY JumpEnds
<1>2. PollAt(p) /\ Reading /\ p.op = "next"
  BY ReaderAt
<1>3. \A z \in {"top", "errors", "process", "read", "nodata"} : p' # Jump(z)
  BY <1>1, <1>2, JumpAt, NextPlaces
<1>4. \A y : p' # [Jump("top") EXCEPT !.expired = y]
  <2> SUFFICES ASSUME NEW y, p' = [Jump("top") EXCEPT !.expired = y] PROVE FALSE
    OBVIOUS
  <2>1. NotedPoll(p', "top")
    BY <1>2, JumpExpired, NextPlaces
  <2> QED
    BY <1>1, <1>2, <2>1 DEF NotedPoll
<1>5. \A y : p' # [Jump("top") EXCEPT !.parsed = y]
  <2> SUFFICES ASSUME NEW y, p' = [Jump("top") EXCEPT !.parsed = y] PROVE FALSE
    OBVIOUS
  <2>1. NotedPoll(p', "top")
    BY <1>2, JumpParsed, NextPlaces
  <2> QED
    BY <1>1, <1>2, <2>1 DEF NotedPoll
<1>6. \A wk : ~Return(wk) /\ ~Pending(wk)
  BY <1>1 DEF Return, Pending
<1>7. ~Call("drain", "flushed")
  <2> SUFFICES ASSUME Call("drain", "flushed") PROVE FALSE
    OBVIOUS
  <2>1. SamePoll(p') /\ p'.pc = "register" /\ p'.call = "drain" /\ Bound(p') = "flushed"
    BY <1>2, CallAt, NextPlaces
  <2> QED
    BY <1>2, <2>1 DEF Ending, SamePoll
<1>8. ~next_buffered
  BY <1>1, <1>2, BufferedAt DEF next_buffered, SamePoll
<1>9. ASSUME next_io, ~Expired PROVE FALSE
  <2>1. ASSUME NEW c, NEW r, c = "read" \/ (c = "drain" /\ r = "fed"), NEW late,
               p' = [p EXCEPT !.pc = IF c = "read" THEN "read" ELSE "register",
                              !.call = c, !.ret = r, !.buffered = FALSE, !.late = late]
        PROVE  FALSE
    <3>1. /\ SamePoll(p') /\ p'.pc = (IF c = "read" THEN "read" ELSE "register")
          /\ Bound(p') = (IF c = "read" THEN "read" ELSE r) /\ p'.call = c
      BY <1>2, <2>1, ReadAt, NextPlaces
    <3> QED
      BY <1>2, <2>1, <3>1 DEF Ending, SamePoll
  <2>2. CASE p' = [p EXCEPT !.pc = IF "drain" = "read" THEN "read" ELSE "register",
                            !.call = "drain", !.ret = "fed", !.buffered = FALSE, !.late = Expired]
    BY <2>1, <2>2
  <2>3. CASE p' = [p EXCEPT !.pc = IF "read" = "read" THEN "read" ELSE "register",
                            !.call = "read", !.ret = "none", !.buffered = FALSE, !.late = Expired]
    BY <2>1, <2>3
  <2> QED
    BY <1>9, <2>2, <2>3 DEF next_io
<1> QED
  BY <1>3, <1>4, <1>5, <1>6, <1>7, <1>8, <1>9 DEF Goto

\* A poll comes to where it shuts the transport down only while closing.
LEMMA EndingStep ==
    ASSUME Base, Steps, Ending(p')
    PROVE  s'.closing
<1>0. Record(s, SFields) /\ Places /\ ClosingInv
  BY DEF Base, Shapes
<1>1. CASE s.closing
  BY <1>0, <1>1, ClosingStays
<1>2. CASE ~s.closing
  <2>1. ~Ending(p) /\ ~s.close_after_flush /\ ~Expired
    BY <1>0, <1>2 DEF ClosingInv, ClosingFields, Expired
  <2>2. p' # Idle
    BY JumpEnds
  <2>3. p' # p
    BY <2>1
  <2>4. CASE \E op \in setup.calls \ {"close_both"} : poll(op)
    <3>1. PICK op \in setup.calls \ {"close_both"} : poll(op)
      BY <2>4
    <3>2. op \in {"next", "ready", "flush", "close"}
      BY UnifiedAssumption DEF Base, SetupType
    <3>3. p'.op = op /\ p'.pc = (IF op = "next" THEN "top" ELSE "start") /\ Bound(p') = p'.pc
      BY <3>1, <3>2, PollBegins DEF Base, Shapes
    <3> QED
      BY <3>2, <3>3 DEF Ending
  <2>5. CASE poll_registers
    <3>1. PollAt(p) /\ p.op # "none" /\ p.pc = "register" /\ p' = [p EXCEPT !.pc = p.call, !.call = "none"]
      BY <2>5, CallingAt DEF poll_registers
    <3>2. SamePoll(p') /\ p'.pc = p.call /\ Bound(p') = Bound(p) /\ p.call \in {"drain", "shutdown"}
      BY <3>1, RegisterAt DEF PollAt
    <3> QED
      BY <2>1, <3>1, <3>2 DEF Ending, SamePoll
  <2>6. CASE drain_flush \/ drain_blocked \/ drain_fails \/ poll_transport_shutdown \/ compressed_transport_shutdown
    <3>1. p.op # "none" /\ p.pc \in {"drain", "shutdown"} /\ \E res \in {"ready", "pending", "err"} : Result(res)
      BY <2>6 DEF drain_flush, drain_blocked, drain_fails, poll_transport_shutdown,
                  compressed_transport_shutdown, At
    <3>2. PollAt(p)
      BY <3>1, CallingAt
    <3>3. SamePoll(p') /\ p'.pc = p.ret /\ Bound(p') = Bound(p) /\ p.ret \in Returns(p.op)
      BY <3>1, <3>2, ResultAt
    <3> QED
      BY <2>1, <3>1, <3>3 DEF Ending, SamePoll, Returns, Waits
  <2>7. CASE next_top \/ next_flushed \/ next_shut
    BY <2>1, <2>7, ReaderEnds DEF next_top, next_flushed, next_shut, FinishRead
  <2>8. CASE next_errors \/ next_deadlines \/ next_message \/ next_ping
    BY <2>8, ReaderEnds DEF next_errors, next_deadlines, next_message, next_ping, Delivering
  <2>9. CASE next_close \/ next_buffered \/ next_io \/ next_late_shut
    BY <2>1, <2>9, ReaderEnds DEF next_close, next_buffered, next_io, next_late_shut, FinishRead, Delivering
  <2>10. CASE next_fed \/ next_read \/ next_nodata
    BY <2>10, ReaderEnds DEF next_fed, next_read, next_nodata, FinishRead
  <2>11. CASE process_read_buf \/ compressed_process_read_buf
    BY <2>11, ReaderEnds DEF process_read_buf, compressed_process_read_buf
  <2>12. CASE poll_ready \/ poll_flush
    <3>1. PollAt(p) /\ p.op \in {"ready", "flush"}
      BY <2>12, SinkAt DEF poll_ready, poll_flush
    <3>2. CASE Call("drain", "done")
      <4>1. SamePoll(p') /\ p'.pc = "register" /\ p'.call = "drain" /\ Bound(p') = "done"
        BY <3>1, <3>2, CallAt, NextPlaces
      <4> QED
        BY <3>1, <4>1 DEF Ending, SamePoll
    <3> QED
      BY <2>2, <2>12, <3>2 DEF poll_ready, poll_flush, Return
  <2>13. CASE sink_done \/ poll_close_flushed \/ poll_close_shut
    <3>1. CASE Call("shutdown", "closeShut") /\ At("closeFlushed")
      BY <2>1, <3>1, SinkAt DEF Ending, Towards, At, PollAt, PlacesOf
    <3> QED
      BY <2>2, <2>13, <3>1 DEF sink_done, poll_close_flushed, poll_close_shut, Return, Pending
  <2>14. CASE poll_close_ended \/ poll_close \/ close
    <3>1. CASE poll_close_ended
      <4>1. s' = begin_closing(s)
        BY <2>2, <3>1 DEF poll_close_ended, Return
      <4> QED
        BY <1>0, <4>1 DEF begin_closing, Record, SFields
    <3>2. CASE poll_close
      BY <1>0, <3>2 DEF poll_close, begin_closing, Encode, Record, SFields
    <3>3. CASE close
      BY <1>0, <3>3 DEF close, begin_closing, Encode, Record, SFields
    <3> QED
      BY <2>14, <3>1, <3>2, <3>3
  <2>15. CASE close_write \/ close_shutdown \/ close_fails \/ close_cancelled
    BY <2>1, <2>15 DEF close_write, close_shutdown, close_fails, close_cancelled, Ending
  <2>16. CASE p' = p \/ p' = Idle
    BY <2>2, <2>3, <2>16
  <2> QED
    BY <2>4, <2>5, <2>6, <2>7, <2>8, <2>9, <2>10, <2>11, <2>12, <2>13, <2>14, <2>15, <2>16
    DEF Steps, reactor_takes_stream, reactor_wakes, handover, drain_write, drain_pong, start_send,
        peer_sends, becomes_writable, breaks, time_passes, timer_fires
<1> QED
  BY <1>1, <1>2

\* Every step.
LEMMA ClosingStep ==
    ASSUME Base, Steps
    PROVE  ClosingInv'
<1>1. ClosingFields(s')
  BY FieldsStep DEF Base, Shapes
<1> QED
  BY <1>1, EndingStep DEF ClosingInv

-----------------------------------------------------------------------------
(* Messages on their way *)

\* Filtering a vector with nothing to keep.
LEMMA FilterNone ==
    ASSUME NEW S, NEW v \in Seq(S), NEW T, \A i \in 1 .. Len(v) : v[i] \notin T
    PROVE  Filter(v, T) = <<>>
<1> DEFINE P == {a \in Seq(S) : (\A i \in 1 .. Len(a) : a[i] \notin T) => Filter(a, T) = <<>>}
<1>1. <<>> \in P
  BY FilterEmpty
<1>2. ASSUME NEW a \in Seq(S), NEW x \in S, a \in P PROVE Append(a, x) \in P
  <2> DEFINE b == Append(a, x)
  <2>1. b \in Seq(S) /\ Len(b) = Len(a) + 1 /\ b[Len(a) + 1] = x /\ \A i \in 1 .. Len(a) : b[i] = a[i]
    OBVIOUS
  <2>2. Filter(b, T) = IF x \in T THEN Append(Filter(a, T), x) ELSE Filter(a, T)
    BY FilterAppend
  <2> HIDE DEF b
  <2>3. ASSUME \A i \in 1 .. Len(b) : b[i] \notin T PROVE Filter(b, T) = <<>>
    <3>1. Len(a) \in Nat /\ Len(a) + 1 \in 1 .. Len(b) /\ \A i \in 1 .. Len(a) : i \in 1 .. Len(b)
      BY <2>1
    <3>2. x \notin T /\ \A i \in 1 .. Len(a) : a[i] \notin T
      BY <2>1, <2>3, <3>1
    <3> QED
      BY <1>2, <2>2, <3>2
  <2>4. b \in P
    BY <2>1, <2>3
  <2> QED
    BY <2>4 DEF b
<1> HIDE DEF P
<1>3. Seq(S) \subseteq P
  BY <1>1, <1>2, VectorInduction
<1> QED
  BY <1>3 DEF P

\* The parser accepts the first message it holds, behind frames that complete none.
LEMMA FlowAccepts ==
    ASSUME NEW sc, Script(sc), NEW T, NEW read, NEW gap, NEW d, NEW buf, NEW broken,
           Flow(sc, T, read, gap, d, <<>>, <<>>, buf, broken, TRUE), NEW n \in 1 .. Len(buf),
           ~gap, buf[n] \in T, \A i \in 1 .. n - 1 : buf[i] \notin T
    PROVE  Flow(sc, T, read, gap, d, <<buf[n].id>>, <<>>, SubSeq(buf, n + 1, Len(buf)), FALSE, TRUE)
<1> DEFINE k == read - Len(buf)
           S == FramesOf(sc)
           a == SubSeq(buf, 1, n - 1)
           x == buf[n]
           b == SubSeq(buf, 1, n)
           rest == SubSeq(buf, n + 1, Len(buf))
<1>1. /\ d \in Seq(Nat) /\ read \in Nat /\ read <= Len(sc) /\ Len(sc) \in Nat
      /\ buf \in Seq(S) /\ Len(buf) \in Nat /\ Len(buf) <= read /\ n \in Nat /\ n <= Len(buf) /\ 1 <= n
      /\ sc \in Seq(S) /\ <<>> \in Seq(S) /\ <<>> \in Seq(Nat) /\ <<>> \in Seq(S \cap T)
  BY DEF Flow, FlowTypes, Script, Caught
<1>2. k \in Nat /\ k + n \in 0 .. Len(sc) /\ buf = SubSeq(sc, k + 1, read) /\ k + Len(buf) = read
      /\ ~gap /\ Line(d, <<>>, <<>>) = Parsed(sc, T, k)
  BY <1>1 DEF Flow, Caught
<1>3. d = Parsed(sc, T, k)
  <2>1. IdsOf(<<>>) = <<>>
    BY DEF IdsOf
  <2>2. (d \o <<>>) \o <<>> = d
    BY <1>1
  <2> QED
    BY <1>2, <2>1, <2>2 DEF Line
<1> HIDE DEF k, S
<1>4. /\ a \in Seq(S) /\ x \in S /\ b = Append(a, x) /\ \A i \in 1 .. Len(a) : a[i] \notin T
      /\ \A i \in 1 .. Len(buf) : buf[i] = sc[k + i]
  <2>1. a \in Seq(S) /\ Len(a) = n - 1 /\ \A i \in 1 .. n - 1 : a[i] = buf[i]
    BY <1>1
  <2>2. x \in S /\ b \in Seq(S) /\ Len(b) = n /\ \A i \in 1 .. n : b[i] = buf[i]
    BY <1>1
  <2>3. \A i \in 1 .. Len(buf) : buf[i] = sc[k + i]
    BY <1>1, <1>2
  <2> HIDE DEF a, b, x
  <2>4. b = Append(a, x)
    <3> DEFINE e == Append(a, x)
    <3>1. e \in Seq(S) /\ Len(e) = n /\ e[n] = x /\ \A i \in 1 .. n - 1 : e[i] = a[i]
      BY <1>1, <2>1, <2>2
    <3>2. x = buf[n]
      BY DEF x
    <3> HIDE DEF e
    <3>3. Len(b) = Len(e) /\ \A i \in 1 .. Len(b) : b[i] = e[i]
      BY <1>1, <2>1, <2>2, <3>1, <3>2
    <3>4. b = e
      BY <2>2, <3>1, <3>3, SeqEqual
    <3> QED
      BY <3>4 DEF e
  <2>5. \A i \in 1 .. Len(a) : a[i] \notin T
    BY <2>1
  <2> QED
    BY <2>1, <2>2, <2>3, <2>4, <2>5
<1>5. b = SubSeq(sc, k + 1, k + n)
  <2> DEFINE c == SubSeq(sc, k + 1, k + n)
  <2>1. b \in Seq(S) /\ Len(b) = n /\ \A i \in 1 .. n : b[i] = buf[i]
    BY <1>1
  <2>2. c \in Seq(S) /\ Len(c) = n /\ \A i \in 1 .. n : c[i] = sc[k + i]
    BY <1>1, <1>2
  <2> HIDE DEF b, c
  <2>3. Len(b) = Len(c) /\ \A i \in 1 .. Len(b) : b[i] = c[i]
    BY <1>1, <1>4, <2>1, <2>2, SMTT(40)
  <2>4. b = c
    BY <2>1, <2>2, <2>3, SeqEqual
  <2> QED
    BY <2>4 DEF c
<1> HIDE DEF a, b, x
<1>6. Filter(b, T) = <<x>>
  <2>1. Filter(a, T) = <<>>
    BY <1>4, FilterNone
  <2>2. Filter(Append(a, x), T) = Append(Filter(a, T), x)
    <3>1. x \in T
      BY DEF x
    <3> QED
      BY <1>4, <3>1, FilterAppend
  <2>3. Append(<<>>, x) = <<x>>
    OBVIOUS
  <2> QED
    BY <1>4, <2>1, <2>2, <2>3
<1>7. x.id \in Nat
  BY <1>4, ScriptFrames DEF S
<1>8. Parsed(sc, T, k + n) = d \o <<x.id>>
  <2>1. k \in Nat /\ k + n \in Nat /\ k <= k + n /\ k + n <= Len(sc)
    BY <1>1, <1>2
  <2> DEFINE q == k + n
  <2> HIDE DEF q
  <2>2. Parsed(sc, T, q) = Parsed(sc, T, k) \o IdsOf(Filter(SubSeq(sc, k + 1, q), T))
    BY <2>1, <1>1, FilteredRange DEF q
  <2>3. IdsOf(<<x>>) = <<x.id>>
    BY DEF IdsOf
  <2> QED
    BY <1>3, <1>5, <1>6, <2>2, <2>3 DEF q
<1>9. Line(d, <<x.id>>, <<>>) = Parsed(sc, T, k + n)
  <2>1. IdsOf(<<>>) = <<>>
    BY DEF IdsOf
  <2>2. d \o <<x.id>> \in Seq(Nat)
    BY <1>1, <1>7
  <2>3. (d \o <<x.id>>) \o <<>> = d \o <<x.id>>
    BY <2>2, ConcatProperties
  <2> QED
    BY <1>8, <2>1, <2>3 DEF Line
<1>10. InOrder(sc, T, gap, Line(d, <<x.id>>, <<>>), FALSE)
  <2>1. InOrder(sc, T, FALSE, Parsed(sc, T, k + n), FALSE)
    BY <1>2, CaughtOrder
  <2> QED
    BY <1>9, <2>1 DEF InOrder
<1>11. /\ rest \in Seq(S) /\ Len(rest) = Len(buf) - n /\ Len(rest) <= read /\ read - Len(rest) = k + n
       /\ rest = SubSeq(sc, k + n + 1, read)
  <2> DEFINE c == SubSeq(sc, k + n + 1, read)
  <2>1. rest \in Seq(S) /\ Len(rest) = Len(buf) - n /\ \A i \in 1 .. Len(buf) - n : rest[i] = buf[n + i]
    BY <1>1
  <2>2. c \in Seq(S) /\ Len(c) = Len(buf) - n /\ \A i \in 1 .. Len(buf) - n : c[i] = sc[k + n + i]
    <3> DEFINE lo == k + n
               len == Len(buf) - n
    <3>1. lo \in Nat /\ len \in Nat /\ lo + len = read /\ read \in Nat /\ read <= Len(sc) /\ sc \in Seq(S)
      BY <1>1, <1>2
    <3> HIDE DEF lo, len
    <3>2. /\ SubSeq(sc, lo + 1, read) \in Seq(S) /\ Len(SubSeq(sc, lo + 1, read)) = len
          /\ \A i \in 1 .. len : SubSeq(sc, lo + 1, read)[i] = sc[lo + i]
      BY <3>1
    <3> QED
      BY <3>2 DEF lo, len
  <2>3. \A i \in 1 .. Len(buf) - n : n + i \in 1 .. Len(buf) /\ k + (n + i) = k + n + i
    BY <1>1, <1>2
  <2> HIDE DEF rest, c
  <2>4. Len(rest) = Len(c) /\ \A i \in 1 .. Len(rest) : rest[i] = c[i]
    BY <1>4, <2>1, <2>2, <2>3
  <2>5. rest = c
    BY <2>1, <2>2, <2>4, SeqEqual
  <2> QED
    BY <1>1, <1>2, <2>1, <2>5 DEF c
<1> HIDE DEF rest
<1>12. Caught(sc, T, read, gap, Line(d, <<x.id>>, <<>>), <<>>, rest)
  <2>1. \A i \in 1 .. Len(Parsed(sc, T, k + n)) : Parsed(sc, T, k + n)[i] \in 1 .. k + n
    BY <1>2, CaughtOrder
  <2>2. \A i \in 1 .. Len(Line(d, <<x.id>>, <<>>)) : Line(d, <<x.id>>, <<>>)[i] <= k + n
    BY <1>1, <1>2, <1>9, <2>1
  <2> QED
    BY <1>9, <1>11, <2>2 DEF Caught
<1>13. FlowTypes(sc, T, read, d, <<x.id>>, <<>>, rest)
  BY <1>1, <1>7, <1>11 DEF FlowTypes, S
<1>14. Flow(sc, T, read, gap, d, <<x.id>>, <<>>, rest, FALSE, TRUE)
  BY <1>2, <1>10, <1>12, <1>13 DEF Flow
<1> QED
  BY <1>14 DEF x, rest

\* The last message returned might as well be in hand still.
LEMMA FlowHolds ==
    ASSUME NEW sc, NEW T, NEW read, NEW gap, NEW d \in Seq(Nat), NEW x \in Nat, NEW q, NEW buf,
           NEW broken, NEW live, Flow(sc, T, read, gap, Append(d, x), <<>>, q, buf, broken, live)
    PROVE  Flow(sc, T, read, gap, d, <<x>>, q, buf, broken, live)
<1>1. FlowTypes(sc, T, read, Append(d, x), <<>>, q, buf)
  BY DEF Flow
<1>2. Append(d, x) \o <<>> = d \o <<x>>
  OBVIOUS
<1>3. Line(d, <<x>>, q) = Line(Append(d, x), <<>>, q)
  BY <1>2 DEF Line
<1>4. FlowTypes(sc, T, read, d, <<x>>, q, buf)
  BY <1>1 DEF FlowTypes
<1> QED
  BY <1>3, <1>4 DEF Flow

\* A stream that is over may keep anything in its read buffer.
LEMMA FlowOver ==
    ASSUME NEW sc, NEW T, NEW read, NEW gap, NEW d, NEW h, NEW q, NEW buf, NEW broken, NEW live,
           Flow(sc, T, read, gap, d, h, q, buf, broken, live), NEW buf2 \in Seq(FramesOf(sc))
    PROVE  Flow(sc, T, read, gap, d, h, q, buf2, FALSE, FALSE)
  BY DEF Flow, FlowTypes, InOrder

\* The parser takes the frames in front of the first bad one.
LEMMA UpToPrefix ==
    ASSUME NEW S, NEW v \in Seq(S)
    PROVE  \E m \in 0 .. Len(v) : UpTo(v) = SubSeq(v, 1, m) /\ (BadAt(v) = {} => m = Len(v))
<1>1. CASE BadAt(v) = {}
  <2>1. UpTo(v) = SubSeq(v, 1, Len(v)) /\ Len(v) \in 0 .. Len(v)
    BY <1>1 DEF UpTo
  <2> QED
    BY <2>1
<1>2. CASE BadAt(v) # {}
  <2> DEFINE b == CHOOSE i \in BadAt(v) : \A j \in BadAt(v) : i <= j
  <2>1. BadAt(v) \in SUBSET Nat /\ BadAt(v) \subseteq 1 .. Len(v)
    BY DEF BadAt
  <2>2. \E i \in BadAt(v) : \A j \in BadAt(v) : i <= j
    BY <1>2, <2>1, LeastNatural
  <2>3. b \in BadAt(v)
    BY <2>2
  <2>4. UpTo(v) = SubSeq(v, 1, b - 1)
    BY <1>2 DEF UpTo
  <2> HIDE DEF b
  <2>5. b - 1 \in 0 .. Len(v)
    BY <2>1, <2>3
  <2> QED
    BY <1>2, <2>4, <2>5
<1> QED
  BY <1>1, <1>2

\* The script of a run, as the lemmas on message order want it.
LEMMA RunScript ==
    ASSUME NetInv
    PROVE  /\ Script(net.script) /\ FramesOf(net.script) = Sent
           /\ \A f \in Sent : f.id \in Nat /\ f.id \in 1 .. Len(net.script) /\ net.script[f.id] = f
           /\ net.read \in Nat /\ net.arrived \in Nat /\ Len(net.script) \in Nat
<1>1. FramesOf(net.script) = Sent
  BY DEF FramesOf, Sent
<1>2. Numbered(net.script)
  BY DEF NetInv, Numbered
<1>3. net.script \in Seq(Sent)
  BY SMTT(40) DEF NetInv, Sent
<1>4. Script(net.script)
  BY <1>1, <1>2, <1>3 DEF Script
<1> QED
  BY <1>1, <1>4, ScriptFrames DEF NetInv

-----------------------------------------------------------------------------
(* Messages *)

Msg == NetInv /\ FrameTypes /\ HandInv /\ FlowInv /\ KeepInv

\* What the proofs about messages look at, besides the poll in progress.
SameNet == net'.script = net.script /\ net'.read = net.read
SameHand ==
    /\ s'.control = s.control /\ s'.pending = s.pending /\ s'.batch = s.batch
    /\ InParser' = InParser
SameBuffer == s'.read_buf = s.read_buf /\ s'.unprocessed = s.unprocessed
StaysInProcess == Reading /\ Towards = "process" => Reading' /\ Towards' = "process"

\* The same script, the same messages.
LEMMA SameMessages ==
    ASSUME net'.script = net.script
    PROVE  Sent' = Sent /\ Message' = Message /\ Whole' = Whole
  BY DEF Sent, Message, Whole

\* A step that leaves the messages where they are.
LEMMA MsgSame ==
    ASSUME Msg, NetInv', SameNet, SameHand, SameBuffer, StaysInProcess, "none" \notin due',
           seen'.delivered = seen.delivered, s'.parse_error => s.parse_error,
           s.state = "Closed" => s'.state = "Closed", Live' => Live,
           s'.state # "Closed" /\ (s'.control # NoFrame \/ s'.close_after_flush) => s'.flush_on_read
    PROVE  Msg'
<1>1. Sent' = Sent /\ Message' = Message
  BY SameMessages DEF SameNet
<1>2. FrameTypes' /\ HandInv'
  BY <1>1 DEF Msg, FrameTypes, HandInv, SameHand, SameBuffer
<1>3. KeepInv'
  BY DEF Msg, KeepInv, SameHand, SameBuffer, StaysInProcess
<1>4. Hand' = Hand
  BY DEF Hand, SameHand
<1>5. Flow(net.script, Whole, net.read, FALSE, seen.delivered, Hand, s.batch, s.read_buf, FALSE, Live)
  BY DEF Msg, FlowInv
<1>6. Flow(net.script, Whole, net.read, FALSE, seen.delivered, Hand, s.batch, s.read_buf, FALSE, Live')
  BY <1>5, FlowWeaker
<1>7. FlowInv'
  BY <1>4, <1>6 DEF FlowInv, SameNet, SameHand, SameBuffer, Whole
<1> QED
  BY <1>2, <1>3, <1>7 DEF Msg

\* A step that ends the stream and drops the messages in hand.
LEMMA MsgOver ==
    ASSUME Msg, NetInv', SameNet, SameBuffer, s'.state = "Closed", "none" \notin due',
           Hand' = <<>>, s'.batch = <<>>, InParser' = NoFrame, s'.control = NoFrame, s'.pending = <<>>,
           s'.parse_error => s.parse_error,
           \/ seen'.delivered = seen.delivered
           \/ s.control # NoFrame /\ seen'.delivered = Append(seen.delivered, s.control.id)
    PROVE  Msg'
<1>0. Script(net.script) /\ FramesOf(net.script) = Sent /\ \A f \in Sent : f.id \in Nat
  BY RunScript DEF Msg
<1>1. Sent' = Sent /\ Message' = Message
  BY SameMessages DEF SameNet
<1>2. FrameTypes' /\ HandInv' /\ KeepInv' /\ ~Live'
  BY <1>1 DEF Msg, FrameTypes, HandInv, KeepInv, SameBuffer, Live
<1>3. Flow(net.script, Whole, net.read, FALSE, seen.delivered, Hand, s.batch, s.read_buf, FALSE, Live)
  BY DEF Msg, FlowInv
<1>4. Flow(net.script, Whole, net.read, FALSE, seen'.delivered, <<>>, <<>>, s.read_buf, FALSE, FALSE)
  <2>1. CASE seen'.delivered = seen.delivered
    BY <1>0, <1>3, <2>1, FlowEnds
  <2>2. CASE s.control # NoFrame /\ seen'.delivered = Append(seen.delivered, s.control.id)
    <3>1. Hand = <<s.control.id>> /\ s.control.id \in Nat
      BY <1>0, <2>2 DEF Hand, Msg, FrameTypes, Message
    <3>2. Flow(net.script, Whole, net.read, FALSE, seen'.delivered, <<>>, s.batch, s.read_buf, FALSE, Live)
      BY <1>0, <1>3, <2>2, <3>1, FlowReturns
    <3> QED
      BY <1>0, <3>2, FlowEnds
  <2> QED
    BY <2>1, <2>2
<1>5. FlowInv'
  <2>1. Live' = FALSE
    BY <1>2
  <2> QED
    BY <1>4, <2>1 DEF FlowInv, SameNet, SameBuffer, Whole
<1> QED
  BY <1>2, <1>5 DEF Msg

\* The deadlines that can pass.
LEMMA DueStep ==
    ASSUME Steps, "none" \notin due
    PROVE  "none" \notin due'
<1>1. due' = due \/ due' \subseteq due \/ \E d \in {"ping", "pong", "idle", "close"} : due' = due \cup {d}
  BY DEF Steps, reactor_takes_stream, reactor_wakes, poll, handover, poll_registers, drain_write,
     drain_pong, drain_flush, drain_blocked, drain_fails, poll_transport_shutdown,
     compressed_transport_shutdown, next_top, next_flushed, next_shut, next_errors, next_deadlines,
     next_message, next_ping, next_close, next_buffered, next_io, next_late_shut, next_fed, next_read,
     next_nodata, process_read_buf, compressed_process_read_buf, poll_ready, sink_done, start_send,
     poll_flush, poll_close_ended, poll_close, poll_close_flushed, poll_close_shut, close, close_write,
     close_shutdown, close_fails, close_cancelled, peer_sends, becomes_writable, breaks, time_passes,
     timer_fires, InboundDue
<1> QED
  BY <1>1

\* The transport delivers what the peer sent.
LEMMA NetStep ==
    ASSUME Record(net, NetFields), NetInv, Steps
    PROVE  NetInv' /\ net'.script = net.script /\ (~next_read => net'.read = net.read)
<1>1. CASE peer_sends
  BY <1>1 DEF peer_sends, Event, NetInv, Record, NetFields
<1>2. CASE next_read
  <2>1. CASE \E n \in 1 .. net.arrived - net.read : net' = [net EXCEPT !.read = @ + n]
    <3>1. PICK n \in 1 .. net.arrived - net.read : net' = [net EXCEPT !.read = @ + n]
      BY <2>1
    <3>2. net'.script = net.script /\ net'.read = net.read + n /\ net'.arrived = net.arrived
      BY <3>1 DEF Record, NetFields
    <3>3. net.read + n \in 0 .. net.arrived
      BY DEF NetInv
    <3> QED
      BY <1>2, <3>2, <3>3 DEF NetInv
  <2>2. CASE \E x : net' = [net EXCEPT !.interest = x]
    <3>1. net'.script = net.script /\ net'.read = net.read /\ net'.arrived = net.arrived
      BY <2>2 DEF Record, NetFields
    <3> QED
      BY <1>2, <3>1 DEF NetInv
  <2>3. CASE net' = net
    BY <1>2, <2>3 DEF NetInv
  <2> QED
    BY <1>2, <2>1, <2>2, <2>3 DEF next_read
<1>3. CASE net' = net
  BY <1>3 DEF NetInv
<1>4. CASE reactor_takes_stream \/ reactor_wakes \/ drain_write \/ drain_blocked
           \/ poll_transport_shutdown \/ compressed_transport_shutdown
           \/ close_write \/ becomes_writable \/ breaks \/ timer_fires
  <2>1. net'.script = net.script /\ net'.read = net.read /\ net'.arrived = net.arrived
    BY <1>4 DEF reactor_takes_stream, reactor_wakes, drain_write, drain_blocked, Write, Event,
         poll_transport_shutdown, compressed_transport_shutdown, close_write, becomes_writable, breaks,
         timer_fires, Record, NetFields
  <2> QED
    BY <2>1 DEF NetInv
<1> QED
  BY <1>1, <1>2, <1>3, <1>4
  DEF Steps, poll, handover, poll_registers,
     drain_pong, drain_flush, drain_fails, next_top, next_flushed, next_shut, next_errors, next_deadlines,
     next_message, next_ping, next_close, next_buffered, next_io, next_late_shut, next_fed,
     next_nodata, process_read_buf, compressed_process_read_buf, poll_ready, sink_done, start_send,
     poll_flush, poll_close_ended, poll_close, poll_close_flushed, poll_close_shut, close,
     close_shutdown, close_fails, close_cancelled, time_passes

\* Who sleeps changes when a poll begins, a half is handed over or a poll returns Pending.
LEMMA OutcomeAsleep ==
    ASSUME Base, PollAt(p), Outcome
    PROVE  /\ w'.asleep["Stream"] = w.asleep["Stream"] \/ (Reading /\ Dozes)
           /\ Dozes \/ Leaves \/ Ends => p' = Idle
<1>0. WShape(w)
  BY DEF Base, Shapes
<1>1. CASE Passes
  <2>1. SameSlots(w')
    BY <1>0, <1>1, TurnedSlots DEF Passes
  <2> QED
    BY <2>1 DEF SameSlots, Leaves, Ends, Dozes, Return, Pending
<1>2. CASE Leaves
  <2>1. PICK wk : Turned(wk) /\ Return(wk)
    BY <1>2 DEF Leaves
  <2>2. WShape(wk) /\ SameSlots(wk)
    BY <1>0, <2>1, TurnedSlots
  <2> QED
    BY <2>1, <2>2 DEF Return, SameSlots, WShape, Record, WFields
<1>3. CASE Ends
  <2>1. PICK wk : Turned(wk) /\ Return(TerminalWakes(wk))
    BY <1>3 DEF Ends
  <2>2. WShape(wk) /\ SameSlots(wk)
    BY <1>0, <2>1, TurnedSlots
  <2> DEFINE k == TerminalWakes(wk)
  <2>3. WShape(k) /\ k.asleep = wk.asleep
    BY <2>2, AllWoken
  <2>4. Return(k)
    BY <2>1
  <2> HIDE DEF k
  <2> QED
    BY <2>2, <2>3, <2>4 DEF Return, SameSlots, WShape, Record, WFields
<1>4. CASE Dozes
  <2>1. PICK wk : Turned(wk) /\ Pending(wk)
    BY <1>4 DEF Dozes
  <2>2. WShape(wk) /\ SameSlots(wk)
    BY <1>0, <2>1, TurnedSlots
  <2>3. p.half = "Stream" <=> Reading
    BY DEF PollAt, Reading
  <2>4. p' = Idle /\ w' = [wk EXCEPT !.asleep[p.half] = p.task]
    BY <2>1 DEF Pending
  <2>5. Record(wk, WFields) /\ Record(wk.asleep, Half) /\ wk.asleep = w.asleep
    BY <2>2 DEF WShape, SameSlots
  <2>6. p.half # "Stream" => w'.asleep["Stream"] = wk.asleep["Stream"]
    BY <2>4, <2>5 DEF Record, WFields, Half
  <2> QED
    BY <1>4, <2>3, <2>4, <2>5, <2>6
<1> QED
  BY <1>1, <1>2, <1>3, <1>4 DEF Outcome

\* Every step that is not one of poll_next.
LEMMA OthersAsleep ==
    ASSUME Base,
           \/ reactor_takes_stream \/ reactor_wakes
           \/ (\E op \in setup.calls \ {"close_both"} : poll(op))
           \/ (\E h \in Half, task \in Tasks : handover(h, task))
           \/ poll_registers \/ drain_write \/ drain_pong \/ drain_flush \/ drain_blocked \/ drain_fails
           \/ poll_transport_shutdown \/ compressed_transport_shutdown
           \/ poll_ready \/ sink_done \/ poll_flush \/ poll_close_ended \/ poll_close
           \/ poll_close_flushed \/ poll_close_shut
           \/ (\E item \in setup.items : start_send(item))
           \/ close \/ close_write \/ close_shutdown \/ close_fails \/ close_cancelled
           \/ peer_sends \/ becomes_writable \/ breaks
           \/ (\E d \in {"ping", "pong", "idle", "close"} : time_passes(d))
           \/ timer_fires
    PROVE  w'.asleep["Stream"] \in {NoTask, w.asleep["Stream"]}
<1>0. WShape(w)
  BY DEF Base, Shapes
<1>1. CASE w' = w
  BY <1>1
<1>2. CASE Turned(w')
  BY <1>0, <1>2, TurnedSlots DEF SameSlots
<1>3. Turned(ClosingTimer(w)) /\ Turned(ClosingPolled(w)) /\ \A x : Turned([w EXCEPT !.timer = x])
  BY <1>0, TimersTurn
<1>4. \A hs : Wake(w, hs).asleep = w.asleep /\ WShape(Wake(w, hs)) /\ Taken(w, hs).asleep = w.asleep
  <2> TAKE hs
  <2>1. Wake(w, hs).asleep = w.asleep /\ WShape(Wake(w, hs))
    BY <1>0, WakeEffect
  <2>2. Taken(w, hs).asleep = w.asleep
    BY <1>0 DEF Taken, WShape, Record, WFields
  <2> QED
    BY <2>1, <2>2
<1>5. \A wk : WShape(wk) => TerminalWakes(wk).asleep = wk.asleep
  BY AllWoken
<1>6. \A wk, h : WShape(wk) => WShape(Settled(wk, h)) /\ Settled(wk, h).asleep = wk.asleep
  <2> TAKE wk, h
  <2> HAVE WShape(wk)
  <2> DEFINE r == Settled(wk, h)
  <2>1. r = wk \/ r = [wk EXCEPT !.waiting["Sink"] = FALSE]
    BY DEF Settled
  <2> HIDE DEF r
  <2>2. WShape(r) /\ r.asleep = wk.asleep
    BY <2>1 DEF WShape, Record, WFields, Half
  <2> QED
    BY <2>2 DEF r
<1>7. \A h : WShape(PingFlushWakes(w, h)) /\ PingFlushWakes(w, h).asleep = w.asleep
  BY <1>0, <1>4 DEF PingFlushWakes
<1>8. CASE reactor_takes_stream \/ reactor_wakes
  <2>1. CASE reactor_takes_stream
    BY <1>4, <2>1 DEF reactor_takes_stream
  <2>2. CASE reactor_wakes
    <3> DEFINE k == Wake(w, {"Sink"})
    <3>1. WShape(k) /\ k.asleep = w.asleep
      BY <1>4
    <3>2. w' = [k EXCEPT !.woken = @ \cup Heard(w, net.taken)]
      BY <2>2 DEF reactor_wakes
    <3> HIDE DEF k
    <3> QED
      BY <3>1, <3>2 DEF WShape, Record, WFields
  <2> QED
    BY <1>8, <2>1, <2>2
<1>9. CASE \E op \in setup.calls \ {"close_both"} : poll(op)
  <2>1. PICK op \in setup.calls \ {"close_both"} : poll(op)
    BY <1>9
  <2> DEFINE half == IF op = "next" THEN "Stream" ELSE "Sink"
             task == w.owner[half]
  <2>2. w' = [w EXCEPT !.woken = @ \ {task},
                       !.asleep = [h \in Half |-> IF h = half \/ @[h] = task THEN NoTask ELSE @[h]]]
    BY <2>1 DEF poll
  <2> HIDE DEF half, task
  <2>4. w'.asleep = [h \in Half |-> IF h = half \/ w.asleep[h] = task THEN NoTask ELSE w.asleep[h]]
    BY <1>0, <2>2 DEF WShape, Record, WFields
  <2> QED
    BY <2>4 DEF Half
<1>10. CASE \E h \in Half, task \in Tasks : handover(h, task)
  <2>1. PICK h \in Half, task \in Tasks : handover(h, task)
    BY <1>10
  <2>2. w' = [w EXCEPT !.owner[h] = task, !.moves = @ + 1, !.asleep[h] = NoTask]
    BY <2>1 DEF handover
  <2>3. w'.asleep = [w.asleep EXCEPT ![h] = NoTask]
    BY <1>0, <2>2 DEF WShape, Record, WFields
  <2> QED
    BY <1>0, <2>3 DEF WShape, Record, Half
<1>11. CASE poll_registers
  <2>1. w' \in register(w, p.half)
    BY <1>11 DEF poll_registers
  <2>2. \/ w' = [w EXCEPT !.waiting[p.half] = TRUE]
        \/ w' = [w EXCEPT !.waiting[p.half] = TRUE, !.waker[p.half] = p.task,
                         !.armed[p.half] = TRUE, !.registered[p.half] = p.task]
    BY <2>1 DEF register
  <2>3. w'.asleep = w.asleep
    BY <1>0, <2>2 DEF WShape, Record, WFields
  <2> QED
    BY <2>3
<1>12. CASE drain_pong \/ drain_flush
  BY <1>6, <1>7, <1>12 DEF drain_pong, drain_flush
<1>13. CASE drain_fails
  BY <1>0, <1>5, <1>6, <1>13 DEF drain_fails
<1>14. CASE poll_transport_shutdown \/ compressed_transport_shutdown
  BY <1>0, <1>6, <1>14 DEF poll_transport_shutdown, compressed_transport_shutdown
<1>15. CASE \/ poll_ready \/ sink_done \/ poll_flush \/ poll_close_ended \/ poll_close
            \/ poll_close_flushed \/ poll_close_shut
  <2>1. Outcome /\ PollAt(p) /\ ~Reading
    BY <1>15, SinkOutcome, SinkAt DEF poll_ready, sink_done, poll_flush, poll_close_ended, poll_close,
         poll_close_flushed, poll_close_shut
  <2> QED
    BY <2>1, OutcomeAsleep
<1>16. CASE \E item \in setup.items : start_send(item)
  BY <1>2, <1>3, <1>16 DEF start_send
<1>17. CASE close \/ close_write \/ close_shutdown \/ close_fails \/ close_cancelled
  BY <1>0, <1>2, <1>3, <1>5, <1>17 DEF close, close_write, close_shutdown, close_fails, close_cancelled
<1>18. CASE timer_fires
  BY <1>2, <1>3, <1>18 DEF timer_fires
<1> QED
  BY <1>1, <1>8, <1>9, <1>10, <1>11, <1>12, <1>13, <1>14, <1>15, <1>16, <1>17, <1>18
  DEF drain_write, drain_blocked, peer_sends, becomes_writable, breaks, time_passes

\* The stream's messages are as they were.
SameView ==
    /\ s'.control = s.control /\ s'.pending = s.pending /\ s'.batch = s.batch /\ SameBuffer
    /\ s'.parse_error = s.parse_error /\ s'.close_after_flush = s.close_after_flush
    /\ s'.flush_on_read = s.flush_on_read /\ (s'.state = "Closed" <=> s.state = "Closed")
    /\ (s'.state = "Open" => s.state = "Open") /\ (s.closing => s'.closing)

\* A step that keeps them, with the poll where it is or back from the transport.
LEMMA MsgQuiet ==
    ASSUME Base, Msg, ReadInv, NetInv', SameNet, SameView, "none" \notin due',
           seen'.delivered = seen.delivered,
           w'.asleep["Stream"] \in {NoTask, w.asleep["Stream"]},
           ~Reading => ~Reading',
           Reading => /\ p'.op = p.op /\ p'.parsed = p.parsed /\ p'.expired = p.expired
                      /\ Towards' = Towards /\ due' = due
                      /\ s.state # "Closed" \/ p' = p
                      /\ \/ p' = p
                         \/ ~(p'.pc = "drain" \/ (p'.pc = "register" /\ p'.call = "drain"))
                         \/ p.pc = "register" /\ p.call = "drain" /\ p'.ret = p.ret
    PROVE  Msg' /\ ReadInv'
<1>1. InParser' = InParser /\ (Reading <=> Reading')
  BY DEF InParser, Reading
<1>2. Live' = Live
  BY DEF Live, SameView
<1>3. Msg'
  BY <1>1, <1>2, MsgSame DEF SameHand, SameView, StaysInProcess, Msg, KeepInv
<1>4. Hand' = Hand
  BY <1>1 DEF Hand, SameView
<1>5. EmptyHanded' = EmptyHanded
  BY <1>4 DEF EmptyHanded, SameView
<1>6. SleepsEmpty'
  BY <1>5 DEF ReadInv, SleepsEmpty, SameView, SameBuffer
<1>7. ASSUME Reading PROVE ReaderInv'
  <2>1. CASE s.state = "Closed"
    BY <1>7, <2>1 DEF ReadInv, ReaderInv, SameView
  <2>2. CASE s.state # "Closed"
    <3>1. s'.state # "Closed"
      BY <2>2 DEF SameView
    <3>2. p'.pc = "drain" \/ (p'.pc = "register" /\ p'.call = "drain") => p'.ret \in {"flushed", "fed"}
      BY <1>7, <2>2 DEF ReadInv, ReaderInv
    <3> QED
      BY <1>2, <1>5, <1>7, <2>2, <3>1, <3>2 DEF ReadInv, ReaderInv, SameView, SameBuffer
  <2> QED
    BY <2>1, <2>2
<1>8. ReaderInv'
  BY <1>1, <1>7 DEF ReaderInv
<1> QED
  BY <1>3, <1>6, <1>8 DEF Msg, ReadInv

\* The stream has ended, and with it the poll.
Over ==
    /\ s'.state = "Closed" /\ s'.control = NoFrame /\ s'.pending = <<>> /\ s'.batch = <<>>
    /\ SameBuffer /\ s'.parse_error = s.parse_error /\ p' = Idle

\* finish_read_close at the end of a poll.
LEMMA FinishOver ==
    ASSUME Record(s, SFields), s' = finish_read_close(s), p' = Idle
    PROVE  Over
  BY FinishFields DEF Over, SameBuffer

\* What the steps other than those of poll_next do to the messages.
LEMMA OthersView ==
    ASSUME Base,
           \/ (\E op \in setup.calls \ {"close_both"} : poll(op))
           \/ poll_registers \/ drain_write \/ drain_pong \/ drain_flush \/ drain_blocked
           \/ poll_transport_shutdown \/ compressed_transport_shutdown
           \/ poll_ready \/ sink_done \/ poll_flush \/ poll_close_ended \/ poll_close
           \/ poll_close_flushed \/ poll_close_shut
           \/ (\E item \in setup.items : start_send(item))
           \/ close \/ close_write \/ close_shutdown \/ close_fails \/ close_cancelled
           \/ UNCHANGED <<s, seen>>
    PROVE  (SameView \/ Over) /\ seen'.delivered = seen.delivered
<1>0. Record(s, SFields) /\ Record(seen, SeenFields)
  BY DEF Base, Shapes
<1> DEFINE Good == (SameView \/ Over) /\ seen'.delivered = seen.delivered
<1> SUFFICES Good
  OBVIOUS
<1>1. CASE UNCHANGED <<s, seen>>
  BY <1>1 DEF SameView, SameBuffer
<1>2. CASE \E op \in setup.calls \ {"close_both"} : poll(op)
  BY <1>1, <1>2 DEF poll
<1>3. CASE poll_registers \/ drain_blocked
  BY <1>1, <1>3 DEF poll_registers, drain_blocked
<1>4. CASE drain_write
  <2>1. \E y : s' = [s EXCEPT !.write_buf = y]
    BY <1>4 DEF drain_write, Write
  <2>2. seen'.delivered = seen.delivered
    BY <1>0, <1>4 DEF drain_write, Write, Record, SeenFields
  <2> QED
    BY <1>0, <2>1, <2>2 DEF Record, SFields, SameView, SameBuffer
<1>5. CASE drain_pong
  BY <1>0, <1>5 DEF drain_pong, PingFlushed, Encode, Record, SFields, SeenFields, SameView, SameBuffer
<1>6. CASE drain_flush
  BY <1>0, <1>6 DEF drain_flush, PingFlushed, Record, SFields, SameView, SameBuffer
<1>7. CASE poll_transport_shutdown \/ compressed_transport_shutdown
  BY <1>0, <1>7 DEF poll_transport_shutdown, compressed_transport_shutdown, Record, SFields, SameView, SameBuffer
<1>8. CASE poll_ready
  BY <1>0, <1>1, <1>8 DEF poll_ready, Record, SFields, SeenFields, SameView, SameBuffer
<1>9. CASE s' = finish_read_close(s) /\ p' = Idle /\ seen' = seen
  BY <1>0, <1>9, FinishOver
<1>10. CASE sink_done
  <2>1. CASE s' = s /\ seen' = [seen EXCEPT !.admitted = @ \/ (p.op = "ready" /\ p.res = "ready")]
    BY <1>0, <2>1 DEF Record, SeenFields, SameView, SameBuffer
  <2> QED
    BY <1>1, <1>9, <1>10, <2>1 DEF sink_done, Return
<1>11. CASE s' = begin_closing(s) /\ seen' = seen
  BY <1>0, <1>11 DEF begin_closing, Record, SFields, SameView, SameBuffer
<1>12. CASE poll_flush
  BY <1>1, <1>12 DEF poll_flush
<1>13. CASE poll_close_ended
  BY <1>9, <1>11, <1>13 DEF poll_close_ended, Return
<1>14. CASE poll_close
  <2>1. CASE s.state = "Open"
    <3>1. seen'.delivered = seen.delivered
      BY <1>0, <1>14, <2>1 DEF poll_close, Encoded, Record, SeenFields
    <3>2. \E x : s' = [begin_closing([s EXCEPT !.write_buf = x]) EXCEPT !.state = "CloseSent"]
      BY <1>14, <2>1 DEF poll_close, Encode
    <3> QED
      BY <1>0, <2>1, <3>1, <3>2 DEF begin_closing, Record, SFields, SameView, SameBuffer
  <2> QED
    BY <1>11, <1>14, <2>1 DEF poll_close
<1>15. CASE poll_close_flushed
  BY <1>1, <1>9, <1>15 DEF poll_close_flushed, Return
<1>16. CASE poll_close_shut
  BY <1>1, <1>9, <1>16 DEF poll_close_shut, Return
<1>17. CASE \E item \in setup.items : start_send(item)
  <2>1. PICK item \in setup.items : start_send(item)
    BY <1>17
  <2>2. seen'.delivered = seen.delivered
    BY <1>0, <2>1 DEF start_send, Record, SeenFields
  <2>3. CASE s' = s
    BY <2>2, <2>3 DEF SameView, SameBuffer
  <2>4. CASE s.state = "Open"
    <3>1. \/ \E x : s' = [s EXCEPT !.write_buf = x]
          \/ \E x : s' = [[begin_closing(s) EXCEPT !.state = "CloseSent"] EXCEPT !.write_buf = x]
      BY <2>1, <2>4 DEF start_send
    <3>2. CASE \E x : s' = [s EXCEPT !.write_buf = x]
      BY <1>0, <2>2, <3>2 DEF Record, SFields, SameView, SameBuffer
    <3>3. CASE \E x : s' = [[begin_closing(s) EXCEPT !.state = "CloseSent"] EXCEPT !.write_buf = x]
      BY <1>0, <2>2, <2>4, <3>3 DEF begin_closing, Record, SFields, SameView, SameBuffer
    <3> QED
      BY <3>1, <3>2, <3>3
  <2> QED
    BY <2>1, <2>3, <2>4 DEF start_send
<1>18. CASE close
  BY <1>0, <1>18 DEF close, Encode, Encoded, begin_closing, Record, SFields, SeenFields, SameView, SameBuffer
<1>19. CASE close_write
  <2>1. s' = s \/ \E x, y : s' = [s EXCEPT !.shutdown = x] \/ s' = [s EXCEPT !.write_buf = y]
    BY <1>19 DEF close_write, Write
  <2>2. seen'.delivered = seen.delivered
    BY <1>0, <1>19 DEF close_write, Write, Record, SeenFields
  <2> QED
    BY <1>0, <2>1, <2>2 DEF Record, SFields, SameView, SameBuffer
<1>20. CASE close_shutdown
  BY <1>0, <1>20 DEF close_shutdown, Record, SFields, SameView, SameBuffer
<1>21. CASE close_fails
  <2> DEFINE st == IF p.pc = "end" /\ net.broken /\ ~setup.compressed
                   THEN [s EXCEPT !.shutdown = "Failed"] ELSE s
  <2>1. /\ Record(st, SFields) /\ st.read_buf = s.read_buf /\ st.unprocessed = s.unprocessed
        /\ st.parse_error = s.parse_error
    BY <1>0 DEF Record, SFields
  <2>2. s' = finish_read_close(st) /\ p' = Idle /\ seen' = seen
    BY <1>21 DEF close_fails
  <2> HIDE DEF st
  <2> QED
    BY <2>1, <2>2, FinishFields DEF Over, SameBuffer
<1>22. CASE close_cancelled
  BY <1>1, <1>22 DEF close_cancelled
<1> QED
  BY <1>1, <1>2, <1>3, <1>4, <1>5, <1>6, <1>7, <1>8, <1>10, <1>12, <1>13, <1>14, <1>15, <1>16, <1>17,
     <1>18, <1>19, <1>20, <1>21, <1>22

\* The stream is over for a poll that ends it.
LEMMA MsgEnded ==
    ASSUME Msg, NetInv', SameNet, Over, "none" \notin due',
           \/ seen'.delivered = seen.delivered
           \/ s.control # NoFrame /\ seen'.delivered = Append(seen.delivered, s.control.id)
    PROVE  Msg' /\ ReadInv'
<1>1. InParser' = NoFrame /\ ~Reading'
  BY DEF Over, InParser, Reading, Idle
<1>2. Hand' = <<>>
  BY <1>1 DEF Over, Hand
<1>3. Msg'
  BY <1>1, <1>2, MsgOver DEF Over
<1> QED
  BY <1>1, <1>3 DEF Msg, ReadInv, ReaderInv, SleepsEmpty, Over

\* Where the poll is after a step other than those of poll_next.
LEMMA OthersPlace ==
    ASSUME Base, ReadInv,
           \/ poll_registers \/ drain_flush \/ drain_blocked
           \/ poll_transport_shutdown \/ compressed_transport_shutdown
           \/ poll_ready \/ sink_done \/ poll_flush \/ poll_close_ended \/ poll_close
           \/ poll_close_flushed \/ poll_close_shut
           \/ close \/ close_write \/ close_shutdown \/ close_fails \/ close_cancelled
           \/ (\E op \in setup.calls \ {"close_both", "next"} : poll(op))
           \/ p' = p /\ (Reading => due' = due)
    PROVE  /\ ~Reading => ~Reading'
           /\ Reading => /\ p'.op = p.op /\ p'.parsed = p.parsed /\ p'.expired = p.expired
                         /\ Towards' = Towards /\ due' = due
                         /\ s.state # "Closed" \/ p' = p
                         /\ \/ p' = p
                            \/ ~(p'.pc = "drain" \/ (p'.pc = "register" /\ p'.call = "drain"))
                            \/ p.pc = "register" /\ p.call = "drain" /\ p'.ret = p.ret
<1>0. Places
  BY DEF Base
<1>1. CASE p' = p /\ (Reading => due' = due)
  BY <1>1 DEF Reading, Towards
<1>2. CASE poll_registers
  <2>1. PollAt(p) /\ p.op # "none" /\ p.pc = "register" /\ due' = due
        /\ p' = [p EXCEPT !.pc = p.call, !.call = "none"]
    BY <1>0, <1>2, PollSteps DEF poll_registers
  <2>2. SamePoll(p') /\ p'.pc = p.call /\ Bound(p') = Bound(p) /\ p.call \in {"drain", "shutdown"}
        /\ p'.ret = p.ret
    BY <2>1, RegisterAt DEF PollAt, Record, PFields
  <2>3. Reading => s.state # "Closed"
    BY <2>1 DEF ReadInv, ReaderInv
  <2> QED
    BY <2>1, <2>2, <2>3 DEF SamePoll, Reading, Towards
<1>3. CASE drain_flush \/ drain_blocked \/ poll_transport_shutdown \/ compressed_transport_shutdown
  <2>1. p.op # "none" /\ p.pc \in {"drain", "shutdown"} /\ due' = due
        /\ \E res \in {"ready", "pending", "err"} : Result(res)
    BY <1>3 DEF drain_flush, drain_blocked, poll_transport_shutdown, compressed_transport_shutdown, At
  <2>2. PollAt(p)
    BY <1>0, <2>1, PollSteps
  <2>3. SamePoll(p') /\ p'.pc = p.ret /\ Bound(p') = Bound(p) /\ p.ret \in Returns(p.op)
    BY <2>1, <2>2, ResultAt
  <2>4. p'.pc \notin {"drain", "register"}
    BY <2>3 DEF Returns, Waits
  <2>5. Reading => s.state # "Closed"
    BY <2>1 DEF ReadInv, ReaderInv
  <2> QED
    BY <2>1, <2>3, <2>4, <2>5 DEF SamePoll, Reading, Towards
<1>4. CASE p' = Idle /\ ~Reading
  BY <1>4 DEF Reading, Idle
<1>5. CASE \/ poll_ready \/ sink_done \/ poll_flush \/ poll_close_ended \/ poll_close
           \/ poll_close_flushed \/ poll_close_shut
  <2>1. PollAt(p) /\ ~Reading /\ p.op # "next"
    BY <1>5, SinkAt DEF poll_ready, sink_done, poll_flush, poll_close_ended, poll_close,
       poll_close_flushed, poll_close_shut
  <2>2. Outcome
    BY <1>5, SinkOutcome
  <2>3. CASE Passes
    BY <2>1, <2>3 DEF Passes, Goes, Reading
  <2>4. CASE Leaves \/ Ends \/ Dozes
    BY <1>4, <2>1, <2>2, <2>4, OutcomeAsleep
  <2> QED
    BY <2>2, <2>3, <2>4 DEF Outcome
<1>6. CASE close \/ close_write \/ close_shutdown \/ close_fails \/ close_cancelled
  <2>1. ~Reading
    BY <1>6 DEF close, close_write, close_shutdown, close_fails, close_cancelled, Reading, Idle
  <2>2. \/ p' = p \/ p' = Idle \/ p' = [op |-> "closing", half |-> "Stream", pc |-> "write"]
        \/ p' = [p EXCEPT !.pc = "end"] /\ p.op = "closing"
    <3>1. CASE close_write
      BY <3>1 DEF close_write
    <3>2. CASE close
      BY <3>2 DEF close
    <3> QED
      BY <1>6, <3>1, <3>2 DEF close_shutdown, close_fails, close_cancelled
  <2>3. p.op = "closing" => p = [op |-> "closing", half |-> "Stream", pc |-> p.pc]
    BY <1>0 DEF Places, Idle, PollAt
  <2>4. ~Reading'
    BY <2>1, <2>2, <2>3 DEF Reading, Idle
  <2> QED
    BY <2>1, <2>4
<1>7. CASE \E op \in setup.calls \ {"close_both", "next"} : poll(op)
  <2>1. PICK op \in setup.calls \ {"close_both", "next"} : poll(op)
    BY <1>7
  <2>2. p = Idle /\ p'.op = op
    BY <2>1 DEF poll
  <2> QED
    BY <2>2 DEF Reading, Idle
<1> QED
  BY <1>1, <1>2, <1>3, <1>5, <1>6, <1>7

\* The steps of poll_next but for the read, and the steps of everybody else.
Others ==
    \/ reactor_takes_stream \/ reactor_wakes
    \/ (\E op \in setup.calls \ {"close_both"} : poll(op))
    \/ (\E h \in Half, task \in Tasks : handover(h, task))
    \/ poll_registers \/ drain_write \/ drain_pong \/ drain_flush \/ drain_blocked \/ drain_fails
    \/ poll_transport_shutdown \/ compressed_transport_shutdown
    \/ poll_ready \/ sink_done \/ poll_flush \/ poll_close_ended \/ poll_close
    \/ poll_close_flushed \/ poll_close_shut
    \/ (\E item \in setup.items : start_send(item))
    \/ close \/ close_write \/ close_shutdown \/ close_fails \/ close_cancelled
    \/ peer_sends \/ becomes_writable \/ breaks
    \/ (\E d \in {"ping", "pong", "idle", "close"} : time_passes(d))
    \/ timer_fires
NextSteppings ==
    \/ next_top \/ next_flushed \/ next_shut \/ next_errors \/ next_deadlines \/ next_message
    \/ next_ping \/ next_close \/ next_buffered \/ next_io \/ next_late_shut \/ next_fed \/ next_nodata
    \/ process_read_buf \/ compressed_process_read_buf

\* These are all the steps.
LEMMA StepsSplit ==
    /\ Steps => Others \/ NextSteppings \/ next_read
    /\ Others \/ NextSteppings \/ next_read => Steps
  BY DEF Steps, Others, NextSteppings

\* Only the read takes frames from the transport.
LEMMA NetSame ==
    ASSUME Record(net, NetFields), Others \/ NextSteppings
    PROVE  SameNet
<1>1. CASE net' = net
  BY <1>1 DEF SameNet
<1>2. CASE peer_sends
  BY <1>2 DEF peer_sends, Event, SameNet, Record, NetFields
<1>3. CASE reactor_takes_stream \/ reactor_wakes \/ drain_write \/ drain_blocked
  BY <1>3 DEF reactor_takes_stream, reactor_wakes, drain_write, drain_blocked, Write, SameNet, Record, NetFields
<1>4. CASE poll_transport_shutdown \/ compressed_transport_shutdown
  BY <1>4 DEF poll_transport_shutdown, compressed_transport_shutdown, SameNet, Record, NetFields
<1>5. CASE close_write \/ becomes_writable \/ breaks \/ timer_fires
  BY <1>5 DEF close_write, Write, Event, becomes_writable, breaks, timer_fires, SameNet, Record, NetFields
<1> QED
  BY <1>1, <1>2, <1>3, <1>4, <1>5
  DEF Others, NextSteppings, poll, handover, poll_registers,
     drain_pong, drain_flush, drain_fails, next_top, next_flushed, next_shut, next_errors, next_deadlines,
     next_message, next_ping, next_close, next_buffered, next_io, next_late_shut, next_fed,
     next_nodata, process_read_buf, compressed_process_read_buf, poll_ready, sink_done, start_send,
     poll_flush, poll_close_ended, poll_close, poll_close_flushed, poll_close_shut, close,
     close_shutdown, close_fails, close_cancelled, time_passes

\* Everybody else leaves the messages alone or ends the stream.
LEMMA OthersMsg ==
    ASSUME Base, Msg, ReadInv, Others
    PROVE  Msg' /\ ReadInv'
<1>0. /\ Record(s, SFields) /\ Record(net, NetFields) /\ Record(seen, SeenFields) /\ WShape(w)
      /\ Places /\ NetInv /\ "none" \notin due /\ Steps
  BY StepsSplit DEF Base, Shapes, Msg, KeepInv
<1>1. NetInv' /\ SameNet /\ "none" \notin due'
  BY <1>0, NetStep, NetSame, DueStep
<1>2. w'.asleep["Stream"] \in {NoTask, w.asleep["Stream"]}
  BY OthersAsleep DEF Others
<1>3. CASE drain_fails
  <2>1. s' = close_terminal(s) /\ seen' = seen /\ due' = due /\ p.op # "none" /\ p.pc = "drain" /\ Result("err")
    BY <1>3 DEF drain_fails, At
  <2>2. PollAt(p)
    BY <1>0, <2>1, PollSteps
  <2>3. SamePoll(p') /\ p'.pc = p.ret /\ p'.res = "err" /\ Bound(p') = Bound(p) /\ Bound(p) = p.ret
    BY <2>1, <2>2, ResultAt DEF PollAt
  <2>4. /\ s'.state = "Closed" /\ s'.control = s.control /\ s'.pending = s.pending /\ s'.batch = s.batch
        /\ SameBuffer /\ s'.parse_error = s.parse_error
    BY <1>0, <2>1 DEF close_terminal, Record, SFields, SameBuffer
  <2>5. InParser' = InParser /\ (Reading' <=> Reading) /\ Towards' = Towards
    BY <2>3 DEF InParser, Reading, Towards, SamePoll
  <2>6. ~Live'
    BY <2>4 DEF Live
  <2>7. Msg'
    BY <1>1, <2>1, <2>4, <2>5, <2>6, MsgSame DEF SameHand, StaysInProcess
  <2>8. Reading => p.ret \in {"flushed", "fed"}
    BY <2>1 DEF ReadInv, ReaderInv
  <2> QED
    BY <2>3, <2>4, <2>5, <2>7, <2>8 DEF Msg, ReadInv, ReaderInv, SleepsEmpty
<1>4. ASSUME SameView \/ Over, seen'.delivered = seen.delivered,
             \/ poll_registers \/ drain_flush \/ drain_blocked
             \/ poll_transport_shutdown \/ compressed_transport_shutdown
             \/ poll_ready \/ sink_done \/ poll_flush \/ poll_close_ended \/ poll_close
             \/ poll_close_flushed \/ poll_close_shut
             \/ close \/ close_write \/ close_shutdown \/ close_fails \/ close_cancelled
             \/ (\E op \in setup.calls \ {"close_both", "next"} : poll(op))
             \/ p' = p /\ (Reading => due' = due)
      PROVE  Msg' /\ ReadInv'
  <2>1. CASE SameView
    <3>1. /\ ~Reading => ~Reading'
          /\ Reading => /\ p'.op = p.op /\ p'.parsed = p.parsed /\ p'.expired = p.expired
                        /\ Towards' = Towards /\ due' = due
                        /\ s.state # "Closed" \/ p' = p
                        /\ \/ p' = p
                           \/ ~(p'.pc = "drain" \/ (p'.pc = "register" /\ p'.call = "drain"))
                           \/ p.pc = "register" /\ p.call = "drain" /\ p'.ret = p.ret
      BY <1>4, OthersPlace
    <3> QED
      BY <1>1, <1>2, <1>4, <2>1, <3>1, MsgQuiet
  <2>2. CASE Over
    BY <1>1, <1>4, <2>2, MsgEnded
  <2> QED
    BY <1>4, <2>1, <2>2
<1>5. CASE poll("next")
  <2>1. /\ s' = s /\ seen' = seen /\ due' = due /\ p = Idle /\ p'.op = "next" /\ p'.pc = "top"
        /\ p'.parsed = NoFrame /\ p'.expired = "none"
    BY <1>5 DEF poll
  <2>2. InParser' = InParser /\ Reading' /\ ~Reading /\ Towards' = "top"
    BY <2>1 DEF InParser, Reading, Idle, Towards, Bound
  <2>3. Live' = Live
    BY <2>1 DEF Live
  <2>4. Msg'
    BY <1>1, <2>1, <2>2, <2>3, MsgSame DEF SameHand, SameBuffer, StaysInProcess, Msg, KeepInv
  <2>5. EmptyHanded' = EmptyHanded
    BY <2>1, <2>2 DEF EmptyHanded, Hand
  <2>6. SleepsEmpty'
    BY <1>2, <2>1, <2>5 DEF ReadInv, SleepsEmpty
  <2>7. ReaderInv'
    BY <2>1, <2>2 DEF ReaderInv
  <2> QED
    BY <2>4, <2>6, <2>7 DEF Msg, ReadInv
<1>6. CASE \E op \in setup.calls \ {"close_both", "next"} : poll(op)
  <2>1. s' = s /\ seen' = seen
    BY <1>6 DEF poll
  <2>2. SameView /\ seen'.delivered = seen.delivered
    BY <2>1, OthersView DEF SameView, SameBuffer
  <2> QED
    BY <1>4, <1>6, <2>2
<1>7. CASE \/ poll_registers \/ drain_flush \/ drain_blocked
           \/ poll_transport_shutdown \/ compressed_transport_shutdown
           \/ poll_ready \/ sink_done \/ poll_flush \/ poll_close_ended \/ poll_close
           \/ poll_close_flushed \/ poll_close_shut
           \/ close \/ close_write \/ close_shutdown \/ close_fails \/ close_cancelled
  BY <1>4, <1>7, OthersView
<1>8. CASE drain_write \/ drain_pong \/ \E item \in setup.items : start_send(item)
  <2>1. p' = p /\ due' = due
    BY <1>8 DEF drain_write, drain_pong, start_send
  <2>2. (SameView \/ Over) /\ seen'.delivered = seen.delivered
    BY <1>8, OthersView
  <2> QED
    BY <1>4, <2>1, <2>2
<1>9. CASE \/ reactor_takes_stream \/ reactor_wakes
           \/ (\E h \in Half, task \in Tasks : handover(h, task))
           \/ peer_sends \/ becomes_writable \/ breaks \/ timer_fires
           \/ (\E d \in {"ping", "pong", "idle", "close"} : time_passes(d))
  <2>1. s' = s /\ seen' = seen /\ p' = p /\ (Reading => due' = due)
    BY <1>9 DEF reactor_takes_stream, reactor_wakes, handover, peer_sends, becomes_writable, breaks,
       timer_fires, time_passes, Reading
  <2>2. SameView /\ seen'.delivered = seen.delivered
    BY <2>1 DEF SameView, SameBuffer
  <2> QED
    BY <1>4, <2>1, <2>2
<1> QED
  BY <1>3, <1>5, <1>6, <1>7, <1>8, <1>9 DEF Others

\* What holds where poll_next takes a step.
LEMMA ReaderStep ==
    ASSUME Base, Msg, ReadInv, NextSteppings \/ next_read
    PROVE  /\ Record(s, SFields) /\ Record(seen, SeenFields) /\ PollAt(p) /\ Reading /\ p.op = "next"
           /\ Towards = p.pc /\ InParser = p.parsed
           /\ p.pc \in {"top", "errors", "process", "read", "nodata", "flushed", "shut", "fed", "lateShut"}
           /\ NetInv' /\ (NextSteppings => SameNet) /\ "none" \notin due'
           /\ WShape(w) /\ w.asleep["Stream"] = NoTask
           /\ Turned(w) /\ Turned(ClosingPolled(w)) /\ Turned(ClosingTimer(w))
           /\ (\A d : Turned(TimerPolled(ClosingPolled(w), d))) /\ (\A t : Turned([w EXCEPT !.timer = t]))
<1>0. /\ Record(s, SFields) /\ Record(net, NetFields) /\ Record(seen, SeenFields) /\ WShape(w)
      /\ Places /\ NetInv /\ "none" \notin due /\ Steps
  BY StepsSplit DEF Base, Shapes, Msg, KeepInv
<1>1. NetInv' /\ (NextSteppings => SameNet) /\ "none" \notin due'
  BY <1>0, NetStep, NetSame, DueStep
<1>2. \E x \in {"top", "errors", "process", "read", "nodata", "flushed", "shut", "fed", "lateShut"} : At(x)
  BY DEF NextSteppings, next_top, next_flushed, next_shut, next_errors, next_deadlines, next_message,
     next_ping, next_close, next_buffered, next_io, next_late_shut, next_fed, next_nodata, next_read,
     process_read_buf, compressed_process_read_buf, Delivering
<1>3. PICK x \in {"top", "errors", "process", "read", "nodata", "flushed", "shut", "fed", "lateShut"} : At(x)
  BY <1>2
<1>4. /\ PollAt(p) /\ Polled /\ Reading /\ ~Sinking /\ p.op = "next" /\ p.half = "Stream"
      /\ p.pc = x /\ Towards = x
      /\ Turned(w) /\ Turned(ClosingPolled(w)) /\ Turned(ClosingTimer(w))
      /\ (\A d : Turned(TimerPolled(ClosingPolled(w), d)))
      /\ (\A t : Turned([w EXCEPT !.timer = t]))
  BY <1>3, ReaderAt
<1>5. w.asleep["Stream"] = NoTask
  BY <1>4 DEF Base, Wakers, PollWakers
<1> QED
  BY <1>0, <1>1, <1>3, <1>4, <1>5 DEF InParser

\* A reader that goes on or returns does not sleep.
LEMMA ReaderAwake ==
    ASSUME WShape(w), w.asleep["Stream"] = NoTask,
           Turned(w') \/ \E wk : Turned(wk) /\ (Return(wk) \/ Return(TerminalWakes(wk)))
    PROVE  w'.asleep["Stream"] = NoTask
<1>1. CASE Turned(w')
  BY <1>1, TurnedSlots DEF SameSlots
<1>2. CASE \E wk : Turned(wk) /\ (Return(wk) \/ Return(TerminalWakes(wk)))
  <2>1. PICK wk : Turned(wk) /\ (Return(wk) \/ Return(TerminalWakes(wk)))
    BY <1>2
  <2>2. WShape(wk) /\ SameSlots(wk)
    BY <2>1, TurnedSlots
  <2> DEFINE k == TerminalWakes(wk)
  <2>3. WShape(k) /\ k.asleep = wk.asleep
    BY <2>2, AllWoken
  <2> HIDE DEF k
  <2>4. Return(wk) \/ Return(k)
    BY <2>1 DEF k
  <2> QED
    BY <2>2, <2>3, <2>4 DEF Return, SameSlots, WShape, Record, WFields
<1> QED
  BY <1>1, <1>2

\* A poll that is over holds no message; what it had parsed it gave up, with the stream over.
LEMMA MsgLeaves ==
    ASSUME Msg, NetInv', SameNet, s' = s, p' = Idle, s.state = "Closed" \/ InParser = NoFrame,
           ~(Reading /\ Towards = "process"),
           "none" \notin due', seen'.delivered = seen.delivered
    PROVE  Msg'
<1>1. InParser' = NoFrame /\ ~Reading'
  BY DEF InParser, Reading, Idle
<1>2. CASE InParser = NoFrame
  BY <1>1, <1>2, MsgSame DEF SameHand, SameBuffer, StaysInProcess, Live, Msg, KeepInv
<1>3. CASE InParser # NoFrame
  <2>1. s.control = NoFrame /\ s.pending = <<>> /\ s.batch = <<>>
    BY <1>3 DEF Msg, HandInv
  <2>2. Hand' = <<>>
    BY <1>1, <2>1 DEF Hand
  <2> QED
    BY <1>1, <1>3, <2>1, <2>2, MsgOver DEF SameBuffer
<1> QED
  BY <1>2, <1>3

\* FinishRead.
LEMMA MsgFinish ==
    ASSUME Base, Msg, NetInv', SameNet, NEW r \in {"end", "error"}, FinishRead(s, w, r),
           "none" \notin due'
    PROVE  Msg' /\ ReadInv'
<1>0. Record(s, SFields) /\ Record(seen, SeenFields)
  BY DEF Base, Shapes
<1>1. Over
  BY <1>0, FinishOver DEF FinishRead, Return
<1>2. \/ seen'.delivered = seen.delivered
      \/ s.control # NoFrame /\ seen'.delivered = Append(seen.delivered, s.control.id)
  <2>1. CASE FinishResult(s, r) = "message" /\ s.control # NoFrame
    BY <1>0, <2>1 DEF FinishRead, Delivered, Record, SeenFields
  <2>2. CASE FinishResult(s, r) # "message"
    BY <1>0, <2>2 DEF FinishRead, Ended, Record, SeenFields
  <2>3. s.terminal # "message" /\ NoFrame.kind = "none"
    BY DEF Base, ClosingInv, ClosingFields, NoFrame
  <2> QED
    BY <2>1, <2>2, <2>3 DEF FinishResult
<1> QED
  BY <1>1, <1>2, MsgEnded

\* next_top.
LEMMA TopMsg ==
    ASSUME Base, Msg, ReadInv, next_top
    PROVE  Msg' /\ ReadInv'
<1> USE NextPlaces
<1>0. NextSteppings
  BY DEF NextSteppings
<1>1. /\ Record(s, SFields) /\ Record(seen, SeenFields) /\ PollAt(p) /\ Reading /\ p.op = "next"
      /\ Towards = p.pc /\ InParser = p.parsed
      /\ NetInv' /\ SameNet /\ "none" \notin due' /\ WShape(w) /\ w.asleep["Stream"] = NoTask /\ Turned(w)
  BY <1>0, ReaderStep
<1>2. p.pc = "top" /\ s' = s /\ due' = due
  BY DEF next_top, At
<1>3. CASE s.state = "Closed"
  <2>1. Return(w) /\ p' = Idle /\ seen'.delivered = seen.delivered
    BY <1>1, <1>3 DEF next_top, Return, Ended, Record, SeenFields
  <2>2. Msg'
    BY <1>1, <1>2, <1>3, <2>1, MsgLeaves
  <2> QED
    BY <1>2, <1>3, <2>1, <2>2 DEF Msg, ReadInv, ReaderInv, SleepsEmpty, Reading, Idle
<1>4. CASE s.state # "Closed"
  <2>1. w' = w /\ seen' = seen
    BY <1>4 DEF next_top
  <2>2. CASE Call("drain", "flushed") /\ s.flush_on_read /\ p.expired = "none"
    <3>1. SamePoll(p') /\ p'.pc = "register" /\ p'.call = "drain" /\ Bound(p') = "flushed" /\ p'.op = "next"
      BY <1>1, <2>2, CallAt
    <3>2. InParser' = InParser /\ Reading' /\ Towards' = "flushed" /\ p'.ret = "flushed" /\ p'.expired = "none"
      BY <1>1, <2>2, <3>1 DEF InParser, Reading, Towards, SamePoll, Bound
    <3>3. Msg'
      BY <1>1, <1>2, <2>1, <3>2, MsgSame DEF SameHand, SameBuffer, StaysInProcess, Live, Msg, KeepInv
    <3> QED
      BY <1>1, <1>2, <1>4, <2>1, <3>1, <3>2, <3>3 DEF Msg, ReadInv, ReaderInv, SleepsEmpty
  <2>3. CASE Goto("errors") /\ ~(s.flush_on_read /\ p.expired = "none")
    <3>1. SamePoll(p') /\ p'.pc = "errors" /\ Bound(p') = "errors" /\ p'.op = "next"
      BY <1>1, <2>3, JumpAt DEF Goto
    <3>2. InParser' = InParser /\ Reading' /\ Towards' = "errors" /\ p'.expired = p.expired
      BY <1>1, <2>3, <3>1 DEF InParser, Reading, Towards, SamePoll
    <3>3. Msg'
      BY <1>1, <1>2, <2>1, <3>2, MsgSame DEF SameHand, SameBuffer, StaysInProcess, Live, Msg, KeepInv
    <3>4. ~s.close_after_flush /\ (s.control # NoFrame => p.expired # "none")
      BY <1>1, <1>4, <1>2, <2>3 DEF ReadInv, KeepInv, ReaderInv
    <3>5. p.expired # "none" => p.expired \in due
      BY <1>1, <1>4 DEF ReadInv, ReaderInv
    <3> QED
      BY <1>1, <1>2, <1>4, <2>1, <3>1, <3>2, <3>3, <3>4, <3>5 DEF Msg, ReadInv, ReaderInv, SleepsEmpty
  <2> QED
    BY <1>4, <2>2, <2>3 DEF next_top
<1> QED
  BY <1>3, <1>4

\* Nothing but where the poll is changes.
LEMMA MsgGoes ==
    ASSUME Msg, NetInv', SameNet, s' = s, seen' = seen, InParser' = InParser,
           ~(Reading /\ Towards = "process"), "none" \notin due'
    PROVE  Msg'
  BY MsgSame DEF SameHand, SameBuffer, StaysInProcess, Live, Msg, KeepInv

\* What ReaderStep establishes, as one fact.
InPollNext ==
    /\ Record(s, SFields) /\ Record(seen, SeenFields) /\ PollAt(p) /\ Reading /\ p.op = "next"
    /\ Towards = p.pc /\ InParser = p.parsed
    /\ NetInv' /\ SameNet /\ "none" \notin due' /\ WShape(w) /\ w.asleep["Stream"] = NoTask
    /\ Turned(w) /\ Turned(ClosingPolled(w)) /\ Turned(ClosingTimer(w))
    /\ (\A d : Turned(TimerPolled(ClosingPolled(w), d))) /\ (\A t : Turned([w EXCEPT !.timer = t]))

\* It holds at every step of poll_next but the read.
LEMMA ReaderReady ==
    ASSUME Base, Msg, ReadInv, NextSteppings
    PROVE  InPollNext
  BY ReaderStep DEF InPollNext

\* Back to the top with a deadline that passed.
LEMMA JumpTop ==
    ASSUME PollAt(p), p.op = "next", NEW d, p' = [Jump("top") EXCEPT !.expired = d]
    PROVE  NotedPoll(p', "top") /\ p'.expired = d /\ p'.parsed = p.parsed
<1>1. NotedPoll(p', "top")
  BY JumpExpired, NextPlaces
<1>2. p'.parsed = p.parsed
  BY DEF Jump, PollAt, Record, PFields
<1>3. p'.expired = d
  BY JumpExpired, NextPlaces
<1> QED
  BY <1>1, <1>2, <1>3

\* Back to the top because a deadline passed.
LEMMA MsgExpires ==
    ASSUME Msg, ReadInv, InPollNext, s' = s, seen' = seen, due' = due, Turned(w'), p.pc # "process",
           NEW d \in due, p' = [Jump("top") EXCEPT !.expired = d], s.state # "Closed", ~s.close_after_flush
    PROVE  Msg' /\ ReadInv'
<1> USE NextPlaces
<1>1. PollAt(p) /\ p.op = "next" /\ Reading /\ Towards = p.pc
  BY DEF InPollNext
<1>2. NotedPoll(p', "top") /\ p'.expired = d /\ p'.parsed = p.parsed
  BY <1>1, JumpTop
<1>3. InParser' = InParser /\ Reading' /\ Towards' = "top" /\ p'.pc = "top"
  BY <1>1, <1>2 DEF InParser, Reading, Towards, NotedPoll
<1>4. Msg'
  BY <1>1, <1>3, MsgGoes DEF InPollNext
<1>5. w'.asleep["Stream"] = NoTask
  BY ReaderAwake DEF InPollNext
<1> QED
  BY <1>2, <1>3, <1>4, <1>5 DEF Msg, ReadInv, ReaderInv, SleepsEmpty

\* On to the messages in hand, or to the transport.
LEMMA MsgOn ==
    ASSUME Msg, ReadInv, InPollNext, s' = s, seen' = seen, due' = due, Turned(w'), p.pc # "process",
           NEW x \in {"errors", "read", "nodata"}, Goto(x), s.state # "Closed",
           ~s.close_after_flush, p.expired # "none" => p.expired \in due /\ x = "errors",
           s.control # NoFrame => p.expired # "none",
           x \in {"read", "nodata"} => EmptyHanded /\ Live /\ ~s.unprocessed
    PROVE  Msg' /\ ReadInv'
<1> USE NextPlaces
<1>1. PollAt(p) /\ p.op = "next" /\ Reading /\ Towards = p.pc
  BY DEF InPollNext
<1>2. SamePoll(p') /\ p'.pc = x /\ Bound(p') = x /\ p'.op = "next"
  BY <1>1, JumpAt DEF Goto
<1>3. InParser' = InParser /\ Reading' /\ Towards' = x /\ p'.expired = p.expired
  BY <1>1, <1>2 DEF InParser, Reading, Towards, SamePoll
<1>4. Msg'
  BY <1>1, <1>3, MsgGoes DEF InPollNext
<1>5. w'.asleep["Stream"] = NoTask
  BY ReaderAwake DEF InPollNext
<1>6. EmptyHanded' = EmptyHanded /\ Live' = Live
  BY <1>3 DEF EmptyHanded, Hand, Live
<1> QED
  BY <1>2, <1>3, <1>4, <1>5, <1>6 DEF Msg, ReadInv, ReaderInv, SleepsEmpty

\* The control frame that was answered is returned.
LEMMA MsgControl ==
    ASSUME Msg, ReadInv, InPollNext, s.control # NoFrame, s'.control = NoFrame, s'.pending = s.pending,
           s'.batch = s.batch, SameBuffer, s'.parse_error = s.parse_error, s'.state = s.state,
           ~s.close_after_flush, ~s'.close_after_flush, p' = Idle, p.pc # "process",
           w'.asleep["Stream"] = NoTask, seen'.delivered = Append(seen.delivered, s.control.id)
    PROVE  Msg' /\ ReadInv'
<1>1. InParser = NoFrame /\ s.pending = <<>> /\ InParser' = NoFrame /\ ~Reading'
  BY DEF Msg, HandInv, InParser, Reading, Idle
<1>2. Hand = <<s.control.id>> /\ Hand' = <<>>
  BY <1>1 DEF Hand
<1>3. Script(net.script) /\ Sent' = Sent /\ Message' = Message /\ s.control.id \in Nat /\ Live' = Live
  BY RunScript, SameMessages DEF Msg, InPollNext, SameNet, FrameTypes, Message, Live
<1>4. FrameTypes' /\ HandInv'
  BY <1>1, <1>3 DEF Msg, FrameTypes, HandInv, SameBuffer
<1>5. KeepInv'
  BY <1>1, <1>3 DEF Msg, KeepInv, SameBuffer, InPollNext
<1>6. Flow(net.script, Whole, net.read, FALSE, seen.delivered, <<s.control.id>>, s.batch, s.read_buf, FALSE, Live)
  BY <1>2 DEF Msg, FlowInv
<1>7. Flow(net.script, Whole, net.read, FALSE, seen'.delivered, <<>>, s.batch, s.read_buf, FALSE, Live)
  BY <1>3, <1>6, FlowReturns
<1>8. FlowInv'
  BY <1>2, <1>3, <1>7 DEF FlowInv, SameBuffer, InPollNext, SameNet, Whole
<1> QED
  BY <1>1, <1>4, <1>5, <1>8 DEF Msg, ReadInv, ReaderInv, SleepsEmpty, InPollNext

\* A reader that waits while closing keeps the message it parsed.
LEMMA MsgKept ==
    ASSUME Base, Msg, ReadInv, InPollNext, s' = Kept(s), s.closing, p' = Idle, p.pc # "process",
           seen' = seen, due' = due
    PROVE  Msg' /\ ReadInv'
<1>0. Record(s, SFields) /\ InParser = p.parsed /\ SameNet /\ NetInv' /\ "none" \notin due'
      /\ Reading /\ Towards = p.pc
  BY DEF InPollNext
<1>1. /\ s'.control = s.control /\ s'.batch = s.batch /\ SameBuffer /\ s'.parse_error = s.parse_error
      /\ s'.state = s.state /\ s'.close_after_flush = s.close_after_flush
      /\ s'.flush_on_read = s.flush_on_read /\ s'.closing
      /\ s'.pending = IF p.parsed = NoFrame THEN s.pending ELSE <<p.parsed>>
  BY <1>0, KeptFields DEF SameBuffer
<1>2. InParser' = NoFrame /\ ~Reading'
  BY DEF InParser, Reading, Idle
<1>3. Hand' = Hand
  <2>1. CASE s.control # NoFrame
    BY <1>1, <2>1 DEF Hand
  <2>2. CASE s.control = NoFrame /\ p.parsed = NoFrame
    BY <1>0, <1>1, <1>2, <2>2 DEF Hand
  <2>3. CASE s.control = NoFrame /\ p.parsed # NoFrame
    <3>1. s'.pending = <<p.parsed>>
      BY <1>1, <2>3
    <3>2. s'.pending # <<>> /\ s'.pending[1] = p.parsed
      BY <3>1
    <3> QED
      BY <1>0, <1>1, <1>2, <2>3, <3>2 DEF Hand
  <2> QED
    BY <2>1, <2>2, <2>3
<1>4. Live' = Live /\ Sent' = Sent /\ Message' = Message
  BY <1>0, <1>1, SameMessages DEF Live, SameNet
<1>5. FrameTypes' /\ HandInv'
  <2>1. CASE p.parsed = NoFrame
    BY <1>0, <1>1, <1>2, <1>4, <2>1 DEF Msg, FrameTypes, HandInv, SameBuffer
  <2>2. CASE p.parsed # NoFrame
    <3>1. p.parsed \in Message /\ s.pending = <<>> /\ s.batch = <<>> /\ s.control = NoFrame
      BY <1>0, <2>2 DEF Msg, FrameTypes, HandInv
    <3> QED
      BY <1>0, <1>1, <1>2, <1>4, <2>2, <3>1 DEF Msg, FrameTypes, HandInv, SameBuffer
  <2> QED
    BY <2>1, <2>2
<1>6. KeepInv'
  BY <1>0, <1>1, <1>2, <1>4 DEF Msg, KeepInv, SameBuffer
<1>7. FlowInv'
  BY <1>0, <1>1, <1>3, <1>4 DEF Msg, FlowInv, SameNet, SameBuffer, Whole
<1> QED
  BY <1>0, <1>1, <1>2, <1>5, <1>6, <1>7 DEF Msg, ReadInv, ReaderInv, SleepsEmpty

\* next_flushed.
LEMMA FlushedMsg ==
    ASSUME Base, Msg, ReadInv, next_flushed
    PROVE  Msg' /\ ReadInv'
<1> USE NextPlaces
<1>0. NextSteppings /\ InPollNext
  BY ReaderReady DEF NextSteppings
<1>1. p.pc = "flushed" /\ due' = due /\ net' = net
  BY DEF next_flushed, At
<1>2. CASE \E r \in {"end", "error"} : FinishRead(s, w, r)
  BY <1>0, <1>2, MsgFinish DEF InPollNext
<1>3. /\ PollAt(p) /\ p.op = "next" /\ Reading /\ Towards = "flushed" /\ Record(s, SFields)
      /\ Record(seen, SeenFields)
  BY <1>0, <1>1 DEF InPollNext
<1>4. p.res # "err" => s.state # "Closed"
  BY <1>1, <1>3 DEF ReadInv, ReaderInv
<1>5. s.state # "Closed" => p.expired = "none"
  BY <1>3 DEF ReadInv, ReaderInv
<1>6. CASE Call("shutdown", "shut") /\ UNCHANGED <<s, w, seen>> /\ p.res = "ready"
  <2>1. SamePoll(p') /\ p'.pc = "register" /\ p'.call = "shutdown" /\ Bound(p') = "shut" /\ p'.op = "next"
    BY <1>3, <1>6, CallAt
  <2>2. InParser' = InParser /\ Reading' /\ Towards' = "shut" /\ p'.expired = p.expired
    BY <1>3, <2>1 DEF InParser, Reading, Towards, SamePoll
  <2>3. Msg'
    BY <1>0, <1>3, <1>6, <2>2, MsgGoes DEF InPollNext
  <2> QED
    BY <1>0, <1>4, <1>5, <1>6, <2>1, <2>2, <2>3 DEF Msg, ReadInv, ReaderInv, SleepsEmpty, InPollNext
<1>7. CASE /\ p.res = "ready" /\ ~s.close_after_flush
           /\ s' = [s EXCEPT !.flush_on_read = FALSE, !.control = NoFrame]
           /\ IF s.control # NoFrame THEN Return(w) /\ Delivered(s.control)
              ELSE Goto("errors") /\ UNCHANGED <<w, seen>>
  <2>1. /\ s'.control = NoFrame /\ s'.pending = s.pending /\ s'.batch = s.batch /\ SameBuffer
        /\ s'.parse_error = s.parse_error /\ s'.state = s.state /\ ~s'.close_after_flush
    BY <1>3, <1>7 DEF Record, SFields, SameBuffer
  <2>2. CASE s.control # NoFrame
    <3>1. Return(w) /\ Delivered(s.control)
      BY <1>7, <2>2
    <3>2. p' = Idle /\ seen'.delivered = Append(seen.delivered, s.control.id)
      BY <1>3, <3>1 DEF Return, Delivered, Record, SeenFields
    <3>3. w'.asleep["Stream"] = NoTask
      BY <1>0, <3>1, ReaderAwake DEF InPollNext
    <3> QED
      BY <1>0, <1>1, <1>7, <2>1, <2>2, <3>2, <3>3, MsgControl
  <2>3. CASE s.control = NoFrame
    <3>1. Goto("errors") /\ w' = w /\ seen' = seen
      BY <1>7, <2>3
    <3>2. SamePoll(p') /\ p'.pc = "errors" /\ Bound(p') = "errors" /\ p'.op = "next"
      BY <1>3, <3>1, JumpAt DEF Goto
    <3>3. InParser' = InParser /\ Reading' /\ Towards' = "errors" /\ p'.expired = p.expired
      BY <1>3, <3>2 DEF InParser, Reading, Towards, SamePoll
    <3>4. Live' = Live
      BY <1>7, <2>1 DEF Live
    <3>5. Msg'
      BY <1>0, <1>3, <2>1, <2>3, <3>1, <3>3, <3>4, MsgSame DEF InPollNext, SameHand, StaysInProcess
    <3> QED
      BY <1>0, <1>4, <1>5, <1>7, <2>1, <2>3, <3>1, <3>2, <3>3, <3>5
      DEF Msg, ReadInv, ReaderInv, SleepsEmpty, InPollNext
  <2> QED
    BY <2>2, <2>3
<1>8. CASE p.res = "pending" /\ ~Expired
  <2> DEFINE hard == next_hard_deadline(s)
             wk == TimerPolled(ClosingPolled(w), hard)
  <2>0. Turned(wk) /\ s.state # "Closed" /\ p.expired = "none"
    BY <1>0, <1>4, <1>5, <1>8 DEF InPollNext
  <2>1. hard \in due => ~s.stopped /\ ~s.closing /\ ~s.close_after_flush
    BY DEF next_hard_deadline, ReadInv, KeepInv, Base, ClosingInv, ClosingFields
  <2>2. \/ /\ hard \in due
           /\ p' = [Jump("top") EXCEPT !.expired = hard]
           /\ w' = wk /\ UNCHANGED <<s, seen>>
        \/ hard \notin due /\ s.closing /\ s' = Kept(s) /\ Pending(wk) /\ UNCHANGED seen
        \/ /\ hard \notin due /\ ~s.closing /\ s.control # NoFrame
           /\ s' = [s EXCEPT !.control = NoFrame]
           /\ Return(wk) /\ Delivered(s.control)
        \/ /\ hard \notin due /\ ~s.closing /\ s.control = NoFrame
           /\ Goto("errors") /\ w' = wk /\ UNCHANGED <<s, seen>>
    BY <1>8 DEF next_flushed
  <2> HIDE DEF hard, wk
  <2>3. CASE hard \in due /\ p' = [Jump("top") EXCEPT !.expired = hard] /\ w' = wk /\ UNCHANGED <<s, seen>>
    BY <1>0, <1>1, <2>0, <2>1, <2>3, MsgExpires
  <2>4. CASE s.closing /\ s' = Kept(s) /\ Pending(wk) /\ UNCHANGED seen
    BY <1>0, <1>1, <2>4, MsgKept DEF Pending
  <2>5. CASE /\ ~s.closing /\ s.control # NoFrame /\ s' = [s EXCEPT !.control = NoFrame]
             /\ Return(wk) /\ Delivered(s.control)
    <3>1. p' = Idle /\ seen'.delivered = Append(seen.delivered, s.control.id)
      BY <1>3, <2>5 DEF Return, Delivered, Record, SeenFields
    <3>2. w'.asleep["Stream"] = NoTask
      BY <1>0, <2>0, <2>5, ReaderAwake DEF InPollNext
    <3>3. ~s.close_after_flush
      BY <2>5 DEF Base, ClosingInv, ClosingFields
    <3>4. /\ s'.control = NoFrame /\ s'.pending = s.pending /\ s'.batch = s.batch /\ SameBuffer
          /\ s'.parse_error = s.parse_error /\ s'.state = s.state /\ ~s'.close_after_flush
      BY <1>3, <2>5, <3>3 DEF Record, SFields, SameBuffer
    <3> QED
      BY <1>0, <1>1, <2>5, <3>1, <3>2, <3>3, <3>4, MsgControl
  <2>6. CASE ~s.closing /\ s.control = NoFrame /\ Goto("errors") /\ w' = wk /\ UNCHANGED <<s, seen>>
    <3>1. ~s.close_after_flush
      BY <2>6 DEF Base, ClosingInv, ClosingFields
    <3> QED
      BY <1>0, <1>1, <2>0, <2>6, <3>1, MsgOn
  <2> QED
    BY <2>2, <2>3, <2>4, <2>5, <2>6
<1> QED
  BY <1>2, <1>6, <1>7, <1>8 DEF next_flushed

\* Before a message is delivered: the control frame is out, and no deadline has passed.
LEMMA AtErrors ==
    ASSUME ReadInv, InPollNext, p.pc = "errors"
    PROVE  /\ s.state # "Closed" /\ ~s.close_after_flush
           /\ s.control # NoFrame => p.expired # "none"
           /\ p.expired # "none" => p.expired \in due
           /\ Delivering => p.expired = "none" /\ s.control = NoFrame
<1>1. Reading /\ Towards = "errors"
  BY DEF InPollNext
<1>2. s.state # "Closed"
  BY <1>1 DEF ReadInv, ReaderInv
<1>3. /\ ~s.close_after_flush /\ (s.control # NoFrame => p.expired # "none")
      /\ p.expired # "none" => p.expired \in due
  BY <1>1, <1>2 DEF ReadInv, ReaderInv
<1> QED
  BY <1>2, <1>3 DEF Delivering, Deadline

\* Three sequences one after the other.
LEMMA ThreeParts ==
    ASSUME NEW S, NEW a \in Seq(S), NEW b \in Seq(S), NEW c \in Seq(S), NEW v, v = a \o b \o c
    PROVE  /\ Len(v) = Len(a) + Len(b) + Len(c)
           /\ a # <<>> => v[1] = a[1]
           /\ a = <<>> /\ b # <<>> => v[1] = b[1]
           /\ a = <<>> /\ b = <<>> => v = c
<1>1. /\ v \in Seq(S) /\ Len(v) = Len(a) + Len(b) + Len(c) /\ Len(a) \in Nat /\ Len(b) \in Nat /\ Len(c) \in Nat
      /\ (a = <<>> <=> Len(a) = 0) /\ (b = <<>> <=> Len(b) = 0) /\ (c = <<>> <=> Len(c) = 0)
      /\ (v = <<>> <=> Len(v) = 0)
  <2>1. a \o b \in Seq(S) /\ Len(a \o b) = Len(a) + Len(b)
    BY ConcatProperties
  <2>2. v \in Seq(S) /\ Len(v) = Len(a \o b) + Len(c)
    BY <2>1, ConcatProperties
  <2> QED
    BY <2>1, <2>2, EmptySeq
<1>2. Len(v) = Len(a) + Len(b) + Len(c)
  BY <1>1
<1>3. a # <<>> => v[1] = a[1]
  BY <1>1
<1>4. a = <<>> => a \o b = b
  BY ConcatEmptySeq
<1>5. a = <<>> /\ b # <<>> => v[1] = b[1]
  BY <1>1, <1>4
<1>6. b = <<>> => b \o c = c
  BY ConcatEmptySeq
<1> QED
  BY <1>2, <1>3, <1>4, <1>5, <1>6

\* What is in hand where a message is delivered.
LEMMA HandParts ==
    ASSUME Msg, InPollNext
    PROVE  /\ s.pending \in Seq(Message) /\ s.batch \in Seq(Message) /\ p.parsed \in Message \cup {NoFrame}
           /\ InParser = p.parsed
           /\ InHand = <<>> => p.parsed = NoFrame /\ s.pending = <<>> /\ s.batch = <<>>
           /\ p.parsed # NoFrame => InHand[1] = p.parsed
           /\ p.parsed = NoFrame /\ s.pending # <<>> => InHand[1] = s.pending[1]
           /\ p.parsed = NoFrame /\ s.pending = <<>> => InHand = s.batch
<1>1. s.pending \in {<<>>} \cup {<<f>> : f \in Message} /\ s.batch \in Seq(Message)
      /\ p.parsed \in Message \cup {NoFrame} /\ InParser = p.parsed
  BY DEF Msg, FrameTypes, InPollNext
<1> DEFINE M == Message
           a == IF p.parsed = NoFrame THEN <<>> ELSE <<p.parsed>>
<1> HIDE DEF M
<1>2. s.pending \in Seq(M) /\ s.batch \in Seq(M) /\ a \in Seq(M)
      /\ (p.parsed # NoFrame => a # <<>> /\ a[1] = p.parsed) /\ (p.parsed = NoFrame => a = <<>>)
  <2>1. (\A f \in M : <<f>> \in Seq(M)) /\ <<>> \in Seq(M)
    OBVIOUS
  <2> QED
    BY <1>1, <2>1 DEF M
<1>3. InHand = a \o s.pending \o s.batch
  BY DEF InHand
<1> HIDE DEF a
<1>4. /\ InHand = <<>> => a = <<>> /\ s.pending = <<>> /\ s.batch = <<>>
      /\ a # <<>> => InHand[1] = a[1]
      /\ a = <<>> /\ s.pending # <<>> => InHand[1] = s.pending[1]
      /\ a = <<>> /\ s.pending = <<>> => InHand = s.batch
  <2> DEFINE b == s.pending
             c == s.batch
             v == InHand
  <2>1. a \in Seq(M) /\ b \in Seq(M) /\ c \in Seq(M) /\ v = a \o b \o c
    BY <1>2, <1>3
  <2> HIDE DEF b, c, v
  <2>2. /\ v = <<>> => a = <<>> /\ b = <<>> /\ c = <<>>
        /\ a # <<>> => v[1] = a[1]
        /\ a = <<>> /\ b # <<>> => v[1] = b[1]
        /\ a = <<>> /\ b = <<>> => v = c
    <3>1. v = <<>> => a = <<>> /\ b = <<>> /\ c = <<>>
      <4>1. Len(v) = Len(a) + Len(b) + Len(c)
        BY <2>1, ThreeParts
      <4>2. Len(a) \in Nat /\ Len(b) \in Nat /\ Len(c) \in Nat /\ Len(<<>>) = 0
        BY <2>1
      <4>3. v = <<>> => Len(a) = 0 /\ Len(b) = 0 /\ Len(c) = 0
        BY <4>1, <4>2
      <4> QED
        BY <2>1, <4>3, EmptySeq
    <3>2. a # <<>> => v[1] = a[1]
      BY <2>1, ThreeParts
    <3>3. a = <<>> /\ b # <<>> => v[1] = b[1]
      BY <2>1, ThreeParts
    <3>4. a = <<>> /\ b = <<>> => v = c
      BY <2>1, ThreeParts
    <3> QED
      BY <3>1, <3>2, <3>3, <3>4
  <2> QED
    BY <2>2 DEF b, c, v
<1> QED
  BY <1>1, <1>2, <1>4 DEF M

\* Nothing in hand and nothing wrong.
LEMMA NothingInHand ==
    ASSUME Msg, ReadInv, InPollNext, Delivering, InHand = <<>>
    PROVE  /\ p.pc = "errors" /\ EmptyHanded /\ Live /\ p.expired = "none" /\ s.control = NoFrame
           /\ p.parsed = NoFrame /\ s.pending = <<>> /\ s.batch = <<>>
<1>1. p.pc = "errors" /\ ~ErrorFirst
  BY DEF Delivering, At
<1>2. /\ s.state # "Closed" /\ ~s.close_after_flush /\ p.expired = "none" /\ s.control = NoFrame
  BY <1>1, AtErrors
<1>3. InParser = p.parsed /\ p.parsed = NoFrame
  BY HandParts
<1>4. p.parsed = NoFrame
  BY <1>3
<1>5. s.pending = <<>> /\ s.batch = <<>>
  BY HandParts
<1>6. ~s.parse_error
  BY <1>1, <1>4, <1>5 DEF ErrorFirst
<1> QED
  BY <1>1, <1>2, <1>3, <1>4, <1>5, <1>6 DEF EmptyHanded, Hand, Live

\* next_shut, next_late_shut.
LEMMA ShutMsg ==
    ASSUME Base, Msg, ReadInv, next_shut \/ next_late_shut
    PROVE  Msg' /\ ReadInv'
<1>0. NextSteppings /\ InPollNext
  BY ReaderReady DEF NextSteppings
<1>1. CASE \E r \in {"end", "error"} : FinishRead(s, w, r)
  BY <1>0, <1>1, MsgFinish DEF InPollNext
<1>2. CASE next_shut /\ p.res = "pending" /\ ~Expired
  <2>1. p.pc = "shut" /\ s' = Kept(s) /\ p' = Idle /\ seen' = seen /\ due' = due
    BY <1>2 DEF next_shut, Pending, At
  <2>2. s.closing
    BY <1>0, <2>1 DEF Base, ClosingInv, Ending, InPollNext, Towards
  <2> QED
    BY <1>0, <2>1, <2>2, MsgKept
<1> QED
  BY <1>1, <1>2 DEF next_shut, next_late_shut

\* next_errors.
LEMMA ErrorsMsg ==
    ASSUME Base, Msg, ReadInv, next_errors
    PROVE  Msg' /\ ReadInv'
<1>0. NextSteppings /\ InPollNext
  BY ReaderReady DEF NextSteppings
<1>1. /\ p.pc = "errors" /\ p.parsed = NoFrame /\ p' = Idle
      /\ Return(TerminalWakes(w)) /\ due' = due
  BY DEF next_errors, ErrorFirst, At, Return
<1>2. /\ s'.state = "Closed" /\ s'.control = s.control /\ s'.pending = s.pending /\ s'.batch = s.batch
      /\ SameBuffer /\ ~s'.parse_error
  BY <1>0 DEF next_errors, close_terminal, InPollNext, Record, SFields, SameBuffer
<1>3. seen'.delivered = seen.delivered
  BY <1>0 DEF next_errors, InPollNext, Record, SeenFields
<1>4. InParser' = NoFrame /\ ~Reading' /\ InParser = NoFrame /\ Towards = "errors" /\ ~Live'
  BY <1>0, <1>1, <1>2 DEF InParser, Reading, Idle, InPollNext, Live
<1>5. Msg'
  BY <1>0, <1>2, <1>3, <1>4, MsgSame DEF InPollNext, SameHand, StaysInProcess
<1> QED
  BY <1>2, <1>4, <1>5 DEF Msg, ReadInv, ReaderInv, SleepsEmpty

\* next_deadlines.
LEMMA DeadlinesMsg ==
    ASSUME Base, Msg, ReadInv, next_deadlines
    PROVE  Msg' /\ ReadInv'
<1>0. NextSteppings /\ InPollNext
  BY ReaderReady DEF NextSteppings
<1>1. p.pc = "errors" /\ p' = [Jump("top") EXCEPT !.expired = "none"] /\ due' = due
      /\ w' = [w EXCEPT !.timer = "none"]
  BY DEF next_deadlines, At
<1>2. PollAt(p) /\ p.op = "next" /\ Reading /\ Towards = "errors" /\ Record(s, SFields)
  BY <1>0, <1>1 DEF InPollNext
<1>3. NotedPoll(p', "top") /\ p'.expired = "none" /\ p'.parsed = p.parsed
  BY <1>1, <1>2, JumpTop
<1>4. InParser' = InParser /\ Reading' /\ Towards' = "top" /\ p'.pc = "top"
  BY <1>2, <1>3 DEF InParser, Reading, Towards, NotedPoll
<1>5. s.state # "Closed" /\ ~s.close_after_flush
  BY <1>0, <1>1, AtErrors
<1>6. /\ s'.state # "Closed" /\ s'.control = s.control /\ s'.pending = s.pending /\ s'.batch = s.batch
      /\ SameBuffer /\ s'.parse_error = s.parse_error /\ s'.flush_on_read
  <2>1. CASE Deadline = "ping"
    <3>1. \E a, b : s' = [[s EXCEPT !.write_buf = a] EXCEPT !.ping = "queued", !.pings = b,
                            !.ping_flush = TRUE, !.flush_on_read = TRUE]
      BY <2>1 DEF next_deadlines, Encode
    <3> QED
      BY <1>2, <1>5, <3>1 DEF Record, SFields, SameBuffer
  <2>2. CASE Deadline # "ping"
    <3>1. \E a : s' = [begin_closing([s EXCEPT !.write_buf = a]) EXCEPT
                          !.state = "CloseSent", !.terminal = "timeout",
                          !.flush_on_read = TRUE, !.close_after_flush = TRUE]
      BY <2>2 DEF next_deadlines, Encode
    <3> QED
      BY <1>2, <3>1 DEF begin_closing, Record, SFields, SameBuffer
  <2> QED
    BY <2>1, <2>2
<1>7. seen'.delivered = seen.delivered
  BY <1>0 DEF next_deadlines, Encoded, InPollNext, Record, SeenFields
<1>8. Live' => Live
  BY <1>5, <1>6 DEF Live
<1>9. Msg'
  BY <1>0, <1>2, <1>4, <1>5, <1>6, <1>7, <1>8, MsgSame DEF InPollNext, SameHand, StaysInProcess
<1>10. w'.asleep["Stream"] = NoTask
  BY <1>0, <1>1, ReaderAwake DEF InPollNext
<1> QED
  BY <1>3, <1>4, <1>6, <1>9, <1>10 DEF Msg, ReadInv, ReaderInv, SleepsEmpty

\* next_buffered, next_io.
LEMMA IoMsg ==
    ASSUME Base, Msg, ReadInv, next_buffered \/ next_io
    PROVE  Msg' /\ ReadInv'
<1> USE NextPlaces
<1>0. NextSteppings /\ InPollNext
  BY ReaderReady DEF NextSteppings
<1>1. Delivering /\ InHand = <<>> /\ due' = due
  BY DEF next_buffered, next_io
<1>2. /\ p.pc = "errors" /\ EmptyHanded /\ Live /\ p.expired = "none" /\ s.control = NoFrame
      /\ p.parsed = NoFrame
  BY <1>0, <1>1, NothingInHand
<1>3. CASE FinishRead(s, w, "error")
  BY <1>0, <1>3, MsgFinish DEF InPollNext
<1>4. ASSUME s' = s, seen' = seen, Turned(w'), SamePoll(p'),
             Bound(p') \in {"process", "read", "fed", "lateShut"},
             Bound(p') # "process" => ~s.unprocessed,
             Bound(p') = "process" => p'.pc = "process",
             p'.pc = "register" /\ p'.call = "drain" => p'.ret = "fed", p'.pc # "drain"
      PROVE  Msg' /\ ReadInv'
  <2>1. InParser' = InParser /\ Reading' /\ Towards' = Bound(p') /\ p'.expired = "none"
    BY <1>0, <1>2, <1>4 DEF InParser, Reading, Towards, SamePoll, InPollNext
  <2>2. Msg'
    BY <1>0, <1>2, <1>4, <2>1, MsgGoes DEF InPollNext
  <2>3. w'.asleep["Stream"] = NoTask
    BY <1>0, <1>4, ReaderAwake DEF InPollNext
  <2>4. EmptyHanded' /\ Live' /\ s'.control = NoFrame /\ ~s'.close_after_flush
    BY <1>2, <1>4, <2>1 DEF EmptyHanded, Hand, Live
  <2> QED
    BY <1>2, <1>4, <2>1, <2>2, <2>3, <2>4 DEF Msg, ReadInv, ReaderInv, SleepsEmpty, Live
<1>5. PollAt(p) /\ Reading /\ Turned(w) /\ Turned(ClosingPolled(w)) /\ p.op = "next"
  BY <1>0 DEF InPollNext
<1>6. CASE next_buffered
  <2>1. PollAt(p') /\ SamePoll(p') /\ p'.pc = "process" /\ Bound(p') = "process"
    BY <1>5, <1>6, BufferedAt DEF next_buffered
  <2> QED
    BY <1>4, <1>5, <1>6, <2>1 DEF next_buffered
<1>7. CASE next_io
  <2>1. ASSUME NEW call, NEW ret, \/ call = "read"
                                  \/ call = "drain" /\ ret = "fed"
                                  \/ call = "shutdown" /\ ret = "lateShut",
               p' = [p EXCEPT !.pc = IF call = "read" THEN "read" ELSE "register",
                              !.call = call, !.ret = ret, !.buffered = FALSE, !.late = Expired],
               w' = ClosingPolled(w), UNCHANGED <<s, seen>>
        PROVE  Msg' /\ ReadInv'
    <3> DEFINE late == Expired
    <3>1. p' = [p EXCEPT !.pc = IF call = "read" THEN "read" ELSE "register",
                         !.call = call, !.ret = ret, !.buffered = FALSE, !.late = late]
      BY <2>1
    <3> HIDE DEF late
    <3>2. \/ call = "read"
          \/ call \in {"drain", "shutdown"} /\ ret \in Returns("next")
      BY <2>1
    <3>3. /\ PollAt(p') /\ SamePoll(p') /\ p'.pc = (IF call = "read" THEN "read" ELSE "register")
          /\ Bound(p') = (IF call = "read" THEN "read" ELSE ret) /\ p'.call = call
      BY <1>5, <3>1, <3>2, ReadAt
    <3>4. ~s.unprocessed
      BY <1>7 DEF next_io
    <3> QED
      BY <1>4, <1>5, <2>1, <3>3, <3>4 DEF Bound
  <2>2. CASE /\ p' = [p EXCEPT !.pc = IF "shutdown" = "read" THEN "read" ELSE "register",
                              !.call = "shutdown", !.ret = "lateShut", !.buffered = FALSE, !.late = Expired]
             /\ w' = ClosingPolled(w) /\ UNCHANGED <<s, seen>>
    BY <2>1, <2>2
  <2>3. CASE /\ p' = [p EXCEPT !.pc = IF "drain" = "read" THEN "read" ELSE "register",
                              !.call = "drain", !.ret = "fed", !.buffered = FALSE, !.late = Expired]
             /\ w' = ClosingPolled(w) /\ UNCHANGED <<s, seen>>
    BY <2>1, <2>3
  <2>4. CASE /\ p' = [p EXCEPT !.pc = IF "read" = "read" THEN "read" ELSE "register",
                              !.call = "read", !.ret = "none", !.buffered = FALSE, !.late = Expired]
             /\ w' = ClosingPolled(w) /\ UNCHANGED <<s, seen>>
    BY <2>1, <2>4
  <2> QED
    BY <1>3, <1>7, <2>2, <2>3, <2>4 DEF next_io
<1> QED
  BY <1>6, <1>7

\* next_fed, next_nodata.
LEMMA WaitingMsg ==
    ASSUME Base, Msg, ReadInv, next_fed \/ next_nodata
    PROVE  Msg' /\ ReadInv'
<1>0. NextSteppings /\ InPollNext
  BY ReaderReady DEF NextSteppings
<1>1. p.pc \in {"fed", "nodata"} /\ due' = due
  BY DEF next_fed, next_nodata, At
<1>2. Reading /\ Towards = p.pc /\ InParser = p.parsed /\ Record(seen, SeenFields)
  BY <1>0 DEF InPollNext
<1>3. s.state # "Closed" => EmptyHanded /\ Live /\ ~s.unprocessed /\ p.expired = "none"
  BY <1>1, <1>2 DEF ReadInv, ReaderInv
<1>4. EmptyHanded => s.control = NoFrame /\ InParser = NoFrame
  BY DEF EmptyHanded, Hand
<1>5. CASE FinishRead(s, w, "error")
  BY <1>0, <1>5, MsgFinish DEF InPollNext
<1>6. CASE s.state = "Closed"
  <2>1. p.pc = "fed" /\ p.res = "err"
    BY <1>1, <1>2, <1>6 DEF ReadInv, ReaderInv
  <2>2. Return(w) /\ s' = s /\ seen'.delivered = seen.delivered /\ p' = Idle
    BY <1>2, <2>1 DEF next_fed, next_nodata, At, Ended, Record, SeenFields, Return
  <2>3. Msg'
    BY <1>0, <1>1, <1>2, <1>6, <2>2, MsgLeaves DEF InPollNext
  <2> QED
    BY <1>6, <2>2, <2>3 DEF Msg, ReadInv, ReaderInv, SleepsEmpty, Reading, Idle
<1>7. CASE s.state # "Closed"
  <2>1. EmptyHanded /\ Live /\ ~s.unprocessed /\ p.expired = "none" /\ s.control = NoFrame /\ InParser = NoFrame
        /\ ~s.close_after_flush
    BY <1>3, <1>4, <1>7 DEF Live
  <2>2. ASSUME s' = s, p' = Idle, seen'.delivered = seen.delivered,
               w'.asleep["Stream"] = NoTask \/ s.closing \/ s.read_buf = <<>>
        PROVE  Msg' /\ ReadInv'
    <3>1. Msg'
      BY <1>0, <1>1, <1>2, <2>1, <2>2, MsgLeaves DEF InPollNext
    <3>2. EmptyHanded'
      BY <2>1, <2>2 DEF EmptyHanded, Hand, InParser, Reading, Idle
    <3> QED
      BY <2>2, <3>1, <3>2 DEF Msg, ReadInv, ReaderInv, SleepsEmpty, Reading, Idle
  <2>3. CASE Return(w) /\ s' = s /\ Ended("error")
    <3>1. w'.asleep["Stream"] = NoTask
      BY <1>0, <2>3, ReaderAwake DEF InPollNext
    <3>2. p' = Idle /\ seen'.delivered = seen.delivered
      BY <1>2, <2>3 DEF Return, Ended, Record, SeenFields
    <3> QED
      BY <2>2, <2>3, <3>1, <3>2
  <2>4. CASE UNCHANGED <<s, seen>> /\ Turned(w') /\ Goto("read")
    BY <1>0, <1>1, <1>7, <2>1, <2>4, MsgOn
  <2>5. CASE UNCHANGED <<s, seen>> /\ Turned(w') /\ \E d \in due : p' = [Jump("top") EXCEPT !.expired = d]
    BY <1>0, <1>1, <1>7, <2>1, <2>5, MsgExpires
  <2>6. CASE UNCHANGED <<s, seen>> /\ p' = Idle /\ (s.closing \/ p.pc = "nodata")
    <3>1. p.pc = "nodata" => s.read_buf = <<>>
      BY <1>2, <2>1 DEF ReadInv, KeepInv
    <3> QED
      BY <2>2, <2>6, <3>1
  <2>7. \A d : Turned(TimerPolled(ClosingPolled(w), d))
    BY <1>0 DEF InPollNext
  <2>8. CASE next_fed
    <3> DEFINE deadline == IF s.parse_error THEN "none" ELSE next_deadline(s)
               wk == TimerPolled(ClosingPolled(w), deadline)
    <3>1. Turned(wk)
      BY <2>7
    <3>2. CASE p.res = "pending" /\ ~Expired
      <4>1. UNCHANGED <<s, seen>>
            /\ IF deadline \in due
                THEN p' = [Jump("top") EXCEPT !.expired = deadline] /\ w' = wk
                ELSE IF s.closing THEN Pending(wk)
                ELSE Goto("read") /\ w' = wk
        BY <2>8, <3>2 DEF next_fed
      <4> HIDE DEF deadline, wk
      <4> QED
        BY <2>4, <2>5, <2>6, <3>1, <4>1 DEF Pending
    <3> HIDE DEF deadline, wk
    <3>3. CASE p.res = "ready" /\ Goto("read") /\ UNCHANGED <<s, w, seen>>
      BY <1>0, <2>4, <3>3 DEF InPollNext
    <3> QED
      BY <1>5, <2>3, <2>8, <3>2, <3>3 DEF next_fed
  <2>9. CASE next_nodata
    <3> DEFINE deadline == IF s.parse_error THEN "none" ELSE next_deadline(s)
               wk == TimerPolled(ClosingPolled(w), deadline)
    <3>1. Turned(wk) /\ p.pc = "nodata"
      BY <2>7, <2>9 DEF next_nodata, At
    <3>2. CASE ~Expired
      <4>1. UNCHANGED <<s, seen>>
            /\ IF deadline \in due
                THEN p' = [Jump("top") EXCEPT !.expired = deadline] /\ w' = wk
                ELSE Pending(wk)
        BY <2>9, <3>2 DEF next_nodata
      <4> HIDE DEF deadline, wk
      <4> QED
        BY <2>5, <2>6, <3>1, <4>1 DEF Pending
    <3> QED
      BY <1>5, <2>9, <3>2 DEF next_nodata
  <2> QED
    BY <2>8, <2>9
<1> QED
  BY <1>6, <1>7

\* The stream st, with the message x taken out of hand.
Held(st, x) ==
    /\ Record(st, SFields) /\ st.control = NoFrame /\ st.pending = <<>>
    /\ st.batch \in Seq(Message) /\ st.read_buf \in Seq(Sent)
    /\ st.state # "Closed" /\ ~st.close_after_flush
    /\ st.parse_error => ~st.unprocessed
    /\ st.unprocessed => st.batch = <<>>
    /\ ~st.parse_error /\ ~st.unprocessed => st.read_buf = <<>>
    /\ Flow(net.script, Whole, net.read, FALSE, seen.delivered, <<x.id>>, st.batch, st.read_buf, FALSE,
            ~st.parse_error)

\* The next message in hand.
LEMMA TakeOne ==
    ASSUME Msg, ReadInv, InPollNext, Delivering, InHand # <<>>
    PROVE  /\ InHand[1] \in Message /\ InHand[1].id \in Nat /\ Held(Taking1(s), InHand[1])
           /\ p.pc = "errors" /\ p.expired = "none"
<1>0. p.pc = "errors"
  BY DEF Delivering, At
<1>1. s.state # "Closed" /\ ~s.close_after_flush /\ p.expired = "none" /\ s.control = NoFrame
  BY <1>0, AtErrors
<1>2. /\ s.pending \in Seq(Message) /\ s.batch \in Seq(Message) /\ p.parsed \in Message \cup {NoFrame}
      /\ InParser = p.parsed
      /\ p.parsed # NoFrame => InHand[1] = p.parsed
      /\ p.parsed = NoFrame /\ s.pending # <<>> => InHand[1] = s.pending[1]
      /\ p.parsed = NoFrame /\ s.pending = <<>> => InHand = s.batch
  BY HandParts
<1>3. Live = ~s.parse_error
  BY <1>1 DEF Live
<1>4. /\ Script(net.script) /\ FramesOf(net.script) = Sent /\ (\A f \in Message : f.id \in Nat)
      /\ Record(s, SFields) /\ s.read_buf \in Seq(Sent) /\ Reading /\ Towards = "errors"
  BY <1>0, RunScript DEF Msg, Message, InPollNext, FrameTypes
<1>5. /\ s.parse_error => ~s.unprocessed
      /\ s.unprocessed => s.batch = <<>>
      /\ ~s.parse_error /\ ~s.unprocessed => s.read_buf = <<>>
  BY <1>3, <1>4 DEF ReadInv, KeepInv
<1>6. Flow(net.script, Whole, net.read, FALSE, seen.delivered, Hand, s.batch, s.read_buf, FALSE, ~s.parse_error)
  BY <1>3 DEF Msg, FlowInv
<1>7. CASE p.parsed # NoFrame
  <2>1. s.pending = <<>> /\ Hand = <<p.parsed.id>> /\ Taking1(s) = s /\ InHand[1] = p.parsed
    BY <1>1, <1>2, <1>7 DEF Msg, HandInv, Hand, Taking1
  <2> QED
    BY <1>0, <1>1, <1>2, <1>4, <1>5, <1>6, <1>7, <2>1 DEF Held
<1>8. CASE p.parsed = NoFrame /\ s.pending # <<>>
  <2>1. s.batch = <<>> /\ Hand = <<s.pending[1].id>> /\ InHand[1] = s.pending[1]
    BY <1>1, <1>2, <1>8 DEF Msg, HandInv, Hand
  <2>2. s.pending[1] \in Message
    BY <1>2, <1>8
  <2> DEFINE st == Taking1(s)
  <2>3. /\ Record(st, SFields) /\ st.control = NoFrame /\ st.pending = <<>> /\ st.batch = s.batch
        /\ st.read_buf = s.read_buf /\ st.state = s.state /\ ~st.close_after_flush
        /\ st.parse_error = s.parse_error /\ st.unprocessed = s.unprocessed
    BY <1>1, <1>4, <1>8 DEF Taking1, Record, SFields
  <2> HIDE DEF st
  <2>4. Held(st, s.pending[1])
    BY <1>1, <1>2, <1>4, <1>5, <1>6, <2>1, <2>3 DEF Held
  <2> QED
    BY <1>0, <1>1, <1>4, <2>1, <2>2, <2>4 DEF st
<1>9. CASE p.parsed = NoFrame /\ s.pending = <<>>
  <2>1. Hand = <<>> /\ InHand = s.batch /\ s.batch # <<>>
    BY <1>1, <1>2, <1>9 DEF Hand
  <2>2. s.batch[1] \in Message /\ s.batch[1] = Head(s.batch) /\ Tail(s.batch) \in Seq(Message)
    BY <1>2, <2>1
  <2>3. Flow(net.script, Whole, net.read, FALSE, seen.delivered, <<Head(s.batch).id>>, Tail(s.batch), s.read_buf,
             FALSE, ~s.parse_error)
    BY <1>4, <1>6, <2>1, FlowTakes
  <2> DEFINE st == Taking1(s)
  <2>4. /\ Record(st, SFields) /\ st.control = NoFrame /\ st.pending = <<>> /\ st.batch = Tail(s.batch)
        /\ st.read_buf = s.read_buf /\ st.state = s.state /\ ~st.close_after_flush
        /\ st.parse_error = s.parse_error /\ st.unprocessed = s.unprocessed
    BY <1>1, <1>4, <1>9 DEF Taking1, Record, SFields
  <2> HIDE DEF st
  <2>5. Held(st, s.batch[1])
    BY <1>1, <1>4, <1>5, <2>1, <2>2, <2>3, <2>4 DEF Held
  <2> QED
    BY <1>0, <1>1, <1>4, <2>1, <2>2, <2>5 DEF st
<1> QED
  BY <1>7, <1>8, <1>9

\* What was read but not parsed is parsed behind it.
LEMMA ProcessHeld ==
    ASSUME NetInv, NEW x \in Message, NEW st, Held(st, x), st.unprocessed, NEW r, r = ProcessAll(st)
    PROVE  Held(r, x)
<1>0. /\ Script(net.script) /\ FramesOf(net.script) = Sent /\ x.id \in Nat
      /\ Record(st, SFields) /\ st.read_buf \in Seq(Sent) /\ st.batch = <<>> /\ ~st.parse_error
  BY RunScript DEF Held, Message
<1>1. /\ Record(r, SFields) /\ r.control = st.control /\ r.close_after_flush = st.close_after_flush
      /\ r.read_buf = <<>> /\ ~r.unprocessed
      /\ r.pending = st.pending /\ r.batch = Complete(UpTo(st.read_buf))
      /\ BadAt(st.read_buf) = {} => r.state = st.state /\ r.parse_error = st.parse_error
      /\ BadAt(st.read_buf) # {} =>
           r.parse_error /\ r.state = IF st.state = "Open" THEN "ReadErrorPending" ELSE st.state
  BY <1>0, ProcessFields, ZenonT(60)
<1>2. PICK m \in 0 .. Len(st.read_buf) :
        UpTo(st.read_buf) = SubSeq(st.read_buf, 1, m) /\ (BadAt(st.read_buf) = {} => m = Len(st.read_buf))
  BY <1>0, UpToPrefix
<1>3. r.parse_error <=> BadAt(st.read_buf) # {}
  BY <1>0, <1>1
<1>4. r.batch = Filter(SubSeq(st.read_buf, 1, m), Whole)
  BY <1>1, <1>2 DEF Complete, Whole
<1>5. Flow(net.script, Whole, net.read, FALSE, seen.delivered, <<x.id>>, <<>>, st.read_buf, FALSE, TRUE)
  BY <1>0 DEF Held
<1>6. Flow(net.script, Whole, net.read, FALSE, Append(seen.delivered, x.id), <<>>, <<>>, st.read_buf, FALSE, TRUE)
  BY <1>0, <1>5, FlowReturns
<1> DEFINE live == ~r.parse_error
<1>7. live => m = Len(st.read_buf)
  BY <1>2, <1>3
<1> HIDE DEF live
<1>8. Flow(net.script, Whole, net.read, FALSE, Append(seen.delivered, x.id), <<>>,
           Filter(SubSeq(st.read_buf, 1, m), Whole), <<>>, FALSE, live)
  BY <1>0, <1>6, <1>7, FlowParses
<1>9. seen.delivered \in Seq(Nat)
  BY <1>5 DEF Flow, FlowTypes
<1>10. Flow(net.script, Whole, net.read, FALSE, seen.delivered, <<x.id>>, r.batch, <<>>, FALSE, live)
  BY <1>0, <1>4, <1>8, <1>9, FlowHolds
<1>11. r.batch \in Seq(Message)
  BY <1>0, <1>10 DEF Flow, FlowTypes, Message
<1>12. r.state # "Closed" /\ st.control = NoFrame /\ st.pending = <<>> /\ ~st.close_after_flush
  BY <1>1 DEF Held
<1>13. Flow(net.script, Whole, net.read, FALSE, seen.delivered, <<x.id>>, r.batch, r.read_buf, FALSE,
            ~r.parse_error)
  BY <1>1, <1>10 DEF live
<1>14. r.control = NoFrame /\ r.pending = <<>> /\ ~r.close_after_flush
  BY <1>1, <1>12
<1>15. r.read_buf \in Seq(Sent) /\ r.read_buf = <<>>
  BY <1>1
<1> QED
  BY <1>1, <1>11, <1>12, <1>13, <1>14, <1>15 DEF Held

\* It is returned.
LEMMA MsgGiven ==
    ASSUME Msg, InPollNext, NEW x \in Message, NEW st, Held(st, x),
           s'.control = st.control, s'.pending = st.pending, s'.batch = st.batch, s'.read_buf = st.read_buf,
           s'.unprocessed = st.unprocessed, s'.parse_error = st.parse_error, s'.state = st.state,
           s'.close_after_flush = st.close_after_flush, p' = Idle, w'.asleep["Stream"] = NoTask,
           seen'.delivered = Append(seen.delivered, x.id)
    PROVE  Msg' /\ ReadInv'
<1>0. /\ Script(net.script) /\ x.id \in Nat /\ NetInv' /\ SameNet /\ "none" \notin due'
      /\ Sent' = Sent /\ Message' = Message
  BY RunScript, SameMessages DEF Msg, Message, InPollNext, SameNet
<1>1. InParser' = NoFrame /\ ~Reading' /\ s'.control = NoFrame /\ s'.pending = <<>>
  BY DEF InParser, Reading, Idle, Held
<1>2. Hand' = <<>>
  BY <1>1 DEF Hand
<1>3. Live' = ~s'.parse_error
  BY DEF Live, Held
<1>4. FrameTypes' /\ HandInv' /\ KeepInv'
  BY <1>0, <1>1, <1>3 DEF FrameTypes, HandInv, KeepInv, Held
<1>5. Flow(net.script, Whole, net.read, FALSE, seen.delivered, <<x.id>>, st.batch, st.read_buf, FALSE,
           ~st.parse_error)
  BY DEF Held
<1>6. Flow(net.script, Whole, net.read, FALSE, seen'.delivered, <<>>, st.batch, st.read_buf, FALSE,
           ~st.parse_error)
  BY <1>0, <1>5, FlowReturns
<1>7. FlowInv'
  BY <1>0, <1>2, <1>3, <1>6 DEF FlowInv, SameNet, Whole
<1> QED
  BY <1>0, <1>1, <1>4, <1>7 DEF Msg, ReadInv, ReaderInv, SleepsEmpty

\* It is answered, and returned once the answer is out.
LEMMA MsgAnswered ==
    ASSUME Msg, InPollNext, NEW x \in Message, NEW st, Held(st, x), Turned(w'),
           s'.control = x, s'.pending = st.pending, s'.batch = st.batch, s'.read_buf = st.read_buf,
           s'.unprocessed = st.unprocessed, s'.parse_error = st.parse_error, s'.state = st.state,
           s'.close_after_flush = st.close_after_flush, s'.flush_on_read,
           p' = [Jump("top") EXCEPT !.parsed = NoFrame], p.expired = "none",
           seen'.delivered = seen.delivered
    PROVE  Msg' /\ ReadInv'
<1>0. /\ Script(net.script) /\ x.id \in Nat /\ NetInv' /\ SameNet /\ "none" \notin due'
      /\ Sent' = Sent /\ Message' = Message
  BY RunScript, SameMessages DEF Msg, Message, InPollNext, SameNet
<1>1. PollAt(p) /\ p.op = "next" /\ Reading
  BY DEF InPollNext
<1>2. NotedPoll(p', "top") /\ p'.parsed = NoFrame /\ p'.expired = "none"
  <2>1. NotedPoll(p', "top")
    BY <1>1, JumpParsed, NextPlaces
  <2>2. p'.parsed = NoFrame /\ p'.expired = "none"
    BY <1>1 DEF Jump, PollAt, Record, PFields
  <2> QED
    BY <2>1, <2>2
<1>3. InParser' = NoFrame /\ Reading' /\ Towards' = "top" /\ p'.pc = "top" /\ s'.pending = <<>>
      /\ ~s'.close_after_flush /\ s'.state # "Closed"
  BY <1>1, <1>2 DEF InParser, Reading, Towards, NotedPoll, Held
<1>4. x # NoFrame
  BY DEF Message, Whole, NoFrame, Kinds
<1>5. Hand' = <<x.id>>
  BY <1>4 DEF Hand
<1>6. Live' = ~s'.parse_error
  BY <1>3 DEF Live
<1>7. FrameTypes' /\ HandInv' /\ KeepInv'
  BY <1>0, <1>3, <1>6 DEF FrameTypes, HandInv, KeepInv, Held
<1>8. Flow(net.script, Whole, net.read, FALSE, seen.delivered, <<x.id>>, st.batch, st.read_buf, FALSE,
           ~st.parse_error)
  BY DEF Held
<1>9. FlowInv'
  BY <1>0, <1>5, <1>6, <1>8 DEF FlowInv, SameNet, Whole
<1>10. w'.asleep["Stream"] = NoTask
  BY ReaderAwake DEF InPollNext
<1> QED
  BY <1>0, <1>2, <1>3, <1>7, <1>9, <1>10 DEF Msg, ReadInv, ReaderInv, SleepsEmpty

\* next_message.
LEMMA MessageMsg ==
    ASSUME Base, Msg, ReadInv, next_message
    PROVE  Msg' /\ ReadInv'
<1>0. NextSteppings /\ InPollNext
  BY ReaderReady DEF NextSteppings
<1> DEFINE x == InHand[1]
           pong == x.kind = "pong"
           st == Taking1(s)
<1>1. /\ Delivering /\ InHand # <<>> /\ s' = Inbound(st, pong) /\ Return(w) /\ p' = Idle
      /\ seen' = [seen EXCEPT !.delivered = Append(@, x.id)]
  BY DEF next_message, Return, Delivered
<1>2. x \in Message /\ x.id \in Nat /\ Held(st, x)
  BY <1>0, <1>1, TakeOne
<1> HIDE DEF x, pong, st
<1>3. /\ s'.control = st.control /\ s'.pending = st.pending /\ s'.batch = st.batch
      /\ s'.read_buf = st.read_buf /\ s'.unprocessed = st.unprocessed /\ s'.parse_error = st.parse_error
      /\ s'.state = st.state /\ s'.close_after_flush = st.close_after_flush
  BY <1>1, <1>2 DEF Inbound, Held, Record, SFields
<1>4. seen'.delivered = Append(seen.delivered, x.id)
  BY <1>0, <1>1 DEF InPollNext, Record, SeenFields
<1>5. w'.asleep["Stream"] = NoTask
  BY <1>0, <1>1, ReaderAwake DEF InPollNext
<1> QED
  BY <1>0, <1>1, <1>2, <1>3, <1>4, <1>5, MsgGiven

\* next_ping.
LEMMA PingMsg ==
    ASSUME Base, Msg, ReadInv, next_ping
    PROVE  Msg' /\ ReadInv'
<1>0. NextSteppings /\ InPollNext /\ NetInv
  BY ReaderReady DEF NextSteppings, Msg
<1> DEFINE x == InHand[1]
           t == Taking1(s)
           st == IF setup.compressed THEN Taking1(s) ELSE process_buffered_after_ping(Taking1(s))
           polled == ClosingPolled(w)
<1>1. /\ Delivering /\ InHand # <<>>
      /\ \/ s' = st /\ Return(polled) /\ seen' = [seen EXCEPT !.delivered = Append(@, x.id)]
         \/ /\ s' = [st EXCEPT !.pending_pong = x.id, !.control = x, !.flush_on_read = TRUE]
            /\ w' = polled /\ p' = [Jump("top") EXCEPT !.parsed = NoFrame] /\ seen' = seen
  BY DEF next_ping, Delivered
<1>2. x \in Message /\ x.id \in Nat /\ Held(t, x) /\ p.expired = "none"
  BY <1>0, <1>1, TakeOne
<1>3. st = t \/ (st = ProcessAll(t) /\ t.unprocessed)
  BY DEF process_buffered_after_ping
<1> HIDE DEF x, t, st
<1>4. Held(st, x)
  <2>1. CASE st = t
    BY <1>2, <2>1
  <2>2. CASE st = ProcessAll(t) /\ t.unprocessed
    BY <1>0, <1>2, <2>2, ProcessHeld
  <2> QED
    BY <1>3, <2>1, <2>2
<1>5. Turned(polled) /\ Record(seen, SeenFields) /\ WShape(w) /\ w.asleep["Stream"] = NoTask
  BY <1>0 DEF InPollNext
<1> HIDE DEF polled
<1>6. CASE s' = st /\ Return(polled) /\ seen' = [seen EXCEPT !.delivered = Append(@, x.id)]
  <2>1. p' = Idle /\ seen'.delivered = Append(seen.delivered, x.id)
    BY <1>5, <1>6 DEF Return, Record, SeenFields
  <2>2. w'.asleep["Stream"] = NoTask
    BY <1>5, <1>6, ReaderAwake
  <2> QED
    BY <1>0, <1>2, <1>4, <1>6, <2>1, <2>2, MsgGiven
<1>7. CASE /\ s' = [st EXCEPT !.pending_pong = x.id, !.control = x, !.flush_on_read = TRUE]
           /\ w' = polled /\ p' = [Jump("top") EXCEPT !.parsed = NoFrame] /\ seen' = seen
  <2>1. /\ s'.control = x /\ s'.pending = st.pending /\ s'.batch = st.batch
        /\ s'.read_buf = st.read_buf /\ s'.unprocessed = st.unprocessed /\ s'.parse_error = st.parse_error
        /\ s'.state = st.state /\ s'.close_after_flush = st.close_after_flush /\ s'.flush_on_read
    BY <1>4, <1>7 DEF Held, Record, SFields
  <2>2. Turned(w') /\ seen'.delivered = seen.delivered
    BY <1>5, <1>7
  <2> QED
    BY <1>0, <1>2, <1>4, <1>7, <2>1, <2>2, MsgAnswered
<1> QED
  BY <1>1, <1>6, <1>7

\* next_close.
LEMMA CloseMsg ==
    ASSUME Base, Msg, ReadInv, next_close
    PROVE  Msg' /\ ReadInv'
<1>0. NextSteppings /\ InPollNext /\ NetInv
  BY ReaderReady DEF NextSteppings, Msg
<1> DEFINE x == InHand[1]
           st == [begin_closing(s) EXCEPT
                    !.pending = <<>>, !.batch = <<>>, !.read_buf = <<>>, !.parse_error = FALSE,
                    !.control = x, !.flush_on_read = TRUE, !.close_after_flush = TRUE]
<1>1. /\ Delivering /\ InHand # <<>> /\ p' = [Jump("top") EXCEPT !.parsed = NoFrame] /\ w' = ClosingTimer(w)
      /\ s' = st \/ \E f : s' = Encode(st, f)
      /\ seen' = seen \/ \E f : Encoded(f)
  BY DEF next_close
<1>2. /\ x \in Message /\ x.id \in Nat /\ Held(Taking1(s), x) /\ p.expired = "none"
      /\ p.pc = "errors"
  BY <1>0, <1>1, TakeOne
<1>3. s.state # "Closed" /\ Record(s, SFields) /\ Record(seen, SeenFields)
  BY <1>0, <1>2, AtErrors DEF InPollNext
<1> HIDE DEF x
<1>4. /\ s'.control = x /\ s'.pending = <<>> /\ s'.batch = <<>> /\ s'.read_buf = <<>> /\ ~s'.parse_error
      /\ s'.unprocessed = s.unprocessed /\ s'.close_after_flush /\ s'.flush_on_read /\ s'.state = s.state
  <2>1. /\ Record(st, SFields) /\ st.control = x /\ st.pending = <<>> /\ st.batch = <<>>
        /\ st.read_buf = <<>> /\ ~st.parse_error /\ st.unprocessed = s.unprocessed
        /\ st.close_after_flush /\ st.flush_on_read /\ st.state = s.state
    BY <1>3 DEF begin_closing, Record, SFields
  <2> HIDE DEF st
  <2> QED
    BY <1>1, <2>1 DEF Encode, Record, SFields
<1>5. seen'.delivered = seen.delivered
  BY <1>1, <1>3 DEF Encoded, Record, SeenFields
<1>6. PollAt(p) /\ p.op = "next" /\ Reading
  BY <1>0 DEF InPollNext
<1>7. NotedPoll(p', "top") /\ p'.parsed = NoFrame /\ p'.expired = "none"
  <2>1. NotedPoll(p', "top")
    BY <1>1, <1>6, JumpParsed, NextPlaces
  <2>2. p'.parsed = NoFrame /\ p'.expired = "none"
    BY <1>1, <1>2, <1>6 DEF Jump, PollAt, Record, PFields
  <2> QED
    BY <2>1, <2>2
<1>8. InParser' = NoFrame /\ Reading' /\ Towards' = "top" /\ p'.pc = "top"
  BY <1>6, <1>7 DEF InParser, Reading, Towards, NotedPoll
<1>9. x # NoFrame
  BY <1>2 DEF Message, Whole, NoFrame, Kinds
<1>10. Hand' = <<x.id>> /\ Live' = FALSE
  BY <1>4, <1>9 DEF Hand, Live
<1>11. /\ Script(net.script) /\ NetInv' /\ SameNet /\ "none" \notin due'
       /\ Sent' = Sent /\ Message' = Message
  BY <1>0, RunScript, SameMessages DEF InPollNext, SameNet
<1>12. FrameTypes' /\ HandInv' /\ KeepInv'
  <2>1. <<>> \in Seq(Message) /\ <<>> \in Seq(Sent)
    OBVIOUS
  <2> QED
    BY <1>2, <1>4, <1>8, <1>10, <1>11, <2>1 DEF FrameTypes, HandInv, KeepInv
<1>13. FlowInv'
  <2> DEFINE t == Taking1(s)
  <2>1. Flow(net.script, Whole, net.read, FALSE, seen.delivered, <<x.id>>, t.batch, t.read_buf, FALSE,
             ~t.parse_error)
    BY <1>2 DEF Held
  <2> HIDE DEF t
  <2>2. Flow(net.script, Whole, net.read, FALSE, seen.delivered, <<x.id>>, <<>>, <<>>, FALSE, FALSE)
    BY <1>11, <2>1, FlowEnds
  <2> QED
    BY <1>4, <1>5, <1>10, <1>11, <2>2 DEF FlowInv, SameNet, Whole
<1>14. w'.asleep["Stream"] = NoTask
  BY <1>0, <1>1, ReaderAwake DEF InPollNext
<1> QED
  BY <1>3, <1>4, <1>7, <1>8, <1>11, <1>12, <1>13, <1>14 DEF Msg, ReadInv, ReaderInv, SleepsEmpty

\* next_read.
LEMMA ReadMsg ==
    ASSUME Base, Msg, ReadInv, next_read
    PROVE  Msg' /\ ReadInv'
<1> USE NextPlaces
<1>0. /\ Record(s, SFields) /\ Record(net, NetFields) /\ Record(seen, SeenFields) /\ WShape(w) /\ Wakers
      /\ PollAt(p) /\ Reading /\ p.op = "next" /\ p.half = "Stream" /\ Polled
      /\ Towards = p.pc /\ InParser = p.parsed /\ p.pc = "read"
      /\ NetInv' /\ "none" \notin due' /\ w.asleep["Stream"] = NoTask
  BY ReaderStep, ReaderAt DEF Base, Shapes, next_read, At
<1>1. EmptyHanded /\ Live /\ ~s.unprocessed /\ p.expired = "none" /\ s.state # "Closed"
  BY <1>0 DEF ReadInv, ReaderInv
<1>2. /\ s.control = NoFrame /\ p.parsed = NoFrame /\ s.pending = <<>> /\ s.batch = <<>> /\ s.read_buf = <<>>
      /\ ~s.parse_error /\ ~s.close_after_flush
  <2>1. s.read_buf = <<>>
    BY <1>0, <1>1 DEF ReadInv, KeepInv
  <2> QED
    BY <1>0, <1>1, <2>1 DEF EmptyHanded, Hand, Live
<1>3. /\ Script(net.script) /\ FramesOf(net.script) = Sent /\ net.read \in Nat /\ net.arrived \in Nat
      /\ Len(net.script) \in Nat /\ net.arrived <= Len(net.script) /\ net.script \in Seq(Sent)
  <2>1. Script(net.script) /\ FramesOf(net.script) = Sent
    BY RunScript DEF Msg
  <2> QED
    BY <2>1 DEF Msg, NetInv, Script
<1> DEFINE st == IF p.late THEN [s EXCEPT !.post_expiry = TRUE] ELSE s
<1>4. /\ Record(st, SFields) /\ st.control = NoFrame /\ st.pending = <<>> /\ st.batch = <<>>
      /\ st.read_buf = <<>> /\ ~st.parse_error /\ ~st.close_after_flush /\ ~st.unprocessed
      /\ st.state = s.state /\ st.unprocessed = s.unprocessed
  BY <1>0, <1>1, <1>2 DEF Record, SFields
<1>5. PICK wk \in register(w, p.half) :
        \/ \E n \in 1 .. net.arrived - net.read :
               /\ s' = [st EXCEPT !.read_buf = @ \o SubSeq(net.script, net.read + 1, net.read + n)]
               /\ net' = [net EXCEPT !.read = @ + n]
               /\ Goto("process") /\ w' = wk /\ UNCHANGED seen
        \/ /\ s' = close_terminal(st)
           /\ Return(TerminalWakes(wk)) /\ UNCHANGED net
           /\ \E r : Ended(r)
        \/ /\ s' = st /\ net' = [net EXCEPT !.interest = @ \cup {"read"}]
           /\ Goto("nodata") /\ w' = wk /\ UNCHANGED seen
  BY <1>0 DEF next_read
<1> HIDE DEF st
<1>6. RegisterDone(wk)
  BY <1>0, <1>5, Registers
<1>7. WShape(wk) /\ wk.asleep["Stream"] = NoTask
  BY <1>0, <1>6 DEF RegisterDone
<1>8. Flow(net.script, Whole, net.read, FALSE, seen.delivered, <<>>, <<>>, <<>>, FALSE, TRUE)
  BY <1>1, <1>2 DEF Msg, FlowInv, EmptyHanded
<1>9. CASE \E n \in 1 .. net.arrived - net.read :
               /\ s' = [st EXCEPT !.read_buf = @ \o SubSeq(net.script, net.read + 1, net.read + n)]
               /\ net' = [net EXCEPT !.read = @ + n]
               /\ Goto("process") /\ w' = wk /\ UNCHANGED seen
  <2>1. PICK n \in 1 .. net.arrived - net.read :
               /\ s' = [st EXCEPT !.read_buf = @ \o SubSeq(net.script, net.read + 1, net.read + n)]
               /\ net' = [net EXCEPT !.read = @ + n]
               /\ Goto("process") /\ w' = wk /\ UNCHANGED seen
    BY <1>9
  <2> DEFINE q == net.read + n
             buf == SubSeq(net.script, net.read + 1, q)
  <2>2. q \in net.read .. Len(net.script)
    BY <1>3
  <2>3. net'.script = net.script /\ net'.read = q
    BY <1>0, <2>1 DEF Record, NetFields
  <2>4. buf \in Seq(Sent)
    BY <1>3, <2>2
  <2> HIDE DEF q
  <2>5. Flow(net.script, Whole, q, FALSE, seen.delivered, <<>>, <<>>, buf, FALSE, TRUE)
    BY <1>3, <1>8, <2>2, FlowReads
  <2>6. st.read_buf \o buf = buf
    BY <1>4, <2>4
  <2>7. s' = [st EXCEPT !.read_buf = buf]
    BY <2>1, <2>6 DEF q
  <2> HIDE DEF buf
  <2>8. /\ s'.control = NoFrame /\ s'.pending = <<>> /\ s'.batch = <<>> /\ s'.read_buf = buf
        /\ ~s'.parse_error /\ ~s'.close_after_flush /\ ~s'.unprocessed /\ s'.state # "Closed"
    BY <1>1, <1>4, <2>7 DEF Record, SFields
  <2>9. SamePoll(p') /\ p'.pc = "process" /\ Bound(p') = "process" /\ p'.op = "next"
    BY <1>0, <2>1, JumpAt DEF Goto
  <2>10. InParser' = NoFrame /\ Reading' /\ Towards' = "process" /\ p'.expired = "none"
    BY <1>0, <1>1, <1>2, <2>9 DEF InParser, Reading, Towards, SamePoll
  <2>11. Hand' = <<>> /\ Live' = TRUE /\ EmptyHanded'
    BY <2>8, <2>10 DEF Hand, Live, EmptyHanded
  <2>12. Sent' = Sent /\ Message' = Message
    BY <2>3, SameMessages
  <2>13. FrameTypes' /\ HandInv' /\ KeepInv'
    <3>1. <<>> \in Seq(Message)
      OBVIOUS
    <3> QED
      BY <1>0, <2>4, <2>8, <2>10, <2>12, <3>1 DEF FrameTypes, HandInv, KeepInv
  <2>14. FlowInv'
    BY <2>1, <2>3, <2>5, <2>8, <2>11 DEF FlowInv, Whole
  <2> QED
    BY <1>0, <1>7, <2>1, <2>8, <2>9, <2>10, <2>11, <2>13, <2>14 DEF Msg, ReadInv, ReaderInv, SleepsEmpty
<1>10. CASE /\ s' = close_terminal(st)
            /\ Return(TerminalWakes(wk)) /\ UNCHANGED net
            /\ \E r : Ended(r)
  <2>1. /\ s'.control = NoFrame /\ s'.pending = <<>> /\ s'.batch = <<>> /\ s'.read_buf = <<>>
        /\ ~s'.parse_error /\ s'.unprocessed = s.unprocessed /\ s'.state = "Closed"
    BY <1>4, <1>10 DEF close_terminal, Record, SFields
  <2>2. seen'.delivered = seen.delivered /\ p' = Idle
    BY <1>0, <1>10 DEF Ended, Return, Record, SeenFields
  <2>3. InParser' = NoFrame /\ ~Reading'
    BY <2>2 DEF InParser, Reading, Idle
  <2>4. Hand' = <<>>
    BY <2>1, <2>3 DEF Hand
  <2>5. SameNet /\ SameBuffer
    BY <1>2, <1>10, <2>1 DEF SameNet, SameBuffer
  <2>6. Msg'
    BY <1>0, <2>1, <2>2, <2>3, <2>4, <2>5, MsgOver
  <2> QED
    BY <2>1, <2>3, <2>6 DEF Msg, ReadInv, ReaderInv, SleepsEmpty
<1>11. CASE /\ s' = st /\ net' = [net EXCEPT !.interest = @ \cup {"read"}]
            /\ Goto("nodata") /\ w' = wk /\ UNCHANGED seen
  <2>1. SamePoll(p') /\ p'.pc = "nodata" /\ Bound(p') = "nodata" /\ p'.op = "next"
    BY <1>0, <1>11, JumpAt DEF Goto
  <2>2. InParser' = NoFrame /\ Reading' /\ Towards' = "nodata" /\ p'.expired = "none"
    BY <1>0, <1>1, <1>2, <2>1 DEF InParser, Reading, Towards, SamePoll
  <2>3. Hand' = <<>> /\ Live' = TRUE /\ EmptyHanded'
    BY <1>1, <1>4, <1>11, <2>2 DEF Hand, Live, EmptyHanded
  <2>4. SameNet
    BY <1>0, <1>11 DEF Record, NetFields, SameNet
  <2>5. Sent' = Sent /\ Message' = Message
    BY <2>4, SameMessages DEF SameNet
  <2>6. FrameTypes' /\ HandInv' /\ KeepInv'
    <3>1. <<>> \in Seq(Message) /\ <<>> \in Seq(Sent)
      OBVIOUS
    <3> QED
      BY <1>0, <1>4, <1>11, <2>2, <2>5, <3>1 DEF FrameTypes, HandInv, KeepInv
  <2>7. FlowInv'
    BY <1>4, <1>8, <1>11, <2>3, <2>4 DEF FlowInv, Whole, SameNet
  <2> QED
    BY <1>0, <1>1, <1>4, <1>7, <1>11, <2>1, <2>2, <2>3, <2>6, <2>7 DEF Msg, ReadInv, ReaderInv, SleepsEmpty
<1> QED
  BY <1>5, <1>9, <1>10, <1>11

\* The parser took a whole message, or met a bad frame, or needs more bytes; or it took all that
\* was read.
LEMMA ProcessMsg ==
    ASSUME Base, Msg, ReadInv, process_read_buf \/ compressed_process_read_buf
    PROVE  Msg' /\ ReadInv'
<1> USE NextPlaces
<1>0. NextSteppings /\ InPollNext
  BY ReaderReady DEF NextSteppings
<1>1. /\ Record(s, SFields) /\ PollAt(p) /\ Reading /\ p.op = "next" /\ Towards = p.pc
      /\ InParser = p.parsed /\ p.pc = "process" /\ NetInv' /\ SameNet /\ "none" \notin due'
      /\ w.asleep["Stream"] = NoTask /\ w' = w /\ seen' = seen
  BY <1>0 DEF InPollNext, process_read_buf, compressed_process_read_buf, At
<1>2. EmptyHanded /\ Live /\ p.expired = "none" /\ s.state # "Closed"
  BY <1>1 DEF ReadInv, ReaderInv
<1>3. /\ s.control = NoFrame /\ p.parsed = NoFrame /\ s.pending = <<>> /\ s.batch = <<>>
      /\ ~s.parse_error /\ ~s.close_after_flush
  BY <1>1, <1>2 DEF EmptyHanded, Hand, Live
<1>4. /\ Script(net.script) /\ FramesOf(net.script) = Sent /\ s.read_buf \in Seq(Sent)
      /\ Sent' = Sent /\ Message' = Message /\ Sent \subseteq [kind : Kinds, id : Nat]
  <2> DEFINE T == [kind : Kinds, id : Nat]
  <2>0. net.script \in Seq(T)
    BY DEF Msg, NetInv
  <2> HIDE DEF T
  <2>1. Sent \subseteq T
    BY <2>0 DEF Sent
  <2> QED
    BY <1>1, <2>1, RunScript, SameMessages DEF Msg, FrameTypes, SameNet, T
<1> DEFINE v == s.read_buf
<1>5. Flow(net.script, Whole, net.read, FALSE, seen.delivered, <<>>, <<>>, v, FALSE, TRUE)
  BY <1>2, <1>3 DEF Msg, FlowInv, EmptyHanded
<1>6. ASSUME NEW x \in {"top", "errors"}, s'.control = NoFrame, s'.pending = <<>>, s'.batch \in Seq(Message),
             s'.read_buf \in Seq(Sent), s'.state # "Closed", ~s'.close_after_flush,
             s'.parse_error => ~s'.unprocessed, s'.unprocessed => s'.batch = <<>>,
             ~s'.parse_error /\ ~s'.unprocessed => s'.read_buf = <<>>,
             \/ p' = Jump(x)
             \/ p' = [Jump(x) EXCEPT !.parsed = p'.parsed] /\ p'.parsed \in Message /\ s'.batch = <<>>,
             Flow(net.script, Whole, net.read, FALSE, seen.delivered,
                  IF p'.parsed = NoFrame THEN <<>> ELSE <<p'.parsed.id>>, s'.batch, s'.read_buf, FALSE,
                  ~s'.parse_error)
      PROVE  Msg' /\ ReadInv'
  <2>1. NotedPoll(p', x) /\ p'.expired = "none" /\ p'.parsed \in Message \cup {NoFrame}
        /\ (p'.parsed # NoFrame => s'.batch = <<>>)
    <3>1. CASE p' = Jump(x)
      <4>1. PollAt(p') /\ SamePoll(p') /\ p'.pc = x /\ Bound(p') = x /\ p'.res = "none" /\ p'.op = p.op
        BY <1>1, <1>6, <3>1, JumpAt
      <4> QED
        BY <1>2, <1>3, <4>1 DEF NotedPoll, SamePoll
    <3>2. CASE p' = [Jump(x) EXCEPT !.parsed = p'.parsed] /\ p'.parsed \in Message /\ s'.batch = <<>>
      <4>1. NotedPoll(p', x)
        BY <1>1, <1>6, <3>2, JumpParsed, ZenonT(60)
      <4>2. p'.expired = "none"
        BY <1>1, <1>2, <3>2 DEF Jump, PollAt, Record, PFields
      <4> QED
        BY <3>2, <4>1, <4>2
    <3> QED
      BY <1>6, <3>1, <3>2
  <2>2. InParser' = p'.parsed /\ Reading' /\ Towards' = x /\ p'.pc = x
    BY <1>1, <2>1 DEF InParser, Reading, Towards, NotedPoll
  <2>3. Hand' = IF p'.parsed = NoFrame THEN <<>> ELSE <<p'.parsed.id>>
    BY <1>6, <2>2 DEF Hand
  <2>4. Live' = ~s'.parse_error
    BY <1>6 DEF Live
  <2>5. FrameTypes' /\ HandInv' /\ KeepInv'
    BY <1>1, <1>4, <1>6, <2>1, <2>2, <2>4 DEF FrameTypes, HandInv, KeepInv
  <2>6. FlowInv'
    BY <1>1, <1>6, <2>3, <2>4 DEF FlowInv, SameNet, Whole
  <2> QED
    BY <1>1, <1>6, <2>1, <2>2, <2>5, <2>6 DEF Msg, ReadInv, ReaderInv, SleepsEmpty
<1>7. CASE process_read_buf
  <2> DEFINE ends == {i \in DOMAIN v : v[i].kind # "frag"}
             n == IF ends = {} THEN Len(v) ELSE CHOOSE i \in ends : \A j \in ends : i <= j
             rest == SubSeq(v, n + 1, Len(v))
             st == [s EXCEPT !.read_buf = rest, !.unprocessed = ends # {} /\ rest # <<>>]
  <2>1. \/ /\ ends # {} /\ v[n].kind = "bad"
           /\ s' = [ReadError(st) EXCEPT !.unprocessed = FALSE]
           /\ Goto("top")
        \/ /\ ends # {} /\ v[n].kind # "bad"
           /\ s' = st
           /\ p' = [Jump("top") EXCEPT !.parsed = v[n]]
        \/ ends = {} /\ s' = st /\ Goto(IF p.buffered THEN "errors" ELSE "top")
    BY <1>7 DEF process_read_buf
  <2>2. DOMAIN v = 1 .. Len(v) /\ Len(v) \in Nat /\ ends \in SUBSET Nat
    BY <1>4
  <2>3. n \in 0 .. Len(v) /\ (ends # {} => n \in 1 .. Len(v) /\ n \in ends /\ \A i \in 1 .. n - 1 : i \notin ends)
    <3>1. CASE ends = {}
      BY <2>2, <3>1
    <3>2. CASE ends # {}
      <4>1. \E i \in ends : \A j \in ends : i <= j
        BY <2>2, <3>2, LeastNatural
      <4>2. n \in ends /\ \A j \in ends : n <= j
        BY <3>2, <4>1
      <4> HIDE DEF n
      <4>3. n \in 1 .. Len(v)
        BY <2>2, <4>2
      <4>4. \A i \in 1 .. n - 1 : i \notin ends
        BY <2>2, <4>2, <4>3
      <4> QED
        BY <2>2, <4>2, <4>3, <4>4
    <3> QED
      BY <3>1, <3>2
  <2>4. ends = {} => n = Len(v)
    OBVIOUS
  <2>5. \A i \in 1 .. Len(v) : i \notin ends => v[i].kind = "frag"
    BY <2>2
  <2> HIDE DEF n
  <2>6. rest \in Seq(Sent) /\ (ends = {} => rest = <<>>)
    <3>1. rest \in Seq(Sent) /\ Len(rest) = Len(v) - n
      BY <1>4, <2>2, <2>3
    <3>2. ends = {} => Len(rest) = 0
      BY <2>2, <2>4, <3>1
    <3> QED
      BY <3>1, <3>2, EmptySeq
  <2> HIDE DEF rest
  <2>7. /\ Record(st, SFields) /\ st.control = NoFrame /\ st.pending = <<>> /\ st.batch = <<>>
        /\ st.read_buf = rest /\ ~st.parse_error /\ ~st.close_after_flush /\ st.state = s.state
        /\ st.unprocessed = (ends # {} /\ rest # <<>>)
    BY <1>1, <1>3 DEF Record, SFields
  <2> HIDE DEF st
  <2>8. <<>> \in Seq(Message) /\ <<>> \in Seq(Sent)
    OBVIOUS
  <2>9. CASE /\ ends # {} /\ s' = [ReadError(st) EXCEPT !.unprocessed = FALSE] /\ Goto("top")
    <3>1. /\ s'.control = NoFrame /\ s'.pending = <<>> /\ s'.batch = <<>> /\ s'.read_buf = rest
          /\ s'.parse_error /\ ~s'.close_after_flush /\ ~s'.unprocessed /\ s'.state # "Closed"
          /\ s'.parse_error = TRUE
      BY <1>2, <2>7, <2>9 DEF ReadError, Record, SFields
    <3>2. p' = Jump("top") /\ p'.parsed = NoFrame
      BY <1>1, <1>3, <2>9, JumpAt DEF Goto, SamePoll
    <3>3. Flow(net.script, Whole, net.read, FALSE, seen.delivered, <<>>, <<>>, rest, FALSE, FALSE)
      BY <1>4, <1>5, <2>6, FlowOver
    <3> QED
      BY <1>6, <2>6, <2>8, <3>1, <3>2, <3>3
  <2>10. CASE ends # {} /\ v[n].kind # "bad" /\ s' = st /\ p' = [Jump("top") EXCEPT !.parsed = v[n]]
    <3>1. v[n] \in Sent /\ v[n] \in [kind : Kinds, id : Nat] /\ v[n].kind # "frag"
      BY <1>4, <2>2, <2>3, <2>10
    <3>2. v[n] \in Whole /\ v[n] \in Message /\ v[n] # NoFrame
      <4>1. v[n].kind \in Kinds \ {"frag", "bad"} /\ v[n].id \in Nat /\ v[n] = [kind |-> v[n].kind, id |-> v[n].id]
        BY <2>10, <3>1
      <4> QED
        BY <3>1, <4>1 DEF Whole, Message, Kinds, NoFrame
    <3>3. \A i \in 1 .. n - 1 : v[i] \notin Whole
      <4>1. \A i \in 1 .. n - 1 : i \in 1 .. Len(v) /\ i \notin ends
        BY <2>2, <2>3, <2>10
      <4>2. \A f \in Whole : f.kind # "frag"
        BY DEF Whole
      <4> QED
        BY <2>5, <4>1, <4>2
    <3>4. Flow(net.script, Whole, net.read, FALSE, seen.delivered, <<v[n].id>>, <<>>, rest, FALSE, TRUE)
      BY <1>4, <1>5, <2>3, <2>10, <3>2, <3>3, FlowAccepts DEF rest
    <3>5. p'.parsed = v[n]
      BY <1>1, <2>10 DEF Jump, PollAt, Record, PFields
    <3>6. (~s'.parse_error) = TRUE /\ s'.unprocessed = (rest # <<>>)
      BY <2>7, <2>10
    <3> HIDE DEF v, ends
    <3> QED
      BY <1>2, <1>6, <2>6, <2>7, <2>8, <2>10, <3>2, <3>4, <3>5, <3>6
  <2>11. CASE ends = {} /\ s' = st /\ Goto(IF p.buffered THEN "errors" ELSE "top")
    <3> DEFINE x == IF p.buffered THEN "errors" ELSE "top"
    <3>1. p' = Jump(x) /\ x \in {"errors", "top"}
      BY <2>11 DEF Goto
    <3> HIDE DEF x
    <3>2. p'.parsed = NoFrame
      BY <1>1, <1>3, <3>1, JumpAt DEF SamePoll
    <3>3. \A i \in 1 .. Len(v) : v[i] \notin Whole
      <4>1. \A f \in Whole : f.kind # "frag"
        BY DEF Whole
      <4> QED
        BY <2>5, <2>11, <4>1
    <3>4. Filter(v, Whole) = <<>>
      BY <1>4, <3>3, FilterNone
    <3>5. SubSeq(v, 1, Len(v)) = v /\ Len(v) \in 0 .. Len(v)
      BY <1>4, <2>2
    <3>6. Flow(net.script, Whole, net.read, FALSE, seen.delivered, <<>>, Filter(SubSeq(v, 1, Len(v)), Whole), <<>>,
               FALSE, TRUE)
      BY <1>4, <1>5, <3>5, FlowParses
    <3>7. Flow(net.script, Whole, net.read, FALSE, seen.delivered, <<>>, <<>>, <<>>, FALSE, TRUE)
      BY <3>4, <3>5, <3>6
    <3>8. (~s'.parse_error) = TRUE /\ ~s'.unprocessed /\ s'.read_buf = <<>>
      BY <2>6, <2>7, <2>11
    <3> HIDE DEF v, ends
    <3> QED
      BY <1>2, <1>6, <2>7, <2>8, <2>11, <3>1, <3>2, <3>7, <3>8
  <2> HIDE DEF v, ends
  <2> QED
    BY <2>1, <2>9, <2>10, <2>11
<1>8. CASE compressed_process_read_buf
  <2> DEFINE st == ProcessAll(s)
             x == IF p.buffered /\ st.batch = <<>> /\ ~st.parse_error THEN "errors" ELSE "top"
             h == HasClose(st.batch)
  <2>1. s' = [st EXCEPT !.batch_has_close = h] /\ Goto(x) /\ x \in {"errors", "top"}
    BY <1>8 DEF compressed_process_read_buf
  <2>0. st = ProcessAll(s)
    OBVIOUS
  <2> HIDE DEF st
  <2>2. /\ Record(st, SFields) /\ st.control = s.control /\ st.close_after_flush = s.close_after_flush
        /\ st.read_buf = <<>> /\ ~st.unprocessed
        /\ st.pending = s.pending /\ st.batch = Complete(UpTo(v))
        /\ BadAt(v) = {} => st.state = s.state /\ st.parse_error = s.parse_error
        /\ BadAt(v) # {} => st.parse_error /\ st.state = IF s.state = "Open" THEN "ReadErrorPending" ELSE s.state
    BY <1>1, <2>0, ProcessFields
  <2> HIDE DEF x, h
  <2>3. /\ s'.control = st.control /\ s'.close_after_flush = st.close_after_flush /\ s'.read_buf = st.read_buf
        /\ s'.unprocessed = st.unprocessed /\ s'.pending = st.pending /\ s'.batch = st.batch
        /\ s'.state = st.state /\ s'.parse_error = st.parse_error
    BY <2>1, <2>2 DEF Record, SFields
  <2>4. PICK m \in 0 .. Len(v) : UpTo(v) = SubSeq(v, 1, m) /\ (BadAt(v) = {} => m = Len(v))
    BY <1>4, UpToPrefix
  <2> DEFINE live == ~st.parse_error
  <2>5. live => m = Len(v)
    BY <1>3, <2>2, <2>4
  <2>6. st.batch = Filter(SubSeq(v, 1, m), Whole)
    BY <2>2, <2>4 DEF Complete, Whole
  <2> HIDE DEF live, v
  <2>7. Flow(net.script, Whole, net.read, FALSE, seen.delivered, <<>>, st.batch, <<>>, FALSE, live)
    <3>1. Flow(net.script, Whole, net.read, FALSE, seen.delivered, <<>>, Filter(SubSeq(v, 1, m), Whole), <<>>,
               FALSE, live)
      BY <1>4, <1>5, <2>5, FlowParses
    <3> QED
      BY <2>6, <3>1
  <2>8. st.batch \in Seq(Message) /\ <<>> \in Seq(Sent)
    BY <1>4, <2>7 DEF Flow, FlowTypes, Message
  <2>9. p' = Jump(x) /\ p'.parsed = NoFrame
    BY <1>1, <1>3, <2>1, JumpAt DEF Goto, SamePoll
  <2>10. Flow(net.script, Whole, net.read, FALSE, seen.delivered, <<>>, s'.batch, s'.read_buf, FALSE,
              ~s'.parse_error)
    BY <2>2, <2>3, <2>7 DEF live
  <2>11. /\ s'.control = NoFrame /\ s'.pending = <<>> /\ s'.batch \in Seq(Message) /\ s'.read_buf = <<>>
         /\ s'.read_buf \in Seq(Sent) /\ s'.state # "Closed" /\ ~s'.close_after_flush /\ ~s'.unprocessed
    BY <1>2, <1>3, <2>2, <2>3, <2>8
  <2> QED
    BY <1>6, <2>1, <2>9, <2>10, <2>11
<1> QED
  BY <1>7, <1>8

\* The messages through any step.
LEMMA MsgStep ==
    ASSUME Base, Msg, ReadInv, Steps
    PROVE  Msg' /\ ReadInv'
  BY StepsSplit, OthersMsg, ReadMsg, TopMsg, FlushedMsg, ShutMsg, ErrorsMsg, DeadlinesMsg, MessageMsg, PingMsg,
     CloseMsg, IoMsg, WaitingMsg, ProcessMsg DEF NextSteppings

\* The ids of the messages in a vector.
LEMMA IdsSame ==
    ASSUME NEW S, NEW v \in Seq(S)
    PROVE  Ids(Complete(v)) = IdsOf(Filter(v, Whole))
<1>1. Complete(v) = Filter(v, Whole)
  BY DEF Complete, Whole
<1>2. Filter(v, Whole) \in Seq(S \cap Whole)
  BY FilterType
<1> DEFINE f == Filter(v, Whole)
           T == S \cap Whole
<1>3. f \in Seq(T)
  BY <1>2
<1> HIDE DEF f, T
<1>4. Ids(f) = IdsOf(f)
  BY <1>3 DEF Ids, IdsOf
<1> QED
  BY <1>1, <1>4 DEF f

\* What was delivered is a prefix of the messages sent; a reader that sleeps on an open
\* connection was given all that was read.
LEMMA InOrderDelivered ==
    ASSUME ClosingInv, Msg, ReadInv
    PROVE  DeliveredInOrder
<1>1. Script(net.script) /\ net.script \in Seq(Sent) /\ net.read \in 0 .. Len(net.script)
  BY RunScript DEF Msg, NetInv, Script
<1>2. Flow(net.script, Whole, net.read, FALSE, seen.delivered, Hand, s.batch, s.read_buf, FALSE, Live)
  BY DEF Msg, FlowInv
<1>3. seen.delivered = SubSeq(Ids(Complete(net.script)), 1, Len(seen.delivered))
  <2> DEFINE d == seen.delivered
             h == Hand
             b == s.batch
             buf == s.read_buf
             sc == net.script
             read == net.read
             live == Live
             g == FALSE
  <2>1. Script(sc) /\ Flow(sc, Whole, read, g, d, h, b, buf, g, live)
    BY <1>1, <1>2
  <2> HIDE DEF d, h, b, buf, sc, read, live, g
  <2>2. /\ \A i, j \in DOMAIN d : i < j => d[i] < d[j]
        /\ g \/ d = SubSeq(IdsOf(Filter(sc, Whole)), 1, Len(d))
    BY <2>1, FlowDelivered
  <2>3. seen.delivered = SubSeq(IdsOf(Filter(net.script, Whole)), 1, Len(seen.delivered))
    BY <2>2 DEF d, sc, g
  <2>4. Ids(Complete(net.script)) = IdsOf(Filter(net.script, Whole))
    BY <1>1, IdsSame
  <2> QED
    BY <2>3, <2>4
<1>4. ASSUME w.asleep["Stream"] # NoTask, s.state = "Open", ~s.closing
      PROVE  seen.delivered = Ids(Complete(SubSeq(net.script, 1, net.read)))
  <2>1. Hand = <<>> /\ s.batch = <<>> /\ s.read_buf = <<>>
    BY <1>4 DEF ReadInv, SleepsEmpty, EmptyHanded
  <2>2. Live
    BY <1>4 DEF Live, ClosingInv, ClosingFields
  <2> DEFINE g == FALSE
  <2>7. Flow(net.script, Whole, net.read, g, seen.delivered, Hand, s.batch, s.read_buf, g, Live)
    BY <1>2
  <2> HIDE DEF g
  <2>3. /\ seen.delivered \in Seq(Nat) /\ net.read \in Nat
        /\ Caught(net.script, Whole, net.read, g, Line(seen.delivered, <<>>, <<>>), <<>>, <<>>)
    BY <1>1, <2>7, <2>1, <2>2 DEF Flow, FlowTypes
  <2>4. Line(seen.delivered, <<>>, <<>>) = seen.delivered
    <3>1. IdsOf(<<>>) = <<>>
      BY DEF IdsOf
    <3>2. (seen.delivered \o <<>>) \o <<>> = seen.delivered
      BY <2>3
    <3> QED
      BY <3>1, <3>2 DEF Line
  <2>5. seen.delivered = Parsed(net.script, Whole, net.read)
    <3>1. net.read - Len(<<>>) = net.read
      BY <2>3
    <3> QED
      BY <2>3, <2>4, <3>1 DEF Caught, g
  <2>6. SubSeq(net.script, 1, net.read) \in Seq(Sent)
    BY <1>1
  <2> QED
    BY <2>5, <2>6, IdsSame DEF Parsed
<1> QED
  BY <1>3, <1>4 DEF DeliveredInOrder

-----------------------------------------------------------------------------
(* The output *)

\* The steps that encode or write something.
Outputs ==
    \/ drain_write \/ drain_pong \/ next_errors \/ next_deadlines \/ next_ping \/ next_close \/ poll_close
    \/ (\E item \in setup.items : start_send(item)) \/ close \/ close_write

\* The others leave the output alone, or drop the Pong.
SameOutput ==
    /\ s'.write_buf = s.write_buf /\ s'.pending_pong \in {s.pending_pong, 0}
    /\ seen'.queue = seen.queue /\ seen'.ordered = seen.ordered /\ seen'.sends = seen.sends

\* Such a step leaves the output in order.
LEMMA OutSame ==
    ASSUME OutInv, SameOutput
    PROVE  OutInv'
  BY DEF OutInv, SameOutput, OutputOrder

\* What is encoded lies behind what is queued.
LEMMA OutWrites ==
    ASSUME OutInv, NEW d \in Seq(Cell), s'.write_buf = write(s.write_buf, d),
           seen'.queue = seen.queue \o d, seen'.ordered = seen.ordered, seen'.sends \in Nat,
           s'.pending_pong \in Nat
    PROVE  OutInv'
  BY ContentsWrite DEF OutInv, OutputOrder

\* One frame.
LEMMA OutEncodes ==
    ASSUME OutInv, NEW f \in Cell, s'.write_buf = write(s.write_buf, <<f>>),
           seen'.queue = Append(seen.queue, f), seen'.ordered = seen.ordered, seen'.sends = seen.sends,
           s'.pending_pong \in Nat
    PROVE  OutInv'
<1> DEFINE d == <<f>>
           q == seen.queue
<1>1. d \in Seq(Cell)
  OBVIOUS
<1>2. q \in Seq(Cell)
  BY ContentsType DEF OutInv, OutputOrder
<1>3. Append(q, f) = q \o d
  BY <1>2
<1>4. s'.write_buf = write(s.write_buf, d) /\ seen'.queue = seen.queue \o d /\ seen'.sends \in Nat
  BY <1>3 DEF OutInv
<1> HIDE DEF d, q
<1> QED
  BY <1>1, <1>4, OutWrites

\* A part of what is offered is written: it is the front of the queue.
LEMMA OutWritten ==
    ASSUME OutInv, Record(s, SFields), Record(seen, SeenFields), Write
    PROVE  OutInv'
<1> DEFINE c == s.write_buf
           v == Offered
           q == seen.queue
<1>1. PICK n \in 1 .. Len(v) :
      /\ s' = [s EXCEPT !.write_buf = consume(@, n)]
      /\ seen' = [seen EXCEPT !.ordered = @ /\ SubSeq(v, 1, n) = SubSeq(q, 1, n),
                              !.queue = SubSeq(@, n + 1, Len(@))]
  BY DEF Write
<1>2. c \in Corks(Cell) /\ q = Contents(c) /\ seen.ordered
  BY DEF OutInv, OutputOrder
<1>3. v \in Seq(Cell) /\ \E r \in Seq(Cell) : Contents(c) = v \o r
  <2>1. v = chunk(c) \/ v = fill_write_slices(c)
    BY DEF Offered
  <2> DEFINE a == chunk(c)
             b == fill_write_slices(c)
             e == Contents(c)
  <2>2. /\ \E r \in Seq(Cell) : e = a \o r
        /\ \E r \in Seq(Cell) : e = b \o r
        /\ a \in Seq(Cell) /\ b \in Seq(Cell)
    BY <1>2, OfferedPrefix
  <2>3. v = a \/ v = b
    BY <2>1
  <2> HIDE DEF a, b, e, v
  <2>4. v \in Seq(Cell) /\ \E r \in Seq(Cell) : e = v \o r
    BY <2>2, <2>3
  <2> QED
    BY <2>4 DEF e
<1> HIDE DEF v
<1>4. PICK r \in Seq(Cell) : q = v \o r
  BY <1>2, <1>3
<1>5. n \in 0 .. Len(Contents(c)) /\ SubSeq(v, 1, n) = SubSeq(q, 1, n)
  <2>1. /\ q \in Seq(Cell) /\ Len(q) = Len(v) + Len(r) /\ Len(v) \in Nat /\ Len(r) \in Nat
        /\ \A i \in 1 .. Len(v) : q[i] = v[i]
    BY <1>3, <1>4
  <2>2. n \in Nat /\ n <= Len(v) /\ n <= Len(q)
    BY <2>1
  <2> DEFINE a == SubSeq(v, 1, n)
             b == SubSeq(q, 1, n)
  <2>3. a \in Seq(Cell) /\ Len(a) = n /\ \A i \in 1 .. n : a[i] = v[i]
    BY <1>3, <2>1, <2>2
  <2> HIDE DEF q
  <2>4. b \in Seq(Cell) /\ Len(b) = n /\ \A i \in 1 .. n : b[i] = q[i]
    BY <2>1, <2>2
  <2>5. \A i \in 1 .. n : i \in 1 .. Len(v)
    BY <2>1, <2>2
  <2> HIDE DEF a, b
  <2>6. a = b
    <3>1. Len(a) = Len(b) /\ \A i \in 1 .. Len(a) : a[i] = b[i]
      BY <2>1, <2>3, <2>4, <2>5
    <3> QED
      BY <2>3, <2>4, <3>1, SeqEqual
  <2>7. n \in 0 .. Len(Contents(c))
    BY <1>2, <2>2 DEF q
  <2> QED
    BY <2>6, <2>7 DEF a, b
<1>6. s'.write_buf = consume(c, n) /\ s'.pending_pong = s.pending_pong
  BY <1>1 DEF Record, SFields
<1>7. seen'.ordered = (seen.ordered /\ SubSeq(v, 1, n) = SubSeq(q, 1, n))
      /\ seen'.queue = SubSeq(q, n + 1, Len(q)) /\ seen'.sends = seen.sends
  BY <1>1 DEF Record, SeenFields
<1>8. consume(c, n) \in Corks(Cell) /\ Contents(consume(c, n)) = SubSeq(Contents(c), n + 1, Len(Contents(c)))
  BY <1>2, <1>5, ContentsConsume
<1> QED
  BY <1>2, <1>5, <1>6, <1>7, <1>8 DEF OutInv, OutputOrder

\* start_send.
LEMMA OutSends ==
    ASSUME OutInv, Record(s, SFields), Record(seen, SeenFields), NEW item, start_send(item),
           item \in {"small", "large", "close"}
    PROVE  OutInv'
<1> DEFINE k == seen.sends + 1
           cells == Cells(item, k)
           st == IF item = "close" THEN [begin_closing(s) EXCEPT !.state = "CloseSent"] ELSE s
           b == s.write_buf
<1>0. OutInv /\ b \in Corks(Cell) /\ k \in Nat /\ seen.sends \in Nat /\ s.pending_pong \in Nat
  BY DEF OutInv
<1>1. CASE s.state # "Open"
  <2>1. s' = s /\ seen' = [seen EXCEPT !.admitted = FALSE]
    BY <1>1 DEF start_send
  <2>2. SameOutput
    BY <2>1 DEF SameOutput, Record, SeenFields
  <2> QED
    BY <2>2, OutSame
<1>2. CASE s.state = "Open"
  <2>1. /\ s' = [st EXCEPT !.write_buf =
                          IF item = "large" /\ ~setup.compressed
                          THEN push_segment(write(@, <<cells[1]>>), <<cells[2]>>)
                          ELSE write(@, cells)]
        /\ \E o : seen' = [seen EXCEPT !.admitted = FALSE, !.sends = @ + 1,
                                       !.queue = @ \o cells, !.overtook = o]
    BY <1>2 DEF start_send
  <2>2. /\ Record(st, SFields) /\ st.write_buf = b /\ st.pending_pong \in Nat
    BY <1>0 DEF begin_closing, Record, SFields
  <2>3. /\ cells \in Seq(Cell)
        /\ item = "large" => /\ cells[1] \in Cell /\ cells[2] \in Cell /\ cells = <<cells[1]>> \o <<cells[2]>>
    <3> DEFINE f == [kind |-> "close", id |-> 0]
               g == [kind |-> "data", id |-> k]
               h == [kind |-> "head", id |-> k]
               T == Cell
    <3>1. f \in T /\ g \in T /\ h \in T
      BY <1>0 DEF Cell
    <3>2. cells = IF item = "close" THEN <<f>> ELSE IF item = "small" THEN <<g>> ELSE <<h, g>>
      BY DEF Cells
    <3> HIDE DEF f, g, h, T, cells
    <3>3. cells \in Seq(T)
      BY <3>1, <3>2
    <3>4. item = "large" => /\ cells[1] = h /\ cells[2] = g /\ cells = <<h>> \o <<g>>
      BY <3>1, <3>2
    <3> QED
      BY <3>1, <3>3, <3>4 DEF T
  <2> HIDE DEF cells, st, k
  <2>4. /\ s'.write_buf = IF item = "large" /\ ~setup.compressed
                          THEN push_segment(write(b, <<cells[1]>>), <<cells[2]>>)
                          ELSE write(b, cells)
        /\ s'.pending_pong = st.pending_pong
    BY <2>1, <2>2 DEF Record, SFields
  <2>5. seen'.queue = seen.queue \o cells /\ seen'.ordered = seen.ordered /\ seen'.sends = k
    BY <2>1 DEF Record, SeenFields, k
  <2>6. CASE item = "large" /\ ~setup.compressed
    <3> DEFINE x == <<cells[1]>>
               y == <<cells[2]>>
               a == write(b, x)
               e == push_segment(a, y)
    <3>1. x \in Seq(Cell) /\ y \in Seq(Cell) /\ y # <<>>
      BY <2>3, <2>6
    <3> HIDE DEF x, y
    <3>2. a \in Corks(Cell) /\ Contents(a) = Contents(b) \o x
      BY <1>0, <3>1, ContentsWrite
    <3> HIDE DEF a
    <3>3. e \in Corks(Cell) /\ Contents(e) = Contents(a) \o y
      BY <3>1, <3>2, ContentsPush
    <3>4. (Contents(b) \o x) \o y = Contents(b) \o (x \o y) /\ x \o y = cells
      <4>1. Contents(b) \in Seq(Cell)
        BY <1>0, ContentsType
      <4>2. x \o y = cells
        BY <2>3, <2>6 DEF x, y
      <4> DEFINE z == Contents(b)
                 T == Cell
      <4>3. \A p1, p2, p3 \in Seq(T) : (p1 \o p2) \o p3 = p1 \o (p2 \o p3)
        BY Associative
      <4>4. z \in Seq(T) /\ x \in Seq(T) /\ y \in Seq(T)
        BY <3>1, <4>1
      <4> HIDE DEF z, T
      <4>5. (z \o x) \o y = z \o (x \o y)
        BY <4>3, <4>4
      <4> QED
        BY <4>2, <4>5 DEF z
    <3>5. s'.write_buf = e
      BY <2>4, <2>6 DEF e, a, x, y
    <3> HIDE DEF e
    <3> QED
      BY <1>0, <2>2, <2>4, <2>5, <3>2, <3>3, <3>4, <3>5 DEF OutInv, OutputOrder, b
  <2>7. CASE ~(item = "large" /\ ~setup.compressed)
    BY <1>0, <2>2, <2>3, <2>4, <2>5, <2>7, OutWrites DEF b
  <2> QED
    BY <2>6, <2>7
<1> QED
  BY <1>1, <1>2

\* The steps that encode and write nothing.
LEMMA QuietStream ==
    ASSUME Record(s, SFields), Steps, ~Outputs
    PROVE  s'.write_buf = s.write_buf /\ s'.pending_pong \in {s.pending_pong, 0}
<1>1. CASE drain_flush
  BY <1>1 DEF drain_flush, PingFlushed, Record, SFields
<1>2. CASE drain_fails
  BY <1>2 DEF drain_fails, close_terminal, Record, SFields
<1>3. CASE poll_transport_shutdown \/ compressed_transport_shutdown
  BY <1>3 DEF poll_transport_shutdown, compressed_transport_shutdown, Record, SFields
<1>4. CASE s' = finish_read_close(s)
  BY <1>4, FinishFields
<1>5. CASE s' = Kept(s)
  BY <1>5, KeptFields
<1>6. CASE next_flushed
  <2>1. CASE s' = [s EXCEPT !.flush_on_read = FALSE, !.control = NoFrame]
    BY <2>1 DEF Record, SFields
  <2>2. CASE s' = [s EXCEPT !.control = NoFrame]
    BY <2>2 DEF Record, SFields
  <2> QED
    BY <1>4, <1>5, <1>6, <2>1, <2>2 DEF next_flushed, FinishRead
<1>7. CASE next_message
  BY <1>7 DEF next_message, Taking1, Inbound, Record, SFields
<1>8. CASE next_read
  <2> DEFINE st == IF p.late THEN [s EXCEPT !.post_expiry = TRUE] ELSE s
  <2>1. Record(st, SFields) /\ st.write_buf = s.write_buf /\ st.pending_pong = s.pending_pong
    BY DEF Record, SFields
  <2>2. \/ \E x : s' = [st EXCEPT !.read_buf = x]
        \/ s' = close_terminal(st)
        \/ s' = st
    BY <1>8 DEF next_read
  <2> HIDE DEF st
  <2> QED
    BY <2>1, <2>2 DEF close_terminal, Record, SFields
<1>9. CASE process_read_buf
  BY <1>9, ZenonT(60) DEF process_read_buf, ReadError, Record, SFields
<1>10. CASE compressed_process_read_buf
  <2> DEFINE st == ProcessAll(s)
             h == HasClose(st.batch)
  <2>1. s' = [st EXCEPT !.batch_has_close = h] /\ st = ProcessAll(s)
    BY <1>10 DEF compressed_process_read_buf
  <2> HIDE DEF st, h
  <2>2. Record(st, SFields) /\ st.write_buf = s.write_buf /\ st.pending_pong = s.pending_pong
    BY <2>1, ProcessFields
  <2> QED
    BY <2>1, <2>2 DEF Record, SFields
<1>11. CASE poll_ready
  BY <1>11 DEF poll_ready, Record, SFields
<1>12. CASE poll_close_ended
  BY <1>4, <1>12 DEF poll_close_ended, begin_closing, Record, SFields
<1>13. CASE close_shutdown
  BY <1>13 DEF close_shutdown, Record, SFields
<1>14. CASE close_fails
  <2> DEFINE st == IF p.pc = "end" /\ net.broken /\ ~setup.compressed
                   THEN [s EXCEPT !.shutdown = "Failed"] ELSE s
  <2>1. s' = finish_read_close(st)
    BY <1>14 DEF close_fails
  <2>2. Record(st, SFields) /\ st.write_buf = s.write_buf
    BY DEF Record, SFields
  <2> HIDE DEF st
  <2> QED
    BY <2>1, <2>2, FinishFields
<1>15. CASE UNCHANGED s
  BY <1>15
<1> QED
  BY <1>1, <1>2, <1>3, <1>4, <1>5, <1>6, <1>7, <1>8, <1>9, <1>10, <1>11, <1>12, <1>13, <1>14, <1>15
  DEF Steps, Outputs, reactor_takes_stream, reactor_wakes, poll, handover, poll_registers, drain_blocked,
      next_top, next_shut, next_buffered, next_io, next_late_shut, next_fed, next_nodata, FinishRead,
      sink_done, poll_flush, poll_close_flushed, poll_close_shut, close_cancelled, peer_sends,
      becomes_writable, breaks, time_passes, timer_fires

\* Nor do they count as encoding.
LEMMA QuietHistory ==
    ASSUME Record(seen, SeenFields), Steps, ~Outputs
    PROVE  seen'.queue = seen.queue /\ seen'.ordered = seen.ordered /\ seen'.sends = seen.sends
<1>1. \/ seen' = seen
      \/ \E x : seen' = [seen EXCEPT !.delivered = x]
      \/ \E x : seen' = [seen EXCEPT !.ended = x]
      \/ \E x : seen' = [seen EXCEPT !.admitted = x]
  BY DEF Steps, Outputs, reactor_takes_stream, reactor_wakes, poll, handover, poll_registers, drain_blocked,
      drain_flush, drain_fails, poll_transport_shutdown, compressed_transport_shutdown, Ended, Delivered,
      next_top, next_flushed, next_shut, next_message, next_buffered, next_io, next_late_shut, next_fed,
      next_read, next_nodata, FinishRead, process_read_buf, compressed_process_read_buf, poll_ready,
      sink_done, poll_flush, poll_close_ended, poll_close_flushed, poll_close_shut, close_shutdown,
      close_fails, close_cancelled, peer_sends, becomes_writable, breaks, time_passes, timer_fires
<1> QED
  BY <1>1 DEF Record, SeenFields

\* The output through any step.
LEMMA OutStep ==
    ASSUME Base, Msg, ReadInv, OutInv, Steps
    PROVE  OutInv'
<1>0. /\ Record(s, SFields) /\ Record(seen, SeenFields) /\ s.pending_pong \in Nat /\ seen.sends \in Nat
      /\ setup \in SetupType
  BY UnifiedAssumption DEF Base, Shapes, OutInv
<1>1. CASE ~Outputs
  BY <1>0, <1>1, QuietStream, QuietHistory, OutSame DEF SameOutput
<1>2. CASE \E item \in setup.items : start_send(item)
  <2>1. PICK item \in setup.items : start_send(item)
    BY <1>2
  <2>2. item \in {"small", "large", "close"}
    BY <1>0 DEF SetupType
  <2> QED
    BY <1>0, <2>1, <2>2, OutSends
<1>3. CASE Write
  BY <1>0, <1>3, OutWritten
<1>4. CASE drain_pong
  <2> DEFINE frame == [kind |-> "pong", id |-> s.pending_pong]
             st == PingFlushed(s)
  <2>1. /\ s' = [Encode(st, frame) EXCEPT !.pending_pong = 0]
        /\ seen' = [seen EXCEPT !.queue = Append(@, frame), !.pong = frame.id, !.overtook = 0]
    BY <1>4 DEF drain_pong
  <2>2. frame \in Cell
    BY <1>0 DEF Cell
  <2>3. Record(st, SFields) /\ st.write_buf = s.write_buf
    BY <1>0 DEF PingFlushed, Record, SFields
  <2> HIDE DEF frame, st
  <2> DEFINE x == write(st.write_buf, <<frame>>)
  <2>4. s' = [[st EXCEPT !.write_buf = x] EXCEPT !.pending_pong = 0]
    BY <2>1 DEF Encode
  <2> HIDE DEF x
  <2>5. s'.write_buf = x /\ s'.pending_pong = 0
    BY <2>3, <2>4 DEF Record, SFields
  <2>6. seen'.queue = Append(seen.queue, frame) /\ seen'.ordered = seen.ordered /\ seen'.sends = seen.sends
    BY <1>0, <2>1 DEF Record, SeenFields
  <2> QED
    BY <2>2, <2>3, <2>5, <2>6, OutEncodes DEF x
<1>5. ASSUME NEW f \in Cell, Encoded(f), NEW st, Record(st, SFields), st.write_buf = s.write_buf,
             st.pending_pong \in Nat,
             \/ s' = Encode(st, f)
             \/ \E a, b, c, d : s' = [Encode(st, f) EXCEPT !.ping = a, !.pings = b, !.ping_flush = c,
                                                           !.flush_on_read = d]
             \/ \E a, b, c, d : s' = [begin_closing(Encode(st, f)) EXCEPT
                          !.state = a, !.terminal = b, !.flush_on_read = c, !.close_after_flush = d]
             \/ \E a : s' = [begin_closing(Encode(st, f)) EXCEPT !.state = a]
      PROVE  OutInv'
  <2> DEFINE x == write(st.write_buf, <<f>>)
             e == [st EXCEPT !.write_buf = x]
  <2>1. \/ s' = e
        \/ \E a, b, c, d : s' = [e EXCEPT !.ping = a, !.pings = b, !.ping_flush = c, !.flush_on_read = d]
        \/ \E a, b, c, d : s' = [begin_closing(e) EXCEPT
                          !.state = a, !.terminal = b, !.flush_on_read = c, !.close_after_flush = d]
        \/ \E a : s' = [begin_closing(e) EXCEPT !.state = a]
    BY <1>5 DEF Encode
  <2> HIDE DEF x
  <2>2. Record(e, SFields) /\ e.write_buf = x /\ e.pending_pong = st.pending_pong
    BY <1>5 DEF Record, SFields
  <2> HIDE DEF e
  <2>3. s'.write_buf = x /\ s'.pending_pong \in Nat
    <3>1. CASE s' = e
      BY <1>5, <2>2, <3>1
    <3>2. CASE \E a, b, c, d : s' = [e EXCEPT !.ping = a, !.pings = b, !.ping_flush = c, !.flush_on_read = d]
      BY <1>5, <2>2, <3>2 DEF Record, SFields
    <3>3. CASE \E a, b, c, d : s' = [begin_closing(e) EXCEPT
                          !.state = a, !.terminal = b, !.flush_on_read = c, !.close_after_flush = d]
      BY <2>2, <3>3 DEF begin_closing, Record, SFields
    <3>4. CASE \E a : s' = [begin_closing(e) EXCEPT !.state = a]
      BY <2>2, <3>4 DEF begin_closing, Record, SFields
    <3> QED
      BY <2>1, <3>1, <3>2, <3>3, <3>4
  <2>4. seen'.queue = Append(seen.queue, f) /\ seen'.ordered = seen.ordered /\ seen'.sends = seen.sends
    BY <1>0, <1>5 DEF Encoded, Record, SeenFields
  <2> QED
    BY <1>5, <2>3, <2>4, OutEncodes DEF x
<1>6. CASE next_errors
  <2>1. CASE setup.compressed
    <3>1. s' = [close_terminal(s) EXCEPT !.parse_error = FALSE, !.write_buf = @]
          /\ seen' = [seen EXCEPT !.ended = "error", !.queue = @]
      BY <1>6, <2>1 DEF next_errors
    <3> QED
      BY <1>0, <3>1, OutSame DEF SameOutput, close_terminal, Record, SFields, SeenFields
  <2>2. CASE ~setup.compressed
    <3>1. s' = [close_terminal(s) EXCEPT !.parse_error = FALSE, !.write_buf = EmptyCork]
          /\ seen' = [seen EXCEPT !.ended = "error", !.queue = <<>>]
      BY <1>6, <2>2 DEF next_errors
    <3>2. s'.write_buf = EmptyCork /\ s'.pending_pong = 0
      BY <1>0, <3>1 DEF close_terminal, Record, SFields
    <3>3. seen'.queue = <<>> /\ seen'.ordered = seen.ordered /\ seen'.sends = seen.sends
      BY <1>0, <3>1 DEF Record, SeenFields
    <3> QED
      BY <3>2, <3>3, ContentsEmpty DEF OutInv, OutputOrder
  <2> QED
    BY <2>1, <2>2
<1>7. CASE next_deadlines
  <2> DEFINE f == [kind |-> IF Deadline = "ping" THEN "autoping" ELSE "close", id |-> 0]
  <2>1. f \in Cell
    BY DEF Cell
  <2>2. Encoded(f) /\ \/ \E a, b, c, d : s' = [Encode(s, f) EXCEPT !.ping = a, !.pings = b, !.ping_flush = c,
                                                                   !.flush_on_read = d]
                      \/ \E a, b, c, d : s' = [begin_closing(Encode(s, f)) EXCEPT
                          !.state = a, !.terminal = b, !.flush_on_read = c, !.close_after_flush = d]
    BY <1>7 DEF next_deadlines
  <2> HIDE DEF f
  <2> QED
    BY <1>0, <1>5, <2>1, <2>2
<1>8. CASE next_ping
  <2> DEFINE x == InHand[1]
             t == Taking1(s)
             st == IF setup.compressed THEN Taking1(s) ELSE process_buffered_after_ping(Taking1(s))
  <2>1. /\ \/ s' = st /\ Delivered(x)
           \/ s' = [st EXCEPT !.pending_pong = x.id, !.control = x, !.flush_on_read = TRUE] /\ seen' = seen
        /\ Delivering /\ InHand # <<>>
    BY <1>8 DEF next_ping
  <2>2. InPollNext
    BY <1>8, ReaderReady DEF NextSteppings
  <2>3. x.id \in Nat
    BY <2>1, <2>2, TakeOne
  <2>4. Record(t, SFields) /\ t.write_buf = s.write_buf /\ t.pending_pong = s.pending_pong
    BY <1>0 DEF Taking1, Record, SFields
  <2>5. st = t \/ st = ProcessAll(t)
    BY DEF process_buffered_after_ping
  <2> HIDE DEF x, t, st
  <2>6. Record(st, SFields) /\ st.write_buf = s.write_buf /\ st.pending_pong = s.pending_pong
    BY <2>4, <2>5, ProcessFields
  <2>7. s'.write_buf = s.write_buf /\ s'.pending_pong \in Nat
    BY <1>0, <2>1, <2>3, <2>6 DEF Record, SFields
  <2>8. seen'.queue = seen.queue /\ seen'.ordered = seen.ordered /\ seen'.sends = seen.sends
    BY <1>0, <2>1 DEF Delivered, Record, SeenFields
  <2> QED
    BY <2>7, <2>8 DEF OutInv, OutputOrder
<1>9. CASE next_close
  <2> DEFINE x == InHand[1]
             f == [kind |-> "close", id |-> x.id]
             st == [begin_closing(s) EXCEPT
                    !.pending = <<>>, !.batch = <<>>, !.read_buf = <<>>, !.parse_error = FALSE,
                    !.control = x, !.flush_on_read = TRUE, !.close_after_flush = TRUE]
  <2>1. /\ (s' = Encode(st, f) /\ Encoded(f)) \/ (s' = st /\ seen' = seen)
        /\ Delivering /\ InHand # <<>>
    BY <1>9 DEF next_close
  <2>2. InPollNext
    BY <1>9, ReaderReady DEF NextSteppings
  <2>3. x.id \in Nat
    BY <2>1, <2>2, TakeOne
  <2>4. f \in Cell
    BY <2>3 DEF Cell
  <2> HIDE DEF x, f
  <2>5. Record(st, SFields) /\ st.write_buf = s.write_buf /\ st.pending_pong = 0
        /\ st.pending_pong \in Nat
    BY <1>0 DEF begin_closing, Record, SFields
  <2> HIDE DEF st
  <2>6. CASE s' = Encode(st, f) /\ Encoded(f)
    BY <1>5, <2>4, <2>5, <2>6
  <2>7. CASE s' = st /\ seen' = seen
    BY <2>5, <2>7, OutSame DEF SameOutput
  <2> QED
    BY <2>1, <2>6, <2>7
<1>10. CASE poll_close \/ close
  <2> DEFINE f == [kind |-> "close", id |-> 0]
  <2>1. \/ Encoded(f) /\ s' = [begin_closing(Encode(s, f)) EXCEPT !.state = "CloseSent"]
        \/ s' = begin_closing(s) /\ seen' = seen
    BY <1>10 DEF poll_close, close
  <2>2. f \in Cell
    BY DEF Cell
  <2> HIDE DEF f
  <2>3. CASE s' = begin_closing(s) /\ seen' = seen
    BY <1>0, <2>3, OutSame DEF SameOutput, begin_closing, Record, SFields
  <2> QED
    BY <1>0, <1>5, <2>1, <2>2, <2>3
<1>11. CASE close_write /\ ~Write
  <2>1. seen' = seen /\ \E x : s' = [s EXCEPT !.shutdown = x] \/ s' = s
    BY <1>11 DEF close_write
  <2> QED
    BY <1>0, <2>1, OutSame DEF SameOutput, Record, SFields
<1> QED
  BY <1>1, <1>2, <1>3, <1>4, <1>6, <1>7, <1>8, <1>9, <1>10, <1>11 DEF Outputs, drain_write

\* The situation of a run never changes.
LEMMA SetupSame ==
    ASSUME Steps
    PROVE  setup' = setup
  BY DEF Steps, reactor_takes_stream, reactor_wakes, poll, handover, poll_registers, drain_write,
     drain_pong, drain_flush, drain_blocked, drain_fails, poll_transport_shutdown,
     compressed_transport_shutdown, next_top, next_flushed, next_shut, next_errors, next_deadlines,
     next_message, next_ping, next_close, next_buffered, next_io, next_late_shut, next_fed, next_read,
     next_nodata, process_read_buf, compressed_process_read_buf, poll_ready, sink_done, start_send,
     poll_flush, poll_close_ended, poll_close, poll_close_flushed, poll_close_shut, close, close_write,
     close_shutdown, close_fails, close_cancelled, peer_sends, becomes_writable, breaks, time_passes,
     timer_fires

-----------------------------------------------------------------------------
(* Pongs *)

\* The steps that look at a message or answer it.
Answers == drain_pong \/ next_message \/ next_ping \/ next_close \/ compressed_process_read_buf

\* What the other steps leave alone as long as the connection is open.
PongFields ==
    /\ s'.pending_pong = s.pending_pong /\ s'.close_after_flush = s.close_after_flush
    /\ (s'.closing <=> s.closing) /\ s'.batch = s.batch /\ s'.batch_has_close = s.batch_has_close
ControlMoves ==
    \/ s'.control = s.control /\ seen'.delivered = seen.delivered
    \/ /\ s.control # NoFrame /\ s'.control = NoFrame
       /\ seen'.delivered = Append(seen.delivered, s.control.id)

\* Fields that no message is about.
LEMMA OpenFields ==
    ASSUME Record(s, SFields), ClosingInv, PongInv, Steps, ~Answers, s'.state = "Open"
    PROVE  PongFields /\ (s'.control = s.control \/ next_flushed)
<1> USE DEF PongFields
<1>1. CASE drain_write
  BY <1>1 DEF drain_write, Write, Record, SFields
<1>2. CASE drain_flush
  BY <1>2 DEF drain_flush, PingFlushed, Record, SFields
<1>3. CASE poll_transport_shutdown \/ compressed_transport_shutdown
  BY <1>3 DEF poll_transport_shutdown, compressed_transport_shutdown, Record, SFields
<1>4. CASE s' = finish_read_close(s)
  BY <1>4, FinishFields
<1>5. CASE s' = Kept(s)
  BY <1>5, KeptFields
<1>6. CASE next_flushed
  <2>1. CASE s' = [s EXCEPT !.flush_on_read = FALSE, !.control = NoFrame]
    BY <1>6, <2>1 DEF Record, SFields
  <2>2. CASE s' = [s EXCEPT !.control = NoFrame]
    BY <1>6, <2>2 DEF Record, SFields
  <2> QED
    BY <1>4, <1>5, <1>6, <2>1, <2>2 DEF next_flushed, FinishRead
<1>7. CASE next_deadlines
  <2>1. \/ \E a, b : s' = [[s EXCEPT !.write_buf = a] EXCEPT !.ping = "queued", !.pings = b,
                            !.ping_flush = TRUE, !.flush_on_read = TRUE]
        \/ \E a : s' = [begin_closing([s EXCEPT !.write_buf = a]) EXCEPT
                          !.state = "CloseSent", !.terminal = "timeout",
                          !.flush_on_read = TRUE, !.close_after_flush = TRUE]
    BY <1>7 DEF next_deadlines, Encode
  <2> QED
    BY <2>1, ZenonT(60) DEF begin_closing, Record, SFields
<1>8. CASE next_read
  <2> DEFINE st == IF p.late THEN [s EXCEPT !.post_expiry = TRUE] ELSE s
  <2>1. /\ Record(st, SFields) /\ st.pending_pong = s.pending_pong
        /\ st.close_after_flush = s.close_after_flush /\ st.closing = s.closing /\ st.batch = s.batch
        /\ st.batch_has_close = s.batch_has_close /\ st.control = s.control
    BY DEF Record, SFields
  <2>2. \/ \E x : s' = [st EXCEPT !.read_buf = x]
        \/ s' = close_terminal(st)
        \/ s' = st
    BY <1>8 DEF next_read
  <2> HIDE DEF st
  <2> QED
    BY <2>1, <2>2 DEF close_terminal, Record, SFields
<1>9. CASE process_read_buf
  BY <1>9, ZenonT(60) DEF process_read_buf, ReadError, Record, SFields
<1>10. CASE poll_ready
  BY <1>10 DEF poll_ready, Record, SFields
<1>11. CASE poll_close_ended
  <2>1. CASE s' = begin_closing(s)
    <3>1. /\ s'.state = s.state /\ s'.pending_pong = 0 /\ s'.close_after_flush = s.close_after_flush
          /\ s'.closing /\ s'.batch = s.batch /\ s'.batch_has_close = s.batch_has_close
          /\ s'.control = s.control
      BY <2>1 DEF begin_closing, Record, SFields
    <3>2. s.closing
      BY <1>11, <3>1 DEF poll_close_ended, ClosingInv, ClosingFields
    <3>3. s.pending_pong = 0
      BY <3>1, <3>2 DEF PongInv
    <3> QED
      BY <3>1, <3>2, <3>3
  <2> QED
    BY <1>4, <1>11, <2>1 DEF poll_close_ended
<1>12. CASE poll_close
  <2>1. CASE s.state = "Open"
    <3>1. \E a : s' = [begin_closing([s EXCEPT !.write_buf = a]) EXCEPT !.state = "CloseSent"]
      BY <1>12, <2>1 DEF poll_close, Encode
    <3> QED
      BY <3>1 DEF begin_closing, Record, SFields
  <2>2. CASE s.state # "Open"
    BY <1>12, <2>2 DEF poll_close, begin_closing, Record, SFields
  <2> QED
    BY <2>1, <2>2
<1>13. CASE close
  <2>1. \E a : s' = [begin_closing([s EXCEPT !.write_buf = a]) EXCEPT !.state = "CloseSent"]
    BY <1>13 DEF close, Encode
  <2> QED
    BY <2>1 DEF begin_closing, Record, SFields
<1>14. CASE close_write
  <2>1. s' = s \/ \E x, y : s' = [s EXCEPT !.shutdown = x] \/ s' = [s EXCEPT !.write_buf = y]
    BY <1>14 DEF close_write, Write
  <2> QED
    BY <2>1 DEF Record, SFields
<1>15. CASE close_shutdown
  BY <1>15 DEF close_shutdown, Record, SFields
<1>16. CASE close_fails
  <2> DEFINE st == IF p.pc = "end" /\ net.broken /\ ~setup.compressed
                   THEN [s EXCEPT !.shutdown = "Failed"] ELSE s
  <2>1. s' = finish_read_close(st)
    BY <1>16 DEF close_fails
  <2>2. Record(st, SFields)
    BY DEF Record, SFields
  <2> HIDE DEF st
  <2> QED
    BY <2>1, <2>2, FinishFields
<1>17. CASE \E item \in setup.items : start_send(item)
  <2>1. PICK item \in setup.items : start_send(item)
    BY <1>17
  <2>2. CASE s.state # "Open"
    BY <2>1, <2>2 DEF start_send
  <2>3. CASE s.state = "Open" /\ item # "close"
    <3>1. \E x : s' = [s EXCEPT !.write_buf = x]
      BY <2>1, <2>3 DEF start_send
    <3> QED
      BY <3>1 DEF Record, SFields
  <2>4. CASE s.state = "Open" /\ item = "close"
    <3>1. \E x : s' = [[begin_closing(s) EXCEPT !.state = "CloseSent"] EXCEPT !.write_buf = x]
      BY <2>1, <2>4 DEF start_send
    <3> QED
      BY <3>1 DEF begin_closing, Record, SFields
  <2> QED
    BY <2>2, <2>3, <2>4
<1>18. CASE drain_fails
  BY <1>18 DEF drain_fails, close_terminal, Record, SFields
<1>19. CASE next_errors
  <2>1. \E x : s' = [close_terminal(s) EXCEPT !.parse_error = FALSE, !.write_buf = x]
    BY <1>19 DEF next_errors
  <2> QED
    BY <2>1 DEF close_terminal, Record, SFields
<1>20. CASE UNCHANGED s
  BY <1>20
<1> QED
  BY <1>1, <1>2, <1>3, <1>4, <1>5, <1>6, <1>7, <1>8, <1>9, <1>10, <1>11, <1>12, <1>13, <1>14, <1>15,
     <1>16, <1>17, <1>18, <1>19, <1>20
  DEF Steps, Answers, reactor_takes_stream, reactor_wakes, poll, handover, poll_registers, drain_blocked,
      next_top, next_shut, next_buffered, next_io, next_late_shut, next_fed, next_nodata, FinishRead,
      sink_done, poll_flush, poll_close_flushed, poll_close_shut, close_cancelled, peer_sends,
      becomes_writable, breaks, time_passes, timer_fires

\* What the application was told about, and the last Pong.
LEMMA OpenHistory ==
    ASSUME Record(s, SFields), Record(seen, SeenFields), ClosingInv, PongInv, Steps, ~Answers,
           s'.state = "Open"
    PROVE  ControlMoves
<1>1. CASE next_flushed
  <2>1. CASE s' = finish_read_close(s)
    BY <2>1, FinishFields
  <2>2. CASE Delivered(s.control) /\ s.control # NoFrame /\ \E x : s' = [s EXCEPT !.flush_on_read = x, !.control = NoFrame]
    <3>1. s'.control = NoFrame
      BY <2>2 DEF Record, SFields
    <3>2. seen'.delivered = Append(seen.delivered, s.control.id)
      BY <2>2 DEF Delivered, Record, SeenFields
    <3> QED
      BY <2>2, <3>1, <3>2 DEF ControlMoves
  <2>3. CASE Delivered(s.control) /\ s.control # NoFrame /\ s' = [s EXCEPT !.control = NoFrame]
    <3>1. s'.control = NoFrame
      BY <2>3 DEF Record, SFields
    <3>2. seen'.delivered = Append(seen.delivered, s.control.id)
      BY <2>3 DEF Delivered, Record, SeenFields
    <3> QED
      BY <2>3, <3>1, <3>2 DEF ControlMoves
  <2>4. CASE seen' = seen /\ s' = Kept(s)
    BY <2>4, KeptFields DEF ControlMoves
  <2>5. CASE seen' = seen /\ s' = s
    BY <2>5 DEF ControlMoves
  <2>6. CASE seen' = seen /\ s.control = NoFrame /\ s' = [s EXCEPT !.flush_on_read = FALSE, !.control = NoFrame]
    BY <2>6 DEF ControlMoves, Record, SFields
  <2> QED
    BY <1>1, <2>1, <2>2, <2>3, <2>4, <2>5, <2>6 DEF next_flushed, FinishRead
<1>2. CASE ~next_flushed
  <2>1. s'.control = s.control
    BY <1>2, OpenFields
  <2>2. CASE s' = finish_read_close(s)
    BY <2>2, FinishFields
  <2>3. CASE drain_write \/ close_write
    <3>1. seen' = seen \/ \E x, y : seen' = [seen EXCEPT !.ordered = x, !.queue = y]
      <4>1. CASE Write
        <5>1. PICK n \in 1 .. Len(Offered) : seen' =
                [seen EXCEPT !.ordered = @ /\ SubSeq(Offered, 1, n) = SubSeq(seen.queue, 1, n),
                             !.queue = SubSeq(@, n + 1, Len(@))]
          BY <4>1 DEF Write
        <5> QED
          BY <5>1
      <4> QED
        BY <2>3, <4>1 DEF drain_write, close_write
    <3> QED
      BY <2>1, <3>1 DEF ControlMoves, Record, SeenFields
  <2>4. CASE \/ seen' = seen
             \/ \E f : Encoded(f)
             \/ \E x : seen' = [seen EXCEPT !.ended = x]
             \/ \E x, y : seen' = [seen EXCEPT !.ended = x, !.queue = y]
             \/ \E x : seen' = [seen EXCEPT !.admitted = x]
             \/ \E a, b, c, d : seen' = [seen EXCEPT !.admitted = a, !.sends = b, !.queue = c, !.overtook = d]
    <3>1. seen'.delivered = seen.delivered
      BY <2>4 DEF Encoded, Record, SeenFields
    <3> QED
      BY <2>1, <3>1 DEF ControlMoves
  <2>5. CASE next_errors
    <3>1. \E x, y : seen' = [seen EXCEPT !.ended = x, !.queue = y]
      BY <2>5 DEF next_errors
    <3> QED
      BY <2>4, <3>1
  <2>6. CASE next_deadlines \/ poll_close \/ close
    BY <2>4, <2>6 DEF next_deadlines, poll_close, close
  <2>7. CASE poll_ready \/ sink_done
    <3>1. seen' = seen \/ \E x : seen' = [seen EXCEPT !.admitted = x]
      BY <2>7 DEF poll_ready, sink_done
    <3> QED
      BY <2>4, <3>1
  <2>8. CASE \E item \in setup.items : start_send(item)
    <3>1. PICK item \in setup.items : start_send(item)
      BY <2>8
    <3>2. CASE s.state # "Open"
      BY <2>4, <3>1, <3>2 DEF start_send
    <3>3. CASE s.state = "Open"
      <4>1. seen' = [seen EXCEPT !.admitted = FALSE, !.sends = @ + 1,
                                 !.queue = @ \o Cells(item, seen.sends + 1),
                                 !.overtook = IF s.pending_pong = 0 THEN @ ELSE @ + 1]
        BY <3>1, <3>3 DEF start_send
      <4>2. \E a, b, c, d : seen' = [seen EXCEPT !.admitted = a, !.sends = b, !.queue = c, !.overtook = d]
        BY <4>1
      <4> QED
        BY <2>4, <4>2
    <3> QED
      BY <3>2, <3>3
  <2>9. CASE next_top \/ next_fed \/ next_read
    <3>1. \/ seen' = seen \/ s' = finish_read_close(s)
          \/ \E x : seen' = [seen EXCEPT !.ended = x]
      BY <2>9 DEF next_top, next_fed, next_read, FinishRead, Ended
    <3> QED
      BY <2>2, <2>4, <3>1
  <2> QED
    BY <1>2, <2>2, <2>3, <2>4, <2>5, <2>6, <2>7, <2>8, <2>9
    DEF Steps, Answers, reactor_takes_stream, reactor_wakes, poll, handover, poll_registers, drain_blocked,
      drain_flush, drain_fails, poll_transport_shutdown, compressed_transport_shutdown,
      next_shut, next_buffered, next_io, next_late_shut, next_nodata, FinishRead, process_read_buf,
      poll_flush, poll_close_ended, poll_close_flushed, poll_close_shut,
      close_shutdown, close_fails, close_cancelled, peer_sends, becomes_writable, breaks, time_passes, timer_fires
<1> QED
  BY <1>1, <1>2

\* Only drain encodes a Pong.
LEMMA PongHistory ==
    ASSUME Record(seen, SeenFields), Steps, ~drain_pong
    PROVE  seen'.pong = seen.pong
<1>1. CASE drain_write \/ close_write
  <2>1. CASE Write
    <3>1. PICK n \in 1 .. Len(Offered) : seen' =
            [seen EXCEPT !.ordered = @ /\ SubSeq(Offered, 1, n) = SubSeq(seen.queue, 1, n),
                         !.queue = SubSeq(@, n + 1, Len(@))]
      BY <2>1 DEF Write
    <3> QED
      BY <3>1 DEF Record, SeenFields
  <2> QED
    BY <1>1, <2>1 DEF drain_write, close_write
<1>2. CASE \/ seen' = seen
           \/ \E f : Encoded(f)
           \/ \E x : seen' = [seen EXCEPT !.delivered = x]
           \/ \E x : seen' = [seen EXCEPT !.ended = x]
           \/ \E x, y : seen' = [seen EXCEPT !.ended = x, !.queue = y]
           \/ \E x : seen' = [seen EXCEPT !.admitted = x]
           \/ \E a, b, c, d : seen' = [seen EXCEPT !.admitted = a, !.sends = b, !.queue = c, !.overtook = d]
  BY <1>2 DEF Encoded, Record, SeenFields
<1>3. CASE next_errors
  <2>1. \E x, y : seen' = [seen EXCEPT !.ended = x, !.queue = y]
    BY <1>3 DEF next_errors
  <2> QED
    BY <1>2, <2>1
<1>4. CASE next_deadlines \/ next_close \/ poll_close \/ close
  <2>1. seen' = seen \/ \E f : Encoded(f)
    BY <1>4 DEF next_deadlines, next_close, poll_close, close
  <2> QED
    BY <1>2, <2>1
<1>5. CASE poll_ready \/ sink_done
  <2>1. seen' = seen \/ \E x : seen' = [seen EXCEPT !.admitted = x]
    BY <1>5 DEF poll_ready, sink_done
  <2> QED
    BY <1>2, <2>1
<1>6. CASE \E item \in setup.items : start_send(item)
  <2>1. PICK item \in setup.items : start_send(item)
    BY <1>6
  <2>2. CASE s.state # "Open"
    BY <1>2, <2>1, <2>2 DEF start_send
  <2>3. CASE s.state = "Open"
    <3>1. seen' = [seen EXCEPT !.admitted = FALSE, !.sends = @ + 1,
                               !.queue = @ \o Cells(item, seen.sends + 1),
                               !.overtook = IF s.pending_pong = 0 THEN @ ELSE @ + 1]
      BY <2>1, <2>3 DEF start_send
    <3> QED
      BY <3>1 DEF Record, SeenFields
  <2> QED
    BY <2>2, <2>3
<1>7. CASE \/ next_top \/ next_fed \/ next_read \/ next_message \/ next_ping \/ next_flushed \/ next_shut \/ next_io
           \/ next_late_shut \/ next_nodata
  <2>1. \/ seen' = seen
        \/ \E x : seen' = [seen EXCEPT !.delivered = x]
        \/ \E x : seen' = [seen EXCEPT !.ended = x]
    BY <1>7 DEF next_top, next_fed, next_read, next_message, next_ping, next_flushed, next_shut, next_io,
         next_late_shut, next_nodata, FinishRead, Ended, Delivered
  <2> QED
    BY <1>2, <2>1
<1> QED
  BY <1>1, <1>2, <1>3, <1>4, <1>5, <1>6, <1>7
  DEF Steps, reactor_takes_stream, reactor_wakes, poll, handover, poll_registers, drain_blocked,
      drain_flush, drain_fails, poll_transport_shutdown, compressed_transport_shutdown,
      next_buffered, process_read_buf, compressed_process_read_buf,
      poll_flush, poll_close_ended, poll_close_flushed, poll_close_shut,
      close_shutdown, close_fails, close_cancelled, peer_sends, becomes_writable, breaks, time_passes, timer_fires

\* What the application was told about is told for good.
LEMMA ToldSame ==
    ASSUME seen.delivered \in Seq(Nat), ControlMoves
    PROVE  Told' = Told
<1> DEFINE d == seen.delivered
           c == s.control
<1>1. CASE s'.control = s.control /\ seen'.delivered = seen.delivered
  BY <1>1 DEF Told
<1>2. CASE c # NoFrame /\ s'.control = NoFrame /\ seen'.delivered = Append(d, c.id)
  <2> DEFINE e == Append(d, c.id)
  <2>1. Len(d) \in Nat /\ Len(e) = Len(d) + 1 /\ e[Len(d) + 1] = c.id /\ \A j \in 1 .. Len(d) : e[j] = d[j]
    OBVIOUS
  <2> HIDE DEF e
  <2>2. {e[j] : j \in 1 .. Len(e)} = {d[j] : j \in 1 .. Len(d)} \cup {c.id}
    <3> DEFINE n == Len(d)
               x == c.id
    <3>1. n \in Nat /\ Len(e) = n + 1 /\ e[n + 1] = x /\ \A j \in 1 .. n : e[j] = d[j]
      BY <2>1
    <3>2. 1 .. n + 1 = (1 .. n) \cup {n + 1} /\ n + 1 \in 1 .. n + 1
      BY <3>1
    <3> HIDE DEF n, x, d, c
    <3>3. {e[j] : j \in 1 .. n + 1} = {d[j] : j \in 1 .. n} \cup {x}
      BY <3>1, <3>2, ZenonT(60)
    <3> QED
      BY <3>1, <3>3 DEF n, x
  <2> QED
    BY <1>2, <2>2 DEF Told, e
<1> QED
  BY <1>1, <1>2 DEF ControlMoves

\* A step that neither takes a message nor answers one.
LEMMA PongKept ==
    ASSUME Record(s, SFields), Record(seen, SeenFields), seen.delivered \in Seq(Nat), ClosingInv, PongInv,
           Steps, ~Answers, net'.script = net.script
    PROVE  PongInv'
<1>0. setup' = setup /\ seen'.pong = seen.pong
  BY SetupSame, PongHistory DEF Answers
<1>1. CASE s'.state # "Open"
  BY <1>0, <1>1 DEF PongInv, OpenNow
<1>2. CASE s'.state = "Open"
  <2>1. s.state = "Open"
    BY <1>2, ClosingStays
  <2>2. PongFields /\ ControlMoves
    BY <1>2, OpenFields, OpenHistory
  <2>3. Told' = Told
    BY <2>2, ToldSame
  <2>4. Pings' = Pings /\ HasClose(s'.batch) = HasClose(s.batch)
    BY <2>2 DEF Pings, PongFields
  <2> QED
    BY <1>0, <1>2, <2>1, <2>2, <2>3, <2>4 DEF PongInv, OpenNow, PongFields
<1> QED
  BY <1>1, <1>2

\* The message taken is behind all that were delivered.
LEMMA LastMessage ==
    ASSUME NetInv, NEW x \in Message, NEW st, Held(st, x)
    PROVE  /\ x.id \in Nat /\ x.id > 0 /\ seen.delivered \in Seq(Nat)
           /\ \A j \in 1 .. Len(seen.delivered) : seen.delivered[j] < x.id
           /\ x.id \in Pings <=> x.kind = "ping"
<1>1. x.id \in Nat /\ x.id \in 1 .. Len(net.script) /\ net.script[x.id] = x /\ Script(net.script)
  BY RunScript DEF Message
<1>2. x.id \in Pings <=> x.kind = "ping"
  <2>1. DOMAIN net.script = 1 .. Len(net.script)
    BY DEF NetInv
  <2> QED
    BY <1>1, <2>1 DEF Pings
<1> DEFINE d == seen.delivered
           h == <<x.id>>
<1>3. Flow(net.script, Whole, net.read, FALSE, d, h, st.batch, st.read_buf, FALSE, ~st.parse_error)
  BY DEF Held
<1>4. Flow(net.script, Whole, net.read, FALSE, d, h, <<>>, <<>>, FALSE, FALSE)
  BY <1>1, <1>3, FlowEnds
<1>5. d \in Seq(Nat) /\ Rising(Line(d, h, <<>>))
  BY <1>4 DEF Flow, FlowTypes, InOrder
<1>6. Line(d, h, <<>>) = Append(d, x.id)
  <2>1. IdsOf(<<>>) = <<>>
    BY DEF IdsOf
  <2>2. (d \o h) \o <<>> = Append(d, x.id)
    BY <1>1, <1>5
  <2> QED
    BY <2>1, <2>2 DEF Line
<1>7. \A j \in 1 .. Len(d) : d[j] < x.id
  <2> DEFINE e == Append(d, x.id)
  <2>1. Len(d) \in Nat /\ Len(e) = Len(d) + 1 /\ e[Len(d) + 1] = x.id /\ \A j \in 1 .. Len(d) : e[j] = d[j]
    BY <1>5
  <2>2. Rising(e)
    BY <1>5, <1>6
  <2> HIDE DEF e
  <2> QED
    BY <2>1, <2>2 DEF Rising
<1> QED
  BY <1>1, <1>2, <1>5, <1>7

\* The fields that taking a message leaves alone, and the batch it may shorten.
LEMMA TakenFields ==
    ASSUME Msg, ReadInv, InPollNext, Delivering, InHand # <<>>, NEW st, st = Taking1(s)
    PROVE  /\ st.state = s.state /\ st.closing = s.closing /\ st.close_after_flush = s.close_after_flush
           /\ st.pending_pong = s.pending_pong /\ st.batch_has_close = s.batch_has_close
           /\ st.batch # <<>> => s.batch # <<>>
           /\ InHand[1].kind # "close" /\ HasClose(s.batch) => HasClose(st.batch)
           /\ BatchOnly /\ setup.compressed => s.batch # <<>>
<1>1. /\ Record(s, SFields) /\ InParser = p.parsed /\ s.batch \in Seq(Message)
      /\ p.parsed = NoFrame /\ s.pending = <<>> => InHand = s.batch
  BY HandParts DEF InPollNext
<1>2. /\ st.state = s.state /\ st.closing = s.closing /\ st.close_after_flush = s.close_after_flush
      /\ st.pending_pong = s.pending_pong /\ st.batch_has_close = s.batch_has_close
      /\ \/ st.batch = s.batch
         \/ InHand = s.batch /\ st.batch = Tail(s.batch)
  BY <1>1 DEF Taking1, Record, SFields
<1>3. BatchOnly /\ setup.compressed => s.batch # <<>>
  BY <1>1 DEF BatchOnly
<1>4. CASE st.batch = s.batch
  BY <1>2, <1>3, <1>4
<1>5. CASE InHand = s.batch /\ st.batch = Tail(s.batch)
  <2> DEFINE b == s.batch
             c == Tail(b)
             M == Message
  <2> HIDE DEF M
  <2>1. b \in Seq(M) /\ b # <<>>
    BY <1>1, <1>5 DEF M
  <2> HIDE DEF b
  <2>2. /\ Len(b) \in Nat /\ Len(c) = Len(b) - 1 /\ DOMAIN b = 1 .. Len(b) /\ DOMAIN c = 1 .. Len(c)
        /\ \A i \in 1 .. Len(c) : c[i] = b[i + 1]
    BY <2>1
  <2> HIDE DEF c
  <2>3. ASSUME b[1].kind # "close", NEW i \in DOMAIN b, b[i].kind = "close"
        PROVE  i - 1 \in DOMAIN c /\ c[i - 1].kind = "close"
    <3>1. i # 1 /\ i \in 1 .. Len(b)
      BY <2>2, <2>3
    <3>2. i - 1 \in 1 .. Len(c)
      BY <2>2, <3>1
    <3>3. c[i - 1] = b[(i - 1) + 1] /\ (i - 1) + 1 = i
      BY <2>2, <3>1, <3>2
    <3> QED
      BY <2>2, <2>3, <3>2, <3>3
  <2>4. b[1].kind # "close" /\ HasClose(b) => HasClose(c)
    BY <2>3 DEF HasClose
  <2> QED
    BY <1>2, <1>3, <1>5, <2>1, <2>4 DEF b, c
<1> QED
  BY <1>2, <1>4, <1>5

\* A message was given to the application, or is about to be.
LEMMA ToldMore ==
    ASSUME seen.delivered \in Seq(Nat), NEW id, s.control = NoFrame,
           \/ s'.control = NoFrame /\ seen'.delivered = Append(seen.delivered, id)
           \/ s'.control # NoFrame /\ s'.control.id = id /\ seen'.delivered = seen.delivered
    PROVE  Told' = Told \cup {id}
<1>1. CASE s'.control = NoFrame /\ seen'.delivered = Append(seen.delivered, id)
  <2> DEFINE d == seen.delivered
             e == Append(d, id)
             n == Len(d)
  <2>1. n \in Nat /\ Len(e) = n + 1 /\ e[n + 1] = id /\ \A j \in 1 .. n : e[j] = d[j]
    OBVIOUS
  <2>2. 1 .. n + 1 = (1 .. n) \cup {n + 1} /\ n + 1 \in 1 .. n + 1
    BY <2>1
  <2> HIDE DEF d, e, n
  <2>3. {e[j] : j \in 1 .. n + 1} = {d[j] : j \in 1 .. n} \cup {id}
    BY <2>1, <2>2, ZenonT(60)
  <2> QED
    BY <1>1, <2>1, <2>3 DEF Told, d, e, n
<1>2. CASE s'.control # NoFrame /\ s'.control.id = id /\ seen'.delivered = seen.delivered
  BY <1>2 DEF Told
<1> QED
  BY <1>1, <1>2

\* A message other than a Ping.
LEMMA MessagePong ==
    ASSUME Base, Msg, ReadInv, BatchOnly, PongInv, next_message
    PROVE  PongInv'
<1>0. InPollNext /\ NetInv /\ Steps
  BY ReaderReady, StepsSplit DEF NextSteppings, Msg
<1> DEFINE x == InHand[1]
           pong == x.kind = "pong"
           st == Taking1(s)
<1>1. /\ Delivering /\ InHand # <<>> /\ s' = Inbound(st, pong) /\ x.kind \in {"data", "pong"}
      /\ seen' = [seen EXCEPT !.delivered = Append(@, x.id)] /\ setup' = setup /\ net' = net
  BY DEF next_message, Delivered
<1>2. x \in Message /\ Held(st, x) /\ p.pc = "errors"
  BY <1>0, <1>1, TakeOne
<1>3. /\ st.state = s.state /\ st.closing = s.closing /\ st.close_after_flush = s.close_after_flush
      /\ st.pending_pong = s.pending_pong /\ st.batch_has_close = s.batch_has_close
      /\ (st.batch # <<>> => s.batch # <<>>) /\ (HasClose(s.batch) => HasClose(st.batch))
  BY <1>0, <1>1, TakenFields
<1>4. s.control = NoFrame /\ ~s.close_after_flush
  BY <1>0, <1>1, <1>2, AtErrors
<1> HIDE DEF x, pong, st
<1>5. /\ s'.control = NoFrame /\ s'.batch = st.batch /\ s'.state = s.state /\ s'.closing = s.closing
      /\ s'.close_after_flush = s.close_after_flush /\ s'.pending_pong = s.pending_pong
      /\ s'.batch_has_close = s.batch_has_close
  BY <1>1, <1>2, <1>3 DEF Inbound, Held, Record, SFields
<1>6. seen'.delivered = Append(seen.delivered, x.id) /\ seen'.pong = seen.pong
  BY <1>0, <1>1 DEF InPollNext, Record, SeenFields
<1>7. seen.delivered \in Seq(Nat) /\ x.id \notin Pings
  BY <1>0, <1>1, <1>2, LastMessage
<1>8. Told' = Told \cup {x.id} /\ Pings' = Pings
  BY <1>1, <1>4, <1>5, <1>6, <1>7, ToldMore DEF Pings
<1>9. Pings' \cap Told' = Pings \cap Told
  BY <1>7, <1>8
<1> QED
  BY <1>1, <1>3, <1>5, <1>6, <1>8, <1>9 DEF PongInv, OpenNow

\* A Ping is answered unless a Close that was read follows it.
LEMMA PingPong ==
    ASSUME Base, Msg, ReadInv, BatchOnly, PongInv, next_ping
    PROVE  PongInv'
<1>0. InPollNext /\ NetInv /\ Steps
  BY ReaderReady, StepsSplit DEF NextSteppings, Msg
<1> DEFINE x == InHand[1]
           t == Taking1(s)
           st == IF setup.compressed THEN Taking1(s) ELSE process_buffered_after_ping(Taking1(s))
           closes == IF setup.compressed THEN s.batch_has_close ELSE HasClose(st.batch)
<1>1. /\ Delivering /\ InHand # <<>> /\ x.kind = "ping" /\ setup' = setup /\ net' = net
      /\ \/ /\ s' = st /\ seen' = [seen EXCEPT !.delivered = Append(@, x.id)]
            /\ s.shutdown = "Complete" \/ Expired \/ closes
         \/ /\ s' = [st EXCEPT !.pending_pong = x.id, !.control = x, !.flush_on_read = TRUE]
            /\ seen' = seen /\ ~closes
  BY DEF next_ping, Delivered
<1>2. x \in Message /\ Held(t, x) /\ p.pc = "errors"
  BY <1>0, <1>1, TakeOne
<1>3. /\ t.state = s.state /\ t.closing = s.closing /\ t.close_after_flush = s.close_after_flush
      /\ t.pending_pong = s.pending_pong /\ t.batch_has_close = s.batch_has_close
      /\ (HasClose(s.batch) => HasClose(t.batch)) /\ (setup.compressed => s.batch # <<>>)
  BY <1>0, <1>1, TakenFields
<1>4. s.control = NoFrame /\ ~s.close_after_flush /\ Record(seen, SeenFields)
  BY <1>0, <1>1, <1>2, AtErrors DEF InPollNext
<1>5. st = t \/ (~setup.compressed /\ st = ProcessAll(t) /\ t.unprocessed)
  BY DEF process_buffered_after_ping
<1>6. (setup.compressed => st = t /\ closes = s.batch_has_close) /\ (~setup.compressed => closes = HasClose(st.batch))
  OBVIOUS
<1> HIDE DEF x, t, st, closes
<1>7. /\ Held(st, x) /\ (st.state = "Open" => s.state = "Open") /\ st.closing = s.closing
      /\ st.close_after_flush = s.close_after_flush
      /\ st.pending_pong = s.pending_pong /\ st.batch_has_close = s.batch_has_close
  <2>1. CASE st = t
    BY <1>2, <1>3, <2>1
  <2>2. CASE st = ProcessAll(t) /\ t.unprocessed
    <3>1. Held(st, x) /\ Record(t, SFields)
      BY <1>0, <1>2, <2>2, ProcessHeld DEF Held
    <3>2. /\ st.closing = t.closing /\ st.pending_pong = t.pending_pong
          /\ st.close_after_flush = t.close_after_flush /\ st.batch_has_close = t.batch_has_close
          /\ BadAt(t.read_buf) = {} => st.state = t.state
          /\ BadAt(t.read_buf) # {} => st.state = IF t.state = "Open" THEN "ReadErrorPending" ELSE t.state
      BY <2>2, <3>1, ProcessFields
    <3> QED
      BY <1>3, <3>1, <3>2
  <2> QED
    BY <1>5, <2>1, <2>2
<1>8. /\ seen.delivered \in Seq(Nat) /\ x.id \in Nat /\ x.id > 0
      /\ \A j \in 1 .. Len(seen.delivered) : seen.delivered[j] < x.id
  BY <1>0, <1>2, LastMessage
<1>9. Pings' = Pings /\ Record(st, SFields) /\ st.control = NoFrame
  BY <1>1, <1>7 DEF Pings, Held
<1>10. s.state = "Open" => ~s.closing
  BY <1>4 DEF PongInv
<1>11. CASE /\ s' = st /\ seen' = [seen EXCEPT !.delivered = Append(@, x.id)]
            /\ s.shutdown = "Complete" \/ Expired \/ closes
  <2>1. seen'.delivered = Append(seen.delivered, x.id) /\ seen'.pong = seen.pong
    BY <1>4, <1>11 DEF Record, SeenFields
  <2>2. Told' = Told \cup {x.id}
    BY <1>4, <1>8, <1>9, <1>11, <2>1, ToldMore
  <2>3. s'.state = "Open" => HasClose(s'.batch)
    <3>1. SUFFICES ASSUME s.state = "Open" PROVE HasClose(st.batch)
      BY <1>7, <1>11
    <3>2. closes
      BY <1>10, <1>11, <3>1 DEF Expired, Base, ClosingInv, ClosingFields
    <3>3. CASE setup.compressed
      <4>1. HasClose(s.batch)
        BY <1>3, <1>6, <1>10, <3>1, <3>2, <3>3 DEF PongInv, OpenNow
      <4> QED
        BY <1>3, <1>6, <3>3, <4>1
    <3> QED
      BY <1>6, <3>2, <3>3
  <2> QED
    BY <1>1, <1>7, <1>9, <1>10, <1>11, <2>1, <2>2, <2>3 DEF PongInv, OpenNow
<1>12. CASE /\ s' = [st EXCEPT !.pending_pong = x.id, !.control = x, !.flush_on_read = TRUE]
            /\ seen' = seen /\ ~closes
  <2>1. /\ s'.pending_pong = x.id /\ s'.control = x /\ s'.state = st.state /\ s'.closing = s.closing
        /\ s'.close_after_flush = s.close_after_flush /\ s'.batch = st.batch
        /\ s'.batch_has_close = s.batch_has_close
    BY <1>7, <1>9, <1>12 DEF Record, SFields
  <2>2. x # NoFrame
    BY <1>2 DEF Message, Whole, NoFrame, Kinds
  <2>3. Told' = Told \cup {x.id}
    BY <1>4, <1>8, <1>12, <2>1, <2>2, ToldMore
  <2>4. \A i \in Told : i \in Nat /\ i < x.id
    BY <1>4, <1>8 DEF Told
  <2>5. \A i \in Told' : i <= x.id
    BY <1>8, <2>3, <2>4
  <2>6. seen.pong \in Nat /\ (OpenNow => seen.pong <= x.id /\ seen.pong \in {0} \cup Told)
    BY <1>8, <2>4 DEF PongInv
  <2>7. setup.compressed => ~s'.batch_has_close
    BY <1>6, <1>12, <2>1
  <2>8. s'.state = "Open" => OpenNow /\ ~s'.closing
    BY <1>7, <1>10, <2>1 DEF OpenNow
  <2> QED
    BY <1>1, <1>9, <1>12, <2>1, <2>3, <2>5, <2>6, <2>7, <2>8 DEF PongInv, OpenNow
<1> QED
  BY <1>1, <1>11, <1>12

\* The other steps that answer.
LEMMA AnswersPong ==
    ASSUME Base, Msg, ReadInv, PongInv, OutInv, drain_pong \/ next_close \/ compressed_process_read_buf
    PROVE  PongInv'
<1>0. Record(s, SFields) /\ Record(seen, SeenFields) /\ seen.delivered \in Seq(Nat) /\ s.pending_pong \in Nat
  BY DEF Base, Shapes, Msg, FlowInv, Flow, FlowTypes, OutInv
<1>1. CASE drain_pong
  <2> DEFINE id == s.pending_pong
  <2>1. s.pending_pong # 0 /\ setup' = setup /\ net' = net
    BY <1>1 DEF drain_pong
  <2>2. /\ s'.pending_pong = 0 /\ s'.state = s.state /\ s'.closing = s.closing /\ s'.control = s.control
        /\ s'.close_after_flush = s.close_after_flush /\ s'.batch = s.batch
        /\ s'.batch_has_close = s.batch_has_close
    BY <1>0, <1>1 DEF drain_pong, PingFlushed, Encode, Record, SFields
  <2>3. seen'.pong = id /\ seen'.delivered = seen.delivered
    BY <1>0, <1>1 DEF drain_pong, Record, SeenFields
  <2>4. Told' = Told /\ Pings' = Pings
    BY <2>1, <2>2, <2>3 DEF Told, Pings
  <2>5. s.state = "Open" => OpenNow
    BY <2>1 DEF PongInv, OpenNow
  <2>6. OpenNow => \/ HasClose(s.batch)
                   \/ \A i \in Pings \cap Told : i <= id
    <3>1. SUFFICES ASSUME OpenNow, ~HasClose(s.batch), NEW i \in Pings \cap Told PROVE i <= id
      OBVIOUS
    <3>2. i \in Nat
      BY DEF Msg, NetInv, Pings
    <3>3. (i <= id \/ i <= seen.pong) /\ seen.pong <= id /\ seen.pong \in Nat
      BY <2>1, <3>1 DEF PongInv
    <3> QED
      BY <1>0, <3>2, <3>3
  <2> QED
    BY <1>0, <2>1, <2>2, <2>3, <2>4, <2>5, <2>6 DEF PongInv, OpenNow
<1>2. CASE next_close
  <2> DEFINE x == InHand[1]
             st == [begin_closing(s) EXCEPT
                      !.pending = <<>>, !.batch = <<>>, !.read_buf = <<>>, !.parse_error = FALSE,
                      !.control = x, !.flush_on_read = TRUE, !.close_after_flush = TRUE]
  <2>1. /\ s' = st \/ \E f : s' = Encode(st, f)
        /\ seen' = seen \/ \E f : Encoded(f)
    BY <1>2 DEF next_close
  <2> HIDE DEF x
  <2>2. s'.closing /\ s'.close_after_flush /\ s'.pending_pong = 0
    <3>1. Record(st, SFields) /\ st.closing /\ st.close_after_flush /\ st.pending_pong = 0
      BY <1>0 DEF begin_closing, Record, SFields
    <3> HIDE DEF st
    <3> QED
      BY <2>1, <3>1 DEF Encode, Record, SFields
  <2>3. seen'.pong = seen.pong
    BY <1>0, <2>1 DEF Encoded, Record, SeenFields
  <2> QED
    BY <2>2, <2>3 DEF PongInv, OpenNow
<1>3. CASE compressed_process_read_buf
  <2> DEFINE st == ProcessAll(s)
  <2>1. /\ setup.compressed /\ p.op # "none" /\ p.pc = "process" /\ setup' = setup /\ net' = net /\ seen' = seen
        /\ s' = [st EXCEPT !.batch_has_close = HasClose(st.batch)]
    BY <1>3 DEF compressed_process_read_buf, At
  <2>2. InPollNext
    BY <1>3, ReaderReady DEF NextSteppings
  <2>3. st = ProcessAll(s)
    OBVIOUS
  <2> HIDE DEF st
  <2>4. Record(s, SFields)
    BY <1>0
  <2>5. /\ Record(st, SFields) /\ st.closing = s.closing
        /\ st.pending_pong = s.pending_pong /\ st.control = s.control /\ st.close_after_flush = s.close_after_flush
        /\ BadAt(s.read_buf) = {} => st.state = s.state
        /\ BadAt(s.read_buf) # {} => st.state = IF s.state = "Open" THEN "ReadErrorPending" ELSE s.state
    BY <2>3, <2>4, ProcessFields
  <2>6. /\ s'.closing = s.closing /\ s'.pending_pong = s.pending_pong /\ s'.control = s.control
        /\ s'.close_after_flush = s.close_after_flush /\ (s'.state = "Open" => s.state = "Open")
        /\ s'.batch_has_close = HasClose(s'.batch)
    <3> DEFINE c == HasClose(st.batch)
    <3> HIDE DEF c
    <3>1. s' = [st EXCEPT !.batch_has_close = c]
      BY <2>1 DEF c
    <3>2. s'.batch = st.batch /\ s'.batch_has_close = c /\ s'.closing = st.closing
          /\ s'.pending_pong = st.pending_pong /\ s'.control = st.control
          /\ s'.close_after_flush = st.close_after_flush /\ s'.state = st.state
      BY <2>5, <3>1 DEF Record, SFields
    <3> QED
      BY <2>5, <3>2 DEF c
  <2>7. s.state = "Open" => s.batch = <<>> /\ ~HasClose(s.batch)
    BY <2>1, <2>2 DEF InPollNext, ReadInv, ReaderInv, EmptyHanded, HasClose
  <2>8. Told' = Told /\ Pings' = Pings
    BY <2>1, <2>6 DEF Told, Pings
  <2> QED
    BY <2>1, <2>6, <2>7, <2>8 DEF PongInv, OpenNow
<1> QED
  BY <1>1, <1>2, <1>3

\* The Pongs through any step.
LEMMA PongStep ==
    ASSUME Base, Msg, ReadInv, OutInv, BatchOnly, PongInv, Steps
    PROVE  PongInv'
<1>1. CASE Answers
  BY <1>1, MessagePong, PingPong, AnswersPong DEF Answers
<1>2. CASE ~Answers
  <2>1. /\ Record(s, SFields) /\ Record(seen, SeenFields) /\ seen.delivered \in Seq(Nat) /\ ClosingInv
        /\ net'.script = net.script
    BY NetStep DEF Base, Shapes, Msg, FlowInv, Flow, FlowTypes
  <2> QED
    BY <1>2, <2>1, PongKept
<1> QED
  BY <1>1, <1>2

-----------------------------------------------------------------------------
(* The compressed stream keeps its messages in the batch *)

\* The steps of a poll.
PollMoving ==
    \/ poll_registers \/ drain_flush \/ drain_blocked \/ drain_fails \/ poll_transport_shutdown
    \/ compressed_transport_shutdown \/ next_top \/ next_flushed \/ next_shut \/ next_errors
    \/ next_deadlines \/ next_message \/ next_ping \/ next_close \/ next_buffered \/ next_io
    \/ next_late_shut \/ next_fed \/ next_read \/ next_nodata \/ process_read_buf
    \/ compressed_process_read_buf \/ poll_ready \/ sink_done \/ poll_flush \/ poll_close_ended
    \/ poll_close \/ poll_close_flushed \/ poll_close_shut

\* A poll keeps its kind and the message it has parsed, unless it hands that on.
LEMMA PollMoves ==
    ASSUME Places, PollMoving
    PROVE  p' = Idle \/ (p'.op = p.op /\ (~process_read_buf => p'.parsed \in {p.parsed, NoFrame}))
<1>1. p.op # "none" /\ p.pc \notin {"write", "end"}
  BY DEF PollMoving, poll_registers, drain_flush, drain_blocked, drain_fails, poll_transport_shutdown,
      compressed_transport_shutdown, next_top, next_flushed, next_shut, next_errors, next_deadlines,
      next_message, next_ping, next_close, next_buffered, next_io, next_late_shut, next_fed, next_read,
      next_nodata, process_read_buf, compressed_process_read_buf, poll_ready, sink_done, poll_flush, poll_close_ended,
      poll_close, poll_close_flushed, poll_close_shut, At, Delivering
<1>2. Record(p, PFields)
  BY <1>1, PollSteps DEF PollAt
<1>3. \A x : Jump(x).op = p.op /\ Jump(x).parsed = p.parsed /\ Record(Jump(x), PFields)
  BY <1>2, ZenonT(60) DEF Jump, Record, PFields
<1> DEFINE Good == p'.op = p.op /\ (~process_read_buf => p'.parsed \in {p.parsed, NoFrame})
<1>4. ASSUME \E a, b : Call(a, b) PROVE Good
  BY <1>2, <1>4 DEF Call, Record, PFields
<1>5. ASSUME \E a : Result(a) PROVE Good
  BY <1>2, <1>5 DEF Result, Record, PFields
<1>6. ASSUME \E x : p' = Jump(x) PROVE Good
  BY <1>3, <1>6
<1>7. ASSUME \E x, y : p' = [Jump(x) EXCEPT !.expired = y] PROVE Good
  BY <1>3, <1>7 DEF Record, PFields
<1>8. ASSUME \E x : p' = [Jump(x) EXCEPT !.parsed = NoFrame] PROVE Good
  BY <1>3, <1>8 DEF Record, PFields
<1>9. ASSUME p' # Idle,
             \/ poll_registers \/ drain_flush \/ drain_blocked \/ drain_fails \/ poll_transport_shutdown
             \/ compressed_transport_shutdown
      PROVE  Good
  <2>1. p' = [p EXCEPT !.pc = p.call, !.call = "none"] \/ \E a : Result(a)
    BY <1>9 DEF poll_registers, drain_flush, drain_blocked, drain_fails, poll_transport_shutdown,
         compressed_transport_shutdown
  <2> QED
    BY <1>2, <1>5, <2>1 DEF Record, PFields
<1>10. ASSUME p' # Idle, next_top \/ next_flushed \/ next_shut \/ next_errors \/ next_deadlines
       PROVE  Good
  <2>1. \/ \E a, b : Call(a, b)
        \/ \E x : p' = Jump(x)
        \/ \E x, y : p' = [Jump(x) EXCEPT !.expired = y]
    BY <1>10 DEF next_top, next_flushed, next_shut, next_errors, next_deadlines, Goto, Return, Pending,
         FinishRead
  <2> QED
    BY <1>4, <1>6, <1>7, <2>1
<1>11. ASSUME p' # Idle, next_message \/ next_ping \/ next_close \/ next_buffered \/ next_late_shut
       PROVE  Good
  <2>1. p' = [Jump("top") EXCEPT !.parsed = NoFrame] \/ p' = [p EXCEPT !.pc = "process", !.buffered = TRUE]
    BY <1>11 DEF next_message, next_ping, next_close, next_buffered, next_late_shut, Return, FinishRead
  <2> QED
    BY <1>2, <1>8, <2>1 DEF Record, PFields
<1>12. ASSUME p' # Idle, next_io PROVE Good
  <2> DEFINE late == Expired
  <2>1. ASSUME NEW a, NEW b, NEW c,
               p' = [p EXCEPT !.pc = a, !.call = b, !.ret = c, !.buffered = FALSE, !.late = late]
        PROVE  Good
    <3> HIDE DEF late
    <3> QED
      BY <1>2, <2>1 DEF Record, PFields
  <2>2. CASE p' = [p EXCEPT !.pc = IF "shutdown" = "read" THEN "read" ELSE "register",
                          !.call = "shutdown", !.ret = "lateShut", !.buffered = FALSE, !.late = Expired]
    BY <2>1, <2>2
  <2>3. CASE p' = [p EXCEPT !.pc = IF "drain" = "read" THEN "read" ELSE "register",
                          !.call = "drain", !.ret = "fed", !.buffered = FALSE, !.late = Expired]
    BY <2>1, <2>3
  <2>4. CASE p' = [p EXCEPT !.pc = IF "read" = "read" THEN "read" ELSE "register",
                          !.call = "read", !.ret = "none", !.buffered = FALSE, !.late = Expired]
    BY <2>1, <2>4
  <2> QED
    BY <1>12, <2>2, <2>3, <2>4 DEF next_io, Return, FinishRead
<1>13. ASSUME p' # Idle, next_fed \/ next_read \/ next_nodata \/ compressed_process_read_buf
       PROVE  Good
  <2>1. (\E x : p' = Jump(x)) \/ \E x, y : p' = [Jump(x) EXCEPT !.expired = y]
    BY <1>13 DEF next_fed, next_read, next_nodata, compressed_process_read_buf, Goto, Return, Pending,
         FinishRead
  <2> QED
    BY <1>6, <1>7, <2>1
<1>14. ASSUME p' # Idle,
              \/ poll_ready \/ sink_done \/ poll_flush \/ poll_close_ended \/ poll_close
              \/ poll_close_flushed \/ poll_close_shut
       PROVE  Good
  <2>1. \E a, b : Call(a, b)
    BY <1>14 DEF poll_ready, sink_done, poll_flush, poll_close_ended, poll_close, poll_close_flushed,
         poll_close_shut, Return, Pending
  <2> QED
    BY <1>4, <2>1
<1>15. ASSUME process_read_buf PROVE Good
  <2>1. (\E x : p' = Jump(x)) \/ \E x : p' = [Jump("top") EXCEPT !.parsed = x]
    BY <1>15 DEF process_read_buf, Goto
  <2> QED
    BY <1>3, <1>15, <2>1 DEF Record, PFields
<1> QED
  BY <1>9, <1>10, <1>11, <1>12, <1>13, <1>14, <1>15 DEF PollMoving

\* Only the plain stream's parser hands a message on.
LEMMA ParsedStep ==
    ASSUME Places, Steps, ~process_read_buf
    PROVE  InParser' \in {NoFrame, InParser}
<1>1. CASE p' = p
  BY <1>1 DEF InParser, Reading
<1>2. CASE p' = Idle
  BY <1>2 DEF InParser, Reading, Idle
<1>3. CASE \E op \in setup.calls \ {"close_both"} : poll(op)
  BY <1>3 DEF InParser, Reading, poll
<1>4. CASE close
  BY <1>4 DEF InParser, Reading, close
<1>5. CASE close_write
  <2>1. p = [op |-> "closing", half |-> "Stream", pc |-> p.pc]
    BY <1>5 DEF close_write, Places, PollAt, Idle
  <2>2. p' = p \/ p' = Idle \/ p' = [p EXCEPT !.pc = "end"]
    BY <1>5 DEF close_write
  <2>3. CASE p' = [p EXCEPT !.pc = "end"]
    <3>1. p'.op = "closing"
      BY <2>1, <2>3
    <3> QED
      BY <3>1 DEF InParser, Reading
  <2> QED
    BY <1>1, <1>2, <2>2, <2>3
<1>6. CASE PollMoving
  BY <1>2, <1>6, PollMoves DEF InParser, Reading
<1> QED
  BY <1>1, <1>2, <1>3, <1>4, <1>5, <1>6
  DEF Steps, PollMoving, reactor_takes_stream, reactor_wakes, handover, drain_write, drain_pong, start_send,
      close_shutdown, close_fails, close_cancelled, peer_sends, becomes_writable, breaks, time_passes, timer_fires

\* A message is kept only from there.
LEMMA PendingStep ==
    ASSUME Base, Msg, ReadInv, Steps
    PROVE  s'.pending \in {s.pending, <<>>, <<InParser>>} /\ (InParser = NoFrame => s'.pending \in {s.pending, <<>>})
<1>0. Record(s, SFields)
  BY DEF Base, Shapes
<1>1. CASE s' = finish_read_close(s)
  BY <1>0, <1>1, FinishFields
<1>2. CASE Others
  <2>1. CASE drain_fails
    BY <1>0, <2>1 DEF drain_fails, close_terminal, Record, SFields
  <2>2. CASE ~drain_fails
    <3>1. SameView \/ Over
      BY <1>2, <2>2, OthersView DEF Others, reactor_takes_stream, reactor_wakes, handover, peer_sends,
           becomes_writable, breaks, time_passes, timer_fires
    <3> QED
      BY <3>1 DEF SameView, Over
  <2> QED
    BY <2>1, <2>2
<1>3. CASE s' = Kept(s) /\ Reading
  BY <1>0, <1>3, KeptFields DEF InParser
<1>4. CASE s' = s
  BY <1>4
<1>5. CASE next_flushed \/ next_shut
  <2>1. Reading
    BY <1>5, ReaderStep DEF NextSteppings
  <2>2. \/ s' = s \/ s' = Kept(s) \/ s' = finish_read_close(s)
        \/ s' = [s EXCEPT !.flush_on_read = FALSE, !.control = NoFrame]
        \/ s' = [s EXCEPT !.control = NoFrame]
    BY <1>5 DEF next_flushed, next_shut, FinishRead
  <2> QED
    BY <1>0, <1>1, <1>3, <2>1, <2>2 DEF Record, SFields
<1>6. CASE next_errors
  <2>1. \E x : s' = [close_terminal(s) EXCEPT !.parse_error = FALSE, !.write_buf = x]
    BY <1>6 DEF next_errors
  <2> QED
    BY <1>0, <2>1 DEF close_terminal, Record, SFields
<1>7. CASE next_deadlines
  <2>1. \/ \E a, b : s' = [[s EXCEPT !.write_buf = a] EXCEPT !.ping = "queued", !.pings = b,
                            !.ping_flush = TRUE, !.flush_on_read = TRUE]
        \/ \E a : s' = [begin_closing([s EXCEPT !.write_buf = a]) EXCEPT
                          !.state = "CloseSent", !.terminal = "timeout",
                          !.flush_on_read = TRUE, !.close_after_flush = TRUE]
    BY <1>7 DEF next_deadlines, Encode
  <2> QED
    BY <1>0, <2>1 DEF begin_closing, Record, SFields
<1>8. CASE next_read
  <2> DEFINE st == IF p.late THEN [s EXCEPT !.post_expiry = TRUE] ELSE s
  <2>1. Record(st, SFields) /\ st.pending = s.pending
    BY <1>0 DEF Record, SFields
  <2>2. \/ \E x : s' = [st EXCEPT !.read_buf = x]
        \/ s' = close_terminal(st)
        \/ s' = st
    BY <1>8 DEF next_read
  <2> HIDE DEF st
  <2> QED
    BY <2>1, <2>2 DEF close_terminal, Record, SFields
<1>9. CASE process_read_buf
  BY <1>0, <1>9 DEF process_read_buf, ReadError, Record, SFields
<1>10. CASE compressed_process_read_buf
  <2> DEFINE st == ProcessAll(s)
             c == HasClose(st.batch)
  <2>1. s' = [st EXCEPT !.batch_has_close = c] /\ st = ProcessAll(s)
    BY <1>10 DEF compressed_process_read_buf
  <2> HIDE DEF st, c
  <2>2. Record(st, SFields) /\ st.pending = s.pending
    BY <1>0, <2>1, ProcessFields
  <2> QED
    BY <2>1, <2>2 DEF Record, SFields
<1>11. CASE next_message \/ next_ping
  <2> DEFINE t == Taking1(s)
             st == IF setup.compressed THEN Taking1(s) ELSE process_buffered_after_ping(Taking1(s))
  <2>1. Record(t, SFields) /\ t.pending \in {s.pending, <<>>}
    BY <1>0 DEF Taking1, Record, SFields
  <2>2. st = t \/ st = ProcessAll(t)
    BY DEF process_buffered_after_ping
  <2>3. next_message => \E x : s' = Inbound(t, x)
    BY DEF next_message
  <2>4. next_ping => s' = st \/ \E x, y : s' = [st EXCEPT !.pending_pong = x, !.control = y, !.flush_on_read = TRUE]
    BY DEF next_ping
  <2> HIDE DEF t, st
  <2>5. Record(st, SFields) /\ st.pending = t.pending
    BY <2>1, <2>2, ProcessFields
  <2>6. CASE \E x : s' = Inbound(t, x)
    BY <2>1, <2>6 DEF Inbound, Record, SFields
  <2>7. CASE s' = st \/ \E x, y : s' = [st EXCEPT !.pending_pong = x, !.control = y, !.flush_on_read = TRUE]
    BY <2>1, <2>5, <2>7 DEF Record, SFields
  <2> QED
    BY <1>11, <2>3, <2>4, <2>6, <2>7
<1>12. CASE next_close
  <2> DEFINE st == [begin_closing(s) EXCEPT
                      !.pending = <<>>, !.batch = <<>>, !.read_buf = <<>>, !.parse_error = FALSE,
                      !.control = InHand[1], !.flush_on_read = TRUE, !.close_after_flush = TRUE]
  <2>1. s' = st \/ \E f : s' = Encode(st, f)
    BY <1>12 DEF next_close
  <2>2. Record(st, SFields) /\ st.pending = <<>>
    BY <1>0 DEF begin_closing, Record, SFields
  <2> HIDE DEF st
  <2> QED
    BY <2>1, <2>2 DEF Encode, Record, SFields
<1> QED
  BY <1>1, <1>2, <1>4, <1>5, <1>6, <1>7, <1>8, <1>9, <1>10, <1>11, <1>12, StepsSplit
  DEF NextSteppings, next_top, next_buffered, next_io, next_late_shut, next_fed, next_nodata, FinishRead

\* The compressed stream through any step.
LEMMA BatchStep ==
    ASSUME Base, Msg, ReadInv, BatchOnly, Steps
    PROVE  BatchOnly'
<1>1. SUFFICES ASSUME setup.compressed PROVE InParser' = NoFrame /\ s'.pending = <<>>
  BY SetupSame DEF BatchOnly
<1>2. ~process_read_buf /\ InParser = NoFrame /\ s.pending = <<>> /\ Places
  BY <1>1 DEF process_read_buf, BatchOnly, Base
<1> QED
  BY <1>2, ParsedStep, PendingStep

-----------------------------------------------------------------------------
(* Messages in front of a Pong *)

\* Who is admitted, and how many messages overtook the Pong, through the other steps.
LEMMA AdmitHistory ==
    ASSUME Record(seen, SeenFields), Steps, ~drain_pong, ~poll_ready, ~sink_done,
           ~ \E item \in setup.items : start_send(item)
    PROVE  seen'.overtook = seen.overtook /\ seen'.admitted = seen.admitted
<1>1. CASE drain_write \/ close_write
  <2>1. CASE Write
    <3>1. PICK n \in 1 .. Len(Offered) : seen' =
            [seen EXCEPT !.ordered = @ /\ SubSeq(Offered, 1, n) = SubSeq(seen.queue, 1, n),
                         !.queue = SubSeq(@, n + 1, Len(@))]
      BY <2>1 DEF Write
    <3> QED
      BY <3>1 DEF Record, SeenFields
  <2> QED
    BY <1>1, <2>1 DEF drain_write, close_write
<1>2. CASE \/ seen' = seen
           \/ \E f : Encoded(f)
           \/ \E x : seen' = [seen EXCEPT !.delivered = x]
           \/ \E x : seen' = [seen EXCEPT !.ended = x]
           \/ \E x, y : seen' = [seen EXCEPT !.ended = x, !.queue = y]
  BY <1>2 DEF Encoded, Record, SeenFields
<1>3. CASE next_errors
  <2>1. \E x, y : seen' = [seen EXCEPT !.ended = x, !.queue = y]
    BY <1>3 DEF next_errors
  <2> QED
    BY <1>2, <2>1
<1>4. CASE next_deadlines \/ next_close \/ poll_close \/ close
  <2>1. seen' = seen \/ \E f : Encoded(f)
    BY <1>4 DEF next_deadlines, next_close, poll_close, close
  <2> QED
    BY <1>2, <2>1
<1>5. CASE \/ next_top \/ next_fed \/ next_read \/ next_message \/ next_ping \/ next_flushed \/ next_shut \/ next_io
           \/ next_late_shut \/ next_nodata
  <2>1. \/ seen' = seen
        \/ \E x : seen' = [seen EXCEPT !.delivered = x]
        \/ \E x : seen' = [seen EXCEPT !.ended = x]
    BY <1>5 DEF next_top, next_fed, next_read, next_message, next_ping, next_flushed, next_shut, next_io,
         next_late_shut, next_nodata, FinishRead, Ended, Delivered
  <2> QED
    BY <1>2, <2>1
<1> QED
  BY <1>1, <1>2, <1>3, <1>4, <1>5
  DEF Steps, reactor_takes_stream, reactor_wakes, poll, handover, poll_registers, drain_blocked,
      drain_flush, drain_fails, poll_transport_shutdown, compressed_transport_shutdown,
      next_buffered, process_read_buf, compressed_process_read_buf,
      poll_flush, poll_close_ended, poll_close_flushed, poll_close_shut,
      close_shutdown, close_fails, close_cancelled, peer_sends, becomes_writable, breaks, time_passes, timer_fires

\* A Pong that waits on an open connection goes on waiting, unless drain takes it.
LEMMA PongWaits ==
    ASSUME Base, Msg, ReadInv, PongInv, Steps, ~drain_pong, OpenNow', s.pending_pong # 0
    PROVE  OpenNow /\ s'.pending_pong # 0
<1>0. Record(s, SFields) /\ ClosingInv /\ Record(net, NetFields)
  BY DEF Base, Shapes
<1>1. s.state = "Open" /\ ~s.closing /\ s'.state = "Open"
  BY <1>0, ClosingStays DEF OpenNow
<1>2. CASE ~Answers
  BY <1>0, <1>1, <1>2, OpenFields DEF PongFields, OpenNow
<1>3. CASE next_close
  <2> DEFINE st == [begin_closing(s) EXCEPT
                      !.pending = <<>>, !.batch = <<>>, !.read_buf = <<>>, !.parse_error = FALSE,
                      !.control = InHand[1], !.flush_on_read = TRUE, !.close_after_flush = TRUE]
  <2>1. s' = st \/ \E f : s' = Encode(st, f)
    BY <1>3 DEF next_close
  <2>2. Record(st, SFields) /\ st.closing
    BY <1>0 DEF begin_closing, Record, SFields
  <2> HIDE DEF st
  <2> QED
    BY <2>1, <2>2 DEF Encode, Record, SFields, OpenNow
<1>4. CASE compressed_process_read_buf
  <2> DEFINE st == ProcessAll(s)
             c == HasClose(st.batch)
  <2>1. s' = [st EXCEPT !.batch_has_close = c] /\ st = ProcessAll(s)
    BY <1>4 DEF compressed_process_read_buf
  <2> HIDE DEF st, c
  <2>2. Record(st, SFields) /\ st.pending_pong = s.pending_pong
    BY <1>0, <2>1, ProcessFields
  <2> QED
    BY <1>1, <2>1, <2>2 DEF Record, SFields, OpenNow
<1>5. CASE next_message \/ next_ping
  <2> DEFINE t == Taking1(s)
             st == IF setup.compressed THEN Taking1(s) ELSE process_buffered_after_ping(Taking1(s))
  <2>1. Record(t, SFields) /\ t.pending_pong = s.pending_pong
    BY <1>0 DEF Taking1, Record, SFields
  <2>2. st = t \/ st = ProcessAll(t)
    BY DEF process_buffered_after_ping
  <2>3. next_message => \E x : s' = Inbound(t, x)
    BY DEF next_message
  <2>4. next_ping => s' = st \/ \E y : s' = [st EXCEPT !.pending_pong = InHand[1].id, !.control = y,
                                                       !.flush_on_read = TRUE]
    BY DEF next_ping
  <2>5. InHand[1].id # 0
    <3>1. InPollNext /\ NetInv /\ Delivering /\ InHand # <<>>
      BY <1>5, ReaderReady DEF NextSteppings, Msg, next_message, next_ping
    <3>2. InHand[1] \in Message /\ Held(Taking1(s), InHand[1])
      BY <3>1, TakeOne
    <3>3. InHand[1].id \in Nat /\ InHand[1].id > 0
      BY <3>1, <3>2, LastMessage
    <3> QED
      BY <3>3
  <2> HIDE DEF t, st
  <2>6. Record(st, SFields) /\ st.pending_pong = t.pending_pong
    BY <2>1, <2>2, ProcessFields
  <2>7. CASE \E x : s' = Inbound(t, x)
    BY <1>1, <2>1, <2>7 DEF Inbound, Record, SFields, OpenNow
  <2>8. CASE s' = st \/ \E y : s' = [st EXCEPT !.pending_pong = InHand[1].id, !.control = y,
                                                !.flush_on_read = TRUE]
    BY <1>1, <2>1, <2>5, <2>6, <2>8 DEF Record, SFields, OpenNow
  <2> QED
    BY <1>5, <2>3, <2>4, <2>7, <2>8
<1> QED
  BY <1>2, <1>3, <1>4, <1>5 DEF Answers

\* poll_ready through any step.
LEMMA ReadyStep ==
    ASSUME Base, Msg, ReadInv, ReadyFor, Steps
    PROVE  ReadyFor'
<1>0. Places /\ Record(s, SFields)
  BY DEF Base, Shapes
<1>1. CASE p'.op # "ready"
  BY <1>1 DEF ReadyFor
<1>2. CASE p' = Idle
  BY <1>1, <1>2 DEF Idle
<1>3. CASE UNCHANGED <<s, p>>
  BY <1>3 DEF ReadyFor
<1>4. CASE p' = p /\ (p.op = "closing" \/ p = Idle \/ p.pc = "drain")
  BY <1>4 DEF ReadyFor, Idle
<1>5. CASE \E op \in setup.calls \ {"close_both"} : poll(op)
  <2>1. p'.pc \in {"top", "start"}
    BY <1>5 DEF poll
  <2> QED
    BY <2>1 DEF ReadyFor
<1>6. CASE close
  BY <1>1, <1>6 DEF close
<1>7. CASE close_write
  <2>1. p = [op |-> "closing", half |-> "Stream", pc |-> p.pc]
    BY <1>0, <1>7 DEF close_write, Places, PollAt, Idle
  <2>2. p' = p \/ p' = Idle \/ p' = [p EXCEPT !.pc = "end"]
    BY <1>7 DEF close_write
  <2>3. p'.op # "ready"
    BY <2>1, <2>2 DEF Idle
  <2> QED
    BY <1>1, <2>3
<1>8. CASE PollMoving /\ p' # Idle /\ p'.op = "ready"
  <2>1. p.op = "ready"
    BY <1>0, <1>8, PollMoves
  <2>2. p.pc # "shutdown" /\ (p.pc = "register" => p.call = "drain")
    BY <2>1 DEF ReadyFor
  <2>3. ~(NextSteppings \/ next_read)
    BY <2>1, ReaderStep
  <2>4. ASSUME p.pc \notin {"write", "end"} PROVE PollAt(p) /\ Record(p, PFields) /\ Bound(p) \in {"start", "done"}
    BY <1>0, <2>1, <2>4, PollSteps DEF PollAt, PlacesOf
  <2>5. CASE poll_registers
    <3>1. Record(p, PFields) /\ p' = [p EXCEPT !.pc = p.call, !.call = "none"] /\ p.call = "drain"
      BY <2>2, <2>4, <2>5 DEF poll_registers
    <3>2. p'.pc = "drain"
      BY <3>1 DEF Record, PFields
    <3> QED
      BY <3>2 DEF ReadyFor
  <2>6. CASE drain_flush \/ drain_blocked \/ drain_fails
    <3>1. p.pc = "drain" /\ \E res : Result(res)
      BY <2>6 DEF drain_flush, drain_blocked, drain_fails, At
    <3>2. Record(p, PFields) /\ p.ret \in {"start", "done"}
      BY <2>4, <3>1 DEF Bound
    <3>3. p'.pc \in {"start", "done"}
      BY <3>1, <3>2 DEF Result, Record, PFields
    <3>4. p'.res = "ready" => drain_flush
      <4>1. CASE drain_blocked
        BY <3>2, <4>1 DEF drain_blocked, Result, Record, PFields
      <4>2. CASE drain_fails
        BY <3>2, <4>2 DEF drain_fails, Result, Record, PFields
      <4> QED
        BY <2>6, <4>1, <4>2
    <3>5. drain_flush => s'.pending_pong = 0
      BY <1>0 DEF drain_flush, PingFlushed, Record, SFields
    <3> QED
      BY <3>3, <3>4, <3>5 DEF ReadyFor
  <2>7. CASE poll_transport_shutdown \/ compressed_transport_shutdown
    BY <2>2, <2>7 DEF poll_transport_shutdown, compressed_transport_shutdown, At
  <2>8. CASE poll_ready \/ sink_done
    <3>1. Call("drain", "done") /\ p.pc = "start"
      BY <1>8, <2>1, <2>8 DEF poll_ready, sink_done, Return, Pending, At
    <3>2. Record(p, PFields)
      BY <2>4, <3>1
    <3>3. p'.pc = "register" /\ p'.call = "drain"
      BY <3>1, <3>2 DEF Call, Record, PFields
    <3> QED
      BY <3>3 DEF ReadyFor
  <2>9. CASE poll_flush \/ poll_close_ended \/ poll_close \/ poll_close_flushed \/ poll_close_shut
    <3>1. p.pc \in {"closeFlushed", "closeShut"}
      BY <2>1, <2>9 DEF poll_flush, poll_close_ended, poll_close, poll_close_flushed, poll_close_shut, At
    <3> QED
      BY <2>4, <3>1 DEF Bound
  <2> QED
    BY <1>8, <2>3, <2>5, <2>6, <2>7, <2>8, <2>9 DEF PollMoving, NextSteppings
<1> QED
  BY <1>1, <1>2, <1>3, <1>4, <1>5, <1>6, <1>7, <1>8
  DEF Steps, PollMoving, reactor_takes_stream, reactor_wakes, handover, drain_write, drain_pong, start_send, At,
      close_shutdown, close_fails, close_cancelled, peer_sends, becomes_writable, breaks, time_passes, timer_fires

\* Overtaking through any step.
LEMMA OvertakeStep ==
    ASSUME Base, Msg, ReadInv, PongInv, OvertakeInv, Steps
    PROVE  OvertakeInv'
<1>0. Record(s, SFields) /\ Record(seen, SeenFields) /\ seen.overtook \in {0, 1}
  BY DEF Base, Shapes, OvertakeInv
<1>1. ReadyFor'
  BY ReadyStep DEF OvertakeInv
<1>2. CASE drain_pong
  <2>1. seen'.overtook = 0
    BY <1>0, <1>2 DEF drain_pong, Record, SeenFields
  <2> QED
    BY <1>1, <2>1 DEF OvertakeInv
<1>3. CASE ~drain_pong
  <2>1. OpenNow' => OpenNow
    <3>1. (s'.state = "Open" => s.state = "Open") /\ (s.closing => s'.closing)
      BY <1>0, ClosingStays
    <3> QED
      BY <3>1 DEF OpenNow
  <2>2. CASE /\ ~poll_ready /\ ~sink_done
             /\ ~ \E item \in setup.items : start_send(item)
    <3>1. seen'.overtook = seen.overtook /\ seen'.admitted = seen.admitted
      BY <1>0, <1>3, <2>2, AdmitHistory
    <3>2. ASSUME OpenNow', seen.overtook = 1 PROVE s'.pending_pong # 0 /\ ~seen'.admitted
      <4>1. s.pending_pong # 0 /\ ~seen.admitted
        BY <2>1, <3>2 DEF OvertakeInv
      <4> QED
        BY <1>3, <3>1, <3>2, <4>1, PongWaits
    <3> QED
      BY <1>0, <1>1, <3>1, <3>2 DEF OvertakeInv
  <2>3. CASE poll_ready \/ sink_done
    <3>1. seen'.overtook = seen.overtook
      <4>1. seen' = seen \/ \E x : seen' = [seen EXCEPT !.admitted = x]
        BY <2>3 DEF poll_ready, sink_done
      <4> QED
        BY <1>0, <4>1 DEF Record, SeenFields
    <3>2. ASSUME OpenNow', seen.overtook = 1 PROVE s'.pending_pong # 0 /\ ~seen'.admitted
      <4>1. s.pending_pong # 0 /\ ~seen.admitted /\ OpenNow
        BY <2>1, <3>2 DEF OvertakeInv
      <4>2. s'.pending_pong # 0
        BY <1>3, <3>2, <4>1, PongWaits
      <4>3. CASE poll_ready
        <5>1. seen' = seen
          BY <4>1, <4>3 DEF poll_ready, needs_drain_before_send, OpenNow
        <5> QED
          BY <4>1, <4>2, <5>1
      <4>4. CASE sink_done
        <5>1. ~(p.op = "ready" /\ p.res = "ready")
          BY <4>1, <4>4 DEF sink_done, At, OvertakeInv, ReadyFor
        <5>2. seen' = seen \/ seen' = [seen EXCEPT !.admitted = @ \/ (p.op = "ready" /\ p.res = "ready")]
          BY <4>4 DEF sink_done
        <5>3. ~seen'.admitted
          BY <1>0, <4>1, <5>1, <5>2 DEF Record, SeenFields
        <5> QED
          BY <4>2, <5>3
      <4> QED
        BY <2>3, <4>3, <4>4
    <3> QED
      BY <1>0, <1>1, <3>1, <3>2 DEF OvertakeInv
  <2>4. CASE \E item \in setup.items : start_send(item)
    <3>1. PICK item \in setup.items : start_send(item)
      BY <2>4
    <3>2. seen.admitted
      BY <3>1 DEF start_send
    <3>3. CASE s.state # "Open"
      <4>1. seen'.overtook = seen.overtook
        BY <1>0, <3>1, <3>3 DEF start_send, Record, SeenFields
      <4>2. ~OpenNow'
        BY <2>1, <3>3 DEF OpenNow
      <4> QED
        BY <1>0, <1>1, <4>1, <4>2 DEF OvertakeInv
    <3>4. CASE s.state = "Open"
      <4>1. seen' = [seen EXCEPT !.admitted = FALSE, !.sends = @ + 1,
                                 !.queue = @ \o Cells(item, seen.sends + 1),
                                 !.overtook = IF s.pending_pong = 0 THEN @ ELSE @ + 1]
        BY <3>1, <3>4 DEF start_send
      <4>2. ~seen'.admitted /\ seen'.overtook = IF s.pending_pong = 0 THEN seen.overtook ELSE seen.overtook + 1
        BY <1>0, <4>1 DEF Record, SeenFields
      <4>3. s.pending_pong # 0 => OpenNow
        BY <3>4 DEF PongInv, OpenNow
      <4>4. OpenNow => seen.overtook = 0
        BY <1>0, <3>2 DEF OvertakeInv
      <4>5. seen'.overtook \in {0, 1}
        BY <1>0, <4>2, <4>3, <4>4
      <4>6. ASSUME OpenNow', seen'.overtook = 1 PROVE s'.pending_pong # 0
        <5>1. s.pending_pong # 0
          BY <2>1, <4>2, <4>4, <4>6
        <5> QED
          BY <1>3, <4>6, <5>1, PongWaits
      <4> QED
        BY <1>1, <4>2, <4>5, <4>6 DEF OvertakeInv
    <3> QED
      BY <3>3, <3>4
  <2> QED
    BY <2>2, <2>3, <2>4
<1> QED
  BY <1>2, <1>3

\* A reader that sleeps has nothing in its batch, so the Pings it was given are answered.
LEMMA AnsweredPings ==
    ASSUME Msg, ReadInv, OutInv, PongInv, OvertakeInv
    PROVE  PingsAnswered
<1>1. seen.overtook <= 1
  BY DEF OvertakeInv
<1>2. ASSUME w.asleep["Stream"] # NoTask, s.state = "Open", ~s.closing,
             NEW i \in Pings, i \in {seen.delivered[j] : j \in DOMAIN seen.delivered}
      PROVE  s.pending_pong >= i \/ seen.pong >= i
  <2>1. s.batch = <<>> /\ ~HasClose(s.batch)
    BY <1>2 DEF ReadInv, SleepsEmpty, EmptyHanded, HasClose
  <2>2. seen.delivered \in Seq(Nat) /\ net.script \in Seq([kind : Kinds, id : Nat])
    BY DEF Msg, FlowInv, Flow, FlowTypes, NetInv
  <2>3. i \in Nat
    BY <2>2 DEF Pings
  <2>4. i \in Told
    BY <1>2, <2>2 DEF Told
  <2>5. i <= s.pending_pong \/ i <= seen.pong
    BY <1>2, <2>1, <2>4 DEF PongInv, OpenNow
  <2> QED
    BY <2>3, <2>5 DEF OutInv, PongInv
<1> QED
  BY <1>1, <1>2 DEF PingsAnswered

-----------------------------------------------------------------------------
(* The theorems *)

\* The invariant holds at the start.
LEMMA InitInv ==
    ASSUME Init
    PROVE  IInv
<1> DEFINE kinds == setup.script
           k == setup.leftover
           sc == [i \in DOMAIN kinds |-> [kind |-> kinds[i], id |-> i]]
           buf == SubSeq(sc, 1, k)
<1>1. /\ setup \in Setups /\ setup \in SetupType /\ kinds \in Seq(Kinds) /\ k \in Nat /\ k <= Len(kinds)
      /\ NoTask \notin Tasks
  BY UnifiedAssumption DEF Init, SetupType
<1>2. /\ net.script = sc /\ net.read = k /\ net.arrived = k /\ net.interest = {} /\ net.waking = "none"
      /\ net.taken = {} /\ Record(net, NetFields)
  BY DEF Init, Record, NetFields
<1>3. PICK left, still :
      s = [state |-> "Open", closing |-> FALSE, post_expiry |-> FALSE,
           shutdown |-> "NotStarted", pending |-> <<>>, batch |-> <<>>,
           read_buf |-> buf, unprocessed |-> left, parse_error |-> FALSE, control |-> NoFrame,
           terminal |-> "none", flush_on_read |-> FALSE, close_after_flush |-> FALSE,
           write_buf |-> EmptyCork, pending_pong |-> 0, ping_flush |-> FALSE, ready_flush |-> FALSE,
           ping |-> "none", stopped |-> still, pings |-> 0, batch_has_close |-> FALSE]
      /\ (~left => k = 0)
  <2> DEFINE a == k > 0
             b == ~setup.beats
  <2>1. ~a => k = 0
    BY <1>1
  <2>2. s = [state |-> "Open", closing |-> FALSE, post_expiry |-> FALSE,
           shutdown |-> "NotStarted", pending |-> <<>>, batch |-> <<>>,
           read_buf |-> buf, unprocessed |-> a, parse_error |-> FALSE, control |-> NoFrame,
           terminal |-> "none", flush_on_read |-> FALSE, close_after_flush |-> FALSE,
           write_buf |-> EmptyCork, pending_pong |-> 0, ping_flush |-> FALSE, ready_flush |-> FALSE,
           ping |-> "none", stopped |-> b, pings |-> 0, batch_has_close |-> FALSE]
    BY <1>2 DEF Init
  <2> HIDE DEF a, b, buf, k
  <2> QED
    BY <2>1, <2>2
<1>4. p = Idle /\ due = {}
  BY DEF Init
<1>5. PICK owner \in [Half -> Tasks] :
      w = [waker |-> [h \in Half |-> NoTask], armed |-> [h \in Half |-> FALSE],
           waiting |-> [h \in Half |-> FALSE], registered |-> [h \in Half |-> NoTask],
           owner |-> owner, moves |-> 0, timer |-> "none", asleep |-> [h \in Half |-> NoTask], woken |-> {}]
  BY DEF Init
<1>6. seen = [queue |-> <<>>, ordered |-> TRUE, pong |-> 0, delivered |-> <<>>,
              ended |-> "no", sends |-> 0, admitted |-> FALSE, overtook |-> 0]
  BY DEF Init
<1>7. NetInv /\ sc \in Seq([kind : Kinds, id : Nat]) /\ Len(sc) = Len(kinds)
  <2> DEFINE T == [kind : Kinds, id : Nat]
             n == Len(kinds)
  <2>1. DOMAIN kinds = 1 .. n /\ n \in Nat /\ \A i \in 1 .. n : kinds[i] \in Kinds
    BY <1>1
  <2>2. \A i \in 1 .. n : sc[i] \in T /\ sc[i].id = i
    BY <2>1
  <2>3. sc \in [1 .. n -> T]
    BY <2>1, <2>2
  <2> HIDE DEF sc, T
  <2>4. sc \in Seq(T) /\ Len(sc) = n
    BY <2>1, <2>3
  <2>5. k \in 0 .. Len(sc)
    BY <1>1, <2>1, <2>4
  <2> QED
    BY <1>1, <1>2, <2>1, <2>2, <2>4, <2>5 DEF NetInv, T
<1> HIDE DEF sc, kinds
<1>8. Script(net.script) /\ FramesOf(net.script) = Sent /\ k \in 0 .. Len(net.script) /\ sc \in Seq(Sent)
  <2>1. Script(net.script) /\ FramesOf(net.script) = Sent
    BY <1>7, RunScript
  <2>2. sc \in Seq(Sent)
    BY <1>2, <2>1 DEF Script
  <2>3. k \in 0 .. Len(net.script)
    BY <1>1, <1>2, <1>7
  <2> QED
    BY <2>1, <2>2, <2>3
<1> HIDE DEF k
<1>9. /\ Record(s, SFields) /\ s.state = "Open" /\ ~s.closing /\ s.shutdown = "NotStarted" /\ s.pending = <<>>
      /\ s.batch = <<>> /\ s.read_buf = buf /\ s.unprocessed = left /\ ~s.parse_error /\ s.control = NoFrame
      /\ s.terminal = "none" /\ ~s.close_after_flush /\ s.write_buf = EmptyCork /\ s.pending_pong = 0
      /\ ~s.batch_has_close /\ s.parse_error = FALSE
  BY <1>3 DEF Record, SFields
<1>10. /\ Record(seen, SeenFields) /\ seen.queue = <<>> /\ seen.ordered /\ seen.pong = 0
       /\ seen.delivered = <<>> /\ seen.sends = 0 /\ ~seen.admitted /\ seen.overtook = 0
  BY <1>6 DEF Record, SeenFields
<1>11. /\ WShape(w) /\ (\A h \in Half : w.asleep[h] = NoTask /\ ~w.armed[h])
  BY <1>5 DEF WShape, Record, WFields, Half
<1>12. Shapes /\ Places
  BY <1>2, <1>4, <1>9, <1>10, <1>11 DEF Shapes, Places
<1>13. p.op = "none" /\ ~Reading /\ ~Polled
  BY <1>4 DEF Idle, Reading, Polled, Sinking
<1>14. ClosingInv
  BY <1>9, <1>13 DEF ClosingInv, ClosingFields, Ending
<1>15. Wakers
  BY <1>2, <1>11, <1>13 DEF Wakers, PollWakers, SlotInv, SleepInv, Half
<1>16. buf \in Seq(Sent) /\ (~left => buf = <<>>)
  <2>1. k \in Nat /\ k <= Len(sc) /\ Len(sc) \in Nat
    BY <1>2, <1>7, <1>8
  <2>2. buf \in Seq(Sent) /\ Len(buf) = k
    BY <1>8, <2>1
  <2> QED
    BY <1>3, <2>2, EmptySeq
<1>17. InParser = NoFrame /\ Hand = <<>> /\ (Live = TRUE) /\ HasClose(s.batch) = FALSE
  BY <1>9, <1>13 DEF InParser, Hand, Live, HasClose
<1>18. FrameTypes /\ HandInv
  <2>1. <<>> \in Seq(Message)
    OBVIOUS
  <2> QED
    BY <1>9, <1>16, <1>17, <2>1 DEF FrameTypes, HandInv
<1>19. FlowInv
  <2> DEFINE d == <<>>
             script == net.script
  <2>1. Flow(script, Whole, k, FALSE, <<>>, <<>>, <<>>, SubSeq(script, 1, k), FALSE, TRUE)
    BY <1>8, FlowStarts
  <2> QED
    BY <1>2, <1>9, <1>10, <1>17, <2>1 DEF FlowInv
<1>20. ReadInv
  BY <1>3, <1>4, <1>9, <1>11, <1>13, <1>16 DEF ReadInv, KeepInv, ReaderInv, SleepsEmpty, Half
<1>21. OutInv
  BY <1>9, <1>10, ContentsEmpty DEF OutInv, OutputOrder
<1>22. BatchOnly
  BY <1>9, <1>17 DEF BatchOnly
<1>23. PongInv
  <2>1. Told = {}
    BY <1>9, <1>10 DEF Told
  <2> QED
    BY <1>9, <1>10, <2>1 DEF PongInv, OpenNow
<1>24. OvertakeInv
  BY <1>10, <1>13 DEF OvertakeInv, ReadyFor
<1> QED
  BY <1>1, <1>7, <1>12, <1>14, <1>15, <1>18, <1>19, <1>20, <1>21, <1>22, <1>23, <1>24 DEF IInv

\* Every step keeps the invariant.
LEMMA NextInv ==
    ASSUME IInv, [Next]_vars
    PROVE  IInv'
<1>1. CASE Next
  <2>0. Steps
    BY <1>1, NextSteps
  <2>1. Base /\ Msg
    BY DEF IInv, Base, Msg, ReadInv
  <2>2. setup' \in Setups
    BY <2>0, SetupSame DEF IInv
  <2>3. Places' /\ Wakers' /\ WShape(w)'
    BY <2>0, <2>1, WakersStep DEF IInv
  <2>4. Shapes'
    BY <2>0, <2>3, SRecord, NetRecord, SeenRecord DEF IInv, Shapes
  <2>5. ClosingInv'
    BY <2>0, <2>1, ClosingStep DEF IInv, Shapes
  <2>6. Msg' /\ ReadInv'
    BY <2>0, <2>1, MsgStep DEF IInv
  <2>7. OutInv' /\ BatchOnly' /\ PongInv' /\ OvertakeInv'
    BY <2>0, <2>1, OutStep, BatchStep, PongStep, OvertakeStep DEF IInv
  <2> QED
    BY <2>2, <2>3, <2>4, <2>5, <2>6, <2>7 DEF IInv, Msg
<1>2. CASE UNCHANGED vars
  <2>1. UNCHANGED <<setup, s, p, w, net, due, seen>>
    BY <1>2 DEF vars
  <2>2. (setup \in Setups)' /\ Shapes' /\ Places' /\ ClosingInv'
    BY <2>1 DEF IInv, Shapes, Places, ClosingInv
  <2>3. Wakers'
    BY <2>1 DEF IInv, Wakers, PollWakers, SlotInv, SleepInv, Polled, Reading, Sinking, Registered, Called,
         Timed, Covered, next_deadline, next_hard_deadline
  <2>4. /\ InParser' = InParser /\ Sent' = Sent /\ Message' = Message /\ Hand' = Hand /\ Live' = Live
        /\ Reading' = Reading /\ Towards' = Towards /\ Whole' = Whole /\ Told' = Told /\ OpenNow' = OpenNow
        /\ EmptyHanded' = EmptyHanded /\ Pings' = Pings
    BY <2>1 DEF InParser, Sent, Message, Hand, Live, Reading, Towards, Whole, Told, OpenNow, EmptyHanded, Pings
  <2>5. NetInv' /\ FrameTypes' /\ HandInv' /\ FlowInv'
    BY <2>1, <2>4 DEF IInv, NetInv, FrameTypes, HandInv, FlowInv
  <2>6. ReadInv'
    BY <2>1, <2>4 DEF IInv, ReadInv, KeepInv, ReaderInv, SleepsEmpty
  <2>7. OutInv' /\ BatchOnly' /\ PongInv' /\ OvertakeInv'
    BY <2>1, <2>4 DEF IInv, OutInv, OutputOrder, BatchOnly, PongInv, OvertakeInv, ReadyFor
  <2> QED
    BY <2>2, <2>3, <2>5, <2>6, <2>7 DEF IInv
<1> QED
  BY <1>1, <1>2

\* For every setup and every set of tasks: the records, the places of a poll, the wakers, the
\* messages, the output and the Pongs are as IInv says, whoever polls, wakes, sends or closes.
THEOREM UnifiedInvariant == Spec => []IInv
<1>1. Init => IInv
  BY InitInv
<1>2. IInv /\ [Next]_vars => IInv'
  BY NextInv
<1> QED
  BY <1>1, <1>2, PTL DEF Spec

\* A half whose poll returned Pending is woken: its waker is in its slot and the transport and
\* the timer know the proxy, or a wake is under way (HalfWakers, UnifiedOutput::register, drain).
THEOREM WakeupsNeverLost == Spec => []NoLostWakeup
<1>1. IInv => NoLostWakeup
  BY DEF IInv, Wakers, SleepInv, NoLostWakeup, Asleep, Called, Timed
<1> QED
  BY <1>1, UnifiedInvariant, PTL

\* poll_next gives the application the peer's messages in wire order and without gaps, and keeps
\* none back from a reader that sleeps on an open connection.
THEOREM MessagesAlwaysDelivered == Spec => []DeliveredInOrder
<1>1. IInv => DeliveredInOrder
  BY InOrderDelivered DEF IInv, Msg, ReadInv
<1> QED
  BY <1>1, UnifiedInvariant, PTL

\* What the two halves write to the transport is what they encoded, in that order, through the
\* segments and the buffer of the cork.
THEOREM OutputAlwaysInOrder == Spec => []OutputOrder
<1>1. IInv => OutputOrder
  BY DEF IInv, OutInv
<1> QED
  BY <1>1, UnifiedInvariant, PTL

\* A reader that sleeps with nothing left to write has answered the latest Ping it delivered,
\* and at most one message was sent in front of a Pong that waits.
THEOREM PingsAlwaysAnswered == Spec => []PingsAnswered
<1>1. IInv => PingsAnswered
  BY AnsweredPings DEF IInv, Msg, ReadInv
<1> QED
  BY <1>1, UnifiedInvariant, PTL
=============================================================================
