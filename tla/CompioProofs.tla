---------------------------- MODULE CompioProofs ----------------------------
(***************************************************************************)
(* The Compio streams for every set of scripts, items and options: frames  *)
(* reach the wire whole, a timeout releases the transport before it is     *)
(* reported, the time budget of a closing stream is kept, control messages *)
(* are handed to the driver once, and messages reach the application in    *)
(* the order the peer sent them.                                           *)
(*                                                                         *)
(* None of these is inductive.  Frames stay whole because a flush that was *)
(* given up half way (in Close cleanup, or by the driver) leaves a stream  *)
(* that writes no more (WholeInv); the one exception is named: another     *)
(* call that the application dropped.  A timeout is reported only after    *)
(* the transport writer has been released, which is said of all the places *)
(* its cause passes through: the terminal slot, the notice, the results of *)
(* the sends and the end the reader reports (TimeoutInv).  The one read    *)
(* past the recovery deadline is paid from post_expiry, and no Pong        *)
(* follows a Close because a batch that holds one is known to (BudgetInv). *)
(* A request waits only together with the control message it was made of,  *)
(* at the head of the reader's batch (HandInv).  Messages keep their order *)
(* because what was returned, what the call in progress holds and what its *)
(* batch holds are always the next messages of the script, but for those   *)
(* that were discarded, with the read buffer right behind them (FlowInv).  *)
(*                                                                         *)
(* The records of the model carry their shape in the invariant (Shapes):   *)
(* every lemma about an action then reads it off the EXCEPT of the action. *)
(***************************************************************************)
EXTENDS CompioSplit, Lemmas

\* A record with just these fields: what EXCEPT keeps.
Record(r, fields) == r = [f \in fields |-> r[f]]

\* The fields of the records of the state.
UFields == {"phase", "pc", "state", "closing", "post_expiry", "batch_has_close", "shutdown",
            "pending", "parse_error", "read_buf", "write_buf", "hb", "bound", "then", "msg", "pings"}
NetFields == {"script", "arrived", "read", "input", "output", "wire", "partial", "torn"}
SeenFields == {"delivered", "ended", "late_reads", "sends", "late_pong", "discarded", "cut",
               "split_at", "committed"}
ShFields == {"status", "terminal", "moved", "cancel", "notice"}
RdFields == {"pc", "pending", "request", "parse_error", "read_buf", "reported"}
WrFields == {"pc", "item", "results"}
DrvFields == {"pc", "hb", "closing", "local_close", "deferred", "frame", "cause", "released",
              "hasty", "pings"}

\* The shapes of the records.
Shapes ==
    /\ Record(u, UFields) /\ Record(net, NetFields) /\ Record(seen, SeenFields)
    /\ Record(sh, ShFields) /\ Record(rd, RdFields) /\ Record(wr, WrFields)
    /\ Record(drv, DrvFields)

\* What a script consists of, and the causes of a timeout.
Frames == [kind : Kinds, id : Nat]
Timeouts == {"HeartbeatTimeout", "IdleTimeout"}

\* No half exists before the split.
PhaseInv ==
    /\ u.phase \in {"unified", "split"}
    /\ u.phase = "unified" => drv.pc = "unborn" /\ rd.pc = "unborn" /\ wr.pc = "unborn"

\* An open stream reads; one that cleans up after the peer's Close is closed already.
StateInv ==
    u.phase = "unified" =>
      /\ u.pc \in {"read", "recover"} => u.state # "Closed"
      /\ u.then = "finish" => u.state = "Closed"

\* A frame is half written only while its flush runs or once nothing more will be written.
HalfInv ==
    /\ ~net.torn
    /\ (u.phase = "unified" /\ net.partial) =>
         (u.pc = "flush" /\ u.write_buf # <<>>) \/ u.state = "Closed"
    /\ (u.phase = "split" /\ net.partial) =>
         \/ drv.pc \in {"write", "closing"} /\ Bytes(drv.frame) # <<>>
         \/ drv.pc = "done" \/ (drv.pc = "top" /\ sh.status = "Closed")

\* ... unless the application dropped a call half way through a frame.
WholeInv == StateInv /\ (seen.cut \/ HalfInv)

\* A timeout is in none of the places that report it before the transport writer is
\* released.
TimeoutInv ==
    /\ ~drv.hasty
    /\ \/ drv.released
       \/ /\ sh.terminal \notin Timeouts /\ sh.notice \notin Timeouts
          /\ \A r \in wr.results : r.result \notin Timeouts
          /\ u.phase = "split" => seen.ended \notin Timeouts

\* The read past the deadline is the one post_expiry stands for; a batch with a Close is
\* known to have one; the close timer runs only while closing.
BudgetInv ==
    /\ u.post_expiry => seen.late_reads = 1
    /\ ~u.post_expiry => seen.late_reads = 0
    /\ ~seen.late_pong
    /\ u.phase = "unified" =>
         /\ "close" \in due => u.closing
         /\ HasClose(u.pending) => u.batch_has_close

\* The frames of this run's script, and those that are messages.
Sent == {net.script[i] : i \in 1 .. Len(net.script)}
Whole == [kind : Kinds \ {"frag", "bad"}, id : Nat]

\* The script is numbered; what is read has arrived.
NetInv ==
    /\ net.script \in Seq(Frames) /\ \A i \in 1 .. Len(net.script) : net.script[i].id = i
    /\ net.arrived \in 0 .. Len(net.script) /\ net.read \in 0 .. net.arrived

\* The script stays, and reading moves towards what has arrived.
NetKept ==
    /\ net'.script = net.script /\ net'.arrived = net.arrived
    /\ net'.read \in net.read .. net.arrived

\* The stream holds frames of the script, its batch messages only.
StreamTypes ==
    /\ u.pending \in Seq(Sent \cap Whole) /\ u.read_buf \in Seq(Sent)
    /\ u.then \in {"pong", "finish"} => u.msg \in Sent \cap Whole

\* What the application saw.
SeenTypes ==
    /\ seen.delivered \in Seq(Nat) /\ seen.committed \in Seq(Nat)
    /\ seen.split_at \in 0 .. Len(seen.delivered)

\* The steps of the unified stream.
StreamStep ==
    \/ next_ \/ flush_ \/ drop_call
    \/ \E item \in setup.items : send(item)
    \/ \E d \in {"ping", "pong", "idle", "close", "recovery"} : time_passes(d)

\* What handle_deadline does: it starts the flush of a Ping or of a Close.
DeadlineStep(n, st) ==
    /\ Record(u', UFields) /\ Record(net', NetFields)
    /\ u'.pc = "flush" /\ u'.phase = st.phase
    /\ (u'.state = "Closed" => st.state = "Closed")
    /\ u'.pending = st.pending /\ u'.batch_has_close = st.batch_has_close
    /\ u'.post_expiry = st.post_expiry /\ (st.closing => u'.closing)
    /\ u'.then \notin {"pong", "finish"} /\ u'.read_buf = st.read_buf
    /\ u'.parse_error = st.parse_error
    /\ net'.partial = n.partial /\ (~n.partial => (net'.torn => n.torn))
    /\ net'.script = n.script /\ net'.arrived = n.arrived /\ net'.read = n.read
    /\ due' \subseteq due

\* handle_deadline only queues a frame and starts its flush.
LEMMA DeadlineFlush ==
    ASSUME NEW n, NEW deadline, NEW st, Record(n, NetFields), Record(st, UFields),
           handle_deadline(n, deadline, st)
    PROVE  DeadlineStep(n, st)
<1>1. ASSUME NEW buf, net' = Begun(n, buf)
      PROVE  /\ Record(net', NetFields)
             /\ net'.partial = n.partial /\ (~n.partial => (net'.torn => n.torn))
             /\ net'.script = n.script /\ net'.arrived = n.arrived /\ net'.read = n.read
  BY <1>1 DEF Begun, Record, NetFields
<1>2. /\ Record(net', NetFields)
      /\ net'.partial = n.partial /\ (~n.partial => (net'.torn => n.torn))
      /\ net'.script = n.script /\ net'.arrived = n.arrived /\ net'.read = n.read
  <2>1. PICK buf : net' = Begun(n, buf)
    BY DEF handle_deadline, Flush
  <2> QED
    BY <1>1, <2>1
<1>3. CASE deadline = "ping"
  <2>1. PICK bound, buf, pings :
          u' = [st EXCEPT !.write_buf = buf, !.hb = "queued", !.pings = pings,
                          !.pc = "flush", !.bound = bound, !.then = "ping"]
    BY <1>3 DEF handle_deadline, Flush
  <2>2. due' \subseteq due
    BY <1>3 DEF handle_deadline
  <2> QED
    BY <1>2, <2>1, <2>2 DEF DeadlineStep, Record, UFields
<1>4. CASE deadline # "ping"
  <2>1. PICK buf :
          u' = [st EXCEPT !.hb = "off", !.closing = TRUE, !.state = "CloseSent", !.write_buf = buf,
                          !.msg = NoFrame, !.pc = "flush", !.bound = "close",
                          !.then = TimeoutError(deadline)]
    BY <1>4 DEF handle_deadline, Flush, begin_closing
  <2>2. due' \subseteq due
    BY <1>4 DEF handle_deadline
  <2>3. TimeoutError(deadline) \notin {"pong", "finish"}
    BY DEF TimeoutError
  <2> QED
    BY <1>2, <2>1, <2>2, <2>3 DEF DeadlineStep, Record, UFields
<1> QED
  BY <1>3, <1>4

\* A step of the unified stream keeps the shapes and the phase.
LEMMA StreamShape ==
    ASSUME Record(u, UFields), Record(net, NetFields), Record(seen, SeenFields), StreamStep
    PROVE  /\ Record(u', UFields) /\ Record(net', NetFields) /\ Record(seen', SeenFields)
           /\ u.phase = "unified" /\ u'.phase = "unified" /\ setup' = setup
           /\ seen.cut => seen'.cut
<1> DEFINE Kept == /\ Record(u', UFields) /\ Record(net', NetFields) /\ Record(seen', SeenFields)
                   /\ u.phase = "unified" /\ u'.phase = "unified" /\ setup' = setup
                   /\ seen.cut => seen'.cut
<1>1. ASSUME call_next PROVE Kept
  BY <1>1
  DEF call_next, At, Record, UFields, NetFields, SeenFields
<1>2. ASSUME next_closed PROVE Kept
  BY <1>2
  DEF next_closed, At, Return, Ended, Record, UFields, NetFields, SeenFields
<1>3. ASSUME next_message PROVE Kept
  BY <1>3, ZenonT(60)
  DEF next_message, Accepting, At, Popped, Heard, may_pong, Expired, Flush, Return, Delivered,
      Begun, Record, UFields, NetFields, SeenFields
<1>4. ASSUME next_close PROVE Kept
  <2>1. Record(net', NetFields) /\ Record(seen', SeenFields) /\ setup' = setup
        /\ (seen.cut => seen'.cut)
    BY <1>4 DEF next_close, Flush, Begun, Return, Delivered, Record, UFields, NetFields, SeenFields
  <2>2. Record(u', UFields) /\ u.phase = "unified" /\ u'.phase = "unified"
    BY <1>4, ZenonT(60) DEF next_close, Accepting, At, Popped, Heard, begin_closing, close_published, Return,
       Delivered, Flush, Begun, Record, UFields, NetFields, SeenFields
  <2> QED BY <2>1, <2>2
<1>5. ASSUME next_error PROVE Kept
  BY <1>5
  DEF next_error, Waiting, At, Return, Ended, Record, UFields, NetFields, SeenFields
<1>6. ASSUME next_deadline_passed PROVE Kept
  <2>1. DeadlineStep(net, u)
    BY <1>6, DeadlineFlush DEF next_deadline_passed
  <2> QED
    BY <1>6, <2>1 DEF next_deadline_passed, Waiting, At, Record, UFields, NetFields, SeenFields,
       DeadlineStep
<1>7. ASSUME process_read_buf PROVE Kept
  BY <1>7
  DEF process_read_buf, Parsing, Waiting, At, Record, UFields, NetFields, SeenFields
<1>8. ASSUME next_expired PROVE Kept
  BY <1>8, ZenonT(60)
  DEF next_expired, Parsing, Waiting, At, Return, Ended, Record, UFields, NetFields, SeenFields
<1>9. ASSUME next_read PROVE Kept
  BY <1>9
  DEF next_read, Parsing, Waiting, At, Expired, late_read_taken, Record, UFields, NetFields,
      SeenFields
<1>10. ASSUME read_completes PROVE Kept
  BY <1>10, ZenonT(60)
  DEF read_completes, At, Ready, ReadResult, Return, Ended, Record, UFields, NetFields, SeenFields
<1>11. ASSUME read_abandoned PROVE Kept
  <2>1. CASE u.bound = "close"
    BY <1>11, <2>1 DEF read_abandoned, At, Return, Ended, Record, UFields, NetFields, SeenFields
  <2>2. CASE u.bound # "close"
    <3>1. DeadlineStep(net, u)
      BY <1>11, <2>2, DeadlineFlush DEF read_abandoned
    <3> QED
      BY <1>11, <2>2, <3>1 DEF read_abandoned, At, Return, Ended, Record, UFields, NetFields,
         SeenFields, DeadlineStep
  <2> QED
    BY <2>1, <2>2
<1>12. ASSUME read_cancelled PROVE Kept
  BY <1>12
  DEF read_cancelled, At, Record, UFields, NetFields, SeenFields
<1>13. ASSUME read_recovered PROVE Kept
  <2> DEFINE n == [net EXCEPT !.read = net.arrived]
             st == [u EXCEPT !.read_buf = SubSeq(net.script, net.read + 1, net.arrived)]
  <2>1. Record(n, NetFields) /\ Record(st, UFields) /\ n.partial = net.partial /\ n.torn = net.torn
    BY DEF Record, NetFields, UFields
  <2>2. /\ st.phase = u.phase /\ st.state = u.state /\ st.pending = u.pending
        /\ st.batch_has_close = u.batch_has_close /\ st.post_expiry = u.post_expiry
        /\ st.closing = u.closing
    BY DEF Record, UFields
  <2>3. handle_deadline(n, "ping", st)
    BY <1>13 DEF read_recovered
  <2> HIDE DEF n, st
  <2>4. DeadlineStep(n, st)
    BY <2>1, <2>3, DeadlineFlush
  <2> QED
    BY <1>13, <2>1, <2>2, <2>4 DEF read_recovered, At, Record, UFields, NetFields, SeenFields,
       DeadlineStep
<1>14. ASSUME recovery_expires PROVE Kept
  <2>1. DeadlineStep(net, u)
    BY <1>14, DeadlineFlush DEF recovery_expires
  <2> QED
    BY <1>14, <2>1 DEF recovery_expires, At, Record, UFields, NetFields, SeenFields, DeadlineStep
<1>15. ASSUME flush_part PROVE Kept
  BY <1>15
  DEF flush_part, At, HalfWritten, Record, UFields, NetFields, SeenFields
<1>16. ASSUME flush_completes PROVE Kept
  BY <1>16, ZenonT(60)
  DEF flush_completes, At, Return, Delivered, Written, Record, UFields, NetFields, SeenFields
<1>17. ASSUME flush_stops PROVE Kept
  BY <1>17
  DEF flush_stops, At, FinishResult, Return, failed_flush, Delivered, Ended, Record, UFields,
      NetFields, SeenFields
<1>18. ASSUME shutdown_ends PROVE Kept
  BY <1>18, ZenonT(60)
  DEF shutdown_ends, At, FinishResult, Return, Delivered, Ended, Record, UFields, NetFields,
      SeenFields
<1>19. ASSUME drop_call PROVE Kept
  <2>1. Record(u', UFields) /\ u.phase = "unified" /\ u'.phase = "unified" /\ setup' = setup
    BY <1>19 DEF drop_call, Return, Record, UFields
  <2>2. Record(net', NetFields)
    BY <1>19 DEF drop_call, DroppedWrites, Written, Record, NetFields
  <2>3. Record(seen', SeenFields) /\ (seen.cut => seen'.cut)
    BY <1>19 DEF drop_call, Record, SeenFields
  <2> QED
    BY <2>1, <2>2, <2>3
<1>20. ASSUME NEW item, send(item) PROVE Kept
  BY <1>20, ZenonT(60)
  DEF send, At, begin_closing, Flush, Begun, Record, UFields, NetFields, SeenFields
<1>21. ASSUME NEW d, time_passes(d) PROVE Kept
  BY <1>21
  DEF time_passes, Record, UFields, NetFields, SeenFields
<1> QED
  BY <1>1, <1>2, <1>3, <1>4, <1>5, <1>6, <1>7, <1>8, <1>9, <1>10, <1>11, <1>12, <1>13, <1>14,
     <1>15, <1>16, <1>17, <1>18, <1>19, <1>20, <1>21 DEF StreamStep, next_, flush_

\* ... no frame is torn ...
LEMMA StreamWhole ==
    ASSUME Record(u, UFields), Record(net, NetFields), WholeInv, seen.cut => seen'.cut,
           Record(seen, SeenFields), StreamStep, UNCHANGED <<drv, sh>>
    PROVE  WholeInv'
<1>1. ASSUME call_next PROVE WholeInv'
  BY <1>1
  DEF call_next, At, WholeInv, StateInv, HalfInv, Record, UFields, NetFields
<1>2. ASSUME next_closed PROVE WholeInv'
  BY <1>2
  DEF next_closed, At, Return, Ended, WholeInv, StateInv, HalfInv, Record, UFields, NetFields
<1>3. ASSUME next_message PROVE WholeInv'
  BY <1>3
  DEF next_message, Accepting, At, Popped, Heard, may_pong, Expired, Flush, Return, Delivered,
      Begun, WholeInv, StateInv, HalfInv, Record, UFields, NetFields
<1>4. ASSUME next_close PROVE WholeInv'
  BY <1>4, ZenonT(60)
  DEF next_close, Accepting, At, Popped, Heard, begin_closing, close_published, Return, Delivered,
      Flush, Begun, WholeInv, StateInv, HalfInv, Record, UFields, NetFields
<1>5. ASSUME next_error PROVE WholeInv'
  BY <1>5
  DEF next_error, Waiting, At, Return, Ended, WholeInv, StateInv, HalfInv, Record, UFields, NetFields
<1>6. ASSUME next_deadline_passed PROVE WholeInv'
  <2>1. DeadlineStep(net, u)
    BY <1>6, DeadlineFlush DEF next_deadline_passed
  <2> QED
    BY <1>6, <2>1 DEF next_deadline_passed, Waiting, At, WholeInv, StateInv, HalfInv, Record, UFields, NetFields,
       DeadlineStep
<1>7. ASSUME process_read_buf PROVE WholeInv'
  BY <1>7
  DEF process_read_buf, Parsing, Waiting, At, WholeInv, StateInv, HalfInv, Record, UFields, NetFields
<1>8. ASSUME next_expired PROVE WholeInv'
  BY <1>8
  DEF next_expired, Parsing, Waiting, At, Return, Ended, WholeInv, StateInv, HalfInv, Record, UFields, NetFields
<1>9. ASSUME next_read PROVE WholeInv'
  BY <1>9
  DEF next_read, Parsing, Waiting, At, Expired, late_read_taken, WholeInv, StateInv, HalfInv, Record, UFields,
      NetFields
<1>10. ASSUME read_completes PROVE WholeInv'
  BY <1>10
  DEF read_completes, At, Ready, ReadResult, Return, Ended, WholeInv, StateInv, HalfInv, Record, UFields, NetFields
<1>11. ASSUME read_abandoned PROVE WholeInv'
  <2>1. CASE u.bound = "close"
    BY <1>11, <2>1 DEF read_abandoned, At, Return, Ended, WholeInv, StateInv, HalfInv, Record, UFields, NetFields
  <2>2. CASE u.bound # "close"
    <3>1. DeadlineStep(net, u)
      BY <1>11, <2>2, DeadlineFlush DEF read_abandoned
    <3> QED
      BY <1>11, <2>2, <3>1 DEF read_abandoned, At, Return, Ended, WholeInv, StateInv, HalfInv, Record, UFields,
         NetFields, DeadlineStep
  <2> QED
    BY <2>1, <2>2
<1>12. ASSUME read_cancelled PROVE WholeInv'
  BY <1>12
  DEF read_cancelled, At, WholeInv, StateInv, HalfInv, Record, UFields, NetFields
<1>13. ASSUME read_recovered PROVE WholeInv'
  <2> DEFINE n == [net EXCEPT !.read = net.arrived]
             st == [u EXCEPT !.read_buf = SubSeq(net.script, net.read + 1, net.arrived)]
  <2>1. Record(n, NetFields) /\ Record(st, UFields) /\ n.partial = net.partial /\ n.torn = net.torn
    BY DEF Record, NetFields, UFields
  <2>2. /\ st.phase = u.phase /\ st.state = u.state /\ st.pending = u.pending
        /\ st.batch_has_close = u.batch_has_close /\ st.post_expiry = u.post_expiry
        /\ st.closing = u.closing
    BY DEF Record, UFields
  <2>3. handle_deadline(n, "ping", st)
    BY <1>13 DEF read_recovered
  <2> HIDE DEF n, st
  <2>4. DeadlineStep(n, st)
    BY <2>1, <2>3, DeadlineFlush
  <2> QED
    BY <1>13, <2>1, <2>2, <2>4 DEF read_recovered, At, WholeInv, StateInv, HalfInv, Record, UFields, NetFields,
       DeadlineStep
<1>14. ASSUME recovery_expires PROVE WholeInv'
  <2>1. DeadlineStep(net, u)
    BY <1>14, DeadlineFlush DEF recovery_expires
  <2> QED
    BY <1>14, <2>1 DEF recovery_expires, At, WholeInv, StateInv, HalfInv, Record, UFields, NetFields, DeadlineStep
<1>15. ASSUME flush_part PROVE WholeInv'
  BY <1>15
  DEF flush_part, At, HalfWritten, WholeInv, StateInv, HalfInv, Record, UFields, NetFields
<1>16. ASSUME flush_completes PROVE WholeInv'
  BY <1>16, ZenonT(60)
  DEF flush_completes, At, Return, Delivered, Written, WholeInv, StateInv, HalfInv, Record, UFields, NetFields
<1>17. ASSUME flush_stops PROVE WholeInv'
  BY <1>17
  DEF flush_stops, At, FinishResult, Return, failed_flush, Delivered, Ended, WholeInv, StateInv, HalfInv, Record,
      UFields, NetFields
<1>18. ASSUME shutdown_ends PROVE WholeInv'
  BY <1>18, ZenonT(60)
  DEF shutdown_ends, At, FinishResult, Return, Delivered, Ended, WholeInv, StateInv, HalfInv, Record, UFields,
      NetFields
<1>19. ASSUME drop_call PROVE WholeInv'
  <2>1. u'.pc = "idle" /\ u'.then = "none" /\ u'.state = u.state /\ u'.phase = u.phase
    BY <1>19 DEF drop_call, Return, Record, UFields
  <2>2. net'.torn = net.torn /\ (net'.partial => net.partial)
    BY <1>19 DEF drop_call, DroppedWrites, Written, Record, NetFields
  <2>3. u.then # "finish" /\ net'.partial => seen'.cut
    BY <1>19 DEF drop_call, Record, SeenFields
  <2>4. u.phase = "unified"
    BY <1>19 DEF drop_call
  <2> QED
    BY <2>1, <2>2, <2>3, <2>4 DEF WholeInv, StateInv, HalfInv
<1>20. ASSUME NEW item, send(item) PROVE WholeInv'
  BY <1>20
  DEF send, At, begin_closing, Flush, Begun, WholeInv, StateInv, HalfInv, Record, UFields, NetFields
<1>21. ASSUME NEW d, time_passes(d) PROVE WholeInv'
  BY <1>21
  DEF time_passes, WholeInv, StateInv, HalfInv, Record, UFields, NetFields
<1> QED
  BY <1>1, <1>2, <1>3, <1>4, <1>5, <1>6, <1>7, <1>8, <1>9, <1>10, <1>11, <1>12, <1>13, <1>14,
     <1>15, <1>16, <1>17, <1>18, <1>19, <1>20, <1>21 DEF StreamStep, next_, flush_

\* ... and the closing budget is kept.
LEMMA StreamBudget ==
    ASSUME Record(u, UFields), Record(seen, SeenFields), Record(net, NetFields), BudgetInv, StreamStep,
           u.pending \in Seq(Frames), u.phase = "unified", u'.phase = "unified"
    PROVE  BudgetInv'
<1>1. ASSUME call_next PROVE BudgetInv'
  <2>1. /\ u'.post_expiry = u.post_expiry /\ u'.pending = u.pending
        /\ u'.batch_has_close = u.batch_has_close /\ (u.closing => u'.closing)
    BY <1>1 DEF call_next, At, Record, UFields
  <2>2. seen'.late_reads = seen.late_reads /\ seen'.late_pong = seen.late_pong /\ due' = due
    BY <1>1 DEF call_next, At, Record, SeenFields
  <2> QED
    BY <1>1, <2>1, <2>2 DEF call_next, BudgetInv, At
<1>2. ASSUME next_closed PROVE BudgetInv'
  <2>1. /\ u'.post_expiry = u.post_expiry /\ u'.pending = u.pending
        /\ u'.batch_has_close = u.batch_has_close /\ (u.closing => u'.closing)
    BY <1>2 DEF next_closed, At, Return, Ended, Record, UFields
  <2>2. seen'.late_reads = seen.late_reads /\ seen'.late_pong = seen.late_pong /\ due' = due
    BY <1>2 DEF next_closed, At, Return, Ended, Record, SeenFields
  <2> QED
    BY <1>2, <2>1, <2>2 DEF next_closed, BudgetInv, At
<1>3. ASSUME next_message PROVE BudgetInv'
  <2>1. /\ u'.post_expiry = u.post_expiry /\ u'.pending = Tail(u.pending)
        /\ u'.batch_has_close = u.batch_has_close /\ u'.closing = u.closing
    <3>1. /\ Record(Popped, UFields) /\ Popped.post_expiry = u.post_expiry
          /\ Popped.pending = Tail(u.pending) /\ Popped.batch_has_close = u.batch_has_close
          /\ Popped.closing = u.closing
      BY DEF Popped, Record, UFields
    <3> DEFINE st == [Popped EXCEPT
                        !.write_buf = Append(@, [kind |-> "pong", id |-> Head(u.pending).id]),
                        !.msg = Head(u.pending)]
    <3>2. Return(Popped) \/ Flush(net, st, flush_control_bound(Popped), "pong")
      BY <1>3 DEF next_message
    <3> QED
      BY <3>1, <3>2 DEF Return, Flush, Record, UFields
  <2>2. u.pending \in Seq(Frames) /\ u.pending # <<>> /\ due' \subseteq due
    BY <1>3 DEF next_message, Accepting, Heard, InboundDue
  <2>3. HasClose(Tail(u.pending)) => HasClose(u.pending)
    BY <2>2 DEF HasClose
  <2>4. seen'.late_reads = seen.late_reads /\ ~seen'.late_pong
    <3>1. CASE Head(u.pending).kind = "ping" /\ may_pong(Popped)
      <4>1. ~u.batch_has_close /\ ~(u.closing /\ "close" \in due)
        BY <3>1 DEF may_pong, Popped, Expired, Record, UFields
      <4>2. "close" \notin due /\ ~HasClose(u.pending)
        BY <4>1 DEF BudgetInv
      <4>3. seen' = [seen EXCEPT !.late_pong = @ \/ "close" \in due
                       \/ \E i \in DOMAIN u.pending : u.pending[i].kind = "close"]
        BY <1>3, <3>1 DEF next_message
      <4> QED
        BY <4>2, <4>3 DEF HasClose, BudgetInv, Record, SeenFields
    <3>2. CASE ~(Head(u.pending).kind = "ping" /\ may_pong(Popped))
      BY <1>3, <3>2 DEF next_message, Delivered, BudgetInv, Record, SeenFields
    <3> QED
      BY <3>1, <3>2
  <2> QED
    BY <2>1, <2>2, <2>3, <2>4 DEF BudgetInv
<1>4. ASSUME next_close PROVE BudgetInv'
  <2>1. u'.post_expiry = u.post_expiry /\ u'.pending = <<>> /\ u'.closing
    BY <1>4, ZenonT(60) DEF next_close, Popped, begin_closing, close_published, Return, Flush, Record, UFields
  <2>2. seen'.late_reads = seen.late_reads /\ seen'.late_pong = seen.late_pong
    BY <1>4 DEF next_close, Delivered, Record, SeenFields
  <2>3. ~HasClose(<<>>)
    BY DEF HasClose
  <2> QED
    BY <2>1, <2>2, <2>3 DEF BudgetInv
<1>5. ASSUME next_error PROVE BudgetInv'
  <2>1. /\ u'.post_expiry = u.post_expiry /\ u'.pending = u.pending
        /\ u'.batch_has_close = u.batch_has_close /\ (u.closing => u'.closing)
    BY <1>5 DEF next_error, Waiting, At, Return, Ended, Record, UFields
  <2>2. seen'.late_reads = seen.late_reads /\ seen'.late_pong = seen.late_pong /\ due' = due
    BY <1>5 DEF next_error, Waiting, At, Return, Ended, Record, SeenFields
  <2> QED
    BY <1>5, <2>1, <2>2 DEF next_error, BudgetInv, At
<1>6. ASSUME next_deadline_passed PROVE BudgetInv'
  <2>1. DeadlineStep(net, u)
    BY <1>6, DeadlineFlush DEF next_deadline_passed
  <2> QED
    BY <1>6, <2>1 DEF next_deadline_passed, Waiting, At, BudgetInv, Record, UFields, SeenFields,
       DeadlineStep
<1>7. ASSUME process_read_buf PROVE BudgetInv'
  <2>1. /\ u'.post_expiry = u.post_expiry /\ u'.closing = u.closing
        /\ u'.batch_has_close = HasClose(u'.pending)
    BY <1>7 DEF process_read_buf, Record, UFields
  <2>2. seen' = seen /\ due' \subseteq due
    BY <1>7 DEF process_read_buf, InboundDue
  <2> QED
    BY <2>1, <2>2 DEF BudgetInv
<1>8. ASSUME next_expired PROVE BudgetInv'
  <2>1. /\ u'.post_expiry = u.post_expiry /\ u'.pending = u.pending
        /\ u'.batch_has_close = u.batch_has_close /\ (u.closing => u'.closing)
    BY <1>8 DEF next_expired, Parsing, Waiting, At, Return, Ended, Record, UFields
  <2>2. seen'.late_reads = seen.late_reads /\ seen'.late_pong = seen.late_pong /\ due' = due
    BY <1>8 DEF next_expired, Parsing, Waiting, At, Return, Ended, Record, SeenFields
  <2> QED
    BY <1>8, <2>1, <2>2 DEF next_expired, BudgetInv, At
<1>9. ASSUME next_read PROVE BudgetInv'
  <2>1. /\ u'.pending = u.pending /\ u'.batch_has_close = u.batch_has_close
        /\ u'.closing = u.closing /\ due' = due
        /\ (u'.post_expiry <=> u.post_expiry \/ Expired)
    BY <1>9 DEF next_read, late_read_taken, Record, UFields
  <2>2. ~seen'.late_pong
    BY <1>9 DEF next_read, BudgetInv, Record, SeenFields
  <2>3. CASE Expired
    <3>1. ~u.post_expiry /\ seen'.late_reads = seen.late_reads + 1
      BY <1>9, <2>3 DEF next_read, Record, SeenFields
    <3> QED
      BY <2>1, <2>2, <2>3, <3>1 DEF BudgetInv
  <2>4. CASE ~Expired
    <3>1. seen'.late_reads = seen.late_reads + 0
      BY <1>9, <2>4 DEF next_read, Record, SeenFields
    <3> QED
      BY <2>1, <2>2, <2>4, <3>1 DEF BudgetInv
  <2> QED
    BY <2>3, <2>4
<1>10. ASSUME read_completes PROVE BudgetInv'
  <2>1. /\ u'.post_expiry = u.post_expiry /\ u'.pending = u.pending
        /\ u'.batch_has_close = u.batch_has_close /\ (u.closing => u'.closing)
    BY <1>10, ZenonT(60) DEF read_completes, At, Ready, ReadResult, Return, Ended, Record, UFields
  <2>2. seen'.late_reads = seen.late_reads /\ seen'.late_pong = seen.late_pong /\ due' = due
    BY <1>10 DEF read_completes, At, Ready, ReadResult, Return, Ended, Record, SeenFields
  <2> QED
    BY <1>10, <2>1, <2>2 DEF read_completes, BudgetInv, At
<1>11. ASSUME read_abandoned PROVE BudgetInv'
  <2>1. CASE u.bound = "close"
    BY <1>11, <2>1, ZenonT(60) DEF read_abandoned, At, Return, Ended, BudgetInv, Record, UFields, SeenFields
  <2>2. CASE u.bound # "close"
    <3>1. DeadlineStep(net, u)
      BY <1>11, <2>2, DeadlineFlush DEF read_abandoned
    <3> QED
      BY <1>11, <2>2, <3>1 DEF read_abandoned, At, Return, Ended, BudgetInv, Record, UFields,
         SeenFields, DeadlineStep
  <2> QED
    BY <2>1, <2>2
<1>12. ASSUME read_cancelled PROVE BudgetInv'
  <2>1. /\ u'.post_expiry = u.post_expiry /\ u'.pending = u.pending
        /\ u'.batch_has_close = u.batch_has_close /\ (u.closing => u'.closing)
    BY <1>12 DEF read_cancelled, At, Record, UFields
  <2>2. seen'.late_reads = seen.late_reads /\ seen'.late_pong = seen.late_pong /\ due' = due
    BY <1>12 DEF read_cancelled, At, Record, SeenFields
  <2> QED
    BY <1>12, <2>1, <2>2 DEF read_cancelled, BudgetInv, At
<1>13. ASSUME read_recovered PROVE BudgetInv'
  <2> DEFINE n == [net EXCEPT !.read = net.arrived]
             st == [u EXCEPT !.read_buf = SubSeq(net.script, net.read + 1, net.arrived)]
  <2>1. Record(n, NetFields) /\ Record(st, UFields) /\ n.partial = net.partial /\ n.torn = net.torn
    BY DEF Record, NetFields, UFields
  <2>2. /\ st.phase = u.phase /\ st.state = u.state /\ st.pending = u.pending
        /\ st.batch_has_close = u.batch_has_close /\ st.post_expiry = u.post_expiry
        /\ st.closing = u.closing
    BY DEF Record, UFields
  <2>3. handle_deadline(n, "ping", st)
    BY <1>13 DEF read_recovered
  <2> HIDE DEF n, st
  <2>4. DeadlineStep(n, st)
    BY <2>1, <2>3, DeadlineFlush
  <2> QED
    BY <1>13, <2>1, <2>2, <2>4 DEF read_recovered, At, BudgetInv, Record, UFields, SeenFields,
       DeadlineStep
<1>14. ASSUME recovery_expires PROVE BudgetInv'
  <2>1. DeadlineStep(net, u)
    BY <1>14, DeadlineFlush DEF recovery_expires
  <2> QED
    BY <1>14, <2>1 DEF recovery_expires, At, BudgetInv, Record, UFields, SeenFields, DeadlineStep
<1>15. ASSUME flush_part PROVE BudgetInv'
  <2>1. /\ u'.post_expiry = u.post_expiry /\ u'.pending = u.pending
        /\ u'.batch_has_close = u.batch_has_close /\ (u.closing => u'.closing)
    BY <1>15 DEF flush_part, At, HalfWritten, Record, UFields
  <2>2. seen'.late_reads = seen.late_reads /\ seen'.late_pong = seen.late_pong /\ due' = due
    BY <1>15 DEF flush_part, At, HalfWritten, Record, SeenFields
  <2> QED
    BY <1>15, <2>1, <2>2 DEF flush_part, BudgetInv, At
<1>16. ASSUME flush_completes PROVE BudgetInv'
  <2>1. /\ u'.post_expiry = u.post_expiry /\ u'.pending = u.pending
        /\ u'.batch_has_close = u.batch_has_close /\ (u.closing => u'.closing)
    BY <1>16 DEF flush_completes, At, Return, Delivered, Written, Record, UFields
  <2>2. seen'.late_reads = seen.late_reads /\ seen'.late_pong = seen.late_pong /\ due' = due
    BY <1>16 DEF flush_completes, At, Return, Delivered, Written, Record, SeenFields
  <2> QED
    BY <1>16, <2>1, <2>2 DEF flush_completes, BudgetInv, At
<1>17. ASSUME flush_stops PROVE BudgetInv'
  <2>1. /\ u'.post_expiry = u.post_expiry /\ u'.pending = u.pending
        /\ u'.batch_has_close = u.batch_has_close /\ (u.closing => u'.closing)
    BY <1>17, ZenonT(60) DEF flush_stops, At, FinishResult, Return, failed_flush, Delivered, Ended, Record,
       UFields
  <2>2. seen'.late_reads = seen.late_reads /\ seen'.late_pong = seen.late_pong /\ due' = due
    BY <1>17 DEF flush_stops, At, FinishResult, Return, failed_flush, Delivered, Ended, Record,
       SeenFields
  <2> QED
    BY <1>17, <2>1, <2>2 DEF flush_stops, BudgetInv, At
<1>18. ASSUME shutdown_ends PROVE BudgetInv'
  <2>1. /\ u'.post_expiry = u.post_expiry /\ u'.pending = u.pending
        /\ u'.batch_has_close = u.batch_has_close /\ (u.closing => u'.closing)
    BY <1>18, ZenonT(60) DEF shutdown_ends, At, FinishResult, Return, Delivered, Ended, Record, UFields
  <2>2. seen'.late_reads = seen.late_reads /\ seen'.late_pong = seen.late_pong /\ due' = due
    BY <1>18 DEF shutdown_ends, At, FinishResult, Return, Delivered, Ended, Record, SeenFields
  <2> QED
    BY <1>18, <2>1, <2>2 DEF shutdown_ends, BudgetInv, At
<1>19. ASSUME drop_call PROVE BudgetInv'
  <2>1. /\ u'.post_expiry = u.post_expiry /\ u'.pending = u.pending
        /\ u'.batch_has_close = u.batch_has_close /\ (u.closing => u'.closing)
    BY <1>19 DEF drop_call, Return, Record, UFields
  <2>2. seen'.late_reads = seen.late_reads /\ seen'.late_pong = seen.late_pong /\ due' = due
    BY <1>19 DEF drop_call, Return, Record, SeenFields
  <2> QED
    BY <1>19, <2>1, <2>2 DEF drop_call, BudgetInv, At
<1>20. ASSUME NEW item, send(item) PROVE BudgetInv'
  <2>1. /\ u'.post_expiry = u.post_expiry /\ u'.pending = u.pending
        /\ u'.batch_has_close = u.batch_has_close /\ (u.closing => u'.closing)
    BY <1>20, ZenonT(60) DEF send, At, begin_closing, Flush, Begun, Record, UFields
  <2>2. seen'.late_reads = seen.late_reads /\ seen'.late_pong = seen.late_pong /\ due' = due
    BY <1>20 DEF send, At, begin_closing, Flush, Begun, Record, SeenFields
  <2> QED
    BY <1>20, <2>1, <2>2 DEF send, BudgetInv, At
<1>21. ASSUME NEW d, time_passes(d) PROVE BudgetInv'
  BY <1>21
  DEF time_passes, BudgetInv, Record, UFields, SeenFields
<1> QED
  BY <1>1, <1>2, <1>3, <1>4, <1>5, <1>6, <1>7, <1>8, <1>9, <1>10, <1>11, <1>12, <1>13, <1>14,
     <1>15, <1>16, <1>17, <1>18, <1>19, <1>20, <1>21 DEF StreamStep, next_, flush_

-----------------------------------------------------------------------------
(* The split stream *)

\* What a step of the reader does to the state it shares.
ReaderEffect ==
    /\ Record(net', NetFields) /\ Record(seen', SeenFields) /\ Record(sh', ShFields)
    /\ Record(rd', RdFields) /\ rd.pc # "unborn"
    /\ UNCHANGED <<setup, u, due, wr, drv, app>>
    /\ net'.partial = net.partial /\ net'.torn = net.torn
    /\ net'.script = net.script /\ net'.arrived = net.arrived
    /\ \/ net'.read = net.read
       \/ \E n \in 1 .. net.arrived - net.read : net'.read = net.read + n
    /\ seen'.late_reads = seen.late_reads /\ seen'.late_pong = seen.late_pong /\ seen'.cut = seen.cut
    /\ seen'.ended \in {seen.ended, sh.terminal, "end", "error", "dropped"}
    /\ sh.status = "Closed" => sh'.status = "Closed"
    /\ sh'.notice \in {sh.notice, "none"}
    /\ sh'.terminal \in {sh.terminal, sh.notice, "ConnectionClosed"}

\* Every step of the reader half has the reader's effect.
LEMMA ReaderSteps ==
    ASSUME Record(net, NetFields), Record(seen, SeenFields), Record(sh, ShFields),
           Record(rd, RdFields), reader_next \/ reader_cancelled \/ reader_dropped
    PROVE  ReaderEffect
<1>1. ASSUME reader_called PROVE ReaderEffect
  BY <1>1 DEF reader_called, Reader, stream, Unread, ReaderEffect, Record, NetFields, SeenFields,
     ShFields, RdFields
<1>2. ASSUME reader_ends PROVE ReaderEffect
  BY <1>2 DEF reader_ends, Reader, Reports, Ended, stream, Unread, ReaderEffect, Record,
     NetFields, SeenFields, ShFields, RdFields
<1>3. ASSUME reader_data PROVE ReaderEffect
  BY <1>3 DEF reader_data, ReaderGoes, Reader, note_inbound, Delivered, stream, Unread,
     ReaderEffect, Record, NetFields, SeenFields, ShFields, RdFields
<1>4. ASSUME reader_control PROVE ReaderEffect
  BY <1>4 DEF reader_control, ReaderGoes, Reader, begin_closing_shared, stream, Unread,
     ReaderEffect, Record, NetFields, SeenFields, ShFields, RdFields
<1>5. ASSUME reader_commits PROVE ReaderEffect
  BY <1>5 DEF reader_commits, Reader, handoff_committed, stream, Unread, ReaderEffect, Record,
     NetFields, SeenFields, ShFields, RdFields
<1>6. ASSUME reader_orphaned PROVE ReaderEffect
  BY <1>6 DEF reader_orphaned, Reader, terminate, stream, Unread, ReaderEffect, Record, NetFields,
     SeenFields, ShFields, RdFields
<1>7. ASSUME reader_meets_error PROVE ReaderEffect
  BY <1>7 DEF reader_meets_error, ReaderGoes, Reader, stream, Unread, ReaderEffect, Record,
     NetFields, SeenFields, ShFields, RdFields
<1>8. ASSUME reader_error PROVE ReaderEffect
  BY <1>8 DEF reader_error, Reader, terminate, Ended, stream, Unread, ReaderEffect, Record,
     NetFields, SeenFields, ShFields, RdFields
<1>9. ASSUME reader_parses PROVE ReaderEffect
  BY <1>9 DEF reader_parses, ReaderGoes, Reader, begin_closing_shared, note_inbound, stream,
     Unread, ReaderEffect, Record, NetFields, SeenFields, ShFields, RdFields
<1>10. ASSUME reader_told PROVE ReaderEffect
  BY <1>10 DEF reader_told, Reader, terminate, stream, Unread, ReaderEffect, Record, NetFields,
     SeenFields, ShFields, RdFields
<1>11. ASSUME reader_reads PROVE ReaderEffect
  BY <1>11 DEF reader_reads, Reader, Unread, ReaderEffect, Record, NetFields, SeenFields,
     ShFields, RdFields
<1>12. ASSUME reader_input_ends PROVE ReaderEffect
  BY <1>12 DEF reader_input_ends, Reader, terminate, Ended, stream, Unread, ReaderEffect, Record,
     NetFields, SeenFields, ShFields, RdFields
<1>13. ASSUME reader_eof PROVE ReaderEffect
  BY <1>13 DEF reader_eof, Reader, terminate, stream, Unread, ReaderEffect, Record, NetFields,
     SeenFields, ShFields, RdFields
<1>14. ASSUME reader_cancelled PROVE ReaderEffect
  BY <1>14 DEF reader_cancelled, stream, Unread, ReaderEffect, Record, NetFields, SeenFields,
     ShFields, RdFields
<1>15. ASSUME reader_dropped PROVE ReaderEffect
  BY <1>15 DEF reader_dropped, Reader, stream, Unread, ReaderEffect, Record, NetFields,
     SeenFields, ShFields, RdFields
<1> QED
  BY <1>1, <1>2, <1>3, <1>4, <1>5, <1>6, <1>7, <1>8, <1>9, <1>10, <1>11, <1>12, <1>13, <1>14,
     <1>15 DEF reader_next

\* What a step of the writer does to the state it shares.
WriterEffect ==
    /\ Record(seen', SeenFields) /\ Record(sh', ShFields) /\ Record(wr', WrFields)
    /\ wr.pc # "unborn"
    /\ UNCHANGED <<setup, u, net, due, rd, drv, ctl>>
    /\ seen'.late_reads = seen.late_reads /\ seen'.late_pong = seen.late_pong
    /\ seen'.ended = seen.ended /\ seen'.delivered = seen.delivered
    /\ seen'.committed = seen.committed /\ seen'.split_at = seen.split_at
    /\ seen'.discarded = seen.discarded /\ seen'.cut = seen.cut
    /\ sh'.status = sh.status /\ sh'.notice = sh.notice /\ sh'.terminal = sh.terminal
    /\ \A r \in wr'.results : r \in wr.results \/ r.result \in {sh.terminal, "ConnectionClosed"}

\* Every step of the writer half has the writer's effect.
LEMMA WriterSteps ==
    ASSUME Record(seen, SeenFields), Record(sh, ShFields), Record(wr, WrFields),
           writer_send \/ writer_cancelled \/ writer_dropped
    PROVE  WriterEffect
<1>1. ASSUME NEW kind, writer_called(kind) PROVE WriterEffect
  BY <1>1 DEF writer_called, stream, Unwritten, WriterEffect, Record, SeenFields, ShFields, WrFields
<1>2. ASSUME writer_queues PROVE WriterEffect
  <2>1. CASE Result(current_error)
    <3>1. /\ Record(wr', WrFields)
          /\ wr'.results = wr.results \cup {[id |-> wr.item.id, result |-> current_error]}
      BY <2>1 DEF Result, Record, WrFields
    <3>2. current_error \in {sh.terminal, "ConnectionClosed"}
      BY DEF current_error
    <3>3. \A r \in wr'.results : r \in wr.results \/ r.result \in {sh.terminal, "ConnectionClosed"}
      BY <3>1, <3>2
    <3> QED
      BY <1>2, <3>1, <3>3 DEF writer_queues, stream, Unwritten, WriterEffect
  <2>2. CASE ~Result(current_error)
    BY <1>2, <2>2 DEF writer_queues, stream, Unwritten, WriterEffect, Record, WrFields
  <2> QED
    BY <2>1, <2>2
<1>3. ASSUME writer_orphaned PROVE WriterEffect
  <2>1. CASE Result(current_error)
    <3>1. /\ Record(wr', WrFields)
          /\ wr'.results = wr.results \cup {[id |-> wr.item.id, result |-> current_error]}
      BY <2>1 DEF Result, Record, WrFields
    <3>2. current_error \in {sh.terminal, "ConnectionClosed"}
      BY DEF current_error
    <3>3. \A r \in wr'.results : r \in wr.results \/ r.result \in {sh.terminal, "ConnectionClosed"}
      BY <3>1, <3>2
    <3> QED
      BY <1>3, <3>1, <3>3 DEF writer_orphaned, stream, Unwritten, WriterEffect
  <2> QED
    BY <1>3, <2>1 DEF writer_orphaned
<1>4. ASSUME writer_cancelled PROVE WriterEffect
  BY <1>4 DEF writer_cancelled, stream, Unwritten, WriterEffect, Record, SeenFields, ShFields,
     WrFields
<1>5. ASSUME writer_dropped PROVE WriterEffect
  BY <1>5 DEF writer_dropped, stream, Unwritten, WriterEffect, Record, SeenFields, ShFields,
     WrFields
<1> QED
  BY <1>1, <1>2, <1>3, <1>4, <1>5 DEF writer_send

\* The steps of the driver of the split stream.
DriverStep ==
    \/ split_writer_driver \/ await_compio_write
    \/ \E d \in {"ping", "pong", "idle", "close"} : split_time_passes(d)

\* The driver keeps the shapes and touches neither the calls of the unified stream, nor the
\* reader, nor what the application was given.
LEMMA DriverShape ==
    ASSUME Record(net, NetFields), Record(sh, ShFields), Record(wr, WrFields),
           Record(drv, DrvFields), PhaseInv, DriverStep
    PROVE  /\ Record(net', NetFields) /\ Record(sh', ShFields) /\ Record(wr', WrFields)
           /\ Record(drv', DrvFields) /\ UNCHANGED <<setup, u, seen, rd>> /\ u.phase = "split"
           /\ net'.script = net.script /\ net'.arrived = net.arrived /\ net'.read = net.read
           /\ sh.status = "Closed" => sh'.status = "Closed"
<1> DEFINE Kept == /\ Record(net', NetFields) /\ Record(sh', ShFields) /\ Record(wr', WrFields)
                   /\ Record(drv', DrvFields) /\ UNCHANGED <<setup, u, seen, rd>> /\ u.phase = "split"
                   /\ net'.script = net.script /\ net'.arrived = net.arrived /\ net'.read = net.read
                   /\ sh.status = "Closed" => sh'.status = "Closed"
<1>1. ASSUME driver_top PROVE Kept
  BY <1>1 DEF driver_top, Driver, Finish, terminate, begin_closing_shared, Synced, Completed,
     Undriven, PhaseInv, Record, NetFields, ShFields, WrFields, DrvFields
<1>2. ASSUME driver_cancelled PROVE Kept
  BY <1>2 DEF driver_cancelled, Driver, Finish, terminate, begin_closing_shared, Completed,
     Undriven, PhaseInv, Record, NetFields, ShFields, WrFields, DrvFields
<1>3. ASSUME driver_control PROVE Kept
  BY <1>3, ZenonT(60) DEF driver_control, Driver, Finish, terminate, begin_closing_shared, Completed,
     StartWrite, Begun, Undriven, PhaseInv, Record, NetFields, ShFields, WrFields, DrvFields
<1>4. ASSUME driver_application PROVE Kept
  BY <1>4 DEF driver_application, Driver, begin_closing_shared, Completed, StartWrite, Begun,
     Undriven, PhaseInv, Record, NetFields, ShFields, WrFields, DrvFields
<1>5. ASSUME driver_alarm PROVE Kept
  BY <1>5 DEF driver_alarm, Driver, Undriven, PhaseInv, Record, NetFields, ShFields, WrFields,
     DrvFields
<1>6. ASSUME driver_timer PROVE Kept
  BY <1>6 DEF driver_timer, Driver, Finish, terminate, begin_closing_shared, Completed, Synced,
     synced_due, StartWrite, Begun, Undriven, PhaseInv, Record, NetFields, ShFields, WrFields,
     DrvFields
<1>7. ASSUME close_flush_ends PROVE Kept
  BY <1>7 DEF close_flush_ends, Driver, Finish, terminate, begin_closing_shared, Completed,
     Written, Undriven, PhaseInv, Record, NetFields, ShFields, WrFields, DrvFields
<1>8. ASSUME write_part PROVE Kept
  BY <1>8 DEF write_part, HalfWritten, Undriven, PhaseInv, Record, NetFields, ShFields, WrFields,
     DrvFields
<1>9. ASSUME write_completes PROVE Kept
  BY <1>9 DEF write_completes, Driver, Written, Completed, Undriven, PhaseInv, Record, NetFields,
     ShFields, WrFields, DrvFields
<1>10. ASSUME write_hears PROVE Kept
  BY <1>10 DEF write_hears, Blocked, Driver, Synced, Undriven, PhaseInv, Record, NetFields,
     ShFields, WrFields, DrvFields
<1>11. ASSUME write_waits PROVE Kept
  BY <1>11 DEF write_waits, Blocked, Driver, Synced, Undriven, PhaseInv, Record, NetFields,
     ShFields, WrFields, DrvFields
<1>12. ASSUME write_stops PROVE Kept
  BY <1>12 DEF write_stops, Blocked, Driver, write_fails, Finish, terminate, begin_closing_shared,
     Completed, Undriven, PhaseInv, Record, NetFields, ShFields, WrFields, DrvFields
<1>13. ASSUME NEW d, split_time_passes(d) PROVE Kept
  BY <1>13 DEF split_time_passes, PhaseInv, Record, NetFields, ShFields, WrFields, DrvFields
<1> QED
  BY <1>1, <1>2, <1>3, <1>4, <1>5, <1>6, <1>7, <1>8, <1>9, <1>10, <1>11, <1>12, <1>13
     DEF DriverStep, split_writer_driver, await_compio_write

\* A write that starts behind whole frames tears nothing.
LEMMA StartWriteEffect ==
    ASSUME Record(net, NetFields), ~net.partial, ~net.torn, NEW d, NEW pc, NEW frame,
           StartWrite(d, pc, frame)
    PROVE  ~net'.partial /\ ~net'.torn
  BY DEF StartWrite, Begun, Record, NetFields

\* Leaving the loop releases the transport.
LEMMA FinishEffect ==
    ASSUME Record(drv, DrvFields), NEW c, NEW cause, Finish(c, cause)
    PROVE  drv'.pc = "done" /\ drv'.released /\ drv'.hasty = drv.hasty
  BY DEF Finish, Record, DrvFields

\* A completion adds its own result, if any.
LEMMA CompletedEffect ==
    ASSUME Record(wr, WrFields), NEW id, NEW result
    PROVE  \A r \in Completed(id, result).results : r \in wr.results \/ r.result = result
<1>1. CASE wr.pc = "wait" /\ wr.item.id = id
  <2>1. Completed(id, result).results = wr.results \cup {[id |-> id, result |-> result]}
    BY <1>1 DEF Completed, Record, WrFields
  <2> QED
    BY <2>1
<1>2. CASE ~(wr.pc = "wait" /\ wr.item.id = id)
  BY <1>2 DEF Completed
<1> QED
  BY <1>1, <1>2

\* The driver starts no frame behind half a frame.
LEMMA DriverWhole ==
    ASSUME Record(net, NetFields), Record(sh, ShFields), Record(wr, WrFields),
           Record(drv, DrvFields), PhaseInv, DriverStep,
           WholeInv, u.phase = "split", UNCHANGED <<u, seen>>
    PROVE  WholeInv'
<1> SUFFICES ASSUME HalfInv PROVE HalfInv'
  BY DEF WholeInv, StateInv
<1>1. ASSUME driver_top PROVE HalfInv'
  <2>1. CASE sh.status = "Closed"
    <3>1. drv'.pc = "done" /\ net' = net
      BY <1>1, <2>1, FinishEffect DEF driver_top
    <3> QED
      BY <3>1 DEF HalfInv
  <2>2. CASE sh.status # "Closed"
    BY <1>1, <2>2 DEF driver_top, Driver, HalfInv
  <2> QED
    BY <2>1, <2>2
<1>2. ASSUME driver_cancelled PROVE HalfInv'
  <2>1. drv'.pc = "done" /\ net'.torn = net.torn
    BY <1>2, FinishEffect DEF driver_cancelled, Driver, write_fails, Undriven, Written, Record,
       NetFields
  <2> QED
    BY <2>1 DEF HalfInv
<1>3. ASSUME driver_control PROVE HalfInv'
  <2>1. ~net.partial /\ ~net.torn
    BY <1>3 DEF driver_control, Driver, HalfInv
  <2>2. net' = net \/ \E d, pc, frame : StartWrite(d, pc, frame)
    BY <1>3 DEF driver_control
  <2>3. ~net'.partial /\ ~net'.torn
    BY <2>1, <2>2, StartWriteEffect
  <2> QED
    BY <2>3 DEF HalfInv
<1>4. ASSUME driver_application PROVE HalfInv'
  <2>1. ~net.partial /\ ~net.torn
    BY <1>4 DEF driver_application, Driver, HalfInv
  <2>2. net' = net \/ \E d, pc, frame : StartWrite(d, pc, frame)
    BY <1>4 DEF driver_application
  <2>3. ~net'.partial /\ ~net'.torn
    BY <2>1, <2>2, StartWriteEffect
  <2> QED
    BY <2>3 DEF HalfInv
<1>5. ASSUME driver_alarm PROVE HalfInv'
  BY <1>5 DEF driver_alarm, Driver, Undriven, HalfInv, Record, NetFields, ShFields, DrvFields
<1>6. ASSUME driver_timer PROVE HalfInv'
  <2>1. ~net.partial /\ ~net.torn
    BY <1>6 DEF driver_timer, Driver, HalfInv
  <2>2. net' = net \/ \E d, pc, frame : StartWrite(d, pc, frame)
    BY <1>6 DEF driver_timer
  <2>3. ~net'.partial /\ ~net'.torn
    BY <2>1, <2>2, StartWriteEffect
  <2> QED
    BY <2>3 DEF HalfInv
<1>7. ASSUME close_flush_ends PROVE HalfInv'
  <2>1. drv'.pc = "done" /\ net'.torn = net.torn
    BY <1>7, FinishEffect DEF close_flush_ends, Driver, write_fails, Undriven, Written, Record,
       NetFields
  <2> QED
    BY <2>1 DEF HalfInv
<1>8. ASSUME write_part PROVE HalfInv'
  BY <1>8 DEF write_part, HalfWritten, Undriven, HalfInv, Record, NetFields, ShFields, DrvFields
<1>9. ASSUME write_completes PROVE HalfInv'
  BY <1>9 DEF write_completes, Driver, Written, Completed, Undriven, HalfInv, Record, NetFields,
     ShFields, DrvFields
<1>10. ASSUME write_hears PROVE HalfInv'
  BY <1>10 DEF write_hears, Blocked, Driver, Synced, Undriven, HalfInv, Record, NetFields,
     ShFields, DrvFields
<1>11. ASSUME write_waits PROVE HalfInv'
  BY <1>11 DEF write_waits, Blocked, Driver, Synced, Undriven, HalfInv, Record, NetFields,
     ShFields, DrvFields
<1>12. ASSUME write_stops PROVE HalfInv'
  <2>1. drv'.pc = "done" /\ net'.torn = net.torn
    BY <1>12, FinishEffect DEF write_stops, Driver, write_fails, Undriven, Written, Record,
       NetFields
  <2> QED
    BY <2>1 DEF HalfInv
<1>13. ASSUME NEW d, split_time_passes(d) PROVE HalfInv'
  BY <1>13 DEF split_time_passes, HalfInv, Record, NetFields, ShFields, DrvFields
<1> QED
  BY <1>1, <1>2, <1>3, <1>4, <1>5, <1>6, <1>7, <1>8, <1>9, <1>10, <1>11, <1>12, <1>13
     DEF DriverStep, split_writer_driver, await_compio_write

\* The driver publishes a timeout with the transport released.
LEMMA DriverTimeout ==
    ASSUME Record(net, NetFields), Record(sh, ShFields), Record(wr, WrFields),
           Record(drv, DrvFields), PhaseInv, DriverStep,
           TimeoutInv, UNCHANGED <<u, seen>>
    PROVE  TimeoutInv'
<1>1. ASSUME driver_top PROVE TimeoutInv'
  BY <1>1 DEF driver_top, Driver, Finish, terminate, begin_closing_shared, Synced, Completed,
     Undriven, TimeoutInv, Record, ShFields, WrFields, DrvFields
<1>2. ASSUME driver_cancelled PROVE TimeoutInv'
  BY <1>2 DEF driver_cancelled, Driver, Finish, terminate, begin_closing_shared, Completed,
     Undriven, TimeoutInv, Record, ShFields, WrFields, DrvFields
<1>3. ASSUME driver_control PROVE TimeoutInv'
  BY <1>3 DEF driver_control, Driver, Finish, terminate, begin_closing_shared, Completed,
     StartWrite, Begun, Undriven, TimeoutInv, Record, ShFields, WrFields, DrvFields
<1>4. ASSUME driver_application PROVE TimeoutInv'
  <2>1. drv'.hasty = drv.hasty /\ drv'.released = drv.released
    BY <1>4 DEF driver_application, StartWrite, Record, DrvFields
  <2>2. \A r \in wr'.results : r \in wr.results \/ r.result \notin Timeouts
    <3>1. wr' = wr \/ \E id : \E result \in {"ok", "ConnectionClosed"} : wr' = Completed(id, result)
      BY <1>4 DEF driver_application
    <3> QED
      BY <3>1, CompletedEffect DEF Timeouts
  <2>3. sh'.terminal = sh.terminal /\ sh'.notice = sh.notice
    BY <1>4 DEF driver_application, begin_closing_shared, Record, ShFields
  <2> QED
    BY <2>1, <2>2, <2>3 DEF TimeoutInv
<1>5. ASSUME driver_alarm PROVE TimeoutInv'
  BY <1>5 DEF driver_alarm, Driver, Undriven, TimeoutInv, Record, ShFields, WrFields, DrvFields
<1>6. ASSUME driver_timer PROVE TimeoutInv'
  BY <1>6 DEF driver_timer, Driver, Finish, terminate, begin_closing_shared, Completed, Synced,
     synced_due, StartWrite, Begun, Undriven, TimeoutInv, Record, ShFields, WrFields, DrvFields
<1>7. ASSUME close_flush_ends PROVE TimeoutInv'
  BY <1>7 DEF close_flush_ends, Driver, Finish, terminate, begin_closing_shared, Completed,
     Written, Undriven, TimeoutInv, Record, ShFields, WrFields, DrvFields
<1>8. ASSUME write_part PROVE TimeoutInv'
  BY <1>8 DEF write_part, HalfWritten, Undriven, TimeoutInv, Record, ShFields, WrFields, DrvFields
<1>9. ASSUME write_completes PROVE TimeoutInv'
  <2>1. drv'.hasty = drv.hasty /\ drv'.released = drv.released
    BY <1>9 DEF write_completes, StartWrite, Record, DrvFields
  <2>2. \A r \in wr'.results : r \in wr.results \/ r.result \notin Timeouts
    <3>1. wr' = wr \/ \E id : \E result \in {"ok", "ConnectionClosed"} : wr' = Completed(id, result)
      BY <1>9 DEF write_completes
    <3> QED
      BY <3>1, CompletedEffect DEF Timeouts
  <2>3. sh'.terminal = sh.terminal /\ sh'.notice = sh.notice
    BY <1>9 DEF write_completes, begin_closing_shared, Record, ShFields
  <2> QED
    BY <2>1, <2>2, <2>3 DEF TimeoutInv
<1>10. ASSUME write_hears PROVE TimeoutInv'
  BY <1>10 DEF write_hears, Blocked, Driver, Synced, Undriven, TimeoutInv, Record, ShFields,
     WrFields, DrvFields
<1>11. ASSUME write_waits PROVE TimeoutInv'
  BY <1>11 DEF write_waits, Blocked, Driver, Synced, Undriven, TimeoutInv, Record, ShFields,
     WrFields, DrvFields
<1>12. ASSUME write_stops PROVE TimeoutInv'
  BY <1>12 DEF write_stops, Blocked, Driver, write_fails, Finish, terminate, begin_closing_shared,
     Completed, Undriven, TimeoutInv, Record, ShFields, WrFields, DrvFields
<1>13. ASSUME NEW d, split_time_passes(d) PROVE TimeoutInv'
  BY <1>13 DEF split_time_passes, TimeoutInv, Record, ShFields, WrFields, DrvFields
<1> QED
  BY <1>1, <1>2, <1>3, <1>4, <1>5, <1>6, <1>7, <1>8, <1>9, <1>10, <1>11, <1>12, <1>13
     DEF DriverStep, split_writer_driver, await_compio_write

\* The script stays, and reading moves towards what has arrived.
LEMMA StreamNet ==
    ASSUME Record(u, UFields), Record(net, NetFields), NetInv, StreamStep
    PROVE  NetKept
<1>nat. net.arrived \in Nat /\ net.read \in Nat /\ net.read <= net.arrived
  BY DEF NetInv
<1>same. ASSUME net'.script = net.script, net'.arrived = net.arrived, net'.read = net.read
         PROVE  NetKept
  BY <1>nat, <1>same DEF NetKept
<1>1. ASSUME call_next PROVE NetKept
  BY <1>1, <1>same DEF call_next
<1>2. ASSUME next_closed PROVE NetKept
  BY <1>2, <1>same DEF next_closed
<1>3. ASSUME next_message PROVE NetKept
  <2>1. net' = net \/ \E buf : net' = Begun(net, buf)
    BY <1>3 DEF next_message, Flush
  <2>2. net'.script = net.script /\ net'.arrived = net.arrived /\ net'.read = net.read
    BY <2>1 DEF Begun, Record, NetFields
  <2> QED
    BY <1>same, <2>2
<1>4. ASSUME next_close PROVE NetKept
  <2>1. net' = net \/ \E buf : net' = Begun(net, buf)
    BY <1>4 DEF next_close, Flush
  <2>2. net'.script = net.script /\ net'.arrived = net.arrived /\ net'.read = net.read
    BY <2>1 DEF Begun, Record, NetFields
  <2> QED
    BY <1>same, <2>2
<1>5. ASSUME next_error PROVE NetKept
  BY <1>5, <1>same DEF next_error
<1>6. ASSUME next_deadline_passed PROVE NetKept
  <2>1. DeadlineStep(net, u)
    BY <1>6, DeadlineFlush DEF next_deadline_passed
  <2> QED
    BY <1>nat, <2>1 DEF DeadlineStep, NetKept
<1>7. ASSUME process_read_buf PROVE NetKept
  BY <1>7, <1>same DEF process_read_buf
<1>8. ASSUME next_expired PROVE NetKept
  BY <1>8, <1>same DEF next_expired
<1>9. ASSUME next_read PROVE NetKept
  BY <1>9, <1>same DEF next_read
<1>10. ASSUME read_completes PROVE NetKept
  <2>1. CASE net.arrived > net.read
    <3>1. PICK k \in 1 .. net.arrived - net.read : net' = [net EXCEPT !.read = @ + k]
      BY <1>10, <2>1 DEF read_completes, ReadResult
    <3>2. net'.script = net.script /\ net'.arrived = net.arrived /\ net'.read = net.read + k
      BY <3>1 DEF Record, NetFields
    <3> QED
      BY <3>2, <1>nat DEF NetKept
  <2>2. CASE ~(net.arrived > net.read)
    BY <1>10, <2>2, <1>same DEF read_completes, ReadResult
  <2> QED
    BY <2>1, <2>2
<1>11. ASSUME read_abandoned PROVE NetKept
  <2>1. CASE u.bound = "close"
    BY <1>11, <2>1, <1>same DEF read_abandoned
  <2>2. CASE u.bound # "close"
    <3>1. DeadlineStep(net, u)
      BY <1>11, <2>2, DeadlineFlush DEF read_abandoned
    <3> QED
      BY <1>nat, <3>1 DEF DeadlineStep, NetKept
  <2> QED
    BY <2>1, <2>2
<1>12. ASSUME read_cancelled PROVE NetKept
  BY <1>12, <1>same DEF read_cancelled
<1>13. ASSUME read_recovered PROVE NetKept
  <2> DEFINE n == [net EXCEPT !.read = net.arrived]
             st == [u EXCEPT !.read_buf = SubSeq(net.script, net.read + 1, net.arrived)]
  <2>1. /\ Record(n, NetFields) /\ Record(st, UFields)
        /\ n.script = net.script /\ n.arrived = net.arrived /\ n.read = net.arrived
    BY DEF Record, NetFields, UFields
  <2>2. handle_deadline(n, "ping", st)
    BY <1>13 DEF read_recovered
  <2> HIDE DEF n, st
  <2>3. DeadlineStep(n, st)
    BY <2>1, <2>2, DeadlineFlush
  <2> QED
    BY <1>nat, <2>1, <2>3 DEF DeadlineStep, NetKept
<1>14. ASSUME recovery_expires PROVE NetKept
  <2>1. DeadlineStep(net, u)
    BY <1>14, DeadlineFlush DEF recovery_expires
  <2> QED
    BY <1>nat, <2>1 DEF DeadlineStep, NetKept
<1>15. ASSUME flush_part PROVE NetKept
  <2>1. net'.script = net.script /\ net'.arrived = net.arrived /\ net'.read = net.read
    BY <1>15 DEF flush_part, HalfWritten, Record, NetFields
  <2> QED
    BY <1>same, <2>1
<1>16. ASSUME flush_completes PROVE NetKept
  <2>1. net'.script = net.script /\ net'.arrived = net.arrived /\ net'.read = net.read
    BY <1>16 DEF flush_completes, Written, Record, NetFields
  <2> QED
    BY <1>same, <2>1
<1>17. ASSUME flush_stops PROVE NetKept
  BY <1>17, <1>same DEF flush_stops
<1>18. ASSUME shutdown_ends PROVE NetKept
  BY <1>18, <1>same DEF shutdown_ends
<1>19. ASSUME drop_call PROVE NetKept
  <2>1. net'.script = net.script /\ net'.arrived = net.arrived /\ net'.read = net.read
    BY <1>19 DEF drop_call, DroppedWrites, Written, Record, NetFields
  <2> QED
    BY <1>same, <2>1
<1>20. ASSUME NEW item, send(item) PROVE NetKept
  <2>1. net' = net \/ \E buf : net' = Begun(net, buf)
    BY <1>20 DEF send, Flush
  <2>2. net'.script = net.script /\ net'.arrived = net.arrived /\ net'.read = net.read
    BY <2>1 DEF Begun, Record, NetFields
  <2> QED
    BY <1>same, <2>2
<1>21. ASSUME NEW d, time_passes(d) PROVE NetKept
  BY <1>21, <1>same DEF time_passes
<1> QED
  BY <1>1, <1>2, <1>3, <1>4, <1>5, <1>6, <1>7, <1>8, <1>9, <1>10, <1>11, <1>12, <1>13, <1>14,
     <1>15, <1>16, <1>17, <1>18, <1>19, <1>20, <1>21 DEF StreamStep, next_, flush_

-----------------------------------------------------------------------------
(* What the buffers hold *)

\* A frame the peer sent is known by its position in the script.
LEMMA SentTypes ==
    ASSUME NetInv
    PROVE  /\ Sent \subseteq Frames
           /\ \A f \in Sent : f.id \in 1 .. Len(net.script) /\ net.script[f.id] = f /\ f.id \in Nat
           /\ net.script \in Seq(Sent)
<1>1. /\ net.script \in Seq(Frames) /\ Len(net.script) \in Nat
      /\ \A i \in 1 .. Len(net.script) : net.script[i].id = i /\ net.script[i] \in Frames
  BY DEF NetInv
<1>2. ASSUME NEW f \in Sent
      PROVE  f \in Frames /\ f.id \in 1 .. Len(net.script) /\ net.script[f.id] = f /\ f.id \in Nat
  <2>1. PICK i \in 1 .. Len(net.script) : f = net.script[i]
    BY DEF Sent
  <2> QED
    BY <1>1, <2>1
<1>3. net.script \in Seq(Sent)
  BY <1>1 DEF Sent
<1> QED
  BY <1>2, <1>3

\* The parser's batch: the messages in front of the first bad frame.
LEMMA BatchType ==
    ASSUME NEW S, S \subseteq Frames, NEW s \in Seq(S)
    PROVE  UpTo(s) \in Seq(S) /\ Complete(UpTo(s)) \in Seq(S \cap Whole)
<1>1. UpTo(s) \in Seq(S)
  <2>1. CASE BadAt(s) = {}
    BY <2>1 DEF UpTo
  <2>2. CASE BadAt(s) # {}
    <3> DEFINE b == CHOOSE i \in BadAt(s) : \A j \in BadAt(s) : i <= j
    <3>1. BadAt(s) \in SUBSET Nat /\ BadAt(s) \subseteq 1 .. Len(s)
      BY DEF BadAt
    <3>2. \E i \in BadAt(s) : \A j \in BadAt(s) : i <= j
      BY <3>1, <2>2, LeastNatural
    <3>3. b \in BadAt(s)
      BY <3>2
    <3>4. UpTo(s) = SubSeq(s, 1, b - 1)
      BY <2>2 DEF UpTo
    <3> HIDE DEF b
    <3>5. b \in 1 .. Len(s) /\ Len(s) \in Nat
      BY <3>1, <3>3
    <3> QED
      BY <3>4, <3>5
  <2> QED
    BY <2>1, <2>2
<1> QED
  BY <1>1, FilterType DEF Complete, Whole

\* Bytes that have arrived are frames the peer sent.
LEMMA ReadType ==
    ASSUME NetInv, NEW k \in net.read .. net.arrived
    PROVE  SubSeq(net.script, net.read + 1, k) \in Seq(Sent)
<1>1. net.script \in Seq(Sent) /\ net.read \in Nat /\ k \in Nat /\ k <= Len(net.script)
      /\ Len(net.script) \in Nat
  BY SentTypes DEF NetInv
<1> QED
  BY <1>1

\* The unified stream holds frames the peer sent, and accepts only messages.
LEMMA StreamTyped ==
    ASSUME Record(u, UFields), Record(net, NetFields), NetInv, StreamTypes, StreamStep
    PROVE  StreamTypes'
<1>sent. Sent' = Sent
  BY StreamNet DEF NetKept, Sent
<1>keep. ASSUME u'.pending \in Seq(Sent \cap Whole), u'.read_buf \in Seq(Sent),
                u'.then \in {"pong", "finish"} => u'.msg \in Sent \cap Whole
         PROVE  StreamTypes'
  BY <1>keep, <1>sent DEF StreamTypes
<1>same. ASSUME u'.pending = u.pending, u'.read_buf = u.read_buf,
                u'.then \in {"pong", "finish"} => u'.then = u.then /\ u'.msg = u.msg
         PROVE  StreamTypes'
  BY <1>same, <1>keep DEF StreamTypes
<1>late. ASSUME NEW n, NEW st, DeadlineStep(n, st), st.pending = u.pending,
                st.read_buf \in Seq(Sent)
         PROVE  StreamTypes'
  BY <1>late, <1>keep DEF DeadlineStep, StreamTypes
<1>head. ASSUME Accepting
         PROVE  Head(u.pending) \in Sent \cap Whole /\ Tail(u.pending) \in Seq(Sent \cap Whole)
  <2>1. u.pending \in Seq(Sent \cap Whole) /\ u.pending # <<>>
    BY <1>head DEF Accepting, StreamTypes
  <2> QED
    BY <2>1
<1>1. ASSUME call_next PROVE StreamTypes'
  <2>1. /\ u'.pending = u.pending /\ u'.read_buf = u.read_buf
        /\ u'.then \in {"pong", "finish"} => u'.then = u.then /\ u'.msg = u.msg
    BY <1>1 DEF call_next, At, Record, UFields
  <2> QED
    BY <2>1, <1>same
<1>2. ASSUME next_closed PROVE StreamTypes'
  <2>1. /\ u'.pending = u.pending /\ u'.read_buf = u.read_buf
        /\ u'.then \in {"pong", "finish"} => u'.then = u.then /\ u'.msg = u.msg
    BY <1>2 DEF next_closed, At, Return, Ended, Record, UFields
  <2> QED
    BY <2>1, <1>same
<1>3. ASSUME next_message PROVE StreamTypes'
  <2> DEFINE st == [Popped EXCEPT
                      !.write_buf = Append(@, [kind |-> "pong", id |-> Head(u.pending).id]),
                      !.msg = Head(u.pending)]
  <2>1. Return(Popped) \/ Flush(net, st, flush_control_bound(Popped), "pong")
    BY <1>3 DEF next_message
  <2>2. /\ Record(Popped, UFields) /\ Popped.pending = Tail(u.pending)
        /\ Popped.read_buf = u.read_buf
    BY DEF Popped, Record, UFields
  <2>3. /\ u'.pending = Tail(u.pending) /\ u'.read_buf = u.read_buf
        /\ u'.then = "none" \/ u'.msg = Head(u.pending)
    BY <2>1, <2>2 DEF Return, Flush, Record, UFields
  <2>4. Accepting
    BY <1>3 DEF next_message
  <2> QED
    BY <2>3, <2>4, <1>head, <1>keep DEF StreamTypes
<1>4. ASSUME next_close PROVE StreamTypes'
  <2>1. /\ u'.pending = <<>> /\ u'.read_buf = <<>>
        /\ u'.then = "none" \/ u'.msg = Head(u.pending)
    BY <1>4 DEF next_close, Popped, begin_closing, close_published, Return, Flush, Record, UFields
  <2>2. Accepting
    BY <1>4 DEF next_close
  <2>3. <<>> \in Seq(Sent \cap Whole) /\ <<>> \in Seq(Sent)
    OBVIOUS
  <2> QED
    BY <2>1, <2>2, <2>3, <1>head, <1>keep
<1>5. ASSUME next_error PROVE StreamTypes'
  <2>1. /\ u'.pending = u.pending /\ u'.read_buf = u.read_buf
        /\ u'.then \in {"pong", "finish"} => u'.then = u.then /\ u'.msg = u.msg
    BY <1>5 DEF next_error, Waiting, At, Return, Ended, Record, UFields
  <2> QED
    BY <2>1, <1>same
<1>6. ASSUME next_deadline_passed PROVE StreamTypes'
  <2>1. DeadlineStep(net, u)
    BY <1>6, DeadlineFlush DEF next_deadline_passed
  <2> QED
    BY <2>1, <1>late DEF StreamTypes
<1>7. ASSUME process_read_buf PROVE StreamTypes'
  <2>1. /\ u'.pending = Complete(UpTo(u.read_buf)) /\ u'.read_buf = <<>>
        /\ u'.then = u.then /\ u'.msg = u.msg
    BY <1>7 DEF process_read_buf, Record, UFields
  <2>2. u.read_buf \in Seq(Sent) /\ Sent \subseteq Frames
    BY SentTypes DEF StreamTypes
  <2>3. Complete(UpTo(u.read_buf)) \in Seq(Sent \cap Whole) /\ <<>> \in Seq(Sent)
    BY <2>2, BatchType
  <2> QED
    BY <2>1, <2>3, <1>keep DEF StreamTypes
<1>8. ASSUME next_expired PROVE StreamTypes'
  <2>1. /\ u'.pending = u.pending /\ u'.read_buf = u.read_buf
        /\ u'.then \in {"pong", "finish"} => u'.then = u.then /\ u'.msg = u.msg
    BY <1>8 DEF next_expired, Parsing, Waiting, At, Return, Ended, Record, UFields
  <2> QED
    BY <2>1, <1>same
<1>9. ASSUME next_read PROVE StreamTypes'
  <2>1. /\ u'.pending = u.pending /\ u'.read_buf = u.read_buf
        /\ u'.then \in {"pong", "finish"} => u'.then = u.then /\ u'.msg = u.msg
    BY <1>9 DEF next_read, Parsing, Waiting, At, Expired, late_read_taken, Record, UFields
  <2> QED
    BY <2>1, <1>same
<1>10. ASSUME read_completes PROVE StreamTypes'
  <2>1. CASE net.arrived > net.read
    <3>1. PICK k \in 1 .. net.arrived - net.read :
            u' = [u EXCEPT !.read_buf = @ \o SubSeq(net.script, net.read + 1, net.read + k),
                           !.pc = "top", !.bound = "none"]
      BY <1>10, <2>1 DEF read_completes, ReadResult
    <3> DEFINE new == SubSeq(net.script, net.read + 1, net.read + k)
    <3>2. net.read + k \in net.read .. net.arrived
      BY DEF NetInv
    <3>3. new \in Seq(Sent)
      BY <3>2, ReadType
    <3>4. /\ u'.pending = u.pending /\ u'.read_buf = u.read_buf \o new
          /\ u'.then = u.then /\ u'.msg = u.msg
      BY <3>1 DEF Record, UFields
    <3> HIDE DEF new
    <3>5. u.read_buf \o new \in Seq(Sent)
      BY <3>3 DEF StreamTypes
    <3> QED
      BY <3>4, <3>5, <1>keep DEF StreamTypes
  <2>2. CASE ~(net.arrived > net.read)
    <3>1. u'.pending = u.pending /\ u'.read_buf = u.read_buf /\ u'.then = "none"
      BY <1>10, <2>2, ZenonT(60) DEF read_completes, ReadResult, Return, Record, UFields
    <3> QED
      BY <3>1, <1>same
  <2> QED
    BY <2>1, <2>2
<1>11. ASSUME read_abandoned PROVE StreamTypes'
  <2>1. CASE u.bound = "close"
    <3>1. /\ u'.pending = u.pending /\ u'.read_buf = u.read_buf /\ u'.then = "none"
      BY <1>11, <2>1 DEF read_abandoned, Return, Record, UFields
    <3> QED
      BY <3>1, <1>same
  <2>2. CASE u.bound # "close"
    <3>1. DeadlineStep(net, u)
      BY <1>11, <2>2, DeadlineFlush DEF read_abandoned
    <3> QED
      BY <3>1, <1>late DEF StreamTypes
  <2> QED
    BY <2>1, <2>2
<1>12. ASSUME read_cancelled PROVE StreamTypes'
  <2>1. /\ u'.pending = u.pending /\ u'.read_buf = u.read_buf
        /\ u'.then \in {"pong", "finish"} => u'.then = u.then /\ u'.msg = u.msg
    BY <1>12 DEF read_cancelled, At, Record, UFields
  <2> QED
    BY <2>1, <1>same
<1>13. ASSUME read_recovered PROVE StreamTypes'
  <2> DEFINE n == [net EXCEPT !.read = net.arrived]
             st == [u EXCEPT !.read_buf = SubSeq(net.script, net.read + 1, net.arrived)]
  <2>1. /\ Record(n, NetFields) /\ Record(st, UFields) /\ st.pending = u.pending
        /\ st.read_buf = SubSeq(net.script, net.read + 1, net.arrived)
    BY DEF Record, NetFields, UFields
  <2>2. handle_deadline(n, "ping", st)
    BY <1>13 DEF read_recovered
  <2> HIDE DEF n, st
  <2>3. DeadlineStep(n, st)
    BY <2>1, <2>2, DeadlineFlush
  <2>4. net.arrived \in net.read .. net.arrived
    BY DEF NetInv
  <2>5. st.read_buf \in Seq(Sent)
    BY <2>1, <2>4, ReadType
  <2> QED
    BY <2>1, <2>3, <2>5, <1>late
<1>14. ASSUME recovery_expires PROVE StreamTypes'
  <2>1. DeadlineStep(net, u)
    BY <1>14, DeadlineFlush DEF recovery_expires
  <2> QED
    BY <2>1, <1>late DEF StreamTypes
<1>15. ASSUME flush_part PROVE StreamTypes'
  <2>1. /\ u'.pending = u.pending /\ u'.read_buf = u.read_buf
        /\ u'.then \in {"pong", "finish"} => u'.then = u.then /\ u'.msg = u.msg
    BY <1>15 DEF flush_part, At, HalfWritten, Record, UFields
  <2> QED
    BY <2>1, <1>same
<1>16. ASSUME flush_completes PROVE StreamTypes'
  <2>1. /\ u'.pending = u.pending /\ u'.read_buf = u.read_buf
        /\ u'.then \in {"pong", "finish"} => u'.then = u.then /\ u'.msg = u.msg
    BY <1>16 DEF flush_completes, At, Return, Delivered, Written, Record, UFields
  <2> QED
    BY <2>1, <1>same
<1>17. ASSUME flush_stops PROVE StreamTypes'
  <2>1. /\ u'.pending = u.pending /\ u'.read_buf = u.read_buf
        /\ u'.then \in {"pong", "finish"} => u'.then = u.then /\ u'.msg = u.msg
    BY <1>17, ZenonT(60) DEF flush_stops, At, FinishResult, Return, failed_flush, Delivered, Ended, Record,
       UFields
  <2> QED
    BY <2>1, <1>same
<1>18. ASSUME shutdown_ends PROVE StreamTypes'
  <2>1. /\ u'.pending = u.pending /\ u'.read_buf = u.read_buf
        /\ u'.then \in {"pong", "finish"} => u'.then = u.then /\ u'.msg = u.msg
    BY <1>18, ZenonT(60) DEF shutdown_ends, At, FinishResult, Return, Delivered, Ended, Record, UFields
  <2> QED
    BY <2>1, <1>same
<1>19. ASSUME drop_call PROVE StreamTypes'
  <2>1. /\ u'.pending = u.pending /\ u'.read_buf = u.read_buf
        /\ u'.then \in {"pong", "finish"} => u'.then = u.then /\ u'.msg = u.msg
    BY <1>19 DEF drop_call, Return, Record, UFields
  <2> QED
    BY <2>1, <1>same
<1>20. ASSUME NEW item, send(item) PROVE StreamTypes'
  <2>1. /\ u'.pending = u.pending /\ u'.read_buf = u.read_buf
        /\ u'.then \in {"pong", "finish"} => u'.then = u.then /\ u'.msg = u.msg
    BY <1>20, ZenonT(60) DEF send, At, begin_closing, Flush, Begun, Record, UFields
  <2> QED
    BY <2>1, <1>same
<1>21. ASSUME NEW d, time_passes(d) PROVE StreamTypes'
  <2>1. /\ u'.pending = u.pending /\ u'.read_buf = u.read_buf
        /\ u'.then \in {"pong", "finish"} => u'.then = u.then /\ u'.msg = u.msg
    BY <1>21 DEF time_passes, Record, UFields
  <2> QED
    BY <2>1, <1>same
<1> QED
  BY <1>1, <1>2, <1>3, <1>4, <1>5, <1>6, <1>7, <1>8, <1>9, <1>10, <1>11, <1>12, <1>13, <1>14,
     <1>15, <1>16, <1>17, <1>18, <1>19, <1>20, <1>21 DEF StreamStep, next_, flush_

\* The application is given at most one message by a step, and it is one the peer sent.
Gives ==
    /\ \/ seen'.delivered = seen.delivered
       \/ \E f \in Sent \cap Whole : seen'.delivered = Append(seen.delivered, f.id)
    /\ seen'.committed = seen.committed /\ seen'.split_at = seen.split_at

\* A step of the unified stream returns at most one message, and a whole one.
LEMMA StreamGives ==
    ASSUME Record(seen, SeenFields), StreamTypes, StreamStep
    PROVE  Gives
<1>none. ASSUME seen'.delivered = seen.delivered, seen'.committed = seen.committed,
                seen'.split_at = seen.split_at
         PROVE  Gives
  BY <1>none DEF Gives
<1>one. ASSUME NEW f \in Sent \cap Whole, Delivered(f)
        PROVE  Gives
  BY <1>one DEF Gives, Delivered, Record, SeenFields
<1>head. ASSUME Accepting PROVE Head(u.pending) \in Sent \cap Whole
  <2>1. u.pending \in Seq(Sent \cap Whole) /\ u.pending # <<>>
    BY <1>head DEF Accepting, StreamTypes
  <2> QED
    BY <2>1
<1>1. ASSUME call_next PROVE Gives
  <2>1. /\ seen'.delivered = seen.delivered /\ seen'.committed = seen.committed
        /\ seen'.split_at = seen.split_at
    BY <1>1 DEF call_next, ReadResult, Ended, Record, SeenFields
  <2> QED
    BY <2>1, <1>none
<1>2. ASSUME next_closed PROVE Gives
  <2>1. /\ seen'.delivered = seen.delivered /\ seen'.committed = seen.committed
        /\ seen'.split_at = seen.split_at
    BY <1>2 DEF next_closed, ReadResult, Ended, Record, SeenFields
  <2> QED
    BY <2>1, <1>none
<1>3. ASSUME next_message PROVE Gives
  <2>1. Head(u.pending) \in Sent \cap Whole
    BY <1>3, <1>head DEF next_message
  <2>2. CASE Delivered(Head(u.pending))
    BY <2>1, <2>2, <1>one
  <2>3. CASE ~Delivered(Head(u.pending))
    <3>1. /\ seen'.delivered = seen.delivered /\ seen'.committed = seen.committed
          /\ seen'.split_at = seen.split_at
      BY <1>3, <2>3 DEF next_message, Record, SeenFields
    <3> QED
      BY <3>1, <1>none
  <2> QED
    BY <2>2, <2>3
<1>4. ASSUME next_close PROVE Gives
  <2>1. Head(u.pending) \in Sent \cap Whole
    BY <1>4, <1>head DEF next_close
  <2>2. CASE Delivered(Head(u.pending))
    BY <2>1, <2>2, <1>one
  <2>3. CASE ~Delivered(Head(u.pending))
    <3>1. /\ seen'.delivered = seen.delivered /\ seen'.committed = seen.committed
          /\ seen'.split_at = seen.split_at
      BY <1>4, <2>3 DEF next_close, Record, SeenFields
    <3> QED
      BY <3>1, <1>none
  <2> QED
    BY <2>2, <2>3
<1>5. ASSUME next_error PROVE Gives
  <2>1. /\ seen'.delivered = seen.delivered /\ seen'.committed = seen.committed
        /\ seen'.split_at = seen.split_at
    BY <1>5 DEF next_error, ReadResult, Ended, Record, SeenFields
  <2> QED
    BY <2>1, <1>none
<1>6. ASSUME next_deadline_passed PROVE Gives
  <2>1. /\ seen'.delivered = seen.delivered /\ seen'.committed = seen.committed
        /\ seen'.split_at = seen.split_at
    BY <1>6 DEF next_deadline_passed, ReadResult, Ended, Record, SeenFields
  <2> QED
    BY <2>1, <1>none
<1>7. ASSUME process_read_buf PROVE Gives
  <2>1. /\ seen'.delivered = seen.delivered /\ seen'.committed = seen.committed
        /\ seen'.split_at = seen.split_at
    BY <1>7 DEF process_read_buf, ReadResult, Ended, Record, SeenFields
  <2> QED
    BY <2>1, <1>none
<1>8. ASSUME next_expired PROVE Gives
  <2>1. /\ seen'.delivered = seen.delivered /\ seen'.committed = seen.committed
        /\ seen'.split_at = seen.split_at
    BY <1>8 DEF next_expired, ReadResult, Ended, Record, SeenFields
  <2> QED
    BY <2>1, <1>none
<1>9. ASSUME next_read PROVE Gives
  <2>1. /\ seen'.delivered = seen.delivered /\ seen'.committed = seen.committed
        /\ seen'.split_at = seen.split_at
    BY <1>9 DEF next_read, ReadResult, Ended, Record, SeenFields
  <2> QED
    BY <2>1, <1>none
<1>10. ASSUME read_completes PROVE Gives
  <2>1. /\ seen'.delivered = seen.delivered /\ seen'.committed = seen.committed
        /\ seen'.split_at = seen.split_at
    BY <1>10 DEF read_completes, ReadResult, Ended, Record, SeenFields
  <2> QED
    BY <2>1, <1>none
<1>11. ASSUME read_abandoned PROVE Gives
  <2>1. /\ seen'.delivered = seen.delivered /\ seen'.committed = seen.committed
        /\ seen'.split_at = seen.split_at
    BY <1>11 DEF read_abandoned, ReadResult, Ended, Record, SeenFields
  <2> QED
    BY <2>1, <1>none
<1>12. ASSUME read_cancelled PROVE Gives
  <2>1. /\ seen'.delivered = seen.delivered /\ seen'.committed = seen.committed
        /\ seen'.split_at = seen.split_at
    BY <1>12 DEF read_cancelled, ReadResult, Ended, Record, SeenFields
  <2> QED
    BY <2>1, <1>none
<1>13. ASSUME read_recovered PROVE Gives
  <2>1. /\ seen'.delivered = seen.delivered /\ seen'.committed = seen.committed
        /\ seen'.split_at = seen.split_at
    BY <1>13 DEF read_recovered, ReadResult, Ended, Record, SeenFields
  <2> QED
    BY <2>1, <1>none
<1>14. ASSUME recovery_expires PROVE Gives
  <2>1. /\ seen'.delivered = seen.delivered /\ seen'.committed = seen.committed
        /\ seen'.split_at = seen.split_at
    BY <1>14 DEF recovery_expires, ReadResult, Ended, Record, SeenFields
  <2> QED
    BY <2>1, <1>none
<1>15. ASSUME flush_part PROVE Gives
  <2>1. /\ seen'.delivered = seen.delivered /\ seen'.committed = seen.committed
        /\ seen'.split_at = seen.split_at
    BY <1>15 DEF flush_part, ReadResult, Ended, Record, SeenFields
  <2> QED
    BY <2>1, <1>none
<1>16. ASSUME flush_completes PROVE Gives
  <2>1. CASE u.then \in {"pong", "finish"} /\ Delivered(u.msg)
    BY <2>1, <1>one DEF StreamTypes
  <2>2. CASE ~(u.then \in {"pong", "finish"} /\ Delivered(u.msg))
    <3>1. /\ seen'.delivered = seen.delivered /\ seen'.committed = seen.committed
          /\ seen'.split_at = seen.split_at
      BY <1>16, <2>2 DEF flush_completes, FinishResult, Ended, Record, SeenFields
    <3> QED
      BY <3>1, <1>none
  <2> QED
    BY <2>1, <2>2
<1>17. ASSUME flush_stops PROVE Gives
  <2>1. CASE u.then \in {"pong", "finish"} /\ Delivered(u.msg)
    BY <2>1, <1>one DEF StreamTypes
  <2>2. CASE ~(u.then \in {"pong", "finish"} /\ Delivered(u.msg))
    <3>1. /\ seen'.delivered = seen.delivered /\ seen'.committed = seen.committed
          /\ seen'.split_at = seen.split_at
      BY <1>17, <2>2 DEF flush_stops, FinishResult, Ended, Record, SeenFields
    <3> QED
      BY <3>1, <1>none
  <2> QED
    BY <2>1, <2>2
<1>18. ASSUME shutdown_ends PROVE Gives
  <2>1. CASE u.then \in {"pong", "finish"} /\ Delivered(u.msg)
    BY <2>1, <1>one DEF StreamTypes
  <2>2. CASE ~(u.then \in {"pong", "finish"} /\ Delivered(u.msg))
    <3>1. /\ seen'.delivered = seen.delivered /\ seen'.committed = seen.committed
          /\ seen'.split_at = seen.split_at
      BY <1>18, <2>2 DEF shutdown_ends, FinishResult, Ended, Record, SeenFields
    <3> QED
      BY <3>1, <1>none
  <2> QED
    BY <2>1, <2>2
<1>19. ASSUME drop_call PROVE Gives
  <2>1. /\ seen'.delivered = seen.delivered /\ seen'.committed = seen.committed
        /\ seen'.split_at = seen.split_at
    BY <1>19 DEF drop_call, Record, SeenFields
  <2> QED
    BY <2>1, <1>none
<1>20. ASSUME NEW item, send(item) PROVE Gives
  <2>1. /\ seen'.delivered = seen.delivered /\ seen'.committed = seen.committed
        /\ seen'.split_at = seen.split_at
    BY <1>20 DEF send, ReadResult, Ended, Record, SeenFields
  <2> QED
    BY <2>1, <1>none
<1>21. ASSUME NEW d, time_passes(d) PROVE Gives
  <2>1. /\ seen'.delivered = seen.delivered /\ seen'.committed = seen.committed
        /\ seen'.split_at = seen.split_at
    BY <1>21 DEF time_passes, ReadResult, Ended, Record, SeenFields
  <2> QED
    BY <2>1, <1>none
<1> QED
  BY <1>1, <1>2, <1>3, <1>4, <1>5, <1>6, <1>7, <1>8, <1>9, <1>10, <1>11, <1>12, <1>13, <1>14,
     <1>15, <1>16, <1>17, <1>18, <1>19, <1>20, <1>21 DEF StreamStep, next_, flush_

-----------------------------------------------------------------------------
(* The hand-off of control messages *)

\* The reader holds frames of the script, its batch messages only.
ReaderTypes == rd.pending \in Seq(Sent \cap Whole) /\ rd.read_buf \in Seq(Sent)

\* The numbers of the control messages, and what was returned after the split.
ControlIds == {i \in DOMAIN net.script : net.script[i].kind \in {"ping", "pong", "close"}}
AfterSplit == SubSeq(seen.delivered, seen.split_at + 1, Len(seen.delivered))

\* A request waits only together with the control message it was made of.
HandInv ==
    /\ rd.request # NoFrame => /\ rd.pending # <<>> /\ rd.request = Head(rd.pending)
                               /\ rd.request.kind # "data"
    /\ rd.pc = "handoff" => rd.request # NoFrame
    /\ u.phase = "unified" => seen.committed = <<>> /\ rd.request = NoFrame
    /\ u.phase = "split" => seen.committed = Filter(AfterSplit, ControlIds)

\* What the invariant says of the committed requests is the property.
LEMMA HandInvIsEnough ==
    HandInv => HandedOver
  BY DEF HandInv, HandedOver, Controls, ControlIds, AfterSplit

\* One more message was returned after the split.
LEMMA OneMore ==
    ASSUME NEW d \in Seq(Nat), NEW k \in 0 .. Len(d), NEW x \in Nat
    PROVE  /\ SubSeq(d, k + 1, Len(d)) \in Seq(Nat)
           /\ SubSeq(Append(d, x), k + 1, Len(Append(d, x))) = Append(SubSeq(d, k + 1, Len(d)), x)
           /\ Append(d, x) \in Seq(Nat) /\ k \in 0 .. Len(Append(d, x))
<1> DEFINE n == Len(d)
           e == Append(d, x)
           a == SubSeq(d, k + 1, n)
           b == SubSeq(e, k + 1, n + 1)
           c == Append(a, x)
<1>1. n \in Nat /\ k \in Nat /\ k <= n /\ e \in Seq(Nat) /\ Len(e) = n + 1
  OBVIOUS
<1>2. /\ a \in Seq(Nat) /\ Len(a) = n - k /\ Len(c) = n - k + 1
      /\ c \in Seq(Nat)
  OBVIOUS
<1>3. \A i \in 1 .. n + 1 : e[i] = IF i = n + 1 THEN x ELSE d[i]
  OBVIOUS
<1>4. \A i \in 1 .. n - k : a[i] = d[k + i]
  OBVIOUS
<1>5. \A i \in 1 .. n - k + 1 : c[i] = IF i = n - k + 1 THEN x ELSE a[i]
  BY <1>2, SMTT(60)
<1> HIDE DEF e, n, a
<1>6. b \in Seq(Nat) /\ Len(b) = n + 1 - k /\ \A i \in 1 .. n + 1 - k : b[i] = e[k + i]
  BY <1>1
<1> HIDE DEF b, c
<1>7. ASSUME NEW i \in 1 .. n + 1 - k PROVE b[i] = c[i]
  <2>1. i \in Nat /\ b[i] = e[k + i] /\ k + i \in 1 .. n + 1
    BY <1>1, <1>6
  <2>2. CASE i = n - k + 1
    BY <2>1, <2>2, <1>1, <1>3, <1>5
  <2>3. CASE i # n - k + 1
    <3>1. i \in 1 .. n - k /\ k + i # n + 1
      BY <2>1, <2>3, <1>1
    <3>2. e[k + i] = d[k + i]
      BY <2>1, <3>1, <1>3
    <3>3. a[i] = d[k + i]
      BY <3>1, <1>4
    <3>4. c[i] = a[i]
      BY <2>1, <2>3, <1>1, <1>5
    <3> QED
      BY <2>1, <3>2, <3>3, <3>4
  <2> QED
    BY <2>2, <2>3
<1>8. b = c
  <2>1. Len(c) = Len(b) /\ \A i \in 1 .. Len(b) : b[i] = c[i]
    BY <1>1, <1>2, <1>6, <1>7
  <2>2. b \in Seq(Nat) /\ c \in Seq(Nat)
    BY <1>2, <1>6
  <2> QED
    BY <2>1, <2>2, SeqEqual
<1>9. k \in 0 .. n + 1
  BY <1>1
<1> QED
  <2>1. SubSeq(e, k + 1, Len(e)) = Append(a, x)
    BY <1>1, <1>8 DEF b, c
  <2> QED
    BY <1>1, <1>2, <1>9, <2>1 DEF a, c, e, n

\* A frame counts as a control message where its position does.
LEMMA ControlKind ==
    ASSUME NetInv, NEW f \in Sent \cap Whole
    PROVE  /\ f # NoFrame /\ f.id \in Nat /\ (f.id \in ControlIds <=> f.kind # "data")
<1>1. f.id \in 1 .. Len(net.script) /\ net.script[f.id] = f /\ f.id \in Nat /\ net.script \in Seq(Sent)
  BY SentTypes
<1>2. f.kind \in {"data", "ping", "pong", "close"}
  BY DEF Whole, Kinds
<1>3. f.id \in DOMAIN net.script
  BY <1>1
<1>4. f.id \in ControlIds <=> f.kind \in {"ping", "pong", "close"}
  BY <1>1, <1>3 DEF ControlIds
<1>5. f # NoFrame
  BY <1>2 DEF NoFrame
<1> QED
  BY <1>1, <1>2, <1>4, <1>5

\* What every step of the reader keeps.
HandKept == ReaderTypes' /\ HandInv' /\ SeenTypes'

\* The split reader hands every control message over with its return.
LEMMA ReaderHands ==
    ASSUME Record(net, NetFields), Record(seen, SeenFields), Record(sh, ShFields),
           Record(rd, RdFields), NetInv, SeenTypes, ReaderTypes, HandInv, u.phase = "split",
           reader_next \/ reader_cancelled \/ reader_dropped
    PROVE  HandKept
<1>eff. ReaderEffect
  BY ReaderSteps
<1>sent. Sent' = Sent /\ ControlIds' = ControlIds /\ u'.phase = "split" /\ u' = u
  BY <1>eff DEF ReaderEffect, Sent, ControlIds
<1>d. /\ seen.delivered \in Seq(Nat) /\ seen.committed \in Seq(Nat)
      /\ seen.split_at \in 0 .. Len(seen.delivered)
  BY DEF SeenTypes
<1>head. ASSUME rd.pending # <<>>
         PROVE  /\ Head(rd.pending) \in Sent \cap Whole /\ Tail(rd.pending) \in Seq(Sent \cap Whole)
                /\ <<Head(rd.pending)>> \in Seq(Sent \cap Whole)
  <2>1. rd.pending \in Seq(Sent \cap Whole) /\ rd.pending # <<>>
    BY <1>head DEF ReaderTypes
  <2> QED
    BY <2>1
<1> DEFINE Still == /\ seen'.delivered = seen.delivered /\ seen'.committed = seen.committed
                    /\ seen'.split_at = seen.split_at
           Buffers == rd'.pending \in Seq(Sent \cap Whole) /\ rd'.read_buf \in Seq(Sent)
           Request == /\ rd'.request # NoFrame => /\ rd'.pending # <<>> /\ rd'.request = Head(rd'.pending)
                                                  /\ rd'.request.kind # "data"
                      /\ rd'.pc = "handoff" => rd'.request # NoFrame
<1>keep. ASSUME Buffers, Request, Still PROVE HandKept
  <2>1. ReaderTypes' /\ SeenTypes'
    BY <1>keep, <1>sent, <1>d DEF ReaderTypes, SeenTypes
  <2>2. AfterSplit' = AfterSplit
    BY <1>keep DEF AfterSplit
  <2>3. seen'.committed = Filter(AfterSplit', ControlIds')
    BY <1>keep, <1>sent, <2>2 DEF HandInv
  <2>4. HandInv'
    BY <1>keep, <1>sent, <2>3 DEF HandInv
  <2> QED
    BY <2>1, <2>4 DEF HandKept
<1>give. ASSUME Buffers, Request, NEW f \in Sent \cap Whole,
                seen'.delivered = Append(seen.delivered, f.id), seen'.split_at = seen.split_at,
                seen'.committed = IF f.kind # "data" THEN Append(seen.committed, f.id)
                                  ELSE seen.committed
         PROVE  HandKept
  <2>1. f.id \in Nat /\ (f.id \in ControlIds <=> f.kind # "data")
    BY ControlKind
  <2>2. /\ AfterSplit \in Seq(Nat) /\ AfterSplit' = Append(AfterSplit, f.id)
        /\ seen'.delivered \in Seq(Nat) /\ seen'.split_at \in 0 .. Len(seen'.delivered)
    BY <1>d, <1>give, <2>1, OneMore DEF AfterSplit
  <2>3. Filter(AfterSplit', ControlIds) = IF f.id \in ControlIds THEN Append(Filter(AfterSplit, ControlIds), f.id)
                                          ELSE Filter(AfterSplit, ControlIds)
    <3> DEFINE a == AfterSplit
               x == f.id
    <3>1. a \in Seq(Nat) /\ x \in Nat
      BY <2>1, <2>2
    <3> HIDE DEF a, x
    <3>2. Filter(Append(a, x), ControlIds)
            = IF x \in ControlIds THEN Append(Filter(a, ControlIds), x) ELSE Filter(a, ControlIds)
      BY <3>1, FilterAppend
    <3> QED
      BY <2>2, <3>2 DEF a, x
  <2>4. seen.committed = Filter(AfterSplit, ControlIds)
    BY DEF HandInv
  <2>5. seen'.committed = Filter(AfterSplit', ControlIds') /\ seen'.committed \in Seq(Nat)
    BY <1>give, <1>sent, <1>d, <2>1, <2>3, <2>4
  <2>6. ReaderTypes' /\ SeenTypes'
    BY <1>give, <1>sent, <2>2, <2>5 DEF ReaderTypes, SeenTypes
  <2>7. HandInv'
    BY <1>give, <1>sent, <2>5 DEF HandInv
  <2> QED
    BY <2>6, <2>7 DEF HandKept
<1>same. ASSUME rd'.pending = rd.pending, rd'.read_buf = rd.read_buf, rd'.request = rd.request,
                rd'.pc = "handoff" => rd.pc = "handoff"
         PROVE  Buffers /\ Request
  BY <1>same DEF ReaderTypes, HandInv
<1>1. ASSUME reader_called PROVE HandKept
  <2>1. Buffers /\ Request
    <3>1. /\ rd'.pending = rd.pending /\ rd'.read_buf = rd.read_buf /\ rd'.request = rd.request
          /\ rd'.pc # "handoff"
      BY <1>1 DEF reader_called, Record, RdFields
    <3> HIDE DEF Buffers, Request
    <3> QED
      BY <3>1, <1>same
  <2>2. Still
    BY <1>1 DEF reader_called, Ended, stream, Record, SeenFields
  <2> HIDE DEF Buffers, Request, Still
  <2> QED
    BY <2>1, <2>2, <1>keep
<1>2. ASSUME reader_ends PROVE HandKept
  <2>1. Buffers /\ Request
    <3>1. /\ rd'.pending = rd.pending /\ rd'.read_buf = rd.read_buf /\ rd'.request = rd.request
          /\ rd'.pc # "handoff"
      BY <1>2 DEF reader_ends, Record, RdFields
    <3> HIDE DEF Buffers, Request
    <3> QED
      BY <3>1, <1>same
  <2>2. Still
    BY <1>2 DEF reader_ends, Ended, stream, Record, SeenFields
  <2> HIDE DEF Buffers, Request, Still
  <2> QED
    BY <2>1, <2>2, <1>keep
<1>3. ASSUME reader_data PROVE HandKept
  <2>1. Head(rd.pending) \in Sent \cap Whole /\ Head(rd.pending).kind = "data"
    BY <1>3, <1>head DEF reader_data
  <2>2. rd.request = NoFrame
    BY <2>1, <1>3 DEF reader_data, HandInv
  <2>3. /\ rd'.pending = Tail(rd.pending) /\ rd'.read_buf = rd.read_buf
        /\ rd'.request = rd.request /\ rd'.pc = "idle"
    BY <1>3 DEF reader_data, Record, RdFields
  <2>4. Buffers /\ Request
    BY <1>3, <1>head, <2>2, <2>3 DEF reader_data, ReaderTypes
  <2>5. /\ seen'.delivered = Append(seen.delivered, Head(rd.pending).id)
        /\ seen'.committed = seen.committed /\ seen'.split_at = seen.split_at
    BY <1>3 DEF reader_data, Delivered, Record, SeenFields
  <2> HIDE DEF Buffers, Request
  <2> QED
    BY <2>1, <2>4, <2>5, <1>give
<1>4. ASSUME reader_control PROVE HandKept
  <2> DEFINE msg == Head(rd.pending)
             fresh == rd.request = NoFrame
             first == fresh /\ msg.kind = "close"
  <2>1. rd.pending # <<>> /\ msg.kind # "data"
    BY <1>4 DEF reader_control
  <2>2. msg \in Sent \cap Whole /\ <<msg>> \in Seq(Sent \cap Whole) /\ msg # NoFrame
    BY <2>1, <1>head, ControlKind
  <2>3. rd' = [rd EXCEPT !.pc = "handoff", !.request = IF fresh THEN msg ELSE @,
                         !.pending = IF first THEN <<msg>> ELSE @,
                         !.parse_error = ~first /\ @, !.read_buf = IF first THEN <<>> ELSE @]
    BY <1>4 DEF reader_control
  <2>4. /\ rd'.request = (IF fresh THEN msg ELSE rd.request)
        /\ rd'.pending = (IF first THEN <<msg>> ELSE rd.pending)
        /\ rd'.read_buf = (IF first THEN <<>> ELSE rd.read_buf)
    BY <2>3 DEF Record, RdFields
  <2>5. Head(<<msg>>) = msg /\ <<msg>> # <<>> /\ <<>> \in Seq(Sent)
    OBVIOUS
  <2> HIDE DEF msg
  <2>6. Buffers
    BY <2>2, <2>4, <2>5 DEF ReaderTypes
  <2>7. Request
    <3>1. CASE fresh
      <4>1. rd'.request = msg /\ rd'.pending # <<>> /\ Head(rd'.pending) = msg
        BY <3>1, <2>1, <2>4, <2>5 DEF msg
      <4> QED
        BY <4>1, <2>1, <2>2
    <3>2. CASE ~fresh
      BY <3>2, <2>4 DEF HandInv
    <3> QED
      BY <3>1, <3>2
  <2>8. Still
    BY <1>4 DEF reader_control
  <2> HIDE DEF Buffers, Request, Still
  <2> QED
    BY <2>6, <2>7, <2>8, <1>keep
<1>5. ASSUME reader_commits PROVE HandKept
  <2>1. /\ rd.pending # <<>> /\ rd.request = Head(rd.pending) /\ rd.request.kind # "data"
    BY <1>5 DEF reader_commits, Reader, HandInv
  <2>2. Head(rd.pending) \in Sent \cap Whole
    BY <2>1, <1>head
  <2>3. /\ rd'.pending = Tail(rd.pending) /\ rd'.read_buf = rd.read_buf
        /\ rd'.request = NoFrame /\ rd'.pc = "idle"
    BY <1>5 DEF reader_commits, handoff_committed, Record, RdFields
  <2>4. Buffers /\ Request
    BY <1>head, <2>1, <2>3 DEF ReaderTypes
  <2>5. /\ seen'.delivered = Append(seen.delivered, Head(rd.pending).id)
        /\ seen'.committed = Append(seen.committed, Head(rd.pending).id)
        /\ seen'.split_at = seen.split_at
    BY <1>5, <2>1 DEF reader_commits, Record, SeenFields
  <2> HIDE DEF Buffers, Request
  <2> QED
    BY <2>1, <2>2, <2>4, <2>5, <1>give
<1>6. ASSUME reader_orphaned PROVE HandKept
  <2>1. rd.pending # <<>>
    BY <1>6 DEF reader_orphaned, Reader, HandInv
  <2>2. /\ rd'.pending = Tail(rd.pending) /\ rd'.read_buf = rd.read_buf
        /\ rd'.request = NoFrame /\ rd'.pc = "top"
    BY <1>6 DEF reader_orphaned, Record, RdFields
  <2>3. Buffers /\ Request
    BY <1>head, <2>1, <2>2 DEF ReaderTypes
  <2>4. Still
    BY <1>6 DEF reader_orphaned, Record, SeenFields
  <2> HIDE DEF Buffers, Request, Still
  <2> QED
    BY <2>3, <2>4, <1>keep
<1>7. ASSUME reader_meets_error PROVE HandKept
  <2>1. Buffers /\ Request
    <3>1. /\ rd'.pending = rd.pending /\ rd'.read_buf = rd.read_buf /\ rd'.request = rd.request
          /\ rd'.pc # "handoff"
      BY <1>7 DEF reader_meets_error, Record, RdFields
    <3> HIDE DEF Buffers, Request
    <3> QED
      BY <3>1, <1>same
  <2>2. Still
    BY <1>7 DEF reader_meets_error, Ended, stream, Record, SeenFields
  <2> HIDE DEF Buffers, Request, Still
  <2> QED
    BY <2>1, <2>2, <1>keep
<1>8. ASSUME reader_error PROVE HandKept
  <2>1. Buffers /\ Request
    <3>1. /\ rd'.pending = rd.pending /\ rd'.read_buf = rd.read_buf /\ rd'.request = rd.request
          /\ rd'.pc # "handoff"
      BY <1>8 DEF reader_error, Record, RdFields
    <3> HIDE DEF Buffers, Request
    <3> QED
      BY <3>1, <1>same
  <2>2. Still
    BY <1>8 DEF reader_error, Ended, stream, Record, SeenFields
  <2> HIDE DEF Buffers, Request, Still
  <2> QED
    BY <2>1, <2>2, <1>keep
<1>9. ASSUME reader_parses PROVE HandKept
  <2>1. /\ rd'.pending = Complete(UpTo(rd.read_buf)) /\ rd'.read_buf = <<>>
        /\ rd'.request = rd.request /\ rd'.pc \in {"top", "read"}
    BY <1>9 DEF reader_parses, Record, RdFields
  <2>2. rd.request = NoFrame
    BY <1>9 DEF reader_parses, HandInv
  <2>3. rd.read_buf \in Seq(Sent) /\ Sent \subseteq Frames
    BY SentTypes DEF ReaderTypes
  <2>4. Complete(UpTo(rd.read_buf)) \in Seq(Sent \cap Whole) /\ <<>> \in Seq(Sent)
    BY <2>3, BatchType
  <2>5. Buffers /\ Request
    BY <2>1, <2>2, <2>4
  <2>6. Still
    BY <1>9 DEF reader_parses
  <2> HIDE DEF Buffers, Request, Still
  <2> QED
    BY <2>5, <2>6, <1>keep
<1>10. ASSUME reader_told PROVE HandKept
  <2>1. Buffers /\ Request
    <3>1. /\ rd'.pending = rd.pending /\ rd'.read_buf = rd.read_buf /\ rd'.request = rd.request
          /\ rd'.pc # "handoff"
      BY <1>10 DEF reader_told, Record, RdFields
    <3> HIDE DEF Buffers, Request
    <3> QED
      BY <3>1, <1>same
  <2>2. Still
    BY <1>10 DEF reader_told, Ended, stream, Record, SeenFields
  <2> HIDE DEF Buffers, Request, Still
  <2> QED
    BY <2>1, <2>2, <1>keep
<1>11. ASSUME reader_reads PROVE HandKept
  <2>1. PICK k \in 1 .. net.arrived - net.read :
          rd' = [rd EXCEPT !.pc = "top", !.read_buf = SubSeq(net.script, net.read + 1, net.read + k)]
    BY <1>11 DEF reader_reads
  <2>2. net.read + k \in net.read .. net.arrived
    BY DEF NetInv
  <2>3. SubSeq(net.script, net.read + 1, net.read + k) \in Seq(Sent)
    BY <2>2, ReadType
  <2>4. /\ rd'.pending = rd.pending /\ rd'.request = rd.request /\ rd'.pc = "top"
        /\ rd'.read_buf = SubSeq(net.script, net.read + 1, net.read + k)
    BY <2>1 DEF Record, RdFields
  <2>5. Buffers /\ Request
    BY <2>3, <2>4 DEF ReaderTypes, HandInv
  <2>6. Still
    BY <1>11 DEF reader_reads
  <2> HIDE DEF Buffers, Request, Still
  <2> QED
    BY <2>5, <2>6, <1>keep
<1>12. ASSUME reader_input_ends PROVE HandKept
  <2>1. Buffers /\ Request
    <3>1. /\ rd'.pending = rd.pending /\ rd'.read_buf = rd.read_buf /\ rd'.request = rd.request
          /\ rd'.pc # "handoff"
      BY <1>12 DEF reader_input_ends, Record, RdFields
    <3> HIDE DEF Buffers, Request
    <3> QED
      BY <3>1, <1>same
  <2>2. Still
    BY <1>12 DEF reader_input_ends, Ended, stream, Record, SeenFields
  <2> HIDE DEF Buffers, Request, Still
  <2> QED
    BY <2>1, <2>2, <1>keep
<1>13. ASSUME reader_eof PROVE HandKept
  <2>1. Buffers /\ Request
    <3>1. /\ rd'.pending = rd.pending /\ rd'.read_buf = rd.read_buf /\ rd'.request = rd.request
          /\ rd'.pc # "handoff"
      BY <1>13 DEF reader_eof, Record, RdFields
    <3> HIDE DEF Buffers, Request
    <3> QED
      BY <3>1, <1>same
  <2>2. Still
    BY <1>13 DEF reader_eof, Ended, stream, Record, SeenFields
  <2> HIDE DEF Buffers, Request, Still
  <2> QED
    BY <2>1, <2>2, <1>keep
<1>14. ASSUME reader_cancelled PROVE HandKept
  <2>1. Buffers /\ Request
    <3>1. /\ rd'.pending = rd.pending /\ rd'.read_buf = rd.read_buf /\ rd'.request = rd.request
          /\ rd'.pc # "handoff"
      BY <1>14 DEF reader_cancelled, Record, RdFields
    <3> HIDE DEF Buffers, Request
    <3> QED
      BY <3>1, <1>same
  <2>2. Still
    BY <1>14 DEF reader_cancelled, Ended, stream, Record, SeenFields
  <2> HIDE DEF Buffers, Request, Still
  <2> QED
    BY <2>1, <2>2, <1>keep
<1>15. ASSUME reader_dropped PROVE HandKept
  <2>1. Buffers /\ Request
    <3>1. /\ rd'.pending = rd.pending /\ rd'.read_buf = rd.read_buf /\ rd'.request = rd.request
          /\ rd'.pc # "handoff"
      BY <1>15 DEF reader_dropped, Record, RdFields
    <3> HIDE DEF Buffers, Request
    <3> QED
      BY <3>1, <1>same
  <2>2. Still
    BY <1>15 DEF reader_dropped, Ended, stream, Record, SeenFields
  <2> HIDE DEF Buffers, Request, Still
  <2> QED
    BY <2>1, <2>2, <1>keep
<1> QED
  BY <1>1, <1>2, <1>3, <1>4, <1>5, <1>6, <1>7, <1>8, <1>9, <1>10, <1>11, <1>12, <1>13, <1>14,
     <1>15 DEF reader_next

-----------------------------------------------------------------------------
(* The inductive invariant *)

\* The inductive invariant.
IInv ==
    /\ Shapes /\ PhaseInv /\ WholeInv /\ TimeoutInv /\ BudgetInv
    /\ NetInv /\ StreamTypes /\ SeenTypes /\ ReaderTypes /\ HandInv

\* It holds when the handshake is over.
LEMMA InitIInv ==
    Init => IInv
<1> SUFFICES ASSUME Init PROVE IInv
  OBVIOUS
<1> USE DEF Init, StreamInit
<1>1. Shapes
  BY DEF Shapes, Record, UFields, NetFields, SeenFields, ShFields, RdFields, WrFields, DrvFields
<1>2. PhaseInv /\ WholeInv /\ TimeoutInv
  BY DEF PhaseInv, WholeInv, StateInv, HalfInv, TimeoutInv, Timeouts
<1>3. BudgetInv
  BY DEF BudgetInv, HasClose
<1>4. NetInv
  <2>1. setup.script \in Seq(Kinds) /\ setup.leftover \in Nat /\ setup.leftover <= Len(setup.script)
    BY CompioAssumption DEF SetupType
  <2> DEFINE s == [i \in DOMAIN setup.script |-> [kind |-> setup.script[i], id |-> i]]
  <2>2. /\ s \in Seq(Frames) /\ Len(s) = Len(setup.script)
        /\ \A i \in 1 .. Len(s) : s[i].id = i
    <3> DEFINE n == Len(setup.script)
    <3>1. n \in Nat /\ DOMAIN setup.script = 1 .. n /\ \A i \in 1 .. n : setup.script[i] \in Kinds
      BY <2>1
    <3>2. s = [i \in 1 .. n |-> [kind |-> setup.script[i], id |-> i]]
      BY <3>1
    <3> HIDE DEF s, n, Init, StreamInit
    <3>3. \A i \in 1 .. n : s[i] \in Frames /\ s[i].id = i
      BY <3>1, <3>2 DEF Frames
    <3>4. s \in [1 .. n -> Frames]
      BY <3>2, <3>3
    <3>5. s \in Seq(Frames) /\ Len(s) = n
      BY <3>1, <3>4
    <3> QED
      BY <3>3, <3>5 DEF n
  <2>3. net.script = s /\ net.arrived = setup.leftover /\ net.read = setup.leftover
    OBVIOUS
  <2> HIDE DEF s, Init, StreamInit
  <2> QED
    BY <2>1, <2>2, <2>3 DEF NetInv
<1>5. StreamTypes
  <2>1. net.script \in Seq(Sent) /\ setup.leftover \in Nat /\ setup.leftover <= Len(net.script)
    BY <1>4, SentTypes DEF NetInv
  <2>2. u.pending = <<>> /\ u.read_buf = SubSeq(net.script, 1, setup.leftover) /\ u.then = "none"
    OBVIOUS
  <2> HIDE DEF Init, StreamInit
  <2>3. SubSeq(net.script, 1, setup.leftover) \in Seq(Sent)
    BY <2>1
  <2> QED
    BY <2>2, <2>3 DEF StreamTypes
<1>6. SeenTypes /\ ReaderTypes /\ HandInv
  BY DEF SeenTypes, ReaderTypes, HandInv
<1> QED
  BY <1>1, <1>2, <1>3, <1>4, <1>5, <1>6 DEF IInv

\* The script stays, so reading stays within it.
LEMMA NetInvKept ==
    ASSUME NetInv, NetKept
    PROVE  NetInv' /\ Sent' = Sent /\ ControlIds' = ControlIds
<1>1. net'.script = net.script /\ net'.arrived = net.arrived /\ net'.read \in net.read .. net.arrived
  BY DEF NetKept
<1>2. net'.read \in 0 .. net'.arrived
  BY <1>1 DEF NetInv
<1> QED
  BY <1>1, <1>2 DEF NetInv, Sent, ControlIds

\* A step of the unified stream.
LEMMA StreamKeeps ==
    ASSUME IInv, StreamStep, UNCHANGED Unified
    PROVE  IInv'
<1>un. UNCHANGED <<sh, rd, wr, drv>>
  BY DEF Unified
<1>0. /\ Record(u, UFields) /\ Record(net, NetFields) /\ Record(seen, SeenFields)
      /\ Record(sh, ShFields) /\ Record(rd, RdFields) /\ Record(wr, WrFields) /\ Record(drv, DrvFields)
  BY DEF IInv, Shapes
<1>inv. /\ PhaseInv /\ WholeInv /\ TimeoutInv /\ BudgetInv
        /\ NetInv /\ StreamTypes /\ SeenTypes /\ ReaderTypes /\ HandInv
  BY DEF IInv
<1>1. /\ Record(u', UFields) /\ Record(net', NetFields) /\ Record(seen', SeenFields)
      /\ u.phase = "unified" /\ u'.phase = "unified" /\ setup' = setup /\ (seen.cut => seen'.cut)
  BY <1>0, StreamShape
<1>2. Shapes'
  BY <1>0, <1>1, <1>un DEF Shapes
<1>3. PhaseInv'
  BY <1>1, <1>un, <1>inv DEF PhaseInv
<1>4. WholeInv'
  BY <1>0, <1>1, <1>inv, <1>un, StreamWhole
<1>5. TimeoutInv'
  BY <1>1, <1>un, <1>inv DEF TimeoutInv
<1>6. u.pending \in Seq(Frames)
  <2>1. u.pending \in Seq(Sent \cap Whole) /\ Sent \cap Whole \subseteq Frames
    BY <1>inv, SentTypes DEF StreamTypes
  <2> QED
    BY <2>1
<1>7. BudgetInv'
  BY <1>0, <1>1, <1>6, <1>inv, StreamBudget
<1>8. NetInv' /\ Sent' = Sent /\ ControlIds' = ControlIds
  BY <1>0, <1>inv, StreamNet, NetInvKept
<1>9. StreamTypes'
  BY <1>0, <1>inv, StreamTyped
<1>10. SeenTypes' /\ seen'.committed = seen.committed
  <2>1. Gives
    BY <1>0, <1>inv, StreamGives
  <2>2. /\ seen.delivered \in Seq(Nat) /\ seen.committed \in Seq(Nat)
        /\ seen.split_at \in 0 .. Len(seen.delivered)
    BY <1>inv DEF SeenTypes
  <2>3. \A f \in Sent \cap Whole : f.id \in Nat
    BY <1>inv, SentTypes
  <2>4. /\ seen'.delivered \in Seq(Nat) /\ seen.split_at \in 0 .. Len(seen'.delivered)
    BY <2>1, <2>2, <2>3, OneMore DEF Gives
  <2> QED
    BY <2>1, <2>2, <2>4 DEF Gives, SeenTypes
<1>11. ReaderTypes'
  BY <1>8, <1>un, <1>inv DEF ReaderTypes
<1>12. HandInv'
  BY <1>1, <1>10, <1>un, <1>inv DEF HandInv
<1> QED
  BY <1>2, <1>3, <1>4, <1>5, <1>7, <1>8, <1>9, <1>10, <1>11, <1>12 DEF IInv

\* split(): between two calls, with no frame half written.
LEMMA SplitKeeps ==
    ASSUME IInv, split
    PROVE  IInv'
<1>0. /\ Record(u, UFields) /\ Record(net, NetFields) /\ Record(seen, SeenFields)
      /\ Record(sh, ShFields) /\ Record(rd, RdFields) /\ Record(wr, WrFields) /\ Record(drv, DrvFields)
  BY DEF IInv, Shapes
<1>inv. /\ PhaseInv /\ WholeInv /\ TimeoutInv /\ BudgetInv
        /\ NetInv /\ StreamTypes /\ SeenTypes /\ ReaderTypes /\ HandInv
  BY DEF IInv
<1>net. net' = net /\ u.phase = "unified" /\ u.pc = "idle" /\ due' = {}
  BY DEF split, At
<1>1. /\ Record(u', UFields) /\ u'.phase = "split" /\ u'.pending = <<>> /\ u'.read_buf = <<>>
      /\ u'.post_expiry = u.post_expiry /\ u'.then = u.then /\ u'.msg = u.msg
  BY <1>0 DEF split, Record, UFields
<1>2. /\ Record(rd', RdFields) /\ rd'.pc = "idle" /\ rd'.pending = u.pending
      /\ rd'.read_buf = u.read_buf /\ rd'.request = rd.request
  BY <1>0 DEF split, reader_half, Record, RdFields
<1>3. Record(wr', WrFields) /\ wr'.results = wr.results
  BY <1>0 DEF split, Record, WrFields
<1>4. /\ Record(drv', DrvFields) /\ drv'.pc = "top" /\ drv'.hasty = drv.hasty
      /\ drv'.released = drv.released
  BY <1>0 DEF split, Record, DrvFields
<1>5. /\ Record(seen', SeenFields) /\ seen'.ended = "no" /\ seen'.late_reads = seen.late_reads
      /\ seen'.late_pong = seen.late_pong /\ seen'.delivered = seen.delivered /\ seen'.cut = seen.cut
      /\ seen'.committed = seen.committed /\ seen'.split_at = Len(seen.delivered)
  BY <1>0 DEF split, Record, SeenFields
<1>6. /\ Record(sh', ShFields) /\ sh'.notice = sh.notice
      /\ sh'.terminal \in {"ConnectionClosed", "none"}
      /\ u.state = "Closed" => sh'.status = "Closed"
  BY <1>0 DEF split, Record, ShFields
<1>7. Shapes'
  BY <1>0, <1>net, <1>1, <1>2, <1>3, <1>4, <1>5, <1>6 DEF Shapes
<1>8. PhaseInv'
  BY <1>1 DEF PhaseInv
<1>9. WholeInv'
  BY <1>inv, <1>net, <1>1, <1>4, <1>5, <1>6 DEF WholeInv, StateInv, HalfInv
<1>10. TimeoutInv'
  BY <1>inv, <1>1, <1>3, <1>4, <1>5, <1>6 DEF TimeoutInv, Timeouts
<1>11. BudgetInv'
  BY <1>inv, <1>1, <1>5 DEF BudgetInv
<1>12. NetInv' /\ Sent' = Sent /\ ControlIds' = ControlIds
  BY <1>inv, <1>net DEF NetInv, Sent, ControlIds
<1>13. StreamTypes'
  BY <1>inv, <1>12, <1>1 DEF StreamTypes
<1>14. SeenTypes'
  BY <1>inv, <1>5 DEF SeenTypes
<1>15. ReaderTypes'
  BY <1>inv, <1>12, <1>2 DEF ReaderTypes, StreamTypes
<1>16. HandInv'
  <2>1. AfterSplit' = <<>>
    <3>1. AfterSplit' = SubSeq(seen.delivered, Len(seen.delivered) + 1, Len(seen.delivered))
      BY <1>5 DEF AfterSplit
    <3>2. seen.delivered \in Seq(Nat)
      BY <1>inv DEF SeenTypes
    <3> QED
      BY <3>1, <3>2
  <2>2. seen'.committed = Filter(AfterSplit', ControlIds')
    BY <2>1, <1>5, <1>inv, <1>net, FilterEmpty DEF HandInv
  <2> QED
    BY <2>2, <1>1, <1>2, <1>inv, <1>net DEF HandInv
<1> QED
  BY <1>7, <1>8, <1>9, <1>10, <1>11, <1>12, <1>13, <1>14, <1>15, <1>16 DEF IInv

\* A step of the split reader.
LEMMA ReaderKeeps ==
    ASSUME IInv, reader_next \/ reader_cancelled \/ reader_dropped
    PROVE  IInv'
<1>0. /\ Record(u, UFields) /\ Record(net, NetFields) /\ Record(seen, SeenFields)
      /\ Record(sh, ShFields) /\ Record(rd, RdFields) /\ Record(wr, WrFields) /\ Record(drv, DrvFields)
  BY DEF IInv, Shapes
<1>inv. /\ PhaseInv /\ WholeInv /\ TimeoutInv /\ BudgetInv
        /\ NetInv /\ StreamTypes /\ SeenTypes /\ ReaderTypes /\ HandInv
  BY DEF IInv
<1>eff. ReaderEffect
  BY <1>0, ReaderSteps
<1>un. UNCHANGED <<setup, u, due, wr, drv>> /\ u.phase = "split"
  BY <1>eff, <1>inv DEF ReaderEffect, PhaseInv
<1>1. Shapes'
  BY <1>0, <1>eff, <1>un DEF Shapes, ReaderEffect
<1>2. PhaseInv'
  BY <1>un DEF PhaseInv
<1>3. WholeInv'
  BY <1>eff, <1>un, <1>inv DEF WholeInv, StateInv, HalfInv, ReaderEffect
<1>4. TimeoutInv'
  BY <1>eff, <1>un, <1>inv DEF TimeoutInv, ReaderEffect, Timeouts
<1>5. BudgetInv'
  BY <1>eff, <1>un, <1>inv DEF BudgetInv, ReaderEffect
<1>6. NetInv' /\ Sent' = Sent
  <2>1. net.read \in Nat /\ net.arrived \in Nat /\ net.read <= net.arrived
    BY <1>inv DEF NetInv
  <2>2. net'.read \in net.read .. net.arrived
    BY <2>1, <1>eff DEF ReaderEffect
  <2> QED
    BY <2>2, <1>eff, <1>inv, NetInvKept DEF ReaderEffect, NetKept
<1>7. StreamTypes'
  BY <1>6, <1>un, <1>inv DEF StreamTypes
<1>8. ReaderTypes' /\ HandInv' /\ SeenTypes'
  BY <1>0, <1>un, <1>inv, ReaderHands DEF HandKept
<1> QED
  BY <1>1, <1>2, <1>3, <1>4, <1>5, <1>6, <1>7, <1>8 DEF IInv

\* A step of the split writer.
LEMMA WriterKeeps ==
    ASSUME IInv, writer_send \/ writer_cancelled \/ writer_dropped
    PROVE  IInv'
<1>0. /\ Record(u, UFields) /\ Record(net, NetFields) /\ Record(seen, SeenFields)
      /\ Record(sh, ShFields) /\ Record(rd, RdFields) /\ Record(wr, WrFields) /\ Record(drv, DrvFields)
  BY DEF IInv, Shapes
<1>inv. /\ PhaseInv /\ WholeInv /\ TimeoutInv /\ BudgetInv
        /\ NetInv /\ StreamTypes /\ SeenTypes /\ ReaderTypes /\ HandInv
  BY DEF IInv
<1>eff. WriterEffect
  BY <1>0, WriterSteps
<1>un. UNCHANGED <<setup, u, net, due, rd, drv>> /\ u.phase = "split"
  BY <1>eff, <1>inv DEF WriterEffect, PhaseInv
<1>1. Shapes'
  BY <1>0, <1>eff, <1>un DEF Shapes, WriterEffect
<1>2. PhaseInv'
  BY <1>un DEF PhaseInv
<1>3. WholeInv'
  BY <1>eff, <1>un, <1>inv DEF WholeInv, StateInv, HalfInv, WriterEffect
<1>4. TimeoutInv'
  BY <1>eff, <1>un, <1>inv DEF TimeoutInv, WriterEffect, Timeouts
<1>5. BudgetInv'
  BY <1>eff, <1>un, <1>inv DEF BudgetInv, WriterEffect
<1>6. NetInv' /\ Sent' = Sent /\ ControlIds' = ControlIds
  BY <1>un, <1>inv DEF NetInv, Sent, ControlIds
<1>7. StreamTypes' /\ ReaderTypes'
  BY <1>6, <1>un, <1>inv DEF StreamTypes, ReaderTypes
<1>8. SeenTypes' /\ AfterSplit' = AfterSplit
  BY <1>eff, <1>inv DEF WriterEffect, SeenTypes, AfterSplit
<1>9. HandInv'
  BY <1>6, <1>8, <1>eff, <1>un, <1>inv DEF WriterEffect, HandInv
<1> QED
  BY <1>1, <1>2, <1>3, <1>4, <1>5, <1>6, <1>7, <1>8, <1>9 DEF IInv

\* A step of the driver.
LEMMA DriverKeeps ==
    ASSUME IInv, DriverStep
    PROVE  IInv'
<1>0. /\ Record(u, UFields) /\ Record(net, NetFields) /\ Record(seen, SeenFields)
      /\ Record(sh, ShFields) /\ Record(rd, RdFields) /\ Record(wr, WrFields) /\ Record(drv, DrvFields)
  BY DEF IInv, Shapes
<1>inv. /\ PhaseInv /\ WholeInv /\ TimeoutInv /\ BudgetInv
        /\ NetInv /\ StreamTypes /\ SeenTypes /\ ReaderTypes /\ HandInv
  BY DEF IInv
<1>eff. /\ Record(net', NetFields) /\ Record(sh', ShFields) /\ Record(wr', WrFields)
        /\ Record(drv', DrvFields) /\ UNCHANGED <<setup, u, seen, rd>> /\ u.phase = "split"
        /\ net'.script = net.script /\ net'.arrived = net.arrived /\ net'.read = net.read
  BY <1>0, <1>inv, DriverShape
<1>1. Shapes'
  BY <1>0, <1>eff DEF Shapes
<1>2. PhaseInv'
  BY <1>eff DEF PhaseInv
<1>3. WholeInv'
  BY <1>0, <1>eff, <1>inv, DriverWhole
<1>4. TimeoutInv'
  BY <1>0, <1>eff, <1>inv, DriverTimeout
<1>5. BudgetInv'
  BY <1>eff, <1>inv DEF BudgetInv
<1>6. NetInv' /\ Sent' = Sent /\ ControlIds' = ControlIds
  BY <1>eff, <1>inv DEF NetInv, Sent, ControlIds
<1>7. StreamTypes' /\ ReaderTypes'
  BY <1>6, <1>eff, <1>inv DEF StreamTypes, ReaderTypes
<1>8. SeenTypes' /\ AfterSplit' = AfterSplit
  BY <1>eff, <1>inv DEF SeenTypes, AfterSplit
<1>9. HandInv'
  BY <1>6, <1>8, <1>eff, <1>inv DEF HandInv
<1> QED
  BY <1>1, <1>2, <1>3, <1>4, <1>5, <1>6, <1>7, <1>8, <1>9 DEF IInv

\* A step of the peer or of the transport.
LEMMA TransportKeeps ==
    ASSUME IInv, peer_sends \/ fills \/ frees \/ ends, UNCHANGED Unified
    PROVE  IInv'
<1>0. /\ Record(u, UFields) /\ Record(net, NetFields) /\ Record(seen, SeenFields)
      /\ Record(sh, ShFields) /\ Record(rd, RdFields) /\ Record(wr, WrFields) /\ Record(drv, DrvFields)
  BY DEF IInv, Shapes
<1>inv. /\ PhaseInv /\ WholeInv /\ TimeoutInv /\ BudgetInv
        /\ NetInv /\ StreamTypes /\ SeenTypes /\ ReaderTypes /\ HandInv
  BY DEF IInv
<1>un. UNCHANGED <<setup, u, due, seen, sh, rd, wr, drv>>
  BY DEF peer_sends, fills, frees, ends, Unified
<1>eff. /\ Record(net', NetFields) /\ net'.partial = net.partial /\ net'.torn = net.torn
        /\ net'.script = net.script /\ net'.read = net.read
        /\ \/ net'.arrived = net.arrived
           \/ net.arrived < Len(net.script) /\ net'.arrived = net.arrived + 1
  BY <1>0 DEF peer_sends, fills, frees, ends, Record, NetFields
<1>1. Shapes' /\ PhaseInv'
  BY <1>0, <1>eff, <1>un, <1>inv DEF Shapes, PhaseInv
<1>2. WholeInv' /\ TimeoutInv' /\ BudgetInv'
  BY <1>eff, <1>un, <1>inv DEF WholeInv, StateInv, HalfInv, TimeoutInv, BudgetInv
<1>3. NetInv'
  <2>1. net.arrived \in Nat /\ net.read \in Nat /\ net.read <= net.arrived
        /\ net.arrived <= Len(net.script) /\ Len(net.script) \in Nat
    BY <1>inv DEF NetInv
  <2>2. net'.arrived \in 0 .. Len(net.script) /\ net'.read \in 0 .. net'.arrived
    BY <2>1, <1>eff
  <2> QED
    BY <2>2, <1>eff, <1>inv DEF NetInv
<1>4. Sent' = Sent /\ ControlIds' = ControlIds
  BY <1>eff DEF Sent, ControlIds
<1>5. StreamTypes' /\ ReaderTypes'
  BY <1>4, <1>un, <1>inv DEF StreamTypes, ReaderTypes
<1>6. SeenTypes' /\ AfterSplit' = AfterSplit
  BY <1>un, <1>inv DEF SeenTypes, AfterSplit
<1>7. HandInv'
  BY <1>4, <1>6, <1>un, <1>inv DEF HandInv
<1> QED
  BY <1>1, <1>2, <1>3, <1>5, <1>6, <1>7 DEF IInv

\* Every step keeps the invariant.
LEMMA NextKeeps ==
    ASSUME IInv, [Next]_vars
    PROVE  IInv'
<1>1. CASE UNCHANGED vars
  <2>1. UNCHANGED <<u, net, due, seen, sh, rd, wr, drv>>
    BY <1>1 DEF vars
  <2>2. Shapes' /\ PhaseInv' /\ WholeInv' /\ TimeoutInv' /\ BudgetInv'
    BY <2>1 DEF IInv, Shapes, PhaseInv, WholeInv, StateInv, HalfInv, TimeoutInv, BudgetInv
  <2>3. NetInv' /\ Sent' = Sent /\ ControlIds' = ControlIds /\ AfterSplit' = AfterSplit
    BY <2>1 DEF IInv, NetInv, Sent, ControlIds, AfterSplit
  <2>4. StreamTypes' /\ SeenTypes' /\ ReaderTypes' /\ HandInv'
    BY <2>1, <2>3 DEF IInv, StreamTypes, SeenTypes, ReaderTypes, HandInv
  <2> QED
    BY <2>2, <2>3, <2>4 DEF IInv
<1>2. CASE StreamStep /\ UNCHANGED Unified
  BY <1>2, StreamKeeps
<1>3. CASE split
  BY <1>3, SplitKeeps
<1>4. CASE reader_next \/ reader_cancelled \/ reader_dropped
  BY <1>4, ReaderKeeps
<1>5. CASE writer_send \/ writer_cancelled \/ writer_dropped
  BY <1>5, WriterKeeps
<1>6. CASE DriverStep
  BY <1>6, DriverKeeps
<1>7. CASE (peer_sends \/ fills \/ frees \/ ends) /\ UNCHANGED Unified
  BY <1>7, TransportKeeps
<1> QED
  BY <1>1, <1>2, <1>3, <1>4, <1>5, <1>6, <1>7
  DEF Next, StreamStep, DriverStep, compressed_next, compressed_flush, compressed_reader_next,
      compressed_writer_send

\* The invariant of the Compio streams, unified and split.
THEOREM CompioInvariant == Spec => []IInv
<1>1. Init => IInv
  BY InitIInv
<1>2. IInv /\ [Next]_vars => IInv'
  BY NextKeeps
<1> QED
  BY <1>1, <1>2, PTL DEF Spec

\* The unified stream and the driver of its halves never cut a frame short and then write
\* on, whichever write fails or runs out of time and also when next() is dropped in the cleanup
\* after the peer's Close, unless the application itself dropped another call of the unified
\* stream half way through a frame (which leaves the stream open, compio.rs:353): for every
\* script, item and option.
THEOREM FramesAlwaysWhole == Spec => []WholeFrames
<1>1. IInv => WholeFrames
  BY DEF IInv, WholeInv, HalfInv, WholeFrames
<1> QED
  BY <1>1, CompioInvariant, PTL

\* A heartbeat or idle timeout of the split stream is reported, to the reader or to a
\* sender, only after the transport writer has been released, and inbound data the reader
\* noted has been considered first.
THEOREM TimeoutsAlwaysRelease == Spec => []TimeoutReleases
<1>1. IInv => TimeoutReleases
  BY DEF IInv, TimeoutInv, Timeouts, TimeoutReleases
<1> QED
  BY <1>1, CompioInvariant, PTL

\* One nonwaiting read after the closing budget, and no Pong behind an accepted Close or an
\* expired budget, however often next() is called.
THEOREM BudgetAlwaysKept == Spec => []ClosingBudget
<1>1. IInv => ClosingBudget
  BY DEF IInv, BudgetInv, ClosingBudget
<1> QED
  BY <1>1, CompioInvariant, PTL

\* After a split, the control messages the reader returned and the requests the driver was
\* handed are the same, in order and once each.
THEOREM ControlsAlwaysHandedOver == Spec => []HandedOver
<1>1. IInv => HandedOver
  BY HandInvIsEnough DEF IInv
<1> QED
  BY <1>1, CompioInvariant, PTL

-----------------------------------------------------------------------------
(* The order of the messages *)

\* The unified stream: what the call in progress holds.
Hand == IF u.then \in {"pong", "finish"} THEN <<u.msg.id>> ELSE <<>>

\* What the call in progress holds while it flushes, and that nothing waits when it reads.
CallInv ==
    /\ u.pc \notin {"flush", "shutdown"} => u.then = "none"
    /\ u.pc = "shutdown" => u.then # "pong"
    /\ u.then = "finish" => u.pending = <<>> /\ ~u.parse_error
    /\ u.pc \in {"read", "recover"} => u.pending = <<>> /\ u.read_buf = <<>>

\* Returned, in hand, in the batch, in the read buffer, not yet read: the script, in this
\* order (Flow is defined in Lemmas).
CallFlow ==
    Flow(net.script, Whole, net.read, seen.discarded, seen.delivered, Hand, u.pending, u.read_buf,
         u.parse_error, u.state # "Closed" /\ ~u.parse_error)

\* The same for the reader half, which has nothing in hand.
ReaderFlow ==
    Flow(net.script, Whole, net.read, seen.discarded, seen.delivered, <<>>, rd.pending, rd.read_buf,
         rd.parse_error, sh.status # "Closed" /\ ~rd.parse_error)

\* A peer sends nothing behind its Close.
CloseIsLast ==
    \A s \in Setups : \A i \in DOMAIN s.script : s.script[i] = "close" => i = Len(s.script)
\* The same of the script of this run.
LastInv == \A i \in 1 .. Len(net.script) : net.script[i].kind = "close" => i = Len(net.script)

\* The messages flow through whichever half reads them.
FlowInv ==
    /\ LastInv
    /\ u.phase = "unified" => CallInv /\ CallFlow
    /\ u.phase = "split" => /\ rd.pc = "read" => rd.pending = <<>> /\ rd.read_buf = <<>>
                            /\ ReaderFlow

\* Where the calls of the unified stream are and what they hold.
LEMMA StreamCalls ==
    ASSUME Record(u, UFields), Record(net, NetFields), CallInv, StreamStep
    PROVE  CallInv'
<1>late. ASSUME NEW n, NEW st, DeadlineStep(n, st) PROVE CallInv'
  BY <1>late DEF DeadlineStep, CallInv
<1>1. ASSUME call_next PROVE CallInv'
  BY <1>1
  DEF call_next, At, CallInv, Record, UFields
<1>2. ASSUME next_closed PROVE CallInv'
  BY <1>2
  DEF next_closed, At, Return, Ended, CallInv, Record, UFields
<1>3. ASSUME next_message PROVE CallInv'
  <2> DEFINE st == [Popped EXCEPT
                      !.write_buf = Append(@, [kind |-> "pong", id |-> Head(u.pending).id]),
                      !.msg = Head(u.pending)]
  <2>1. Return(Popped) \/ Flush(net, st, flush_control_bound(Popped), "pong")
    BY <1>3 DEF next_message
  <2>2. Record(Popped, UFields)
    BY DEF Popped, Record, UFields
  <2>3. (u'.pc = "idle" /\ u'.then = "none") \/ (u'.pc = "flush" /\ u'.then = "pong")
    BY <2>1, <2>2 DEF Return, Flush, Record, UFields
  <2> QED
    BY <2>3 DEF CallInv
<1>4. ASSUME next_close PROVE CallInv'
  <2>1. /\ u'.pending = <<>> /\ ~u'.parse_error
        /\ (u'.pc = "idle" /\ u'.then = "none") \/ u'.pc = "flush"
    BY <1>4 DEF next_close, Popped, begin_closing, close_published, Return, Flush, Record, UFields
  <2> QED
    BY <2>1 DEF CallInv
<1>5. ASSUME next_error PROVE CallInv'
  BY <1>5
  DEF next_error, Waiting, At, Return, Ended, CallInv, Record, UFields
<1>6. ASSUME next_deadline_passed PROVE CallInv'
  <2>1. DeadlineStep(net, u)
    BY <1>6, DeadlineFlush DEF next_deadline_passed
  <2> QED
    BY <2>1, <1>late
<1>7. ASSUME process_read_buf PROVE CallInv'
  BY <1>7
  DEF process_read_buf, Parsing, Waiting, At, CallInv, Record, UFields
<1>8. ASSUME next_expired PROVE CallInv'
  BY <1>8
  DEF next_expired, Parsing, Waiting, At, Return, Ended, CallInv, Record, UFields
<1>9. ASSUME next_read PROVE CallInv'
  BY <1>9
  DEF next_read, Parsing, Waiting, At, Expired, late_read_taken, CallInv, Record, UFields
<1>10. ASSUME read_completes PROVE CallInv'
  <2>1. u'.pc \in {"top", "idle"} /\ u'.then \in {u.then, "none"}
    BY <1>10 DEF read_completes, ReadResult, Return, Record, UFields
  <2>2. u.then = "none"
    BY <1>10 DEF read_completes, At, CallInv
  <2> QED
    BY <2>1, <2>2 DEF CallInv
<1>11. ASSUME read_abandoned PROVE CallInv'
  <2>1. CASE u.bound = "close"
    BY <1>11, <2>1 DEF read_abandoned, At, Return, CallInv, Record, UFields
  <2>2. CASE u.bound # "close"
    <3>1. DeadlineStep(net, u)
      BY <1>11, <2>2, DeadlineFlush DEF read_abandoned
    <3> QED
      BY <3>1, <1>late
  <2> QED
    BY <2>1, <2>2
<1>12. ASSUME read_cancelled PROVE CallInv'
  BY <1>12
  DEF read_cancelled, At, CallInv, Record, UFields
<1>13. ASSUME read_recovered PROVE CallInv'
  <2> DEFINE n == [net EXCEPT !.read = net.arrived]
             st == [u EXCEPT !.read_buf = SubSeq(net.script, net.read + 1, net.arrived)]
  <2>1. Record(n, NetFields) /\ Record(st, UFields)
    BY DEF Record, NetFields, UFields
  <2>2. handle_deadline(n, "ping", st)
    BY <1>13 DEF read_recovered
  <2> HIDE DEF n, st
  <2>3. DeadlineStep(n, st)
    BY <2>1, <2>2, DeadlineFlush
  <2> QED
    BY <2>3, <1>late
<1>14. ASSUME recovery_expires PROVE CallInv'
  <2>1. DeadlineStep(net, u)
    BY <1>14, DeadlineFlush DEF recovery_expires
  <2> QED
    BY <2>1, <1>late
<1>15. ASSUME flush_part PROVE CallInv'
  BY <1>15
  DEF flush_part, At, HalfWritten, CallInv, Record, UFields
<1>16. ASSUME flush_completes PROVE CallInv'
  BY <1>16
  DEF flush_completes, At, Return, Delivered, Written, CallInv, Record, UFields
<1>17. ASSUME flush_stops PROVE CallInv'
  BY <1>17
  DEF flush_stops, At, FinishResult, Return, failed_flush, Delivered, Ended, CallInv, Record,
      UFields
<1>18. ASSUME shutdown_ends PROVE CallInv'
  BY <1>18
  DEF shutdown_ends, At, FinishResult, Return, Delivered, Ended, CallInv, Record, UFields
<1>19. ASSUME drop_call PROVE CallInv'
  BY <1>19
  DEF drop_call, Return, CallInv, Record, UFields
<1>20. ASSUME NEW item, send(item) PROVE CallInv'
  BY <1>20, ZenonT(60)
  DEF send, At, begin_closing, Flush, Begun, CallInv, Record, UFields
<1>21. ASSUME NEW d, time_passes(d) PROVE CallInv'
  BY <1>21
  DEF time_passes, CallInv, Record, UFields
<1> QED
  BY <1>1, <1>2, <1>3, <1>4, <1>5, <1>6, <1>7, <1>8, <1>9, <1>10, <1>11, <1>12, <1>13, <1>14,
     <1>15, <1>16, <1>17, <1>18, <1>19, <1>20, <1>21 DEF StreamStep, next_, flush_

\* The parser takes the frames in front of the first bad one.
LEMMA UpToPrefix ==
    ASSUME NEW S, NEW s \in Seq(S)
    PROVE  \E m \in 0 .. Len(s) : /\ UpTo(s) = SubSeq(s, 1, m)
                                  /\ BadAt(s) # {} => m < Len(s)
                                  /\ BadAt(s) = {} => m = Len(s)
<1>1. CASE BadAt(s) = {}
  <2>1. UpTo(s) = SubSeq(s, 1, Len(s)) /\ Len(s) \in 0 .. Len(s)
    BY <1>1 DEF UpTo
  <2> QED
    BY <1>1, <2>1
<1>2. CASE BadAt(s) # {}
  <2> DEFINE b == CHOOSE i \in BadAt(s) : \A j \in BadAt(s) : i <= j
  <2>1. BadAt(s) \in SUBSET Nat /\ BadAt(s) \subseteq 1 .. Len(s)
    BY DEF BadAt
  <2>2. \E i \in BadAt(s) : \A j \in BadAt(s) : i <= j
    BY <2>1, <1>2, LeastNatural
  <2>3. b \in BadAt(s)
    BY <2>2
  <2>4. UpTo(s) = SubSeq(s, 1, b - 1)
    BY <1>2 DEF UpTo
  <2> HIDE DEF b
  <2>5. b \in 1 .. Len(s) /\ Len(s) \in Nat
    BY <2>1, <2>3
  <2>6. b - 1 \in 0 .. Len(s) /\ b - 1 < Len(s)
    BY <2>5
  <2> QED
    BY <1>2, <2>4, <2>6
<1> QED
  BY <1>1, <1>2

\* The script of a run, as the lemmas on message order want it.
LEMMA RunScript ==
    ASSUME NetInv
    PROVE  Script(net.script) /\ FramesOf(net.script) = Sent
<1>1. FramesOf(net.script) = Sent
  BY DEF FramesOf, Sent
<1>2. Numbered(net.script)
  BY DEF NetInv, Numbered
<1> QED
  BY <1>1, <1>2, SentTypes DEF Script

\* Every step of the unified stream keeps the order.
LEMMA StreamFlows ==
    ASSUME Record(u, UFields), Record(net, NetFields), Record(seen, SeenFields), NetInv,
           StreamTypes, WholeInv, u.phase = "unified", CallInv, CallFlow, StreamStep
    PROVE  CallFlow'
<1> DEFINE s == net.script
           Live == u.state # "Closed" /\ ~u.parse_error
           Live2 == u'.state # "Closed" /\ ~u'.parse_error
           Quiet == seen'.delivered = seen.delivered /\ seen'.discarded = seen.discarded
           Front == u'.pending = u.pending /\ u'.read_buf = u.read_buf
           no == FALSE
           yes == TRUE
<1>s. Script(s) /\ FramesOf(s) = Sent
  BY RunScript
<1>net. NetKept
  BY StreamNet
<1>flow. Flow(s, Whole, net.read, seen.discarded, seen.delivered, Hand, u.pending, u.read_buf,
              u.parse_error, Live)
  BY DEF CallFlow
<1>live. /\ Live <=> (u.state # "Closed" /\ ~u.parse_error)
         /\ Live2 <=> (u'.state # "Closed" /\ ~u'.parse_error)
         /\ ~no /\ yes
  OBVIOUS
<1>goal. ASSUME Flow(s, Whole, net'.read, seen'.discarded, seen'.delivered, Hand', u'.pending,
                     u'.read_buf, u'.parse_error, Live2)
         PROVE  CallFlow'
  <2>1. net'.script = s
    BY <1>net DEF NetKept
  <2> QED
    BY <2>1, <1>goal DEF CallFlow
<1> HIDE DEF Live, Live2, no, yes
<1>done. ASSUME NEW h, NEW gap, NEW broken, NEW live,
                Flow(s, Whole, net'.read, gap, seen'.delivered, h, u'.pending, u'.read_buf,
                     broken, live),
                Hand' = h, gap => seen'.discarded,
                u'.parse_error => broken, Live2 => live
         PROVE  CallFlow'
  <2> HIDE DEF s
  <2>1. Flow(s, Whole, net'.read, seen'.discarded, seen'.delivered, h, u'.pending, u'.read_buf,
             u'.parse_error, Live2)
    BY <1>done, FlowWeaker
  <2> QED
    BY <2>1, <1>done, <1>goal
<1>same. ASSUME Front, Quiet, net'.read = net.read, Hand' = Hand,
                u'.parse_error => u.parse_error,
                u'.state # "Closed" => u.state # "Closed" /\ (u.parse_error => u'.parse_error)
         PROVE  CallFlow'
  <2>1. Live2 => Live
    BY <1>same, <1>live
  <2> QED
    BY <2>1, <1>same, <1>flow, <1>done
<1>hand. ASSUME u.pc \notin {"flush", "shutdown"} PROVE Hand = <<>> /\ u.then = "none"
  BY <1>hand DEF CallInv, Hand
<1>hand2. ASSUME u'.then \notin {"pong", "finish"} PROVE Hand' = <<>>
  BY <1>hand2 DEF Hand
<1>late. ASSUME NEW n, NEW st, DeadlineStep(n, st), st.pending = u.pending, st.read_buf = u.read_buf,
                st.parse_error = u.parse_error, n.read = net.read,
                Quiet, u.pc \notin {"flush", "shutdown"}, u.state # "Closed"
         PROVE  CallFlow'
  <2>1. Front /\ u'.parse_error = u.parse_error /\ net'.read = net.read /\ Hand' = <<>>
    BY <1>late, <1>hand2 DEF DeadlineStep
  <2> QED
    BY <2>1, <1>late, <1>hand, <1>same
<1>head. ASSUME Accepting
         PROVE  /\ Hand = <<>> /\ u.pending # <<>> /\ Head(u.pending).id \in Nat
                /\ Flow(s, Whole, net.read, seen.discarded, seen.delivered, <<Head(u.pending).id>>,
                        Tail(u.pending), u.read_buf, u.parse_error, Live)
                /\ Flow(s, Whole, net.read, seen.discarded, Append(seen.delivered, Head(u.pending).id),
                        <<>>, Tail(u.pending), u.read_buf, u.parse_error, Live)
  <2>1. Hand = <<>> /\ u.pending # <<>>
    BY <1>head, <1>hand DEF Accepting, At
  <2>2. Flow(s, Whole, net.read, seen.discarded, seen.delivered, <<>>, u.pending, u.read_buf,
             u.parse_error, Live)
    BY <2>1, <1>flow
  <2> HIDE DEF s
  <2>3. Head(u.pending).id \in Nat
    <3>1. u.pending \in Seq(Sent \cap Whole) /\ \A f \in Sent : f.id \in Nat
      BY SentTypes DEF StreamTypes
    <3> QED
      BY <2>1, <3>1
  <2> QED
    BY <2>1, <2>2, <2>3, <1>s, FlowTakes, FlowGives
<1>msg. ASSUME u.then \in {"pong", "finish"}
        PROVE  /\ u.msg.id \in Nat /\ Hand = <<u.msg.id>>
               /\ Flow(s, Whole, net.read, seen.discarded, Append(seen.delivered, u.msg.id), <<>>,
                       u.pending, u.read_buf, u.parse_error, Live)
               /\ Flow(s, Whole, net.read, yes, seen.delivered, <<>>, u.pending, u.read_buf,
                       u.parse_error, Live)
  <2>1. u.msg.id \in Nat /\ Hand = <<u.msg.id>>
    BY <1>msg, SentTypes DEF StreamTypes, Hand
  <2>2. Flow(s, Whole, net.read, seen.discarded, seen.delivered, <<u.msg.id>>, u.pending, u.read_buf,
             u.parse_error, Live)
    BY <2>1, <1>flow
  <2> HIDE DEF s
  <2> QED
    BY <2>1, <2>2, <1>s, FlowReturns, FlowLoses DEF yes
<1>1. ASSUME call_next PROVE CallFlow'
  <2>1. /\ Front /\ (u'.parse_error => u.parse_error) /\ u'.then \in {u.then, "none"}
        /\ u'.state # "Closed" => u.state # "Closed" /\ u'.parse_error = u.parse_error
    BY <1>1 DEF call_next, Record, UFields
  <2>2. Quiet /\ net' = net
    BY <1>1 DEF call_next, Ended, Record, SeenFields
  <2>3. Hand = <<>> /\ Hand' = <<>>
    BY <1>1, <2>1, <1>hand, <1>hand2 DEF call_next, At
  <2> QED
    BY <2>1, <2>2, <2>3, <1>same
<1>2. ASSUME next_closed PROVE CallFlow'
  <2>1. /\ Front /\ (u'.parse_error => u.parse_error) /\ u'.then \in {u.then, "none"}
        /\ u'.state # "Closed" => u.state # "Closed" /\ u'.parse_error = u.parse_error
    BY <1>2 DEF next_closed, Return, Record, UFields
  <2>2. Quiet /\ net' = net
    BY <1>2 DEF next_closed, Ended, Record, SeenFields
  <2>3. Hand = <<>> /\ Hand' = <<>>
    BY <1>2, <2>1, <1>hand, <1>hand2 DEF next_closed, At
  <2> QED
    BY <2>1, <2>2, <2>3, <1>same
<1>3. ASSUME next_message PROVE CallFlow'
  <2> DEFINE st == [Popped EXCEPT
                      !.write_buf = Append(@, [kind |-> "pong", id |-> Head(u.pending).id]),
                      !.msg = Head(u.pending)]
  <2>0. Accepting
    BY <1>3 DEF next_message
  <2>1. /\ Record(Popped, UFields) /\ Popped.pending = Tail(u.pending)
        /\ Popped.read_buf = u.read_buf /\ Popped.parse_error = u.parse_error
        /\ Popped.state = u.state
    BY DEF Popped, Record, UFields
  <2>2. CASE Flush(net, st, flush_control_bound(Popped), "pong")
    <3>1. /\ u'.pending = Tail(u.pending) /\ u'.read_buf = u.read_buf
          /\ u'.parse_error = u.parse_error /\ u'.state = u.state
          /\ u'.then = "pong" /\ u'.msg = Head(u.pending)
      BY <2>1, <2>2 DEF Flush, Record, UFields
    <3>2. net'.read = net.read
      BY <2>2 DEF Flush, Begun, Record, NetFields
    <3>3. seen'.delivered = seen.delivered /\ seen'.discarded = seen.discarded
      <4>1. ~Return(Popped)
        BY <2>1, <3>1 DEF Return, Record, UFields
      <4> QED
        BY <1>3, <4>1 DEF next_message, Record, SeenFields
    <3>4. Hand' = <<Head(u.pending).id>>
      BY <3>1 DEF Hand
    <3> QED
      BY <2>0, <3>1, <3>2, <3>3, <3>4, <1>head, <1>live, <1>done
  <2>3. CASE ~Flush(net, st, flush_control_bound(Popped), "pong")
    <3>1. Return(Popped) /\ Delivered(Head(u.pending)) /\ net' = net
      BY <1>3, <2>3 DEF next_message
    <3>2. /\ u'.pending = Tail(u.pending) /\ u'.read_buf = u.read_buf
          /\ u'.parse_error = u.parse_error /\ u'.state = u.state /\ u'.then = "none"
      BY <2>1, <3>1 DEF Return, Record, UFields
    <3>3. /\ seen'.delivered = Append(seen.delivered, Head(u.pending).id)
          /\ seen'.discarded = seen.discarded
      BY <3>1 DEF Delivered, Record, SeenFields
    <3>4. Hand' = <<>>
      BY <3>2, <1>hand2
    <3> QED
      BY <2>0, <3>1, <3>2, <3>3, <3>4, <1>head, <1>live, <1>done
  <2> QED
    BY <2>2, <2>3
<1>4. ASSUME next_close PROVE CallFlow'
  <2>0. Accepting
    BY <1>4 DEF next_close
  <2> DEFINE x == Head(u.pending).id
             q == Tail(u.pending)
  <2>1. /\ Flow(s, Whole, net.read, seen.discarded, seen.delivered, <<x>>, q, u.read_buf,
                u.parse_error, Live)
        /\ Flow(s, Whole, net.read, seen.discarded, Append(seen.delivered, x), <<>>, q, u.read_buf,
                u.parse_error, Live)
    BY <2>0, <1>head
  <2>2. u'.pending = <<>> /\ u'.read_buf = <<>> /\ u'.state = "Closed" /\ ~u'.parse_error
    BY <1>4, ZenonT(60) DEF next_close, Popped, begin_closing, close_published, Return, Flush, Record, UFields
  <2>3. \/ u'.then = "finish" /\ u'.msg = Head(u.pending) /\ ~u.shutdown
        \/ u'.then = "none" /\ u.shutdown
    BY <1>4 DEF next_close, Popped, begin_closing, close_published, Return, Flush, Record, UFields
  <2>4. net'.read = net.read
    BY <1>4 DEF next_close, Flush, Begun, Record, NetFields
  <2>5. CASE u.shutdown
    <3>1. /\ seen'.delivered = Append(seen.delivered, x) /\ seen'.discarded = seen.discarded
      BY <1>4, <2>5 DEF next_close, Delivered, Record, SeenFields
    <3>2. Hand' = <<>>
      BY <2>3, <2>5, <1>hand2
    <3> HIDE DEF x, q, s
    <3>3. Flow(s, Whole, net.read, seen.discarded, Append(seen.delivered, x), <<>>, <<>>, <<>>, no, no)
      BY <2>1, <1>s, FlowEnds DEF no
    <3> QED
      BY <2>2, <2>4, <3>1, <3>2, <3>3, <1>live, <1>done
  <2>6. CASE ~u.shutdown
    <3>1. seen' = seen
      BY <1>4, <2>6 DEF next_close
    <3>2. Hand' = <<x>>
      BY <2>3, <2>6 DEF Hand
    <3> HIDE DEF x, q, s
    <3>3. Flow(s, Whole, net.read, seen.discarded, seen.delivered, <<x>>, <<>>, <<>>, no, no)
      BY <2>1, <1>s, FlowEnds DEF no
    <3> QED
      BY <2>2, <2>4, <3>1, <3>2, <3>3, <1>live, <1>done
  <2> QED
    BY <2>5, <2>6
<1>5. ASSUME next_error PROVE CallFlow'
  <2>1. /\ Front /\ (u'.parse_error => u.parse_error) /\ u'.then \in {u.then, "none"}
        /\ u'.state # "Closed" => u.state # "Closed" /\ u'.parse_error = u.parse_error
    BY <1>5 DEF next_error, Return, Record, UFields
  <2>2. Quiet /\ net' = net
    BY <1>5 DEF next_error, Ended, Record, SeenFields
  <2>3. Hand = <<>> /\ Hand' = <<>>
    BY <1>5, <2>1, <1>hand, <1>hand2 DEF next_error, Waiting, At
  <2> QED
    BY <2>1, <2>2, <2>3, <1>same
<1>6. ASSUME next_deadline_passed PROVE CallFlow'
  <2>1. DeadlineStep(net, u)
    BY <1>6, DeadlineFlush DEF next_deadline_passed
  <2>2. Quiet /\ u.pc \notin {"flush", "shutdown"} /\ u.state # "Closed"
    BY <1>6 DEF next_deadline_passed, Waiting, At
  <2> HIDE DEF Quiet
  <2> QED
    BY <2>1, <2>2, <1>late
<1>7. ASSUME process_read_buf PROVE CallFlow'
  <2>0. /\ u.pending = <<>> /\ u.state # "Closed" /\ ~u.parse_error /\ Hand = <<>>
    BY <1>7, <1>hand DEF process_read_buf, Parsing, Waiting, At
  <2> DEFINE buf == u.read_buf
             bad == BadAt(buf) # {}
  <2>1. /\ u'.pending = Complete(UpTo(buf)) /\ u'.read_buf = <<>> /\ u'.parse_error = bad
        /\ u'.then = u.then
    BY <1>7 DEF process_read_buf, Record, UFields
  <2>2. Quiet /\ net' = net /\ Hand' = <<>>
    BY <1>7, <2>1, <1>hand, <1>hand2 DEF process_read_buf, Parsing, Waiting, At
  <2>3. buf \in Seq(Sent)
    BY DEF StreamTypes
  <2>4. PICK m \in 0 .. Len(buf) : /\ UpTo(buf) = SubSeq(buf, 1, m)
                                   /\ (bad => m < Len(buf)) /\ (~bad => m = Len(buf))
    BY <2>3, UpToPrefix
  <2>5. Flow(s, Whole, net.read, seen.discarded, seen.delivered, <<>>, <<>>, buf, u.parse_error, TRUE)
    <3>1. Flow(s, Whole, net.read, seen.discarded, seen.delivered, <<>>, <<>>, buf, u.parse_error, Live)
      BY <2>0, <1>flow
    <3>2. Live
      BY <2>0, <1>live
    <3> QED
      BY <3>1, <3>2 DEF Flow
  <2> DEFINE good == ~bad
  <2>g. good <=> ~bad
    OBVIOUS
  <2>h. (bad => m < Len(buf)) /\ (good => m = Len(buf))
    BY <2>4
  <2> HIDE DEF buf, bad, good, s
  <2>6. Flow(s, Whole, net.read, seen.discarded, seen.delivered, <<>>, Filter(SubSeq(buf, 1, m), Whole),
             <<>>, bad, good)
    BY <2>h, <2>5, <1>s, FlowParses
  <2>7. u'.pending = Filter(SubSeq(buf, 1, m), Whole)
    BY <2>1, <2>4 DEF Complete, Whole
  <2> QED
    BY <2>1, <2>2, <2>6, <2>7, <2>g, <1>live, <1>done
<1>8. ASSUME next_expired PROVE CallFlow'
  <2>1. /\ Front /\ (u'.parse_error => u.parse_error) /\ u'.then \in {u.then, "none"}
        /\ u'.state # "Closed" => u.state # "Closed" /\ u'.parse_error = u.parse_error
    BY <1>8 DEF next_expired, Return, Record, UFields
  <2>2. Quiet /\ net' = net
    BY <1>8 DEF next_expired, Ended, Record, SeenFields
  <2>3. Hand = <<>> /\ Hand' = <<>>
    BY <1>8, <2>1, <1>hand, <1>hand2 DEF next_expired, Parsing, Waiting, At
  <2> QED
    BY <2>1, <2>2, <2>3, <1>same
<1>9. ASSUME next_read PROVE CallFlow'
  <2>1. /\ Front /\ (u'.parse_error => u.parse_error) /\ u'.then \in {u.then, "none"}
        /\ u'.state # "Closed" => u.state # "Closed" /\ u'.parse_error = u.parse_error
    BY <1>9 DEF next_read, late_read_taken, Record, UFields
  <2>2. Quiet /\ net' = net
    BY <1>9 DEF next_read, Ended, Record, SeenFields
  <2>3. Hand = <<>> /\ Hand' = <<>>
    BY <1>9, <2>1, <1>hand, <1>hand2 DEF next_read, Parsing, Waiting, At
  <2> QED
    BY <2>1, <2>2, <2>3, <1>same
<1>10. ASSUME read_completes PROVE CallFlow'
  <2>0. /\ u.pending = <<>> /\ u.read_buf = <<>> /\ Hand = <<>> /\ u.then = "none"
    BY <1>10, <1>hand DEF read_completes, At, CallInv
  <2>1. CASE net.arrived > net.read
    <3>1. PICK k \in 1 .. net.arrived - net.read :
            /\ u' = [u EXCEPT !.read_buf = @ \o SubSeq(net.script, net.read + 1, net.read + k),
                              !.pc = "top", !.bound = "none"]
            /\ net' = [net EXCEPT !.read = @ + k]
      BY <1>10, <2>1 DEF read_completes, ReadResult
    <3> DEFINE q == net.read + k
               new == SubSeq(s, net.read + 1, q)
    <3>2. q \in net.read .. Len(s) /\ q \in net.read .. net.arrived
      BY DEF NetInv
    <3>3. new \in Seq(Sent)
      BY <3>2, ReadType
    <3>4. /\ u'.pending = u.pending /\ u'.read_buf = u.read_buf \o new
          /\ u'.then = u.then /\ u'.parse_error = u.parse_error /\ u'.state = u.state
      BY <3>1 DEF Record, UFields
    <3>5. net'.read = q
      BY <3>1 DEF Record, NetFields
    <3>6. u'.read_buf = new
      <4> HIDE DEF new
      <4>1. <<>> \o new = new
        BY <3>3
      <4> QED
        BY <2>0, <3>4, <4>1
    <3>7. Quiet
      BY <1>10, <2>1 DEF read_completes, ReadResult
    <3>8. Flow(s, Whole, net.read, seen.discarded, seen.delivered, <<>>, <<>>, <<>>, u.parse_error, Live)
      BY <2>0, <1>flow
    <3> HIDE DEF q
    <3>9. Flow(s, Whole, q, seen.discarded, seen.delivered, <<>>, <<>>, new, u.parse_error, Live)
      BY <3>2, <3>8, <1>s, FlowReads
    <3>10. Hand' = <<>>
      BY <2>0, <3>4, <1>hand2
    <3> HIDE DEF new
    <3> QED
      BY <2>0, <3>4, <3>5, <3>6, <3>7, <3>9, <3>10, <1>live, <1>done
  <2>2. CASE ~(net.arrived > net.read)
    <3>1. Front /\ u'.then = "none" /\ u'.state = "Closed" /\ u'.parse_error = u.parse_error
      BY <1>10, <2>2 DEF read_completes, ReadResult, Return, Record, UFields
    <3>2. Quiet /\ net' = net
      BY <1>10, <2>2 DEF read_completes, ReadResult, Ended, Record, SeenFields
    <3> QED
      BY <2>0, <3>1, <3>2, <1>hand2, <1>same
  <2> QED
    BY <2>1, <2>2
<1>11. ASSUME read_abandoned PROVE CallFlow'
  <2>0. u.pc \notin {"flush", "shutdown"} /\ u.state # "Closed"
    BY <1>11 DEF read_abandoned, At, WholeInv, StateInv
  <2>1. CASE u.bound = "close"
    <3>1. Front /\ u'.then = "none" /\ u'.state = "Closed" /\ u'.parse_error = u.parse_error
      BY <1>11, <2>1 DEF read_abandoned, Return, Record, UFields
    <3>2. Quiet /\ net' = net
      BY <1>11, <2>1 DEF read_abandoned, Ended, Record, SeenFields
    <3> QED
      BY <2>0, <3>1, <3>2, <1>hand, <1>hand2, <1>same
  <2>2. CASE u.bound # "close"
    <3>1. DeadlineStep(net, u)
      BY <1>11, <2>2, DeadlineFlush DEF read_abandoned
    <3>2. Quiet
      BY <1>11, <2>2 DEF read_abandoned
    <3> HIDE DEF Quiet
    <3> QED
      BY <2>0, <3>1, <3>2, <1>late
  <2> QED
    BY <2>1, <2>2
<1>12. ASSUME read_cancelled PROVE CallFlow'
  <2>1. /\ Front /\ (u'.parse_error => u.parse_error) /\ u'.then \in {u.then, "none"}
        /\ u'.state # "Closed" => u.state # "Closed" /\ u'.parse_error = u.parse_error
    BY <1>12 DEF read_cancelled, Record, UFields
  <2>2. Quiet /\ net' = net
    BY <1>12 DEF read_cancelled, Ended, Record, SeenFields
  <2>3. Hand = <<>> /\ Hand' = <<>>
    BY <1>12, <2>1, <1>hand, <1>hand2 DEF read_cancelled, At
  <2> QED
    BY <2>1, <2>2, <2>3, <1>same
<1>13. ASSUME read_recovered PROVE CallFlow'
  <2> DEFINE n == [net EXCEPT !.read = net.arrived]
             new == SubSeq(net.script, net.read + 1, net.arrived)
             st == [u EXCEPT !.read_buf = new]
  <2>0. /\ u.pc = "recover" /\ u.state # "Closed" /\ u.pending = <<>> /\ u.read_buf = <<>>
        /\ Hand = <<>>
    BY <1>13, <1>hand DEF read_recovered, At, WholeInv, StateInv, CallInv
  <2>1. /\ Record(n, NetFields) /\ Record(st, UFields) /\ st.pending = u.pending
        /\ st.read_buf = new /\ st.parse_error = u.parse_error /\ st.state = u.state
        /\ n.read = net.arrived
    BY DEF Record, NetFields, UFields
  <2>2. handle_deadline(n, "ping", st)
    BY <1>13 DEF read_recovered
  <2> HIDE DEF n, st
  <2>3. DeadlineStep(n, st)
    BY <2>1, <2>2, DeadlineFlush
  <2>4. /\ u'.pending = <<>> /\ u'.read_buf = new /\ u'.parse_error = u.parse_error
        /\ net'.read = net.arrived /\ Hand' = <<>>
    BY <2>0, <2>1, <2>3, <1>hand2 DEF DeadlineStep
  <2>5. Quiet
    BY <1>13 DEF read_recovered
  <2>6. net.arrived \in net.read .. Len(s)
    BY DEF NetInv
  <2>7. Flow(s, Whole, net.read, seen.discarded, seen.delivered, <<>>, <<>>, <<>>, u.parse_error, Live)
    BY <2>0, <1>flow
  <2>8. Flow(s, Whole, net.arrived, seen.discarded, seen.delivered, <<>>, <<>>, new, u.parse_error, Live)
    BY <2>6, <2>7, <1>s, FlowReads
  <2> QED
    BY <2>0, <2>4, <2>5, <2>8, <1>live, <1>done
<1>14. ASSUME recovery_expires PROVE CallFlow'
  <2>1. DeadlineStep(net, u)
    BY <1>14, DeadlineFlush DEF recovery_expires
  <2>2. Quiet /\ u.pc \notin {"flush", "shutdown"} /\ u.state # "Closed"
    BY <1>14 DEF recovery_expires, At, WholeInv, StateInv
  <2> HIDE DEF Quiet
  <2> QED
    BY <2>1, <2>2, <1>late
<1>15. ASSUME flush_part PROVE CallFlow'
  <2>1. u' = u /\ seen' = seen
    BY <1>15 DEF flush_part
  <2>2. net'.read = net.read
    BY <1>15 DEF flush_part, HalfWritten, Record, NetFields
  <2>3. Hand' = Hand
    BY <2>1 DEF Hand
  <2> QED
    BY <2>1, <2>2, <2>3, <1>same
<1>16. ASSUME flush_completes PROVE CallFlow'
  <2>0. net'.read = net.read
    BY <1>16 DEF flush_completes, Written, Record, NetFields
  <2>1. /\ Front /\ u'.state = u.state /\ u'.parse_error = u.parse_error
        /\ u'.then \in {"none", u.then} /\ u'.msg \in {u.msg, NoFrame}
        /\ u.then = "pong" => u'.then = "none"
        /\ u.then = "finish" => u'.then = "finish" /\ u'.msg = u.msg
    BY <1>16 DEF flush_completes, Return, Record, UFields
  <2>2. CASE u.then = "pong"
    <3>1. /\ seen'.delivered = Append(seen.delivered, u.msg.id) /\ seen'.discarded = seen.discarded
      BY <1>16, <2>2 DEF flush_completes, Delivered, Record, SeenFields
    <3>2. Hand' = <<>>
      BY <2>1, <2>2, <1>hand2
    <3> QED
      BY <2>0, <2>1, <2>2, <3>1, <3>2, <1>msg, <1>live, <1>done
  <2>3. CASE u.then # "pong"
    <3>1. Quiet
      BY <1>16, <2>3 DEF flush_completes
    <3>2. Hand' = Hand
      BY <2>1, <2>3 DEF Hand
    <3> QED
      BY <2>0, <2>1, <3>1, <3>2, <1>same
  <2> QED
    BY <2>2, <2>3
<1>17. ASSUME flush_stops PROVE CallFlow'
  <2>0. net'.read = net.read
    BY <1>17 DEF flush_stops, Written, Record, NetFields
  <2>1. /\ Front /\ u'.parse_error = u.parse_error /\ u'.then = "none"
        /\ u'.state = "Closed" \/ u'.state = u.state
    BY <1>17, ZenonT(60) DEF flush_stops, FinishResult, failed_flush, Return, Record, UFields
  <2>2. Hand' = <<>>
    BY <2>1, <1>hand2
  <2>3. CASE u.then = "finish"
    <3>1. /\ seen'.delivered = Append(seen.delivered, u.msg.id) /\ seen'.discarded = seen.discarded
      BY <1>17, <2>3 DEF flush_stops, FinishResult, Delivered, Record, SeenFields
    <3> QED
      BY <2>0, <2>1, <2>2, <2>3, <3>1, <1>msg, <1>live, <1>done
  <2>4. CASE u.then = "pong"
    <3>1. seen'.delivered = seen.delivered /\ seen'.discarded /\ u'.state = "Closed"
      BY <1>17, <2>4 DEF flush_stops, FinishResult, failed_flush, Return, Record, SeenFields,
         UFields
    <3> QED
      BY <2>0, <2>1, <2>2, <2>4, <3>1, <1>msg, <1>live, <1>done
  <2>5. CASE u.then \notin {"pong", "finish"}
    <3>1. /\ seen'.delivered = seen.delivered /\ (seen.discarded => seen'.discarded)
          /\ (seen'.discarded => seen.discarded)
      BY <1>17, <2>5 DEF flush_stops, FinishResult, Ended, Record, SeenFields
    <3>2. Hand = <<>>
      BY <2>5 DEF Hand
    <3> QED
      BY <2>0, <2>1, <2>2, <3>1, <3>2, <1>flow, <1>live, <1>done
  <2> QED
    BY <2>3, <2>4, <2>5
<1>18. ASSUME shutdown_ends PROVE CallFlow'
  <2>0. net'.read = net.read
    BY <1>18 DEF shutdown_ends, Written, Record, NetFields
  <2>1. /\ Front /\ u'.parse_error = u.parse_error /\ u'.then = "none"
        /\ u'.state = "Closed" \/ u'.state = u.state
    BY <1>18, ZenonT(60) DEF shutdown_ends, FinishResult, Return, Record, UFields
  <2>2. Hand' = <<>>
    BY <2>1, <1>hand2
  <2>3. CASE u.then = "finish"
    <3>1. /\ seen'.delivered = Append(seen.delivered, u.msg.id) /\ seen'.discarded = seen.discarded
      BY <1>18, <2>3 DEF shutdown_ends, FinishResult, Delivered, Record, SeenFields
    <3> QED
      BY <2>0, <2>1, <2>2, <2>3, <3>1, <1>msg, <1>live, <1>done
  <2>4. CASE u.then = "pong"
    <3>1. FALSE
      BY <1>18, <2>4 DEF shutdown_ends, At, CallInv
    <3> QED
      BY <3>1
  <2>5. CASE u.then \notin {"pong", "finish"}
    <3>1. Quiet
      BY <1>18, <2>5 DEF shutdown_ends, FinishResult, Ended, Record, SeenFields
    <3>2. Hand = <<>>
      BY <2>5 DEF Hand
    <3> QED
      BY <2>0, <2>1, <2>2, <3>1, <3>2, <1>same
  <2> QED
    BY <2>3, <2>4, <2>5
<1>19. ASSUME drop_call PROVE CallFlow'
  <2>1. Front /\ u'.state = u.state /\ u'.parse_error = u.parse_error /\ u'.then = "none"
    BY <1>19 DEF drop_call, Return, Record, UFields
  <2>2. net'.read = net.read /\ Hand' = <<>> /\ (Live2 => Live)
    BY <1>19, <2>1, <1>hand2, <1>live DEF drop_call, DroppedWrites, Written, Record, NetFields
  <2>3. /\ seen'.delivered = seen.delivered /\ (seen.discarded => seen'.discarded)
        /\ u.then = "pong" => seen'.discarded
        /\ u.then # "pong" => (seen'.discarded => seen.discarded)
    BY <1>19 DEF drop_call, Record, SeenFields
  <2>4. CASE u.then = "finish"
    <3>1. u.state = "Closed" /\ u.pending = <<>> /\ ~u.parse_error
      BY <2>4 DEF CallInv, WholeInv, StateInv
    <3>2. Flow(s, Whole, net.read, seen.discarded, seen.delivered, <<>>, <<>>, u.read_buf, no, no)
      <4> HIDE DEF s
      <4> QED
        BY <1>flow, <1>s, FlowEnds DEF no
    <3> QED
      BY <2>1, <2>2, <2>3, <3>1, <3>2, <1>live, <1>done
  <2>5. CASE u.then = "pong"
    BY <2>1, <2>2, <2>3, <2>5, <1>msg, <1>live, <1>done
  <2>6. CASE u.then \notin {"pong", "finish"}
    <3>1. Hand = <<>>
      BY <2>6 DEF Hand
    <3> QED
      BY <2>1, <2>2, <2>3, <3>1, <1>flow, <1>done
  <2> QED
    BY <2>4, <2>5, <2>6
<1>20. ASSUME NEW item, send(item) PROVE CallFlow'
  <2>1. /\ Front /\ u'.parse_error = u.parse_error
        /\ u'.state # "Closed" => u.state # "Closed"
        /\ u'.then \in {u.then, "close", "send"}
    BY <1>20, ZenonT(60) DEF send, begin_closing, Flush, Record, UFields
  <2>2. net'.read = net.read
    BY <1>20 DEF send, Flush, Begun, Record, NetFields
  <2>3. Quiet
    BY <1>20 DEF send, Record, SeenFields
  <2>4. Hand = <<>> /\ Hand' = <<>>
    BY <1>20, <2>1, <1>hand, <1>hand2 DEF send, At
  <2> QED
    BY <2>1, <2>2, <2>3, <2>4, <1>same
<1>21. ASSUME NEW d, time_passes(d) PROVE CallFlow'
  <2>1. u' = u /\ net' = net /\ seen' = seen
    BY <1>21 DEF time_passes
  <2>2. Hand' = Hand
    BY <2>1 DEF Hand
  <2> QED
    BY <2>1, <2>2, <1>same
<1> QED
  BY <1>1, <1>2, <1>3, <1>4, <1>5, <1>6, <1>7, <1>8, <1>9, <1>10, <1>11, <1>12, <1>13, <1>14,
     <1>15, <1>16, <1>17, <1>18, <1>19, <1>20, <1>21 DEF StreamStep, next_, flush_

\* Every step of the reader keeps the order.
LEMMA ReaderFlows ==
    ASSUME Record(rd, RdFields), Record(net, NetFields), Record(seen, SeenFields),
           Record(sh, ShFields), NetInv, ReaderTypes, HandInv, LastInv,
           rd.pc = "read" => rd.pending = <<>> /\ rd.read_buf = <<>>, ReaderFlow,
           reader_next \/ reader_cancelled \/ reader_dropped
    PROVE  ReaderFlow' /\ (rd'.pc = "read" => rd'.pending = <<>> /\ rd'.read_buf = <<>>)
<1> DEFINE s == net.script
           Live == sh.status # "Closed" /\ ~rd.parse_error
           Live2 == sh'.status # "Closed" /\ ~rd'.parse_error
           Quiet == seen'.delivered = seen.delivered /\ seen'.discarded = seen.discarded
           Front == rd'.pending = rd.pending /\ rd'.read_buf = rd.read_buf
           no == FALSE
           yes == TRUE
           Kept == ReaderFlow' /\ (rd'.pc = "read" => rd'.pending = <<>> /\ rd'.read_buf = <<>>)
<1>s. Script(s) /\ FramesOf(s) = Sent
  BY RunScript
<1>eff. ReaderEffect
  BY ReaderSteps
<1>flow. Flow(s, Whole, net.read, seen.discarded, seen.delivered, <<>>, rd.pending, rd.read_buf,
              rd.parse_error, Live)
  BY DEF ReaderFlow
<1>live. /\ Live <=> (sh.status # "Closed" /\ ~rd.parse_error)
         /\ Live2 <=> (sh'.status # "Closed" /\ ~rd'.parse_error)
         /\ ~no /\ yes /\ (sh.status = "Closed" => sh'.status = "Closed")
  BY <1>eff DEF ReaderEffect
<1>goal. ASSUME Flow(s, Whole, net'.read, seen'.discarded, seen'.delivered, <<>>, rd'.pending,
                     rd'.read_buf, rd'.parse_error, Live2)
         PROVE  ReaderFlow'
  <2>1. net'.script = s
    BY <1>eff DEF ReaderEffect
  <2> QED
    BY <2>1, <1>goal DEF ReaderFlow
<1> HIDE DEF Live, Live2, no, yes
<1>done. ASSUME NEW gap, NEW broken, NEW live,
                Flow(s, Whole, net'.read, gap, seen'.delivered, <<>>, rd'.pending, rd'.read_buf,
                     broken, live),
                gap => seen'.discarded,
                rd'.parse_error => broken, Live2 => live
         PROVE  ReaderFlow'
  <2> HIDE DEF s
  <2>1. Flow(s, Whole, net'.read, seen'.discarded, seen'.delivered, <<>>, rd'.pending, rd'.read_buf,
             rd'.parse_error, Live2)
    BY <1>done, FlowWeaker
  <2> QED
    BY <2>1, <1>goal
<1>same. ASSUME Front, Quiet, net'.read = net.read, rd'.pc # "read" \/ rd.pc = "read",
                rd'.parse_error => rd.parse_error,
                sh'.status # "Closed" => (rd.parse_error => rd'.parse_error)
         PROVE  Kept
  <2>1. Live2 => Live
    BY <1>same, <1>live
  <2>2. ReaderFlow'
    BY <2>1, <1>same, <1>flow, <1>done
  <2> QED
    BY <2>2, <1>same
<1>head. ASSUME rd.pending # <<>>
         PROVE  /\ Head(rd.pending) \in Sent \cap Whole
                /\ Head(rd.pending).id \in 1 .. Len(s) /\ net.script[Head(rd.pending).id] = Head(rd.pending)
                /\ Flow(s, Whole, net.read, seen.discarded, Append(seen.delivered, Head(rd.pending).id),
                        <<>>, Tail(rd.pending), rd.read_buf, rd.parse_error, Live)
                /\ Flow(s, Whole, net.read, yes, seen.delivered,
                        <<>>, Tail(rd.pending), rd.read_buf, rd.parse_error, Live)
  <2>1. Head(rd.pending) \in Sent \cap Whole
    BY <1>head DEF ReaderTypes
  <2>2. /\ Head(rd.pending).id \in 1 .. Len(s) /\ Head(rd.pending).id \in Nat
        /\ net.script[Head(rd.pending).id] = Head(rd.pending)
    BY <2>1, SentTypes
  <2> DEFINE x == Head(rd.pending).id
  <2> HIDE DEF s
  <2>3. Flow(s, Whole, net.read, seen.discarded, Append(seen.delivered, x), <<>>, Tail(rd.pending),
             rd.read_buf, rd.parse_error, Live)
    BY <1>head, <1>flow, <1>s, FlowGives
  <2>4. Flow(s, Whole, net.read, seen.discarded, seen.delivered, <<x>>, Tail(rd.pending),
             rd.read_buf, rd.parse_error, Live)
    BY <1>head, <1>flow, <1>s, FlowTakes
  <2>5. x \in Nat
    BY <2>2
  <2> HIDE DEF x
  <2>6. Flow(s, Whole, net.read, yes, seen.delivered, <<>>, Tail(rd.pending), rd.read_buf,
             rd.parse_error, Live)
    BY <2>4, <2>5, <1>s, FlowLoses DEF yes
  <2> QED
    BY <2>1, <2>2, <2>3, <2>6 DEF s, x
<1>1. ASSUME reader_called PROVE Kept
  <2>1. Front /\ rd'.parse_error = rd.parse_error /\ rd'.pc # "read"
    BY <1>1 DEF reader_called, Reader, Record, RdFields
  <2>2. Quiet /\ net' = net
    BY <1>1 DEF reader_called, stream, Record, SeenFields
  <2> QED
    BY <2>1, <2>2, <1>same
<1>2. ASSUME reader_ends PROVE Kept
  <2>1. Front /\ rd'.parse_error = rd.parse_error /\ rd'.pc # "read"
    BY <1>2 DEF reader_ends, Reader, Record, RdFields
  <2>2. Quiet /\ net' = net
    BY <1>2 DEF reader_ends, Ended, stream, Record, SeenFields
  <2> QED
    BY <2>1, <2>2, <1>same
<1>3. ASSUME reader_data PROVE Kept
  <2>0. rd.pending # <<>>
    BY <1>3 DEF reader_data
  <2>1. /\ rd'.pending = Tail(rd.pending) /\ rd'.read_buf = rd.read_buf
        /\ rd'.parse_error = rd.parse_error /\ rd'.pc = "idle"
    BY <1>3 DEF reader_data, handoff_committed, Record, RdFields
  <2>2. /\ seen'.delivered = Append(seen.delivered, Head(rd.pending).id)
        /\ seen'.discarded = seen.discarded
    BY <1>3 DEF reader_data, Delivered, Record, SeenFields
  <2>3. net' = net
    BY <1>3 DEF reader_data, stream
  <2>4. ReaderFlow'
    BY <2>0, <2>1, <2>2, <2>3, <1>head, <1>live, <1>done
  <2> QED
    BY <2>1, <2>4
<1>4. ASSUME reader_control PROVE Kept
  <2>0. rd.pending # <<>> /\ Quiet /\ net' = net
    BY <1>4 DEF reader_control, stream
  <2> DEFINE first == rd.request = NoFrame /\ Head(rd.pending).kind = "close"
  <2>1. CASE ~first
    <3>1. Front /\ (rd'.parse_error <=> rd.parse_error) /\ rd'.pc = "handoff"
      <4>1. /\ rd'.pc = "handoff" /\ rd'.pending = rd.pending /\ rd'.read_buf = rd.read_buf
            /\ rd'.parse_error = (~first /\ rd.parse_error)
        BY <1>4, <2>1 DEF reader_control, Record, RdFields
      <4> QED
        BY <4>1, <2>1
    <3> QED
      BY <2>0, <3>1, <1>same
  <2>2. CASE first
    <3>1. /\ rd'.pending = <<Head(rd.pending)>> /\ rd'.read_buf = <<>> /\ ~rd'.parse_error
          /\ rd'.pc = "handoff"
      BY <1>4, <2>2 DEF reader_control, Record, RdFields
    <3>2. Head(rd.pending).id = Len(s)
      BY <2>0, <2>2, <1>head DEF LastInv
    <3>3. Live2 => Live \/ rd.parse_error
      BY <1>live
    <3> HIDE DEF s
    <3>4. Flow(s, Whole, net.read, seen.discarded, seen.delivered, <<>>, <<Head(rd.pending)>>, <<>>,
               no, Live2)
      <4>1. rd.pending # <<>>
        BY <2>0
      <4>2. Flow(s, Whole, net.read, seen.discarded, seen.delivered, <<>>, <<Head(rd.pending)>>, <<>>,
                 FALSE, Live2)
        BY <4>1, <3>2, <3>3, <1>flow, <1>s, FlowCloses
      <4> QED
        BY <4>2 DEF no
    <3>5. ReaderFlow'
      BY <2>0, <3>1, <3>4, <1>live, <1>done DEF s
    <3> QED
      BY <3>1, <3>5
  <2> QED
    BY <2>1, <2>2
<1>5. ASSUME reader_commits PROVE Kept
  <2>0. rd.pending # <<>>
    BY <1>5 DEF reader_commits, Reader, HandInv
  <2>1. /\ rd'.pending = Tail(rd.pending) /\ rd'.read_buf = rd.read_buf
        /\ rd'.parse_error = rd.parse_error /\ rd'.pc = "idle"
    BY <1>5 DEF reader_commits, handoff_committed, Record, RdFields
  <2>2. /\ seen'.delivered = Append(seen.delivered, Head(rd.pending).id)
        /\ seen'.discarded = seen.discarded
    BY <1>5 DEF reader_commits, Delivered, Record, SeenFields
  <2>3. net' = net
    BY <1>5 DEF reader_commits, stream
  <2>4. ReaderFlow'
    BY <2>0, <2>1, <2>2, <2>3, <1>head, <1>live, <1>done
  <2> QED
    BY <2>1, <2>4
<1>6. ASSUME reader_orphaned PROVE Kept
  <2>0. rd.pending # <<>>
    BY <1>6 DEF reader_orphaned, Reader, HandInv
  <2>1. /\ rd'.pending = Tail(rd.pending) /\ rd'.read_buf = rd.read_buf
        /\ rd'.parse_error = rd.parse_error /\ rd'.pc = "top"
    BY <1>6 DEF reader_orphaned, Record, RdFields
  <2>2. seen'.delivered = seen.delivered /\ seen'.discarded
    BY <1>6 DEF reader_orphaned, Record, SeenFields
  <2>3. net' = net /\ sh'.status = "Closed"
    BY <1>6 DEF reader_orphaned, stream, terminate, Record, ShFields
  <2>4. ReaderFlow'
    BY <2>0, <2>1, <2>2, <2>3, <1>head, <1>live, <1>done
  <2> QED
    BY <2>1, <2>4
<1>7. ASSUME reader_meets_error PROVE Kept
  <2>1. Front /\ rd'.parse_error = rd.parse_error /\ rd'.pc # "read"
    BY <1>7 DEF reader_meets_error, ReaderGoes, Reader, Record, RdFields
  <2>2. Quiet /\ net' = net
    BY <1>7 DEF reader_meets_error, stream, Record, SeenFields
  <2> QED
    BY <2>1, <2>2, <1>same
<1>8. ASSUME reader_error PROVE Kept
  <2>1. Front /\ ~rd'.parse_error /\ rd'.pc = "idle"
    BY <1>8 DEF reader_error, Record, RdFields
  <2>2. sh'.status = "Closed"
    BY <1>8 DEF reader_error, terminate, Record, ShFields
  <2>3. Quiet /\ net' = net
    BY <1>8 DEF reader_error, Ended, stream, Record, SeenFields
  <2> QED
    BY <2>1, <2>2, <2>3, <1>same
<1>9. ASSUME reader_parses PROVE Kept
  <2> DEFINE buf == rd.read_buf
             bad == BadAt(buf) # {}
             good == ~bad
  <2>0. rd.pending = <<>> /\ ~rd.parse_error /\ Live /\ Quiet /\ net' = net
    BY <1>9, <1>live DEF reader_parses, ReaderGoes, stream
  <2>1. /\ rd'.pending = Complete(UpTo(buf)) /\ rd'.read_buf = <<>>
        /\ rd'.parse_error = bad
        /\ rd'.pc = "read" => Complete(UpTo(buf)) = <<>>
    BY <1>9 DEF reader_parses, ReaderGoes, Reader, Record, RdFields
  <2>2. buf \in Seq(Sent)
    BY DEF ReaderTypes
  <2>3. PICK m \in 0 .. Len(buf) : /\ UpTo(buf) = SubSeq(buf, 1, m)
                                   /\ (bad => m < Len(buf)) /\ (~bad => m = Len(buf))
    BY <2>2, UpToPrefix
  <2>4. Flow(s, Whole, net.read, seen.discarded, seen.delivered, <<>>, <<>>, buf, rd.parse_error, TRUE)
    <3>1. Flow(s, Whole, net.read, seen.discarded, seen.delivered, <<>>, <<>>, buf, rd.parse_error, Live)
      BY <2>0, <1>flow
    <3> QED
      BY <3>1, <2>0 DEF Flow
  <2>5. (bad => m < Len(buf)) /\ (good => m = Len(buf)) /\ (good <=> ~bad)
    BY <2>3
  <2> HIDE DEF buf, bad, good, s
  <2>6. Flow(s, Whole, net.read, seen.discarded, seen.delivered, <<>>, Filter(SubSeq(buf, 1, m), Whole),
             <<>>, bad, good)
    BY <2>5, <2>4, <1>s, FlowParses
  <2>7. rd'.pending = Filter(SubSeq(buf, 1, m), Whole)
    BY <2>1, <2>3 DEF Complete, Whole
  <2>8. ReaderFlow'
    BY <2>0, <2>1, <2>5, <2>6, <2>7, <1>live, <1>done DEF s
  <2> QED
    BY <2>1, <2>8
<1>10. ASSUME reader_told PROVE Kept
  <2>1. Front /\ rd'.parse_error = rd.parse_error /\ rd'.pc # "read"
    BY <1>10 DEF reader_told, Reader, Record, RdFields
  <2>2. Quiet /\ net' = net
    BY <1>10 DEF reader_told, stream, Record, SeenFields
  <2> QED
    BY <2>1, <2>2, <1>same
<1>11. ASSUME reader_reads PROVE Kept
  <2>0. rd.pending = <<>> /\ rd.read_buf = <<>> /\ Quiet
    BY <1>11 DEF reader_reads, Reader
  <2>1. PICK k \in 1 .. net.arrived - net.read :
          /\ rd' = [rd EXCEPT !.pc = "top", !.read_buf = SubSeq(net.script, net.read + 1, net.read + k)]
          /\ net' = [net EXCEPT !.read = @ + k]
    BY <1>11 DEF reader_reads
  <2> DEFINE q == net.read + k
             new == SubSeq(s, net.read + 1, q)
  <2>2. q \in net.read .. Len(s)
    BY DEF NetInv
  <2>3. /\ rd'.pending = <<>> /\ rd'.read_buf = new /\ rd'.parse_error = rd.parse_error
        /\ rd'.pc = "top"
    BY <2>0, <2>1 DEF Record, RdFields
  <2>4. net'.read = q
    BY <2>1 DEF Record, NetFields
  <2>5. Flow(s, Whole, net.read, seen.discarded, seen.delivered, <<>>, <<>>, <<>>, rd.parse_error, Live)
    BY <2>0, <1>flow
  <2> HIDE DEF q
  <2>6. Flow(s, Whole, q, seen.discarded, seen.delivered, <<>>, <<>>, new, rd.parse_error, Live)
    BY <2>2, <2>5, <1>s, FlowReads
  <2> HIDE DEF new
  <2>7. ReaderFlow'
    BY <2>0, <2>3, <2>4, <2>6, <1>live, <1>done
  <2> QED
    BY <2>3, <2>7
<1>12. ASSUME reader_input_ends PROVE Kept
  <2>1. Front /\ rd'.parse_error = rd.parse_error /\ rd'.pc # "read"
    BY <1>12 DEF reader_input_ends, Reader, Record, RdFields
  <2>2. Quiet /\ net' = net
    BY <1>12 DEF reader_input_ends, Ended, stream, Record, SeenFields
  <2> QED
    BY <2>1, <2>2, <1>same
<1>13. ASSUME reader_eof PROVE Kept
  <2>1. Front /\ rd'.parse_error = rd.parse_error /\ rd'.pc # "read"
    BY <1>13 DEF reader_eof, Reader, Record, RdFields
  <2>2. Quiet /\ net' = net
    BY <1>13 DEF reader_eof, stream, Record, SeenFields
  <2> QED
    BY <2>1, <2>2, <1>same
<1>14. ASSUME reader_cancelled PROVE Kept
  <2>1. Front /\ rd'.parse_error = rd.parse_error /\ rd'.pc # "read"
    BY <1>14 DEF reader_cancelled, Record, RdFields
  <2>2. Quiet /\ net' = net
    BY <1>14 DEF reader_cancelled, stream, Record, SeenFields
  <2> QED
    BY <2>1, <2>2, <1>same
<1>15. ASSUME reader_dropped PROVE Kept
  <2>1. Front /\ rd'.parse_error = rd.parse_error /\ rd'.pc # "read"
    BY <1>15 DEF reader_dropped, Reader, Record, RdFields
  <2>2. Quiet /\ net' = net
    BY <1>15 DEF reader_dropped, stream, Record, SeenFields
  <2> QED
    BY <2>1, <2>2, <1>same
<1> QED
  BY <1>1, <1>2, <1>3, <1>4, <1>5, <1>6, <1>7, <1>8, <1>9, <1>10, <1>11, <1>12, <1>13, <1>14,
     <1>15 DEF reader_next

\* The order before the first call.
LEMMA InitFlow ==
    ASSUME CloseIsLast, Init
    PROVE  FlowInv
<1>1. NetInv /\ Script(net.script)
  BY InitIInv, RunScript DEF IInv
<1>2. /\ net.read = setup.leftover /\ u.pending = <<>> /\ ~u.parse_error /\ u.state = "Open"
      /\ u.read_buf = SubSeq(net.script, 1, setup.leftover) /\ u.then = "none" /\ u.pc = "idle"
      /\ u.phase = "unified" /\ seen.delivered = <<>> /\ ~seen.discarded
      /\ u.parse_error = FALSE /\ seen.discarded = FALSE
  BY DEF Init, StreamInit
<1>3. LastInv
  <2>1. /\ setup \in Setups /\ setup.script \in Seq(Kinds)
        /\ net.script = [i \in DOMAIN setup.script |-> [kind |-> setup.script[i], id |-> i]]
    BY CompioAssumption DEF Init, StreamInit, SetupType
  <2> DEFINE n == Len(setup.script)
  <2>2. n \in Nat /\ DOMAIN setup.script = 1 .. n
    BY <2>1
  <2> HIDE DEF n
  <2>3. net.script = [i \in 1 .. n |-> [kind |-> setup.script[i], id |-> i]]
    BY <2>1, <2>2
  <2>4. Len(net.script) = n
    BY <2>2, <2>3
  <2>5. \A i \in 1 .. n : setup.script[i] = "close" => i = n
    BY <2>1, <2>2 DEF CloseIsLast, n
  <2>6. \A i \in 1 .. n : net.script[i].kind = setup.script[i]
    BY <2>3
  <2> QED
    BY <2>4, <2>5, <2>6 DEF LastInv
<1>4. CallFlow
  <2> DEFINE k == setup.leftover
             s == net.script
  <2>1. k \in 0 .. Len(s)
    BY <1>1, <1>2 DEF NetInv
  <2>2. Flow(s, Whole, k, FALSE, <<>>, <<>>, <<>>, SubSeq(s, 1, k), FALSE, TRUE)
    BY <2>1, <1>1, FlowStarts
  <2>3. Hand = <<>> /\ (u.state # "Closed" /\ ~u.parse_error) = TRUE
    BY <1>2 DEF Hand
  <2> QED
    BY <2>2, <2>3, <1>2 DEF CallFlow
<1> QED
  BY <1>2, <1>3, <1>4 DEF FlowInv, CallInv

\* Nothing but the end of the stream changed for the reader.
LEMMA ReaderFlowKept ==
    ASSUME ReaderFlow, net'.script = net.script, net'.read = net.read, rd' = rd,
           seen'.delivered = seen.delivered, seen'.discarded = seen.discarded,
           sh.status = "Closed" => sh'.status = "Closed"
    PROVE  ReaderFlow'
<1> DEFINE Live == sh.status # "Closed" /\ ~rd.parse_error
           Live2 == sh'.status # "Closed" /\ ~rd.parse_error
           s == net.script
<1>1. Flow(s, Whole, net.read, seen.discarded, seen.delivered, <<>>, rd.pending, rd.read_buf,
           rd.parse_error, Live)
  BY DEF ReaderFlow
<1>2. Live2 => Live
  OBVIOUS
<1>3. ASSUME Flow(s, Whole, net.read, seen.discarded, seen.delivered, <<>>, rd.pending, rd.read_buf,
                  rd.parse_error, Live2)
      PROVE  ReaderFlow'
  BY <1>3 DEF ReaderFlow
<1> HIDE DEF Live, Live2, s
<1>4. Flow(s, Whole, net.read, seen.discarded, seen.delivered, <<>>, rd.pending, rd.read_buf,
           rd.parse_error, Live2)
  BY <1>1, <1>2, FlowWeaker
<1> QED
  BY <1>3, <1>4

\* split() hands the messages to the reader as they are.
LEMMA SplitFlows ==
    ASSUME Record(u, UFields), Record(seen, SeenFields), Record(sh, ShFields), Record(rd, RdFields),
           CallInv, CallFlow, split
    PROVE  ReaderFlow' /\ rd'.pc = "idle"
<1> DEFINE Live == u.state # "Closed" /\ ~u.parse_error
           Live2 == sh'.status # "Closed" /\ ~rd'.parse_error
           s == net.script
<1>1. Hand = <<>> /\ net' = net
  BY DEF split, At, CallInv, Hand
<1>2. Flow(s, Whole, net.read, seen.discarded, seen.delivered, <<>>, u.pending, u.read_buf,
           u.parse_error, Live)
  BY <1>1 DEF CallFlow
<1>3. /\ rd'.pc = "idle" /\ rd'.pending = u.pending /\ rd'.read_buf = u.read_buf
      /\ rd'.parse_error = u.parse_error
  BY DEF split, reader_half, Record, RdFields
<1>4. seen'.delivered = seen.delivered /\ seen'.discarded = seen.discarded
  BY DEF split, Record, SeenFields
<1>5. u.state = "Closed" => sh'.status = "Closed"
  BY DEF split, Record, ShFields
<1>6. Live2 => Live
  BY <1>3, <1>5
<1>7. ASSUME Flow(s, Whole, net.read, seen.discarded, seen.delivered, <<>>, u.pending, u.read_buf,
                  u.parse_error, Live2)
      PROVE  ReaderFlow'
  BY <1>7, <1>1, <1>3, <1>4 DEF ReaderFlow
<1> HIDE DEF Live, Live2, s
<1>8. Flow(s, Whole, net.read, seen.discarded, seen.delivered, <<>>, u.pending, u.read_buf,
           u.parse_error, Live2)
  BY <1>2, <1>6, FlowWeaker
<1> QED
  BY <1>3, <1>7, <1>8

\* Every step keeps the order.
LEMMA NextFlows ==
    ASSUME IInv, FlowInv, [Next]_vars
    PROVE  FlowInv'
<1> DEFINE Reading == rd.pc = "read" => rd.pending = <<>> /\ rd.read_buf = <<>>
<1>0. /\ Record(u, UFields) /\ Record(net, NetFields) /\ Record(seen, SeenFields)
      /\ Record(sh, ShFields) /\ Record(rd, RdFields) /\ Record(wr, WrFields) /\ Record(drv, DrvFields)
  BY DEF IInv, Shapes
<1>inv. /\ PhaseInv /\ WholeInv /\ NetInv /\ StreamTypes /\ ReaderTypes /\ HandInv
  BY DEF IInv
<1>last. LastInv /\ (net'.script = net.script => LastInv')
  BY DEF FlowInv, LastInv
<1>uni. ASSUME u.phase = "unified" PROVE CallInv /\ CallFlow
  BY <1>uni DEF FlowInv
<1>spl. ASSUME u.phase = "split" PROVE Reading /\ ReaderFlow
  BY <1>spl DEF FlowInv
<1>phase. u.phase \in {"unified", "split"}
  BY <1>inv DEF PhaseInv
<1>born. ASSUME u.phase = "unified"
         PROVE  rd.pc = "unborn" /\ wr.pc = "unborn"
  BY <1>born, <1>inv DEF PhaseInv
<1>still. ASSUME net'.script = net.script, net'.read = net.read, u' = u, rd' = rd,
                 seen'.delivered = seen.delivered, seen'.discarded = seen.discarded,
                 sh.status = "Closed" => sh'.status = "Closed"
          PROVE  FlowInv'
  <2>1. CASE u.phase = "unified"
    <3>1. CallInv' /\ CallFlow'
      BY <1>still, <1>uni, <2>1 DEF CallInv, CallFlow, Hand
    <3> QED
      BY <3>1, <2>1, <1>still, <1>last DEF FlowInv
  <2>2. CASE u.phase = "split"
    <3>1. ReaderFlow'
      BY <1>still, <1>spl, <2>2, ReaderFlowKept
    <3> QED
      BY <3>1, <2>2, <1>still, <1>spl, <1>last DEF FlowInv
  <2> QED
    BY <2>1, <2>2, <1>phase
<1>1. CASE UNCHANGED vars
  BY <1>1, <1>still DEF vars
<1>2. CASE StreamStep /\ UNCHANGED Unified
  <2>1. u.phase = "unified" /\ u'.phase = "unified"
    BY <1>0, <1>2, StreamShape
  <2>2. CallInv'
    BY <1>0, <1>2, <2>1, <1>uni, StreamCalls
  <2>3. CallFlow'
    BY <1>0, <1>2, <2>1, <1>uni, <1>inv, StreamFlows
  <2>4. net'.script = net.script
    BY <1>0, <1>2, <1>inv, <2>1, <1>uni, StreamNet DEF NetKept
  <2> QED
    BY <2>1, <2>2, <2>3, <2>4, <1>last DEF FlowInv
<1>3. CASE split
  <2>1. u.phase = "unified" /\ net' = net
    BY <1>3 DEF split, At
  <2>2. u'.phase = "split"
    BY <1>3, <1>0 DEF split, Record, UFields
  <2>3. ReaderFlow' /\ rd'.pc = "idle"
    BY <1>0, <1>3, <2>1, <1>uni, SplitFlows
  <2> QED
    BY <2>1, <2>2, <2>3, <1>last DEF FlowInv
<1>4. CASE reader_next \/ reader_cancelled \/ reader_dropped
  <2>1. ReaderEffect
    BY <1>0, <1>4, ReaderSteps
  <2>2. u.phase = "split"
    BY <2>1, <1>born, <1>phase DEF ReaderEffect
  <2>3. ReaderFlow' /\ (rd'.pc = "read" => rd'.pending = <<>> /\ rd'.read_buf = <<>>)
    BY <1>0, <1>4, <1>inv, <1>last, <1>spl, <2>2, ReaderFlows
  <2> QED
    BY <2>1, <2>2, <2>3, <1>last DEF FlowInv, ReaderEffect
<1>5. CASE writer_send \/ writer_cancelled \/ writer_dropped
  <2>1. WriterEffect
    BY <1>0, <1>5, WriterSteps
  <2> QED
    BY <2>1, <1>still DEF WriterEffect
<1>6. CASE DriverStep
  <2>1. /\ UNCHANGED <<setup, u, seen, rd>> /\ net'.script = net.script /\ net'.read = net.read
        /\ sh.status = "Closed" => sh'.status = "Closed"
    BY <1>0, <1>6, <1>inv, DriverShape
  <2> QED
    BY <2>1, <1>still
<1>7. CASE (peer_sends \/ fills \/ frees \/ ends) /\ UNCHANGED Unified
  <2>1. net'.script = net.script /\ net'.read = net.read
    BY <1>7, <1>0 DEF peer_sends, fills, frees, ends, Record, NetFields
  <2>2. UNCHANGED <<u, seen, sh, rd>>
    BY <1>7 DEF peer_sends, fills, frees, ends, Unified
  <2> QED
    BY <2>1, <2>2, <1>still
<1> QED
  BY <1>1, <1>2, <1>3, <1>4, <1>5, <1>6, <1>7
  DEF Next, StreamStep, DriverStep, compressed_next, compressed_flush, compressed_reader_next,
      compressed_writer_send

\* What was returned so far is the beginning of the line.
LEMMA FlowInvIsEnough ==
    ASSUME IInv, FlowInv
    PROVE  DeliveredInOrder
<1> DEFINE s == net.script
           d == seen.delivered
           all == Complete(s)
<1>1. Script(s) /\ FramesOf(s) = Sent
  BY RunScript DEF IInv
<1>2. (\A i, j \in DOMAIN d : i < j => d[i] < d[j]) /\ (seen.discarded \/ d = SubSeq(IdsOf(Filter(s, Whole)), 1, Len(d)))
  <2>1. CASE u.phase = "unified"
    BY <1>1, <2>1, FlowDelivered DEF FlowInv, CallFlow
  <2>2. CASE u.phase = "split"
    BY <1>1, <2>2, FlowDelivered DEF FlowInv, ReaderFlow
  <2> QED
    BY <2>1, <2>2 DEF IInv, PhaseInv
<1>3. all = Filter(s, Whole)
  BY DEF Complete, Whole
<1>4. all \in Seq(Sent)
  <2>1. s \in Seq(Sent)
    BY <1>1 DEF Script
  <2> HIDE DEF s, all
  <2>2. Filter(s, Whole) \in Seq(Sent \cap Whole)
    BY <2>1, FilterType
  <2>3. Filter(s, Whole) \in Seq(Sent)
    BY <2>2
  <2> QED
    BY <2>3, <1>3
<1> HIDE DEF all
<1>5. IdsOf(all) = [i \in DOMAIN all |-> all[i].id]
  BY <1>4 DEF IdsOf
<1> QED
  BY <1>2, <1>3, <1>5 DEF DeliveredInOrder, all

\* The application gets the peer's messages in wire order, across split(), across dropped calls
\* and in front of a bad frame, and without a gap unless a control message was discarded or a
\* Ping went with a dropped next(): for every script in which nothing follows the Close.
\* (Behind a Close the reader drops what it had read and may deliver what it reads later, so a
\* peer that goes on sees a gap.)
THEOREM MessagesAlwaysInOrder ==
    ASSUME CloseIsLast
    PROVE  Spec => []DeliveredInOrder
<1>1. Init => FlowInv
  BY InitFlow
<1>2. IInv /\ FlowInv /\ [Next]_vars => FlowInv'
  BY NextFlows
<1>3. IInv /\ FlowInv => DeliveredInOrder
  BY FlowInvIsEnough
<1> QED
  BY <1>1, <1>2, <1>3, CompioInvariant, PTL DEF Spec

=============================================================================
