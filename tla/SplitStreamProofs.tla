------------------------- MODULE SplitStreamProofs -------------------------
(***************************************************************************)
(* The safety of the split stream, for any channel capacity, message       *)
(* batches and bounds: the properties of SplitStream that say who may      *)
(* write where, what is on the wire and which state a handle may report.   *)
(*                                                                         *)
(* None of them is inductive by itself.  A frame in the middle of the wire *)
(* is whole because whoever began the last one still holds the sink, has   *)
(* cancelled, or the transport is not open (MidFrame); a Close that is     *)
(* claimed to be sent is on the wire (AnswerInv); no Close is begun while  *)
(* the status is Open (ClosingInv), which is what keeps data from          *)
(* following it (DataInv); and the types of the control channel need the   *)
(* capacity that a held permit reserves (PermitInv).                       *)
(***************************************************************************)
EXTENDS SplitStream, SequenceTheorems, TLAPS

(* The parts of the inductive invariant *)

\* The control channel and the permit
PermitInv == Len(queue) <= Capacity /\ (WriterPermit => Len(queue) < Capacity)

\* What the write handle is doing where
CallInv ==
    /\ wr.pc \in {"reserve", "begin", "began", "notify"} => wr.op = "Close"
    /\ wr.pc \in {"enter", "lock"} => wr.op # "none"
    /\ wr.pc \in {"check", "write"} => wr.op \in {"Data", "Close"}
    /\ zero /\ wr.op = "Close" => wr.pc \notin {"enter", "lock"}

\* Who has the stream
TransportInv ==
    /\ dr.pc \in {"timeoutClose", "finish"} => transport = "Closing"
    /\ dr.pc \in {"cancel", "stopped"} => transport = "Closed" /\ status \in Terminal
    /\ transport # "Open" => dr.pc \in {"timeoutClose", "finish", "cancel", "stopped"}

\* Who is in the middle of the last frame, when it is not whole
MidFrame ==
    \/ cancel
    \/ wr.pc \in {"write", "terminate", "cancel"} /\ Holder("W")
    \/ dr.write # "none" /\ dr.phase = "begun" /\ Holder("P")
    \/ transport # "Open" /\ dr.pc # "timeoutClose"

WireInv ==
    /\ FrameBoundaries
    /\ wire # <<>> /\ ~wire[Len(wire)].whole => MidFrame
    /\ wr.pc = "write" /\ transport = "Open" =>
           wire # <<>> /\ wire[Len(wire)].kind = wr.op
    /\ dr.write # "none" /\ dr.phase = "begun" /\ transport = "Open" =>
           wire # <<>> /\ wire[Len(wire)].kind = dr.write
    /\ dr.pc = "write?" => dr.write # "none"

\* A request is waiting in the control channel
Holds(q, request) == \E i \in 1 .. Len(q) : q[i] = request

\* Whoever says that our Close was sent has sent it
WholeClose == \E i \in 1 .. Len(wire) : wire[i] = [kind |-> "Close", whole |-> TRUE]

AnswerInv ==
    /\ dr.localCloseSent => WholeClose
    /\ wr.pc = "notify" => WholeClose
    /\ Holds(queue, "LocalCloseSent") => WholeClose

\* Nobody sends a Close on an open connection
ClosingInv ==
    /\ rd.request = "PeerClose" => status # "Open"
    /\ Holds(queue, "PeerClose") => status # "Open"
    /\ dr.peerClose => status # "Open"
    /\ dr.write = "Close" => status # "Open"
    /\ wr.op = "Close" /\ wr.pc \notin {"reserve", "begin"} => status # "Open"

CloseBegun == \E i \in 1 .. Len(wire) : wire[i].kind = "Close"

DataInv ==
    /\ CloseBegun => status # "Open" \/ transport # "Open"
    /\ CloseBegun /\ wr.op = "Data" /\ wr.pc = "check" => transport # "Open"
    /\ NoDataAfterClose

EofInv == EofIsThePeers

SafeInv ==
    /\ TypeOK /\ PermitInv /\ CallInv /\ TransportInv /\ SinkExclusive
    /\ WireInv /\ AnswerInv /\ ClosingInv /\ DataInv /\ EofInv

-----------------------------------------------------------------------------

\* Removing a waiter from the lock's queue keeps its order and, for another waiter, its
\* head.
LEMMA WithoutProperties ==
    ASSUME NEW S, NEW s \in Seq(S), NEW a
    PROVE  /\ Without(s, a) \in Seq(S)
           /\ s # <<>> /\ Head(s) # a => Without(s, a) # <<>> /\ Head(Without(s, a)) = Head(s)
<1>0. Len(s) \in Nat /\ \A i \in 1 .. Len(s) : s[i] \in S
  BY LenProperties
<1>1. CASE \E i \in 1 .. Len(s) : s[i] = a
  <2> DEFINE k == CHOOSE i \in 1 .. Len(s) : s[i] = a
  <2>1. k \in 1 .. Len(s) /\ s[k] = a
    BY <1>1
  <2> HIDE DEF k
  <2> DEFINE w == [i \in 1 .. Len(s) - 1 |-> IF i < k THEN s[i] ELSE s[i + 1]]
  <2>2. Without(s, a) = w
    BY <1>1 DEF Without, k
  <2>3. w \in Seq(S) /\ Len(w) = Len(s) - 1
    BY <1>0, <2>1
  <2>4. ASSUME s # <<>>, Head(s) # a PROVE w # <<>> /\ Head(w) = Head(s)
    <3>1. k > 1 /\ Len(s) - 1 >= 1
      BY <1>0, <2>1, <2>4
    <3>2. w[1] = s[1]
      BY <3>1, <1>0
    <3> HIDE DEF w
    <3>3. w # <<>>
      BY <2>3, <3>1
    <3> QED
      BY <3>2, <3>3
  <2> QED
    BY <2>2, <2>3, <2>4
<1>2. CASE ~ \E i \in 1 .. Len(s) : s[i] = a
  BY <1>2 DEF Without
<1> QED
  BY <1>1, <1>2

\* Waiting at the end of the lock's queue does not disturb its holder.
LEMMA AppendKeepsHead ==
    ASSUME NEW S, NEW s \in Seq(S), NEW e \in S
    PROVE  /\ Append(s, e) \in Seq(S)
           /\ Append(s, e) # <<>>
           /\ Len(Append(s, e)) = Len(s) + 1
           /\ s # <<>> => Head(Append(s, e)) = Head(s)
BY AppendProperties, LenProperties

-----------------------------------------------------------------------------
(* Types *)

\* Every state handed over by split is well typed.
LEMMA InitType == Init => TypeOK
<1> SUFFICES ASSUME Init PROVE TypeOK
  OBVIOUS
<1>1. PICK h \in Handover :
        /\ status = IF h.closed THEN "Closed" ELSE
                     IF h.parseError THEN "ReadErrorPending" ELSE "Open"
        /\ rd = [pc |-> "top", batch |-> h.messages, parseError |-> h.parseError,
                  message |-> "none", request |-> "none", data |-> h.data, result |-> "none",
                  reported |-> FALSE, inbound |-> 0, compressed |-> h.compressed]
  BY DEF Init
<1>2. /\ h.messages \in Seq(Message) /\ h.parseError \in BOOLEAN /\ h.data \in BOOLEAN
      /\ h.compressed \in BOOLEAN /\ Capacity \in Nat
  BY SplitAssumption DEF Message, Control
<1>3. rd \in ReaderState /\ rd.request = "none" /\ rd.pc = "top"
  BY <1>1, <1>2 DEF ReaderState
<1>4. wr \in WriterState /\ dr \in DriverState
  BY DEF Init, WriterState, DriverState, DriverInit, Control, Terminal
<1>5. /\ zero \in BOOLEAN /\ cancel \in BOOLEAN /\ cancels \in Nat /\ status \in Status
      /\ transport \in {"Open", "Closing", "Closed"}
      /\ sink \in Seq({"W", "P", "D"})
      /\ queue \in Seq(Request) /\ Len(queue) <= Capacity
      /\ wire \in Seq(Frame)
  <2>1. status \in Status
    BY <1>1 DEF Status, Terminal
  <2>2. <<>> \in Seq({"W", "P", "D"}) /\ <<>> \in Seq(Request) /\ <<>> \in Seq(Frame)
    BY EmptySeq
  <2>3. /\ zero \in BOOLEAN /\ cancel = FALSE /\ cancels = 0 /\ transport = "Open"
        /\ sink = <<>> /\ queue = <<>> /\ wire = <<>>
    BY DEF Init
  <2>4. Len(queue) <= Capacity
    BY <1>2, <2>3
  <2> QED
    BY <2>1, <2>2, <2>3, <2>4
<1> QED
  BY <1>3, <1>4, <1>5 DEF TypeOK

ReaderStep == Reader \/ poll_read_ready \/ next_cancelled \/ drop_reader
WriterStep == (\E op \in {"Data", "Close", "Flush"} : send(op)) \/ Writer \/ send_cancelled \/ drop_writer
DriverStep == Driver \/ deadline_expires

\* How the status may change in one step
StatusStep ==
    \/ status' = status
    \/ status = "Open" /\ status' \in {"LocalClosing", "PeerClosing", "ReadErrorPending"}
    \/ status \notin Terminal /\ status' \in Terminal

ReaderType ==
    /\ rd \in ReaderState
    /\ rd.request # "none" => rd.message # "none"
    /\ rd.pc = "reserve" => rd.request # "none"

\* Delivering a message keeps the reader's state typed; a status it changes was Open.
LEMMA DeliverType ==
    ASSUME TypeOK, NEW msg \in Message, NEW r \in ReaderState, Deliver(msg, r),
           r.message = "none", r.request # "none" => msg # "Data"
    PROVE  ReaderType' /\ StatusStep /\ (status' # status => status = "Open")
           /\ (rd'.request = "PeerClose" => r.request = "PeerClose" \/ status' # "Open")
           /\ rd'.pc \in {"top", "reserve"}
<1> USE DEF ReaderState, ReaderType, Control, Message, StatusStep, Status, Terminal, ReaderAwaits
<1>1. CASE msg = "Data"
  BY <1>1 DEF Deliver
<1>2. CASE msg \in {"Ping", "Pong"}
  <2>1. /\ rd' = [r EXCEPT !.pc = "reserve", !.message = msg,
                            !.request = IF @ = "none" THEN msg ELSE @]
        /\ UNCHANGED status
    BY <1>2, Zenon DEF Deliver
  <2> QED
    BY <1>2, <2>1
<1>3. CASE msg = "Close" /\ r.request # "none"
  BY <1>3, ZenonT(60) DEF Deliver
<1>4. CASE msg = "Close" /\ r.request = "none"
  <2>1. /\ rd' = [r EXCEPT !.pc = "reserve", !.message = msg, !.request = "PeerClose",
                            !.batch = <<>>, !.parseError = FALSE, !.data = FALSE]
        /\ status' = IF status = "Open" THEN "PeerClosing" ELSE status
    BY <1>4 DEF Deliver, begin_closing
  <2>2. <<>> \in Seq(Message)
    BY EmptySeq
  <2> QED
    BY <1>4, <2>1, <2>2
<1> QED
  BY <1>1, <1>2, <1>3, <1>4

\* What a reader step changes: its own state, the status forward only, and at most one
\* request at the end of the channel.
LEMMA ReaderTypeStep ==
    ASSUME TypeOK, ReaderStep
    PROVE  /\ ReaderType' /\ StatusStep /\ cancels' \in Nat
           /\ \/ UNCHANGED queue
              \/ ChannelOpen /\ HasCapacity /\ queue' = Append(queue, "Eof")
              \/ ChannelOpen /\ HasCapacity /\ queue' = Append(queue, "ReadError")
              \/ ChannelOpen /\ HasCapacity /\ rd.request # "none" /\ queue' = Append(queue, rd.request)
           /\ UNCHANGED <<zero, transport, sink, wire, wr, dr>>
           /\ cancel' = cancel \/ (rd.pc \in ReaderAwaits \cup {"top"} /\ rd'.pc = "dropped" /\ cancel' = TRUE)
           /\ (rd'.request = "PeerClose" => rd.request = "PeerClose" \/ status' # "Open")
<1> DEFINE Goal == 
           /\ ReaderType' /\ StatusStep /\ cancels' \in Nat
           /\ \/ UNCHANGED queue
              \/ ChannelOpen /\ HasCapacity /\ queue' = Append(queue, "Eof")
              \/ ChannelOpen /\ HasCapacity /\ queue' = Append(queue, "ReadError")
              \/ ChannelOpen /\ HasCapacity /\ rd.request # "none" /\ queue' = Append(queue, rd.request)
           /\ UNCHANGED <<zero, transport, sink, wire, wr, dr>>
           /\ cancel' = cancel \/ (rd.pc \in ReaderAwaits \cup {"top"} /\ rd'.pc = "dropped" /\ cancel' = TRUE)
           /\ (rd'.request = "PeerClose" => rd.request = "PeerClose" \/ status' # "Open")
<1>0. /\ rd \in ReaderState /\ (rd.request # "none" => rd.message # "none") /\ cancels \in Nat
      /\ rd.pc = "reserve" => rd.request # "none"
      /\ <<>> \in Seq(Message)
  BY EmptySeq DEF TypeOK
<1>1. CASE next_terminal
  BY <1>0, <1>1 DEF next_terminal, shared, ReaderType, ReaderState, StatusStep
<1>2. CASE next_pending
  <2>1. CASE rd.message # "none" /\ Deliver(rd.message, [rd EXCEPT !.message = "none"])
    <3>1. [rd EXCEPT !.message = "none"] \in ReaderState /\ rd.message \in Control
      BY <1>0, <2>1 DEF ReaderState
    <3> QED
      BY <1>0, <1>2, <2>1, <3>1, DeliverType DEF next_pending, shared, Control, Message, ReaderState
  <2>2. CASE rd.message = "none" /\ rd.batch # <<>> /\ Deliver(Head(rd.batch), [rd EXCEPT !.batch = Tail(@)])
    <3>0. rd.batch \in Seq(Message)
      BY <1>0 DEF ReaderState
    <3>1. Head(rd.batch) \in Message /\ Tail(rd.batch) \in Seq(Message)
      BY <3>0, <2>2, HeadTailProperties
    <3>2. [rd EXCEPT !.batch = Tail(@)] \in ReaderState
      BY <1>0, <3>1 DEF ReaderState
    <3> QED
      BY <1>0, <1>2, <2>2, <3>1, <3>2, DeliverType DEF next_pending, shared, ReaderState
  <2> QED
    BY <1>2, <2>1, <2>2 DEF next_pending
<1>3. CASE next_parse
  <2>1. ASSUME NEW msg \in Message, NEW more \in BOOLEAN,
               Deliver(msg, [rd EXCEPT !.inbound = @ + 1, !.data = more])
        PROVE  Goal
    <3>1. rd.message = "none"
      BY <1>3 DEF next_parse, NothingInHand
    <3>2. [rd EXCEPT !.inbound = @ + 1, !.data = more] \in ReaderState
      <4>1. rd.inbound + 1 \in Nat
        BY <1>0 DEF ReaderState
      <4> QED
        BY <1>0, <4>1, Zenon DEF ReaderState
    <3> QED
      BY <1>0, <1>3, <2>1, <3>1, <3>2, DeliverType DEF next_parse, shared, ReaderState
  <2>2. CASE rd' = [rd EXCEPT !.pc = "read", !.data = FALSE] /\ UNCHANGED status
    BY <1>0, <1>3, <2>2 DEF next_parse, shared, ReaderState, ReaderType, StatusStep
  <2>3. CASE /\ rd' = [rd EXCEPT !.pc = "reserveError", !.data = FALSE, !.parseError = TRUE]
             /\ begin_closing("ReadErrorPending")
    BY <1>0, <1>3, <2>3 DEF next_parse, shared, ReaderState, ReaderType, StatusStep,
       begin_closing, ReaderAwaits
  <2> QED
    BY <1>3, <2>1, <2>2, <2>3 DEF next_parse
<1>4. CASE next_nothing
  BY <1>0, <1>4 DEF next_nothing, shared, ReaderState, ReaderType, StatusStep, ReaderAwaits
<1>5. CASE next_hand_off
  BY <1>0, <1>5 DEF next_hand_off, Push, shared, ReaderState, ReaderType, StatusStep
<1>6. CASE next_no_driver
  BY <1>0, <1>6 DEF next_no_driver, terminate, shared, ReaderState, ReaderType, StatusStep, Terminal
<1>7. CASE next_read_error
  BY <1>0, <1>7 DEF next_read_error, Push, shared, ReaderState, ReaderType, StatusStep
<1>8. CASE poll_read
  BY <1>0, <1>8 DEF poll_read, ReadDone, shared, ReaderState, ReaderType, StatusStep, ReaderAwaits
<1>9. CASE poll_read_ready
  <2>1. PICK result \in {"bytes", "eof", "error"} : rd' = ReadDone(result)
    BY <1>9 DEF poll_read_ready
  <2>2. ReaderType' /\ rd'.request = rd.request
    BY <1>0, <2>1, ZenonT(60) DEF ReadDone, ReaderState, ReaderType, ReaderAwaits
  <2> QED
    BY <1>0, <1>9, <2>2 DEF poll_read_ready, shared, StatusStep
<1>10. CASE next_eof
  BY <1>0, <1>10 DEF next_eof, Push, shared, ReaderState, ReaderType, StatusStep
<1>11. CASE next_terminate
  BY <1>0, <1>11 DEF next_terminate, terminate, shared, ReaderState, ReaderType, StatusStep,
     Terminal
<1>12. CASE next_notified
  BY <1>0, <1>12 DEF next_notified, shared, ReaderState, ReaderType, StatusStep
<1>13. CASE next_cancelled
  <2>1. cancels' \in Nat
    BY <1>0, <1>13 DEF next_cancelled, CanCancel
  <2> QED
    BY <1>0, <1>13, <2>1 DEF next_cancelled, shared, ReaderState, ReaderType, StatusStep
<1>14. CASE drop_reader
  BY <1>0, <1>14 DEF drop_reader, ReaderState, ReaderType, StatusStep
<1>15. CASE compressed_next_parse
  <2>1. PICK k \in 0 .. MaxInbound - rd.inbound, bad \in BOOLEAN :
        \E batch \in [1 .. k -> Message] :
         /\ rd' = [rd EXCEPT !.data = FALSE, !.batch = batch, !.inbound = @ + k, !.parseError = bad,
                             !.pc = IF k = 0 /\ ~bad /\ rd.pc = "top" THEN "read" ELSE "top"]
         /\ IF bad THEN begin_closing("ReadErrorPending") ELSE UNCHANGED status
    BY <1>15 DEF compressed_next_parse
  <2>2. PICK batch \in [1 .. k -> Message] :
         /\ rd' = [rd EXCEPT !.data = FALSE, !.batch = batch, !.inbound = @ + k, !.parseError = bad,
                             !.pc = IF k = 0 /\ ~bad /\ rd.pc = "top" THEN "read" ELSE "top"]
         /\ IF bad THEN begin_closing("ReadErrorPending") ELSE UNCHANGED status
    BY <2>1
  <2>3. k \in Nat /\ rd.inbound + k \in Nat
    BY <1>0, SplitAssumption DEF ReaderState
  <2>4. batch \in Seq(Message)
    BY <2>3
  <2>5. rd' \in ReaderState /\ rd'.request = rd.request /\ rd'.message = rd.message /\ rd'.pc # "reserve"
    BY <1>0, <2>2, <2>3, <2>4, ZenonT(60) DEF ReaderState
  <2>6. StatusStep
    BY <2>2 DEF begin_closing, StatusStep
  <2>7. UNCHANGED <<zero, cancel, transport, sink, wire, queue, wr, dr, cancels>>
    BY <1>15 DEF compressed_next_parse, shared
  <2> QED
    BY <1>0, <2>5, <2>6, <2>7 DEF ReaderType
<1> QED
  BY <1>1, <1>2, <1>3, <1>4, <1>5, <1>6, <1>7, <1>8, <1>9, <1>10, <1>11, <1>12, <1>13, <1>14, <1>15
  DEF ReaderStep, Reader, delivering, reading, compressed_next_deliver, compressed_next_read

-----------------------------------------------------------------------------
(* The sink and the wire *)

\* What a lock, a release or a cancelled wait does to the other holders.
LEMMA SinkFacts ==
    ASSUME sink \in Seq({"W", "P", "D"})
    PROVE  /\ \A a \in {"W", "P", "D"} : /\ Without(sink, a) \in Seq({"W", "P", "D"})
                                         /\ Append(sink, a) \in Seq({"W", "P", "D"})
           /\ \A a, b \in {"W", "P", "D"} :
                /\ Holder(b) => Append(sink, a) # <<>> /\ Head(Append(sink, a)) = b
                /\ Holder(b) /\ a # b => Without(sink, a) # <<>> /\ Head(Without(sink, a)) = b
           /\ \A a \in {"W", "P", "D"} : <<a>> \in Seq({"W", "P", "D"}) /\ <<a>> # <<>> /\ Head(<<a>>) = a
<1>1. ASSUME NEW a \in {"W", "P", "D"}
      PROVE  /\ Without(sink, a) \in Seq({"W", "P", "D"})
             /\ sink # <<>> /\ Head(sink) # a =>
                  Without(sink, a) # <<>> /\ Head(Without(sink, a)) = Head(sink)
  BY WithoutProperties
<1>2. ASSUME NEW a \in {"W", "P", "D"}
      PROVE  /\ Append(sink, a) \in Seq({"W", "P", "D"}) /\ Append(sink, a) # <<>>
             /\ sink # <<>> => Head(Append(sink, a)) = Head(sink)
  BY AppendKeepsHead
<1> QED
  BY <1>1, <1>2 DEF Holder

\* Ending a frame makes the last one whole and changes no other.
LEMMA EndFrameProperties ==
    ASSUME wire \in Seq(Frame), wire # <<>>, EndFrame
    PROVE  /\ wire' \in Seq(Frame) /\ Len(wire') = Len(wire)
           /\ \A i \in 1 .. Len(wire) : /\ wire'[i].kind = wire[i].kind
                                        /\ wire[i].whole => wire'[i] = wire[i]
           /\ wire' # <<>> /\ wire'[Len(wire)] = [kind |-> wire[Len(wire)].kind, whole |-> TRUE]
<1>1. Len(wire) \in Nat /\ \A i \in 1 .. Len(wire) : wire[i] \in Frame
  BY LenProperties
<1>2. wire' = [wire EXCEPT ![Len(wire)] = [wire[Len(wire)] EXCEPT !.whole = TRUE]]
  BY DEF EndFrame
<1> DEFINE n == Len(wire)
           f == [wire[n] EXCEPT !.whole = TRUE]
<1>3. n \in 1 .. Len(wire) /\ wire[n] \in Frame
  BY <1>1
<1>4. f = [kind |-> wire[n].kind, whole |-> TRUE]
  <2>1. ASSUME NEW g \in Frame
        PROVE  [g EXCEPT !.whole = TRUE] = [kind |-> g.kind, whole |-> TRUE]
    <3> DEFINE h == [g EXCEPT !.whole = TRUE]
    <3>1. h \in Frame /\ h.kind = g.kind /\ h.whole = TRUE
      BY DEF Frame
    <3> HIDE DEF h
    <3>2. h = [kind |-> h.kind, whole |-> TRUE]
      BY <3>1 DEF Frame
    <3> QED
      BY <3>1, <3>2 DEF h
  <2> QED
    BY <1>3, <2>1
<1>5. f \in Frame
  BY <1>3, <1>4 DEF Frame
<1> HIDE DEF f, n
<1>6. wire' = [wire EXCEPT ![n] = f]
  BY <1>2 DEF n, f
<1>7. /\ wire' \in Seq(Frame) /\ Len(wire') = Len(wire)
      /\ \A i \in 1 .. Len(wire) : wire'[i] = IF i = n THEN f ELSE wire[i]
  BY <1>3, <1>5, <1>6, ExceptSeq
<1>8. wire[n].whole => f = wire[n]
  BY <1>3, <1>4 DEF Frame
<1>9. f.kind = wire[n].kind
  BY <1>4
<1>10. wire' # <<>>
  BY <1>7, <1>3, <1>1
<1>11. wire'[n] = f
  BY <1>7, <1>3
<1> QED
  BY <1>4, <1>7, <1>8, <1>9, <1>10, <1>11 DEF n

\* Beginning a frame adds a part-written one at the end, on an open transport only.
LEMMA BeginFrameProperties ==
    ASSUME wire \in Seq(Frame), NEW kind \in Message, BeginFrame(kind)
    PROVE  /\ wire' \in Seq(Frame)
           /\ transport # "Open" => wire' = wire
           /\ transport = "Open" =>
                /\ wire' # <<>> /\ Len(wire') = Len(wire) + 1
                /\ \A i \in 1 .. Len(wire) : wire'[i] = wire[i]
                /\ wire'[Len(wire) + 1] = [kind |-> kind, whole |-> FALSE]
<1>1. [kind |-> kind, whole |-> FALSE] \in Frame
  BY DEF Frame
<1> QED
  BY <1>1, AppendProperties DEF BeginFrame

WriterType ==
    /\ wr \in WriterState /\ sink \in Seq({"W", "P", "D"}) /\ queue \in Seq(Request)
    /\ status \in Status /\ cancel \in BOOLEAN /\ cancels \in Nat /\ wire \in Seq(Frame)

\* A step of the write handle leaves the reader and the driver alone and the rest typed.
LEMMA WriterTypeStep ==
    ASSUME TypeOK, CallInv, WireInv, WriterStep
    PROVE  WriterType' /\ UNCHANGED <<zero, transport, rd, dr>> /\ StatusStep
<1> USE DEF WriterState, WriterIdle
<1>0. /\ wr \in WriterState /\ sink \in Seq({"W", "P", "D"}) /\ status \in Status /\ wire \in Seq(Frame)
      /\ queue \in Seq(Request) /\ cancel \in BOOLEAN /\ cancels \in Nat
  BY DEF TypeOK
<1>a. /\ Without(sink, "W") \in Seq({"W", "P", "D"}) /\ Append(sink, "W") \in Seq({"W", "P", "D"})
      /\ <<"W">> \in Seq({"W", "P", "D"})
  BY <1>0, SinkFacts
<1>b. Append(queue, "LocalCloseStarted") \in Seq(Request) /\ Append(queue, "LocalCloseSent") \in Seq(Request)
  BY <1>0, AppendProperties DEF Request
<1>1. ASSUME NEW op \in {"Data", "Close", "Flush"}, send(op)
      PROVE  WriterType' /\ UNCHANGED <<zero, transport, rd, dr>> /\ StatusStep
  <2>1. wr.sends + 1 \in Nat
    BY <1>0
  <2> QED
    BY <1>1, <1>0, <2>1, Zenon DEF send, WriterType, StatusStep
<1>2. CASE send_reserve
  BY <1>2, <1>0, <1>a, <1>b DEF send_reserve, WriterType, StatusStep
<1>3. CASE send_begin_local_closing
  BY <1>3, <1>0, <1>a, <1>b DEF send_begin_local_closing, WriterType, StatusStep, begin_closing,
     Status
<1>4. CASE send_close_started
  BY <1>4, <1>0, <1>a, <1>b DEF send_close_started, WriterType, StatusStep, Push
<1>5. CASE send_lock
  BY <1>5, <1>0, <1>a, <1>b DEF send_lock, WriterType, StatusStep
<1>6. CASE send_locked
  BY <1>6, <1>0, <1>a, <1>b DEF send_locked, WriterType, StatusStep
<1>7. CASE send_write
  <2>1. wr.op \in Message
    BY <1>7 DEF send_write, CallInv, Message, Control
  <2>2. wire' \in Seq(Frame)
    BY <1>7, <1>0, <2>1, BeginFrameProperties DEF send_write
  <2> QED
    BY <1>7, <1>0, <2>2 DEF send_write, WriterType, StatusStep
<1>8. CASE send_written
  <2>1. wire' \in Seq(Frame)
    BY <1>8, <1>0, EndFrameProperties DEF send_written, WireInv
  <2> QED
    BY <1>8, <1>0, <1>a, <2>1 DEF send_written, WriterType, StatusStep
<1>9. CASE send_aborted
  <2>1. cancels' \in Nat
    BY <1>9, <1>0 DEF send_aborted, CanCancel
  <2> QED
    BY <1>9, <1>0, <1>a, <2>1 DEF send_aborted, WriterType, StatusStep
<1>10. CASE send_terminate
  BY <1>10, <1>0, <1>a, <1>b DEF send_terminate, WriterType, StatusStep, terminate, Status, Terminal
<1>11. CASE send_cancel
  BY <1>11, <1>0, <1>a, <1>b DEF send_cancel, WriterType, StatusStep
<1>12. CASE send_notify
  BY <1>12, <1>0, <1>a, <1>b DEF send_notify, WriterType, StatusStep, Push
<1>13. CASE flush
  BY <1>13, <1>0, <1>a, <1>b DEF flush, WriterType, StatusStep, terminate, Status, Terminal
<1>14. CASE send_cancelled
  <2>1. cancels' \in Nat
    BY <1>14, <1>0 DEF send_cancelled, CanCancel
  <2> QED
    BY <1>14, <1>0, <1>a, <2>1 DEF send_cancelled, WriterType, StatusStep
<1>15. CASE drop_writer
  BY <1>15, <1>0, <1>a, <1>b DEF drop_writer, WriterType, StatusStep
<1> QED
  BY <1>1, <1>2, <1>3, <1>4, <1>5, <1>6, <1>7, <1>8, <1>9, <1>10, <1>11, <1>12, <1>13, <1>14,
     <1>15 DEF WriterStep, Writer

DriverType ==
    /\ dr \in DriverState /\ sink \in Seq({"W", "P", "D"}) /\ status \in Status /\ wire \in Seq(Frame)
    /\ queue \in Seq(Request) /\ cancel \in BOOLEAN /\ transport \in {"Open", "Closing", "Closed"}

\* Taking a request records it and touches neither the write in progress nor the driver's
\* place.
LEMMA OnRequestType ==
    ASSUME NEW d \in DriverState, NEW request
    PROVE  /\ OnRequest(d, request) \in DriverState
           /\ OnRequest(d, request).pc = d.pc
           /\ OnRequest(d, request).write = d.write /\ OnRequest(d, request).phase = d.phase
           /\ OnRequest(d, request).localCloseSent => d.localCloseSent \/ request = "LocalCloseSent"
           /\ OnRequest(d, request).peerClose => d.peerClose \/ request = "PeerClose"
<1>0. Armed(d) \in {"none", "armed", "expired"}
  BY DEF Armed, DriverState
<1>1. CASE request = "Ping"
  <2>1. OnRequest(d, request) = [d EXCEPT !.pendingPong = TRUE]
    BY <1>1 DEF OnRequest
  <2> QED
    BY <1>0, <1>1, <2>1 DEF DriverState
<1>2. CASE request = "PeerClose"
  <2>1. OnRequest(d, request) = [d EXCEPT !.heartbeat = "stopped", !.peerClose = TRUE,
                                          !.deadline = IF status = "LocalClosing" THEN @ ELSE Armed(d)]
    BY <1>2 DEF OnRequest
  <2> QED
    BY <1>0, <1>2, <2>1, ZenonT(60) DEF DriverState
<1>3. CASE request = "LocalCloseStarted"
  <2>1. OnRequest(d, request) = [d EXCEPT !.heartbeat = "stopped", !.deadline = Armed(d)]
    BY <1>3 DEF OnRequest
  <2> QED
    BY <1>0, <1>3, <2>1, ZenonT(60) DEF DriverState
<1>4. CASE request = "LocalCloseSent"
  <2>1. OnRequest(d, request) = [d EXCEPT !.heartbeat = "stopped", !.localCloseSent = TRUE, !.deadline = Armed(d)]
    BY <1>4 DEF OnRequest
  <2> QED
    BY <1>0, <1>4, <2>1, ZenonT(60) DEF DriverState
<1>5. CASE request \notin {"Ping", "PeerClose", "LocalCloseStarted", "LocalCloseSent"}
  <2>1. OnRequest(d, request) = [d EXCEPT !.heartbeat = "stopped", !.readError = TRUE, !.deadline = Armed(d)]
    BY <1>5 DEF OnRequest
  <2> QED
    BY <1>0, <1>5, <2>1, ZenonT(60) DEF DriverState
<1> QED
  BY <1>1, <1>2, <1>3, <1>4, <1>5

\* A driver step leaves the two handles alone and the rest typed.
LEMMA DriverTypeStep ==
    ASSUME TypeOK, WireInv, DriverStep
    PROVE  DriverType' /\ UNCHANGED <<zero, rd, wr, cancels>> /\ StatusStep
<1> USE DEF DriverState, DriverEnded, Control, Terminal, BeginClose, io
<1>0. /\ dr \in DriverState /\ sink \in Seq({"W", "P", "D"}) /\ status \in Status /\ wire \in Seq(Frame)
      /\ queue \in Seq(Request) /\ cancel \in BOOLEAN /\ transport \in {"Open", "Closing", "Closed"}
  BY DEF TypeOK
<1>a. /\ \A a \in {"P", "D"} : Without(sink, a) \in Seq({"W", "P", "D"}) /\ Append(sink, a) \in Seq({"W", "P", "D"})
      /\ <<"D">> \in Seq({"W", "P", "D"})
  BY <1>0, SinkFacts
<1>b. /\ <<>> \in Seq(Request)
      /\ queue # <<>> => Tail(queue) \in Seq(Request) /\ Head(queue) \in Request
  BY <1>0, EmptySeq, HeadTailProperties
<1>1. CASE driver_top
  BY <1>1, <1>0, <1>a, <1>b DEF driver_top, DriverType, StatusStep, EnterSelect
<1>2. CASE driver_start_write
  BY <1>2, <1>0, <1>a, <1>b, ZenonT(60) DEF driver_start_write, DriverType, StatusStep, EnterSelect
<1>3. CASE driver_wait_sink
  BY <1>3, <1>0, <1>a, <1>b DEF driver_wait_sink, DriverType, StatusStep
<1>4. CASE driver_panic
  BY <1>4, <1>0, <1>a, <1>b DEF driver_panic, DriverType, StatusStep, DriverInit
<1>5. CASE driver_sink_wait_over
  BY <1>5, <1>0, <1>a, <1>b, ZenonT(60) DEF driver_sink_wait_over, DriverType, StatusStep
<1>6. CASE driver_finish_close
  BY <1>6, <1>0, <1>a, <1>b DEF driver_finish_close, DriverType, StatusStep, terminate, Status
<1>7. CASE driver_stop
  <2>1. Without(Without(sink, "D"), "P") \in Seq({"W", "P", "D"})
    BY <1>a, WithoutProperties
  <2> QED
    BY <1>7, <1>0, <1>b, <2>1 DEF driver_stop, DriverType, StatusStep, DriverInit
<1>8. CASE poll_cancelled
  <2>1. dr' \in DriverState /\ transport' \in {"Open", "Closing", "Closed"}
    <3>1. CASE cancel
      BY <1>8, <1>0, <3>1, ZenonT(60) DEF poll_cancelled
    <3>2. CASE ~cancel
      BY <1>8, <1>0, <3>2, SMTT(60) DEF poll_cancelled
    <3> QED
      BY <3>1, <3>2
  <2> QED
    BY <1>8, <1>0, <2>1 DEF poll_cancelled, DriverType, StatusStep
<1>9. CASE poll_control
  <2>0. UNCHANGED <<io, status, cancel, sink, wire>>
    BY <1>9 DEF poll_control
  <2>1. CASE queue = <<>> /\ ~SendersGone
    BY <1>9, <1>0, <2>1 DEF poll_control, DriverType, StatusStep
  <2>2. CASE queue = <<>> /\ SendersGone
    BY <1>9, <1>0, <2>2, ZenonT(60) DEF poll_control, DriverType, StatusStep
  <2>3. CASE queue # <<>> /\ Head(queue) = "Eof"
    BY <1>9, <1>0, <1>b, <2>3, ZenonT(60) DEF poll_control, DriverType, StatusStep
  <2>4. CASE queue # <<>> /\ Head(queue) = "Pong"
    <3>1. PICK matches \in BOOLEAN : dr' = [OnPong(dr, matches) EXCEPT !.pc = "top"]
      BY <1>9, <2>4 DEF poll_control
    <3>2. dr' \in DriverState
      BY <1>0, <3>1, ZenonT(60) DEF OnPong
    <3>3. queue' = Tail(queue) /\ UNCHANGED transport
      BY <1>9, <2>4 DEF poll_control
    <3> QED
      BY <1>0, <1>b, <2>0, <2>4, <3>2, <3>3 DEF DriverType, StatusStep
  <2>5. CASE queue # <<>> /\ Head(queue) \notin {"Eof", "Pong"}
    <3>1. dr' = [OnRequest(dr, Head(queue)) EXCEPT !.pc = "top"] /\ queue' = Tail(queue) /\ UNCHANGED transport
      BY <1>9, <2>5 DEF poll_control
    <3>2. OnRequest(dr, Head(queue)) \in DriverState
      BY <1>0, OnRequestType
    <3>3. dr' \in DriverState
      BY <3>1, <3>2
    <3> QED
      BY <1>0, <1>b, <2>0, <2>5, <3>1, <3>3 DEF DriverType, StatusStep
  <2> QED
    BY <2>1, <2>2, <2>3, <2>4, <2>5
<1>10. CASE poll_close_timer
  BY <1>10, <1>0, <1>a, <1>b DEF poll_close_timer, DriverType, StatusStep
<1>11. CASE poll_heartbeat
  <2>1. dr' \in DriverState
    <3>1. ASSUME NEW cause \in Terminal, timeout_close(cause) PROVE dr' \in DriverState
      <4> DEFINE next == IF sink = <<>> THEN "timeoutClose" ELSE "finish"
      <4>1. dr' = [dr EXCEPT !.pc = next, !.cause = cause] /\ next \in {"timeoutClose", "finish"}
        BY <3>1 DEF timeout_close
      <4> HIDE DEF next
      <4> QED
        BY <1>0, <4>1, ZenonT(60)
    <3>2. CASE dr' = [dr EXCEPT !.pc = IF dr.write = "none" THEN "cancel?" ELSE "write?"]
      BY <1>0, <3>2
    <3>3. CASE dr' = [dr EXCEPT !.pc = "top"]
      BY <1>0, <3>3
    <3>4. CASE dr' = [dr EXCEPT !.pc = "top", !.write = "Ping", !.phase = "new",
                                !.heartbeat = "unflushed", !.pings = @ + 1]
      <4>1. dr.pings + 1 \in Nat
        BY <1>0
      <4> QED
        BY <1>0, <3>4, <4>1, ZenonT(60)
    <3>5. CASE timeout_close("ClosedHeartbeat") \/ timeout_close("ClosedIdle")
      BY <3>1, <3>5
    <3> QED
      BY <1>11, <3>2, <3>3, <3>4, <3>5 DEF poll_heartbeat
  <2>2. sink' \in Seq({"W", "P", "D"}) /\ transport' \in {"Open", "Closing", "Closed"}
    BY <1>11, <1>0, <1>a DEF poll_heartbeat, timeout_close
  <2> QED
    BY <1>11, <1>0, <2>1, <2>2 DEF poll_heartbeat, DriverType, StatusStep
<1>12. CASE timeout_close_write
  <2>1. wire' \in Seq(Frame)
    <3>1. ASSUME NEW whole \in BOOLEAN
          PROVE  Append(wire, [kind |-> "Close", whole |-> whole]) \in Seq(Frame)
      BY <1>0, AppendProperties DEF Frame, Message
    <3> QED
      BY <1>12, <1>0, <3>1, ZenonT(60) DEF timeout_close_write
  <2> QED
    BY <1>12, <1>0, <2>1 DEF timeout_close_write, DriverType, StatusStep
<1>13. CASE poll_write_pending
  BY <1>13, <1>0, <1>a, <1>b DEF poll_write_pending, DriverType, StatusStep
<1>14. CASE poll_write_lock
  BY <1>14, <1>0, <1>a, <1>b DEF poll_write_lock, DriverType, StatusStep
<1>15. CASE poll_write_begin
  <2>1. dr.write \in Message
    BY <1>15, <1>0 DEF poll_write_begin, WireInv, Message
  <2>2. wire' \in Seq(Frame)
    BY <1>15, <1>0, <2>1, BeginFrameProperties DEF poll_write_begin
  <2> QED
    BY <1>15, <1>0, <2>2 DEF poll_write_begin, DriverType, StatusStep
<1>16. CASE poll_write_done
  <2>1. wire # <<>>
    BY <1>16 DEF poll_write_done, WireInv
  <2>2. wire' \in Seq(Frame)
    BY <1>16, <1>0, <2>1, EndFrameProperties DEF poll_write_done
  <2> QED
    BY <1>16, <1>0, <1>a, <2>2, ZenonT(60) DEF poll_write_done, DriverType, StatusStep
<1>17. CASE poll_write_failed
  BY <1>17, <1>0, <1>a, <1>b, ZenonT(60) DEF poll_write_failed, DriverType, StatusStep
<1>18. CASE deadline_expires
  BY <1>18, <1>0, <1>a, <1>b DEF deadline_expires, DriverType, StatusStep
<1> QED
  BY <1>1, <1>2, <1>3, <1>4, <1>5, <1>6, <1>7, <1>8, <1>9, <1>10, <1>11, <1>12, <1>13, <1>14,
     <1>15, <1>16, <1>17, <1>18 DEF DriverStep, Driver

\* The status never returns to Open, and a terminal one never changes.
LEMMA StatusStays ==
    ASSUME StatusStep
    PROVE  /\ status # "Open" => status' # "Open"
           /\ status \in Terminal => status' = status
BY DEF StatusStep, Terminal

\* Steps that leave the transport and the driver alone keep who has the stream.
LEMMA ReaderTransport ==
    ASSUME TransportInv, UNCHANGED <<transport, dr>>, StatusStep
    PROVE  TransportInv'
BY StatusStays DEF TransportInv

\* The driver's steps keep who has the stream.
LEMMA DriverTransport ==
    ASSUME TypeOK, TransportInv, DriverStep
    PROVE  TransportInv'
<1>0. dr \in DriverState /\ status \in Status /\ transport \in {"Open", "Closing", "Closed"}
  BY DEF TypeOK
<1> USE DEF TransportInv, DriverState, DriverEnded, Terminal, BeginClose
<1>1. CASE driver_top
  BY <1>1, <1>0 DEF driver_top, EnterSelect
<1>2. CASE driver_start_write
  BY <1>2, <1>0 DEF driver_start_write, EnterSelect
<1>3. CASE driver_wait_sink
  BY <1>3, <1>0 DEF driver_wait_sink
<1>4. CASE driver_panic
  BY <1>4, <1>0 DEF driver_panic, DriverInit
<1>5. CASE driver_sink_wait_over
  BY <1>5, <1>0 DEF driver_sink_wait_over
<1>6. CASE driver_finish_close
  BY <1>6, <1>0 DEF driver_finish_close, terminate
<1>7. CASE driver_stop
  BY <1>7, <1>0 DEF driver_stop, DriverInit
<1>8. CASE poll_cancelled
  BY <1>8, <1>0 DEF poll_cancelled
<1>9. CASE poll_control
  BY <1>9, <1>0, ZenonT(60) DEF poll_control, OnRequest, OnPong, Armed
<1>10. CASE poll_close_timer
  BY <1>10, <1>0 DEF poll_close_timer
<1>11. CASE poll_heartbeat
  BY <1>11, <1>0, ZenonT(60) DEF poll_heartbeat, timeout_close
<1>12. CASE timeout_close_write
  BY <1>12, <1>0 DEF timeout_close_write
<1>13. CASE poll_write_pending
  BY <1>13, <1>0 DEF poll_write_pending
<1>14. CASE poll_write_lock
  BY <1>14, <1>0 DEF poll_write_lock
<1>15. CASE poll_write_begin
  BY <1>15, <1>0 DEF poll_write_begin
<1>16. CASE poll_write_done
  BY <1>16, <1>0 DEF poll_write_done
<1>17. CASE poll_write_failed
  BY <1>17, <1>0 DEF poll_write_failed
<1>18. CASE deadline_expires
  BY <1>18, <1>0 DEF deadline_expires
<1> QED
  BY <1>1, <1>2, <1>3, <1>4, <1>5, <1>6, <1>7, <1>8, <1>9, <1>10, <1>11, <1>12, <1>13, <1>14,
     <1>15, <1>16, <1>17, <1>18 DEF DriverStep, Driver

\* The write handle only writes while it is at the head of the sink's lock.
LEMMA WriterSink ==
    ASSUME TypeOK, SinkExclusive, WriterStep
    PROVE  SinkExclusive'
<1>0. wr \in WriterState /\ sink \in Seq({"W", "P", "D"})
  BY DEF TypeOK
<1>a. /\ Holder("P") => /\ Without(sink, "W") # <<>> /\ Head(Without(sink, "W")) = "P"
                        /\ Append(sink, "W") # <<>> /\ Head(Append(sink, "W")) = "P"
      /\ Holder("D") => /\ Without(sink, "W") # <<>> /\ Head(Without(sink, "W")) = "D"
                        /\ Append(sink, "W") # <<>> /\ Head(Append(sink, "W")) = "D"
      /\ <<"W">> # <<>> /\ Head(<<"W">>) = "W"
  BY <1>0, SinkFacts
<1> USE DEF SinkExclusive, Holder, WriterState, WriterIdle
<1>1. ASSUME NEW op \in {"Data", "Close", "Flush"}, send(op) PROVE SinkExclusive'
  BY <1>1, <1>0, <1>a DEF send
<1>2. CASE send_reserve
  BY <1>2, <1>0, <1>a DEF send_reserve
<1>3. CASE send_begin_local_closing
  BY <1>3, <1>0, <1>a DEF send_begin_local_closing
<1>4. CASE send_close_started
  BY <1>4, <1>0, <1>a DEF send_close_started
<1>5. CASE send_lock
  BY <1>5, <1>0, <1>a DEF send_lock
<1>6. CASE send_locked
  BY <1>6, <1>0, <1>a DEF send_locked
<1>7. CASE send_write
  BY <1>7, <1>0, <1>a DEF send_write
<1>8. CASE send_written
  BY <1>8, <1>0, <1>a DEF send_written
<1>9. CASE send_aborted
  BY <1>9, <1>0, <1>a DEF send_aborted
<1>10. CASE send_terminate
  BY <1>10, <1>0, <1>a DEF send_terminate
<1>11. CASE send_cancel
  BY <1>11, <1>0, <1>a DEF send_cancel
<1>12. CASE send_notify
  BY <1>12, <1>0, <1>a DEF send_notify
<1>13. CASE flush
  BY <1>13, <1>0, <1>a DEF flush
<1>14. CASE send_cancelled
  BY <1>14, <1>0, <1>a DEF send_cancelled
<1>15. CASE drop_writer
  BY <1>15, <1>0, <1>a DEF drop_writer
<1> QED
  BY <1>1, <1>2, <1>3, <1>4, <1>5, <1>6, <1>7, <1>8, <1>9, <1>10, <1>11, <1>12, <1>13, <1>14,
     <1>15 DEF WriterStep, Writer

\* The driver only writes while its own entry is at the head of the sink's lock.
LEMMA DriverSink ==
    ASSUME TypeOK, SinkExclusive, WireInv, DriverStep
    PROVE  SinkExclusive'
<1>0. dr \in DriverState /\ sink \in Seq({"W", "P", "D"})
  BY DEF TypeOK
<1>a. /\ Holder("W") => /\ \A a \in {"P", "D"} : /\ Without(sink, a) # <<>> /\ Head(Without(sink, a)) = "W"
                                                    /\ Append(sink, a) # <<>> /\ Head(Append(sink, a)) = "W"
      /\ Holder("P") => /\ Without(sink, "D") # <<>> /\ Head(Without(sink, "D")) = "P"
                        /\ Append(sink, "D") # <<>> /\ Head(Append(sink, "D")) = "P"
      /\ <<"D">> # <<>> /\ Head(<<"D">>) = "D"
  BY <1>0, SinkFacts
<1> USE DEF SinkExclusive, Holder, DriverState, DriverEnded, BeginClose, io
<1>1. CASE driver_top
  BY <1>1, <1>0, <1>a DEF driver_top, EnterSelect
<1>2. CASE driver_start_write
  BY <1>2, <1>0, <1>a DEF driver_start_write, EnterSelect
<1>3. CASE driver_wait_sink
  BY <1>3, <1>0, <1>a DEF driver_wait_sink
<1>4. CASE driver_panic
  BY <1>4, <1>0, <1>a DEF driver_panic, DriverInit
<1>5. CASE driver_sink_wait_over
  BY <1>5, <1>0, <1>a, ZenonT(60) DEF driver_sink_wait_over
<1>6. CASE driver_finish_close
  BY <1>6, <1>0, <1>a DEF driver_finish_close, terminate
<1>7. CASE driver_stop
  <2>1. Holder("W") => /\ Without(Without(sink, "D"), "P") # <<>>
                       /\ Head(Without(Without(sink, "D"), "P")) = "W"
    <3>1. Without(sink, "D") \in Seq({"W", "P", "D"})
      BY <1>0, SinkFacts
    <3> QED
      BY <1>a, <3>1, WithoutProperties
  <2> QED
    BY <1>7, <1>0, <2>1 DEF driver_stop, DriverInit
<1>8. CASE poll_cancelled
  BY <1>8, <1>0, <1>a DEF poll_cancelled
<1>9. CASE poll_control
  BY <1>9, <1>0, <1>a, ZenonT(60) DEF poll_control, OnRequest, OnPong, Armed
<1>10. CASE poll_close_timer
  BY <1>10, <1>0, <1>a DEF poll_close_timer
<1>11. CASE poll_heartbeat
  <2>0. UNCHANGED wr
    BY <1>11 DEF poll_heartbeat
  <2>1. ASSUME NEW cause, timeout_close(cause) PROVE SinkExclusive'
    <3>1. CASE sink = <<>>
      BY <1>0, <1>a, <2>0, <2>1, <3>1 DEF timeout_close
    <3>2. CASE sink # <<>>
      BY <1>0, <2>0, <2>1, <3>2 DEF timeout_close
    <3> QED
      BY <3>1, <3>2
  <2>2. CASE UNCHANGED sink
    BY <1>11, <1>0, <2>0, <2>1, <2>2 DEF poll_heartbeat
  <2> QED
    BY <1>11, <2>1, <2>2 DEF poll_heartbeat
<1>12. CASE timeout_close_write
  BY <1>12, <1>0, <1>a DEF timeout_close_write
<1>13. CASE poll_write_pending
  BY <1>13, <1>0, <1>a DEF poll_write_pending
<1>14. CASE poll_write_lock
  BY <1>14, <1>0, <1>a DEF poll_write_lock
<1>15. CASE poll_write_begin
  BY <1>15, <1>0, <1>a DEF poll_write_begin
<1>16. CASE poll_write_done
  BY <1>16, <1>0, <1>a DEF poll_write_done
<1>17. CASE poll_write_failed
  BY <1>17, <1>0, <1>a DEF poll_write_failed
<1>18. CASE deadline_expires
  BY <1>18, <1>0, <1>a DEF deadline_expires
<1> QED
  BY <1>1, <1>2, <1>3, <1>4, <1>5, <1>6, <1>7, <1>8, <1>9, <1>10, <1>11, <1>12, <1>13, <1>14,
     <1>15, <1>16, <1>17, <1>18 DEF DriverStep, Driver

\* The write handle's place matches the call it is in.
LEMMA WriterCall ==
    ASSUME TypeOK, CallInv, WriterStep
    PROVE  CallInv'
<1>0. wr \in WriterState
  BY DEF TypeOK
<1> USE DEF CallInv, WriterState, WriterIdle
<1>1. ASSUME NEW op \in {"Data", "Close", "Flush"}, send(op) PROVE CallInv'
  BY <1>1, <1>0 DEF send
<1>2. CASE send_reserve
  BY <1>2, <1>0 DEF send_reserve
<1>3. CASE send_begin_local_closing
  BY <1>3, <1>0 DEF send_begin_local_closing
<1>4. CASE send_close_started
  BY <1>4, <1>0 DEF send_close_started
<1>5. CASE send_lock
  BY <1>5, <1>0 DEF send_lock
<1>6. CASE send_locked
  BY <1>6, <1>0 DEF send_locked
<1>7. CASE send_write
  BY <1>7, <1>0 DEF send_write
<1>8. CASE send_written
  BY <1>8, <1>0 DEF send_written
<1>9. CASE send_aborted
  BY <1>9, <1>0 DEF send_aborted
<1>10. CASE send_terminate
  BY <1>10, <1>0 DEF send_terminate
<1>11. CASE send_cancel
  BY <1>11, <1>0 DEF send_cancel
<1>12. CASE send_notify
  BY <1>12, <1>0 DEF send_notify
<1>13. CASE flush
  BY <1>13, <1>0 DEF flush
<1>14. CASE send_cancelled
  BY <1>14, <1>0 DEF send_cancelled
<1>15. CASE drop_writer
  BY <1>15, <1>0 DEF drop_writer
<1> QED
  BY <1>1, <1>2, <1>3, <1>4, <1>5, <1>6, <1>7, <1>8, <1>9, <1>10, <1>11, <1>12, <1>13, <1>14,
     <1>15 DEF WriterStep, Writer

\* The write handle never begins a frame inside another.
LEMMA WriterWire ==
    ASSUME TypeOK, CallInv, TransportInv, SinkExclusive, WireInv, WriterStep
    PROVE  WireInv'
<1>0. wr \in WriterState /\ sink \in Seq({"W", "P", "D"}) /\ wire \in Seq(Frame)
  BY DEF TypeOK
<1>a. /\ Holder("P") => /\ Without(sink, "W") # <<>> /\ Head(Without(sink, "W")) = "P"
                        /\ Append(sink, "W") # <<>> /\ Head(Append(sink, "W")) = "P"
      /\ Holder("W") => Append(sink, "W") # <<>> /\ Head(Append(sink, "W")) = "W"
  BY <1>0, SinkFacts
<1>b. ASSUME UNCHANGED wire PROVE FrameBoundaries'
  BY <1>b DEF WireInv, FrameBoundaries
<1> USE DEF WireInv, MidFrame, Holder, WriterState, WriterIdle
<1>1. ASSUME NEW op \in {"Data", "Close", "Flush"}, send(op) PROVE WireInv'
  BY <1>1, <1>0, <1>a, <1>b DEF send
<1>2. CASE send_reserve
  BY <1>2, <1>0, <1>a, <1>b DEF send_reserve
<1>3. CASE send_begin_local_closing
  BY <1>3, <1>0, <1>a, <1>b DEF send_begin_local_closing
<1>4. CASE send_close_started
  BY <1>4, <1>0, <1>a, <1>b DEF send_close_started
<1>5. CASE send_lock
  BY <1>5, <1>0, <1>a, <1>b DEF send_lock
<1>6. CASE send_locked
  BY <1>6, <1>0, <1>a, <1>b DEF send_locked
<1>7. CASE send_write
  <2>1. /\ Holder("W") /\ wr.op \in Message /\ ~Holder("P")
        /\ UNCHANGED <<sink, dr, transport, cancel>>
    BY <1>7 DEF send_write, SinkExclusive, CallInv, Message, Control
  <2>2. CASE UNCHANGED wire /\ (transport # "Open" \/ wr' = [wr EXCEPT !.pc = "terminate"])
    BY <1>7, <1>0, <1>b, <2>1, <2>2 DEF send_write
  <2>3. CASE BeginFrame(wr.op) /\ transport = "Open" /\ ~cancel /\ wr' = [wr EXCEPT !.pc = "write"]
    <3>1. /\ wire' # <<>> /\ Len(wire') = Len(wire) + 1 /\ Len(wire) \in Nat
          /\ \A i \in 1 .. Len(wire) : wire'[i] = wire[i]
          /\ wire'[Len(wire) + 1] = [kind |-> wr.op, whole |-> FALSE]
      BY <1>0, <2>1, <2>3, BeginFrameProperties, LenProperties
    <3>2. wire # <<>> => wire[Len(wire)].whole
      BY <1>7, <2>1, <2>3 DEF send_write
    <3>3. \A i \in 1 .. Len(wire) : wire[i].whole
      BY <3>1, <3>2 DEF FrameBoundaries
    <3>4. FrameBoundaries'
      BY <3>1, <3>3 DEF FrameBoundaries
    <3>5. ~(dr.write # "none" /\ dr.phase = "begun")
      BY <2>1 DEF SinkExclusive
    <3> QED
      BY <1>0, <2>1, <2>3, <3>1, <3>4, <3>5
  <2> QED
    BY <1>7, <2>2, <2>3 DEF send_write, BeginFrame
<1>8. CASE send_written
  <2>1. wire # <<>> /\ Len(wire) \in Nat /\ EndFrame /\ UNCHANGED <<dr, transport>>
    BY <1>8, <1>0, LenProperties DEF send_written
  <2>2. /\ Len(wire') = Len(wire) /\ wire' # <<>> /\ wire'[Len(wire)].whole
        /\ \A i \in 1 .. Len(wire) : /\ wire'[i].kind = wire[i].kind
                                     /\ wire[i].whole => wire'[i] = wire[i]
    BY <1>0, <2>1, EndFrameProperties
  <2>3. FrameBoundaries'
    BY <2>1, <2>2 DEF FrameBoundaries
  <2>4. wr'.pc \in {"notify", "idle"}
    BY <1>8, <1>0 DEF send_written
  <2> QED
    BY <2>1, <2>2, <2>3, <2>4
<1>9. CASE send_aborted
  BY <1>9, <1>0, <1>a, <1>b DEF send_aborted
<1>10. CASE send_terminate
  BY <1>10, <1>0, <1>a, <1>b DEF send_terminate
<1>11. CASE send_cancel
  BY <1>11, <1>0, <1>a, <1>b DEF send_cancel
<1>12. CASE send_notify
  BY <1>12, <1>0, <1>a, <1>b DEF send_notify
<1>13. CASE flush
  BY <1>13, <1>0, <1>a, <1>b DEF flush
<1>14. CASE send_cancelled
  BY <1>14, <1>0, <1>a, <1>b DEF send_cancelled
<1>15. CASE drop_writer
  BY <1>15, <1>0, <1>a, <1>b DEF drop_writer
<1> QED
  BY <1>1, <1>2, <1>3, <1>4, <1>5, <1>6, <1>7, <1>8, <1>9, <1>10, <1>11, <1>12, <1>13, <1>14,
     <1>15 DEF WriterStep, Writer

\* What taking a request changes.
LEMMA ControlEffect ==
    ASSUME TypeOK, poll_control
    PROVE  /\ UNCHANGED <<zero, rd, wr, cancels, status, cancel, sink, wire>>
           /\ dr'.write = dr.write /\ dr'.phase = dr.phase
           /\ \/ dr'.pc \in {"timers?", "top"} /\ transport' = transport
              \/ dr'.pc = "finish" /\ transport' = "Closing"
           /\ queue' = queue \/ (queue # <<>> /\ queue' = Tail(queue))
           /\ dr'.localCloseSent => dr.localCloseSent \/ (queue # <<>> /\ Head(queue) = "LocalCloseSent")
           /\ dr'.peerClose => dr.peerClose \/ (queue # <<>> /\ Head(queue) = "PeerClose")
<1> USE DEF DriverState, BeginClose
<1>0. dr \in DriverState /\ (queue # <<>> => Head(queue) \in Request)
  BY HeadTailProperties DEF TypeOK
<1>1. UNCHANGED <<zero, rd, wr, cancels, status, cancel, sink, wire>>
  BY DEF poll_control, io
<1>2. CASE queue = <<>>
  BY <1>0, <1>1, <1>2 DEF poll_control
<1>3. CASE queue # <<>> /\ Head(queue) = "Eof"
  BY <1>0, <1>1, <1>3 DEF poll_control
<1>4. CASE queue # <<>> /\ Head(queue) = "Pong"
  <2>1. PICK matches \in BOOLEAN : dr' = [OnPong(dr, matches) EXCEPT !.pc = "top"]
    BY <1>4 DEF poll_control
  <2>2. queue' = Tail(queue) /\ UNCHANGED transport
    BY <1>4 DEF poll_control
  <2> QED
    BY <1>0, <1>1, <1>4, <2>1, <2>2 DEF OnPong
<1>5. CASE queue # <<>> /\ Head(queue) \notin {"Eof", "Pong"}
  <2> DEFINE d == OnRequest(dr, Head(queue))
  <2>1. dr' = [d EXCEPT !.pc = "top"] /\ queue' = Tail(queue) /\ UNCHANGED transport
    BY <1>5 DEF poll_control
  <2>2. /\ d \in DriverState /\ d.write = dr.write /\ d.phase = dr.phase
        /\ d.localCloseSent => dr.localCloseSent \/ Head(queue) = "LocalCloseSent"
        /\ d.peerClose => dr.peerClose \/ Head(queue) = "PeerClose"
    BY <1>0, OnRequestType
  <2> HIDE DEF d
  <2> QED
    BY <1>1, <1>5, <2>1, <2>2
<1> QED
  BY <1>2, <1>3, <1>4, <1>5

\* What a heartbeat deadline changes: a Ping to write, or the transport on its way to
\* closed.
LEMMA HeartbeatEffect ==
    ASSUME TypeOK, poll_heartbeat
    PROVE  /\ UNCHANGED <<zero, rd, wr, cancels, status, cancel, queue, wire>>
           /\ dr.pc = "timers?" /\ dr'.localCloseSent = dr.localCloseSent /\ dr'.peerClose = dr.peerClose
           /\ \/ /\ UNCHANGED <<sink, transport>>
                 /\ dr'.pc \in {"cancel?", "write?", "top"}
                 /\ dr'.pc = "write?" => dr'.write # "none"
                 /\ \/ dr'.write = dr.write /\ dr'.phase = dr.phase
                    \/ dr.write = "none" /\ dr'.write = "Ping" /\ dr'.phase = "new"
              \/ /\ transport' = "Closing" /\ dr'.write = dr.write /\ dr'.phase = dr.phase
                 /\ sink = <<>> => sink' = <<"D">> /\ dr'.pc = "timeoutClose"
                 /\ sink # <<>> => sink' = sink /\ dr'.pc = "finish"
<1> USE DEF DriverState, BeginClose
<1>0. dr \in DriverState
  BY DEF TypeOK
<1>1. UNCHANGED <<zero, rd, wr, cancels, status, cancel, queue, wire>> /\ dr.pc = "timers?"
  BY DEF poll_heartbeat, io
<1>2. CASE dr' = [dr EXCEPT !.pc = IF dr.write = "none" THEN "cancel?" ELSE "write?"] /\ UNCHANGED <<transport, sink>>
  BY <1>0, <1>1, <1>2
<1>3. CASE dr' = [dr EXCEPT !.pc = "top"] /\ UNCHANGED <<transport, sink>>
  BY <1>0, <1>1, <1>3
<1>4. CASE /\ dr' = [dr EXCEPT !.pc = "top", !.write = "Ping", !.phase = "new",
                               !.heartbeat = "unflushed", !.pings = @ + 1]
           /\ dr.write = "none" /\ UNCHANGED <<transport, sink>>
  BY <1>0, <1>1, <1>4
<1>5. ASSUME NEW cause, timeout_close(cause)
      PROVE  /\ transport' = "Closing" /\ dr'.write = dr.write /\ dr'.phase = dr.phase
             /\ sink = <<>> => sink' = <<"D">> /\ dr'.pc = "timeoutClose"
             /\ sink # <<>> => sink' = sink /\ dr'.pc = "finish"
             /\ dr'.localCloseSent = dr.localCloseSent /\ dr'.peerClose = dr.peerClose
  BY <1>0, <1>5 DEF timeout_close
<1> QED
  BY <1>1, <1>2, <1>3, <1>4, <1>5 DEF poll_heartbeat

\* The driver never begins a frame inside another.
LEMMA DriverWire ==
    ASSUME TypeOK, TransportInv, SinkExclusive, WireInv, DriverStep
    PROVE  WireInv'
<1>0. dr \in DriverState /\ sink \in Seq({"W", "P", "D"}) /\ wire \in Seq(Frame)
  BY DEF TypeOK
<1>a. /\ Holder("W") => /\ \A a \in {"P", "D"} : /\ Without(sink, a) # <<>> /\ Head(Without(sink, a)) = "W"
                                                    /\ Append(sink, a) # <<>> /\ Head(Append(sink, a)) = "W"
      /\ Holder("P") => /\ Without(sink, "D") # <<>> /\ Head(Without(sink, "D")) = "P"
                        /\ Append(sink, "D") # <<>> /\ Head(Append(sink, "D")) = "P"
  BY <1>0, SinkFacts
<1>b. ASSUME UNCHANGED wire PROVE FrameBoundaries'
  BY <1>b DEF WireInv, FrameBoundaries
<1> USE DEF WireInv, MidFrame, Holder, DriverState, DriverEnded, BeginClose, io
<1>1. CASE driver_top
  BY <1>1, <1>0, <1>a, <1>b DEF driver_top, EnterSelect
<1>2. CASE driver_start_write
  BY <1>2, <1>0, <1>a, <1>b DEF driver_start_write, EnterSelect
<1>3. CASE driver_wait_sink
  BY <1>3, <1>0, <1>a, <1>b DEF driver_wait_sink
<1>4. CASE driver_panic
  BY <1>4, <1>0, <1>a, <1>b DEF driver_panic, DriverInit, TransportInv
<1>5. CASE driver_sink_wait_over
  BY <1>5, <1>0, <1>a, <1>b DEF driver_sink_wait_over
<1>6. CASE driver_finish_close
  BY <1>6, <1>0, <1>a, <1>b DEF driver_finish_close, TransportInv
<1>7. CASE driver_stop
  <2>1. transport' # "Open" /\ UNCHANGED <<wire, wr>> /\ dr' = [DriverInit EXCEPT !.pc = "stopped"]
    BY <1>7 DEF driver_stop, TransportInv
  <2> QED
    BY <1>b, <2>1 DEF DriverInit
<1>8. CASE poll_cancelled
  BY <1>8, <1>0, <1>a, <1>b DEF poll_cancelled
<1>9. CASE poll_control
  <2>1. transport = "Open"
    BY <1>9, <1>0 DEF poll_control, TransportInv
  <2> QED
    BY <1>9, <1>b, <2>1, ControlEffect
<1>10. CASE poll_close_timer
  BY <1>10, <1>0, <1>a, <1>b DEF poll_close_timer
<1>11. CASE poll_heartbeat
  <2>0. UNCHANGED <<wire, wr, cancel>> /\ transport = "Open"
    BY <1>11, <1>0 DEF poll_heartbeat, TransportInv
  <2>1. ASSUME NEW cause, timeout_close(cause) PROVE WireInv'
    <3>1. CASE sink = <<>>
      BY <1>0, <1>b, <2>0, <2>1, <3>1 DEF timeout_close
    <3>2. CASE sink # <<>>
      BY <1>0, <1>b, <2>0, <2>1, <3>2 DEF timeout_close
    <3> QED
      BY <3>1, <3>2
  <2>2. CASE UNCHANGED <<sink, transport>>
    BY <1>11, <1>b, <2>0, <2>2, HeartbeatEffect
  <2> QED
    BY <1>11, <2>1, <2>2 DEF poll_heartbeat
<1>12. CASE timeout_close_write
  <2>0. /\ UNCHANGED <<wr, cancel, transport>> /\ transport = "Closing" /\ Len(wire) \in Nat
        /\ dr' = [dr EXCEPT !.pc = "finish"]
    BY <1>12, <1>0, LenProperties DEF timeout_close_write, TransportInv
  <2>1. CASE cancel
    BY <1>12, <1>0, <1>b, <2>0, <2>1 DEF timeout_close_write
  <2>2. CASE ~cancel
    <3>1. PICK whole \in BOOLEAN : wire' = Append(wire, [kind |-> "Close", whole |-> whole])
      BY <1>12, <2>2 DEF timeout_close_write
    <3>2. [kind |-> "Close", whole |-> whole] \in Frame
      BY DEF Frame, Message, Control
    <3>3. Len(wire') = Len(wire) + 1 /\ \A i \in 1 .. Len(wire) : wire'[i] = wire[i]
      BY <1>0, <3>1, <3>2, AppendProperties
    <3>4. wire # <<>> => wire[Len(wire)].whole
      BY <1>12, <2>0, <2>2 DEF timeout_close_write, SinkExclusive
    <3>5. FrameBoundaries'
      BY <2>0, <3>3, <3>4 DEF FrameBoundaries
    <3> QED
      BY <1>0, <2>0, <3>5
  <2> QED
    BY <2>1, <2>2
<1>13. CASE poll_write_pending
  BY <1>13, <1>0, <1>a, <1>b DEF poll_write_pending
<1>14. CASE poll_write_lock
  BY <1>14, <1>0, <1>a, <1>b DEF poll_write_lock
<1>15. CASE poll_write_begin
  <2>1. /\ Holder("P") /\ dr.write \in Message /\ ~Holder("W") /\ ~cancel
        /\ UNCHANGED <<sink, wr, transport, cancel>> /\ BeginFrame(dr.write)
        /\ dr' = [dr EXCEPT !.phase = "begun"] /\ dr.phase = "queued" /\ dr.pc = "write?"
    BY <1>15, <1>0 DEF poll_write_begin, Message, Control
  <2>2. CASE transport # "Open"
    BY <1>0, <1>b, <2>1, <2>2 DEF BeginFrame
  <2>3. CASE transport = "Open"
    <3>1. /\ wire' # <<>> /\ Len(wire') = Len(wire) + 1 /\ Len(wire) \in Nat
          /\ \A i \in 1 .. Len(wire) : wire'[i] = wire[i]
          /\ wire'[Len(wire) + 1] = [kind |-> dr.write, whole |-> FALSE]
      BY <1>0, <2>1, <2>3, BeginFrameProperties, LenProperties
    <3>2. wire # <<>> => wire[Len(wire)].whole
      BY <2>1, <2>3
    <3>3. \A i \in 1 .. Len(wire) : wire[i].whole
      BY <3>1, <3>2 DEF FrameBoundaries
    <3>4. FrameBoundaries'
      BY <3>1, <3>3 DEF FrameBoundaries
    <3>5. wr.pc # "write"
      BY <2>1 DEF SinkExclusive
    <3> QED
      BY <1>0, <2>1, <2>3, <3>1, <3>4, <3>5
  <2> QED
    BY <2>2, <2>3
<1>16. CASE poll_write_done
  <2>1. wire # <<>> /\ Len(wire) \in Nat /\ EndFrame /\ UNCHANGED <<wr, transport>>
    BY <1>16, <1>0, LenProperties DEF poll_write_done
  <2>2. /\ Len(wire') = Len(wire) /\ wire' # <<>> /\ wire'[Len(wire)].whole
        /\ \A i \in 1 .. Len(wire) : /\ wire'[i].kind = wire[i].kind
                                     /\ wire[i].whole => wire'[i] = wire[i]
    BY <1>0, <2>1, EndFrameProperties
  <2>3. FrameBoundaries'
    BY <2>1, <2>2 DEF FrameBoundaries
  <2>4. dr'.write = "none" /\ dr'.pc = "top"
    BY <1>16, <1>0 DEF poll_write_done
  <2> QED
    BY <2>1, <2>2, <2>3, <2>4
<1>17. CASE poll_write_failed
  BY <1>17, <1>0, <1>a, <1>b DEF poll_write_failed
<1>18. CASE deadline_expires
  BY <1>18, <1>0, <1>a, <1>b DEF deadline_expires
<1> QED
  BY <1>1, <1>2, <1>3, <1>4, <1>5, <1>6, <1>7, <1>8, <1>9, <1>10, <1>11, <1>12, <1>13, <1>14,
     <1>15, <1>16, <1>17, <1>18 DEF DriverStep, Driver

-----------------------------------------------------------------------------
(* The control channel *)

\* Which requests are in the channel after a send and after a receive.
LEMMA QueueFacts ==
    ASSUME NEW q \in Seq(Request), NEW x \in Request
    PROVE  /\ Len(q) \in Nat
           /\ \A r \in Request : /\ Append(q, r) \in Seq(Request) /\ Len(Append(q, r)) = Len(q) + 1
                                 /\ Holds(Append(q, r), x) => Holds(q, x) \/ r = x
           /\ q # <<>> => /\ Tail(q) \in Seq(Request) /\ Len(Tail(q)) = Len(q) - 1
                          /\ Holds(Tail(q), x) => Holds(q, x)
                          /\ Head(q) \in Request /\ (Head(q) = x => Holds(q, x))
           /\ ~Holds(<<>>, x)
<1>1. Len(q) \in Nat
  BY LenProperties
<1>2. ASSUME NEW r \in Request
      PROVE  /\ Append(q, r) \in Seq(Request) /\ Len(Append(q, r)) = Len(q) + 1
             /\ Holds(Append(q, r), x) => Holds(q, x) \/ r = x
  <2>1. /\ Append(q, r) \in Seq(Request) /\ Len(Append(q, r)) = Len(q) + 1
        /\ \A i \in 1 .. Len(q) : Append(q, r)[i] = q[i]
        /\ Append(q, r)[Len(q) + 1] = r
    BY AppendProperties
  <2>2. ASSUME NEW i \in 1 .. Len(q) + 1 PROVE i \in 1 .. Len(q) \/ i = Len(q) + 1
    BY <1>1
  <2> QED
    BY <2>1, <2>2 DEF Holds
<1>3. ASSUME q # <<>>
      PROVE  /\ Tail(q) \in Seq(Request) /\ Len(Tail(q)) = Len(q) - 1
             /\ Holds(Tail(q), x) => Holds(q, x)
             /\ Head(q) \in Request /\ (Head(q) = x => Holds(q, x))
  <2>1. /\ Tail(q) \in Seq(Request) /\ Len(Tail(q)) = Len(q) - 1 /\ Head(q) \in Request
        /\ \A i \in 1 .. Len(q) - 1 : Tail(q)[i] = q[i + 1]
    BY <1>3, HeadTailProperties
  <2>2. Head(q) = q[1] /\ 1 \in 1 .. Len(q)
    BY <1>1, <1>3
  <2>3. ASSUME NEW i \in 1 .. Len(q) - 1 PROVE i + 1 \in 1 .. Len(q)
    BY <1>1
  <2> QED
    BY <2>1, <2>2, <2>3 DEF Holds
<1>4. ~Holds(<<>>, x)
  BY DEF Holds
<1> QED
  BY <1>1, <1>2, <1>3, <1>4

\* A send finds room beside the reserved place.
LEMMA CapacityFacts ==
    ASSUME TypeOK, HasCapacity
    PROVE  /\ Len(queue) < Capacity /\ Len(queue) + 1 <= Capacity
           /\ WriterPermit => Len(queue) + 1 < Capacity
<1>1. Len(queue) \in Nat /\ Capacity \in Nat
  BY LenProperties, SplitAssumption DEF TypeOK
<1>2. CASE WriterPermit
  BY <1>1, <1>2 DEF HasCapacity
<1>3. CASE ~WriterPermit
  BY <1>1, <1>3 DEF HasCapacity
<1> QED
  BY <1>2, <1>3

\* The reader's sends leave the reserved place free.
LEMMA ReaderPermit ==
    ASSUME TypeOK, PermitInv, ReaderStep
    PROVE  PermitInv' /\ queue' \in Seq(Request)
<1>1. queue \in Seq(Request) /\ Len(queue) \in Nat /\ Capacity \in Nat /\ rd.request \in Request \cup {"none"}
  BY LenProperties, SplitAssumption DEF TypeOK, ReaderState, Request
<1>2. UNCHANGED <<zero, wr>>
  BY ReaderTypeStep
<1>3. WriterPermit' <=> WriterPermit
  BY <1>2 DEF WriterPermit
<1>4. CASE UNCHANGED queue
  BY <1>1, <1>3, <1>4 DEF PermitInv
<1>5. ASSUME NEW r \in Request, HasCapacity, queue' = Append(queue, r)
      PROVE  PermitInv' /\ queue' \in Seq(Request)
  <2>1. Len(queue') = Len(queue) + 1 /\ queue' \in Seq(Request)
    BY <1>1, <1>5, AppendProperties
  <2> QED
    BY <1>1, <1>3, <1>5, <2>1, CapacityFacts DEF PermitInv
<1>6. "Eof" \in Request /\ "ReadError" \in Request
  BY DEF Request
<1> QED
  BY <1>1, <1>4, <1>5, <1>6, ReaderTypeStep

\* The write handle's permit is a free place of the channel.
LEMMA WriterPermitStep ==
    ASSUME TypeOK, CallInv, PermitInv, WriterStep
    PROVE  PermitInv'
<1>0. wr \in WriterState /\ queue \in Seq(Request) /\ Len(queue) \in Nat /\ Capacity \in Nat
  BY LenProperties, SplitAssumption DEF TypeOK
<1>a. HasCapacity => /\ Len(queue) < Capacity /\ Len(queue) + 1 <= Capacity
                     /\ WriterPermit => Len(queue) + 1 < Capacity
  BY CapacityFacts
<1>b. \A r \in {"LocalCloseStarted", "LocalCloseSent"} : Len(Append(queue, r)) = Len(queue) + 1
  BY <1>0, AppendProperties DEF Request
<1> USE DEF PermitInv, WriterPermit, WriterState, WriterIdle, Push
<1>1. ASSUME NEW op \in {"Data", "Close", "Flush"}, send(op) PROVE PermitInv'
  BY <1>1, <1>0, <1>a, <1>b DEF send, CallInv
<1>2. CASE send_reserve
  BY <1>2, <1>0, <1>a, <1>b DEF send_reserve, CallInv
<1>3. CASE send_begin_local_closing
  BY <1>3, <1>0, <1>a, <1>b DEF send_begin_local_closing, CallInv
<1>4. CASE send_close_started
  BY <1>4, <1>0, <1>a, <1>b DEF send_close_started, CallInv
<1>5. CASE send_lock
  BY <1>5, <1>0, <1>a, <1>b DEF send_lock, CallInv
<1>6. CASE send_locked
  BY <1>6, <1>0, <1>a, <1>b DEF send_locked, CallInv
<1>7. CASE send_write
  BY <1>7, <1>0, <1>a, <1>b DEF send_write, CallInv
<1>8. CASE send_written
  BY <1>8, <1>0, <1>a, <1>b DEF send_written, CallInv
<1>9. CASE send_aborted
  BY <1>9, <1>0, <1>a, <1>b DEF send_aborted, CallInv
<1>10. CASE send_terminate
  BY <1>10, <1>0, <1>a, <1>b DEF send_terminate, CallInv
<1>11. CASE send_cancel
  BY <1>11, <1>0, <1>a, <1>b DEF send_cancel, CallInv
<1>12. CASE send_notify
  BY <1>12, <1>0, <1>a, <1>b DEF send_notify, CallInv
<1>13. CASE flush
  BY <1>13, <1>0, <1>a, <1>b DEF flush, CallInv
<1>14. CASE send_cancelled
  BY <1>14, <1>0, <1>a, <1>b DEF send_cancelled, CallInv
<1>15. CASE drop_writer
  BY <1>15, <1>0, <1>a, <1>b DEF drop_writer, CallInv
<1> QED
  BY <1>1, <1>2, <1>3, <1>4, <1>5, <1>6, <1>7, <1>8, <1>9, <1>10, <1>11, <1>12, <1>13, <1>14,
     <1>15 DEF WriterStep, Writer

\* What every driver step leaves alone; the channel only shrinks.
LEMMA DriverFrame ==
    ASSUME TypeOK, DriverStep
    PROVE  /\ UNCHANGED <<zero, rd, wr, cancels>>
           /\ queue' = queue \/ (queue # <<>> /\ queue' = Tail(queue)) \/ queue' = <<>>
<1>1. CASE driver_top
  BY <1>1 DEF driver_top, io
<1>2. CASE driver_start_write
  BY <1>2 DEF driver_start_write, io
<1>3. CASE driver_wait_sink
  BY <1>3 DEF driver_wait_sink, io
<1>4. CASE driver_panic
  BY <1>4 DEF driver_panic, io
<1>5. CASE driver_sink_wait_over
  BY <1>5 DEF driver_sink_wait_over, io
<1>6. CASE driver_finish_close
  BY <1>6 DEF driver_finish_close, io
<1>7. CASE driver_stop
  BY <1>7 DEF driver_stop, io
<1>8. CASE poll_cancelled
  BY <1>8 DEF poll_cancelled, io
<1>9. CASE poll_control
  BY <1>9, ControlEffect
<1>10. CASE poll_close_timer
  BY <1>10 DEF poll_close_timer, io
<1>11. CASE poll_heartbeat
  BY <1>11 DEF poll_heartbeat, io
<1>12. CASE timeout_close_write
  BY <1>12 DEF timeout_close_write, io
<1>13. CASE poll_write_pending
  BY <1>13 DEF poll_write_pending, io
<1>14. CASE poll_write_lock
  BY <1>14 DEF poll_write_lock, io
<1>15. CASE poll_write_begin
  BY <1>15 DEF poll_write_begin, io
<1>16. CASE poll_write_done
  BY <1>16 DEF poll_write_done, io
<1>17. CASE poll_write_failed
  BY <1>17 DEF poll_write_failed, io
<1>18. CASE deadline_expires
  BY <1>18 DEF deadline_expires, io
<1> QED
  BY <1>1, <1>2, <1>3, <1>4, <1>5, <1>6, <1>7, <1>8, <1>9, <1>10, <1>11, <1>12, <1>13, <1>14,
     <1>15, <1>16, <1>17, <1>18 DEF DriverStep, Driver

\* The driver's receives leave the reserved place free.
LEMMA DriverPermit ==
    ASSUME TypeOK, PermitInv, DriverStep
    PROVE  PermitInv'
<1>1. queue \in Seq(Request) /\ Len(queue) \in Nat /\ Capacity \in Nat
  BY LenProperties, SplitAssumption DEF TypeOK
<1>2. UNCHANGED <<zero, wr>>
  BY DriverFrame
<1>3. WriterPermit' <=> WriterPermit
  BY <1>2 DEF WriterPermit
<1>4. CASE queue' = queue
  BY <1>1, <1>3, <1>4 DEF PermitInv
<1>5. CASE queue # <<>> /\ queue' = Tail(queue)
  <2>1. Len(queue') = Len(queue) - 1
    BY <1>1, <1>5, HeadTailProperties
  <2> QED
    BY <1>1, <1>3, <2>1 DEF PermitInv
<1>6. CASE queue' = <<>>
  <2>1. Len(queue') = 0 /\ Len(queue) >= 0
    BY <1>1, <1>6
  <2> QED
    BY <1>1, <1>3, <2>1 DEF PermitInv
<1> QED
  BY <1>4, <1>5, <1>6, DriverFrame

-----------------------------------------------------------------------------
(* The Close frames *)

\* The frames on the wire stay, in their places, and a whole frame stays whole.
FramesStay ==
    /\ Len(wire) <= Len(wire')
    /\ \A i \in 1 .. Len(wire) : /\ i \in 1 .. Len(wire')
                                 /\ wire'[i].kind = wire[i].kind
                                 /\ wire[i].whole => wire'[i] = wire[i]

\* One step puts at most one frame on the wire, of a kind the writer of the frame chose.
FramesAdded(kinds) ==
    \A i \in 1 .. Len(wire') : i \notin 1 .. Len(wire) =>
        i = Len(wire) + 1 /\ wire'[i].kind \in kinds

\* No frame changes when the wire does not.
LEMMA QuietFrames ==
    ASSUME wire \in Seq(Frame), UNCHANGED wire, NEW kinds
    PROVE  FramesStay /\ FramesAdded(kinds)
<1>1. Len(wire) \in Nat
  BY LenProperties
<1> QED
  BY <1>1 DEF FramesStay, FramesAdded

\* Ending a frame adds none.
LEMMA EndedFrames ==
    ASSUME wire \in Seq(Frame), wire # <<>>, EndFrame, NEW kinds
    PROVE  FramesStay /\ FramesAdded(kinds)
<1>1. Len(wire) \in Nat
  BY LenProperties
<1> QED
  BY <1>1, EndFrameProperties DEF FramesStay, FramesAdded

\* Appending a frame adds that one and keeps the others.
LEMMA AppendedFrames ==
    ASSUME wire \in Seq(Frame), NEW f \in Frame, wire' = Append(wire, f)
    PROVE  FramesStay /\ FramesAdded({f.kind})
<1>1. Len(wire) \in Nat
  BY LenProperties
<1>2. /\ Len(wire') = Len(wire) + 1
      /\ \A i \in 1 .. Len(wire) : wire'[i] = wire[i]
      /\ wire'[Len(wire) + 1] = f
  BY AppendProperties
<1> QED
  BY <1>1, <1>2 DEF FramesStay, FramesAdded

\* Beginning a frame adds at most that one.
LEMMA BegunFrames ==
    ASSUME wire \in Seq(Frame), NEW kind \in Message, BeginFrame(kind)
    PROVE  /\ FramesStay /\ FramesAdded({kind})
           /\ transport # "Open" => wire' = wire
<1>1. [kind |-> kind, whole |-> FALSE] \in Frame
  BY DEF Frame
<1>2. CASE transport = "Open"
  <2>1. FramesStay /\ FramesAdded({[kind |-> kind, whole |-> FALSE].kind})
    BY <1>1, <1>2, AppendedFrames DEF BeginFrame
  <2> QED
    BY <1>2, <2>1
<1>3. CASE transport # "Open"
  BY <1>3, QuietFrames DEF BeginFrame
<1> QED
  BY <1>2, <1>3

\* What the write handle puts on the wire.
LEMMA WriterFrames ==
    ASSUME TypeOK, CallInv, WireInv, WriterStep
    PROVE  /\ FramesStay
           /\ \/ FramesAdded({})
              \/ /\ FramesAdded({wr.op}) /\ send_write /\ transport = "Open"
                 /\ wr' = [wr EXCEPT !.pc = "write"]
<1>0. wire \in Seq(Frame)
  BY DEF TypeOK
<1>1. CASE UNCHANGED wire
  BY <1>0, <1>1, QuietFrames
<1>2. CASE send_write
  <2>1. wr.op \in Message
    BY <1>2 DEF send_write, CallInv, Message, Control
  <2>2. CASE UNCHANGED wire
    BY <1>0, <2>2, QuietFrames
  <2>3. CASE BeginFrame(wr.op) /\ wr' = [wr EXCEPT !.pc = "write"]
    BY <1>0, <1>2, <2>1, <2>3, BegunFrames, QuietFrames
  <2> QED
    BY <1>2, <2>2, <2>3 DEF send_write
<1>3. CASE send_written
  BY <1>0, <1>3, EndedFrames DEF send_written, WireInv
<1> QED
  BY <1>1, <1>2, <1>3 DEF WriterStep, Writer, send, send_reserve, send_begin_local_closing,
     send_close_started, send_lock, send_locked, send_aborted, send_terminate, send_cancel,
     send_notify, flush, send_cancelled, drop_writer

\* What the driver puts on the wire.
LEMMA DriverFrames ==
    ASSUME TypeOK, TransportInv, WireInv, DriverStep
    PROVE  /\ FramesStay
           /\ \/ FramesAdded({})
              \/ FramesAdded({dr.write}) /\ poll_write_begin
              \/ FramesAdded({"Close"}) /\ transport = "Closing" /\ transport' = "Closing"
<1>0. wire \in Seq(Frame) /\ dr \in DriverState
  BY DEF TypeOK
<1>1. CASE UNCHANGED wire
  BY <1>0, <1>1, QuietFrames
<1>2. CASE poll_write_begin
  <2>1. dr.write \in Message
    BY <1>0, <1>2 DEF poll_write_begin, WireInv, DriverState, Message
  <2> QED
    BY <1>0, <1>2, <2>1, BegunFrames DEF poll_write_begin
<1>3. CASE poll_write_done
  BY <1>0, <1>3, EndedFrames DEF poll_write_done, WireInv
<1>4. CASE timeout_close_write
  <2>0. transport = "Closing" /\ transport' = "Closing"
    BY <1>4 DEF timeout_close_write, TransportInv
  <2>1. ASSUME NEW whole \in BOOLEAN, wire' = Append(wire, [kind |-> "Close", whole |-> whole])
        PROVE  FramesStay /\ FramesAdded({"Close"})
    <3>1. [kind |-> "Close", whole |-> whole] \in Frame
      BY DEF Frame, Message, Control
    <3>2. FramesStay /\ FramesAdded({[kind |-> "Close", whole |-> whole].kind})
      BY <1>0, <2>1, <3>1, AppendedFrames
    <3> QED
      BY <3>2
  <2> QED
    BY <1>1, <1>4, <2>0, <2>1 DEF timeout_close_write
<1> QED
  BY <1>1, <1>2, <1>3, <1>4 DEF DriverStep, Driver, driver_top, driver_start_write,
     driver_wait_sink,
     driver_panic, driver_sink_wait_over, driver_finish_close, driver_stop, poll_cancelled, poll_control,
     poll_close_timer, poll_heartbeat, poll_write_pending, poll_write_lock, poll_write_failed,
     deadline_expires

\* A Close that is on the wire stays there.
LEMMA WholeCloseStays ==
    ASSUME FramesStay, WholeClose
    PROVE  WholeClose'
<1>1. PICK i \in 1 .. Len(wire) : wire[i] = [kind |-> "Close", whole |-> TRUE]
  BY DEF WholeClose
<1>2. wire[i].whole
  BY <1>1
<1>3. i \in 1 .. Len(wire') /\ wire'[i] = [kind |-> "Close", whole |-> TRUE]
  BY <1>1, <1>2 DEF FramesStay
<1> QED
  BY <1>3 DEF WholeClose

\* Ending the Close frame puts a whole Close on the wire.
LEMMA EndedClose ==
    ASSUME wire \in Seq(Frame), wire # <<>>, EndFrame, wire[Len(wire)].kind = "Close"
    PROVE  WholeClose'
<1>1. Len(wire) \in 1 .. Len(wire') /\ wire'[Len(wire)] = [kind |-> "Close", whole |-> TRUE]
  BY EndFrameProperties, LenProperties
<1> QED
  BY <1>1 DEF WholeClose

\* Any step that leaves the driver and the write handle alone, the reader's in particular,
\* keeps what was said about our Close.
LEMMA ReaderAnswer ==
    ASSUME TypeOK, AnswerInv, ReaderStep
    PROVE  AnswerInv'
<1>1. queue \in Seq(Request) /\ rd.request \in {"Ping", "Pong", "PeerClose", "none"}
  BY DEF TypeOK, ReaderState
<1>2. UNCHANGED <<wire, wr, dr>>
  BY ReaderTypeStep
<1>3. WholeClose' <=> WholeClose
  BY <1>2 DEF WholeClose
<1>4. ASSUME NEW r \in {"Eof", "ReadError", "Ping", "Pong", "PeerClose"}, queue' = Append(queue, r)
      PROVE  Holds(queue', "LocalCloseSent") => Holds(queue, "LocalCloseSent")
  <2>1. r \in Request /\ "LocalCloseSent" \in Request /\ r # "LocalCloseSent"
    BY DEF Request
  <2> QED
    BY <1>1, <1>4, <2>1, QueueFacts
<1>5. Holds(queue', "LocalCloseSent") => Holds(queue, "LocalCloseSent")
  BY <1>1, <1>4, ReaderTypeStep
<1> QED
  BY <1>2, <1>3, <1>5 DEF AnswerInv

\* The write handle reports its Close as sent only after the frame ended.
LEMMA WriterAnswer ==
    ASSUME TypeOK, CallInv, WireInv, AnswerInv, WriterStep
    PROVE  AnswerInv'
<1>0. /\ wr \in WriterState /\ queue \in Seq(Request) /\ wire \in Seq(Frame) /\ UNCHANGED dr
      /\ "LocalCloseStarted" \in Request /\ "LocalCloseSent" \in Request
  BY WriterTypeStep DEF TypeOK, Request
<1>1. WholeClose => WholeClose'
  BY WriterFrames, WholeCloseStays
<1>2. CASE send_close_started
  <2>1. Holds(queue', "LocalCloseSent") => Holds(queue, "LocalCloseSent")
    BY <1>0, <1>2, QueueFacts, ZenonT(60) DEF send_close_started, Push
  <2>2. wr'.pc # "notify"
    BY <1>0, <1>2 DEF send_close_started, WriterState
  <2> QED
    BY <1>0, <1>1, <2>1, <2>2 DEF AnswerInv
<1>3. CASE send_notify
  BY <1>0, <1>1, <1>3 DEF send_notify, AnswerInv, WriterState, WriterIdle
<1>4. CASE send_written
  <2>1. wr.op = "Close" => WholeClose'
    BY <1>0, <1>4, EndedClose DEF send_written, WireInv
  <2> QED
    BY <1>0, <1>1, <1>4, <2>1 DEF send_written, AnswerInv, WriterState, WriterIdle
<1>5. CASE wr'.pc # "notify" /\ UNCHANGED queue
  BY <1>0, <1>1, <1>5 DEF AnswerInv
<1> QED
  BY <1>0, <1>2, <1>3, <1>4, <1>5 DEF WriterStep, Writer, send, send_reserve,
     send_begin_local_closing,
     send_lock, send_locked, send_write, send_aborted, send_terminate, send_cancel,
     flush, send_cancelled, drop_writer, WriterState, WriterIdle

\* The driver notes its Close as sent only after the frame ended.
LEMMA DriverAnswer ==
    ASSUME TypeOK, TransportInv, WireInv, AnswerInv, DriverStep
    PROVE  AnswerInv'
<1>0. /\ dr \in DriverState /\ queue \in Seq(Request) /\ wire \in Seq(Frame) /\ UNCHANGED wr
      /\ "LocalCloseSent" \in Request
  BY DriverTypeStep DEF TypeOK, Request
<1>a. WholeClose => WholeClose'
  BY DriverFrames, WholeCloseStays
<1> USE DEF AnswerInv, DriverState, BeginClose, io
<1>1. CASE driver_top
  BY <1>1, <1>0, <1>a DEF driver_top, EnterSelect
<1>2. CASE driver_start_write
  BY <1>2, <1>0, <1>a DEF driver_start_write, EnterSelect
<1>3. CASE driver_wait_sink
  BY <1>3, <1>0, <1>a DEF driver_wait_sink
<1>4. CASE driver_panic
  BY <1>4, <1>0, <1>a, QueueFacts DEF driver_panic, DriverInit
<1>5. CASE driver_sink_wait_over
  BY <1>5, <1>0, <1>a DEF driver_sink_wait_over
<1>6. CASE driver_finish_close
  BY <1>6, <1>0, <1>a DEF driver_finish_close
<1>7. CASE driver_stop
  BY <1>7, <1>0, <1>a, QueueFacts DEF driver_stop, DriverInit
<1>8. CASE poll_cancelled
  BY <1>8, <1>0, <1>a DEF poll_cancelled
<1>9. CASE poll_control
  BY <1>9, <1>0, <1>a, ControlEffect, QueueFacts, ZenonT(60)
<1>10. CASE poll_close_timer
  BY <1>10, <1>0, <1>a DEF poll_close_timer
<1>11. CASE poll_heartbeat
  BY <1>11, <1>0, <1>a, HeartbeatEffect
<1>12. CASE timeout_close_write
  BY <1>12, <1>0, <1>a DEF timeout_close_write
<1>13. CASE poll_write_pending
  BY <1>13, <1>0, <1>a DEF poll_write_pending
<1>14. CASE poll_write_lock
  BY <1>14, <1>0, <1>a DEF poll_write_lock
<1>15. CASE poll_write_begin
  BY <1>15, <1>0, <1>a DEF poll_write_begin
<1>16. CASE poll_write_done
  <2>1. dr.write = "Close" => WholeClose'
    BY <1>16, <1>0, EndedClose DEF poll_write_done, WireInv
  <2> QED
    BY <1>16, <1>0, <1>a, <2>1 DEF poll_write_done
<1>17. CASE poll_write_failed
  BY <1>17, <1>0, <1>a DEF poll_write_failed
<1>18. CASE deadline_expires
  BY <1>18, <1>0, <1>a DEF deadline_expires
<1> QED
  BY <1>1, <1>2, <1>3, <1>4, <1>5, <1>6, <1>7, <1>8, <1>9, <1>10, <1>11, <1>12, <1>13, <1>14,
     <1>15, <1>16, <1>17, <1>18 DEF DriverStep, Driver

\* The reader asks for a Close only after it left the Open status.
LEMMA ReaderClosing ==
    ASSUME TypeOK, ClosingInv, ReaderStep
    PROVE  ClosingInv'
<1>1. queue \in Seq(Request) /\ rd.request \in {"Ping", "Pong", "PeerClose", "none"}
  BY DEF TypeOK, ReaderState
<1>2. UNCHANGED <<wr, dr>> /\ (rd'.request = "PeerClose" => status' # "Open")
      /\ (status # "Open" => status' # "Open")
  BY ReaderTypeStep, StatusStays DEF ClosingInv
<1>3. ASSUME NEW r \in {"Eof", "ReadError", "Ping", "Pong", "PeerClose"}, queue' = Append(queue, r)
      PROVE  Holds(queue', "PeerClose") => Holds(queue, "PeerClose") \/ r = "PeerClose"
  <2>1. r \in Request /\ "PeerClose" \in Request
    BY DEF Request
  <2> QED
    BY <1>1, <1>3, <2>1, QueueFacts
<1>4. Holds(queue', "PeerClose") => Holds(queue, "PeerClose") \/ rd.request = "PeerClose"
  BY <1>1, <1>3, ReaderTypeStep
<1> QED
  BY <1>2, <1>4 DEF ClosingInv

\* The write handle begins a Close only after it left the Open status.
LEMMA WriterClosing ==
    ASSUME TypeOK, CallInv, WireInv, ClosingInv, WriterStep
    PROVE  ClosingInv'
<1>0. /\ wr \in WriterState /\ UNCHANGED <<rd, dr>> /\ queue \in Seq(Request)
      /\ "LocalCloseStarted" \in Request /\ "LocalCloseSent" \in Request /\ "PeerClose" \in Request
      /\ (status # "Open" => status' # "Open")
  BY WriterTypeStep, StatusStays DEF TypeOK, Request
<1>a. \A r \in {"LocalCloseStarted", "LocalCloseSent"} : Holds(Append(queue, r), "PeerClose") => Holds(queue, "PeerClose")
  BY <1>0, QueueFacts
<1> USE DEF ClosingInv, WriterState, WriterIdle, Push
<1>1. ASSUME NEW op \in {"Data", "Close", "Flush"}, send(op) PROVE ClosingInv'
  BY <1>1, <1>0, <1>a DEF send
<1>2. CASE send_reserve
  BY <1>2, <1>0, <1>a DEF send_reserve
<1>3. CASE send_begin_local_closing
  BY <1>3, <1>0, <1>a DEF send_begin_local_closing, begin_closing
<1>4. CASE send_close_started
  BY <1>4, <1>0, <1>a DEF send_close_started
<1>5. CASE send_lock
  BY <1>5, <1>0, <1>a DEF send_lock
<1>6. CASE send_locked
  BY <1>6, <1>0, <1>a DEF send_locked
<1>7. CASE send_write
  BY <1>7, <1>0, <1>a DEF send_write
<1>8. CASE send_written
  BY <1>8, <1>0, <1>a DEF send_written
<1>9. CASE send_aborted
  BY <1>9, <1>0, <1>a DEF send_aborted
<1>10. CASE send_terminate
  BY <1>10, <1>0, <1>a DEF send_terminate
<1>11. CASE send_cancel
  BY <1>11, <1>0, <1>a DEF send_cancel
<1>12. CASE send_notify
  BY <1>12, <1>0, <1>a DEF send_notify
<1>13. CASE flush
  BY <1>13, <1>0, <1>a DEF flush
<1>14. CASE send_cancelled
  BY <1>14, <1>0, <1>a DEF send_cancelled
<1>15. CASE drop_writer
  BY <1>15, <1>0, <1>a DEF drop_writer
<1> QED
  BY <1>1, <1>2, <1>3, <1>4, <1>5, <1>6, <1>7, <1>8, <1>9, <1>10, <1>11, <1>12, <1>13, <1>14,
     <1>15 DEF WriterStep, Writer

\* The driver begins a Close only when one was asked for.
LEMMA DriverClosing ==
    ASSUME TypeOK, WireInv, ClosingInv, DriverStep
    PROVE  ClosingInv'
<1>0. /\ dr \in DriverState /\ queue \in Seq(Request) /\ UNCHANGED <<rd, wr>>
      /\ "PeerClose" \in Request
      /\ (status # "Open" => status' # "Open")
  BY DriverTypeStep, StatusStays DEF TypeOK, Request
<1> USE DEF ClosingInv, DriverState, BeginClose, io
<1>1. CASE driver_top
  BY <1>1, <1>0 DEF driver_top, EnterSelect
<1>2. CASE driver_start_write
  BY <1>2, <1>0, ZenonT(60) DEF driver_start_write, EnterSelect
<1>3. CASE driver_wait_sink
  BY <1>3, <1>0 DEF driver_wait_sink
<1>4. CASE driver_panic
  BY <1>4, <1>0, QueueFacts DEF driver_panic, DriverInit
<1>5. CASE driver_sink_wait_over
  BY <1>5, <1>0 DEF driver_sink_wait_over
<1>6. CASE driver_finish_close
  BY <1>6, <1>0 DEF driver_finish_close
<1>7. CASE driver_stop
  BY <1>7, <1>0, QueueFacts DEF driver_stop, DriverInit
<1>8. CASE poll_cancelled
  BY <1>8, <1>0 DEF poll_cancelled
<1>9. CASE poll_control
  BY <1>9, <1>0, ControlEffect, QueueFacts, ZenonT(60)
<1>10. CASE poll_close_timer
  BY <1>10, <1>0 DEF poll_close_timer
<1>11. CASE poll_heartbeat
  BY <1>11, <1>0, HeartbeatEffect
<1>12. CASE timeout_close_write
  BY <1>12, <1>0 DEF timeout_close_write
<1>13. CASE poll_write_pending
  BY <1>13, <1>0 DEF poll_write_pending
<1>14. CASE poll_write_lock
  BY <1>14, <1>0 DEF poll_write_lock
<1>15. CASE poll_write_begin
  BY <1>15, <1>0 DEF poll_write_begin
<1>16. CASE poll_write_done
  BY <1>16, <1>0 DEF poll_write_done
<1>17. CASE poll_write_failed
  BY <1>17, <1>0 DEF poll_write_failed
<1>18. CASE deadline_expires
  BY <1>18, <1>0 DEF deadline_expires
<1> QED
  BY <1>1, <1>2, <1>3, <1>4, <1>5, <1>6, <1>7, <1>8, <1>9, <1>10, <1>11, <1>12, <1>13, <1>14,
     <1>15, <1>16, <1>17, <1>18 DEF DriverStep, Driver

\* A new Close frame is the only way to have begun one.
LEMMA CloseBegunSince ==
    ASSUME FramesStay, NEW kinds, FramesAdded(kinds), "Close" \notin kinds, CloseBegun'
    PROVE  CloseBegun
<1>1. PICK i \in 1 .. Len(wire') : wire'[i].kind = "Close"
  BY DEF CloseBegun
<1>2. i \in 1 .. Len(wire) /\ wire[i].kind = "Close"
  BY <1>1 DEF FramesStay, FramesAdded
<1> QED
  BY <1>2 DEF CloseBegun

\* No data frame follows a Close when none is added once it is begun.
LEMMA DataAfterClose ==
    ASSUME wire \in Seq(Frame), FramesStay, NEW kinds, FramesAdded(kinds), NoDataAfterClose,
           CloseBegun => "Data" \notin kinds
    PROVE  NoDataAfterClose'
<1>0. Len(wire) \in Nat
  BY LenProperties
<1> SUFFICES ASSUME NEW i \in 1 .. Len(wire'), NEW j \in 1 .. Len(wire'), i < j, wire'[i].kind = "Close"
             PROVE  wire'[j].kind # "Data"
  BY DEF NoDataAfterClose
<1>1. i \in 1 .. Len(wire) /\ wire[i].kind = "Close"
  BY <1>0 DEF FramesStay, FramesAdded
<1>2. CloseBegun
  BY <1>1 DEF CloseBegun
<1>3. CASE j \in 1 .. Len(wire)
  BY <1>1, <1>3 DEF NoDataAfterClose, FramesStay
<1>4. CASE j \notin 1 .. Len(wire)
  BY <1>2, <1>4 DEF FramesAdded
<1> QED
  BY <1>3, <1>4

\* The reader adds nothing to the wire.
LEMMA ReaderData ==
    ASSUME TypeOK, DataInv, ReaderStep
    PROVE  DataInv'
<1>1. UNCHANGED <<wire, wr, transport>> /\ (status # "Open" => status' # "Open")
  BY ReaderTypeStep, StatusStays
<1>2. (CloseBegun' <=> CloseBegun) /\ (NoDataAfterClose' <=> NoDataAfterClose)
  BY <1>1 DEF CloseBegun, NoDataAfterClose
<1> QED
  BY <1>1, <1>2 DEF DataInv

\* The write handle checks the status under the lock before it begins a data frame.
LEMMA WriterData ==
    ASSUME TypeOK, CallInv, WireInv, ClosingInv, DataInv, WriterStep
    PROVE  DataInv'
<1>0. /\ wr \in WriterState /\ wire \in Seq(Frame) /\ UNCHANGED transport
      /\ (status # "Open" => status' # "Open")
  BY WriterTypeStep, StatusStays DEF TypeOK
<1>1. CASE FramesAdded({wr.op}) /\ send_write /\ wr' = [wr EXCEPT !.pc = "write"] /\ transport = "Open"
  <2>1. FramesStay
    BY WriterFrames
  <2>2. wr.pc = "check" /\ wr.op \in {"Data", "Close"} /\ wr'.pc = "write" /\ UNCHANGED status
    BY <1>0, <1>1 DEF send_write, CallInv, WriterState
  <2>3. CASE wr.op = "Data"
    <3>1. ~CloseBegun
      BY <1>1, <2>2, <2>3 DEF DataInv
    <3>2. ~CloseBegun'
      BY <1>1, <2>1, <2>3, <3>1, CloseBegunSince
    <3>3. NoDataAfterClose'
      BY <1>0, <1>1, <2>1, <3>1, DataAfterClose DEF DataInv
    <3> QED
      BY <2>2, <3>2, <3>3 DEF DataInv
  <2>4. CASE wr.op = "Close"
    <3>1. status' # "Open"
      BY <1>0, <2>2, <2>4 DEF ClosingInv
    <3>2. NoDataAfterClose'
      BY <1>0, <1>1, <2>1, <2>4, DataAfterClose DEF DataInv
    <3> QED
      BY <2>2, <3>1, <3>2 DEF DataInv
  <2> QED
    BY <2>2, <2>3, <2>4
<1>2. CASE FramesAdded({})
  <2>1. FramesStay
    BY WriterFrames
  <2>2. CloseBegun' => CloseBegun
    BY <1>2, <2>1, CloseBegunSince
  <2>3. NoDataAfterClose'
    BY <1>0, <1>2, <2>1, DataAfterClose DEF DataInv
  <2>4. wr'.pc = "check" /\ wr'.op = "Data" =>
          \/ wr.pc = "check" /\ wr.op = "Data"
          \/ status = "Open"
    BY <1>0 DEF WriterStep, Writer, send, send_reserve, send_begin_local_closing, CallInv,
       send_close_started, send_lock, send_locked, send_write, send_written, send_aborted, send_terminate,
       send_cancel, send_notify, flush, send_cancelled, drop_writer, WriterState, WriterIdle
  <2> QED
    BY <1>0, <2>2, <2>3, <2>4 DEF DataInv
<1> QED
  BY <1>1, <1>2, WriterFrames

\* The driver never reopens the transport.
LEMMA DriverTransportStays ==
    ASSUME TypeOK, DriverStep, transport # "Open"
    PROVE  transport' # "Open"
<1>1. CASE poll_control
  BY <1>1, ControlEffect
<1>2. CASE poll_heartbeat
  BY <1>2, HeartbeatEffect
<1> QED
  BY <1>1, <1>2 DEF DriverStep, Driver, driver_top, driver_start_write, driver_wait_sink,
     driver_panic, driver_sink_wait_over, driver_finish_close, driver_stop, poll_cancelled,
     poll_close_timer, timeout_close_write, poll_write_pending, poll_write_lock, poll_write_begin,
     poll_write_done, poll_write_failed, deadline_expires, BeginClose

\* The driver writes no data frames.
LEMMA DriverData ==
    ASSUME TypeOK, TransportInv, SinkExclusive, WireInv, ClosingInv, DataInv, DriverStep
    PROVE  DataInv'
<1>0. /\ dr \in DriverState /\ wire \in Seq(Frame) /\ UNCHANGED wr
      /\ (status # "Open" => status' # "Open")
  BY DriverTypeStep, StatusStays DEF TypeOK
<1>1. FramesStay
  BY DriverFrames
<1>2. transport # "Open" => transport' # "Open"
  BY DriverTransportStays
<1>3. CASE FramesAdded({})
  <2>1. CloseBegun' => CloseBegun
    BY <1>1, <1>3, CloseBegunSince
  <2>2. NoDataAfterClose'
    BY <1>0, <1>1, <1>3, DataAfterClose DEF DataInv
  <2> QED
    BY <1>0, <1>2, <2>1, <2>2 DEF DataInv
<1>4. CASE FramesAdded({dr.write}) /\ poll_write_begin
  <2>1. dr.write \in Control /\ wr.pc # "check" /\ UNCHANGED status
    BY <1>0, <1>4 DEF poll_write_begin, WireInv, DriverState, SinkExclusive, Holder
  <2>2. NoDataAfterClose'
    BY <1>0, <1>1, <1>4, <2>1, DataAfterClose DEF DataInv, Control
  <2>3. CloseBegun' => CloseBegun \/ status # "Open"
    BY <1>1, <1>4, CloseBegunSince DEF ClosingInv
  <2> QED
    BY <1>0, <1>2, <2>1, <2>2, <2>3 DEF DataInv
<1>5. CASE FramesAdded({"Close"}) /\ transport' = "Closing"
  <2>1. NoDataAfterClose'
    BY <1>0, <1>1, <1>5, DataAfterClose DEF DataInv
  <2> QED
    BY <1>5, <2>1 DEF DataInv
<1> QED
  BY <1>3, <1>4, <1>5, DriverFrames

-----------------------------------------------------------------------------
(* End of file *)

\* The read half reports the end of the stream only for a Close or an end of the peer's
\* making.
LEMMA ReaderEof ==
    ASSUME TypeOK, TransportInv, EofIsThePeers, ReaderStep
    PROVE  EofIsThePeers'
<1>0. rd \in ReaderState /\ transport \in {"Open", "Closing", "Closed"}
  BY DEF TypeOK
<1>1. transport = "Closed" => status \in Terminal
  BY DEF TransportInv
<1>2. CASE rd'.pc \notin {"sendEof", "ended"}
  BY <1>2 DEF EofIsThePeers
<1>3. CASE next_eof
  BY <1>0, <1>3 DEF next_eof, EofIsThePeers, ReaderState
<1>4. CASE poll_read
  BY <1>0, <1>1, <1>4 DEF poll_read, ReadDone, EofIsThePeers, ReaderState
<1>5. CASE poll_read_ready
  BY <1>0, <1>5 DEF poll_read_ready, ReadDone, EofIsThePeers, ReaderState
<1>6. ASSUME NEW msg, NEW r \in ReaderState, Deliver(msg, r) PROVE rd'.pc \in {"top", "reserve"}
  BY <1>6, ZenonT(60) DEF Deliver, ReaderState
<1>7. CASE next_pending
  BY <1>0, <1>2, <1>7, <1>6 DEF next_pending, ReaderState
<1>8. CASE next_parse
  <2>1. ASSUME NEW msg \in Message, NEW more \in BOOLEAN,
               Deliver(msg, [rd EXCEPT !.inbound = @ + 1, !.data = more])
        PROVE  rd'.pc \in {"top", "reserve"}
    <3>1. rd.inbound + 1 \in Nat
      BY <1>0 DEF ReaderState
    <3>2. [rd EXCEPT !.inbound = @ + 1, !.data = more] \in ReaderState
      BY <1>0, <3>1, Zenon DEF ReaderState
    <3> QED
      BY <2>1, <3>2, <1>6
  <2> QED
    BY <1>0, <1>2, <1>8, <2>1 DEF next_parse, ReaderState
<1> QED
  BY <1>0, <1>2, <1>3, <1>4, <1>5, <1>7, <1>8, ZenonT(60)
  DEF ReaderStep, Reader, delivering, reading, compressed_next_deliver, compressed_next_read,
      compressed_next_parse, next_terminal, next_hand_off, next_no_driver, next_read_error, next_nothing,
      next_terminate, next_notified, next_cancelled, drop_reader, ReaderState

-----------------------------------------------------------------------------
(* The invariant *)

\* The handed-over states satisfy the invariant.
LEMMA InitSafe == Init => SafeInv
<1> SUFFICES ASSUME Init PROVE SafeInv
  OBVIOUS
<1>1. TypeOK
  BY InitType
<1>2. /\ wr = [pc |-> "idle", op |-> "none", sends |-> 0] /\ dr = DriverInit
      /\ queue = <<>> /\ wire = <<>> /\ sink = <<>> /\ transport = "Open"
  BY DEF Init
<1>3. Len(queue) = 0 /\ Len(wire) = 0 /\ Capacity > 0
  BY <1>2, SplitAssumption
<1>4. PermitInv /\ CallInv
  BY <1>2, <1>3, SplitAssumption DEF PermitInv, WriterPermit, CallInv
<1>5. TransportInv /\ SinkExclusive
  BY <1>2 DEF TransportInv, SinkExclusive, DriverInit
<1>6. WireInv
  BY <1>2, <1>3 DEF WireInv, FrameBoundaries, DriverInit
<1>7. AnswerInv
  BY <1>2, <1>3 DEF AnswerInv, Holds, DriverInit
<1>8. rd.pc = "top" /\ rd.request = "none"
  BY DEF Init
<1>9. ClosingInv /\ EofIsThePeers
  BY <1>2, <1>3, <1>8 DEF ClosingInv, Holds, DriverInit, EofIsThePeers
<1>10. DataInv
  BY <1>2, <1>3 DEF DataInv, CloseBegun, NoDataAfterClose
<1> QED
  BY <1>1, <1>4, <1>5, <1>6, <1>7, <1>9, <1>10 DEF SafeInv, EofInv

\* Every reader step keeps the invariant.
LEMMA ReaderSafe == SafeInv /\ ReaderStep => SafeInv'
<1> SUFFICES ASSUME SafeInv, ReaderStep PROVE SafeInv'
  OBVIOUS
<1> USE DEF SafeInv, EofInv
<1>1. /\ ReaderType' /\ StatusStep /\ cancels' \in Nat
      /\ UNCHANGED <<zero, transport, sink, wire, wr, dr>>
      /\ cancel' \in {cancel, TRUE}
  BY ReaderTypeStep
<1>2. PermitInv' /\ queue' \in Seq(Request)
  BY ReaderPermit
<1>3. status' \in Status
  BY <1>1 DEF StatusStep, TypeOK, Status
<1>4. TypeOK'
  BY <1>1, <1>2, <1>3 DEF TypeOK, ReaderType, PermitInv
<1>5. CallInv' /\ SinkExclusive'
  BY <1>1 DEF CallInv, SinkExclusive, Holder
<1>6. TransportInv'
  BY <1>1, ReaderTransport
<1>7. WireInv'
  <2>1. FrameBoundaries' /\ (MidFrame => MidFrame')
    <3>1. cancel => cancel'
      BY <1>1
    <3> QED
      BY <1>1, <3>1 DEF WireInv, FrameBoundaries, MidFrame, Holder
  <2> QED
    BY <1>1, <2>1 DEF WireInv
<1> QED
  BY <1>2, <1>4, <1>5, <1>6, <1>7, ReaderAnswer, ReaderClosing, ReaderData, ReaderEof

\* Every step of the write handle keeps the invariant.
LEMMA WriterSafe == SafeInv /\ WriterStep => SafeInv'
<1> SUFFICES ASSUME SafeInv, WriterStep PROVE SafeInv'
  OBVIOUS
<1> USE DEF SafeInv, EofInv
<1>1. WriterType' /\ UNCHANGED <<zero, transport, rd, dr>> /\ StatusStep
  BY WriterTypeStep
<1>2. PermitInv'
  BY WriterPermitStep
<1>3. TypeOK'
  BY <1>1, <1>2 DEF TypeOK, WriterType, PermitInv
<1>4. TransportInv'
  BY <1>1, ReaderTransport
<1>5. EofIsThePeers'
  BY <1>1 DEF EofIsThePeers
<1> QED
  BY <1>2, <1>3, <1>4, <1>5, WriterCall, WriterSink, WriterWire, WriterAnswer, WriterClosing,
     WriterData

\* Every driver step keeps the invariant.
LEMMA DriverSafe == SafeInv /\ DriverStep => SafeInv'
<1> SUFFICES ASSUME SafeInv, DriverStep PROVE SafeInv'
  OBVIOUS
<1> USE DEF SafeInv, EofInv
<1>1. DriverType' /\ UNCHANGED <<zero, rd, wr, cancels>> /\ StatusStep
  BY DriverTypeStep
<1>2. PermitInv'
  BY DriverPermit
<1>3. TypeOK'
  BY <1>1, <1>2 DEF TypeOK, DriverType, PermitInv
<1>4. CallInv' /\ EofIsThePeers'
  BY <1>1 DEF CallInv, EofIsThePeers
<1> QED
  BY <1>2, <1>3, <1>4, DriverTransport, DriverSink, DriverWire, DriverAnswer, DriverClosing,
     DriverData

\* Every step keeps the invariant.
LEMMA StepSafe == SafeInv /\ [Next]_vars => SafeInv'
<1> SUFFICES ASSUME SafeInv, [Next]_vars PROVE SafeInv'
  OBVIOUS
<1>1. CASE ReaderStep
  BY <1>1, ReaderSafe
<1>2. CASE WriterStep
  BY <1>2, WriterSafe
<1>3. CASE DriverStep
  BY <1>3, DriverSafe
<1>4. CASE UNCHANGED vars
  BY <1>4 DEF vars, SafeInv, TypeOK, PermitInv, WriterPermit, CallInv, TransportInv,
     SinkExclusive, Holder,
     WireInv, FrameBoundaries, MidFrame, AnswerInv, WholeClose, Holds, ClosingInv, DataInv, CloseBegun,
     NoDataAfterClose, EofInv, EofIsThePeers
<1> QED
  BY <1>1, <1>2, <1>3, <1>4 DEF Next, ReaderStep, WriterStep, DriverStep

\* The inductive invariant holds in every reachable state.
THEOREM SplitSafe == Spec => []SafeInv
BY InitSafe, StepSafe, PTL DEF Spec

\* The three tasks' states, the channel, the lock and the wire are well typed in every
\* reachable state, and the channel never holds more than its capacity.
THEOREM TypeAlways == Spec => []TypeOK
<1>1. SafeInv => TypeOK
  BY DEF SafeInv
<1> QED
  BY <1>1, SplitSafe, PTL

\* At most one task is writing a frame into the shared sink, and it is the holder of its
\* lock, whatever is cancelled or dropped.
THEOREM SinkAlwaysExclusive == Spec => []SinkExclusive
<1>1. SafeInv => SinkExclusive
  BY DEF SafeInv
<1> QED
  BY <1>1, SplitSafe, PTL

\* Every frame on the wire but the last is whole: a cancelled or failed write is never
\* followed by another frame.
THEOREM FramesAlwaysWhole == Spec => []FrameBoundaries
<1>1. SafeInv => FrameBoundaries
  BY DEF SafeInv, WireInv
<1> QED
  BY <1>1, SplitSafe, PTL

\* A finished close handshake has our own Close, whole, on the wire.
THEOREM CloseAlwaysSent == Spec => []CloseAnswered
<1>1. SafeInv => CloseAnswered
  BY DEF SafeInv, AnswerInv, WholeClose, CloseAnswered
<1> QED
  BY <1>1, SplitSafe, PTL

\* No data frame follows a Close on the wire, although the status is set by one task and
\* the frames are written by two others.
THEOREM NoDataEverAfterClose == Spec => []NoDataAfterClose
<1>1. SafeInv => NoDataAfterClose
  BY DEF SafeInv, DataInv
<1> QED
  BY <1>1, SplitSafe, PTL

\* A clean end of the stream is reported only when the peer ended it.
THEOREM EofAlwaysThePeers == Spec => []EofIsThePeers
<1>1. SafeInv => EofIsThePeers
  BY DEF SafeInv, EofInv
<1> QED
  BY <1>1, SplitSafe, PTL

\* No step replaces a terminal status.
LEMMA StepStatus == SafeInv /\ [Next]_vars => [(status \in Terminal) => (status' = status)]_vars
<1> SUFFICES ASSUME SafeInv, Next PROVE (status \in Terminal) => (status' = status)
  OBVIOUS
<1>1. ReaderStep \/ WriterStep \/ DriverStep
  BY DEF Next, ReaderStep, WriterStep, DriverStep
<1>2. StatusStep
  BY <1>1, ReaderTypeStep, WriterTypeStep, DriverTypeStep DEF SafeInv
<1> QED
  BY <1>2, StatusStays

\* The first terminal cause is final: no later event of any task replaces it.
THEOREM FirstCauseAlwaysWins == Spec => FirstCauseWins
BY StepStatus, SplitSafe, PTL DEF Spec, FirstCauseWins

=============================================================================
