-------------------------- MODULE SpscQueueProofs --------------------------
(***************************************************************************)
(* SpscQueue for every capacity, index width, starting index and set of    *)
(* items: the producer and the consumer never touch one slot at a time,    *)
(* and the queue implements a bounded FIFO.                                *)
(*                                                                         *)
(* NoSlotRace is not inductive: it needs that the index a thread loaded is *)
(* still the shared one (each index has a single writer), that a producer  *)
(* past its check has room and that a consumer past its check has an item. *)
(* The refinement further needs that the slot about to be published holds  *)
(* the item and that the value a consumer is about to return is the        *)
(* slot's.                                                                 *)
(***************************************************************************)
EXTENDS SpscQueue, Lemmas, SequenceTheorems

IInv ==
    /\ TypeOK
    /\ prod.pc # "idle" => prod.head = head /\ prod.item \in Values
    /\ cons.pc # "idle" => cons.tail = tail
    /\ prod.pc \in {"write", "publish"} => Distance(head, tail) < N
    /\ prod.pc = "publish" => buffer[Slot(head)] = prod.item
    /\ cons.pc \in {"read", "free"} => head # tail
    /\ cons.pc = "free" => cons.item = buffer[Slot(tail)]

\* What the assumption on the constants says of the two moduli.
LEMMA Moduli == N \in Nat \ {0} /\ Modulus \in Nat \ {0} /\ Modulus % N = 0 /\ 2 * N <= Modulus
BY SpscAssumption

\* Index arithmetic of the ring
LEMMA IndexStep ==
    ASSUME NEW i \in Index
    PROVE  /\ (i + 1) % Modulus \in Index
           /\ (i + 1) % Modulus = IF i = Modulus - 1 THEN 0 ELSE i + 1
BY SpscAssumption, RingStep DEF Index

\* The occupied length, by cases on whether the head has wrapped past the tail.
LEMMA IndexDistance ==
    ASSUME NEW i \in Index, NEW j \in Index
    PROVE  /\ Distance(i, j) \in Index
           /\ Distance(i, j) = IF j <= i THEN i - j ELSE i - j + Modulus
BY SpscAssumption, RingDistance DEF Index, Distance

\* `index & mask()` is a slot.
LEMMA SlotType ==
    ASSUME NEW i \in Int
    PROVE  Slot(i) \in 0 .. N - 1
BY SpscAssumption, DivMod DEF Slot

\* Two positions less than N apart are in different slots
LEMMA SlotsDiffer ==
    ASSUME NEW i \in Index, NEW k \in 0 .. N - 1, NEW l \in 0 .. N - 1, k # l
    PROVE  Slot(i + k) # Slot(i + l)
<1>1. i + k \in Int /\ i + l \in Int /\ N \in Nat \ {0}
  BY SpscAssumption DEF Index
<1>2. (i + k) - (i + l) < N /\ (i + l) - (i + k) < N /\ i + k # i + l
  BY SpscAssumption DEF Index
<1> QED
  BY <1>1, <1>2, ModClose, Zenon DEF Slot

\* The head is the slot after the occupied ones.
LEMMA HeadSlot ==
    ASSUME NEW i \in Index, NEW j \in Index
    PROVE  Slot(j + Distance(i, j)) = Slot(i)
BY Moduli, SlotAtDistance, ZenonT(60) DEF Index, Slot, Distance

\* The slots seen from the tail after it moved by one.
LEMMA NextSlot ==
    ASSUME NEW i \in Index, NEW k \in Int
    PROVE  Slot(((i + 1) % Modulus) + k) = Slot(i + 1 + k)
<1>1. i + 1 \in Int
  BY DEF Index
<1>2. N \in Nat \ {0} /\ Modulus \in Nat \ {0} /\ Modulus % N = 0
  BY Moduli
<1> QED
  BY <1>1, <1>2, ModMod, ZenonT(60) DEF Slot

\* A new queue satisfies the invariant.
LEMMA InitInv == Init => IInv
<1> SUFFICES ASSUME Init PROVE IInv
  OBVIOUS
<1>1. 0 \in Index /\ Distance(0, 0) = 0
  BY SpscAssumption, IndexDistance DEF Index
<1> QED
  BY <1>1, SpscAssumption DEF Init, IInv, TypeOK

\* Every step of either thread keeps the invariant.
LEMMA StepInv == IInv /\ [Next]_vars => IInv'
<1> SUFFICES ASSUME IInv, [Next]_vars PROVE IInv'
  OBVIOUS
<1> USE DEF IInv, TypeOK
<1>a. Slot(head) \in 0 .. N - 1 /\ Slot(tail) \in 0 .. N - 1
  BY SlotType DEF Index
<1>b. Distance(head, tail) \in Int /\ N \in Int
  BY IndexDistance, Moduli DEF Index
<1>1. ASSUME NEW v \in Values, try_push(v) PROVE IInv'
  BY <1>1 DEF try_push
<1>2. CASE push_check
  BY <1>2, <1>b DEF push_check
<1>3. CASE push_write
  <2>1. cons.pc = "free" => Slot(head) # Slot(tail)
    <3> SUFFICES ASSUME cons.pc = "free" PROVE Slot(head) # Slot(tail)
      OBVIOUS
    <3>1. Distance(head, tail) \in 1 .. N - 1
      BY <1>3, IndexDistance, SpscAssumption DEF push_write, Index
    <3>2. Slot(tail + Distance(head, tail)) # Slot(tail + 0)
      BY <3>1, SlotsDiffer, SpscAssumption
    <3> QED
      BY <3>2, HeadSlot DEF Index
  <2> QED
    BY <1>3, <1>a, <2>1 DEF push_write
<1>4. CASE push_publish
  <2>1. head' \in Index /\ head' = IF head = Modulus - 1 THEN 0 ELSE head + 1
    BY <1>4, IndexStep DEF push_publish
  <2>2. /\ Distance(head, tail) = IF tail <= head THEN head - tail ELSE head - tail + Modulus
        /\ Distance(head', tail) = IF tail <= head' THEN head' - tail ELSE head' - tail + Modulus
    BY <2>1, IndexDistance
  <2>3. head \in 0 .. Modulus - 1 /\ tail \in 0 .. Modulus - 1 /\ Distance(head, tail) < N
    BY <1>4 DEF push_publish, Index
  <2>4. head' # tail /\ Distance(head', tail) <= N
    <3> HIDE DEF IInv, TypeOK
    <3> QED BY <2>1, <2>2, <2>3, Moduli
  <2> QED
    BY <1>4, <2>1, <2>4 DEF push_publish
<1>5. CASE try_pop
  BY <1>5 DEF try_pop
<1>6. CASE pop_check
  BY <1>6 DEF pop_check
<1>7. CASE pop_read
  BY <1>7, <1>a DEF pop_read
<1>8. CASE pop_free
  <2>1. tail' \in Index /\ tail' = IF tail = Modulus - 1 THEN 0 ELSE tail + 1
    BY <1>8, IndexStep DEF pop_free
  <2>2. /\ Distance(head, tail) = IF tail <= head THEN head - tail ELSE head - tail + Modulus
        /\ Distance(head, tail') = IF tail' <= head THEN head - tail' ELSE head - tail' + Modulus
    BY <2>1, IndexDistance
  <2>3a. head \in 0 .. Modulus - 1 /\ tail \in 0 .. Modulus - 1 /\ head # tail
    BY <1>8 DEF pop_free, Index
  <2>3. Distance(head, tail') \in Int /\ Distance(head, tail') < Distance(head, tail)
    <3> HIDE DEF IInv, TypeOK
    <3> QED BY <2>1, <2>2, <2>3a, Moduli
  <2>4. Distance(head', tail') <= N /\ (Distance(head, tail) < N => Distance(head', tail') < N)
    BY <1>8, <1>b, <2>3 DEF pop_free
  <2> QED
    BY <1>8, <2>1, <2>4 DEF pop_free
<1>9. CASE UNCHANGED vars
  BY <1>9 DEF vars
<1> QED
  BY <1>1, <1>2, <1>3, <1>4, <1>5, <1>6, <1>7, <1>8, <1>9 DEF Next

\* The inductive invariant holds in every reachable state.
THEOREM SpscInvariant == Spec => []IInv
BY InitInv, StepInv, PTL DEF Spec

\* A producer that found room and a consumer that found an item are in different slots.
LEMMA InvNoRace == IInv => NoSlotRace
<1> SUFFICES ASSUME IInv, prod.pc = "write", cons.pc = "read"
             PROVE  Slot(head) # Slot(tail)
  BY DEF NoSlotRace, IInv
<1> USE DEF IInv, TypeOK
<1>0. Distance(head, tail) = IF tail <= head THEN head - tail ELSE head - tail + Modulus
  BY IndexDistance
<1>1. Distance(head, tail) \in 1 .. N - 1
  BY <1>0, Moduli DEF Index
<1>2. Slot(tail + Distance(head, tail)) # Slot(tail + 0)
  BY <1>1, SlotsDiffer, Moduli
<1> QED
  BY <1>2, HeadSlot DEF Index

\* try_push's write and try_pop's read of the UnsafeCell slots never overlap on one slot,
\* for every capacity and width of the indices, across their wrap.
THEOREM NoRaceEver == Spec => []NoSlotRace
BY SpscInvariant, InvNoRace, PTL

ContentsExact ==
    /\ Contents \in Seq(Values \cup {"uninit"})
    /\ Len(Contents) = Distance(head, tail)
    /\ Distance(head, tail) \in 0 .. N
    /\ \A i \in 1 .. Distance(head, tail) : Contents[i] = buffer[Slot(tail + i - 1)]

\* The occupied slots from the tail on are a sequence of as many items as the indices are
\* apart.
LEMMA TypeContents == TypeOK => ContentsExact
<1> SUFFICES ASSUME TypeOK PROVE ContentsExact
  OBVIOUS
<1>1. Distance(head, tail) \in 0 .. N
  BY IndexDistance, Moduli DEF TypeOK, Index
<1>2. ASSUME NEW i \in 1 .. Distance(head, tail)
      PROVE  buffer[Slot(tail + i - 1)] \in Values \cup {"uninit"}
  <2>1. tail + i - 1 \in Int
    BY <1>1 DEF TypeOK, Index
  <2>2. Slot(tail + i - 1) \in 0 .. N - 1
    BY <2>1, SlotType
  <2> QED
    BY <2>2 DEF TypeOK
<1> QED
  BY <1>1, <1>2 DEF Contents, ContentsExact

\* The contents are exact before and after every step.
LEMMA InvContents == (IInv => ContentsExact) /\ (IInv' => ContentsExact')
<1>1. IInv => ContentsExact
  BY TypeContents DEF IInv
<1> QED
  BY <1>1, PTL

\* The new queue is the empty FIFO.
LEMMA InitFifo == Init => Fifo!Init
<1> SUFFICES ASSUME Init PROVE Fifo!Init
  OBVIOUS
<1>1. Distance(0, 0) = 0
  BY Moduli, IndexDistance DEF Index
<1> QED
  BY <1>1 DEF Init, Fifo!Init, Contents

\* What each side's step does to the published contents
LEMMA WriteKeepsContents ==
    ASSUME IInv, push_write
    PROVE  Contents' = Contents
<1> USE DEF IInv, TypeOK
<1> DEFINE d == Distance(head, tail)
<1>1. d \in 0 .. N - 1
  BY InvContents, Moduli DEF ContentsExact, push_write
<1>2. ASSUME NEW i \in 1 .. d
      PROVE  Slot(head) # Slot(tail + i - 1) /\ Slot(tail + i - 1) \in 0 .. N - 1
  <2>1. i - 1 \in 0 .. N - 1 /\ i - 1 # d /\ tail + i - 1 = tail + (i - 1) /\ tail + i - 1 \in Int
    <3>1. tail \in Int
      BY DEF Index
    <3> HIDE DEF d, IInv, TypeOK
    <3> QED BY <1>1, <3>1, Moduli
  <2>2. Slot(tail + (i - 1)) # Slot(tail + d)
    <3> HIDE DEF d, IInv, TypeOK
    <3> QED BY <2>1, <1>1, SlotsDiffer DEF IInv, TypeOK
  <2> QED
    BY <2>1, <2>2, HeadSlot, SlotType
<1>3. head' = head /\ tail' = tail
  BY DEF push_write
<1>4. Distance(head', tail') = d
  BY <1>3
<1>5. ASSUME NEW i \in 1 .. d
      PROVE  buffer'[Slot(tail + i - 1)] = buffer[Slot(tail + i - 1)]
  BY <1>2 DEF push_write
<1> QED
  BY <1>3, <1>4, <1>5 DEF Contents

\* The Release store of the head appends the written item.
LEMMA PublishAppends ==
    ASSUME IInv, IInv', push_publish
    PROVE  Contents' = Append(Contents, prod.item) /\ Len(Contents) < N
<1> DEFINE d == Distance(head, tail)
           S == Values \cup {"uninit"}
<1>1. /\ head \in 0 .. Modulus - 1 /\ tail \in 0 .. Modulus - 1 /\ d \in 0 .. N - 1
      /\ head' = (head + 1) % Modulus /\ tail' = tail /\ buffer' = buffer
      /\ buffer[Slot(head)] = prod.item /\ prod.item \in S
  BY InvContents, Moduli, SMTT(60) DEF ContentsExact, push_publish, IInv, TypeOK, Index
<1>2. Distance(head', tail') = d + 1
  <2>1. head' \in Index /\ head' = IF head = Modulus - 1 THEN 0 ELSE head + 1
    BY <1>1, IndexStep DEF Index
  <2>2. /\ d = IF tail <= head THEN head - tail ELSE head - tail + Modulus
        /\ Distance(head', tail) = IF tail <= head' THEN head' - tail ELSE head' - tail + Modulus
    BY <1>1, <2>1, IndexDistance DEF Index
  <2>3. Distance(head', tail) = d + 1
    <3> HIDE DEF d
    <3> QED BY <1>1, <2>1, <2>2, Moduli
  <2> QED
    BY <2>3, <1>1
<1>3. /\ Contents \in Seq(S) /\ Len(Contents) = d
      /\ \A i \in 1 .. d : Contents[i] = buffer[Slot(tail + i - 1)]
  BY InvContents DEF ContentsExact
<1>5. /\ Contents' \in Seq(S) /\ Len(Contents') = d + 1
      /\ \A i \in 1 .. d + 1 : Contents'[i] = buffer[Slot(tail + i - 1)]
  <2>1. /\ Contents' \in Seq(S) /\ Len(Contents') = Distance(head', tail')
        /\ \A i \in 1 .. Distance(head', tail') : Contents'[i] = buffer'[Slot(tail' + i - 1)]
    BY InvContents DEF ContentsExact
  <2> QED
    BY <2>1, <1>1, <1>2
<1>6. Contents'[d + 1] = prod.item
  <2>1. Contents'[d + 1] = buffer[Slot(tail + (d + 1) - 1)]
    <3> HIDE DEF d
    <3> QED BY <1>1, <1>5
  <2>2. tail + (d + 1) - 1 = tail + d
    <3> HIDE DEF d
    <3> QED BY <1>1
  <2>3. Slot(tail + d) = Slot(head)
    BY <1>1, HeadSlot DEF Index
  <2> QED
    BY <2>1, <2>2, <2>3, <1>1
<1> HIDE DEF d, S
<1>7. /\ Append(Contents, prod.item) \in Seq(S)
      /\ Len(Append(Contents, prod.item)) = d + 1
      /\ \A i \in 1 .. d : Append(Contents, prod.item)[i] = Contents[i]
      /\ Append(Contents, prod.item)[d + 1] = prod.item
  BY <1>1, <1>3, AppendProperties
<1>8. \A i \in 1 .. d + 1 : Contents'[i] = Append(Contents, prod.item)[i]
  <2> SUFFICES ASSUME NEW i \in 1 .. d + 1
               PROVE  Contents'[i] = Append(Contents, prod.item)[i]
    OBVIOUS
  <2>1. i \in 1 .. d \/ i = d + 1
    BY <1>1
  <2> QED
    BY <2>1, <1>3, <1>5, <1>6, <1>7
<1>9. Contents' = Append(Contents, prod.item)
  BY <1>5, <1>7, <1>8, SeqEqual
<1> QED
  BY <1>1, <1>3, <1>9, Moduli

\* The Release store of the tail removes the first item.
LEMMA FreeRemovesFirst ==
    ASSUME IInv, IInv', pop_free
    PROVE  Contents # <<>> /\ Contents' = Tail(Contents) /\ cons.item = Head(Contents)
<1> DEFINE d == Distance(head, tail)
           S == Values \cup {"uninit"}
<1>1. /\ head \in 0 .. Modulus - 1 /\ tail \in 0 .. Modulus - 1 /\ head # tail /\ d \in 0 .. N
      /\ tail' = (tail + 1) % Modulus /\ head' = head /\ buffer' = buffer
      /\ cons.item = buffer[Slot(tail)]
  BY InvContents, Moduli DEF ContentsExact, pop_free, IInv, TypeOK, Index
<1>2. d >= 1 /\ Distance(head', tail') = d - 1
  <2>1. tail' \in Index /\ tail' = IF tail = Modulus - 1 THEN 0 ELSE tail + 1
    BY <1>1, IndexStep DEF Index
  <2>2. /\ d = IF tail <= head THEN head - tail ELSE head - tail + Modulus
        /\ Distance(head, tail') = IF tail' <= head THEN head - tail' ELSE head - tail' + Modulus
    BY <1>1, <2>1, IndexDistance DEF Index
  <2>3. d >= 1 /\ Distance(head, tail') = d - 1
    <3> HIDE DEF d
    <3> QED BY <1>1, <2>1, <2>2, Moduli
  <2> QED
    BY <2>3, <1>1
<1>3. /\ Contents \in Seq(S) /\ Len(Contents) = d
      /\ \A i \in 1 .. d : Contents[i] = buffer[Slot(tail + i - 1)]
  BY InvContents DEF ContentsExact
<1>5. /\ Contents' \in Seq(S) /\ Len(Contents') = d - 1
      /\ \A i \in 1 .. d - 1 : Contents'[i] = buffer[Slot(((tail + 1) % Modulus) + i - 1)]
  <2>1. /\ Contents' \in Seq(S) /\ Len(Contents') = Distance(head', tail')
        /\ \A i \in 1 .. Distance(head', tail') : Contents'[i] = buffer'[Slot(tail' + i - 1)]
    BY InvContents DEF ContentsExact
  <2> QED
    BY <2>1, <1>1, <1>2
<1>6. ASSUME NEW i \in 1 .. d - 1
      PROVE  Contents'[i] = Contents[i + 1]
  <2> DEFINE t == (tail + 1) % Modulus
  <2>0. t \in Int
    BY <1>1, IndexStep DEF Index
  <2>1. Slot(t + (i - 1)) = Slot(tail + 1 + (i - 1))
    <3>1. i - 1 \in Int
      <4> HIDE DEF d
      <4> QED BY <1>1
    <3> QED
      BY <1>1, <3>1, NextSlot DEF Index
  <2> HIDE DEF t, d
  <2>2. t + i - 1 = t + (i - 1) /\ tail + 1 + (i - 1) = tail + (i + 1) - 1 /\ i + 1 \in 1 .. d
    BY <1>1, <2>0
  <2>3. Contents'[i] = buffer[Slot(t + i - 1)]
    BY <1>5 DEF t
  <2>4. Contents[i + 1] = buffer[Slot(tail + (i + 1) - 1)]
    BY <1>3, <2>2
  <2> QED
    BY <2>1, <2>2, <2>3, <2>4
<1> HIDE DEF d, S
<1>7. Contents # <<>> /\ Contents[1] = cons.item
  <2>1. tail + 1 - 1 = tail /\ 1 \in 1 .. d
    BY <1>1, <1>2
  <2>2. Contents[1] = buffer[Slot(tail + 1 - 1)]
    BY <2>1, <1>3
  <2> QED
    BY <2>1, <2>2, <1>1, <1>2, <1>3
<1>8. /\ Tail(Contents) \in Seq(S) /\ Len(Tail(Contents)) = d - 1
      /\ \A i \in 1 .. d - 1 : Tail(Contents)[i] = Contents[i + 1]
  BY <1>1, <1>3, <1>7, HeadTailProperties
<1>9. \A i \in 1 .. d - 1 : Contents'[i] = Tail(Contents)[i]
  BY <1>6, <1>8
<1>10. Contents' = Tail(Contents)
  BY <1>5, <1>8, <1>9, SeqEqual
<1> QED
  BY <1>7, <1>10, <1>3

\* Every step is a step of the bounded FIFO, or invisible to it.
LEMMA StepFifo == IInv /\ IInv' /\ [Next]_vars => [Fifo!Next]_<<Contents, outcome>>
<1> SUFFICES ASSUME IInv, IInv', [Next]_vars
             PROVE  Fifo!Next \/ UNCHANGED <<Contents, outcome>>
  OBVIOUS
<1>0. Len(Contents) = Distance(head, tail) /\ Distance(head, tail) \in 0 .. N
  BY InvContents DEF ContentsExact
<1>1. ASSUME UNCHANGED <<head, tail, buffer>> PROVE UNCHANGED Contents
  BY <1>1 DEF Contents
<1>2. ASSUME NEW v \in Values, try_push(v) PROVE UNCHANGED <<Contents, outcome>>
  BY <1>1, <1>2 DEF try_push
<1>3. CASE push_check
  <2>1. UNCHANGED Contents
    BY <1>1, <1>3 DEF push_check
  <2>2. CASE Distance(head, tail) >= N
    <3>1. Len(Contents) = N /\ outcome' = <<"full">>
      BY <1>0, <1>3, <2>2, Moduli DEF push_check, IInv
    <3> QED
      BY <2>1, <3>1 DEF Fifo!Next, Fifo!PushFull
  <2>3. CASE ~(Distance(head, tail) >= N)
    BY <1>3, <2>1, <2>3 DEF push_check, IInv
  <2> QED
    BY <2>2, <2>3
<1>4. CASE push_write
  BY <1>4, WriteKeepsContents DEF push_write
<1>5. CASE push_publish
  <2>1. prod.item \in Values /\ outcome' = <<"pushed", prod.item>>
    BY <1>5 DEF push_publish, IInv
  <2>2. Fifo!Push(prod.item)
    BY <1>5, <2>1, PublishAppends DEF Fifo!Push
  <2> QED
    BY <2>1, <2>2 DEF Fifo!Next
<1>6. CASE try_pop
  BY <1>1, <1>6 DEF try_pop
<1>7. CASE pop_check
  <2>1. UNCHANGED Contents
    BY <1>1, <1>7 DEF pop_check
  <2>2. CASE head = tail
    <3>1. Distance(head, tail) = 0
      BY <2>2, IndexDistance DEF IInv, TypeOK, Index
    <3>2. Contents = <<>> /\ outcome' = <<"empty">>
      BY <1>7, <2>2, <3>1 DEF pop_check, IInv, Contents
    <3> QED
      BY <2>1, <3>2 DEF Fifo!Next, Fifo!PopEmpty
  <2>3. CASE head # tail
    BY <1>7, <2>1, <2>3 DEF pop_check, IInv
  <2> QED
    BY <2>2, <2>3
<1>8. CASE pop_read
  BY <1>1, <1>8 DEF pop_read
<1>9. CASE pop_free
  BY <1>9, FreeRemovesFirst DEF pop_free, Fifo!Next, Fifo!Pop
<1>10. CASE UNCHANGED vars
  BY <1>1, <1>10 DEF vars
<1> QED
  BY <1>2, <1>3, <1>4, <1>5, <1>6, <1>7, <1>8, <1>9, <1>10 DEF Next

\* The SPSC queue implements the bounded FIFO: items leave once, in order, a push is
\* refused only when N items are queued and a pop only when none is, for every capacity and
\* width of the indices.
THEOREM SpscRefinesFifo == Spec => ImplementsFifo
BY InitFifo, StepFifo, SpscInvariant, PTL DEF Spec, ImplementsFifo, Fifo!Spec

=============================================================================
