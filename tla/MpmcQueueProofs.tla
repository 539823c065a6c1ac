-------------------------- MODULE MpmcQueueProofs --------------------------
(***************************************************************************)
(* MpmcQueue for every capacity above one, index width, starting index and *)
(* any finite number of producers and of consumers: no two threads are in  *)
(* one slot at a time, and the queue implements a bounded FIFO.            *)
(*                                                                         *)
(* Positions count from the start of the run without wrapping.             *)
(* SlotsExclusive is not inductive: it needs what every slot's sequence    *)
(* number says of the one position, among the N from the tail on, that     *)
(* falls on it (SlotInv); that a thread which found its turn still has it  *)
(* as long as the index it loaded is the current one (the claim conjuncts  *)
(* of ProducerInv and ConsumerInv); and that no index comes round while a  *)
(* call sleeps, because every claim is one of fewer than Modulus calls     *)
(* (CountInv): the compare-and-swap is exposed to no ABA.                  *)
(*                                                                         *)
(* With one slot the theorems fail, and the code's assertions admit it:    *)
(* the number a producer publishes, position + 1, is then the number of a  *)
(* free slot.                                                              *)
(***************************************************************************)
EXTENDS MpmcQueue, Lemmas, FiniteSetTheorems, SequenceTheorems

\* Positions count from the start of the run, without wrapping: At is the index of a
\* position, Abs the position of an index, Place a position's slot.
At(k) == (Start + k) % Modulus
Abs(i) == (i - Start) % Modulus
Place(k) == (Start + k) % N

H == Abs(head)
T == Abs(tail)

Trying(p) == prod[p].pc \in {"turn", "reload", "claim"}
Writing(p) == prod[p].pc \in {"write", "publish"}
Asking(c) == cons[c].pc \in {"turn", "reload", "claim"}
Reading(c) == cons[c].pc \in {"read", "free"}

WriterAt(k) == \E p \in Producers : Writing(p) /\ Abs(prod[p].head) = k
ReaderAt(k) == \E c \in Consumers : Reading(c) /\ Abs(cons[c].tail) = k

\* Every claim was a call, and the calls in progress have not claimed yet.
CountInv == H + Cardinality({p \in Producers : Trying(p)}) <= pushes

OrderInv == T <= H /\ H <= T + N

ProducerInv ==
    /\ \A p \in Producers : Writing(p) => T <= Abs(prod[p].head) /\ Abs(prod[p].head) < H
    /\ \A p \in Producers : Trying(p) => Abs(prod[p].head) <= H
    /\ \A p, q \in Producers : Writing(p) /\ Writing(q) /\ prod[p].head = prod[q].head => p = q
    /\ \A p \in Producers :
         prod[p].pc = "claim" /\ prod[p].head = head => sequences[Slot(head)] = head

ConsumerInv ==
    /\ \A c \in Consumers : Reading(c) => Abs(cons[c].tail) < T /\ H <= Abs(cons[c].tail) + N
    /\ \A c \in Consumers : Asking(c) => Abs(cons[c].tail) <= T
    /\ \A c, d \in Consumers : Reading(c) /\ Reading(d) /\ cons[c].tail = cons[d].tail => c = d
    /\ \A c \in Consumers :
         cons[c].pc = "claim" /\ cons[c].tail = tail => sequences[Slot(tail)] = Plus(tail, 1)

\* The sequence number of every slot, by the one position of the N from the tail on that
\* falls on it: claimed and being written, published, still being read, or free.
SlotInv ==
    /\ \A k \in T .. H - 1 : sequences[Place(k)] = IF WriterAt(k) THEN At(k) ELSE At(k + 1)
    /\ \A k \in H .. T + N - 1 :
         sequences[Place(k)] = IF ReaderAt(k - N) THEN At(k - N + 1) ELSE At(k)

IInv == TypeOK /\ CountInv /\ OrderInv /\ ProducerInv /\ ConsumerInv /\ SlotInv

\* A producer in a call carries the item it was given.
PayloadInv == \A p \in Producers : prod[p].pc # "idle" => prod[p].item \in Values

-----------------------------------------------------------------------------
(* Positions and indices *)

\* What the assumption says of the two moduli.
LEMMA Moduli ==
    /\ N \in Nat \ {0} /\ Modulus \in Nat \ {0} /\ Modulus % N = 0 /\ Modulus % Modulus = 0
    /\ 4 * N <= Modulus /\ Start \in Index /\ Start \in Int /\ N \in Int /\ Modulus \in Int
<1>1. N \in Nat \ {0} /\ Modulus \in Nat \ {0} /\ Modulus % N = 0 /\ 4 * N <= Modulus /\ Start \in Index
  BY MpmcAssumption DEF Index
<1>2. Modulus % Modulus = 0
  <2>1. Modulus * 1 + 0 = Modulus /\ 0 \in 0 .. Modulus - 1 /\ 1 \in Int
    BY <1>1
  <2> QED
    BY <1>1, <2>1, ModUnique
<1> QED
  BY <1>1, <1>2 DEF Index

\* Indices, slots and positions have their ranges.
LEMMA RingTypes ==
    /\ \A k \in Int : At(k) \in Index /\ Abs(k) \in Index /\ Place(k) \in 0 .. N - 1
                      /\ Slot(k) \in 0 .. N - 1
    /\ \A i \in Index : i \in Int
<1>1. \A k \in Int : Start + k \in Int /\ k - Start \in Int
  BY Moduli
<1> QED
  BY <1>1, Moduli, DivMod DEF At, Abs, Place, Slot, Index

\* At and Abs are inverse to each other.
LEMMA AtAbs ==
    ASSUME NEW i \in Index
    PROVE  At(Abs(i)) = i
<1>1. i - Start \in Int /\ Start \in Int /\ Modulus \in Nat \ {0} /\ Modulus % Modulus = 0
  BY Moduli DEF Index
<1>2. (((i - Start) % Modulus) + Start) % Modulus = ((i - Start) + Start) % Modulus
  BY <1>1, ModMod
<1>3. (i - Start) + Start = i /\ i \in Int /\ 0 <= i /\ i < Modulus
  BY Moduli DEF Index
<1>4. i % Modulus = i
  BY <1>1, <1>3, ModSmall
<1>5. Start + ((i - Start) % Modulus) = ((i - Start) % Modulus) + Start
  BY <1>1, DivMod
<1> QED
  BY <1>2, <1>3, <1>4, <1>5 DEF At, Abs

\* The position of the k-th index is k, as long as the run has not come round.
LEMMA AbsAt ==
    ASSUME NEW k \in Index
    PROVE  Abs(At(k)) = k
<1>1. Start + k \in Int /\ -Start \in Int /\ Modulus \in Nat \ {0} /\ Modulus % Modulus = 0
  BY Moduli DEF Index
<1>2. (((Start + k) % Modulus) + (-Start)) % Modulus = ((Start + k) + (-Start)) % Modulus
  BY <1>1, ModMod
<1>3. (Start + k) + (-Start) = k /\ k \in Int /\ 0 <= k /\ k < Modulus
  BY Moduli DEF Index
<1>4. k % Modulus = k
  BY <1>1, <1>3, ModSmall
<1>5. ((Start + k) % Modulus) - Start = ((Start + k) % Modulus) + (-Start)
  BY <1>1, DivMod
<1> QED
  BY <1>2, <1>3, <1>4, <1>5 DEF At, Abs

\* Indices of positions less than a round apart differ.
LEMMA AtDiffers ==
    ASSUME NEW a \in Int, NEW b \in Int, a # b, a - b < Modulus, b - a < Modulus
    PROVE  At(a) # At(b)
<1>1. Start + a \in Int /\ Start + b \in Int /\ Start + a # Start + b
      /\ (Start + a) - (Start + b) < Modulus /\ (Start + b) - (Start + a) < Modulus
  BY Moduli
<1> QED
  BY <1>1, Moduli, ModClose DEF At

\* Positions less than N apart have different slots.
LEMMA PlaceDiffers ==
    ASSUME NEW a \in Int, NEW b \in Int, a # b, a - b < N, b - a < N
    PROVE  Place(a) # Place(b)
<1>1. Start + a \in Int /\ Start + b \in Int /\ Start + a # Start + b
      /\ (Start + a) - (Start + b) < N /\ (Start + b) - (Start + a) < N
  BY Moduli
<1> QED
  BY <1>1, Moduli, ModClose DEF Place

\* N positions further is the same slot.
LEMMA PlaceRound ==
    ASSUME NEW k \in Int
    PROVE  Place(k + N) = Place(k)
<1>1. Start + k \in Int /\ Start + (k + N) = (Start + k) + N /\ N % N = 0
  <2>1. N * 1 + 0 = N /\ 0 \in 0 .. N - 1 /\ 1 \in Int
    BY Moduli
  <2>2. N % N = 0
    BY Moduli, <2>1, ModUnique
  <2> QED
    BY Moduli, <2>2
<1> QED
  BY <1>1, Moduli, ModShift, ZenonT(60) DEF Place

\* The slot of an index is the slot of its position, and adding to an index moves the
\* position as far.
LEMMA SlotAt ==
    ASSUME NEW k \in Int
    PROVE  Slot(At(k)) = Place(k) /\ \A j \in Int : Plus(At(k), j) = At(k + j)
<1>1. Start + k \in Int /\ 0 \in Int /\ N \in Nat \ {0} /\ Modulus \in Nat \ {0} /\ Modulus % N = 0
      /\ Modulus % Modulus = 0
  BY Moduli
<1>2. (((Start + k) % Modulus) + 0) % N = ((Start + k) + 0) % N
  BY <1>1, ModMod
<1>3. (Start + k) + 0 = Start + k /\ ((Start + k) % Modulus) + 0 = (Start + k) % Modulus
  BY <1>1, DivMod
<1>4. Slot(At(k)) = Place(k)
  BY <1>2, <1>3 DEF Slot, At, Place
<1>5. ASSUME NEW j \in Int PROVE Plus(At(k), j) = At(k + j)
  <2>1. (((Start + k) % Modulus) + j) % Modulus = ((Start + k) + j) % Modulus
    BY <1>1, ModMod
  <2>2. (Start + k) + j = Start + (k + j)
    BY Moduli
  <2> QED
    BY <2>1, <2>2 DEF Plus, At
<1> QED
  BY <1>4, <1>5

\* The same, seen from an index.
LEMMA SlotAbs ==
    ASSUME NEW i \in Index
    PROVE  /\ Slot(i) = Place(Abs(i)) /\ \A j \in Int : Plus(i, j) = At(Abs(i) + j)
           /\ Plus(i, 1) \in Index
           /\ Abs(i) + 1 < Modulus => Abs(Plus(i, 1)) = Abs(i) + 1
<1>1. Abs(i) \in Int /\ Abs(i) \in Index /\ At(Abs(i)) = i
  BY RingTypes, AtAbs
<1>2. Slot(i) = Place(Abs(i)) /\ \A j \in Int : Plus(i, j) = At(Abs(i) + j)
  BY <1>1, SlotAt
<1>3. Plus(i, 1) = At(Abs(i) + 1) /\ Abs(i) + 1 \in Int
  BY <1>1, <1>2
<1>4. ASSUME Abs(i) + 1 < Modulus PROVE Abs(Plus(i, 1)) = Abs(i) + 1
  <2>1. Abs(i) + 1 \in Index
    BY <1>1, <1>4, Moduli DEF Index
  <2> QED
    BY <1>3, <2>1, AbsAt
<1> QED
  BY <1>2, <1>3, <1>4, RingTypes

\* Two indices with one position are one index.
LEMMA AbsDiffers ==
    ASSUME NEW i \in Index, NEW j \in Index, Abs(i) = Abs(j)
    PROVE  i = j
BY AtAbs

\* The comparison of the turn: a difference of zero is equality.
LEMMA DiffZero ==
    ASSUME NEW a \in Index, NEW b \in Index, Diff(a, b) = 0
    PROVE  a = b
<1> DEFINE d == (a - b) % Modulus
<1>1. a - b \in Int /\ a \in Int /\ b \in Int /\ Modulus \in Nat \ {0} /\ 0 \in Int
  BY Moduli DEF Index
<1>2. d \in 0 .. Modulus - 1
  BY <1>1, DivMod
<1>3. d = 0
  <2>1. Diff(a, b) = IF d < Modulus \div 2 THEN d ELSE d - Modulus
    BY DEF Diff
  <2> HIDE DEF d
  <2> QED
    BY <1>1, <1>2, <2>1
<1>4. 0 % Modulus = 0
  BY <1>1, ModSmall
<1>5. (a - b) % Modulus = 0 % Modulus /\ (a - b) - 0 < Modulus /\ 0 - (a - b) < Modulus
  BY <1>1, <1>3, <1>4 DEF Index
<1>6. a - b = 0
  BY <1>1, <1>5, ModClose
<1> QED
  BY <1>1, <1>6

-----------------------------------------------------------------------------
(* The invariant *)

Producer == [pc : {"idle", "turn", "reload", "claim", "write", "publish"},
             head : Index, item : Values \cup {"uninit"}]
Consumer == [pc : {"idle", "turn", "reload", "claim", "read", "free"},
             tail : Index, item : Values \cup {"uninit"}]

\* The types in the terms the step lemmas use.
LEMMA Types ==
    ASSUME TypeOK
    PROVE  /\ head \in Index /\ tail \in Index /\ sequences \in [0 .. N - 1 -> Index]
           /\ prod \in [Producers -> Producer] /\ cons \in [Consumers -> Consumer]
           /\ \A p \in Producers : prod[p] \in Producer /\ prod[p].head \in Index
                                   /\ Abs(prod[p].head) \in Int /\ 0 <= Abs(prod[p].head)
           /\ \A c \in Consumers : cons[c] \in Consumer /\ cons[c].tail \in Index
                                   /\ Abs(cons[c].tail) \in Int /\ 0 <= Abs(cons[c].tail)
           /\ H \in Int /\ T \in Int /\ H \in Index /\ T \in Index /\ 0 <= T /\ 0 <= H
           /\ At(H) = head /\ At(T) = tail /\ Slot(head) = Place(H) /\ Slot(tail) = Place(T)
<1>1. /\ head \in Index /\ tail \in Index /\ sequences \in [0 .. N - 1 -> Index]
      /\ prod \in [Producers -> Producer] /\ cons \in [Consumers -> Consumer]
  BY DEF TypeOK, Producer, Consumer
<1>2. /\ \A p \in Producers : prod[p] \in Producer /\ prod[p].head \in Index
      /\ \A c \in Consumers : cons[c] \in Consumer /\ cons[c].tail \in Index
  BY <1>1 DEF Producer, Consumer
<1>3. \A i \in Index : Abs(i) \in Int /\ 0 <= Abs(i) /\ Abs(i) \in Index
  BY RingTypes DEF Index
<1>4. At(H) = head /\ At(T) = tail /\ Slot(head) = Place(H) /\ Slot(tail) = Place(T)
  BY <1>1, AtAbs, SlotAbs DEF H, T
<1> QED
  BY <1>1, <1>2, <1>3, <1>4 DEF H, T

\* A head whose slot waits for it: there is room, and nobody still reads the slot.  With
\* one slot this fails: At(T + 1) is then both published and free.
LEMMA FreeHead ==
    ASSUME N > 1, TypeOK, OrderInv, SlotInv, sequences[Slot(head)] = head
    PROVE  H < T + N /\ ~ReaderAt(H - N)
<1>1. /\ H \in Int /\ T \in Int /\ At(H) = head /\ Slot(head) = Place(H) /\ N \in Int
      /\ Modulus \in Int /\ 4 * N <= Modulus
  BY Types, Moduli
<1>2. H # T + N
  <2> SUFFICES ASSUME H = T + N PROVE FALSE
    OBVIOUS
  <2>1. T \in T .. H - 1 /\ Place(H) = Place(T)
    BY <1>1, PlaceRound
  <2>2. At(H) = At(T) \/ At(H) = At(T + 1)
    BY <1>1, <2>1 DEF SlotInv
  <2>3. At(H) # At(T)
    BY <1>1, AtDiffers
  <2>4. At(H) # At(T + 1)
    <3>1. T + 1 \in Int /\ H # T + 1 /\ H - (T + 1) < Modulus /\ (T + 1) - H < Modulus
      BY <1>1
    <3> QED
      BY <1>1, <3>1, AtDiffers
  <2> QED
    BY <2>2, <2>3, <2>4
<1>3. H < T + N
  BY <1>1, <1>2 DEF OrderInv
<1>4. ASSUME ReaderAt(H - N) PROVE FALSE
  <2>1. H \in H .. T + N - 1
    BY <1>1, <1>3
  <2>2. At(H) = At(H - N + 1)
    BY <1>1, <1>4, <2>1 DEF SlotInv
  <2>3. H - N + 1 \in Int /\ H # H - N + 1 /\ H - (H - N + 1) < Modulus /\ (H - N + 1) - H < Modulus
    BY <1>1
  <2> QED
    BY <1>1, <2>2, <2>3, AtDiffers
<1> QED
  BY <1>3, <1>4

\* A tail whose slot is published: there is an item, and nobody still writes the slot.
LEMMA ReadyTail ==
    ASSUME TypeOK, OrderInv, SlotInv, sequences[Slot(tail)] = Plus(tail, 1)
    PROVE  T < H /\ ~WriterAt(T)
<1>1. /\ H \in Int /\ T \in Int /\ At(T) = tail /\ Slot(tail) = Place(T) /\ N \in Int /\ N > 0
      /\ Modulus \in Int /\ 4 * N <= Modulus /\ T <= H /\ H <= T + N
  BY Types, Moduli DEF OrderInv
<1>2. sequences[Place(T)] = At(T + 1)
  <2>1. tail \in Index /\ 1 \in Int
    BY Types
  <2>2. Plus(tail, 1) = At(Abs(tail) + 1)
    BY <2>1, SlotAbs
  <2> QED
    BY <1>1, <2>2 DEF T
<1>3. T # H
  <2> SUFFICES ASSUME T = H PROVE FALSE
    OBVIOUS
  <2>1. T \in H .. T + N - 1
    BY <1>1
  <2>2. At(T + 1) = At(T) \/ At(T + 1) = At(T - N + 1)
    BY <1>2, <2>1 DEF SlotInv
  <2>3. At(T + 1) # At(T)
    <3>1. T + 1 \in Int /\ T # T + 1 /\ T - (T + 1) < Modulus /\ (T + 1) - T < Modulus
      BY <1>1
    <3> QED
      BY <1>1, <3>1, AtDiffers
  <2>4. At(T + 1) # At(T - N + 1)
    <3>1. /\ T + 1 \in Int /\ T - N + 1 \in Int /\ T + 1 # T - N + 1
          /\ (T - N + 1) - (T + 1) < Modulus /\ (T + 1) - (T - N + 1) < Modulus
      BY <1>1
    <3> QED
      BY <3>1, AtDiffers
  <2> QED
    BY <2>2, <2>3, <2>4
<1>4. T < H /\ T \in T .. H - 1
  BY <1>1, <1>3
<1>5. ASSUME WriterAt(T) PROVE FALSE
  <2>1. At(T + 1) = At(T)
    BY <1>2, <1>4, <1>5 DEF SlotInv
  <2>2. T + 1 \in Int /\ T # T + 1 /\ T - (T + 1) < Modulus /\ (T + 1) - T < Modulus
    BY <1>1
  <2> QED
    BY <1>1, <2>1, <2>2, AtDiffers
<1> QED
  BY <1>4, <1>5

\* SlotsExclusive follows: writers are in positions from the tail to the head, readers in
\* the positions before the tail that are less than N from the head.
LEMMA InvExclusive == IInv => SlotsExclusive
<1> SUFFICES ASSUME IInv PROVE SlotsExclusive
  OBVIOUS
<1>1. TypeOK /\ OrderInv /\ ProducerInv /\ ConsumerInv
  BY DEF IInv
<1>2. /\ H \in Int /\ T \in Int /\ N \in Int /\ T <= H /\ H <= T + N
  BY <1>1, Types, Moduli DEF OrderInv
<1>3. ASSUME NEW p \in Producers, NEW q \in Producers, prod[p].pc = "write", prod[q].pc = "write", p # q
      PROVE  Slot(prod[p].head) # Slot(prod[q].head)
  <2> DEFINE a == Abs(prod[p].head)
             b == Abs(prod[q].head)
  <2>1. /\ prod[p].head \in Index /\ prod[q].head \in Index /\ a \in Int /\ b \in Int
    BY <1>1, Types
  <2>2. T <= a /\ a < H /\ T <= b /\ b < H /\ prod[p].head # prod[q].head
    BY <1>1, <1>3 DEF ProducerInv, Writing
  <2>3. a # b
    BY <2>1, <2>2, AbsDiffers
  <2>4. Slot(prod[p].head) = Place(a) /\ Slot(prod[q].head) = Place(b)
    BY <2>1, SlotAbs
  <2> HIDE DEF a, b
  <2>5. a - b < N /\ b - a < N
    BY <1>2, <2>1, <2>2
  <2> QED
    BY <2>1, <2>3, <2>4, <2>5, PlaceDiffers
<1>4. ASSUME NEW c \in Consumers, NEW d \in Consumers, cons[c].pc = "read", cons[d].pc = "read", c # d
      PROVE  Slot(cons[c].tail) # Slot(cons[d].tail)
  <2> DEFINE a == Abs(cons[c].tail)
             b == Abs(cons[d].tail)
  <2>1. /\ cons[c].tail \in Index /\ cons[d].tail \in Index /\ a \in Int /\ b \in Int
    BY <1>1, Types
  <2>2. a < T /\ H <= a + N /\ b < T /\ H <= b + N /\ cons[c].tail # cons[d].tail
    BY <1>1, <1>4 DEF ConsumerInv, Reading
  <2>3. a # b
    BY <2>1, <2>2, AbsDiffers
  <2>4. Slot(cons[c].tail) = Place(a) /\ Slot(cons[d].tail) = Place(b)
    BY <2>1, SlotAbs
  <2> HIDE DEF a, b
  <2>5. a - b < N /\ b - a < N
    BY <1>2, <2>1, <2>2
  <2> QED
    BY <2>1, <2>3, <2>4, <2>5, PlaceDiffers
<1>5. ASSUME NEW p \in Producers, NEW c \in Consumers, prod[p].pc = "write", cons[c].pc = "read"
      PROVE  Slot(prod[p].head) # Slot(cons[c].tail)
  <2> DEFINE a == Abs(prod[p].head)
             b == Abs(cons[c].tail)
  <2>1. /\ prod[p].head \in Index /\ cons[c].tail \in Index /\ a \in Int /\ b \in Int
    BY <1>1, Types
  <2>2. T <= a /\ a < H /\ b < T /\ H <= b + N
    BY <1>1, <1>5 DEF ProducerInv, Writing, ConsumerInv, Reading
  <2>4. Slot(prod[p].head) = Place(a) /\ Slot(cons[c].tail) = Place(b)
    BY <2>1, SlotAbs
  <2> HIDE DEF a, b
  <2>5. a - b < N /\ b - a < N /\ a # b
    BY <1>2, <2>1, <2>2
  <2> QED
    BY <2>1, <2>4, <2>5, PlaceDiffers
<1> QED
  BY <1>3, <1>4, <1>5 DEF SlotsExclusive

\* A new queue satisfies the invariant.
LEMMA InitInv == Init => IInv
<1> SUFFICES ASSUME Init PROVE IInv
  OBVIOUS
<1>1. /\ head = Start /\ tail = Start /\ pushes = 0 /\ pops = 0
      /\ sequences = [i \in 0 .. N - 1 |-> Plus(Start, (i - Start) % N)]
      /\ buffer = [i \in 0 .. N - 1 |-> "uninit"]
      /\ prod = [p \in Producers |-> [pc |-> "idle", head |-> Start, item |-> "uninit"]]
      /\ cons = [c \in Consumers |-> [pc |-> "idle", tail |-> Start, item |-> "uninit"]]
  BY DEF Init
<1>2. H = 0 /\ T = 0
  <2>1. Start - Start = 0 /\ 0 \in Int /\ Modulus \in Nat \ {0} /\ 0 < Modulus
    BY Moduli
  <2>2. 0 % Modulus = 0
    BY <2>1, ModSmall
  <2> QED
    BY <1>1, <2>1, <2>2 DEF H, T, Abs
<1>3. \A i \in 0 .. N - 1 : (i - Start) % N \in Int /\ Plus(Start, (i - Start) % N) \in Index
  <2>1. \A i \in 0 .. N - 1 : i - Start \in Int
    BY Moduli
  <2>2. \A i \in 0 .. N - 1 : (i - Start) % N \in Int
    BY <2>1, Moduli, DivMod
  <2>3. \A k \in Int : Plus(Start, k) = At(k)
    BY DEF Plus, At
  <2> QED
    BY <2>2, <2>3, RingTypes
<1>4. TypeOK
  <2>1. sequences \in [0 .. N - 1 -> Index]
    BY <1>1, <1>3
  <2>2. /\ prod \in [Producers -> [pc : {"idle", "turn", "reload", "claim", "write", "publish"},
                                   head : Index, item : Values \cup {"uninit"}]]
        /\ cons \in [Consumers -> [pc : {"idle", "turn", "reload", "claim", "read", "free"},
                                   tail : Index, item : Values \cup {"uninit"}]]
    BY <1>1, Moduli
  <2>3. pushes \in 0 .. MaxPush /\ pops \in 0 .. MaxPop
    BY <1>1, MpmcAssumption
  <2> QED
    BY <1>1, <2>1, <2>2, <2>3, Moduli DEF TypeOK
<1>5. \A p \in Producers : prod[p].pc = "idle"
  BY <1>1
<1>6. \A c \in Consumers : cons[c].pc = "idle"
  BY <1>1
<1>7. CountInv
  <2>1. {p \in Producers : Trying(p)} = {}
    BY <1>5 DEF Trying
  <2>2. Cardinality({p \in Producers : Trying(p)}) = 0
    BY <2>1, FS_EmptySet
  <2> QED
    BY <1>1, <1>2, <2>2 DEF CountInv
<1>8. OrderInv
  BY <1>2, Moduli DEF OrderInv
<1>9. ProducerInv /\ ConsumerInv
  BY <1>5, <1>6 DEF ProducerInv, ConsumerInv, Trying, Writing, Asking, Reading
<1>10. SlotInv
  <2>1. ASSUME NEW k \in 0 .. N - 1 PROVE sequences[Place(k)] = At(k)
    <3>1. Place(k) \in 0 .. N - 1 /\ k \in Int
      BY RingTypes
    <3>2. sequences[Place(k)] = Plus(Start, (Place(k) - Start) % N)
      BY <1>1, <3>1
    <3>3. (Place(k) - Start) % N = k
      <4>1. Start + k \in Int /\ -Start \in Int /\ N % N = 0 /\ N \in Nat \ {0}
        <5>1. N * 1 + 0 = N /\ 0 \in 0 .. N - 1 /\ 1 \in Int
          BY Moduli
        <5> QED
          BY Moduli, <3>1, <5>1, ModUnique
      <4>2. (((Start + k) % N) + (-Start)) % N = ((Start + k) + (-Start)) % N
        BY <4>1, ModMod
      <4>3. (Start + k) + (-Start) = k /\ 0 <= k /\ k < N
        BY Moduli
      <4>4. k % N = k
        BY <3>1, <4>1, <4>3, ModSmall
      <4>5. Place(k) - Start = ((Start + k) % N) + (-Start)
        BY <3>1, Moduli DEF Place
      <4> QED
        BY <4>2, <4>3, <4>4, <4>5
    <3> QED
      BY <3>2, <3>3 DEF Plus, At
  <2>2. \A k : ~ReaderAt(k)
    BY <1>6 DEF ReaderAt, Reading
  <2>3. T .. H - 1 = {} /\ H .. T + N - 1 = 0 .. N - 1
    BY <1>2, Moduli
  <2> QED
    BY <2>1, <2>2, <2>3 DEF SlotInv
<1> QED
  BY <1>4, <1>7, <1>8, <1>9, <1>10 DEF IInv

-----------------------------------------------------------------------------
(* The calls in progress *)

\* The number of producers that have not claimed yet follows the one that moves.
LEMMA TryingStep ==
    ASSUME TypeOK, NEW p \in Producers,
           \A q \in Producers \ {p} : prod'[q] = prod[q]
    PROVE  LET n == Cardinality({q \in Producers : Trying(q)})
               m == Cardinality({q \in Producers : Trying(q)}')
           IN /\ n \in Nat /\ m \in Nat
              /\ Trying(p)' = Trying(p) => m = n
              /\ Trying(p) /\ ~Trying(p)' => m = n - 1
              /\ ~Trying(p) /\ Trying(p)' => m = n + 1
<1> DEFINE A == {q \in Producers : Trying(q)}
           B == {q \in Producers : Trying(q)}'
<1>1. IsFiniteSet(Producers)
  BY MpmcAssumption
<1>2. IsFiniteSet(A) /\ IsFiniteSet(B)
  BY <1>1, FS_Subset
<1>3. Cardinality(A) \in Nat /\ Cardinality(B) \in Nat
  BY <1>2, FS_CardinalityType
<1>4. \A q \in Producers \ {p} : Trying(q)' = Trying(q)
  BY DEF Trying
<1>5. ASSUME Trying(p)' = Trying(p) PROVE B = A
  BY <1>4, <1>5
<1>6. ASSUME Trying(p), ~Trying(p)' PROVE B = A \ {p} /\ p \in A
  BY <1>4, <1>6
<1>7. ASSUME ~Trying(p), Trying(p)' PROVE B = A \cup {p} /\ p \notin A
  BY <1>4, <1>7
<1> HIDE DEF A, B
<1>8. Trying(p) /\ ~Trying(p)' => Cardinality(B) = Cardinality(A) - 1
  BY <1>2, <1>6, FS_RemoveElement
<1>9. ~Trying(p) /\ Trying(p)' => Cardinality(B) = Cardinality(A) + 1
  BY <1>2, <1>7, FS_AddElement
<1> QED
  BY <1>3, <1>5, <1>8, <1>9 DEF A, B

\* A producer that has not claimed leaves room to count its claim.
LEMMA CountRoom ==
    ASSUME IInv, NEW p \in Producers, Trying(p)
    PROVE  H + 1 <= pushes /\ H + 1 < Modulus
<1> DEFINE A == {q \in Producers : Trying(q)}
<1>1. IsFiniteSet(A) /\ p \in A
  <2>1. IsFiniteSet(Producers)
    BY MpmcAssumption
  <2> QED
    BY <2>1, FS_Subset
<1>2. Cardinality(A) \in Nat /\ Cardinality(A) # 0
  BY <1>1, FS_CardinalityType, FS_EmptySet
<1>3. H + Cardinality(A) <= pushes /\ H \in Int
  BY Types DEF IInv, CountInv
<1>4. pushes \in 0 .. MaxPush /\ MaxPush \in 0 .. Modulus - 1 /\ Modulus \in Int
  BY MpmcAssumption, Moduli DEF IInv, TypeOK
<1> HIDE DEF A
<1> QED
  BY <1>2, <1>3, <1>4

-----------------------------------------------------------------------------
(* Steps that touch neither the indices nor the sequence numbers *)

\* A producer moves without claiming or publishing.
LEMMA QuietProducer ==
    ASSUME IInv, NEW p \in Producers, NEW r \in Producer,
           prod' = [prod EXCEPT ![p] = r],
           UNCHANGED <<head, tail, sequences, cons>>,
           (r.pc \in {"write", "publish"}) = Writing(p),
           Writing(p) => r.head = prod[p].head,
           r.pc \in {"turn", "reload", "claim"} => Abs(r.head) <= H,
           r.pc = "claim" /\ r.head = head => sequences[Slot(head)] = head
    PROVE  OrderInv' /\ ProducerInv' /\ ConsumerInv' /\ SlotInv'
<1>1. TypeOK /\ OrderInv /\ ProducerInv /\ ConsumerInv /\ SlotInv
  BY DEF IInv
<1>2. prod'[p] = r /\ \A q \in Producers \ {p} : prod'[q] = prod[q]
  BY <1>1, Types
<1>3. H' = H /\ T' = T
  BY DEF H, T
<1>4. \A q \in Producers : Writing(q)' = Writing(q) /\ (Writing(q) => prod'[q].head = prod[q].head)
  BY <1>2 DEF Writing
<1>5. \A k : WriterAt(k)' = WriterAt(k) /\ ReaderAt(k)' = ReaderAt(k)
  BY <1>4 DEF WriterAt, ReaderAt, Reading
<1>6. OrderInv'
  BY <1>1, <1>3 DEF OrderInv
<1>7. ProducerInv'
  <2>1. \A q \in Producers : Writing(q)' => T' <= Abs(prod'[q].head) /\ Abs(prod'[q].head) < H'
    BY <1>1, <1>3, <1>4 DEF ProducerInv
  <2>2. \A q \in Producers : Trying(q)' => Abs(prod'[q].head) <= H'
    BY <1>1, <1>2, <1>3 DEF ProducerInv, Trying
  <2>3. \A q, s \in Producers :
          Writing(q)' /\ Writing(s)' /\ prod'[q].head = prod'[s].head => q = s
    BY <1>1, <1>4 DEF ProducerInv
  <2>4. \A q \in Producers :
          prod'[q].pc = "claim" /\ prod'[q].head = head' => sequences'[Slot(head')] = head'
    BY <1>1, <1>2 DEF ProducerInv
  <2> QED
    BY <2>1, <2>2, <2>3, <2>4 DEF ProducerInv
<1>8. ConsumerInv'
  BY <1>1, <1>3 DEF ConsumerInv, Reading, Asking
<1>9. SlotInv'
  BY <1>1, <1>3, <1>5 DEF SlotInv
<1> QED
  BY <1>6, <1>7, <1>8, <1>9

\* A consumer moves without claiming or freeing.
LEMMA QuietConsumer ==
    ASSUME IInv, NEW c \in Consumers, NEW r \in Consumer,
           cons' = [cons EXCEPT ![c] = r],
           UNCHANGED <<head, tail, sequences, prod>>,
           (r.pc \in {"read", "free"}) = Reading(c),
           Reading(c) => r.tail = cons[c].tail,
           r.pc \in {"turn", "reload", "claim"} => Abs(r.tail) <= T,
           r.pc = "claim" /\ r.tail = tail => sequences[Slot(tail)] = Plus(tail, 1)
    PROVE  OrderInv' /\ ProducerInv' /\ ConsumerInv' /\ SlotInv'
<1>1. TypeOK /\ OrderInv /\ ProducerInv /\ ConsumerInv /\ SlotInv
  BY DEF IInv
<1>2. cons'[c] = r /\ \A d \in Consumers \ {c} : cons'[d] = cons[d]
  BY <1>1, Types
<1>3. H' = H /\ T' = T
  BY DEF H, T
<1>4. \A d \in Consumers : Reading(d)' = Reading(d) /\ (Reading(d) => cons'[d].tail = cons[d].tail)
  BY <1>2 DEF Reading
<1>5. \A k : WriterAt(k)' = WriterAt(k) /\ ReaderAt(k)' = ReaderAt(k)
  BY <1>4 DEF WriterAt, ReaderAt, Writing
<1>6. OrderInv'
  BY <1>1, <1>3 DEF OrderInv
<1>7. ConsumerInv'
  <2>1. \A d \in Consumers : Reading(d)' => Abs(cons'[d].tail) < T' /\ H' <= Abs(cons'[d].tail) + N
    BY <1>1, <1>3, <1>4 DEF ConsumerInv
  <2>2. \A d \in Consumers : Asking(d)' => Abs(cons'[d].tail) <= T'
    BY <1>1, <1>2, <1>3 DEF ConsumerInv, Asking
  <2>3. \A d, e \in Consumers :
          Reading(d)' /\ Reading(e)' /\ cons'[d].tail = cons'[e].tail => d = e
    BY <1>1, <1>4 DEF ConsumerInv
  <2>4. \A d \in Consumers :
          cons'[d].pc = "claim" /\ cons'[d].tail = tail' => sequences'[Slot(tail')] = Plus(tail', 1)
    BY <1>1, <1>2 DEF ConsumerInv
  <2> QED
    BY <2>1, <2>2, <2>3, <2>4 DEF ConsumerInv
<1>8. ProducerInv'
  BY <1>1, <1>3 DEF ProducerInv, Writing, Trying
<1>9. SlotInv'
  BY <1>1, <1>3, <1>5 DEF SlotInv
<1> QED
  BY <1>6, <1>7, <1>8, <1>9

-----------------------------------------------------------------------------
(* try_push *)

\* A call that starts loads the current head, and is counted.
LEMMA TryPushStep ==
    ASSUME IInv, NEW p \in Producers, NEW v \in Values, try_push(p, v)
    PROVE  IInv'
<1> DEFINE r == [pc |-> "turn", head |-> head, item |-> v]
<1>1. /\ prod[p].pc = "idle" /\ pushes < MaxPush /\ pushes' = pushes + 1 /\ prod' = [prod EXCEPT ![p] = r]
      /\ UNCHANGED <<head, tail, sequences, buffer, cons, outcome, pops>>
  BY DEF try_push
<1>2. TypeOK /\ CountInv /\ head \in Index /\ prod \in [Producers -> Producer] /\ H \in Int
  BY Types DEF IInv
<1>3. r \in Producer
  BY <1>2 DEF Producer
<1>4. TypeOK'
  <2>1. pushes' \in 0 .. MaxPush
    BY <1>1, <1>2, MpmcAssumption DEF TypeOK
  <2>2. prod' \in [Producers -> Producer]
    BY <1>1, <1>2, <1>3
  <2> QED
    BY <1>1, <1>2, <2>1, <2>2 DEF TypeOK, Producer
<1>5. prod'[p] = r /\ \A q \in Producers \ {p} : prod'[q] = prod[q]
  BY <1>1, <1>2
<1>6. OrderInv' /\ ProducerInv' /\ ConsumerInv' /\ SlotInv'
  <2>1. (r.pc \in {"write", "publish"}) = Writing(p) /\ ~Writing(p) /\ r.pc # "claim"
    BY <1>1 DEF Writing
  <2>2. Abs(r.head) <= H
    BY <1>2 DEF H
  <2> HIDE DEF r
  <2> QED
    BY <1>1, <1>3, <2>1, <2>2, QuietProducer
<1>7. CountInv'
  <2>1. ~Trying(p) /\ Trying(p)'
    BY <1>1, <1>5 DEF Trying
  <2>2. H' = H
    BY <1>1 DEF H
  <2> DEFINE n == Cardinality({q \in Producers : Trying(q)})
             m == Cardinality({q \in Producers : Trying(q)}')
  <2>3. n \in Nat /\ m = n + 1
    BY <1>2, <1>5, <2>1, TryingStep
  <2>4. H + n <= pushes /\ pushes \in Int
    BY <1>2 DEF CountInv, TypeOK
  <2>5. m = (Cardinality({q \in Producers : Trying(q)}))'
    OBVIOUS
  <2> HIDE DEF n, m
  <2>6. H' + m <= pushes'
    BY <1>1, <1>2, <2>2, <2>3, <2>4
  <2> QED
    BY <2>5, <2>6 DEF CountInv
<1> QED
  BY <1>4, <1>6, <1>7 DEF IInv

\* A step of a producer in a call that claims nothing: the slot's turn, a reload, a lost
\* compare-and-swap, the write.
LEMMA QuietPush ==
    ASSUME IInv, NEW p \in Producers, NEW r \in Producer, r.pc # prod[p].pc,
           prod' = [prod EXCEPT ![p] = r], prod[p].pc # "idle", prod[p].pc # "publish",
           UNCHANGED <<head, tail, sequences, cons, pushes, pops>>,
           buffer' \in [0 .. N - 1 -> Values \cup {"uninit"}],
           (r.pc \in {"write", "publish"}) = Writing(p),
           Writing(p) => r.head = prod[p].head,
           r.pc \in {"turn", "reload", "claim"} => Abs(r.head) <= H,
           r.pc = "claim" /\ r.head = head => sequences[Slot(head)] = head
    PROVE  IInv'
<1>1. TypeOK /\ CountInv /\ prod \in [Producers -> Producer] /\ H \in Int
  BY Types DEF IInv
<1>2. prod'[p] = r /\ \A q \in Producers \ {p} : prod'[q] = prod[q]
  BY <1>1
<1>3. TypeOK'
  <2>1. prod' \in [Producers -> Producer]
    BY <1>1
  <2> QED
    BY <1>1, <2>1 DEF TypeOK, Producer
<1>4. OrderInv' /\ ProducerInv' /\ ConsumerInv' /\ SlotInv'
  BY QuietProducer
<1>5. CountInv'
  <2>1. Trying(p)' => Trying(p)
    BY <1>1, <1>2 DEF Trying, Writing, Producer
  <2>2. H' = H
    BY DEF H
  <2> DEFINE n == Cardinality({q \in Producers : Trying(q)})
             m == Cardinality({q \in Producers : Trying(q)}')
  <2>3. n \in Nat /\ m \in Nat /\ m <= n
    <3>1. /\ n \in Nat /\ m \in Nat
          /\ Trying(p)' = Trying(p) => m = n
          /\ Trying(p) /\ ~Trying(p)' => m = n - 1
      BY <1>1, <1>2, TryingStep
    <3>2. Trying(p)' \in BOOLEAN /\ Trying(p) \in BOOLEAN
      BY DEF Trying
    <3> HIDE DEF n, m
    <3> QED
      BY <2>1, <3>1, <3>2
  <2>4. H + n <= pushes /\ pushes \in Int
    BY <1>1 DEF CountInv, TypeOK
  <2>5. m = (Cardinality({q \in Producers : Trying(q)}))'
    OBVIOUS
  <2> HIDE DEF n, m
  <2>6. H' + m <= pushes'
    BY <1>1, <2>2, <2>3, <2>4
  <2> QED
    BY <2>5, <2>6 DEF CountInv
<1> QED
  BY <1>3, <1>4, <1>5 DEF IInv

\* Loading the slot's sequence number: a turn found at the current head is the slot's.
LEMMA PushTurnStep ==
    ASSUME IInv, NEW p \in Producers, push_turn(p)
    PROVE  IInv'
<1> DEFINE diff == Diff(sequences[Slot(prod[p].head)], prod[p].head)
           to == IF diff = 0 THEN "claim" ELSE IF diff < 0 THEN "idle" ELSE "reload"
           r == [prod[p] EXCEPT !.pc = to]
<1>1. prod[p].pc = "turn" /\ UNCHANGED <<head, tail, sequences, buffer, cons, pushes, pops>>
  BY DEF push_turn
<1>2. prod' = [prod EXCEPT ![p] = r]
  BY DEF push_turn
<1>3. TypeOK /\ ProducerInv /\ prod[p] \in Producer /\ prod[p].head \in Index /\ head \in Index
  BY Types DEF IInv
<1>4. to \in {"claim", "idle", "reload"} /\ (to = "claim" => diff = 0)
  OBVIOUS
<1> HIDE DEF to
<1>5. r \in Producer /\ r.pc = to /\ r.head = prod[p].head
  BY <1>3, <1>4 DEF Producer
<1>6. Abs(r.head) <= H
  BY <1>1, <1>3, <1>5 DEF ProducerInv, Trying
<1>7. r.pc = "claim" /\ r.head = head => sequences[Slot(head)] = head
  <2> SUFFICES ASSUME to = "claim", prod[p].head = head PROVE sequences[Slot(head)] = head
    BY <1>5
  <2>1. Slot(head) \in 0 .. N - 1
    BY <1>3, RingTypes
  <2>2. sequences[Slot(head)] \in Index
    BY <1>3, <2>1 DEF TypeOK
  <2>3. Diff(sequences[Slot(head)], head) = 0
    BY <1>4
  <2> QED
    BY <1>3, <2>2, <2>3, DiffZero
<1>8. (r.pc \in {"write", "publish"}) = Writing(p) /\ ~Writing(p)
  BY <1>1, <1>4, <1>5 DEF Writing
<1>9. buffer' \in [0 .. N - 1 -> Values \cup {"uninit"}] /\ r.pc # prod[p].pc
  BY <1>1, <1>3, <1>4, <1>5 DEF TypeOK
<1> HIDE DEF r
<1> QED
  BY <1>1, <1>2, <1>5, <1>6, <1>7, <1>8, <1>9, QuietPush

\* Loading the head again, after somebody else's turn or a lost compare-and-swap.
LEMMA PushReloadStep ==
    ASSUME IInv, NEW p \in Producers,
           \/ push_reload(p)
           \/ push_claim(p) /\ head # prod[p].head
    PROVE  IInv'
<1> DEFINE r == [prod[p] EXCEPT !.pc = "turn", !.head = head]
<1>1. /\ prod[p].pc \in {"reload", "claim"} /\ UNCHANGED <<head, tail, sequences, buffer, cons, pushes, pops>>
      /\ prod' = [prod EXCEPT ![p] = r]
  BY DEF push_reload, push_claim
<1>2. TypeOK /\ prod[p] \in Producer /\ head \in Index /\ H \in Int
  BY Types DEF IInv
<1>3. r \in Producer /\ r.pc = "turn" /\ r.head = head
  BY <1>2 DEF Producer
<1>4. Abs(r.head) <= H
  BY <1>2, <1>3 DEF H
<1>5. (r.pc \in {"write", "publish"}) = Writing(p) /\ ~Writing(p)
  BY <1>1, <1>3 DEF Writing
<1>6. buffer' \in [0 .. N - 1 -> Values \cup {"uninit"}] /\ r.pc # prod[p].pc
  BY <1>1, <1>2, <1>3 DEF TypeOK
<1> HIDE DEF r
<1> QED
  BY <1>1, <1>3, <1>4, <1>5, <1>6, QuietPush

\* Writing the slot changes nobody's turn.
LEMMA PushWriteStep ==
    ASSUME IInv, NEW p \in Producers, push_write(p)
    PROVE  IInv'
<1> DEFINE r == [prod[p] EXCEPT !.pc = "publish"]
<1>1. /\ prod[p].pc = "write" /\ UNCHANGED <<head, tail, sequences, cons, pushes, pops>>
      /\ prod' = [prod EXCEPT ![p] = r]
      /\ buffer' = [buffer EXCEPT ![Slot(prod[p].head)] = prod[p].item]
  BY DEF push_write
<1>2. TypeOK /\ prod[p] \in Producer
  BY Types DEF IInv
<1>3. r \in Producer /\ r.pc = "publish" /\ r.head = prod[p].head
  BY <1>2 DEF Producer
<1>4. (r.pc \in {"write", "publish"}) = Writing(p)
  BY <1>1, <1>3 DEF Writing
<1>5. buffer' \in [0 .. N - 1 -> Values \cup {"uninit"}]
  BY <1>1, <1>2 DEF TypeOK, Producer
<1> HIDE DEF r
<1> QED
  BY <1>1, <1>3, <1>4, <1>5, QuietPush

\* The compare-and-swap that succeeds: the position is the producer's alone.
LEMMA PushClaimStep ==
    ASSUME N > 1, IInv, NEW p \in Producers, push_claim(p), head = prod[p].head
    PROVE  IInv' /\ H' = H + 1 /\ T' = T /\ H < T + N
<1> DEFINE r == [prod[p] EXCEPT !.pc = "write"]
<1>1. /\ prod[p].pc = "claim" /\ UNCHANGED <<tail, sequences, buffer, cons, pushes, pops>>
      /\ head' = Plus(head, 1) /\ prod' = [prod EXCEPT ![p] = r]
  BY DEF push_claim
<1>2. TypeOK /\ CountInv /\ OrderInv /\ ProducerInv /\ ConsumerInv /\ SlotInv
  BY DEF IInv
<1>3. /\ prod[p] \in Producer /\ prod \in [Producers -> Producer] /\ head \in Index
      /\ H \in Int /\ T \in Int /\ At(H) = head /\ Slot(head) = Place(H) /\ N \in Int
      /\ \A q \in Producers : prod[q].head \in Index /\ Abs(prod[q].head) \in Int
      /\ \A c \in Consumers : Abs(cons[c].tail) \in Int
  BY <1>2, Types, Moduli
<1>4. r \in Producer /\ r.pc = "write" /\ r.head = head
  BY <1>3 DEF Producer
<1>5. prod'[p] = r /\ \A q \in Producers \ {p} : prod'[q] = prod[q]
  BY <1>1, <1>3
<1> HIDE DEF r
<1>6. H + 1 < Modulus /\ H + 1 <= pushes
  BY <1>1, CountRoom DEF Trying
<1>7. head' \in Index /\ H' = H + 1 /\ T' = T
  BY <1>1, <1>3, <1>6, SlotAbs DEF H, T
<1>8. sequences[Slot(head)] = head /\ H < T + N /\ ~ReaderAt(H - N)
  <2>1. sequences[Slot(head)] = head
    BY <1>1, <1>2 DEF ProducerInv
  <2> QED
    BY <1>2, <2>1, FreeHead
<1>9. TypeOK'
  <2>1. prod' \in [Producers -> Producer]
    BY <1>1, <1>3, <1>4
  <2> QED
    BY <1>1, <1>2, <1>7, <2>1 DEF TypeOK, Producer
<1>10. CountInv'
  <2>1. Trying(p) /\ ~Trying(p)'
    BY <1>1, <1>4, <1>5 DEF Trying
  <2> DEFINE n == Cardinality({q \in Producers : Trying(q)})
             m == Cardinality({q \in Producers : Trying(q)}')
  <2>2. n \in Nat /\ m = n - 1
    BY <1>2, <1>5, <2>1, TryingStep
  <2>3. H + n <= pushes /\ pushes \in Int
    BY <1>2 DEF CountInv, TypeOK
  <2>4. m = (Cardinality({q \in Producers : Trying(q)}))'
    OBVIOUS
  <2> HIDE DEF n, m
  <2>5. H' + m <= pushes'
    BY <1>1, <1>3, <1>7, <2>2, <2>3
  <2> QED
    BY <2>4, <2>5 DEF CountInv
<1>11. OrderInv'
  BY <1>2, <1>3, <1>7, <1>8 DEF OrderInv
<1>12. Writing(p)' /\ ~Writing(p) /\ Abs(prod'[p].head) = H /\ ~Trying(p)'
  BY <1>1, <1>4, <1>5 DEF Writing, H, Trying
<1>13. \A q \in Producers \ {p} : /\ Writing(q)' = Writing(q) /\ Trying(q)' = Trying(q)
                                  /\ prod'[q].head = prod[q].head
  BY <1>5 DEF Writing, Trying
<1>14. ProducerInv'
  <2>1. \A q \in Producers : Writing(q)' => T' <= Abs(prod'[q].head) /\ Abs(prod'[q].head) < H'
    <3>1. H < H' /\ T <= H /\ H' \in Int
      BY <1>2, <1>3, <1>7 DEF OrderInv
    <3>2. ASSUME NEW q \in Producers \ {p}, Writing(q)
          PROVE  T <= Abs(prod[q].head) /\ Abs(prod[q].head) < H'
      <4>1. T <= Abs(prod[q].head) /\ Abs(prod[q].head) < H
        BY <1>2, <3>2 DEF ProducerInv
      <4> QED
        BY <1>3, <3>1, <4>1
    <3> QED
      BY <1>7, <1>12, <1>13, <3>1, <3>2
  <2>2. \A q \in Producers : Trying(q)' => Abs(prod'[q].head) <= H'
    <3>1. ASSUME NEW q \in Producers \ {p}, Trying(q)
          PROVE  Abs(prod[q].head) <= H + 1
      <4>1. Abs(prod[q].head) <= H
        BY <1>2, <3>1 DEF ProducerInv
      <4> QED
        BY <1>3, <4>1
    <3> QED
      BY <1>7, <1>12, <1>13, <3>1
  <2>3. \A q, s \in Producers :
          Writing(q)' /\ Writing(s)' /\ prod'[q].head = prod'[s].head => q = s
    <3>1. \A q \in Producers \ {p} : Writing(q)' => prod'[q].head # prod'[p].head
      <4>1. ASSUME NEW q \in Producers \ {p}, Writing(q) PROVE Abs(prod[q].head) # H
        <5>1. Abs(prod[q].head) < H
          BY <1>2, <4>1 DEF ProducerInv
        <5> QED
          BY <1>3, <5>1
      <4> QED
        BY <1>12, <1>13, <4>1
    <3> QED
      BY <1>2, <1>13, <3>1 DEF ProducerInv
  <2>4. \A q \in Producers :
          prod'[q].pc = "claim" /\ prod'[q].head = head' => sequences'[Slot(head')] = head'
    <3>1. ASSUME NEW q \in Producers \ {p}, prod[q].pc = "claim", prod[q].head = head' PROVE FALSE
      <4>1. Abs(prod[q].head) <= H
        BY <1>2, <3>1 DEF ProducerInv, Trying
      <4>2. Abs(prod[q].head) = H + 1
        BY <1>7, <3>1 DEF H
      <4> QED
        BY <1>3, <4>1, <4>2
    <3> QED
      BY <1>4, <1>5, <3>1
  <2> QED
    BY <2>1, <2>2, <2>3, <2>4 DEF ProducerInv
<1>15. ConsumerInv'
  <2>1. \A c \in Consumers : Reading(c) => Abs(cons[c].tail) < T /\ H + 1 <= Abs(cons[c].tail) + N
    <3> SUFFICES ASSUME NEW c \in Consumers, Reading(c)
                 PROVE  Abs(cons[c].tail) < T /\ H + 1 <= Abs(cons[c].tail) + N
      OBVIOUS
    <3>1. Abs(cons[c].tail) < T /\ H <= Abs(cons[c].tail) + N
      BY <1>2 DEF ConsumerInv
    <3>2. Abs(cons[c].tail) # H - N
      BY <1>8 DEF ReaderAt
    <3> QED
      BY <1>3, <3>1, <3>2
  <2> QED
    BY <1>1, <1>2, <1>7, <2>1 DEF ConsumerInv, Reading, Asking
<1>16. SlotInv'
  <2>1. \A k : ReaderAt(k)' = ReaderAt(k)
    BY <1>1 DEF ReaderAt, Reading
  <2>2. \A k : k # H => WriterAt(k)' = WriterAt(k)
    BY <1>12, <1>13 DEF WriterAt
  <2>3. \A k : k = H => WriterAt(k)'
    BY <1>12 DEF WriterAt
  <2>4. ASSUME NEW k \in T' .. H' - 1
        PROVE  sequences'[Place(k)] = IF WriterAt(k)' THEN At(k) ELSE At(k + 1)
    <3>1. CASE k = H
      BY <1>1, <1>3, <1>8, <2>3, <3>1
    <3>2. CASE k # H
      <4>1. k \in T .. H - 1
        BY <1>3, <1>7, <3>2
      <4> QED
        BY <1>1, <1>2, <2>2, <3>2, <4>1 DEF SlotInv
    <3> QED
      BY <3>1, <3>2
  <2>5. ASSUME NEW k \in H' .. T' + N - 1
        PROVE  sequences'[Place(k)] = IF ReaderAt(k - N)' THEN At(k - N + 1) ELSE At(k)
    <3>1. k \in H .. T + N - 1
      BY <1>3, <1>7
    <3>2. ReaderAt(k - N)' = ReaderAt(k - N)
      BY <2>1
    <3> QED
      BY <1>1, <1>2, <3>1, <3>2 DEF SlotInv
  <2> QED
    BY <2>4, <2>5 DEF SlotInv
<1> QED
  BY <1>7, <1>8, <1>9, <1>10, <1>11, <1>14, <1>15, <1>16 DEF IInv

\* The release of the slot to the consumers.
LEMMA PushPublishStep ==
    ASSUME N > 1, IInv, NEW p \in Producers, push_publish(p)
    PROVE  IInv'
<1> DEFINE r == [prod[p] EXCEPT !.pc = "idle"]
           a == Abs(prod[p].head)
<1>1. /\ prod[p].pc = "publish" /\ UNCHANGED <<head, tail, buffer, cons, pushes, pops>>
      /\ prod' = [prod EXCEPT ![p] = r]
      /\ sequences' = [sequences EXCEPT ![Slot(prod[p].head)] = Plus(prod[p].head, 1)]
  BY DEF push_publish
<1>2. TypeOK /\ CountInv /\ OrderInv /\ ProducerInv /\ ConsumerInv /\ SlotInv
  BY DEF IInv
<1>3. /\ prod[p] \in Producer /\ prod \in [Producers -> Producer] /\ prod[p].head \in Index
      /\ H \in Int /\ T \in Int /\ Slot(head) = Place(H) /\ Slot(tail) = Place(T) /\ N \in Int
      /\ a \in Int /\ \A q \in Producers : prod[q].head \in Index
      /\ sequences \in [0 .. N - 1 -> Index]
  BY <1>2, Types, Moduli
<1>4. r \in Producer /\ r.pc = "idle"
  BY <1>3 DEF Producer
<1>5. prod'[p] = r /\ \A q \in Producers \ {p} : prod'[q] = prod[q]
  BY <1>1, <1>3
<1> HIDE DEF r
<1>6. Writing(p) /\ T <= a /\ a < H /\ T <= H /\ H <= T + N
  BY <1>1, <1>2 DEF Writing, ProducerInv, OrderInv
<1>7. /\ Slot(prod[p].head) = Place(a) /\ Plus(prod[p].head, 1) = At(a + 1)
      /\ Plus(prod[p].head, 1) \in Index /\ Place(a) \in 0 .. N - 1
  <2>1. 1 \in Int
    OBVIOUS
  <2>2. /\ Slot(prod[p].head) = Place(a) /\ \A j \in Int : Plus(prod[p].head, j) = At(a + j)
        /\ Plus(prod[p].head, 1) \in Index
    BY <1>3, SlotAbs
  <2>3. Place(a) \in 0 .. N - 1
    BY <1>3, RingTypes
  <2> QED
    BY <2>1, <2>2, <2>3
<1>8. H' = H /\ T' = T
  BY <1>1 DEF H, T
<1>9. TypeOK'
  <2>1. prod' \in [Producers -> Producer]
    BY <1>1, <1>3, <1>4
  <2>2. sequences' \in [0 .. N - 1 -> Index]
    BY <1>1, <1>3, <1>7
  <2> QED
    BY <1>1, <1>2, <2>1, <2>2 DEF TypeOK, Producer
<1>10. CountInv'
  <2>1. Trying(p)' = Trying(p)
    BY <1>1, <1>4, <1>5 DEF Trying
  <2>2. Cardinality({q \in Producers : Trying(q)}') = Cardinality({q \in Producers : Trying(q)})
    BY <1>2, <1>5, <2>1, TryingStep
  <2> QED
    BY <1>1, <1>2, <1>8, <2>2 DEF CountInv
<1> HIDE DEF a
<1>11. /\ sequences'[Place(a)] = At(a + 1)
       /\ \A k \in T .. T + N - 1 : k # a => sequences'[Place(k)] = sequences[Place(k)]
  <2>1. sequences'[Place(a)] = At(a + 1)
    BY <1>1, <1>3, <1>7
  <2>2. ASSUME NEW k \in T .. T + N - 1, k # a PROVE sequences'[Place(k)] = sequences[Place(k)]
    <3>1. k \in Int /\ k - a < N /\ a - k < N
      BY <1>3, <1>6
    <3>2. Place(k) # Place(a) /\ Place(k) \in 0 .. N - 1
      BY <1>3, <2>2, <3>1, PlaceDiffers, RingTypes
    <3> QED
      BY <1>1, <1>3, <1>7, <3>2
  <2> QED
    BY <2>1, <2>2
<1>12. \A k : ReaderAt(k)' = ReaderAt(k)
  BY <1>1 DEF ReaderAt, Reading
<1>13. ~Writing(p)' /\ ~Trying(p)' /\ \A q \in Producers \ {p} : /\ Writing(q)' = Writing(q) /\ Trying(q)' = Trying(q)
                                                /\ prod'[q].head = prod[q].head
  BY <1>4, <1>5 DEF Writing, Trying
<1>14. \A k : WriterAt(k)' = (WriterAt(k) /\ k # a)
  <2>1. \A q \in Producers : Writing(q) /\ Abs(prod[q].head) = a => q = p
    <3> SUFFICES ASSUME NEW q \in Producers, Writing(q), Abs(prod[q].head) = a PROVE q = p
      OBVIOUS
    <3>1. prod[q].head = prod[p].head
      BY <1>3, AbsDiffers DEF a
    <3> QED
      BY <1>2, <1>6, <3>1 DEF ProducerInv
  <2>2. Abs(prod[p].head) = a
    BY DEF a
  <2> QED
    BY <1>13, <2>1, <2>2 DEF WriterAt
<1>15. ProducerInv'
  <2>1. \A q \in Producers :
          prod'[q].pc = "claim" /\ prod'[q].head = head' => sequences'[Slot(head')] = head'
    <3> SUFFICES ASSUME NEW q \in Producers, prod'[q].pc = "claim", prod'[q].head = head'
                 PROVE  sequences'[Slot(head')] = head'
      OBVIOUS
    <3>1. q # p /\ prod[q].pc = "claim" /\ prod[q].head = head
      BY <1>1, <1>4, <1>5
    <3>2. sequences[Slot(head)] = head
      BY <1>2, <3>1 DEF ProducerInv
    <3>3. H < T + N
      BY <1>2, <3>2, FreeHead
    <3>4. H \in T .. T + N - 1 /\ H # a
      BY <1>3, <1>6, <3>3
    <3>5. sequences'[Place(H)] = sequences[Place(H)]
      BY <1>11, <3>4
    <3> QED
      BY <1>1, <1>3, <3>2, <3>5
  <2> QED
    BY <1>2, <1>8, <1>13, <2>1 DEF ProducerInv
<1>16. ConsumerInv'
  <2>1. \A c \in Consumers :
          cons'[c].pc = "claim" /\ cons'[c].tail = tail' => sequences'[Slot(tail')] = Plus(tail', 1)
    <3> SUFFICES ASSUME NEW c \in Consumers, cons[c].pc = "claim", cons[c].tail = tail
                 PROVE  sequences'[Slot(tail)] = Plus(tail, 1)
      BY <1>1
    <3>1. sequences[Slot(tail)] = Plus(tail, 1)
      BY <1>2 DEF ConsumerInv
    <3>2. ~WriterAt(T)
      BY <1>2, <3>1, ReadyTail
    <3>3. T # a
      BY <1>6, <3>2 DEF WriterAt, a
    <3>4. T \in T .. T + N - 1
      BY <1>3, Moduli
    <3>5. sequences'[Place(T)] = sequences[Place(T)]
      BY <1>11, <3>3, <3>4
    <3> QED
      BY <1>3, <3>1, <3>5
  <2> QED
    BY <1>1, <1>2, <1>8, <2>1 DEF ConsumerInv, Reading, Asking
<1>17. SlotInv'
  <2>1. ASSUME NEW k \in T .. H - 1
        PROVE  sequences'[Place(k)] = IF WriterAt(k)' THEN At(k) ELSE At(k + 1)
    <3>1. CASE k = a
      BY <1>11, <1>14, <3>1
    <3>2. CASE k # a
      <4>1. k \in T .. T + N - 1
        BY <1>3, <1>6
      <4> QED
        BY <1>2, <1>11, <1>14, <3>2, <4>1 DEF SlotInv
    <3> QED
      BY <3>1, <3>2
  <2>2. ASSUME NEW k \in H .. T + N - 1
        PROVE  sequences'[Place(k)] = IF ReaderAt(k - N)' THEN At(k - N + 1) ELSE At(k)
    <3>1. k \in T .. T + N - 1 /\ k # a
      BY <1>3, <1>6
    <3>2. ReaderAt(k - N)' = ReaderAt(k - N)
      BY <1>12
    <3> QED
      BY <1>2, <1>11, <3>1, <3>2 DEF SlotInv
  <2> QED
    BY <1>8, <2>1, <2>2 DEF SlotInv
<1> QED
  BY <1>2, <1>8, <1>9, <1>10, <1>15, <1>16, <1>17 DEF IInv, OrderInv

-----------------------------------------------------------------------------
(* try_pop *)

\* A step of a consumer that claims and frees nothing.
LEMMA QuietPop ==
    ASSUME IInv, NEW c \in Consumers, NEW r \in Consumer,
           cons' = [cons EXCEPT ![c] = r],
           UNCHANGED <<head, tail, sequences, buffer, prod, pushes>>,
           pops' \in 0 .. MaxPop,
           (r.pc \in {"read", "free"}) = Reading(c),
           Reading(c) => r.tail = cons[c].tail,
           r.pc \in {"turn", "reload", "claim"} => Abs(r.tail) <= T,
           r.pc = "claim" /\ r.tail = tail => sequences[Slot(tail)] = Plus(tail, 1)
    PROVE  IInv'
<1>1. TypeOK /\ CountInv /\ cons \in [Consumers -> Consumer]
  BY Types DEF IInv
<1>2. TypeOK'
  <2>1. cons' \in [Consumers -> Consumer]
    BY <1>1
  <2> QED
    BY <1>1, <2>1 DEF TypeOK, Consumer
<1>3. OrderInv' /\ ProducerInv' /\ ConsumerInv' /\ SlotInv'
  BY QuietConsumer
<1>4. CountInv'
  BY <1>1 DEF CountInv, H, Trying
<1> QED
  BY <1>2, <1>3, <1>4 DEF IInv

\* A call that starts loads the current tail.
LEMMA TryPopStep ==
    ASSUME IInv, NEW c \in Consumers, try_pop(c)
    PROVE  IInv'
<1> DEFINE r == [cons[c] EXCEPT !.pc = "turn", !.tail = tail]
<1>1. /\ cons[c].pc = "idle" /\ pops < MaxPop /\ pops' = pops + 1 /\ cons' = [cons EXCEPT ![c] = r]
      /\ UNCHANGED <<head, tail, sequences, buffer, prod, outcome, pushes>>
  BY DEF try_pop
<1>2. TypeOK /\ cons[c] \in Consumer /\ tail \in Index /\ T \in Int
  BY Types DEF IInv
<1>3. r \in Consumer /\ r.pc = "turn" /\ r.tail = tail
  BY <1>2 DEF Consumer
<1>4. pops' \in 0 .. MaxPop
  BY <1>1, <1>2, MpmcAssumption DEF TypeOK
<1>5. (r.pc \in {"read", "free"}) = Reading(c) /\ ~Reading(c) /\ Abs(r.tail) <= T
  BY <1>1, <1>2, <1>3 DEF Reading, T
<1> HIDE DEF r
<1> QED
  BY <1>1, <1>3, <1>4, <1>5, QuietPop

\* Loading the slot's sequence number: a turn found at the current tail is an item.
LEMMA PopTurnStep ==
    ASSUME IInv, NEW c \in Consumers, pop_turn(c)
    PROVE  IInv'
<1> DEFINE diff == Diff(sequences[Slot(cons[c].tail)], Plus(cons[c].tail, 1))
           to == IF diff = 0 THEN "claim" ELSE IF diff < 0 THEN "idle" ELSE "reload"
           r == [cons[c] EXCEPT !.pc = to]
<1>1. cons[c].pc = "turn" /\ UNCHANGED <<head, tail, sequences, buffer, prod, pushes, pops>>
  BY DEF pop_turn
<1>2. cons' = [cons EXCEPT ![c] = r]
  BY DEF pop_turn
<1>3. TypeOK /\ ConsumerInv /\ cons[c] \in Consumer /\ cons[c].tail \in Index /\ tail \in Index
  BY Types DEF IInv
<1>4. to \in {"claim", "idle", "reload"} /\ (to = "claim" => diff = 0)
  OBVIOUS
<1> HIDE DEF to
<1>5. r \in Consumer /\ r.pc = to /\ r.tail = cons[c].tail
  BY <1>3, <1>4 DEF Consumer
<1>6. Abs(r.tail) <= T
  BY <1>1, <1>3, <1>5 DEF ConsumerInv, Asking
<1>7. r.pc = "claim" /\ r.tail = tail => sequences[Slot(tail)] = Plus(tail, 1)
  <2> SUFFICES ASSUME to = "claim", cons[c].tail = tail PROVE sequences[Slot(tail)] = Plus(tail, 1)
    BY <1>5
  <2>1. Slot(tail) \in 0 .. N - 1 /\ Plus(tail, 1) \in Index
    BY <1>3, RingTypes, SlotAbs
  <2>2. sequences[Slot(tail)] \in Index
    BY <1>3, <2>1 DEF TypeOK
  <2>3. Diff(sequences[Slot(tail)], Plus(tail, 1)) = 0
    BY <1>4
  <2> QED
    BY <2>1, <2>2, <2>3, DiffZero
<1>8. (r.pc \in {"read", "free"}) = Reading(c) /\ ~Reading(c) /\ pops' \in 0 .. MaxPop
  BY <1>1, <1>3, <1>4, <1>5 DEF Reading, TypeOK
<1> HIDE DEF r
<1> QED
  BY <1>1, <1>2, <1>5, <1>6, <1>7, <1>8, QuietPop

\* Loading the tail again, after somebody else's turn or a lost compare-and-swap.
LEMMA PopReloadStep ==
    ASSUME IInv, NEW c \in Consumers,
           \/ pop_reload(c)
           \/ pop_claim(c) /\ tail # cons[c].tail
    PROVE  IInv'
<1> DEFINE r == [cons[c] EXCEPT !.pc = "turn", !.tail = tail]
<1>1. /\ cons[c].pc \in {"reload", "claim"} /\ UNCHANGED <<head, tail, sequences, buffer, prod, pushes, pops>>
      /\ cons' = [cons EXCEPT ![c] = r]
  BY DEF pop_reload, pop_claim
<1>2. TypeOK /\ cons[c] \in Consumer /\ tail \in Index /\ T \in Int
  BY Types DEF IInv
<1>3. r \in Consumer /\ r.pc = "turn" /\ r.tail = tail
  BY <1>2 DEF Consumer
<1>4. (r.pc \in {"read", "free"}) = Reading(c) /\ ~Reading(c) /\ Abs(r.tail) <= T /\ pops' \in 0 .. MaxPop
  BY <1>1, <1>2, <1>3 DEF Reading, T, TypeOK
<1> HIDE DEF r
<1> QED
  BY <1>1, <1>3, <1>4, QuietPop

\* Reading the slot changes nobody's turn.
LEMMA PopReadStep ==
    ASSUME IInv, NEW c \in Consumers, pop_read(c)
    PROVE  IInv'
<1> DEFINE b == buffer[Slot(cons[c].tail)]
           r == [cons[c] EXCEPT !.pc = "free", !.item = b]
<1>1. /\ cons[c].pc = "read" /\ UNCHANGED <<head, tail, sequences, buffer, prod, pushes, pops>>
      /\ cons' = [cons EXCEPT ![c] = r]
  BY DEF pop_read
<1>2. TypeOK /\ cons[c] \in Consumer /\ cons[c].tail \in Index
  BY Types DEF IInv
<1>3. b \in Values \cup {"uninit"}
  BY <1>2, RingTypes DEF TypeOK
<1> HIDE DEF b
<1>4. r \in Consumer /\ r.pc = "free" /\ r.tail = cons[c].tail
  BY <1>2, <1>3 DEF Consumer
<1>5. (r.pc \in {"read", "free"}) = Reading(c) /\ pops' \in 0 .. MaxPop
  BY <1>1, <1>2, <1>4 DEF Reading, TypeOK
<1> HIDE DEF r
<1> QED
  BY <1>1, <1>4, <1>5, QuietPop

\* The compare-and-swap that succeeds: the item is the consumer's alone.
LEMMA PopClaimStep ==
    ASSUME IInv, NEW c \in Consumers, pop_claim(c), tail = cons[c].tail
    PROVE  IInv' /\ H' = H /\ T' = T + 1 /\ T < H /\ ~WriterAt(T)
<1> DEFINE r == [cons[c] EXCEPT !.pc = "read"]
<1>1. /\ cons[c].pc = "claim" /\ UNCHANGED <<head, sequences, buffer, prod, pushes, pops>>
      /\ tail' = Plus(tail, 1) /\ cons' = [cons EXCEPT ![c] = r]
  BY DEF pop_claim
<1>2. TypeOK /\ CountInv /\ OrderInv /\ ProducerInv /\ ConsumerInv /\ SlotInv
  BY DEF IInv
<1>3. /\ cons[c] \in Consumer /\ cons \in [Consumers -> Consumer] /\ tail \in Index
      /\ H \in Int /\ T \in Int /\ H \in Index /\ At(T) = tail /\ Slot(tail) = Place(T) /\ N \in Int
      /\ N > 0 /\ Modulus \in Int
      /\ \A d \in Consumers : cons[d].tail \in Index /\ Abs(cons[d].tail) \in Int
      /\ \A q \in Producers : Abs(prod[q].head) \in Int
  BY <1>2, Types, Moduli
<1>4. r \in Consumer /\ r.pc = "read" /\ r.tail = tail
  BY <1>3 DEF Consumer
<1>5. cons'[c] = r /\ \A d \in Consumers \ {c} : cons'[d] = cons[d]
  BY <1>1, <1>3
<1> HIDE DEF r
<1>6. sequences[Slot(tail)] = Plus(tail, 1) /\ T < H /\ ~WriterAt(T)
  <2>1. sequences[Slot(tail)] = Plus(tail, 1)
    BY <1>1, <1>2 DEF ConsumerInv
  <2> QED
    BY <1>2, <2>1, ReadyTail
<1>7. tail' \in Index /\ H' = H /\ T' = T + 1
  <2>1. T + 1 < Modulus
    BY <1>3, <1>6 DEF Index
  <2> QED
    BY <1>1, <1>3, <2>1, SlotAbs DEF H, T
<1>8. Plus(tail, 1) = At(T + 1)
  <2>1. 1 \in Int
    OBVIOUS
  <2> QED
    BY <1>3, <2>1, SlotAbs DEF T
<1>9. TypeOK'
  <2>1. cons' \in [Consumers -> Consumer]
    BY <1>1, <1>3, <1>4
  <2> QED
    BY <1>1, <1>2, <1>7, <2>1 DEF TypeOK, Consumer
<1>10. CountInv'
  BY <1>1, <1>2, <1>7 DEF CountInv, Trying
<1>11. OrderInv'
  BY <1>2, <1>3, <1>6, <1>7 DEF OrderInv
<1>12. Reading(c)' /\ ~Reading(c) /\ Abs(cons'[c].tail) = T /\ ~Asking(c)'
  BY <1>1, <1>4, <1>5 DEF Reading, T, Asking
<1>13. \A d \in Consumers \ {c} : /\ Reading(d)' = Reading(d) /\ Asking(d)' = Asking(d)
                                  /\ cons'[d].tail = cons[d].tail
  BY <1>5 DEF Reading, Asking
<1>14. ConsumerInv'
  <2>1. \A d \in Consumers : Reading(d)' => Abs(cons'[d].tail) < T' /\ H' <= Abs(cons'[d].tail) + N
    <3>1. T < T' /\ H <= T + N /\ T' \in Int
      BY <1>2, <1>3, <1>7 DEF OrderInv
    <3>2. ASSUME NEW d \in Consumers \ {c}, Reading(d)
          PROVE  Abs(cons[d].tail) < T' /\ H <= Abs(cons[d].tail) + N
      <4>1. Abs(cons[d].tail) < T /\ H <= Abs(cons[d].tail) + N
        BY <1>2, <3>2 DEF ConsumerInv
      <4> QED
        BY <1>3, <3>1, <4>1
    <3> QED
      BY <1>7, <1>12, <1>13, <3>1, <3>2
  <2>2. \A d \in Consumers : Asking(d)' => Abs(cons'[d].tail) <= T'
    <3>1. ASSUME NEW d \in Consumers \ {c}, Asking(d)
          PROVE  Abs(cons[d].tail) <= T + 1
      <4>1. Abs(cons[d].tail) <= T
        BY <1>2, <3>1 DEF ConsumerInv
      <4> QED
        BY <1>3, <4>1
    <3> QED
      BY <1>7, <1>12, <1>13, <3>1
  <2>3. \A d, e \in Consumers :
          Reading(d)' /\ Reading(e)' /\ cons'[d].tail = cons'[e].tail => d = e
    <3>1. \A d \in Consumers \ {c} : Reading(d)' => cons'[d].tail # cons'[c].tail
      <4>1. ASSUME NEW d \in Consumers \ {c}, Reading(d) PROVE Abs(cons[d].tail) # T
        <5>1. Abs(cons[d].tail) < T
          BY <1>2, <4>1 DEF ConsumerInv
        <5> QED
          BY <1>3, <5>1
      <4> QED
        BY <1>12, <1>13, <4>1
    <3> QED
      BY <1>2, <1>13, <3>1 DEF ConsumerInv
  <2>4. \A d \in Consumers :
          cons'[d].pc = "claim" /\ cons'[d].tail = tail' => sequences'[Slot(tail')] = Plus(tail', 1)
    <3>1. ASSUME NEW d \in Consumers \ {c}, cons[d].pc = "claim", cons[d].tail = tail' PROVE FALSE
      <4>1. Abs(cons[d].tail) <= T
        BY <1>2, <3>1 DEF ConsumerInv, Asking
      <4>2. Abs(cons[d].tail) = T + 1
        BY <1>7, <3>1 DEF T
      <4> QED
        BY <1>3, <4>1, <4>2
    <3> QED
      BY <1>4, <1>5, <3>1
  <2> QED
    BY <2>1, <2>2, <2>3, <2>4 DEF ConsumerInv
<1>15. ProducerInv'
  <2>1. \A q \in Producers : Writing(q) => T + 1 <= Abs(prod[q].head) /\ Abs(prod[q].head) < H
    <3> SUFFICES ASSUME NEW q \in Producers, Writing(q)
                 PROVE  T + 1 <= Abs(prod[q].head) /\ Abs(prod[q].head) < H
      OBVIOUS
    <3>1. T <= Abs(prod[q].head) /\ Abs(prod[q].head) < H
      BY <1>2 DEF ProducerInv
    <3>2. Abs(prod[q].head) # T
      BY <1>6 DEF WriterAt
    <3> QED
      BY <1>3, <3>1, <3>2
  <2> QED
    BY <1>1, <1>2, <1>7, <2>1 DEF ProducerInv, Writing, Trying
<1>16. SlotInv'
  <2>1. \A k : WriterAt(k)' = WriterAt(k)
    BY <1>1 DEF WriterAt, Writing
  <2>2. \A k : k # T => ReaderAt(k)' = ReaderAt(k)
    BY <1>12, <1>13 DEF ReaderAt
  <2>3. \A k : k = T => ReaderAt(k)'
    BY <1>12 DEF ReaderAt
  <2>4. ASSUME NEW k \in T' .. H' - 1
        PROVE  sequences'[Place(k)] = IF WriterAt(k)' THEN At(k) ELSE At(k + 1)
    <3>1. k \in T .. H - 1
      BY <1>3, <1>7
    <3> QED
      BY <1>1, <1>2, <2>1, <3>1 DEF SlotInv
  <2>5. ASSUME NEW k \in H' .. T' + N - 1
        PROVE  sequences'[Place(k)] = IF ReaderAt(k - N)' THEN At(k - N + 1) ELSE At(k)
    <3>1. CASE k = T + N
      <4>1. k - N = T /\ k - N + 1 = T + 1
        BY <1>3, <3>1
      <4>2. Place(k) = Place(T)
        BY <1>3, <3>1, PlaceRound
      <4>3. sequences'[Place(k)] = At(T + 1)
        BY <1>1, <1>3, <1>6, <1>8, <4>2
      <4>4. ReaderAt(k - N)'
        BY <2>3, <4>1
      <4> QED
        BY <4>1, <4>3, <4>4
    <3>2. CASE k # T + N
      <4>1. k \in H .. T + N - 1 /\ k - N # T
        BY <1>3, <1>7, <3>2
      <4>2. ReaderAt(k - N)' = ReaderAt(k - N)
        BY <2>2, <4>1
      <4> QED
        BY <1>1, <1>2, <4>1, <4>2 DEF SlotInv
    <3> QED
      BY <3>1, <3>2
  <2> QED
    BY <2>4, <2>5 DEF SlotInv
<1> QED
  BY <1>6, <1>7, <1>9, <1>10, <1>11, <1>14, <1>15, <1>16 DEF IInv

\* The release of the slot to the producers, N positions on.
LEMMA PopFreeStep ==
    ASSUME N > 1, IInv, NEW c \in Consumers, pop_free(c)
    PROVE  IInv'
<1> DEFINE r == [cons[c] EXCEPT !.pc = "idle", !.item = "uninit"]
           a == Abs(cons[c].tail)
<1>1. /\ cons[c].pc = "free" /\ UNCHANGED <<head, tail, buffer, prod, pushes, pops>>
      /\ cons' = [cons EXCEPT ![c] = r]
      /\ sequences' = [sequences EXCEPT ![Slot(cons[c].tail)] = Plus(cons[c].tail, N)]
  BY DEF pop_free
<1>2. TypeOK /\ CountInv /\ OrderInv /\ ProducerInv /\ ConsumerInv /\ SlotInv
  BY DEF IInv
<1>3. /\ cons[c] \in Consumer /\ cons \in [Consumers -> Consumer] /\ cons[c].tail \in Index
      /\ H \in Int /\ T \in Int /\ Slot(head) = Place(H) /\ Slot(tail) = Place(T) /\ N \in Int
      /\ a \in Int /\ \A d \in Consumers : cons[d].tail \in Index
      /\ sequences \in [0 .. N - 1 -> Index]
  BY <1>2, Types, Moduli
<1>4. r \in Consumer /\ r.pc = "idle"
  BY <1>3 DEF Consumer
<1>5. cons'[c] = r /\ \A d \in Consumers \ {c} : cons'[d] = cons[d]
  BY <1>1, <1>3
<1> HIDE DEF r
<1>6. Reading(c) /\ a < T /\ H <= a + N /\ T <= H /\ H <= T + N
  BY <1>1, <1>2 DEF Reading, ConsumerInv, OrderInv
<1>7. /\ Slot(cons[c].tail) = Place(a + N) /\ Plus(cons[c].tail, N) = At(a + N)
      /\ At(a + N) \in Index /\ Place(a + N) \in 0 .. N - 1
  <2>1. /\ Slot(cons[c].tail) = Place(a) /\ \A j \in Int : Plus(cons[c].tail, j) = At(a + j)
    BY <1>3, SlotAbs
  <2>2. a + N \in Int
    BY <1>3
  <2>3. Place(a + N) = Place(a)
    <3> HIDE DEF a
    <3> QED
      BY <1>3, PlaceRound
  <2> QED
    BY <1>3, <2>1, <2>2, <2>3, RingTypes
<1>8. H' = H /\ T' = T
  BY <1>1 DEF H, T
<1>9. TypeOK'
  <2>1. cons' \in [Consumers -> Consumer]
    BY <1>1, <1>3, <1>4
  <2>2. sequences' \in [0 .. N - 1 -> Index]
    BY <1>1, <1>3, <1>7
  <2> QED
    BY <1>1, <1>2, <2>1, <2>2 DEF TypeOK, Consumer
<1>10. CountInv'
  BY <1>1, <1>2, <1>8 DEF CountInv, Trying
<1> HIDE DEF a
<1>11. /\ sequences'[Place(a + N)] = At(a + N)
       /\ \A k \in T .. T + N - 1 : k # a + N => sequences'[Place(k)] = sequences[Place(k)]
  <2>1. sequences'[Place(a + N)] = At(a + N)
    BY <1>1, <1>3, <1>7
  <2>2. ASSUME NEW k \in T .. T + N - 1, k # a + N PROVE sequences'[Place(k)] = sequences[Place(k)]
    <3>1. k \in Int /\ a + N \in Int /\ k - (a + N) < N /\ (a + N) - k < N
      BY <1>3, <1>6
    <3>2. Place(k) # Place(a + N) /\ Place(k) \in 0 .. N - 1
      BY <2>2, <3>1, PlaceDiffers, RingTypes
    <3> QED
      BY <1>1, <1>3, <1>7, <3>2
  <2> QED
    BY <2>1, <2>2
<1>12. \A k : WriterAt(k)' = WriterAt(k)
  BY <1>1 DEF WriterAt, Writing
<1>13. /\ ~Reading(c)' /\ ~Asking(c)'
       /\ \A d \in Consumers \ {c} : /\ Reading(d)' = Reading(d) /\ Asking(d)' = Asking(d)
                                     /\ cons'[d].tail = cons[d].tail
  BY <1>4, <1>5 DEF Reading, Asking
<1>14. \A k : ReaderAt(k)' = (ReaderAt(k) /\ k # a)
  <2>1. \A d \in Consumers : Reading(d) /\ Abs(cons[d].tail) = a => d = c
    <3> SUFFICES ASSUME NEW d \in Consumers, Reading(d), Abs(cons[d].tail) = a PROVE d = c
      OBVIOUS
    <3>1. cons[d].tail = cons[c].tail
      BY <1>3, AbsDiffers DEF a
    <3> QED
      BY <1>2, <1>6, <3>1 DEF ConsumerInv
  <2>2. Abs(cons[c].tail) = a
    BY DEF a
  <2> QED
    BY <1>13, <2>1, <2>2 DEF ReaderAt
<1>15. ProducerInv'
  <2>1. \A q \in Producers :
          prod'[q].pc = "claim" /\ prod'[q].head = head' => sequences'[Slot(head')] = head'
    <3> SUFFICES ASSUME NEW q \in Producers, prod[q].pc = "claim", prod[q].head = head
                 PROVE  sequences'[Slot(head)] = head
      BY <1>1
    <3>1. sequences[Slot(head)] = head
      BY <1>2 DEF ProducerInv
    <3>2. H < T + N /\ ~ReaderAt(H - N)
      BY <1>2, <3>1, FreeHead
    <3>3. H - N # a
      BY <1>6, <3>2 DEF ReaderAt, a
    <3>4. H \in T .. T + N - 1 /\ H # a + N
      BY <1>3, <1>6, <3>2, <3>3
    <3>5. sequences'[Place(H)] = sequences[Place(H)]
      BY <1>11, <3>4
    <3> QED
      BY <1>3, <3>1, <3>5
  <2> QED
    BY <1>1, <1>2, <1>8, <2>1 DEF ProducerInv, Writing, Trying
<1>16. ConsumerInv'
  <2>1. \A d \in Consumers :
          cons'[d].pc = "claim" /\ cons'[d].tail = tail' => sequences'[Slot(tail')] = Plus(tail', 1)
    <3> SUFFICES ASSUME NEW d \in Consumers, cons'[d].pc = "claim", cons'[d].tail = tail'
                 PROVE  sequences'[Slot(tail')] = Plus(tail', 1)
      OBVIOUS
    <3>1. d # c /\ cons[d].pc = "claim" /\ cons[d].tail = tail
      BY <1>1, <1>4, <1>5
    <3>2. sequences[Slot(tail)] = Plus(tail, 1)
      BY <1>2, <3>1 DEF ConsumerInv
    <3>3. T < H
      BY <1>2, <3>2, ReadyTail
    <3>4. T \in T .. T + N - 1 /\ T # a + N
      BY <1>3, <1>6, <3>3
    <3>5. sequences'[Place(T)] = sequences[Place(T)]
      BY <1>11, <3>4
    <3> QED
      BY <1>1, <1>3, <3>2, <3>5
  <2> QED
    BY <1>2, <1>8, <1>13, <2>1 DEF ConsumerInv
<1>17. SlotInv'
  <2>1. ASSUME NEW k \in T .. H - 1
        PROVE  sequences'[Place(k)] = IF WriterAt(k)' THEN At(k) ELSE At(k + 1)
    <3>1. k \in T .. T + N - 1 /\ k # a + N
      BY <1>3, <1>6
    <3> QED
      BY <1>2, <1>11, <1>12, <3>1 DEF SlotInv
  <2>2. ASSUME NEW k \in H .. T + N - 1
        PROVE  sequences'[Place(k)] = IF ReaderAt(k - N)' THEN At(k - N + 1) ELSE At(k)
    <3>1. CASE k = a + N
      <4>1. k - N = a
        BY <1>3, <3>1
      <4>2. ~ReaderAt(k - N)'
        BY <1>14, <4>1
      <4> QED
        BY <1>11, <3>1, <4>2
    <3>2. CASE k # a + N
      <4>1. k \in T .. T + N - 1 /\ k - N # a
        BY <1>3, <1>6, <3>2
      <4>2. ReaderAt(k - N)' = ReaderAt(k - N)
        BY <1>14, <4>1 DEF ReaderAt
      <4> QED
        BY <1>2, <1>11, <3>2, <4>1, <4>2 DEF SlotInv
    <3> QED
      BY <3>1, <3>2
  <2> QED
    BY <1>8, <2>1, <2>2 DEF SlotInv
<1> QED
  BY <1>2, <1>8, <1>9, <1>10, <1>15, <1>16, <1>17 DEF IInv, OrderInv

-----------------------------------------------------------------------------
(* The theorems *)

\* Every step of every thread keeps the invariant.
LEMMA StepInv == N > 1 /\ IInv /\ [Next]_vars => IInv'
<1> SUFFICES ASSUME N > 1, IInv, [Next]_vars PROVE IInv'
  OBVIOUS
<1>1. ASSUME NEW p \in Producers, Push(p) PROVE IInv'
  <2>1. CASE push_claim(p)
    BY <2>1, PushClaimStep, PushReloadStep
  <2> QED
    BY <1>1, <2>1, PushTurnStep, PushReloadStep, PushWriteStep, PushPublishStep DEF Push
<1>2. ASSUME NEW c \in Consumers, Pop(c) PROVE IInv'
  <2>1. CASE pop_claim(c)
    BY <2>1, PopClaimStep, PopReloadStep
  <2> QED
    BY <1>2, <2>1, PopTurnStep, PopReloadStep, PopReadStep, PopFreeStep DEF Pop
<1>3. CASE UNCHANGED vars
  BY <1>3 DEF vars, IInv, TypeOK, CountInv, OrderInv, ProducerInv, ConsumerInv, SlotInv, H, T,
     Trying, Writing, Asking, Reading, WriterAt, ReaderAt
<1> QED
  BY <1>1, <1>2, <1>3, TryPushStep, TryPopStep DEF Next

\* The inductive invariant holds in every reachable state.
THEOREM MpmcInvariant ==
    ASSUME N > 1
    PROVE  Spec => []IInv
<1>1. IInv /\ [Next]_vars => IInv'
  BY StepInv
<1> QED
  BY <1>1, InitInv, PTL DEF Spec

\* try_push's writes and try_pop's reads of the UnsafeCell slots never overlap on one slot,
\* whatever the threads' interleaving, for every capacity above one and width of the
\* indices.
THEOREM SlotsAlwaysExclusive ==
    ASSUME N > 1
    PROVE  Spec => []SlotsExclusive
BY MpmcInvariant, InvExclusive, PTL

-----------------------------------------------------------------------------
(* The refinement *)

Stored == Values \cup {"uninit"}

\* What Item says of an index: the item its writer carries, or the slot's.
ItemExact ==
    \A i \in Index :
        /\ \A p \in Producers : prod[p].pc = "write" /\ prod[p].head = i => Item(i) = prod[p].item
        /\ (\A p \in Producers : ~(prod[p].pc = "write" /\ prod[p].head = i))
             => Item(i) = buffer[Slot(i)]
        /\ Item(i) \in Stored

\* What the mapped queue holds: the items of the claimed positions.
ContentsExact ==
    /\ Contents \in Seq(Stored) /\ Len(Contents) = H - T
    /\ \A j \in 1 .. H - T : Contents[j] = Item(At(T + j - 1))

\* Only one producer writes at an index, so CHOOSE finds it.
LEMMA InvItem == IInv => ItemExact
<1> SUFFICES ASSUME IInv, NEW i \in Index
             PROVE  /\ \A p \in Producers : prod[p].pc = "write" /\ prod[p].head = i
                                            => Item(i) = prod[p].item
                    /\ (\A p \in Producers : ~(prod[p].pc = "write" /\ prod[p].head = i))
                         => Item(i) = buffer[Slot(i)]
                    /\ Item(i) \in Stored
  BY DEF ItemExact
<1>1. TypeOK /\ ProducerInv
  BY DEF IInv
<1>2. ASSUME NEW p \in Producers, prod[p].pc = "write", prod[p].head = i
      PROVE  Item(i) = prod[p].item
  <2> DEFINE q == CHOOSE q \in Producers : prod[q].pc = "write" /\ prod[q].head = i
  <2>1. q \in Producers /\ prod[q].pc = "write" /\ prod[q].head = i
    BY <1>2
  <2>2. q = p
    <3> HIDE DEF q
    <3> QED
      BY <1>1, <1>2, <2>1 DEF ProducerInv, Writing
  <2>3. Item(i) = prod[q].item
    BY <1>2 DEF Item
  <2> QED
    BY <2>2, <2>3
<1>3. ASSUME \A p \in Producers : ~(prod[p].pc = "write" /\ prod[p].head = i)
      PROVE  Item(i) = buffer[Slot(i)]
  BY <1>3 DEF Item
<1>4. \A p \in Producers : prod[p].item \in Stored
  BY <1>1, Types DEF Producer, Stored
<1>5. buffer[Slot(i)] \in Stored
  <2>1. Slot(i) \in 0 .. N - 1
    BY RingTypes
  <2> QED
    BY <1>1, <2>1 DEF TypeOK, Stored
<1>6. Item(i) \in Stored
  BY <1>2, <1>3, <1>4, <1>5
<1> QED
  BY <1>2, <1>3, <1>6

\* The indices are as far apart as their positions.
LEMMA Claimed ==
    ASSUME IInv
    PROVE  /\ (head - tail) % Modulus = H - T /\ H \in Int /\ T \in Int /\ H - T \in 0 .. N
           /\ \A j \in Int : Plus(tail, j - 1) = At(T + j - 1)
<1>1. TypeOK /\ OrderInv
  BY DEF IInv
<1>0. Modulus \in Nat \ {0} /\ Modulus % Modulus = 0
  BY Moduli
<1>2. /\ head \in Index /\ tail \in Index /\ head \in Int /\ tail \in Int /\ H \in Int /\ T \in Int
      /\ At(H) = head /\ T <= H /\ H <= T + N /\ N \in Int /\ 4 * N <= Modulus /\ N > 0
  <2>1. head \in Index /\ tail \in Index /\ H \in Int /\ T \in Int /\ At(H) = head
    BY <1>1, Types
  <2>2. head \in Int /\ tail \in Int
    BY <2>1, RingTypes
  <2> QED
    BY <1>1, <2>1, <2>2, Moduli DEF OrderInv
<1>3. ASSUME NEW j \in Int PROVE Plus(tail, j) = At(T + j)
  BY <1>2, SlotAbs DEF T
<1>4. (tail + (H - T)) % Modulus = head
  <2>1. H - T \in Int /\ T + (H - T) = H
    BY <1>2
  <2>2. Plus(tail, H - T) = At(H)
    BY <1>3, <2>1
  <2> QED
    BY <1>2, <2>2 DEF Plus
<1>5. (head - tail) % Modulus = H - T
  <2>1. tail + (H - T) \in Int /\ -tail \in Int /\ H - T \in Int
    BY <1>2
  <2>2. (((tail + (H - T)) % Modulus) + (-tail)) % Modulus = ((tail + (H - T)) + (-tail)) % Modulus
    BY <1>0, <2>1, ModMod
  <2>3. (tail + (H - T)) + (-tail) = H - T /\ head + (-tail) = head - tail
    BY <1>2
  <2>4. 0 <= H - T /\ H - T < Modulus
    BY <1>0, <1>2
  <2>5. (H - T) % Modulus = H - T
    BY <1>0, <2>1, <2>4, ModSmall
  <2> QED
    BY <1>4, <2>2, <2>3, <2>5
<1>6. ASSUME NEW j \in Int PROVE Plus(tail, j - 1) = At(T + j - 1)
  <2>1. j - 1 \in Int /\ T + (j - 1) = T + j - 1
    BY <1>2
  <2> QED
    BY <1>3, <2>1
<1> QED
  BY <1>2, <1>5, <1>6

\* The mapped queue is a sequence of the claimed positions' items.
LEMMA InvContents ==
    /\ IInv => ItemExact /\ ContentsExact
    /\ IInv' => ItemExact' /\ ContentsExact'
<1>1. IInv => ContentsExact
  <2> SUFFICES ASSUME IInv PROVE ContentsExact
    OBVIOUS
  <2> DEFINE n == H - T
  <2>1. /\ (head - tail) % Modulus = n /\ n \in 0 .. N /\ N \in Int /\ T \in Int
        /\ \A j \in Int : Plus(tail, j - 1) = At(T + j - 1)
    BY Claimed, Moduli
  <2>2. ASSUME NEW j \in 1 .. n
        PROVE  Item(Plus(tail, j - 1)) = Item(At(T + j - 1)) /\ Item(At(T + j - 1)) \in Stored
    <3>1. j \in Int /\ T + j - 1 \in Int
      <4> HIDE DEF n
      <4> QED
        BY <2>1
    <3>2. At(T + j - 1) \in Index
      BY <3>1, RingTypes
    <3> QED
      BY <2>1, <3>1, <3>2, InvItem DEF ItemExact
  <2>3. Contents = [j \in 1 .. n |-> Item(Plus(tail, j - 1))]
    BY <2>1 DEF Contents
  <2>4. n = H - T
    OBVIOUS
  <2> HIDE DEF n
  <2>5. Contents \in Seq(Stored) /\ Len(Contents) = n
    BY <2>1, <2>2, <2>3
  <2>6. \A j \in 1 .. n : Contents[j] = Item(At(T + j - 1))
    BY <2>2, <2>3
  <2> QED
    BY <2>4, <2>5, <2>6 DEF ContentsExact
<1>2. IInv => ItemExact /\ ContentsExact
  BY <1>1, InvItem
<1> QED
  BY <1>2, PTL

\* A step that leaves the claimed positions' items alone leaves the mapped queue alone.
LEMMA SameContents ==
    ASSUME IInv, IInv', UNCHANGED <<head, tail>>,
           \A k \in T .. H - 1 : Item(At(k))' = Item(At(k))
    PROVE  Contents' = Contents
<1>1. H' = H /\ T' = T /\ H \in Int /\ T \in Int /\ H - T \in 0 .. N
  BY Claimed DEF H, T
<1>2. /\ Contents \in Seq(Stored) /\ Len(Contents) = H - T
      /\ \A j \in 1 .. H - T : Contents[j] = Item(At(T + j - 1))
  BY InvContents DEF ContentsExact
<1>3. /\ Contents' \in Seq(Stored) /\ Len(Contents') = H - T
      /\ \A j \in 1 .. H - T : Contents'[j] = (Item(At(T + j - 1)))'
  BY <1>1, InvContents DEF ContentsExact, Stored
<1>4. ASSUME NEW j \in 1 .. H - T PROVE Contents'[j] = Contents[j]
  <2>1. T + j - 1 \in T .. H - 1
    BY <1>1, Moduli
  <2>2. \A k : k = T + j - 1 => Contents'[j] = Item(At(k))' /\ Contents[j] = Item(At(k))
    BY <1>1, <1>2, <1>3
  <2> QED
    BY <2>1, <2>2
<1> QED
  BY <1>2, <1>3, <1>4, SeqEqual

\* So do the steps that neither write a slot nor change which producers are about to.
LEMMA QuietItems ==
    ASSUME IInv, IInv', UNCHANGED <<head, tail, buffer>>,
           \A p \in Producers : /\ (prod'[p].pc = "write") = (prod[p].pc = "write")
                                /\ prod[p].pc = "write" => prod'[p].head = prod[p].head
                                                           /\ prod'[p].item = prod[p].item
    PROVE  Contents' = Contents
<1>1. ItemExact /\ ItemExact'
  BY InvContents
<1>2. ASSUME NEW i \in Index PROVE Item(i)' = Item(i)
  <2>1. CASE \E p \in Producers : prod[p].pc = "write" /\ prod[p].head = i
    <3>1. PICK p \in Producers : prod[p].pc = "write" /\ prod[p].head = i
      BY <2>1
    <3>2. Item(i) = prod[p].item
      BY <1>1, <3>1 DEF ItemExact
    <3>3. Item(i)' = prod'[p].item
      BY <1>1, <3>1 DEF ItemExact
    <3> QED
      BY <3>1, <3>2, <3>3
  <2>2. CASE \A p \in Producers : ~(prod[p].pc = "write" /\ prod[p].head = i)
    <3>1. Item(i) = buffer[Slot(i)]
      BY <1>1, <2>2 DEF ItemExact
    <3>2. \A p \in Producers : ~(prod'[p].pc = "write" /\ prod'[p].head = i)
      BY <2>2
    <3>3. Item(i)' = buffer'[Slot(i)]
      BY <1>1, <3>2 DEF ItemExact
    <3> QED
      BY <3>1, <3>3
  <2> QED
    BY <2>1, <2>2
<1>3. \A k \in T .. H - 1 : At(k) \in Index
  <2>1. \A k \in T .. H - 1 : k \in Int
    BY Claimed
  <2> QED
    BY <2>1, RingTypes
<1> QED
  BY <1>2, <1>3, SameContents

\* Writing the slot leaves the queue alone: the position's item is now in its slot, and the
\* other claimed positions have other slots.
LEMMA WriteKeepsContents ==
    ASSUME IInv, IInv', NEW p \in Producers, push_write(p)
    PROVE  Contents' = Contents
<1> DEFINE r == [prod[p] EXCEPT !.pc = "publish"]
           a == Abs(prod[p].head)
<1>1. /\ prod[p].pc = "write" /\ UNCHANGED <<head, tail>>
      /\ prod' = [prod EXCEPT ![p] = r]
      /\ buffer' = [buffer EXCEPT ![Slot(prod[p].head)] = prod[p].item]
  BY DEF push_write
<1>2. /\ TypeOK /\ OrderInv /\ ProducerInv /\ ItemExact /\ ItemExact'
  BY InvContents DEF IInv
<1>3. /\ prod \in [Producers -> Producer] /\ prod[p] \in Producer /\ prod[p].head \in Index
      /\ a \in Int /\ H \in Int /\ T \in Int /\ N \in Int /\ H <= T + N
      /\ T <= a /\ a < H
  BY <1>1, <1>2, Types, Moduli DEF ProducerInv, Writing, OrderInv
<1>4. prod'[p].pc = "publish" /\ \A q \in Producers \ {p} : prod'[q] = prod[q]
  BY <1>1, <1>3 DEF Producer
<1>5. At(a) = prod[p].head /\ Slot(prod[p].head) = Place(a) /\ Place(a) \in 0 .. N - 1
  BY <1>3, AtAbs, SlotAbs, RingTypes
<1>6. /\ buffer'[Place(a)] = prod[p].item
      /\ \A s \in 0 .. N - 1 : s # Place(a) => buffer'[s] = buffer[s]
  BY <1>1, <1>2, <1>5 DEF TypeOK
<1> HIDE DEF a
<1>7. ASSUME NEW k \in T .. H - 1 PROVE Item(At(k))' = Item(At(k))
  <2>1. k \in Int /\ At(k) \in Index /\ Place(k) \in 0 .. N - 1 /\ Slot(At(k)) = Place(k)
    <3>1. k \in Int
      BY <1>3
    <3> QED
      BY <3>1, RingTypes, SlotAt
  <2>2. CASE k = a
    <3>1. Item(At(k)) = prod[p].item
      BY <1>1, <1>2, <1>5, <2>1, <2>2 DEF ItemExact
    <3>2. \A q \in Producers : ~(prod'[q].pc = "write" /\ prod'[q].head = At(k))
      <4> SUFFICES ASSUME NEW q \in Producers, prod'[q].pc = "write", prod'[q].head = At(k)
                   PROVE  FALSE
        OBVIOUS
      <4>1. q # p /\ prod[q].pc = "write" /\ prod[q].head = prod[p].head
        BY <1>4, <1>5, <2>2
      <4> QED
        BY <1>1, <1>2, <4>1 DEF ProducerInv, Writing
    <3>3. Item(At(k))' = buffer'[Slot(At(k))]
      BY <1>2, <2>1, <3>2 DEF ItemExact
    <3> QED
      BY <1>6, <2>1, <2>2, <3>1, <3>3
  <2>3. CASE k # a
    <3>1. k - a < N /\ a - k < N
      BY <1>3, <2>1
    <3>2. Place(k) # Place(a)
      BY <1>3, <2>1, <2>3, <3>1, PlaceDiffers
    <3>3. buffer'[Slot(At(k))] = buffer[Slot(At(k))]
      BY <1>6, <2>1, <3>2
    <3>4. At(k) # At(a)
      BY <2>1, <1>3, <2>3, <3>2, SlotAt
    <3>5. \A q \in Producers : prod'[q].pc = "write" /\ prod'[q].head = At(k)
                               <=> prod[q].pc = "write" /\ prod[q].head = At(k)
      BY <1>4, <1>5, <3>4
    <3>6. CASE \E q \in Producers : prod[q].pc = "write" /\ prod[q].head = At(k)
      <4>1. PICK q \in Producers : prod[q].pc = "write" /\ prod[q].head = At(k)
        BY <3>6
      <4>2. q # p
        BY <1>5, <3>4, <4>1
      <4>3. Item(At(k)) = prod[q].item
        BY <1>2, <2>1, <4>1 DEF ItemExact
      <4>4. Item(At(k))' = prod'[q].item
        BY <1>2, <2>1, <3>5, <4>1 DEF ItemExact
      <4> QED
        BY <1>4, <4>2, <4>3, <4>4
    <3>7. CASE \A q \in Producers : ~(prod[q].pc = "write" /\ prod[q].head = At(k))
      <4>1. Item(At(k)) = buffer[Slot(At(k))]
        BY <1>2, <2>1, <3>7 DEF ItemExact
      <4>2. Item(At(k))' = buffer'[Slot(At(k))]
        BY <1>2, <2>1, <3>5, <3>7 DEF ItemExact
      <4> QED
        BY <3>3, <4>1, <4>2
    <3> QED
      BY <3>6, <3>7
  <2> QED
    BY <2>2, <2>3
<1> QED
  BY <1>1, <1>7, SameContents

\* Winning the compare-and-swap on the head appends the producer's item.
LEMMA ClaimAppends ==
    ASSUME N > 1, IInv, NEW p \in Producers, push_claim(p), head = prod[p].head
    PROVE  Contents' = Append(Contents, prod[p].item) /\ Len(Contents) < N
<1> DEFINE r == [prod[p] EXCEPT !.pc = "write"]
           n == H - T
           e == prod[p].item
<1>1. /\ prod[p].pc = "claim" /\ buffer' = buffer /\ prod' = [prod EXCEPT ![p] = r]
  BY DEF push_claim
<1>2. IInv' /\ H' = H + 1 /\ T' = T /\ H < T + N
  BY PushClaimStep
<1>3. /\ TypeOK /\ ItemExact /\ ItemExact' /\ ContentsExact /\ ContentsExact'
  BY <1>2, InvContents DEF IInv
<1>4. /\ prod \in [Producers -> Producer] /\ prod[p] \in Producer /\ H \in Int /\ T \in Int
      /\ At(H) = head /\ n \in 0 .. N - 1 /\ N \in Int /\ head \in Index
  <2>1. H - T \in 0 .. N
    BY Claimed
  <2> QED
    BY <1>2, <1>3, <2>1, Types, Moduli
<1>5. /\ prod'[p].pc = "write" /\ prod'[p].head = head /\ prod'[p].item = e
      /\ \A q \in Producers \ {p} : prod'[q] = prod[q]
  BY <1>1, <1>4 DEF Producer
<1>6. e \in Stored
  BY <1>4 DEF Producer, Stored
<1>7. /\ Contents \in Seq(Stored) /\ Len(Contents) = n
      /\ \A j \in 1 .. n : Contents[j] = Item(At(T + j - 1))
  BY <1>3 DEF ContentsExact
<1>8. /\ Contents' \in Seq(Stored) /\ Len(Contents') = n + 1
      /\ \A j \in 1 .. n + 1 : \A k : k = T + j - 1 => Contents'[j] = Item(At(k))'
  <2>1. H' - T' = n + 1
    BY <1>2, <1>4
  <2>2. /\ Contents' \in Seq(Stored) /\ Len(Contents') = H' - T'
        /\ \A j \in 1 .. H' - T' : Contents'[j] = (Item(At(T + j - 1)))'
    BY <1>3 DEF ContentsExact, Stored
  <2> HIDE DEF n
  <2>3. \A j \in 1 .. n + 1 : \A k : k = T + j - 1 => Contents'[j] = Item(At(k))'
    BY <1>2, <2>1, <2>2
  <2> QED
    BY <2>1, <2>2, <2>3
<1>9. ASSUME NEW k \in T .. H - 1 PROVE Item(At(k))' = Item(At(k))
  <2>1. k \in Int
    BY <1>4
  <2>2. At(k) \in Index
    BY <2>1, RingTypes
  <2>3. At(k) # head
    <3>1. k # H /\ k - H < Modulus /\ H - k < Modulus
      <4>1. H - T \in 0 .. N /\ 4 * N <= Modulus /\ N \in Int /\ Modulus \in Int
        BY Claimed, Moduli
      <4> QED
        BY <1>4, <2>1, <4>1
    <3> QED
      BY <1>4, <2>1, <3>1, AtDiffers
  <2>4. \A q \in Producers : prod'[q].pc = "write" /\ prod'[q].head = At(k)
                             <=> prod[q].pc = "write" /\ prod[q].head = At(k)
    BY <1>1, <1>5, <2>3
  <2>5. CASE \E q \in Producers : prod[q].pc = "write" /\ prod[q].head = At(k)
    <3>1. PICK q \in Producers : prod[q].pc = "write" /\ prod[q].head = At(k)
      BY <2>5
    <3>2. q # p
      BY <1>1, <3>1
    <3>3. Item(At(k)) = prod[q].item
      BY <1>3, <2>2, <3>1 DEF ItemExact
    <3>4. Item(At(k))' = prod'[q].item
      BY <1>3, <2>2, <2>4, <3>1 DEF ItemExact
    <3> QED
      BY <1>5, <3>2, <3>3, <3>4
  <2>6. CASE \A q \in Producers : ~(prod[q].pc = "write" /\ prod[q].head = At(k))
    <3>1. Item(At(k)) = buffer[Slot(At(k))]
      BY <1>3, <2>2, <2>6 DEF ItemExact
    <3>2. Item(At(k))' = buffer'[Slot(At(k))]
      BY <1>3, <2>2, <2>4, <2>6 DEF ItemExact
    <3> QED
      BY <1>1, <3>1, <3>2
  <2> QED
    BY <2>5, <2>6
<1>10. \A k : k = H => Item(At(k))' = e
  BY <1>3, <1>4, <1>5 DEF ItemExact
<1>11. T + (n + 1) - 1 = H
  BY <1>4
<1> HIDE DEF n, e
<1>12. /\ Append(Contents, e) \in Seq(Stored)
       /\ Len(Append(Contents, e)) = n + 1
       /\ \A j \in 1 .. n : Append(Contents, e)[j] = Contents[j]
       /\ Append(Contents, e)[n + 1] = e
  BY <1>4, <1>6, <1>7, AppendProperties
<1>13. ASSUME NEW j \in 1 .. n + 1 PROVE Contents'[j] = Append(Contents, e)[j]
  <2>1. CASE j = n + 1
    <3>1. Contents'[j] = e
      BY <1>8, <1>10, <1>11, <2>1
    <3> QED
      BY <1>12, <2>1, <3>1
  <2>2. CASE j # n + 1
    <3>1. j \in 1 .. n /\ T + j - 1 \in T .. H - 1
      BY <1>4, <1>11, <2>2
    <3>2. \A k : k = T + j - 1 => Contents'[j] = Item(At(k))' /\ Contents[j] = Item(At(k))
      BY <1>7, <1>8, <3>1
    <3>3. Contents'[j] = Contents[j]
      BY <1>9, <3>1, <3>2
    <3> QED
      BY <1>12, <3>1, <3>3
  <2> QED
    BY <2>1, <2>2
<1>14. Contents' = Append(Contents, e)
  BY <1>8, <1>12, <1>13, SeqEqual
<1> QED
  BY <1>4, <1>7, <1>14 DEF e

\* Winning the compare-and-swap on the tail removes the first item, which is in its slot.
LEMMA ClaimRemovesFirst ==
    ASSUME IInv, NEW c \in Consumers, pop_claim(c), tail = cons[c].tail
    PROVE  /\ Contents # <<>> /\ Contents' = Tail(Contents)
           /\ buffer[Slot(tail)] = Head(Contents)
<1> DEFINE n == H - T
<1>1. prod' = prod /\ buffer' = buffer
  BY DEF pop_claim
<1>2. IInv' /\ H' = H /\ T' = T + 1 /\ T < H /\ ~WriterAt(T)
  BY PopClaimStep
<1>3. /\ TypeOK /\ ItemExact /\ ItemExact' /\ ContentsExact /\ ContentsExact'
  BY <1>2, InvContents DEF IInv
<1>4. H \in Int /\ T \in Int /\ At(T) = tail /\ n \in 1 .. N /\ N \in Int /\ tail \in Index
  <2>1. H - T \in 0 .. N
    BY Claimed
  <2> QED
    BY <1>2, <1>3, <2>1, Types, Moduli
<1>5. /\ Contents \in Seq(Stored) /\ Len(Contents) = n
      /\ \A j \in 1 .. n : Contents[j] = Item(At(T + j - 1))
  BY <1>3 DEF ContentsExact
<1>6. /\ Contents' \in Seq(Stored) /\ Len(Contents') = n - 1
      /\ \A j \in 1 .. n - 1 : \A k : k = T + 1 + j - 1 => Contents'[j] = Item(At(k))'
  <2>1. H' - T' = n - 1
    BY <1>2, <1>4
  <2>2. /\ Contents' \in Seq(Stored) /\ Len(Contents') = H' - T'
        /\ \A j \in 1 .. H' - T' : Contents'[j] = (Item(At(T + j - 1)))'
    BY <1>3 DEF ContentsExact, Stored
  <2> HIDE DEF n
  <2>3. \A j \in 1 .. n - 1 : \A k : k = T + 1 + j - 1 => Contents'[j] = Item(At(k))'
    BY <1>2, <2>1, <2>2
  <2> QED
    BY <2>1, <2>2, <2>3
<1>7. ASSUME NEW k PROVE Item(At(k))' = Item(At(k))
  BY <1>1 DEF Item
<1>8. Item(tail) = buffer[Slot(tail)]
  <2>1. \A p \in Producers : ~(prod[p].pc = "write" /\ prod[p].head = tail)
    BY <1>2 DEF WriterAt, Writing, T
  <2> QED
    BY <1>3, <1>4, <2>1 DEF ItemExact
<1> HIDE DEF n
<1>9. Contents # <<>> /\ Contents[1] = buffer[Slot(tail)]
  <2>1. T + 1 - 1 = T /\ 1 \in 1 .. n
    BY <1>4
  <2>2. Contents[1] = Item(At(T))
    BY <1>5, <2>1
  <2> QED
    BY <1>4, <1>5, <1>8, <2>2
<1>10. /\ Tail(Contents) \in Seq(Stored) /\ Len(Tail(Contents)) = n - 1
       /\ \A j \in 1 .. n - 1 : Tail(Contents)[j] = Contents[j + 1]
  BY <1>4, <1>5, <1>9, HeadTailProperties
<1>11. ASSUME NEW j \in 1 .. n - 1 PROVE Contents'[j] = Tail(Contents)[j]
  <2>1. T + 1 + j - 1 = T + (j + 1) - 1 /\ j + 1 \in 1 .. n
    BY <1>4
  <2>2. \A k : k = T + (j + 1) - 1 => Contents'[j] = Item(At(k))' /\ Contents[j + 1] = Item(At(k))
    BY <1>5, <1>6, <2>1
  <2> QED
    BY <1>7, <1>10, <2>2
<1>12. Contents' = Tail(Contents)
  BY <1>6, <1>10, <1>11, SeqEqual
<1> QED
  BY <1>5, <1>9, <1>12

\* A call keeps the item it was given until it returns.
LEMMA StepPayload == IInv /\ PayloadInv /\ [Next]_vars => PayloadInv'
<1> SUFFICES ASSUME IInv, PayloadInv, [Next]_vars PROVE PayloadInv'
  OBVIOUS
<1>1. prod \in [Producers -> Producer]
  BY Types DEF IInv
<1>2. ASSUME NEW p \in Producers, NEW r, prod' = [prod EXCEPT ![p] = r],
             r.pc # "idle" => r.item \in Values
      PROVE  PayloadInv'
  <2>1. \A q \in Producers : prod'[q] = IF q = p THEN r ELSE prod[q]
    BY <1>1, <1>2
  <2> QED
    BY <1>2, <2>1 DEF PayloadInv
<1>3. ASSUME NEW p \in Producers, Push(p) PROVE PayloadInv'
  <2>1. prod[p] \in Producer /\ prod[p].item \in Values
    BY <1>1, <1>3 DEF PayloadInv, Push, push_turn, push_reload, push_claim, push_write, push_publish
  <2>2. PICK r \in Producer : prod' = [prod EXCEPT ![p] = r] /\ r.item = prod[p].item
    <3>1. ASSUME NEW x \in {"idle", "turn", "reload", "claim", "write", "publish"}, NEW h \in Index
          PROVE  /\ [prod[p] EXCEPT !.pc = x] \in Producer
                 /\ [prod[p] EXCEPT !.pc = x].item = prod[p].item
                 /\ [prod[p] EXCEPT !.pc = x, !.head = h] \in Producer
                 /\ [prod[p] EXCEPT !.pc = x, !.head = h].item = prod[p].item
      BY <2>1 DEF Producer
    <3>2. head \in Index
      BY Types DEF IInv
    <3>3. CASE push_turn(p)
      BY <3>1, <3>2, <3>3 DEF push_turn
    <3>4. CASE push_reload(p)
      <4> DEFINE r == [prod[p] EXCEPT !.pc = "turn", !.head = head]
      <4>1. prod' = [prod EXCEPT ![p] = r]
        BY <3>4 DEF push_reload
      <4>2. r \in Producer /\ r.item = prod[p].item
        BY <3>1, <3>2
      <4> QED
        BY <4>1, <4>2
    <3>5. CASE push_claim(p)
      <4> DEFINE r == IF head = prod[p].head THEN [prod[p] EXCEPT !.pc = "write"]
                      ELSE [prod[p] EXCEPT !.pc = "turn", !.head = head]
      <4>1. prod' = [prod EXCEPT ![p] = r]
        BY <3>5 DEF push_claim
      <4>2. r \in Producer /\ r.item = prod[p].item
        BY <3>1, <3>2
      <4> QED
        BY <4>1, <4>2
    <3>6. CASE push_write(p)
      BY <3>1, <3>2, <3>6 DEF push_write
    <3>7. CASE push_publish(p)
      BY <3>1, <3>2, <3>7 DEF push_publish
    <3> QED
      BY <1>3, <3>3, <3>4, <3>5, <3>6, <3>7 DEF Push
  <2> QED
    BY <1>2, <2>1, <2>2
<1>4. ASSUME NEW p \in Producers, NEW v \in Values, try_push(p, v) PROVE PayloadInv'
  BY <1>2, <1>4 DEF try_push
<1>5. CASE UNCHANGED prod
  BY <1>5 DEF PayloadInv
<1>6. ASSUME NEW c \in Consumers, Pop(c) \/ try_pop(c) PROVE UNCHANGED prod
  BY <1>6 DEF Pop, pop_turn, pop_reload, pop_claim, pop_read, pop_free, try_pop
<1> QED
  BY <1>3, <1>4, <1>5, <1>6 DEF Next, vars

\* The new queue is the empty FIFO, and nobody carries an item.
LEMMA InitFifo == Init => Fifo!Init /\ PayloadInv
<1> SUFFICES ASSUME Init PROVE Fifo!Init /\ PayloadInv
  OBVIOUS
<1>1. IInv
  BY InitInv
<1>2. (head - tail) % Modulus = H - T /\ H = T /\ T \in Int
  BY <1>1, Claimed DEF Init, H, T
<1>3. Contents = <<>>
  BY <1>2 DEF Contents
<1> QED
  BY <1>3 DEF Init, Fifo!Init, PayloadInv

\* A producer's steps: winning a claim is a push, being turned away is a refused push.
LEMMA PushFifo ==
    ASSUME N > 1, IInv, IInv', PayloadInv, NEW p \in Producers, Push(p)
    PROVE  Fifo!Next \/ UNCHANGED <<Contents, outcome>>
<1>1. prod \in [Producers -> Producer] /\ prod[p] \in Producer
  BY Types DEF IInv
<1>2. ASSUME NEW r \in Producer, prod' = [prod EXCEPT ![p] = r], UNCHANGED <<head, tail, buffer>>,
             prod[p].pc # "write", r.pc # "write"
      PROVE  Contents' = Contents
  <2>1. \A q \in Producers : prod'[q] = IF q = p THEN r ELSE prod[q]
    BY <1>1, <1>2
  <2> QED
    BY <1>2, <2>1, QuietItems
<1>3. ASSUME NEW x \in {"idle", "turn", "reload", "claim", "publish"}, NEW h \in Index
      PROVE  /\ [prod[p] EXCEPT !.pc = x] \in Producer /\ [prod[p] EXCEPT !.pc = x].pc # "write"
             /\ [prod[p] EXCEPT !.pc = x, !.head = h] \in Producer
             /\ [prod[p] EXCEPT !.pc = x, !.head = h].pc # "write"
  BY <1>1 DEF Producer
<1>4. head \in Index
  BY Types DEF IInv
<1>5. CASE push_turn(p)
  <2> DEFINE diff == Diff(sequences[Slot(prod[p].head)], prod[p].head)
             x == IF diff = 0 THEN "claim" ELSE IF diff < 0 THEN "idle" ELSE "reload"
             r == [prod[p] EXCEPT !.pc = x]
  <2>1. /\ prod' = [prod EXCEPT ![p] = r] /\ UNCHANGED <<head, tail, buffer>>
        /\ prod[p].pc = "turn" /\ outcome' = IF diff < 0 THEN <<"full">> ELSE outcome
    BY <1>5 DEF push_turn
  <2>2. x \in {"idle", "turn", "reload", "claim", "publish"}
    OBVIOUS
  <2> HIDE DEF x, diff
  <2>3. r \in Producer /\ r.pc # "write"
    BY <1>3, <1>4, <2>2
  <2> HIDE DEF r
  <2>4. Contents' = Contents
    BY <1>2, <2>1, <2>3
  <2> QED
    BY <2>1, <2>4 DEF Fifo!Next, Fifo!PushFull
<1>6. CASE push_reload(p) \/ (push_claim(p) /\ head # prod[p].head)
  <2> DEFINE r == [prod[p] EXCEPT !.pc = "turn", !.head = head]
  <2>1. /\ prod' = [prod EXCEPT ![p] = r] /\ UNCHANGED <<head, tail, buffer, outcome>>
        /\ prod[p].pc # "write"
    BY <1>6 DEF push_reload, push_claim
  <2>2. r \in Producer /\ r.pc # "write"
    BY <1>3, <1>4
  <2> HIDE DEF r
  <2> QED
    BY <1>2, <2>1, <2>2
<1>7. CASE push_claim(p) /\ head = prod[p].head
  <2>1. outcome' = <<"pushed", prod[p].item>> /\ prod[p].item \in Values
    BY <1>7 DEF push_claim, PayloadInv
  <2>2. Fifo!Push(prod[p].item)
    BY <1>7, <2>1, ClaimAppends DEF Fifo!Push
  <2> QED
    BY <2>1, <2>2 DEF Fifo!Next
<1>8. CASE push_write(p)
  BY <1>8, WriteKeepsContents DEF push_write
<1>9. CASE push_publish(p)
  <2> DEFINE r == [prod[p] EXCEPT !.pc = "idle"]
  <2>1. /\ prod' = [prod EXCEPT ![p] = r] /\ UNCHANGED <<head, tail, buffer, outcome>>
        /\ prod[p].pc # "write"
    BY <1>9 DEF push_publish
  <2>2. r \in Producer /\ r.pc # "write"
    BY <1>3, <1>4
  <2> HIDE DEF r
  <2> QED
    BY <1>2, <2>1, <2>2
<1> QED
  BY <1>5, <1>6, <1>7, <1>8, <1>9 DEF Push

\* A consumer's steps: winning a claim is a pop, being turned away is a refused pop.
LEMMA PopFifo ==
    ASSUME IInv, IInv', NEW c \in Consumers, Pop(c)
    PROVE  Fifo!Next \/ UNCHANGED <<Contents, outcome>>
<1>1. ASSUME UNCHANGED <<head, tail, buffer, prod>> PROVE Contents' = Contents
  BY <1>1, QuietItems
<1>2. CASE pop_turn(c)
  <2>1. Contents' = Contents /\ (outcome' = <<"empty">> \/ outcome' = outcome)
    BY <1>1, <1>2 DEF pop_turn
  <2> QED
    BY <2>1 DEF Fifo!Next, Fifo!PopEmpty
<1>3. CASE pop_reload(c) \/ (pop_claim(c) /\ tail # cons[c].tail) \/ pop_read(c) \/ pop_free(c)
  BY <1>1, <1>3 DEF pop_reload, pop_claim, pop_read, pop_free
<1>4. CASE pop_claim(c) /\ tail = cons[c].tail
  <2>1. outcome' = <<"popped", buffer[Slot(tail)]>>
    BY <1>4 DEF pop_claim
  <2> QED
    BY <1>4, <2>1, ClaimRemovesFirst DEF Fifo!Next, Fifo!Pop
<1> QED
  BY <1>2, <1>3, <1>4 DEF Pop

\* Every step is a step of the bounded FIFO, or invisible to it.
LEMMA StepFifo ==
    N > 1 /\ IInv /\ IInv' /\ PayloadInv /\ [Next]_vars => [Fifo!Next]_<<Contents, outcome>>
<1> SUFFICES ASSUME N > 1, IInv, IInv', PayloadInv, [Next]_vars
             PROVE  Fifo!Next \/ UNCHANGED <<Contents, outcome>>
  OBVIOUS
<1>1. ASSUME NEW p \in Producers, NEW v \in Values, try_push(p, v)
      PROVE  UNCHANGED <<Contents, outcome>>
  <2>1. prod \in [Producers -> Producer]
    BY Types DEF IInv
  <2>2. /\ prod[p].pc = "idle" /\ prod'[p].pc = "turn" /\ \A q \in Producers \ {p} : prod'[q] = prod[q]
        /\ UNCHANGED <<head, tail, buffer, outcome>>
    BY <1>1, <2>1 DEF try_push
  <2>3. \A q \in Producers : /\ (prod'[q].pc = "write") = (prod[q].pc = "write")
                             /\ prod[q].pc = "write" => prod'[q].head = prod[q].head
                                                        /\ prod'[q].item = prod[q].item
    BY <2>2
  <2> QED
    BY <2>2, <2>3, QuietItems
<1>2. ASSUME NEW c \in Consumers, try_pop(c) PROVE UNCHANGED <<Contents, outcome>>
  BY <1>2, QuietItems DEF try_pop
<1>3. CASE UNCHANGED vars
  BY <1>3, QuietItems DEF vars
<1> QED
  BY <1>1, <1>2, <1>3, PushFifo, PopFifo DEF Next

\* The MPMC queue implements the bounded FIFO: items leave once, whole and in the order
\* their slots were claimed, and no more than N positions are ever claimed, for every
\* capacity above one, every width of the indices and any number of threads.
THEOREM MpmcRefinesFifo ==
    ASSUME N > 1
    PROVE  Spec => ImplementsFifo
<1>1. IInv /\ PayloadInv /\ [Next]_vars => PayloadInv'
  BY StepPayload
<1>2. IInv /\ IInv' /\ PayloadInv /\ [Next]_vars => [Fifo!Next]_<<Contents, outcome>>
  BY StepFifo
<1> QED
  BY <1>1, <1>2, InitFifo, MpmcInvariant, PTL DEF Spec, ImplementsFifo, Fifo!Spec

=============================================================================
