------------------------------ MODULE SpscQueue ------------------------------
(***************************************************************************)
(* SpscQueue of src/queue.rs: one producer, one consumer, a ring of N      *)
(* slots and two wrapping indices.  Every atomic load and store and every  *)
(* slot access is a step; a comparison of two locals belongs to the load   *)
(* that precedes it.  Any number of calls are made.                        *)
(***************************************************************************)
EXTENDS Integers, Sequences

CONSTANTS N,        \* the capacity, a power of two
          Modulus,  \* 2^w for indices of w bits
          Values    \* the items

ASSUME SpscAssumption ==
    /\ N \in Nat \ {0} /\ Modulus \in Nat
    /\ Modulus >= 2 * N /\ Modulus % N = 0

VARIABLES
    head, tail,   \* the published indices
    buffer,       \* the slots; "uninit" before the first write
    prod,         \* the producer in try_push: pc, its local head, the item
    cons,         \* the consumer in try_pop: pc, its local tail, the item read
    outcome       \* what the last operation did, at the step where it takes effect

vars == <<head, tail, buffer, prod, cons, outcome>>

Index == 0 .. Modulus - 1
Slot(i) == i % N      \* head & mask()
Distance(a, b) == (a - b) % Modulus      \* a.wrapping_sub(b)

Init ==
    /\ head = 0 /\ tail = 0
    /\ buffer = [i \in 0 .. N - 1 |-> "uninit"]
    /\ prod = [pc |-> "idle", head |-> 0, item |-> "uninit"]
    /\ cons = [pc |-> "idle", tail |-> 0, item |-> "uninit"]
    /\ outcome = <<"none">>

-----------------------------------------------------------------------------
(* try_push *)

try_push(v) ==
    /\ prod.pc = "idle"
    /\ prod' = [pc |-> "check", head |-> head, item |-> v]
    /\ UNCHANGED <<head, tail, buffer, cons, outcome>>

\* Load tail; Err(item) when the ring is full.
push_check ==
    /\ prod.pc = "check"
    /\ IF Distance(prod.head, tail) >= N
       THEN prod' = [prod EXCEPT !.pc = "idle"] /\ outcome' = <<"full">>
       ELSE prod' = [prod EXCEPT !.pc = "write"] /\ UNCHANGED outcome
    /\ UNCHANGED <<head, tail, buffer, cons>>

\* As push_write and push_publish, with the store of head in front of the slot.
push_publishes_first ==
    \/ /\ prod.pc = "write"
       /\ head' = (prod.head + 1) % Modulus
       /\ prod' = [prod EXCEPT !.pc = "late"]
       /\ outcome' = <<"pushed", prod.item>>
       /\ UNCHANGED <<tail, buffer, cons>>
    \/ /\ prod.pc = "late"
       /\ buffer' = [buffer EXCEPT ![Slot(prod.head)] = prod.item]
       /\ prod' = [prod EXCEPT !.pc = "idle"]
       /\ UNCHANGED <<head, tail, cons, outcome>>

push_write ==
    /\ prod.pc = "write"
    /\ buffer' = [buffer EXCEPT ![Slot(prod.head)] = prod.item]
    /\ prod' = [prod EXCEPT !.pc = "publish"]
    /\ UNCHANGED <<head, tail, cons, outcome>>

push_publish ==
    /\ prod.pc = "publish"
    /\ head' = (prod.head + 1) % Modulus
    /\ prod' = [prod EXCEPT !.pc = "idle"]
    /\ outcome' = <<"pushed", prod.item>>
    /\ UNCHANGED <<tail, buffer, cons>>

-----------------------------------------------------------------------------
(* try_pop *)

try_pop ==
    /\ cons.pc = "idle"
    /\ cons' = [cons EXCEPT !.pc = "check", !.tail = tail]
    /\ UNCHANGED <<head, tail, buffer, prod, outcome>>

pop_frees_early ==
    /\ cons.pc = "check"
    /\ IF cons.tail = head
       THEN cons' = [cons EXCEPT !.pc = "idle"] /\ outcome' = <<"empty">> /\ UNCHANGED tail
       ELSE /\ cons' = [cons EXCEPT !.pc = "read"] /\ UNCHANGED outcome
            /\ tail' = (cons.tail + 1) % Modulus
    /\ UNCHANGED <<head, buffer, prod>>

\* Load head; None when nothing is published.
pop_check ==
    /\ cons.pc = "check"
    /\ IF cons.tail = head
       THEN cons' = [cons EXCEPT !.pc = "idle"] /\ outcome' = <<"empty">>
       ELSE cons' = [cons EXCEPT !.pc = "read"] /\ UNCHANGED outcome
    /\ UNCHANGED <<head, tail, buffer, prod>>

pop_read ==
    /\ cons.pc = "read"
    /\ cons' = [cons EXCEPT !.pc = "free", !.item = buffer[Slot(cons.tail)]]
    /\ UNCHANGED <<head, tail, buffer, prod, outcome>>

pop_free ==
    /\ cons.pc = "free"
    /\ tail' = (cons.tail + 1) % Modulus
    /\ cons' = [cons EXCEPT !.pc = "idle", !.item = "uninit"]
    /\ outcome' = <<"popped", cons.item>>
    /\ UNCHANGED <<head, buffer, prod>>

-----------------------------------------------------------------------------

Next ==
    \/ \E v \in Values : try_push(v)
    \/ push_check \/ push_write \/ push_publish
    \/ try_pop \/ pop_check \/ pop_read \/ pop_free

Spec == Init /\ [][Next]_vars

-----------------------------------------------------------------------------
(* Properties *)

\* Type invariant: the ring never holds more than N items.
TypeOK ==
    /\ head \in Index /\ tail \in Index
    /\ Distance(head, tail) <= N
    /\ buffer \in [0 .. N - 1 -> Values \cup {"uninit"}]
    /\ prod \in [pc : {"idle", "check", "write", "publish"}, head : Index,
                 item : Values \cup {"uninit"}]
    /\ cons \in [pc : {"idle", "check", "read", "free"}, tail : Index,
                 item : Values \cup {"uninit"}]

\* "The head/tail indices ensure a slot is never accessed by both sides simultaneously":
\* no data race on the UnsafeCell between the producer's write and the consumer's read.
NoSlotRace ==
    prod.pc = "write" /\ cons.pc = "read" => Slot(prod.head) # Slot(cons.tail)

\* The published part of the ring, oldest first.
Contents == [i \in 1 .. Distance(head, tail) |-> buffer[Slot(tail + i - 1)]]

Fifo == INSTANCE BoundedFifo WITH items <- Contents, Bound <- N, Strict <- TRUE

\* try_push and try_pop implement a bounded FIFO: items come out once, whole and in order,
\* Err(item) means full ("Returns Err(item) if queue is full") and None means empty, each
\* at the moment the other side's index is loaded.
ImplementsFifo == Fifo!Spec

=============================================================================
