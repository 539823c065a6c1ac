------------------------------ MODULE MpmcQueue ------------------------------
(***************************************************************************)
(* MpmcQueue of src/queue.rs: producers and consumers claim slots of a     *)
(* ring by compare-and-swap on two wrapping indices; a sequence number per *)
(* slot says whose turn it is.  Every atomic operation and every slot      *)
(* access is a step.                                                       *)
(***************************************************************************)
EXTENDS Integers, Sequences, FiniteSets

CONSTANTS N,          \* the capacity, a power of two
          Modulus,    \* 2^w for indices of w bits
          Start,      \* pushes and pops done before the run, modulo Modulus
          Values,     \* the items
          Producers, Consumers,
          MaxPush, MaxPop   \* bounds: calls made; fewer than Modulus, so that no index
                            \* comes round while a call sleeps

ASSUME MpmcAssumption ==
    /\ N \in Nat \ {0} /\ Modulus \in Nat /\ Start \in 0 .. Modulus - 1
    /\ Modulus >= 4 * N /\ Modulus % N = 0
    /\ MaxPush \in 0 .. Modulus - 1 /\ MaxPop \in 0 .. Modulus - 1
    /\ IsFiniteSet(Producers)

VARIABLES
    head, tail,   \* the claimed indices
    sequences,    \* the slots' sequence numbers
    buffer,       \* the slots; "uninit" before the first write
    prod,         \* producers in try_push: pc, local head, the item
    cons,         \* consumers in try_pop: pc, local tail, the item read
    outcome,      \* what the last operation did, at the step where it takes effect
    pushes, pops  \* calls so far

vars == <<head, tail, sequences, buffer, prod, cons, outcome, pushes, pops>>

Slot(i) == i % N      \* index & mask()
Plus(i, k) == (i + k) % Modulus      \* wrapping_add

\* a as isize - b as isize, wrapping: what the comparisons with 0 see.
Diff(a, b) == LET d == (a - b) % Modulus IN IF d < Modulus \div 2 THEN d ELSE d - Modulus

\* As after `Start` calls of each kind: each slot waits for the first position, from Start
\* on, that falls on it (its own number in a new queue).
Init ==
    /\ head = Start /\ tail = Start
    /\ sequences = [i \in 0 .. N - 1 |-> Plus(Start, (i - Start) % N)]
    /\ buffer = [i \in 0 .. N - 1 |-> "uninit"]
    /\ prod = [p \in Producers |-> [pc |-> "idle", head |-> Start, item |-> "uninit"]]
    /\ cons = [c \in Consumers |-> [pc |-> "idle", tail |-> Start, item |-> "uninit"]]
    /\ outcome = <<"none">>
    /\ pushes = 0 /\ pops = 0

-----------------------------------------------------------------------------
(* try_push *)

try_push(p, v) ==
    /\ prod[p].pc = "idle" /\ pushes < MaxPush
    /\ pushes' = pushes + 1
    /\ prod' = [prod EXCEPT ![p] = [pc |-> "turn", head |-> head, item |-> v]]
    /\ UNCHANGED <<head, tail, sequences, buffer, cons, outcome, pops>>

\* Load the slot's sequence number: ours, still the last round's (full), or taken.
push_turn(p) ==
    /\ prod[p].pc = "turn"
    /\ LET diff == Diff(sequences[Slot(prod[p].head)], prod[p].head)
       IN /\ prod' = [prod EXCEPT ![p].pc = IF diff = 0 THEN "claim"
                                            ELSE IF diff < 0 THEN "idle" ELSE "reload"]
          /\ outcome' = IF diff < 0 THEN <<"full">> ELSE outcome
    /\ UNCHANGED <<head, tail, sequences, buffer, cons, pushes, pops>>

push_reload_keeps_head(p) ==
    /\ prod[p].pc = "reload"
    /\ prod' = [prod EXCEPT ![p].pc = "turn"]
    /\ UNCHANGED <<head, tail, sequences, buffer, cons, outcome, pushes, pops>>

push_reload(p) ==
    /\ prod[p].pc = "reload"
    /\ prod' = [prod EXCEPT ![p].pc = "turn", ![p].head = head]
    /\ UNCHANGED <<head, tail, sequences, buffer, cons, outcome, pushes, pops>>

\* Load and store instead of compare-and-swap.
push_claims_blindly(p) ==
    /\ prod[p].pc = "claim"
    /\ head' = Plus(prod[p].head, 1)
    /\ prod' = [prod EXCEPT ![p].pc = "write"]
    /\ outcome' = <<"pushed", prod[p].item>>
    /\ UNCHANGED <<tail, sequences, buffer, cons, pushes, pops>>

push_claim(p) ==
    /\ prod[p].pc = "claim"
    /\ IF head = prod[p].head
       THEN /\ head' = Plus(head, 1)
            /\ prod' = [prod EXCEPT ![p].pc = "write"]
            /\ outcome' = <<"pushed", prod[p].item>>
       ELSE /\ prod' = [prod EXCEPT ![p].pc = "turn", ![p].head = head]
            /\ UNCHANGED <<head, outcome>>
    /\ UNCHANGED <<tail, sequences, buffer, cons, pushes, pops>>

push_write(p) ==
    /\ prod[p].pc = "write"
    /\ buffer' = [buffer EXCEPT ![Slot(prod[p].head)] = prod[p].item]
    /\ prod' = [prod EXCEPT ![p].pc = "publish"]
    /\ UNCHANGED <<head, tail, sequences, cons, outcome, pushes, pops>>

push_publish(p) ==
    /\ prod[p].pc = "publish"
    /\ sequences' = [sequences EXCEPT ![Slot(prod[p].head)] = Plus(prod[p].head, 1)]
    /\ prod' = [prod EXCEPT ![p].pc = "idle"]
    /\ UNCHANGED <<head, tail, buffer, cons, outcome, pushes, pops>>

-----------------------------------------------------------------------------
(* try_pop *)

try_pop(c) ==
    /\ cons[c].pc = "idle" /\ pops < MaxPop
    /\ pops' = pops + 1
    /\ cons' = [cons EXCEPT ![c].pc = "turn", ![c].tail = tail]
    /\ UNCHANGED <<head, tail, sequences, buffer, prod, outcome, pushes>>

pop_turn(c) ==
    /\ cons[c].pc = "turn"
    /\ LET diff == Diff(sequences[Slot(cons[c].tail)], Plus(cons[c].tail, 1))
       IN /\ cons' = [cons EXCEPT ![c].pc = IF diff = 0 THEN "claim"
                                            ELSE IF diff < 0 THEN "idle" ELSE "reload"]
          /\ outcome' = IF diff < 0 THEN <<"empty">> ELSE outcome
    /\ UNCHANGED <<head, tail, sequences, buffer, prod, pushes, pops>>

pop_reload(c) ==
    /\ cons[c].pc = "reload"
    /\ cons' = [cons EXCEPT ![c].pc = "turn", ![c].tail = tail]
    /\ UNCHANGED <<head, tail, sequences, buffer, prod, outcome, pushes, pops>>

pop_claim(c) ==
    /\ cons[c].pc = "claim"
    /\ IF tail = cons[c].tail
       THEN /\ tail' = Plus(tail, 1)
            /\ cons' = [cons EXCEPT ![c].pc = "read"]
            /\ outcome' = <<"popped", buffer[Slot(tail)]>>
       ELSE /\ cons' = [cons EXCEPT ![c].pc = "turn", ![c].tail = tail]
            /\ UNCHANGED <<tail, outcome>>
    /\ UNCHANGED <<head, sequences, buffer, prod, pushes, pops>>

pop_read(c) ==
    /\ cons[c].pc = "read"
    /\ cons' = [cons EXCEPT ![c].pc = "free", ![c].item = buffer[Slot(cons[c].tail)]]
    /\ UNCHANGED <<head, tail, sequences, buffer, prod, outcome, pushes, pops>>

\* The slot is the producer's whose position is N further on.
pop_free(c) ==
    /\ cons[c].pc = "free"
    /\ sequences' = [sequences EXCEPT ![Slot(cons[c].tail)] = Plus(cons[c].tail, N)]
    /\ cons' = [cons EXCEPT ![c].pc = "idle", ![c].item = "uninit"]
    /\ UNCHANGED <<head, tail, buffer, prod, outcome, pushes, pops>>

-----------------------------------------------------------------------------

Push(p) ==
    \/ push_turn(p) \/ push_reload(p) \/ push_claim(p) \/ push_write(p) \/ push_publish(p)

Pop(c) == pop_turn(c) \/ pop_reload(c) \/ pop_claim(c) \/ pop_read(c) \/ pop_free(c)

Next ==
    \/ \E p \in Producers : Push(p) \/ \E v \in Values : try_push(p, v)
    \/ \E c \in Consumers : Pop(c) \/ try_pop(c)

Spec == Init /\ [][Next]_vars

\* The operating system schedules every thread.
FairSpec ==
    /\ Spec
    /\ \A p \in Producers : WF_vars(Push(p))
    /\ \A c \in Consumers : WF_vars(Pop(c))

-----------------------------------------------------------------------------
(* Properties *)

Index == 0 .. Modulus - 1

\* Type invariant: the indices and sequence numbers wrap.
TypeOK ==
    /\ head \in Index /\ tail \in Index
    /\ sequences \in [0 .. N - 1 -> Index]
    /\ buffer \in [0 .. N - 1 -> Values \cup {"uninit"}]
    /\ prod \in [Producers -> [pc : {"idle", "turn", "reload", "claim", "write", "publish"},
                              head : Index, item : Values \cup {"uninit"}]]
    /\ cons \in [Consumers -> [pc : {"idle", "turn", "reload", "claim", "read", "free"},
                              tail : Index, item : Values \cup {"uninit"}]]
    /\ pushes \in 0 .. MaxPush /\ pops \in 0 .. MaxPop

\* "No other producer can write here until we update the sequence.  No consumer can read
\* here": the accesses to one UnsafeCell never overlap.
SlotsExclusive ==
    LET writing == {p \in Producers : prod[p].pc = "write"}
        reading == {c \in Consumers : cons[c].pc = "read"}
    IN /\ \A p, q \in writing : p # q => Slot(prod[p].head) # Slot(prod[q].head)
       /\ \A c, d \in reading : c # d => Slot(cons[c].tail) # Slot(cons[d].tail)
       /\ \A p \in writing, c \in reading : Slot(prod[p].head) # Slot(cons[c].tail)

\* The claimed positions, oldest first: an item counts from the moment its slot is claimed.
Item(i) ==
    IF \E p \in Producers : prod[p].pc = "write" /\ prod[p].head = i
    THEN prod[CHOOSE p \in Producers : prod[p].pc = "write" /\ prod[p].head = i].item
    ELSE buffer[Slot(i)]

Contents == [k \in 1 .. (head - tail) % Modulus |-> Item(Plus(tail, k - 1))]

Fifo == INSTANCE BoundedFifo WITH items <- Contents, Bound <- N, Strict <- FALSE

\* Items leave once, whole and in the order their slots were claimed; "Returns Err(item) if
\* queue is full": no more than N positions are ever claimed.
ImplementsFifo == Fifo!Spec

\* A call returns, however the others are scheduled: each retry is somebody else's success.
CallsEnd ==
    /\ \A p \in Producers : (prod[p].pc # "idle") ~> (prod[p].pc = "idle")
    /\ \A c \in Consumers : (cons[c].pc # "idle") ~> (cons[c].pc = "idle")

=============================================================================
