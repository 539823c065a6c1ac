----------------------------- MODULE BoundedFifo -----------------------------
(***************************************************************************)
(* What src/queue.rs promises of its queues: a bounded first-in first-out  *)
(* buffer whose try_push and try_pop never block.  `outcome` is what the   *)
(* last completed operation did.  A Strict queue turns an operation away   *)
(* only when it is full or empty; otherwise a turned away operation says   *)
(* nothing about the queue.                                                *)
(***************************************************************************)
EXTENDS Integers, Sequences

CONSTANTS Values,    \* the items
          Bound,     \* the most items it holds
          Strict     \* whether full means full and empty means empty

VARIABLES items, outcome

Outcomes == {<<"none">>, <<"full">>, <<"empty">>} \cup ({"pushed", "popped"} \X Values)

Init == items = <<>> /\ outcome = <<"none">>

Push(v) ==
    /\ Len(items) < Bound
    /\ items' = Append(items, v)
    /\ outcome' = <<"pushed", v>>

PushFull ==
    /\ Strict => Len(items) = Bound
    /\ outcome' = <<"full">>
    /\ UNCHANGED items

Pop ==
    /\ items # <<>>
    /\ items' = Tail(items)
    /\ outcome' = <<"popped", Head(items)>>

PopEmpty ==
    /\ Strict => items = <<>>
    /\ outcome' = <<"empty">>
    /\ UNCHANGED items

Next == (\E v \in Values : Push(v)) \/ PushFull \/ Pop \/ PopEmpty

Spec == Init /\ [][Next]_<<items, outcome>>
=============================================================================
