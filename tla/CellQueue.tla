------------------------------ MODULE CellQueue ------------------------------
(***************************************************************************)
(* What a Scheduler promises the Manager, without the heap: a collection   *)
(* of items with send times, from which the one taken next is always one   *)
(* of the least send time.                                                 *)
(***************************************************************************)
EXTENDS Integers

CONSTANTS Items,  \* the items that can be scheduled, each at most once
          Times   \* the send times an item can be given

VARIABLES
    pending,  \* the items waiting, each with its send time
    taken     \* the item taken last, or the empty set

vars == <<pending, taken>>

Init == pending = {} /\ taken = {}

Put(i, t) ==
    /\ \A x \in pending : x.item # i
    /\ pending' = pending \cup {[item |-> i, prio |-> t]}
    /\ UNCHANGED taken

Take(x) ==
    /\ \A y \in pending : x.prio <= y.prio
    /\ pending' = pending \ {x}
    /\ taken' = {x}

Next ==
    \/ \E i \in Items, t \in Times : Put(i, t)
    \/ \E x \in pending : Take(x)

Spec == Init /\ [][Next]_vars
=============================================================================
