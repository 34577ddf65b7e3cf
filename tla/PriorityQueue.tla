---------------------------- MODULE PriorityQueue ----------------------------
(***************************************************************************)
(* What the search queues of the lattice decoder and of the lattice N-best *)
(* generator expect: both a best and a worst element can be looked at and  *)
(* then removed, and the element removed is the one looked at.             *)
(***************************************************************************)
EXTENDS Integers

CONSTANTS
    Items,      \* the hypotheses that can be queued, each at most once
    Rank,       \* Rank[x]: the score of x; several items may have the same
    NoItem

VARIABLES
    queue,      \* the items waiting
    res         \* the item the last call looked at and removed

vars == <<queue, res>>

Init == queue = {} /\ res = NoItem

Push(x) ==
    /\ x \in Items \ queue
    /\ queue' = queue \cup {x}
    /\ res' = NoItem

PopMin ==
    \E x \in queue :
        /\ \A y \in queue : Rank[x] <= Rank[y]
        /\ queue' = queue \ {x}
        /\ res' = x

PopMax ==
    \E x \in queue :
        /\ \A y \in queue : Rank[x] >= Rank[y]
        /\ queue' = queue \ {x}
        /\ res' = x

Next == PopMin \/ PopMax \/ \E x \in Items : Push(x)

Spec == Init /\ [][Next]_vars
===============================================================================
