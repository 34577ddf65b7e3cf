--------------------------------- MODULE Map ---------------------------------
(***************************************************************************)
(* The contract of dstruct/src/Map.h, which LHash and SArray both present: *)
(* a finite map, and iterators that deliver every entry exactly once, even *)
(* if the entry just delivered is removed.  It is illegal to insert while  *)
(* iterating, and to remove an entry an iterator has still to deliver.     *)
(***************************************************************************)
CONSTANTS
    Keys, Values,
    Zero,       \* the value of a new entry
    NoKey,      \* no key: an empty result
    Iters       \* iterator objects

VARIABLES
    map,        \* the entries, a function from a subset of Keys to Values
    active,     \* the iterators that have not reached the end
    todo,       \* todo[i]: the keys iterator i has still to deliver
    res         \* the entry the last call delivered

vars == <<map, active, todo, res>>

Nothing == [key |-> NoKey, value |-> Zero]

Entry(m, k) == IF k \in DOMAIN m THEN [key |-> k, value |-> m[k]] ELSE Nothing

Init ==
    /\ map = [k \in {} |-> Zero]
    /\ active = {}
    /\ todo = [i \in Iters |-> {}]
    /\ res = Nothing

Find(k) == res' = Entry(map, k) /\ UNCHANGED <<map, active, todo>>

\* An existing entry keeps its value, a new one starts at zero.
Insert(k) ==
    /\ active = {}
    /\ map' = [j \in DOMAIN map \cup {k} |-> IF j \in DOMAIN map THEN map[j] ELSE Zero]
    /\ res' = Entry(map', k)
    /\ UNCHANGED <<active, todo>>

\* The caller writes through the pointer that find() or insert() returned.
Assign(k, v) ==
    /\ k \in DOMAIN map
    /\ map' = [map EXCEPT ![k] = v]
    /\ res' = Entry(map', k)
    /\ UNCHANGED <<active, todo>>

\* The result is the entry that was removed.
RemoveKey(k) ==
    /\ \A i \in active : k \notin todo[i]
    /\ map' = [j \in DOMAIN map \ {k} |-> map[j]]
    /\ res' = Entry(map, k)
    /\ UNCHANGED <<active, todo>>

Clear ==
    /\ active = {}
    /\ map' = [k \in {} |-> Zero]
    /\ res' = Nothing
    /\ UNCHANGED <<active, todo>>

\* The map is assigned to another Map object, which is used from here on.
Copy == active = {} /\ res' = Nothing /\ UNCHANGED <<map, active, todo>>

Start(i) ==
    /\ active' = active \cup {i}
    /\ todo' = [todo EXCEPT ![i] = DOMAIN map]
    /\ res' = Nothing
    /\ UNCHANGED map

Deliver(i) ==
    /\ i \in active
    /\ \E k \in todo[i] :
         /\ todo' = [todo EXCEPT ![i] = @ \ {k}]
         /\ res' = Entry(map, k)
    /\ UNCHANGED <<map, active>>

Finish(i) ==
    /\ i \in active
    /\ todo[i] = {}
    /\ active' = active \ {i}
    /\ res' = Nothing
    /\ UNCHANGED <<map, todo>>

Next ==
    \/ \E k \in Keys : Find(k) \/ Insert(k) \/ RemoveKey(k)
    \/ \E k \in Keys, v \in Values : Assign(k, v)
    \/ Clear \/ Copy
    \/ \E i \in Iters : Start(i) \/ Deliver(i) \/ Finish(i)

Spec == Init /\ [][Next]_vars
===============================================================================
