------------------------------- MODULE XCount -------------------------------
(***************************************************************************)
(* lm/src/XCount.cc: counts of 16 bits.  A small count is stored in place, *)
(* a large one in a table that all counts of a thread share, whose entries *)
(* are counted references.  Free entries are chained through the table.    *)
(***************************************************************************)
EXTENDS Integers, FiniteSets

CONSTANTS
    Objects,      \* places for XCount objects
    MaxInline,    \* XCount_Maxinline, the size of the table, too
    Amounts       \* values that objects are made with and incremented by

VARIABLES
    object,       \* object[x]: none, or what its 16 bits say
    table,        \* xcountTable
    refs,         \* refCounts
    freeList,
    initialized,
    meant         \* the value an object stands for; not in the code

xvars == <<object, table, refs, freeList, initialized, meant>>

Entries == 0 .. MaxInline - 1

Gone == [indirect |-> FALSE, count |-> -1]
Live == {x \in Objects : object[x] # Gone}

\* The thread-local variables start out zeroed.
XInit ==
    /\ object = [x \in Objects |-> Gone]
    /\ table = [i \in Entries |-> 0]
    /\ refs = [i \in Entries |-> 0]
    /\ freeList = 0
    /\ initialized = FALSE
    /\ meant = [x \in Objects |-> 0]

Heap == [table |-> table, refs |-> refs, free |-> freeList, ready |-> initialized]

\* The first use chains all entries; the last one points to where the list began.
Ready(h) ==
    IF h.ready THEN h
    ELSE [h EXCEPT !.table = [i \in Entries |-> IF i = 0 THEN h.free ELSE i - 1],
                   !.free = MaxInline - 1, !.ready = TRUE]

\* getXCountTableIndex() for a value, with its assertion.
HasEntry(h) == Ready(h).free # MaxInline
Taken(h, value) ==
    LET r == Ready(h)
    IN  [r EXCEPT !.free = r.table[r.free], !.refs[r.free] = 1, !.table[r.free] = value]

\* freeXCountTableIndex()
Dropped_Early(h, i) ==
    [h EXCEPT !.refs[i] = @ - 1, !.table[i] = h.free, !.free = i]

Dropped(h, i) ==
    IF h.refs[i] = 1 THEN [h EXCEPT !.refs[i] = 0, !.table[i] = h.free, !.free = i]
    ELSE [h EXCEPT !.refs[i] = @ - 1]

\* XCount(value)
Made(h, value) ==
    IF value <= MaxInline THEN [heap |-> h, bits |-> [indirect |-> FALSE, count |-> value]]
    ELSE [heap |-> Taken(h, value), bits |-> [indirect |-> TRUE, count |-> Ready(h).free]]

\* ~XCount(), and the first step of an assignment.
Released(h, bits) == IF bits.indirect THEN Dropped(h, bits.count) ELSE h

\* The copy constructor, and the last step of an assignment.
Shared(h, bits) == IF bits.indirect THEN [h EXCEPT !.refs[bits.count] = @ + 1] ELSE h

ValueOf(h, bits) == IF bits.indirect THEN h.table[bits.count] ELSE bits.count

Become(h) ==
    /\ table' = h.table /\ refs' = h.refs
    /\ freeList' = h.free /\ initialized' = h.ready

Make(x, value) ==
    /\ object[x] = Gone
    /\ value > MaxInline => HasEntry(Heap)
    /\ Become(Made(Heap, value).heap)
    /\ object' = [object EXCEPT ![x] = Made(Heap, value).bits]
    /\ meant' = [meant EXCEPT ![x] = value]

CopyFrom(x, y) ==
    /\ object[x] = Gone /\ y \in Live
    /\ Become(Shared(Heap, object[y]))
    /\ object' = [object EXCEPT ![x] = object[y]]
    /\ meant' = [meant EXCEPT ![x] = meant[y]]

Destroy(x) ==
    /\ x \in Live
    /\ Become(Released(Heap, object[x]))
    /\ object' = [object EXCEPT ![x] = Gone]
    /\ UNCHANGED meant

\* operator=
AssignCount(x, y) ==
    /\ x \in Live /\ y \in Live
    /\ IF x = y THEN UNCHANGED <<table, refs, freeList, initialized>>
       ELSE Become(Shared(Released(Heap, object[x]), object[y]))
    /\ object' = [object EXCEPT ![x] = object[y]]
    /\ meant' = [meant EXCEPT ![x] = meant[y]]

\* operator+=: the sum is a temporary that is assigned and destroyed.
Increment(x, amount) ==
    LET value == ValueOf(Heap, object[x]) + amount
        sum   == Made(Heap, value)
    IN  /\ x \in Live
        /\ value > MaxInline => HasEntry(Heap)
        /\ Become(Released(Shared(Released(sum.heap, object[x]), sum.bits), sum.bits))
        /\ object' = [object EXCEPT ![x] = sum.bits]
        /\ meant' = [meant EXCEPT ![x] = @ + amount]

XNext ==
    \E x \in Objects :
        \/ \E value \in Amounts : Make(x, value)
        \/ \E y \in Objects : CopyFrom(x, y) \/ AssignCount(x, y)
        \/ Destroy(x)
        \/ \E amount \in Amounts : meant[x] + amount <= 2 * MaxInline /\ Increment(x, amount)

-----------------------------------------------------------------------------
Users(i) == {x \in Live : object[x].indirect /\ object[x].count = i}

\* Counts that share entries and counts that are in each other's way keep their
\* values: an entry is released by the last count that refers to it and no earlier.
CountsKept ==
    /\ \A x \in Live : ValueOf(Heap, object[x]) = meant[x]
    /\ \A i \in Entries : refs[i] = Cardinality(Users(i))
=============================================================================
