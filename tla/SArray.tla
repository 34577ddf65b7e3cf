-------------------------------- MODULE SArray --------------------------------
(***************************************************************************)
(* dstruct/src/SArray.cc: the sorted array that can replace LHash in the   *)
(* tries (USE_SARRAY_TRIE).  Entries are kept in key order and packed; the *)
(* number of entries is not stored but searched for.  An iterator without  *)
(* a sort function walks the array itself and relies on the deleted mark   *)
(* to notice that the entry under it was removed.                          *)
(***************************************************************************)
EXTENDS Integers, Sequences, FiniteSets

CONSTANTS
    Keys, Values, Zero,
    Order,        \* Order[k]: the place of key k in SArray_compareKey's order
    NoKey,        \* the key of a free slot
    Junk,         \* memory that was not initialized
    Iters,        \* iterator objects
    GrowNum, GrowDen,   \* growSize is GrowNum / GrowDen (1.1)
    SizeHints     \* arguments of clear() and setsize()

OrderAssumption ==
    /\ Order \in [Keys -> Int]
    /\ \A j, k \in Keys : Order[j] = Order[k] => j = k
    /\ NoKey \notin Keys /\ Junk \notin Keys /\ Zero \in Values
    /\ SizeHints \subseteq Nat
    /\ GrowDen \in Nat \ {0} /\ GrowNum \in Nat /\ GrowNum >= GrowDen

VARIABLES
    body,         \* NullBody or [max, data, deleted]
    iter,         \* iter[i]: [sorted, keys, pos, n]
    active,       \* the iterators in use
    res           \* the entry the last call delivered

vars == <<body, iter, active, res>>

FreeSlot == [key |-> NoKey, value |-> Junk]
Nothing == [key |-> NoKey, value |-> Zero]

IsFree(b, i) == b.data[i].key = NoKey

Alloc(size) ==
    [max |-> size, deleted |-> FALSE, data |-> [i \in 0 .. size - 1 |-> FreeSlot]]

\* A null body pointer: no slots.
NullBody == [max |-> 0, deleted |-> FALSE, data |-> <<>>]

Whole(b) == [lower |-> 0, upper |-> b.max]

Middle(s) == (s.lower + s.upper) \div 2

\* One round of the loop of numEntries(): lower is a used slot, upper is free or the end.
EndRound(b, s) ==
    IF s.lower + 1 >= s.upper THEN s
    ELSE IF IsFree(b, Middle(s)) THEN [s EXCEPT !.upper = Middle(s)]
    ELSE [s EXCEPT !.lower = Middle(s)]

\* Both loops end after as many rounds as there are slots, or before.
NumEntries(b) ==
    LET s[r \in 0 .. b.max] == IF r = 0 THEN Whole(b) ELSE EndRound(b, s[r - 1])
    IN  IF b = NullBody \/ (b # NullBody /\ IsFree(b, 0)) THEN 0 ELSE s[b.max].upper

\* One round of the loop of locate(): free slots count as larger than any key.
KeyRound(b, k, s) ==
    LET middle == Middle(s)
    IN  IF s.lower >= s.upper THEN s
        ELSE IF IsFree(b, middle) \/ Order[k] < Order[b.data[middle].key] THEN [s EXCEPT !.upper = middle]
        ELSE IF Order[k] > Order[b.data[middle].key] THEN [s EXCEPT !.lower = middle + 1]
        ELSE [lower |-> middle, upper |-> middle]

Search(b, k) ==
    LET s[r \in 0 .. b.max] == IF r = 0 THEN Whole(b) ELSE KeyRound(b, k, s[r - 1])
    IN  s[b.max].lower

\* locate(): where k is, or the place it would take.
Locate(b, k) ==
    LET i == Search(b, k)
        past == i = b.max \/ (i < b.max /\ IsFree(b, i))
    IN  CASE ~past /\ b.data[i].key = k -> [found |-> TRUE, index |-> i]
          [] past \/ Order[k] < Order[b.data[i].key] -> [found |-> FALSE, index |-> i]
          [] OTHER -> [found |-> FALSE, index |-> i + 1]

Has(b, k) == b # NullBody /\ Locate(b, k).found

EntryOf(b, k) == IF Has(b, k) THEN b.data[Locate(b, k).index] ELSE Nothing

\* After growing, the slots from here on are marked free.
FilledFrom(b) == b.max + 1

\* The array when a new entry is put at index, in a larger body if it is full.
Opened(b, index, slot) ==
    LET n == NumEntries(b)
        grown == (b.max * GrowNum) \div GrowDen
        max == IF n < b.max THEN b.max ELSE IF grown = n THEN n + 1 ELSE grown
        Contents(i) == CASE i < index -> b.data[i]
                         [] i = index -> slot
                         [] index < i /\ i <= n -> b.data[i - 1]
                         [] n < i /\ i < b.max -> b.data[i]
                         [] i >= b.max /\ i > n /\ i >= FilledFrom(b) -> FreeSlot
                         [] OTHER -> [key |-> Junk, value |-> Junk]
    IN  [b EXCEPT !.max = max, !.data = [i \in 0 .. max - 1 |-> Contents(i)]]

\* insert() without the result; the value of a new entry is zeroed.
Added(b, k) ==
    LET base == IF b = NullBody THEN Alloc(1) ELSE b
        l == Locate(base, k)
    IN  IF l.found THEN base ELSE Opened(base, l.index, [key |-> k, value |-> Zero])

Without_NoMark(b, k) ==
    LET n == NumEntries(b)
        index == Locate(b, k).index
    IN  [b EXCEPT !.data = [i \in DOMAIN @ |-> IF i = n - 1 THEN FreeSlot
                                               ELSE IF index <= i /\ i < n THEN @[i + 1]
                                               ELSE @[i]]]

Without_TailKept(b, k) ==
    [b EXCEPT !.deleted = TRUE,
              !.data = [i \in DOMAIN @ |-> IF Locate(b, k).index <= i /\ i + 1 < NumEntries(b)
                                           THEN @[i + 1] ELSE @[i]]]

\* remove(): the entries above move down, the last slot is freed, and the mark is set.
Without(b, k) == [Without_NoMark(b, k) EXCEPT !.deleted = TRUE]

Unmarked(b) == IF b = NullBody THEN b ELSE [b EXCEPT !.deleted = FALSE]

\* operator=: the entries up to the first free slot, in a body of the same size.
CopyOf(b) ==
    IF b = NullBody THEN b
    ELSE [Alloc(b.max) EXCEPT !.data = [i \in DOMAIN @ |-> IF i < NumEntries(b) THEN b.data[i] ELSE @[i]]]

-----------------------------------------------------------------------------

Idle == [sorted |-> FALSE, keys |-> <<>>, pos |-> 0, n |-> 0]

Init ==
    /\ body = NullBody
    /\ iter = [i \in Iters |-> Idle]
    /\ active = {}
    /\ res = Nothing

Find(k) == res' = EntryOf(body, k) /\ UNCHANGED <<body, iter, active>>

Insert(k) ==
    /\ active = {}
    /\ body' = Added(body, k)
    /\ res' = EntryOf(body', k)
    /\ UNCHANGED <<iter, active>>

\* The caller assigns through the pointer that find() returns.
Assign(k, v) ==
    /\ Has(body, k)
    /\ body' = [body EXCEPT !.data[Locate(body, k).index].value = v]
    /\ res' = [key |-> k, value |-> v]
    /\ UNCHANGED <<iter, active>>

\* How far the mark makes an iterator without sort function step back.
Back(b, t) == IF b # NullBody /\ ~t.sorted /\ b.deleted THEN 1 ELSE 0

AtEnd(b, t) == b = NullBody \/ t.pos - Back(b, t) = t.n - Back(b, t)

\* The keys an iterator has still to deliver.
Rest(b, t) ==
    IF AtEnd(b, t) THEN {}
    ELSE IF t.sorted THEN {t.keys[j] : j \in t.pos + 1 .. t.n}
    ELSE {b.data[j].key : j \in t.pos - Back(b, t) .. t.n - Back(b, t) - 1}

Left(i) == IF i \in active THEN Rest(body, iter[i]) ELSE {}

\* The entry an iterator delivered last, if it is still there.
Current(b, t) ==
    IF t.pos = 0 \/ b = NullBody THEN {}
    ELSE IF t.sorted THEN {t.keys[t.pos]}
    ELSE IF b.deleted THEN {} ELSE {b.data[t.pos - 1].key}

\* "A legal deletion can only affect the current entry" (SArray.cc:580).
Removable(k) ==
    /\ active = {} \/ ~Has(body, k) \/ \E i \in active : k \in Current(body, iter[i])
    /\ \A i \in active : k \notin Left(i)

RemoveKey(k) ==
    /\ Removable(k)
    /\ res' = EntryOf(body, k)
    /\ body' = IF Has(body, k) THEN Without(body, k) ELSE body
    /\ UNCHANGED <<iter, active>>

Clear(size) ==
    /\ active = {}
    /\ body' = IF size = 0 THEN NullBody ELSE Alloc(size)
    /\ res' = Nothing
    /\ UNCHANGED <<iter, active>>

SetSize(size) ==
    /\ active = {}
    /\ body = NullBody /\ size # 0
    /\ body' = Alloc(size)
    /\ UNCHANGED <<iter, active, res>>

\* The array is assigned to another one, which is used from here on.
AssignArray ==
    /\ active = {}
    /\ body' = CopyOf(body)
    /\ res' = Nothing
    /\ UNCHANGED <<iter, active>>

\* sortKeys() with a function that reverses the order of the array.
SortedKeys ==
    LET n == NumEntries(body)
    IN  [j \in 1 .. n |-> body.data[n - j].key]

\* The constructor of SArrayIter, or its init(): both clear the mark.
Start(i) ==
    /\ \E sorted \in BOOLEAN :
         iter' = [iter EXCEPT ![i] = [sorted |-> sorted /\ body # NullBody,
                                      keys |-> IF sorted THEN SortedKeys ELSE <<>>,
                                      pos |-> 0, n |-> NumEntries(body)]]
    /\ active' = active \cup {i}
    /\ body' = Unmarked(body)
    /\ res' = Nothing

\* next() by position, one entry earlier if the current one was removed.
Walk(i) ==
    /\ i \in active /\ ~iter[i].sorted
    /\ ~AtEnd(body, iter[i])
    /\ iter' = [iter EXCEPT ![i].pos = @ - Back(body, iter[i]) + 1, ![i].n = @ - Back(body, iter[i])]
    /\ res' = body.data[iter[i].pos - Back(body, iter[i])]
    /\ body' = Unmarked(body)
    /\ UNCHANGED active

\* next() with a sort function: the saved keys are looked up again.
WalkSorted(i) ==
    /\ i \in active /\ iter[i].sorted
    /\ ~AtEnd(body, iter[i])
    /\ iter' = [iter EXCEPT ![i].pos = @ + 1]
    /\ res' = body.data[Locate(body, iter[i].keys[iter[i].pos + 1]).index]
    /\ body' = Unmarked(body)
    /\ UNCHANGED active

Finish(i) ==
    /\ i \in active
    /\ AtEnd(body, iter[i])
    /\ iter' = [iter EXCEPT ![i] = Idle]
    /\ active' = active \ {i}
    /\ res' = Nothing
    /\ UNCHANGED body

Next ==
    \/ \E k \in Keys : Find(k)
    \/ \E k \in Keys : Insert(k)
    \/ \E k \in Keys, v \in Values : Assign(k, v)
    \/ \E k \in Keys : RemoveKey(k)
    \/ \E size \in SizeHints : Clear(size)
    \/ \E size \in SizeHints : SetSize(size)
    \/ AssignArray
    \/ \E i \in Iters : Start(i)
    \/ \E i \in Iters : Walk(i)
    \/ \E i \in Iters : WalkSorted(i)
    \/ \E i \in Iters : Finish(i)

Spec == Init /\ [][Next]_vars

-----------------------------------------------------------------------------

SlotType == [key : Keys, value : Values] \cup {FreeSlot}

TypeOK ==
    /\ body # NullBody =>
         /\ body.max \in Nat \ {0} /\ body.deleted \in BOOLEAN
         /\ body.data \in [0 .. body.max - 1 -> SlotType]
    /\ \A i \in Iters : /\ iter[i].sorted \in BOOLEAN /\ iter[i].keys \in Seq(Keys)
                        /\ iter[i].n \in Nat /\ iter[i].pos \in 0 .. iter[i].n
    /\ active \subseteq Iters
    /\ res \in SlotType \cup {Nothing}

(* The entries are packed and in strictly increasing key order: what both   *)
(* binary searches, locate() and numEntries(), silently depend on.          *)
Packed ==
    body # NullBody =>
        \A i, j \in 0 .. body.max - 1 :
            i < j /\ ~IsFree(body, j) =>
                ~IsFree(body, i) /\ Order[body.data[i].key] < Order[body.data[j].key]

(* "Detect deletion while iterating": the number of entries an iterator     *)
(* expects, less the pending deletion, is the number there are.             *)
IteratorSeesDeletions ==
    \A i \in active : body # NullBody /\ ~iter[i].sorted => iter[i].n - Back(body, iter[i]) = NumEntries(body)

\* The entries, wherever they are.
EntriesOf(b) ==
    LET slots == {b.data[i] : i \in {j \in 0 .. b.max - 1 : ~IsFree(b, j)}}
    IN  [k \in {s.key : s \in slots} |-> (CHOOSE s \in slots : s.key = k).value]

Contents == EntriesOf(body)

Dictionary == INSTANCE Map WITH map <- Contents, todo <- [i \in Iters |-> Left(i)]

(* The array is a map, and its iterator delivers each entry once with its    *)
(* current value, also when the current entry is removed under it.           *)
ImplementsMap == Dictionary!Spec
===============================================================================
