-------------------------------- MODULE LHash --------------------------------
(***************************************************************************)
(* dstruct/src/LHash.cc: the hash table with linear probing that holds     *)
(* vocabularies, counts and the nodes of n-gram tries.  Tables of fewer    *)
(* than 2^MinHashBits slots are searched linearly and packed; larger ones  *)
(* hash, and a removal moves the entries that the hole would hide.         *)
(***************************************************************************)
EXTENDS Integers, Sequences, FiniteSets, FiniteSetsExt

CONSTANTS
    Keys, Values, Zero,
    NoKey,        \* the key of a free slot (Map_noKey)
    Junk,         \* what a slot holds before its value is initialized
    Iters,        \* iterator objects
    RawHash,      \* RawHash[k]: key * 1103515245 + 12345
    HashShift,    \* the hash code is taken from below this bit (30)
    MinHashBits,  \* minHashBits
    SizeHints,    \* arguments of clear() and setsize()
    Rank          \* the order of the keys for a sorting iterator

ASSUME HashAssumption ==
    /\ RawHash \in [Keys -> Nat] /\ Rank \in [Keys -> Nat]
    /\ \A j, k \in Keys : Rank[j] = Rank[k] => j = k
    /\ HashShift \in Nat /\ MinHashBits \in 0 .. HashShift
    /\ NoKey \notin Keys /\ Zero \in Values /\ SizeHints \subseteq Nat

VARIABLES
    body,         \* NoBody or [bits, n, data]
    iter,         \* iter[i]: [keys, pos, n], the saved keys of an iterator and its position
    active,       \* the iterators in use
    res           \* the entry the last call delivered

vars == <<body, iter, active, res>>

FreeSlot == [key |-> NoKey, value |-> Junk]
Nothing == [key |-> NoKey, value |-> Zero]

Pow2[n \in 0 .. HashShift] == IF n = 0 THEN 1 ELSE 2 * Pow2[n - 1]

\* A null body pointer: no slots.
NoBody == [bits |-> 0, n |-> 0, data |-> <<>>]

Size(b) == Pow2[b.bits]
Used(b) == {i \in 0 .. Size(b) - 1 : b.data[i].key # NoKey}
Hashed(b) == b.bits >= MinHashBits

\* roundSize(): a hashed table is never filled beyond fillRatio (0.8).
RoundSize(size) == IF size < Pow2[MinHashBits] THEN size ELSE ((size + 1) * 5) \div 4

\* Tables stay below LHash_maxBitLimit, which alloc() asserts: as many slots as the hash code tells apart.
ASSUME SizeAssumption ==
    /\ IsFiniteSet(Keys) /\ RoundSize(Cardinality(Keys)) <= Pow2[HashShift]
    /\ \A size \in SizeHints : RoundSize(size) <= Pow2[HashShift]

Alloc(size) ==
    LET bits == Min({b \in 0 .. HashShift : Pow2[b] >= size})
    IN  [bits |-> bits, n |-> 0, data |-> [i \in 0 .. Pow2[bits] - 1 |-> FreeSlot]]

HashKey(k, bits) == (RawHash[k] \div Pow2[HashShift - bits]) % Pow2[bits]

\* The slot a search for k looks at after d collisions.
Probe(b, k, d) == (HashKey(k, b.bits) + d) % Size(b)

\* locate(): where k is, or the place it would take.
Locate(b, k) ==
    IF Hashed(b)
      THEN LET stops == {d \in 0 .. Size(b) - 1 : b.data[Probe(b, k, d)].key \in {k, NoKey}}
               index == Probe(b, k, Min(stops))
           IN  [found |-> b.data[index].key = k, index |-> index]
      ELSE LET hits == {i \in 0 .. b.n - 1 : b.data[i].key = k}
           IN  IF hits = {} THEN [found |-> FALSE, index |-> b.n]
                            ELSE [found |-> TRUE, index |-> Min(hits)]

Has(b, k) == b # NoBody /\ Locate(b, k).found

Slot(b, k) == b.data[Locate(b, k).index]

EntryOf(b, k) == IF Has(b, k) THEN Slot(b, k) ELSE Nothing

\* What has a rank, by rank.
Sorted(rank) ==
    [j \in 1 .. Cardinality(DOMAIN rank) |->
        CHOOSE x \in DOMAIN rank : Cardinality({y \in DOMAIN rank : rank[y] < rank[x]}) = j - 1]

Place(b, slot) == [b EXCEPT !.data[Locate(b, slot.key).index] = slot]

Grow_KeepPlaces(b, size) ==
    LET new == [Alloc(size) EXCEPT !.n = b.n]
    IN  [new EXCEPT !.data = [i \in DOMAIN @ |-> IF i < Size(b) THEN b.data[i] ELSE @[i]]]

\* The entries of b are put in a new body, slot by slot.
Rehashed(b, new) ==
    LET s[r \in 0 .. Size(b)] == IF r = 0 THEN new
                                ELSE IF b.data[r - 1].key = NoKey THEN s[r - 1]
                                ELSE Place(s[r - 1], b.data[r - 1])
    IN  s[Size(b)]

\* A larger body: packed entries are copied, others are hashed again.
Grow(b, size) ==
    LET new == [Alloc(size) EXCEPT !.n = b.n] IN
    IF Hashed(new)
      THEN Rehashed(b, new)
      ELSE [new EXCEPT !.data = [i \in DOMAIN @ |-> IF i < b.n THEN b.data[i] ELSE @[i]]]

\* A new entry: memset and the default constructor zero the value.
Fresh(b, k, index) == [key |-> k, value |-> Zero]

\* insert() without the result.
Added(b, k) ==
    LET base == IF b = NoBody THEN Alloc(1) ELSE b
        need == RoundSize(base.n + 1)
        room == IF need > Size(base) THEN Grow(base, need) ELSE base
        index == Locate(room, k).index
    IN  IF Locate(base, k).found
          THEN base
          ELSE [room EXCEPT !.data[index] = Fresh(room, k, index), !.n = @ + 1]

\* Linear mode: the entries above the removed one move down.
Shifted(b, i) ==
    [b EXCEPT !.data = [j \in DOMAIN @ |-> IF j = b.n - 1 THEN FreeSlot
                                           ELSE IF i <= j /\ j < b.n THEN @[j + 1]
                                           ELSE @[j]]]

Settle_NoMove(b, j) == b

\* An entry that the hole hides from locate() moves into the hole.
Settle(b, j) ==
    LET l == Locate(b, b.data[j].key) IN
    IF l.found THEN b
               ELSE [b EXCEPT !.data[l.index] = b.data[j], !.data[j] = FreeSlot]

\* One round of the removal loop, at slot j: the first free one ends it.
Visit(s, j) ==
    IF s.stop \/ s.body.data[j].key = NoKey THEN [s EXCEPT !.stop = TRUE]
    ELSE [s EXCEPT !.body = Settle(s.body, j)]

\* Hashed mode: entries after the removed one are looked at.
Closed(b, i) ==
    LET s[d \in 0 .. Size(b)] == IF d = 0 THEN [stop |-> FALSE, body |-> [b EXCEPT !.data[i] = FreeSlot]]
                                ELSE Visit(s[d - 1], (i + d) % Size(b))
    IN  s[Size(b)].body

Without(b, k) ==
    LET i == Locate(b, k).index
        rest == IF Hashed(b) THEN Closed(b, i) ELSE Shifted(b, i)
    IN  [rest EXCEPT !.n = @ - 1]

\* operator=: the same number of slots, each entry in its place.
CopyOf(b) == IF b = NoBody THEN b ELSE [Alloc(Size(b)) EXCEPT !.data = b.data, !.n = b.n]

-----------------------------------------------------------------------------

Idle == [keys |-> <<>>, pos |-> 0, n |-> 0]

Init ==
    /\ body = NoBody
    /\ iter = [i \in Iters |-> Idle]
    /\ active = {}
    /\ res = Nothing

Find(k) == res' = EntryOf(body, k) /\ UNCHANGED <<body, iter, active>>

Insert(k) ==
    /\ active = {}
    /\ body' = Added(body, k)
    /\ res' = EntryOf(body', k)
    /\ UNCHANGED <<iter, active>>

\* The caller assigns through the pointer that find() returns.
Assign(k, v) ==
    /\ Has(body, k)
    /\ body' = [body EXCEPT !.data[Locate(body, k).index].value = v]
    /\ res' = [key |-> k, value |-> v]
    /\ UNCHANGED <<iter, active>>

\* The keys an iterator has still to deliver.
Rest(t) == {t.keys[j] : j \in t.pos + 1 .. t.n}
Left(i) == IF i \in active THEN Rest(iter[i]) ELSE {}

RemoveKey(k) ==
    /\ \A i \in active : k \notin Left(i)
    /\ res' = EntryOf(body, k)
    /\ body' = IF Has(body, k) THEN Without(body, k) ELSE body
    /\ UNCHANGED <<iter, active>>

Clear(size) ==
    /\ active = {}
    /\ body' = IF size = 0 THEN NoBody ELSE Alloc(RoundSize(size))
    /\ res' = Nothing
    /\ UNCHANGED <<iter, active>>

SetSize(size) ==
    /\ active = {}
    /\ body = NoBody /\ size # 0
    /\ body' = Alloc(RoundSize(size))
    /\ UNCHANGED <<iter, active, res>>

\* The table is assigned to another one, which is used from here on.
AssignTable ==
    /\ active = {}
    /\ body' = CopyOf(body)
    /\ res' = Nothing
    /\ UNCHANGED <<iter, active>>

\* sortKeys(): the keys are saved in index order, or in the order of the caller's function.
SavedKeys(b, sorted) ==
    LET sortedIndex == Sorted([i \in Used(b) |-> IF sorted THEN Rank[b.data[i].key] ELSE i])
    IN  [j \in DOMAIN sortedIndex |-> b.data[sortedIndex[j]].key]

\* The constructor of LHashIter, or its init().
Started(b, sorted) ==
    [keys |-> IF b = NoBody THEN <<>> ELSE SavedKeys(b, sorted), pos |-> 0, n |-> b.n]

Start(i) ==
    /\ \E sorted \in BOOLEAN : iter' = [iter EXCEPT ![i] = Started(body, sorted)]
    /\ active' = active \cup {i}
    /\ res' = Nothing
    /\ UNCHANGED body

\* next(): the slot that locate() names, whatever it holds.
Deliver(i) ==
    /\ i \in active
    /\ iter[i].pos # iter[i].n
    /\ iter' = [iter EXCEPT ![i].pos = @ + 1]
    /\ res' = Slot(body, iter[i].keys[iter[i].pos + 1])
    /\ UNCHANGED <<body, active>>

\* next() returns null; the saved keys are not read again.
Finish(i) ==
    /\ i \in active
    /\ iter[i].pos = iter[i].n
    /\ iter' = [iter EXCEPT ![i] = Idle]
    /\ active' = active \ {i}
    /\ res' = Nothing
    /\ UNCHANGED body

Next ==
    \/ \E k \in Keys : Find(k)
    \/ \E k \in Keys : Insert(k)
    \/ \E k \in Keys, v \in Values : Assign(k, v)
    \/ \E k \in Keys : RemoveKey(k)
    \/ \E size \in SizeHints : Clear(size)
    \/ \E size \in SizeHints : SetSize(size)
    \/ AssignTable
    \/ \E i \in Iters : Start(i)
    \/ \E i \in Iters : Deliver(i)
    \/ \E i \in Iters : Finish(i)

Spec == Init /\ [][Next]_vars

-----------------------------------------------------------------------------

SlotType == [key : Keys, value : Values] \cup {FreeSlot}

TypeOK ==
    /\ body # NoBody =>
         /\ body.bits \in Nat /\ body.n \in Nat
         /\ body.data \in [0 .. Size(body) - 1 -> SlotType]
    /\ \A i \in Iters : iter[i].keys \in Seq(Keys) /\ iter[i].n = Len(iter[i].keys) /\ iter[i].pos \in 0 .. iter[i].n
    /\ active \subseteq Iters
    /\ res \in SlotType \cup {Nothing}

(* "The invariant used in lookup is that all locations between the hash index *)
(* and the actual index are filled": locate() finds each entry at its place,  *)
(* so that no key is stored twice and none is lost behind a hole.             *)
ProbeInvariant ==
    body # NoBody =>
        \A i \in Used(body) : Locate(body, body.data[i].key) = [found |-> TRUE, index |-> i]

(* nEntries counts the slots in use, and a linear table is packed: sortKeys() *)
(* asserts it, and numEntries() and the linear search depend on it.           *)
CountExact ==
    body # NoBody =>
        /\ body.n = Cardinality(Used(body))
        /\ ~Hashed(body) => Used(body) = 0 .. body.n - 1

(* A hashed table always has a free slot: the search loop of locate() has no *)
(* other way to end for an absent key.                                       *)
RoomLeft == body # NoBody /\ Hashed(body) => Used(body) # 0 .. Size(body) - 1

\* The entries, wherever they are.
EntriesOf(b) == {b.data[i] : i \in Used(b)}

\* Entries as a map.
AsMap(entries) == [k \in {e.key : e \in entries} |-> (CHOOSE e \in entries : e.key = k).value]

Contents == AsMap(IF body = NoBody THEN {} ELSE EntriesOf(body))

Dictionary == INSTANCE Map WITH map <- Contents, todo <- [i \in Iters |-> Left(i)]

(* The table is a map, and its iterators deliver each entry once with its   *)
(* current value, also when entries move because the current one is removed. *)
ImplementsMap == Dictionary!Spec
===============================================================================
