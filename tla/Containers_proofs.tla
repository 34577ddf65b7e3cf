------------------------- MODULE Containers_proofs -------------------------
(***************************************************************************)
(* Proofs about two of the containers: the hash table (LHash) and the      *)
(* interval heap (IntervalHeap).                                           *)
(***************************************************************************)
EXTENDS LHash, IntervalHeap, Loops, FiniteSetTheorems, TLAPS

-----------------------------------------------------------------------------
(***************************************************************************)
(* Proofs about LHash for every set of keys, every hash function and every *)
(* threshold of hashing: searches end, and end where a key is or belongs;  *)
(* removals leave no hole before an entry; the table is a map, and its     *)
(* iterators deliver each entry once.                                      *)
(***************************************************************************)

-----------------------------------------------------------------------------
(* Numbers: powers of two, sizes, and the way round the table. *)

(* Pow2 is what its definition says.                                         *)
LEMMA PowRounds ==
    /\ Pow2[0] = 1
    /\ \A n \in 0 .. HashShift : Pow2[n] \in Nat
    /\ \A n \in 1 .. HashShift : Pow2[n] = 2 * Pow2[n - 1]
<1> DEFINE F == [x \in Nat |-> 2 * x]
           G(f) == [n \in 0 .. HashShift |-> IF n = 0 THEN 1 ELSE 2 * f[n - 1]]
           g == CHOOSE f : f = G(f)
<1>1. HashShift \in Nat
  BY HashAssumption
<1>2. F \in [Nat -> Nat] /\ \A x \in Nat : F[x] = 2 * x
  OBVIOUS
<1>3. Pow2 = g
  BY DEF Pow2
<1> HIDE DEF F
<1>4. PICK s : Runs(s, HashShift, 1, F, Nat)
  BY <1>1, <1>2, RoundsExist
<1>5. /\ s = [n \in 0 .. HashShift |-> s[n]] /\ s[0] = 1
      /\ \A n \in 0 .. HashShift : s[n] \in Nat
      /\ \A n \in 1 .. HashShift : s[n] = F[s[n - 1]] /\ s[n - 1] \in Nat
  <2>1. /\ s \in [0 .. HashShift -> Nat] /\ s[0] = 1
        /\ \A n \in 1 .. HashShift : s[n] = F[s[n - 1]]
    BY <1>4 DEF Runs
  <2>2. \A n \in 1 .. HashShift : n - 1 \in 0 .. HashShift
    BY <1>1
  <2>3. \A n \in 0 .. HashShift : s[n] \in Nat
    BY <2>1
  <2>4. s = [n \in 0 .. HashShift |-> s[n]]
    BY <2>1
  <2> QED
    BY <2>1, <2>2, <2>3, <2>4
<1>6. \A n \in 0 .. HashShift : s[n] = IF n = 0 THEN 1 ELSE 2 * s[n - 1]
  <2> TAKE n \in 0 .. HashShift
  <2>1. n # 0 => n \in 1 .. HashShift
    BY <1>1
  <2> QED
    BY <1>2, <1>5, <2>1
<1>7. s = G(s)
  BY <1>5, <1>6
<1>8. g = G(g)
  BY <1>7
<1> HIDE DEF g
<1>9. /\ g = [n \in 0 .. HashShift |-> g[n]]
      /\ \A n \in 0 .. HashShift : g[n] = IF n = 0 THEN 1 ELSE 2 * g[n - 1]
  BY <1>8
<1>10. Unrolls(g, HashShift, 1, F, Nat)
  <2>1. g[0] = 1 /\ \A n \in 1 .. HashShift : g[n] = 2 * g[n - 1]
    <3>1. 0 \in 0 .. HashShift /\ \A n \in 1 .. HashShift : n \in 0 .. HashShift /\ n # 0
      BY <1>1
    <3>2. g[0] = 1
      BY <1>9, <3>1
    <3>3. ASSUME NEW n \in 1 .. HashShift PROVE g[n] = 2 * g[n - 1]
      BY <1>9, <3>1
    <3> QED
      BY <3>2, <3>3
  <2> QED
    BY <1>2, <1>9, <2>1 DEF Unrolls
<1>11. g = s
  BY <1>1, <1>4, <1>10, RoundsUnique
<1> QED
  BY <1>2, <1>3, <1>5, <1>11

(* They are positive and grow.                                               *)
LEMMA Powers ==
    /\ \A n \in 0 .. HashShift : Pow2[n] \in Nat \ {0}
    /\ \A m, n \in 0 .. HashShift : m < n => Pow2[m] < Pow2[n]
    /\ \A m, n \in 0 .. HashShift : m <= n => Pow2[m] <= Pow2[n]
<1>1. HashShift \in Nat
  BY HashAssumption
<1> DEFINE T == {n \in 0 .. HashShift : Pow2[n] > 0 /\ \A m \in 0 .. n - 1 : Pow2[m] < Pow2[n]}
<1>2. 0 \in T
  BY <1>1, PowRounds
<1>3. ASSUME NEW n \in 0 .. HashShift - 1, n \in T
      PROVE  n + 1 \in T
  <2>1. /\ n + 1 \in 1 .. HashShift /\ (n + 1) - 1 = n /\ n + 1 \in 0 .. HashShift
        /\ \A m \in 0 .. n : m \in 0 .. HashShift
        /\ \A m \in 0 .. n : m \in 0 .. n - 1 \/ m = n
        /\ n \in 0 .. n
    BY <1>1
  <2>2. Pow2[n + 1] = 2 * Pow2[n] /\ Pow2[n] \in Nat /\ Pow2[n] > 0 /\ \A m \in 0 .. n : Pow2[m] \in Nat
    BY <1>3, <2>1, PowRounds
  <2>3. \A m \in 0 .. n : Pow2[m] <= Pow2[n]
    BY <1>3, <2>1, <2>2
  <2>4. \A m \in 0 .. n : Pow2[m] < Pow2[n + 1]
    BY <2>2, <2>3
  <2>5. Pow2[n + 1] > 0
    BY <2>2
  <2> QED
    BY <2>1, <2>4, <2>5
<1>4. 0 .. HashShift \subseteq T
  <2>1. T \in SUBSET Nat /\ \A n \in 0 .. HashShift - 1 : n \in T => n + 1 \in T
    BY <1>3
  <2> HIDE DEF T
  <2> QED
    BY <1>1, <1>2, <2>1, UpTo
<1>5. \A n \in 0 .. HashShift : Pow2[n] > 0 /\ \A m \in 0 .. n - 1 : Pow2[m] < Pow2[n]
  BY <1>4
<1>6. \A m, n \in 0 .. HashShift : m < n => m \in 0 .. n - 1
  BY <1>1
<1>7. \A m, n \in 0 .. HashShift : m < n => Pow2[m] < Pow2[n]
  BY <1>5, <1>6
<1>8. \A m, n \in 0 .. HashShift : m <= n => Pow2[m] <= Pow2[n]
  BY <1>1, <1>7, PowRounds
<1>9. \A n \in 0 .. HashShift : Pow2[n] \in Nat \ {0}
  BY <1>5, PowRounds
<1> QED
  BY <1>7, <1>8, <1>9

(* roundSize() leaves a hashed table with a free slot.                       *)
LEMMA RoundSizes ==
    /\ \A s \in Nat : RoundSize(s) \in Nat /\ s <= RoundSize(s)
    /\ \A s \in Nat : Pow2[MinHashBits] <= s => s < RoundSize(s)
    /\ \A s \in Nat : \A t \in Nat : s <= t => RoundSize(s) <= RoundSize(t)
<1> DEFINE P == Pow2[MinHashBits]
<1>1. P \in Nat
  BY Powers, HashAssumption
<1>2. \A s \in Nat : RoundSize(s) = IF s < P THEN s ELSE ((s + 1) * 5) \div 4
  BY DEF RoundSize
<1> HIDE DEF P
<1>3. \A s \in Nat : ((s + 1) * 5) \div 4 \in Nat /\ s < ((s + 1) * 5) \div 4
  OBVIOUS
<1>4. \A s \in Nat : \A t \in Nat : s <= t => ((s + 1) * 5) \div 4 <= ((t + 1) * 5) \div 4
  OBVIOUS
<1>5. \A s \in Nat : RoundSize(s) \in Nat /\ s <= RoundSize(s)
  BY <1>2, <1>3
<1>6. \A s \in Nat : P <= s => s < RoundSize(s)
  BY <1>1, <1>2, <1>3
<1>7. ASSUME NEW s \in Nat, NEW t \in Nat, s <= t
      PROVE  RoundSize(s) <= RoundSize(t)
  <2>1. CASE t < P
    BY <1>1, <1>2, <1>7, <2>1
  <2>2. CASE s < P /\ ~(t < P)
    BY <1>1, <1>2, <1>3, <1>7, <2>2
  <2>3. CASE ~(s < P)
    BY <1>1, <1>2, <1>4, <1>7, <2>3
  <2> QED
    BY <1>1, <2>1, <2>2, <2>3
<1> QED
  BY <1>5, <1>6, <1>7 DEF P

(* The least of a set of numbers.                                            *)
LEMMA MinIs ==
    ASSUME NEW S \in SUBSET Int, NEW x \in S, \A y \in S : x <= y
    PROVE  Min(S) = x
<1> DEFINE z == CHOOSE z \in S : \A y \in S : z <= y
<1>1. z \in S /\ \A y \in S : z <= y
  OBVIOUS
<1>2. Min(S) = z
  BY DEF Min
<1> HIDE DEF z
<1>3. z <= x /\ x <= z /\ z \in Int /\ x \in Int
  BY <1>1
<1> QED
  BY <1>2, <1>3

\* The number of steps from slot h to slot y, around the end.
Way(N, h, y) == IF h <= y THEN y - h ELSE N + y - h

(* Each slot is a number of steps away.                                      *)
LEMMA WayRound ==
    ASSUME NEW N \in Nat \ {0}, NEW h \in 0 .. N - 1
    PROVE  /\ \A y \in 0 .. N - 1 : Way(N, h, y) \in 0 .. N - 1 /\ (h + Way(N, h, y)) % N = y
           /\ \A d \in 0 .. N - 1 : (h + d) % N \in 0 .. N - 1 /\ Way(N, h, (h + d) % N) = d
           /\ \A x, y \in 0 .. N - 1 : Way(N, h, x) = Way(N, h, y) => x = y
<1>1. ASSUME NEW d \in 0 .. N - 1
      PROVE  (h + d) % N = IF h + d < N THEN h + d ELSE h + d - N
  <2>1. CASE h + d < N
    BY <2>1
  <2>2. CASE ~(h + d < N)
    BY <2>2
  <2> QED
    BY <2>1, <2>2
<1>2. \A y \in 0 .. N - 1 : Way(N, h, y) \in 0 .. N - 1
  BY DEF Way
<1>3. ASSUME NEW y \in 0 .. N - 1
      PROVE  (h + Way(N, h, y)) % N = y
  <2>1. (h + Way(N, h, y)) % N = IF h + Way(N, h, y) < N THEN h + Way(N, h, y) ELSE h + Way(N, h, y) - N
    BY <1>1, <1>2
  <2> QED
    BY <2>1 DEF Way
<1>4. ASSUME NEW d \in 0 .. N - 1
      PROVE  (h + d) % N \in 0 .. N - 1 /\ Way(N, h, (h + d) % N) = d
  <2> DEFINE x == (h + d) % N
  <2>1. x = IF h + d < N THEN h + d ELSE h + d - N
    BY <1>1
  <2> HIDE DEF x
  <2>2. x \in 0 .. N - 1 /\ Way(N, h, x) = d
    BY <2>1 DEF Way
  <2> QED
    BY <2>2 DEF x
<1>5. \A x, y \in 0 .. N - 1 : Way(N, h, x) = Way(N, h, y) => x = y
  BY DEF Way
<1> QED
  BY <1>2, <1>3, <1>4, <1>5

(* Who goes from h to x by way of a passes b, if b is between a and x.       *)
LEMMA Passes ==
    ASSUME NEW N \in Nat \ {0}, NEW i \in 0 .. N - 1, NEW h \in 0 .. N - 1,
           NEW a \in 0 .. N - 1, NEW b \in 0 .. N - 1, NEW x \in 0 .. N - 1,
           Way(N, h, a) < Way(N, h, x),
           \/ Way(N, i, a) < Way(N, i, b) /\ Way(N, i, b) < Way(N, i, x)
           \/ Way(N, i, x) < Way(N, i, a) /\ Way(N, i, a) < Way(N, i, b)
    PROVE  Way(N, h, b) < Way(N, h, x)
BY DEF Way

-----------------------------------------------------------------------------
(* Searches. *)

Entry == [key : Keys, value : Values]
Slots(b) == 0 .. Size(b) - 1

\* A body with slots that hold entries or are free.
Shaped(b) ==
    /\ b = [bits |-> b.bits, n |-> b.n, data |-> b.data]
    /\ b.bits \in 0 .. HashShift /\ b.n \in Nat
    /\ b.data = [i \in Slots(b) |-> b.data[i]]
    /\ \A i \in Slots(b) : b.data[i] \in Entry \cup {FreeSlot}

Unique(b) == \A i, j \in Used(b) : b.data[i].key = b.data[j].key => i = j

\* Slot y comes before slot x in a search for k.
Before(b, k, y, x) ==
    Way(Size(b), HashKey(k, b.bits), y) < Way(Size(b), HashKey(k, b.bits), x)

\* "All locations between the hash index and the actual index are filled."
Linked(b) == \A x \in Used(b), y \in Slots(b) : Before(b, b.data[x].key, y, x) => y \in Used(b)

\* Where each search finds what is there, and a place for what is not.
Ordered(b) ==
    /\ Shaped(b) /\ Unique(b)
    /\ Hashed(b) => Linked(b)
    /\ ~Hashed(b) => Used(b) = 0 .. b.n - 1

\* The slot where a hashed search for k ends.
First(b, k, y) ==
    /\ y \in Slots(b) /\ b.data[y].key \in {k, NoKey}
    /\ \A x \in Slots(b) : Before(b, k, x, y) => b.data[x].key \notin {k, NoKey}

(* Free slots are those without a key.                                       *)
LEMMA SlotFacts ==
    ASSUME NEW b, Shaped(b)
    PROVE  /\ Size(b) \in Nat \ {0} /\ Used(b) \subseteq Slots(b) /\ IsFiniteSet(Used(b))
           /\ \A i \in Used(b) : b.data[i] \in Entry /\ b.data[i].key \in Keys
           /\ \A i \in Slots(b) : i \notin Used(b) => b.data[i] = FreeSlot /\ b.data[i].key = NoKey
           /\ \A i \in Slots(b) : i \in Used(b) <=> b.data[i].key # NoKey
           /\ \A k \in Keys : HashKey(k, b.bits) \in Slots(b)
           /\ b # NoBody
<1>1. Size(b) \in Nat \ {0}
  BY Powers DEF Shaped, Size
<1>2. \A i \in Slots(b) : b.data[i] \in Entry \/ b.data[i] = FreeSlot
  BY DEF Shaped
<1>3. FreeSlot.key = NoKey /\ NoKey \notin Keys
  BY HashAssumption DEF FreeSlot
<1>4. \A e \in Entry : e.key \in Keys
  BY DEF Entry
<1>5. \A i : i \in Used(b) <=> i \in Slots(b) /\ b.data[i].key # NoKey
  BY DEF Used, Slots
<1>6. IsFiniteSet(Used(b))
  <2>1. IsFiniteSet(0 .. Size(b) - 1)
    BY <1>1, FS_Interval
  <2> QED
    BY <2>1, FS_Subset DEF Used
<1>7. ASSUME NEW k \in Keys PROVE HashKey(k, b.bits) \in Slots(b)
  <2>1. /\ RawHash[k] \in Nat /\ Pow2[HashShift - b.bits] \in Nat \ {0}
        /\ Size(b) = Pow2[b.bits]
    <3>1. HashShift - b.bits \in 0 .. HashShift /\ b.bits \in 0 .. HashShift
      BY HashAssumption DEF Shaped
    <3> QED
      BY <3>1, Powers, HashAssumption DEF Size
  <2>2. RawHash[k] \div Pow2[HashShift - b.bits] \in Int
    BY <2>1
  <2>3. ASSUME NEW x \in Int PROVE x % Size(b) \in 0 .. Size(b) - 1
    BY <1>1
  <2> QED
    BY <2>1, <2>2, <2>3 DEF HashKey, Slots
<1>8. b # NoBody
  <2>1. 0 \in Slots(b)
    BY <1>1 DEF Slots
  <2>2. DOMAIN b.data = Slots(b)
    BY DEF Shaped
  <2>3. DOMAIN NoBody.data = {}
    BY DEF NoBody
  <2> QED
    BY <2>1, <2>2, <2>3
<1> QED
  BY <1>1, <1>2, <1>3, <1>4, <1>5, <1>6, <1>7, <1>8

(* locate() in a hashed table: the loop ends at the first slot that has the  *)
(* key or none.                                                              *)
LEMMA FirstLocated ==
    ASSUME NEW b, Shaped(b), Hashed(b), NEW k \in Keys, NEW y, First(b, k, y)
    PROVE  Locate(b, k) = [found |-> (b.data[y].key = k), index |-> y]
<1> DEFINE N == Size(b)
           h == HashKey(k, b.bits)
           stops == {d \in 0 .. N - 1 : b.data[Probe(b, k, d)].key \in {k, NoKey}}
           D == Way(N, h, y)
<1>1. N \in Nat \ {0} /\ h \in 0 .. N - 1 /\ y \in 0 .. N - 1
  BY SlotFacts DEF First, Slots
<1>2. \A d : Probe(b, k, d) = (h + d) % N
  BY DEF Probe
<1>3. /\ \A x \in 0 .. N - 1 : Way(N, h, x) \in 0 .. N - 1 /\ (h + Way(N, h, x)) % N = x
      /\ \A d \in 0 .. N - 1 : (h + d) % N \in 0 .. N - 1 /\ Way(N, h, (h + d) % N) = d
  BY <1>1, WayRound
<1>4. b.data[y].key \in {k, NoKey}
  BY DEF First
<1>5. \A x \in 0 .. N - 1 : Way(N, h, x) < D => b.data[x].key \notin {k, NoKey}
  BY DEF First, Before, Slots
<1> HIDE DEF N, h, D
<1>6. D \in stops
  BY <1>1, <1>2, <1>3, <1>4 DEF D
<1>7. ASSUME NEW d \in stops PROVE D <= d
  <2>1. d \in 0 .. N - 1 /\ (h + d) % N \in 0 .. N - 1 /\ Way(N, h, (h + d) % N) = d
    BY <1>3
  <2>2. b.data[(h + d) % N].key \in {k, NoKey}
    BY <1>2
  <2>3. ~(Way(N, h, (h + d) % N) < D)
    BY <1>5, <2>1, <2>2
  <2>4. D \in Int
    BY <1>6
  <2> QED
    BY <2>1, <2>3, <2>4
<1>8. stops \in SUBSET Int
  BY <1>1
<1>9. Min(stops) = D
  <2> HIDE DEF stops
  <2> QED
    BY <1>6, <1>7, <1>8, MinIs
<1>10. Probe(b, k, Min(stops)) = y
  <2>1. (h + D) % N = y
    BY <1>1, <1>3 DEF D
  <2> HIDE DEF stops
  <2> QED
    BY <1>2, <1>9, <2>1
<1>11. Locate(b, k) = [found |-> (b.data[Probe(b, k, Min(stops))].key = k), index |-> Probe(b, k, Min(stops))]
  BY DEF Locate, N
<1> HIDE DEF stops
<1> QED
  BY <1>10, <1>11

(* A search of a hashed table ends if some slot can end it.                  *)
LEMMA FirstExists ==
    ASSUME NEW b, Shaped(b), NEW k \in Keys, NEW z \in Slots(b), b.data[z].key \in {k, NoKey}
    PROVE  \E y : First(b, k, y)
<1> DEFINE N == Size(b)
           h == HashKey(k, b.bits)
           T == {Way(N, h, y) : y \in {x \in Slots(b) : b.data[x].key \in {k, NoKey}}}
<1>1. N \in Nat \ {0} /\ h \in 0 .. N - 1 /\ Slots(b) = 0 .. N - 1
  BY SlotFacts DEF Slots
<1>2. \A x \in Slots(b) : Way(N, h, x) \in Nat
  BY <1>1, WayRound
<1>3. T \in SUBSET Nat /\ T # {}
  BY <1>2
<1>4. PICK d \in T : \A e \in T : d <= e
  <2> HIDE DEF T
  <2> QED
    BY <1>3, LeastElement
<1>5. PICK y \in Slots(b) : b.data[y].key \in {k, NoKey} /\ Way(N, h, y) = d
  BY <1>4
<1>6. ASSUME NEW x \in Slots(b), Before(b, k, x, y), b.data[x].key \in {k, NoKey}
      PROVE  FALSE
  <2>1. Way(N, h, x) \in T
    BY <1>6
  <2>2. d <= Way(N, h, x) /\ Way(N, h, x) < d
    BY <1>4, <1>5, <1>6, <2>1 DEF Before
  <2>3. d \in Int /\ Way(N, h, x) \in Int
    BY <1>2, <1>3
  <2> HIDE DEF T
  <2> QED
    BY <2>2, <2>3
<1>7. First(b, k, y)
  BY <1>5, <1>6 DEF First
<1> QED
  BY <1>7

(* Each entry is found where it is.                                          *)
LEMMA UsedLocated ==
    ASSUME NEW b, Ordered(b), NEW i \in Used(b)
    PROVE  Locate(b, b.data[i].key) = [found |-> TRUE, index |-> i]
<1> DEFINE k == b.data[i].key
<1>1. /\ Shaped(b) /\ Unique(b) /\ k \in Keys /\ i \in Slots(b)
      /\ \A x \in Slots(b) : x \in Used(b) <=> b.data[x].key # NoKey
      /\ Size(b) \in Nat \ {0}
  BY SlotFacts DEF Ordered
<1> HIDE DEF k
<1>2. CASE Hashed(b)
  <2>1. ASSUME NEW x \in Slots(b), Before(b, k, x, i), b.data[x].key \in {k, NoKey}
        PROVE  FALSE
    <3>1. x \in Used(b)
      BY <1>2, <2>1 DEF Ordered, Linked, k
    <3>2. x = i
      BY <1>1, <2>1, <3>1 DEF Unique, k
    <3>3. Way(Size(b), HashKey(k, b.bits), i) \in Int
      BY <1>1, WayRound, SlotFacts DEF Slots
    <3> QED
      BY <2>1, <3>2, <3>3 DEF Before
  <2>2. First(b, k, i)
    BY <1>1, <2>1 DEF First, k
  <2>3. Locate(b, k) = [found |-> (b.data[i].key = k), index |-> i]
    BY <1>1, <1>2, <2>2, FirstLocated
  <2> QED
    BY <2>3 DEF k
<1>3. CASE ~Hashed(b)
  <2> DEFINE hits == {x \in 0 .. b.n - 1 : b.data[x].key = k}
  <2>1. Used(b) = 0 .. b.n - 1 /\ b.n \in Nat
    BY <1>1, <1>3 DEF Ordered, Shaped
  <2>2. hits = {i}
    BY <1>1, <2>1 DEF Unique, k
  <2>3. Min(hits) = i /\ hits # {}
    <3>1. i \in Int
      BY <1>1 DEF Slots
    <3>2. {i} \in SUBSET Int /\ i \in {i} /\ \A y \in {i} : i <= y
      BY <3>1
    <3>3. Min({i}) = i
      BY <3>2, MinIs
    <3> QED
      BY <2>2, <3>3
  <2>4. Locate(b, k) = IF hits = {} THEN [found |-> FALSE, index |-> b.n] ELSE [found |-> TRUE, index |-> Min(hits)]
    BY <1>3 DEF Locate
  <2> HIDE DEF hits
  <2> QED
    BY <2>3, <2>4 DEF k
<1> QED
  BY <1>2, <1>3

\* The keys that are there.
Stored(b) == {b.data[i].key : i \in Used(b)}

\* A free slot that a search for k reaches.
Open(b, k, y) ==
    /\ y \in Slots(b) \ Used(b)
    /\ Hashed(b) => \A x \in Slots(b) : Before(b, k, x, y) => x \in Used(b)
    /\ ~Hashed(b) => y = b.n

(* A key that is not there is not found, and its place is free.              *)
LEMMA AbsentLocated ==
    ASSUME NEW b, Ordered(b), NEW k \in Keys \ Stored(b), Hashed(b) => Used(b) # Slots(b)
    PROVE  /\ Locate(b, k).found = FALSE
           /\ Used(b) # Slots(b) => Open(b, k, Locate(b, k).index)
<1>1. /\ Shaped(b) /\ Used(b) \subseteq Slots(b) /\ k \in Keys
      /\ \A x \in Slots(b) : x \in Used(b) <=> b.data[x].key # NoKey
      /\ \A x \in Slots(b) : b.data[x].key # k
      /\ Size(b) \in Nat \ {0}
  <2>1. NoKey \notin Keys
    BY HashAssumption
  <2>2. /\ Shaped(b) /\ Used(b) \subseteq Slots(b)
        /\ \A x \in Slots(b) : x \in Used(b) <=> b.data[x].key # NoKey
        /\ Size(b) \in Nat \ {0}
    BY SlotFacts DEF Ordered
  <2>3. \A x \in Slots(b) : b.data[x].key # k
    BY <2>1, <2>2 DEF Stored
  <2> QED
    BY <2>2, <2>3
<1>2. CASE Hashed(b)
  <2>1. PICK z \in Slots(b) : b.data[z].key = NoKey
    BY <1>1, <1>2
  <2>2. PICK y : First(b, k, y)
    BY <1>1, <2>1, FirstExists
  <2>3. /\ y \in Slots(b) /\ b.data[y].key \in {k, NoKey}
        /\ \A x \in Slots(b) : Before(b, k, x, y) => b.data[x].key \notin {k, NoKey}
    BY <2>2 DEF First
  <2>4. Locate(b, k) = [found |-> (b.data[y].key = k), index |-> y]
    BY <1>1, <1>2, <2>2, FirstLocated
  <2>5. Open(b, k, y)
    BY <1>1, <1>2, <2>3 DEF Open
  <2>6. (b.data[y].key = k) = FALSE
    BY <1>1, <2>3
  <2>7. Locate(b, k) = [found |-> FALSE, index |-> y]
    BY <2>4, <2>6
  <2> QED
    BY <2>5, <2>7
<1>3. CASE ~Hashed(b)
  <2> DEFINE hits == {x \in 0 .. b.n - 1 : b.data[x].key = k}
  <2>1. Used(b) = 0 .. b.n - 1 /\ b.n \in Nat
    BY <1>1, <1>3 DEF Ordered, Shaped
  <2>2. hits = {}
    BY <1>1, <2>1
  <2>3. Locate(b, k) = IF hits = {} THEN [found |-> FALSE, index |-> b.n] ELSE [found |-> TRUE, index |-> Min(hits)]
    BY <1>3 DEF Locate
  <2> HIDE DEF hits
  <2>4. Locate(b, k) = [found |-> FALSE, index |-> b.n]
    BY <2>2, <2>3
  <2>5. Used(b) # Slots(b) => b.n \in Slots(b) \ Used(b)
    BY <1>1, <2>1 DEF Slots
  <2> QED
    BY <1>3, <2>4, <2>5 DEF Open
<1> QED
  BY <1>2, <1>3

-----------------------------------------------------------------------------
(* Entries as a map. *)

KeysOf(E) == {e.key : e \in E}

\* One entry for a key.
Single(E) == E \subseteq Entry /\ \A e, f \in E : e.key = f.key => e = f

(* The value of a key is that of its entry.                                  *)
LEMMA MapFacts ==
    ASSUME NEW E, Single(E)
    PROVE  /\ DOMAIN AsMap(E) = KeysOf(E)
           /\ AsMap(E) = [k \in KeysOf(E) |-> AsMap(E)[k]]
           /\ \A e \in E : AsMap(E)[e.key] = e.value /\ e = [key |-> e.key, value |-> e.value]
<1>1. AsMap(E) = [k \in KeysOf(E) |-> (CHOOSE e \in E : e.key = k).value]
  BY DEF AsMap, KeysOf
<1>2. ASSUME NEW e \in E
      PROVE  AsMap(E)[e.key] = e.value /\ e = [key |-> e.key, value |-> e.value]
  <2>1. (CHOOSE f \in E : f.key = e.key) = e
    BY DEF Single
  <2>2. e.key \in KeysOf(E)
    BY DEF KeysOf
  <2>3. e \in Entry
    BY DEF Single
  <2> QED
    BY <1>1, <2>1, <2>2, <2>3 DEF Entry
<1> QED
  BY <1>1, <1>2

(* No entries: the empty map.                                                *)
LEMMA EmptyMap == Single({}) /\ AsMap({}) = [k \in {} |-> Zero]
BY DEF Single, AsMap

(* One entry more.                                                           *)
LEMMA MapWith ==
    ASSUME NEW E, Single(E), NEW e \in Entry, e.key \notin KeysOf(E)
    PROVE  /\ Single(E \cup {e})
           /\ AsMap(E \cup {e}) = [j \in DOMAIN AsMap(E) \cup {e.key} |->
                                     IF j \in DOMAIN AsMap(E) THEN AsMap(E)[j] ELSE e.value]
<1> DEFINE F == E \cup {e}
<1>1. Single(F)
  BY DEF Single, KeysOf
<1>2. KeysOf(F) = KeysOf(E) \cup {e.key}
  BY DEF KeysOf
<1>3. /\ DOMAIN AsMap(E) = KeysOf(E) /\ \A f \in E : AsMap(E)[f.key] = f.value
  BY MapFacts
<1>4. /\ AsMap(F) = [k \in KeysOf(F) |-> AsMap(F)[k]]
      /\ \A f \in F : AsMap(F)[f.key] = f.value
  <2> HIDE DEF F
  <2> QED
    BY <1>1, MapFacts
<1>5. ASSUME NEW j \in KeysOf(F)
      PROVE  AsMap(F)[j] = IF j \in KeysOf(E) THEN AsMap(E)[j] ELSE e.value
  <2>1. CASE j \in KeysOf(E)
    <3>1. PICK f \in E : f.key = j
      BY <2>1 DEF KeysOf
    <3> QED
      BY <1>3, <1>4, <2>1, <3>1
  <2>2. CASE j \notin KeysOf(E)
    <3>1. j = e.key
      BY <1>2, <2>2
    <3> QED
      BY <1>4, <2>2, <3>1
  <2> QED
    BY <2>1, <2>2
<1> HIDE DEF F
<1> QED
  BY <1>1, <1>2, <1>3, <1>4, <1>5 DEF F

(* One entry less.                                                           *)
LEMMA MapLess ==
    ASSUME NEW E, Single(E), NEW e \in E
    PROVE  /\ Single(E \ {e}) /\ KeysOf(E \ {e}) = KeysOf(E) \ {e.key}
           /\ AsMap(E \ {e}) = [j \in DOMAIN AsMap(E) \ {e.key} |-> AsMap(E)[j]]
<1> DEFINE F == E \ {e}
<1>1. Single(F)
  BY DEF Single
<1>2. KeysOf(F) = KeysOf(E) \ {e.key}
  BY DEF KeysOf, Single
<1>3. /\ DOMAIN AsMap(E) = KeysOf(E) /\ \A f \in E : AsMap(E)[f.key] = f.value
  BY MapFacts
<1>4. /\ AsMap(F) = [k \in KeysOf(F) |-> AsMap(F)[k]]
      /\ \A f \in F : AsMap(F)[f.key] = f.value
  <2> HIDE DEF F
  <2> QED
    BY <1>1, MapFacts
<1>5. ASSUME NEW j \in KeysOf(F)
      PROVE  AsMap(F)[j] = AsMap(E)[j]
  <2>1. PICK f \in F : f.key = j
    BY DEF KeysOf
  <2> QED
    BY <1>3, <1>4, <2>1
<1> HIDE DEF F
<1> QED
  BY <1>1, <1>2, <1>3, <1>4, <1>5 DEF F

(* A body has an entry for each slot in use.                                 *)
LEMMA BodyEntries ==
    ASSUME NEW b, Shaped(b), Unique(b)
    PROVE  /\ Single(EntriesOf(b)) /\ KeysOf(EntriesOf(b)) = Stored(b)
           /\ Cardinality(EntriesOf(b)) = Cardinality(Used(b)) /\ IsFiniteSet(EntriesOf(b))
           /\ Cardinality(Used(b)) = Cardinality(Stored(b))
<1>1. /\ IsFiniteSet(Used(b))
      /\ \A i \in Used(b) : b.data[i] \in Entry /\ b.data[i].key \in Keys
  BY SlotFacts
<1>2. Single(EntriesOf(b)) /\ KeysOf(EntriesOf(b)) = Stored(b)
  BY <1>1 DEF Single, EntriesOf, KeysOf, Stored, Unique
<1>3. Cardinality(EntriesOf(b)) = Cardinality(Used(b)) /\ IsFiniteSet(EntriesOf(b))
  <2> DEFINE f == [i \in Used(b) |-> b.data[i]]
  <2>1. f \in Bijection(Used(b), EntriesOf(b))
    BY DEF Unique, EntriesOf, Bijection, Injection, Surjection, IsInjective
  <2> HIDE DEF f
  <2> QED
    BY <1>1, <2>1, FS_Bijection DEF ExistsBijection
<1>4. Cardinality(Stored(b)) = Cardinality(Used(b))
  <2> DEFINE f == [i \in Used(b) |-> b.data[i].key]
  <2>1. f \in Bijection(Used(b), Stored(b))
    BY DEF Unique, Stored, Bijection, Injection, Surjection, IsInjective
  <2> HIDE DEF f
  <2> QED
    BY <1>1, <2>1, FS_Bijection DEF ExistsBijection
<1> QED
  BY <1>2, <1>3, <1>4

-----------------------------------------------------------------------------
(* Bodies that are made, and entries that are put in. *)

\* The table's invariant: the number of entries is exact, and a hashed table has a free slot.
Table(b) ==
    /\ Ordered(b)
    /\ b.n = Cardinality(Used(b))
    /\ Hashed(b) => b.n < Size(b)

\* 2 ^ bits free slots.
Blank(bits, m) == [bits |-> bits, n |-> m, data |-> [i \in 0 .. Pow2[bits] - 1 |-> FreeSlot]]

LEMMA BlankOrdered ==
    ASSUME NEW bits \in 0 .. HashShift, NEW m \in Nat
    PROVE  LET b == Blank(bits, m)
           IN  /\ b.bits = bits /\ b.n = m /\ Shaped(b) /\ Used(b) = {} /\ Size(b) = Pow2[bits]
               /\ EntriesOf(b) = {} /\ Stored(b) = {}
               /\ bits >= MinHashBits \/ m = 0 => Ordered(b)
               /\ m = 0 => Table(b)
<1> DEFINE b == Blank(bits, m)
<1>1. b.bits = bits /\ b.n = m /\ b.data = [i \in 0 .. Pow2[bits] - 1 |-> FreeSlot]
  BY DEF Blank
<1>2. Size(b) = Pow2[bits] /\ Slots(b) = 0 .. Pow2[bits] - 1
  BY <1>1 DEF Size, Slots
<1>3. b = [bits |-> b.bits, n |-> b.n, data |-> b.data]
  BY DEF Blank
<1> HIDE DEF b
<1>4. \A i \in Slots(b) : b.data[i] = FreeSlot
  BY <1>1, <1>2
<1>5. b.data = [i \in Slots(b) |-> b.data[i]]
  BY <1>1, <1>2
<1>6. Shaped(b)
  BY <1>1, <1>3, <1>4, <1>5 DEF Shaped
<1>7. Used(b) = {}
  BY <1>4 DEF Used, Slots, FreeSlot
<1>8. EntriesOf(b) = {} /\ Stored(b) = {}
  BY <1>7 DEF EntriesOf, Stored
<1>9. bits >= MinHashBits \/ m = 0 => Ordered(b)
  BY <1>1, <1>6, <1>7 DEF Ordered, Unique, Linked, Hashed
<1>10. m = 0 => Table(b)
  <2>1. Cardinality({}) = 0
    BY FS_EmptySet
  <2>2. Size(b) > 0
    BY <1>2, Powers
  <2> QED
    BY <1>1, <1>7, <1>9, <2>1, <2>2 DEF Table
<1> QED
  BY <1>1, <1>2, <1>6, <1>7, <1>8, <1>9, <1>10 DEF b

(* alloc() makes enough slots, as long as there are bits for them.           *)
LEMMA AllocBlank ==
    ASSUME NEW hint \in Nat, hint <= Pow2[HashShift]
    PROVE  \E bits \in 0 .. HashShift :
               Alloc(hint) = Blank(bits, 0) /\ hint <= Pow2[bits]
<1> DEFINE T == {b \in 0 .. HashShift : Pow2[b] >= hint}
<1>1. HashShift \in T /\ T \in SUBSET Nat
  BY HashAssumption, Powers
<1>2. PICK x \in T : \A y \in T : x <= y
  <2> HIDE DEF T
  <2> QED
    BY <1>1, LeastElement
<1>3. Min(T) = x
  <2>1. T \in SUBSET Int
    BY <1>1
  <2> HIDE DEF T
  <2> QED
    BY <1>2, <2>1, MinIs
<1>4. x \in 0 .. HashShift /\ hint <= Pow2[x]
  BY <1>2
<1>5. Alloc(hint) = [bits |-> Min(T), n |-> 0, data |-> [i \in 0 .. Pow2[Min(T)] - 1 |-> FreeSlot]]
  BY DEF Alloc
<1> HIDE DEF T
<1> QED
  BY <1>3, <1>4, <1>5 DEF Blank

(* operator= allocates just as many slots.                                   *)
LEMMA AllocSame ==
    ASSUME NEW bits \in 0 .. HashShift
    PROVE  Alloc(Pow2[bits]) = Blank(bits, 0)
<1> DEFINE T == {b \in 0 .. HashShift : Pow2[b] >= Pow2[bits]}
<1>1. T \in SUBSET Int /\ bits \in T
  BY HashAssumption, Powers
<1>2. ASSUME NEW y \in T PROVE bits <= y
  <2>1. y \in 0 .. HashShift /\ Pow2[y] >= Pow2[bits]
    OBVIOUS
  <2>2. Pow2[y] \in Nat /\ Pow2[bits] \in Nat /\ (y < bits => Pow2[y] < Pow2[bits])
    BY <2>1, Powers
  <2> QED
    BY <2>1, <2>2, HashAssumption
<1>3. Min(T) = bits
  <2> HIDE DEF T
  <2> QED
    BY <1>1, <1>2, MinIs
<1>4. Alloc(Pow2[bits]) = [bits |-> Min(T), n |-> 0, data |-> [i \in 0 .. Pow2[Min(T)] - 1 |-> FreeSlot]]
  BY DEF Alloc
<1> HIDE DEF T
<1> QED
  BY <1>3, <1>4 DEF Blank

\* An entry in a slot.
Put(b, y, e, m) == [bits |-> b.bits, n |-> m, data |-> [b.data EXCEPT ![y] = e]]

(* A slot and the number of entries change.                                  *)
LEMMA RecordPut ==
    ASSUME NEW b, b = [bits |-> b.bits, n |-> b.n, data |-> b.data], NEW y, NEW e
    PROVE  [b EXCEPT !.data[y] = e, !.n = @ + 1]
             = [bits |-> b.bits, n |-> b.n + 1, data |-> [b.data EXCEPT ![y] = e]]
<1> DEFINE c == [b EXCEPT !.data[y] = e]
<1>1. c = [bits |-> b.bits, n |-> b.n, data |-> [b.data EXCEPT ![y] = e]]
  OBVIOUS
<1>2. [b EXCEPT !.data[y] = e, !.n = @ + 1] = [c EXCEPT !.n = c.n + 1]
  OBVIOUS
<1> HIDE DEF c
<1> QED
  BY <1>1, <1>2

(* What changes when a slot does.                                            *)
LEMMA PutShaped ==
    ASSUME NEW b, Shaped(b), NEW y \in Slots(b), NEW e \in Entry \cup {FreeSlot}, NEW m \in Nat
    PROVE  LET c == Put(b, y, e, m)
           IN  /\ Shaped(c) /\ c.bits = b.bits /\ c.n = m /\ Size(c) = Size(b) /\ Slots(c) = Slots(b)
               /\ Hashed(c) <=> Hashed(b)
               /\ c.data[y] = e /\ \A i \in Slots(b) : i # y => c.data[i] = b.data[i]
               /\ e \in Entry => Used(c) = Used(b) \cup {y}
               /\ e = FreeSlot => Used(c) = Used(b) \ {y}
               /\ \A k, i, j : Before(c, k, i, j) <=> Before(b, k, i, j)
<1> DEFINE c == Put(b, y, e, m)
<1>1. /\ c.bits = b.bits /\ c.n = m /\ c.data = [b.data EXCEPT ![y] = e]
      /\ c = [bits |-> c.bits, n |-> c.n, data |-> c.data]
  BY DEF Put
<1> HIDE DEF c
<1>2. Size(c) = Size(b) /\ Slots(c) = Slots(b) /\ (Hashed(c) <=> Hashed(b))
  BY <1>1 DEF Size, Slots, Hashed
<1>3. /\ b.data = [i \in Slots(b) |-> b.data[i]] /\ b.bits \in 0 .. HashShift
      /\ \A i \in Slots(b) : b.data[i] \in Entry \cup {FreeSlot}
  BY DEF Shaped
<1>4. c.data[y] = e /\ \A i \in Slots(b) : i # y => c.data[i] = b.data[i]
  BY <1>1, <1>3
<1>5. c.data = [i \in Slots(c) |-> c.data[i]]
  BY <1>1, <1>2, <1>3
<1>6. Shaped(c)
  BY <1>1, <1>2, <1>3, <1>4, <1>5 DEF Shaped
<1>7. /\ \A i \in Slots(b) : i \in Used(b) <=> b.data[i].key # NoKey
      /\ \A i \in Slots(b) : i \in Used(c) <=> c.data[i].key # NoKey
      /\ Used(b) \subseteq Slots(b) /\ Used(c) \subseteq Slots(b)
  BY <1>2, <1>6, SlotFacts
<1>8. e \in Entry => Used(c) = Used(b) \cup {y}
  <2>1. e \in Entry => e.key # NoKey
    BY HashAssumption DEF Entry
  <2> QED
    BY <1>4, <1>7, <2>1
<1>9. e = FreeSlot => Used(c) = Used(b) \ {y}
  BY <1>4, <1>7 DEF FreeSlot
<1>10. \A k, i, j : Before(c, k, i, j) <=> Before(b, k, i, j)
  BY <1>1, <1>2 DEF Before
<1> QED
  BY <1>1, <1>2, <1>4, <1>6, <1>8, <1>9, <1>10 DEF c

(* A new entry at the end of its search.                                     *)
LEMMA PutOrdered ==
    ASSUME NEW b, Ordered(b), NEW e \in Entry, e.key \notin Stored(b),
           NEW y, Open(b, e.key, y), NEW m \in Nat, Hashed(b) \/ m = b.n + 1
    PROVE  LET c == Put(b, y, e, m)
           IN  /\ Ordered(c) /\ c.bits = b.bits /\ c.n = m /\ Size(c) = Size(b)
               /\ Used(c) = Used(b) \cup {y} /\ y \notin Used(b)
               /\ EntriesOf(c) = EntriesOf(b) \cup {e}
<1> DEFINE c == Put(b, y, e, m)
<1>1. /\ Shaped(b) /\ Unique(b) /\ y \in Slots(b) /\ y \notin Used(b)
  BY DEF Ordered, Open
<1>2. /\ Shaped(c) /\ c.bits = b.bits /\ c.n = m /\ Size(c) = Size(b) /\ Slots(c) = Slots(b)
      /\ Hashed(c) <=> Hashed(b)
      /\ c.data[y] = e /\ \A i \in Slots(b) : i # y => c.data[i] = b.data[i]
      /\ Used(c) = Used(b) \cup {y}
      /\ \A k, i, j : Before(c, k, i, j) <=> Before(b, k, i, j)
  BY <1>1, PutShaped
<1> HIDE DEF c
<1>3. Used(b) \subseteq Slots(b) /\ \A i \in Used(b) : c.data[i] = b.data[i]
  BY <1>1, <1>2, SlotFacts
<1>4. Unique(c)
  BY <1>1, <1>2, <1>3 DEF Unique, Stored
<1>5. EntriesOf(c) = EntriesOf(b) \cup {e}
  BY <1>2, <1>3 DEF EntriesOf
<1>6. Hashed(c) => Linked(c)
  <2> SUFFICES ASSUME Hashed(c), NEW x \in Used(c), NEW z \in Slots(c), Before(c, c.data[x].key, z, x)
               PROVE  z \in Used(c)
    BY DEF Linked
  <2>1. CASE x = y
    <3>1. Before(b, e.key, z, y)
      BY <1>2, <2>1
    <3> QED
      BY <1>2, <3>1 DEF Open
  <2>2. CASE x # y
    <3>1. x \in Used(b) /\ Before(b, b.data[x].key, z, x)
      BY <1>2, <1>3, <2>2
    <3> QED
      BY <1>2, <3>1 DEF Ordered, Linked
  <2> QED
    BY <2>1, <2>2
<1>7. ~Hashed(c) => Used(c) = 0 .. c.n - 1
  <2> SUFFICES ASSUME ~Hashed(c) PROVE Used(c) = 0 .. c.n - 1
    OBVIOUS
  <2>1. Used(b) = 0 .. b.n - 1 /\ y = b.n /\ m = b.n + 1 /\ b.n \in Nat
    BY <1>2 DEF Ordered, Open, Shaped
  <2>2. 0 .. (b.n + 1) - 1 = (0 .. b.n - 1) \cup {b.n}
    BY <2>1
  <2> QED
    BY <1>2, <2>1, <2>2
<1> QED
  BY <1>1, <1>2, <1>4, <1>5, <1>6, <1>7 DEF Ordered, c

-----------------------------------------------------------------------------
(* Growing. *)

\* Bodies of one size.
Bodies(bits, m) ==
    {[bits |-> bits, n |-> m, data |-> d] : d \in [0 .. Pow2[bits] - 1 -> Entry \cup {FreeSlot}]}

LEMMA BodiesShaped ==
    ASSUME NEW bits \in 0 .. HashShift, NEW m \in Nat, NEW c
    PROVE  c \in Bodies(bits, m) <=> Shaped(c) /\ c.bits = bits /\ c.n = m
<1>1. ASSUME c \in Bodies(bits, m)
      PROVE  Shaped(c) /\ c.bits = bits /\ c.n = m
  <2>1. PICK d \in [0 .. Pow2[bits] - 1 -> Entry \cup {FreeSlot}] : c = [bits |-> bits, n |-> m, data |-> d]
    BY <1>1 DEF Bodies
  <2>2. c.bits = bits /\ c.n = m /\ c.data = d /\ Slots(c) = 0 .. Pow2[bits] - 1
    BY <2>1 DEF Slots, Size
  <2>3. d = [i \in Slots(c) |-> d[i]] /\ \A i \in Slots(c) : d[i] \in Entry \cup {FreeSlot}
    BY <2>2
  <2> QED
    BY <2>1, <2>2, <2>3 DEF Shaped
<1>2. ASSUME Shaped(c), c.bits = bits, c.n = m
      PROVE  c \in Bodies(bits, m)
  <2>1. Slots(c) = 0 .. Pow2[bits] - 1
    BY <1>2 DEF Slots, Size
  <2>2. c.data \in [0 .. Pow2[bits] - 1 -> Entry \cup {FreeSlot}]
    BY <1>2, <2>1 DEF Shaped
  <2>3. c = [bits |-> bits, n |-> m, data |-> c.data]
    BY <1>2 DEF Shaped
  <2> QED
    BY <2>2, <2>3 DEF Bodies
<1> QED
  BY <1>1, <1>2

(* A slot that changes, wherever it is.                                      *)
LEMMA BodiesExcept ==
    ASSUME NEW bits \in 0 .. HashShift, NEW m \in Nat, NEW c \in Bodies(bits, m),
           NEW i, NEW e \in Entry \cup {FreeSlot}
    PROVE  /\ [c EXCEPT !.data[i] = e] \in Bodies(bits, m)
           /\ [c EXCEPT !.data[i] = e] = Put(c, i, e, m)
<1>1. PICK d \in [0 .. Pow2[bits] - 1 -> Entry \cup {FreeSlot}] : c = [bits |-> bits, n |-> m, data |-> d]
  BY DEF Bodies
<1>2. [c EXCEPT !.data[i] = e] = [bits |-> bits, n |-> m, data |-> [d EXCEPT ![i] = e]]
  BY <1>1
<1>3. [d EXCEPT ![i] = e] \in [0 .. Pow2[bits] - 1 -> Entry \cup {FreeSlot}]
  OBVIOUS
<1>4. [c EXCEPT !.data[i] = e] = Put(c, i, e, m)
  BY <1>1, <1>2 DEF Put
<1> QED
  BY <1>2, <1>3, <1>4 DEF Bodies

\* An entry goes to one slot, and another one is freed.
Refilled(c, y, e, j) == [c EXCEPT !.data[y] = e, !.data[j] = FreeSlot]

LEMMA TwoExcepts ==
    ASSUME NEW bits \in 0 .. HashShift, NEW m \in Nat, NEW c \in Bodies(bits, m),
           NEW y, NEW j, NEW e \in Entry \cup {FreeSlot}
    PROVE  /\ Refilled(c, y, e, j) \in Bodies(bits, m)
           /\ Refilled(c, y, e, j) = Put(Put(c, y, e, m), j, FreeSlot, m)
<1> DEFINE p == [c EXCEPT !.data[y] = e]
           d == Refilled(c, y, e, j)
<1>1. p \in Bodies(bits, m) /\ p = Put(c, y, e, m)
  BY BodiesExcept
<1>2. d = [p EXCEPT !.data[j] = FreeSlot]
  BY DEF Refilled
<1> HIDE DEF p, d
<1>3. d \in Bodies(bits, m) /\ d = Put(p, j, FreeSlot, m)
  BY <1>1, <1>2, BodiesExcept
<1> QED
  BY <1>1, <1>3 DEF d

\* The first r slots of b have been put into c.
Moved(b, c, bits, m, r) ==
    /\ Ordered(c) /\ c.bits = bits /\ c.n = m
    /\ EntriesOf(c) = {b.data[i] : i \in {x \in Used(b) : x < r}}

(* One slot more.                                                            *)
LEMMA MoveOne ==
    ASSUME NEW b, Ordered(b), NEW bits \in 0 .. HashShift, bits >= MinHashBits, NEW m \in Nat,
           Cardinality(Used(b)) < Pow2[bits], NEW r \in Slots(b), NEW c, Moved(b, c, bits, m, r)
    PROVE  Moved(b, IF b.data[r].key = NoKey THEN c ELSE Place(c, b.data[r]), bits, m, r + 1)
<1> DEFINE done == {b.data[i] : i \in {x \in Used(b) : x < r}}
           next == {b.data[i] : i \in {x \in Used(b) : x < r + 1}}
           e == b.data[r]
<1>1. /\ Ordered(c) /\ c.bits = bits /\ c.n = m /\ EntriesOf(c) = done
      /\ Shaped(c) /\ Unique(c) /\ Hashed(c) /\ Shaped(b) /\ Unique(b)
  BY DEF Moved, Ordered, Hashed
<1>2. /\ Used(b) \subseteq Slots(b) /\ Slots(b) \subseteq Nat
      /\ r \in Used(b) <=> e.key # NoKey
      /\ r \in Used(b) => e \in Entry /\ e.key \in Keys
  BY <1>1, SlotFacts DEF Slots
<1>3. \A x \in Used(b) : x < r + 1 <=> x < r \/ x = r
  BY <1>2
<1>4. CASE r \notin Used(b)
  <2>1. next = done
    BY <1>3, <1>4
  <2> QED
    BY <1>1, <1>2, <1>4, <2>1 DEF Moved
<1>5. CASE r \in Used(b)
  <2>1. next = done \cup {e}
    BY <1>3, <1>5
  <2>2. e.key \notin Stored(c)
    <3>1. KeysOf(done) = Stored(c)
      BY <1>1, BodyEntries
    <3>2. ASSUME NEW x \in Used(b), x < r, b.data[x].key = e.key PROVE FALSE
      <4>1. x = r
        BY <1>1, <1>5, <3>2 DEF Unique
      <4> QED
        BY <1>2, <3>2, <4>1
    <3> QED
      BY <3>1, <3>2 DEF KeysOf
  <2>3. Used(c) # Slots(c)
    <3>1. /\ Cardinality(Used(c)) = Cardinality(done)
          /\ Cardinality(Used(b)) = Cardinality(EntriesOf(b)) /\ IsFiniteSet(EntriesOf(b))
      BY <1>1, BodyEntries
    <3>2. done \in SUBSET EntriesOf(b)
      BY DEF EntriesOf
    <3>3. Cardinality(done) <= Cardinality(EntriesOf(b))
      <4> HIDE DEF done
      <4> QED
        BY <3>1, <3>2, FS_Subset
    <3>4. Cardinality(done) \in Nat /\ Cardinality(EntriesOf(b)) \in Nat
      <4> HIDE DEF done
      <4> QED
        BY <3>1, <3>2, FS_Subset, FS_CardinalityType
    <3>5. Cardinality(Slots(c)) = Pow2[bits] /\ Pow2[bits] \in Nat
      <4> DEFINE top == Pow2[bits] - 1
      <4>1. Slots(c) = 0 .. top /\ Pow2[bits] \in Nat \ {0}
        BY <1>1, Powers DEF Slots, Size
      <4>2. top \in Nat /\ top + 1 = Pow2[bits]
        BY <4>1
      <4> HIDE DEF top
      <4>3. Cardinality(0 .. top) = IF 0 > top THEN 0 ELSE top - 0 + 1
        BY <4>2, FS_Interval
      <4> QED
        BY <4>1, <4>2, <4>3
    <3> HIDE DEF done
    <3> QED
      BY <3>1, <3>3, <3>4, <3>5
  <2> DEFINE y == Locate(c, e.key).index
  <2>4. Open(c, e.key, y)
    BY <1>1, <1>2, <1>5, <2>2, <2>3, AbsentLocated
  <2>5. Place(c, e) = Put(c, y, e, m)
    <3>1. c \in Bodies(bits, m)
      BY <1>1, BodiesShaped
    <3>2. Place(c, e) = [c EXCEPT !.data[y] = e]
      BY DEF Place
    <3> HIDE DEF y, e
    <3> QED
      BY <1>2, <1>5, <3>1, <3>2, BodiesExcept
  <2> HIDE DEF y
  <2>6. /\ Ordered(Put(c, y, e, m)) /\ Put(c, y, e, m).bits = c.bits /\ Put(c, y, e, m).n = m
        /\ EntriesOf(Put(c, y, e, m)) = EntriesOf(c) \cup {e}
    <3> HIDE DEF done, next, e
    <3>1. e \in Entry /\ Hashed(c) /\ Ordered(c)
      BY <1>1, <1>2, <1>5
    <3> QED
      BY <2>2, <2>4, <3>1, PutOrdered
  <2> HIDE DEF done, next, e
  <2>7. EntriesOf(Place(c, e)) = next
    BY <1>1, <2>1, <2>5, <2>6
  <2>8. Ordered(Place(c, e)) /\ Place(c, e).bits = bits /\ Place(c, e).n = m
    BY <1>1, <2>5, <2>6
  <2>9. Moved(b, Place(c, e), bits, m, r + 1)
    BY <2>7, <2>8 DEF Moved, next
  <2> QED
    BY <1>2, <1>5, <2>9 DEF e
<1> QED
  BY <1>4, <1>5

(* All entries are put into the new body.                                    *)
LEMMA RehashedMoved ==
    ASSUME NEW b, Ordered(b), NEW bits \in 0 .. HashShift, bits >= MinHashBits, NEW m \in Nat,
           Cardinality(Used(b)) < Pow2[bits]
    PROVE  LET c == Rehashed(b, Blank(bits, m))
           IN  Ordered(c) /\ c.bits = bits /\ c.n = m /\ EntriesOf(c) = EntriesOf(b)
<1> DEFINE N == Size(b)
           new == Blank(bits, m)
           S == Bodies(bits, m)
           Round(r, x) == IF b.data[r - 1].key = NoKey THEN x ELSE Place(x, b.data[r - 1])
           F == [r \in 1 .. N |-> [x \in S |-> Round(r, x)]]
           G(f) == [r \in 0 .. N |-> IF r = 0 THEN new
                                     ELSE IF b.data[r - 1].key = NoKey THEN f[r - 1]
                                     ELSE Place(f[r - 1], b.data[r - 1])]
           g == CHOOSE f : f = G(f)
<1>1. /\ N \in Nat /\ Slots(b) = 0 .. N - 1
      /\ \A i \in Slots(b) : b.data[i].key # NoKey => b.data[i] \in Entry
      /\ Used(b) \subseteq Slots(b) /\ Shaped(b)
  BY SlotFacts DEF Ordered, Slots
<1>2. /\ Ordered(new) /\ new.bits = bits /\ new.n = m /\ EntriesOf(new) = {} /\ Shaped(new)
  BY BlankOrdered
<1>3. new \in S
  BY <1>2, BodiesShaped
<1>4. ASSUME NEW r \in 1 .. N, NEW x \in S
      PROVE  Round(r, x) \in S
  <2>1. r - 1 \in Slots(b)
    BY <1>1
  <2>2. CASE b.data[r - 1].key = NoKey
    BY <2>2
  <2>3. CASE b.data[r - 1].key # NoKey
    <3> DEFINE e == b.data[r - 1]
               y == Locate(x, e.key).index
    <3>1. e \in Entry
      BY <1>1, <2>1, <2>3
    <3>2. Place(x, e) = [x EXCEPT !.data[y] = e]
      BY DEF Place
    <3> HIDE DEF e, y
    <3>3. Place(x, e) \in S
      <4>1. [x EXCEPT !.data[y] = e] \in Bodies(bits, m)
        BY <3>1, BodiesExcept
      <4> HIDE DEF g, F
      <4> QED
        BY <3>2, <4>1
    <3> QED
      BY <2>3, <3>3 DEF e
  <2> QED
    BY <2>2, <2>3
<1>5. F \in [1 .. N -> [S -> S]]
  BY <1>4
<1>6. \A r \in 1 .. N, x \in S : F[r][x] = Round(r, x)
  OBVIOUS
<1>7. Rehashed(b, new) = g[N]
  BY DEF Rehashed
<1> HIDE DEF N, new, S, F
<1>s. PICK s : Steps(s, N, new, F, S)
  BY <1>1, <1>3, <1>5, StepsExist
<1>8. s \in [0 .. N -> S] /\ s[0] = new /\ \A r \in 1 .. N : s[r] = F[r][s[r - 1]]
  BY <1>s DEF Steps
<1>9. \A r \in 0 .. N : s[r] = IF r = 0 THEN new ELSE Round(r, s[r - 1])
  <2> TAKE r \in 0 .. N
  <2>1. r # 0 => r \in 1 .. N /\ r - 1 \in 0 .. N
    BY <1>1
  <2>2. r # 0 => s[r] = Round(r, s[r - 1])
    <3> HIDE DEF Round
    <3> QED
      BY <1>6, <1>8, <2>1
  <2> HIDE DEF Round
  <2> QED
    BY <1>8, <2>2
<1>10. s = G(s)
  BY <1>8, <1>9
<1>11. g = G(g)
  BY <1>10
<1> HIDE DEF g
<1>12. \A r \in 0 .. N : g[r] = IF r = 0 THEN new ELSE Round(r, g[r - 1])
  BY <1>11
<1> DEFINE T == {r \in 0 .. N : Moved(b, g[r], bits, m, r)}
<1>13. 0 \in T
  <2>1. g[0] = new /\ 0 \in 0 .. N
    BY <1>1, <1>12
  <2>2. {b.data[i] : i \in {x \in Used(b) : x < 0}} = {}
    BY <1>1
  <2> QED
    BY <1>2, <2>1, <2>2 DEF Moved
<1>14. ASSUME NEW r \in 0 .. N - 1, r \in T
       PROVE  r + 1 \in T
  <2>1. r + 1 \in 0 .. N /\ r + 1 # 0 /\ (r + 1) - 1 = r /\ r \in Slots(b)
    BY <1>1
  <2>2. g[r + 1] = IF b.data[r].key = NoKey THEN g[r] ELSE Place(g[r], b.data[r])
    BY <1>12, <2>1
  <2>3. Moved(b, g[r], bits, m, r)
    BY <1>14
  <2>4. Moved(b, g[r + 1], bits, m, r + 1)
    BY <2>1, <2>2, <2>3, MoveOne
  <2> QED
    BY <2>1, <2>4
<1>15. N \in T
  <2>1. T \in SUBSET Nat
    BY <1>1
  <2> HIDE DEF T
  <2>2. \A r \in 0 .. N - 1 : r \in T => r + 1 \in T
    BY <1>14
  <2>3. 0 .. N \subseteq T
    BY <1>1, <1>13, <2>1, <2>2, UpTo
  <2> QED
    BY <1>1, <2>3
<1>16. Moved(b, g[N], bits, m, N)
  BY <1>15
<1>17. {b.data[i] : i \in {x \in Used(b) : x < N}} = EntriesOf(b)
  <2>1. \A x \in Used(b) : x < N
    BY <1>1
  <2> QED
    BY <2>1 DEF EntriesOf
<1> QED
  BY <1>7, <1>16, <1>17 DEF Moved, new

(* Entries that stay where they are, in a larger body.                       *)
LEMMA CopiedOrdered ==
    ASSUME NEW b, Ordered(b), ~Hashed(b), NEW bits \in b.bits .. HashShift, bits < MinHashBits
    PROVE  LET new == Blank(bits, b.n)
               c == [new EXCEPT !.data = [i \in DOMAIN @ |-> IF i < b.n THEN b.data[i] ELSE @[i]]]
           IN  Ordered(c) /\ c.bits = bits /\ c.n = b.n /\ EntriesOf(c) = EntriesOf(b)
<1> DEFINE new == Blank(bits, b.n)
           c == [new EXCEPT !.data = [i \in DOMAIN @ |-> IF i < b.n THEN b.data[i] ELSE @[i]]]
           D == 0 .. Pow2[bits] - 1
           d == [i \in D |-> IF i < b.n THEN b.data[i] ELSE FreeSlot]
<1>1. /\ Shaped(b) /\ Unique(b) /\ Used(b) = 0 .. b.n - 1 /\ b.n \in Nat /\ b.bits \in 0 .. HashShift
      /\ bits \in 0 .. HashShift /\ b.bits <= bits /\ MinHashBits \in 0 .. HashShift /\ HashShift \in Nat
  BY HashAssumption DEF Ordered, Shaped
<1>2. c = [bits |-> bits, n |-> b.n, data |-> d]
  <2>1. new = [bits |-> bits, n |-> b.n, data |-> [i \in D |-> FreeSlot]]
    BY DEF Blank
  <2> DEFINE w == [i \in DOMAIN new.data |-> IF i < b.n THEN b.data[i] ELSE new.data[i]]
  <2>2. c = [new EXCEPT !.data = w]
    OBVIOUS
  <2> HIDE DEF new, c
  <2>3. new.data = [i \in D |-> FreeSlot]
    BY <2>1
  <2>4. w = d
    BY <2>3
  <2> HIDE DEF d, w
  <2> QED
    BY <2>1, <2>2, <2>4
<1> HIDE DEF c
<1>3. /\ c.bits = bits /\ c.n = b.n /\ c.data = d /\ Size(c) = Pow2[bits] /\ Slots(c) = D
      /\ c = [bits |-> c.bits, n |-> c.n, data |-> c.data] /\ ~Hashed(c)
  BY <1>1, <1>2 DEF Size, Slots, Hashed
<1>4. /\ Used(b) \subseteq D /\ \A i \in Used(b) : b.data[i] \in Entry
  <2>1. Slots(b) = 0 .. Pow2[b.bits] - 1 /\ Pow2[b.bits] <= Pow2[bits]
        /\ Pow2[b.bits] \in Nat /\ Pow2[bits] \in Nat
    BY <1>1, Powers DEF Slots, Size
  <2>2. Slots(b) \subseteq D
    BY <2>1
  <2> QED
    BY <1>1, <2>2, SlotFacts
<1>5. \A i \in D : IF i < b.n THEN i \in Used(b) /\ d[i] = b.data[i] ELSE i \notin Used(b) /\ d[i] = FreeSlot
  BY <1>1
<1> HIDE DEF d
<1>6. \A i \in D : d[i] \in Entry \cup {FreeSlot}
  BY <1>4, <1>5
<1>7. c.data = [i \in Slots(c) |-> c.data[i]]
  BY <1>3 DEF d
<1>8. Shaped(c)
  BY <1>1, <1>3, <1>6, <1>7 DEF Shaped
<1>9. Used(c) = Used(b)
  <2>1. \A i \in Slots(c) : i \in Used(c) <=> c.data[i].key # NoKey
    BY <1>8, SlotFacts
  <2>2. Used(c) \subseteq Slots(c)
    BY <1>8, SlotFacts
  <2>3. \A i \in D : i \in Used(b) => b.data[i].key # NoKey
    BY DEF Used
  <2>4. FreeSlot.key = NoKey
    BY DEF FreeSlot
  <2> QED
    BY <1>3, <1>4, <1>5, <2>1, <2>2, <2>3, <2>4
<1>10. \A i \in Used(b) : c.data[i] = b.data[i]
  BY <1>3, <1>4, <1>5
<1>11. EntriesOf(c) = EntriesOf(b) /\ Unique(c)
  BY <1>1, <1>9, <1>10 DEF EntriesOf, Unique
<1>12. Ordered(c)
  BY <1>1, <1>3, <1>8, <1>9, <1>11 DEF Ordered
<1> QED
  BY <1>3, <1>11, <1>12 DEF c

(* No more slots are used than there are.                                    *)
LEMMA UsedCounted ==
    ASSUME NEW b, Shaped(b)
    PROVE  /\ Cardinality(Used(b)) \in Nat /\ Cardinality(Used(b)) <= Size(b)
           /\ Cardinality(Used(b)) < Size(b) => Used(b) # Slots(b)
<1> DEFINE top == Size(b) - 1
<1>1. top \in Nat /\ top + 1 = Size(b) /\ Slots(b) = 0 .. top /\ Used(b) \in SUBSET Slots(b)
  BY SlotFacts DEF Slots
<1> HIDE DEF top
<1>2. IsFiniteSet(0 .. top) /\ Cardinality(0 .. top) = IF 0 > top THEN 0 ELSE top - 0 + 1
  BY <1>1, FS_Interval
<1>3. Cardinality(Slots(b)) = Size(b) /\ IsFiniteSet(Slots(b)) /\ Size(b) \in Nat
  BY <1>1, <1>2
<1>4. Cardinality(Used(b)) <= Cardinality(Slots(b)) /\ IsFiniteSet(Used(b))
  BY <1>1, <1>3, FS_Subset
<1>5. Cardinality(Used(b)) \in Nat
  BY <1>4, FS_CardinalityType
<1> QED
  BY <1>3, <1>4, <1>5

(* A larger table has the same entries.                                      *)
LEMMA GrowOrdered ==
    ASSUME NEW b, Table(b), NEW hint \in Nat, hint > Size(b), hint <= Pow2[HashShift]
    PROVE  LET c == Grow(b, hint)
           IN  Ordered(c) /\ c.n = b.n /\ EntriesOf(c) = EntriesOf(b) /\ hint <= Size(c)
<1> DEFINE new == [Alloc(hint) EXCEPT !.n = b.n]
           c == Grow(b, hint)
<1>1. PICK bits \in 0 .. HashShift : Alloc(hint) = Blank(bits, 0) /\ hint <= Pow2[bits]
  BY AllocBlank
<1>2. new = Blank(bits, b.n)
  <2> DEFINE d == [i \in 0 .. Pow2[bits] - 1 |-> FreeSlot]
  <2>1. Alloc(hint) = [bits |-> bits, n |-> 0, data |-> d]
    BY <1>1 DEF Blank
  <2> HIDE DEF d
  <2>2. new = [bits |-> bits, n |-> b.n, data |-> d]
    BY <2>1
  <2> HIDE DEF new
  <2> QED
    BY <2>2 DEF Blank, d
<1>3. /\ Ordered(b) /\ Shaped(b) /\ b.n \in Nat /\ b.bits \in 0 .. HashShift /\ Size(b) = Pow2[b.bits]
      /\ b.n = Cardinality(Used(b)) /\ HashShift \in Nat /\ MinHashBits \in 0 .. HashShift
  BY HashAssumption DEF Table, Ordered, Shaped, Size
<1>4. b.bits < bits
  <2>1. Pow2[b.bits] < Pow2[bits] /\ Pow2[b.bits] \in Nat /\ Pow2[bits] \in Nat
    BY <1>1, <1>3, Powers
  <2>2. bits <= b.bits => Pow2[bits] <= Pow2[b.bits]
    BY <1>3, Powers
  <2> QED
    BY <1>3, <2>1, <2>2
<1>5. Cardinality(Used(b)) < Pow2[bits]
  <2>1. Cardinality(Used(b)) <= Size(b) /\ Cardinality(Used(b)) \in Nat
    BY <1>3, UsedCounted
  <2>2. Pow2[bits] \in Nat /\ Size(b) \in Nat
    BY <1>3, Powers
  <2> QED
    BY <1>1, <2>1, <2>2
<1>6. Hashed(new) <=> bits >= MinHashBits
  BY <1>2, BlankOrdered, <1>3 DEF Hashed
<1>7. c = IF Hashed(new)
            THEN Rehashed(b, new)
            ELSE [new EXCEPT !.data = [i \in DOMAIN @ |-> IF i < b.n THEN b.data[i] ELSE @[i]]]
  BY DEF Grow
<1>8. \A x : x.bits = bits => Size(x) = Pow2[bits]
  BY DEF Size
<1> HIDE DEF new
<1>9. CASE bits >= MinHashBits
  <2>1. c = Rehashed(b, Blank(bits, b.n))
    BY <1>2, <1>6, <1>7, <1>9
  <2> HIDE DEF c
  <2>2. Ordered(c) /\ c.bits = bits /\ c.n = b.n /\ EntriesOf(c) = EntriesOf(b)
    BY <1>3, <1>5, <1>9, <2>1, RehashedMoved
  <2> QED
    BY <1>1, <1>8, <2>2 DEF c
<1>10. CASE ~(bits >= MinHashBits)
  <2>1. ~Hashed(b) /\ bits \in b.bits .. HashShift /\ bits < MinHashBits
    BY <1>3, <1>4, <1>10 DEF Hashed
  <2>2. c = [new EXCEPT !.data = [i \in DOMAIN @ |-> IF i < b.n THEN b.data[i] ELSE @[i]]]
    BY <1>6, <1>7, <1>10
  <2> HIDE DEF c
  <2>3. Ordered(c) /\ c.bits = bits /\ c.n = b.n /\ EntriesOf(c) = EntriesOf(b)
    BY <1>2, <1>3, <2>1, <2>2, CopiedOrdered
  <2> QED
    BY <1>1, <1>8, <2>3 DEF c
<1> QED
  BY <1>9, <1>10

(* insert() of a key that is not there.                                      *)
LEMMA AddedTable ==
    ASSUME NEW b, Table(b), NEW k \in Keys \ Stored(b)
    PROVE  LET c == Added(b, k)
           IN  Table(c) /\ EntriesOf(c) = EntriesOf(b) \cup {[key |-> k, value |-> Zero]}
<1> DEFINE need == RoundSize(b.n + 1)
           room == IF need > Size(b) THEN Grow(b, need) ELSE b
           y == Locate(room, k).index
           e == [key |-> k, value |-> Zero]
           c == Put(room, y, e, b.n + 1)
<1>1. /\ Ordered(b) /\ Shaped(b) /\ Unique(b) /\ b.n \in Nat /\ Size(b) \in Nat
      /\ b.n = Cardinality(Used(b)) /\ b # NoBody
      /\ Hashed(b) => b.n < Size(b)
      /\ Pow2[HashShift] \in Nat /\ Pow2[MinHashBits] \in Nat
  <2>1. Pow2[HashShift] \in Nat /\ Pow2[MinHashBits] \in Nat
    <3>1. HashShift \in 0 .. HashShift /\ MinHashBits \in 0 .. HashShift
      BY HashAssumption
    <3> QED
      BY <3>1, Powers
  <2>2. /\ Ordered(b) /\ Shaped(b) /\ Unique(b) /\ b.n \in Nat
        /\ b.n = Cardinality(Used(b)) /\ (Hashed(b) => b.n < Size(b))
    BY DEF Table, Ordered, Shaped
  <2>3. Size(b) \in Nat /\ b # NoBody
    BY <2>2, SlotFacts
  <2> QED
    BY <2>1, <2>2, <2>3
<1>2. /\ KeysOf(EntriesOf(b)) = Stored(b) /\ Cardinality(Stored(b)) = b.n
      /\ Stored(b) \subseteq Keys
  <2>1. Stored(b) \subseteq Keys
    BY <1>1, SlotFacts DEF Stored
  <2> QED
    BY <1>1, <2>1, BodyEntries
<1>3. b.n + 1 <= Cardinality(Keys) /\ Cardinality(Keys) \in Nat
  <2>1. IsFiniteSet(Keys) /\ Cardinality(Keys) \in Nat
    BY SizeAssumption, FS_CardinalityType
  <2>2. IsFiniteSet(Stored(b))
    BY <1>2, <2>1, FS_Subset
  <2>3. Cardinality(Stored(b) \cup {k}) = b.n + 1
    BY <1>2, <2>2, FS_AddElement
  <2>4. Stored(b) \cup {k} \in SUBSET Keys
    BY <1>2
  <2>5. Cardinality(Stored(b) \cup {k}) <= Cardinality(Keys)
    BY <2>1, <2>4, FS_Subset
  <2> QED
    BY <2>1, <2>3, <2>5
<1>4. /\ need \in Nat /\ b.n + 1 <= need /\ need <= Pow2[HashShift]
      /\ Pow2[MinHashBits] <= b.n + 1 => b.n + 1 < need
  <2>1. b.n + 1 \in Nat
    BY <1>1
  <2>2. need \in Nat /\ b.n + 1 <= need /\ (Pow2[MinHashBits] <= b.n + 1 => b.n + 1 < need)
    BY <2>1, RoundSizes
  <2>3. need <= RoundSize(Cardinality(Keys)) /\ RoundSize(Cardinality(Keys)) \in Nat
    BY <1>3, <2>1, RoundSizes
  <2>4. RoundSize(Cardinality(Keys)) <= Pow2[HashShift]
    BY SizeAssumption
  <2> HIDE DEF need
  <2> QED
    BY <1>1, <2>2, <2>3, <2>4
<1> HIDE DEF need
<1>5. Ordered(room) /\ room.n = b.n /\ EntriesOf(room) = EntriesOf(b) /\ need <= Size(room)
  <2>1. CASE need > Size(b)
    BY <1>4, <2>1, GrowOrdered
  <2>2. CASE ~(need > Size(b))
    BY <1>1, <1>4, <2>2
  <2> QED
    BY <2>1, <2>2
<1>6. Added(b, k) = IF Locate(b, k).found THEN b
                    ELSE [room EXCEPT !.data[y] = Fresh(room, k, y), !.n = @ + 1]
  BY <1>1 DEF Added, need
<1>7. Locate(b, k).found = FALSE
  <2>1. Hashed(b) => Used(b) # Slots(b)
    BY <1>1, UsedCounted
  <2> QED
    BY <1>1, <2>1, AbsentLocated
<1> HIDE DEF room
<1>8. /\ Shaped(room) /\ Unique(room) /\ Stored(room) = Stored(b)
      /\ Cardinality(Used(room)) = b.n /\ Size(room) \in Nat
  <2>1. Shaped(room) /\ Unique(room)
    BY <1>5 DEF Ordered
  <2>2. /\ KeysOf(EntriesOf(room)) = Stored(room)
        /\ Cardinality(EntriesOf(room)) = Cardinality(Used(room))
    BY <2>1, BodyEntries
  <2>3. Cardinality(EntriesOf(b)) = Cardinality(Used(b))
    BY <1>1, BodyEntries
  <2>4. Size(room) \in Nat
    BY <2>1, SlotFacts
  <2> QED
    BY <1>1, <1>2, <1>5, <2>1, <2>2, <2>3, <2>4
<1>9. Used(room) # Slots(room)
  <2>1. b.n < Size(room)
    BY <1>1, <1>4, <1>5, <1>8
  <2> QED
    BY <1>8, <2>1, UsedCounted
<1>10. Open(room, k, y)
  BY <1>5, <1>8, <1>9, AbsentLocated
<1>11. e \in Entry /\ e.key = k
  BY HashAssumption DEF Entry
<1> HIDE DEF e, y
<1>12. /\ Ordered(c) /\ c.bits = room.bits /\ c.n = b.n + 1 /\ Size(c) = Size(room)
       /\ Used(c) = Used(room) \cup {y} /\ y \notin Used(room)
       /\ EntriesOf(c) = EntriesOf(room) \cup {e}
  <2>1. b.n + 1 \in Nat /\ b.n + 1 = room.n + 1 /\ e.key \notin Stored(room)
    BY <1>1, <1>5, <1>8, <1>11
  <2>2. Open(room, e.key, y)
    BY <1>10, <1>11
  <2> QED
    BY <1>5, <1>11, <2>1, <2>2, PutOrdered
<1>13. [room EXCEPT !.data[y] = Fresh(room, k, y), !.n = @ + 1] = c
  <2>1. Fresh(room, k, y) = e
    BY DEF Fresh, e
  <2>2. room = [bits |-> room.bits, n |-> room.n, data |-> room.data]
    BY <1>8 DEF Shaped
  <2>3. [room EXCEPT !.data[y] = e, !.n = @ + 1] = [bits |-> room.bits, n |-> room.n + 1, data |-> [room.data EXCEPT ![y] = e]]
    BY <2>2, RecordPut
  <2> QED
    BY <1>5, <2>1, <2>3 DEF Put
<1> HIDE DEF c
<1>14. c.n = Cardinality(Used(c))
  <2>1. IsFiniteSet(Used(room))
    BY <1>8, SlotFacts
  <2>2. Cardinality(Used(room) \cup {y}) = Cardinality(Used(room)) + 1
    BY <1>12, <2>1, FS_AddElement
  <2> QED
    BY <1>8, <1>12, <2>2
<1>15. Hashed(c) => c.n < Size(c)
  <2> SUFFICES ASSUME Hashed(c) PROVE b.n + 1 < Size(room)
    BY <1>12
  <2>1. CASE Pow2[MinHashBits] <= b.n + 1
    BY <1>1, <1>4, <1>5, <1>8, <2>1
  <2>2. CASE ~(Pow2[MinHashBits] <= b.n + 1)
    <3>1. Pow2[MinHashBits] <= Size(room)
      <4>1. room.bits >= MinHashBits /\ room.bits \in 0 .. HashShift /\ Size(room) = Pow2[room.bits]
        BY <1>8, <1>12 DEF Hashed, Shaped, Size
      <4>2. MinHashBits \in 0 .. HashShift
        BY HashAssumption
      <4> QED
        BY <4>1, <4>2, Powers
    <3> QED
      BY <1>1, <1>8, <2>2, <3>1
  <2> QED
    BY <2>1, <2>2
<1>16. Table(c)
  BY <1>12, <1>14, <1>15 DEF Table
<1>17. Added(b, k) = c
  BY <1>6, <1>7, <1>13
<1> QED
  BY <1>5, <1>12, <1>16, <1>17 DEF e

(* operator= makes the body it copies.                                       *)
LEMMA SameCopy ==
    ASSUME NEW b, Shaped(b)
    PROVE  CopyOf(b) = b
<1>1. Alloc(Size(b)) = Blank(b.bits, 0) /\ b # NoBody
  BY AllocSame, SlotFacts DEF Shaped, Size
<1> DEFINE d == [i \in 0 .. Pow2[b.bits] - 1 |-> FreeSlot]
<1>2. Alloc(Size(b)) = [bits |-> b.bits, n |-> 0, data |-> d]
  BY <1>1 DEF Blank
<1> HIDE DEF d
<1>3. CopyOf(b) = [Alloc(Size(b)) EXCEPT !.data = b.data, !.n = b.n]
  BY <1>1 DEF CopyOf
<1> DEFINE c == [Alloc(Size(b)) EXCEPT !.data = b.data]
<1>4. CopyOf(b) = [bits |-> b.bits, n |-> b.n, data |-> b.data]
  <2>1. c = [bits |-> b.bits, n |-> 0, data |-> b.data]
    BY <1>2
  <2>2. CopyOf(b) = [c EXCEPT !.n = b.n]
    BY <1>3
  <2> HIDE DEF c
  <2> QED
    BY <2>1, <2>2
<1> QED
  BY <1>4 DEF Shaped

(* A key gets another value.                                                 *)
LEMMA MapSet ==
    ASSUME NEW E, Single(E), NEW e \in E, NEW v \in Values
    PROVE  LET F == (E \ {e}) \cup {[key |-> e.key, value |-> v]}
           IN  Single(F) /\ AsMap(F) = [AsMap(E) EXCEPT ![e.key] = v]
<1> DEFINE f == [key |-> e.key, value |-> v]
           D == E \ {e}
           F == D \cup {f}
<1>1. f \in Entry /\ f.key = e.key /\ f.value = v
  BY DEF Single, Entry
<1> HIDE DEF f
<1>2. Single(D) /\ KeysOf(D) = KeysOf(E) \ {e.key}
      /\ AsMap(D) = [j \in DOMAIN AsMap(E) \ {e.key} |-> AsMap(E)[j]]
  BY MapLess
<1>3. DOMAIN AsMap(D) = KeysOf(D) /\ DOMAIN AsMap(E) = KeysOf(E)
      /\ AsMap(E) = [k \in KeysOf(E) |-> AsMap(E)[k]] /\ e.key \in KeysOf(E)
  <2>1. e.key \in KeysOf(E)
    BY DEF KeysOf
  <2> HIDE DEF D
  <2> QED
    BY <1>2, <2>1, MapFacts
<1> HIDE DEF D
<1>4. /\ Single(F)
      /\ AsMap(F) = [j \in DOMAIN AsMap(D) \cup {f.key} |-> IF j \in DOMAIN AsMap(D) THEN AsMap(D)[j] ELSE f.value]
  <2>1. f \in Entry /\ f.key \notin KeysOf(D) /\ Single(D)
    BY <1>1, <1>2
  <2> QED
    BY <2>1, MapWith
<1> HIDE DEF F
<1>5. DOMAIN AsMap(D) \cup {f.key} = KeysOf(E)
  BY <1>1, <1>2, <1>3
<1>6. AsMap(F) = [j \in KeysOf(E) |-> IF j = e.key THEN v ELSE AsMap(E)[j]]
  BY <1>1, <1>2, <1>3, <1>4, <1>5
<1>7. [AsMap(E) EXCEPT ![e.key] = v] = [j \in KeysOf(E) |-> IF j = e.key THEN v ELSE AsMap(E)[j]]
  <2> DEFINE m == AsMap(E)
  <2>1. m = [k \in KeysOf(E) |-> m[k]]
    BY <1>3
  <2> HIDE DEF m
  <2>2. [m EXCEPT ![e.key] = v] = [j \in KeysOf(E) |-> IF j = e.key THEN v ELSE m[j]]
    BY <2>1
  <2> QED
    BY <2>2 DEF m
<1> QED
  BY <1>4, <1>6, <1>7 DEF F, D, f

(* The caller writes a value in place.                                       *)
LEMMA AssignedTable ==
    ASSUME NEW b, Table(b), NEW i \in Used(b), NEW v \in Values
    PROVE  LET c == [b EXCEPT !.data[i].value = v]
           IN  /\ Table(c)
               /\ EntriesOf(c) = (EntriesOf(b) \ {b.data[i]}) \cup {[key |-> b.data[i].key, value |-> v]}
               /\ Stored(c) = Stored(b)
<1> DEFINE e == [key |-> b.data[i].key, value |-> v]
           c == Put(b, i, e, b.n)
<1>1. /\ Shaped(b) /\ Unique(b) /\ Ordered(b) /\ b.n \in Nat /\ i \in Slots(b)
      /\ b.n = Cardinality(Used(b)) /\ (Hashed(b) => b.n < Size(b))
      /\ b.data[i] \in Entry /\ Used(b) \subseteq Slots(b)
  BY SlotFacts DEF Table, Ordered, Shaped
<1>2. e \in Entry /\ e.key = b.data[i].key
  BY <1>1 DEF Entry
<1>3. [b EXCEPT !.data[i].value = v] = c
  <2> DEFINE d == b.data
             old == b.data[i]
  <2>1. b = [bits |-> b.bits, n |-> b.n, data |-> d] /\ old = [key |-> old.key, value |-> old.value]
    BY <1>1 DEF Shaped, Entry
  <2>2. [old EXCEPT !.value = v] = [key |-> old.key, value |-> v]
    <3> HIDE DEF old
    <3> QED
      BY <2>1
  <2>3. [b EXCEPT !.data[i].value = v] = [b EXCEPT !.data[i] = [old EXCEPT !.value = v]]
    OBVIOUS
  <2>4. [b EXCEPT !.data[i] = e] = [bits |-> b.bits, n |-> b.n, data |-> [d EXCEPT ![i] = e]]
    <3> HIDE DEF e
    <3> QED
      BY <2>1
  <2> QED
    BY <2>2, <2>3, <2>4 DEF Put
<1> HIDE DEF e
<1>4. /\ Shaped(c) /\ c.bits = b.bits /\ c.n = b.n /\ Size(c) = Size(b) /\ Slots(c) = Slots(b)
      /\ Hashed(c) <=> Hashed(b)
      /\ c.data[i] = e /\ \A x \in Slots(b) : x # i => c.data[x] = b.data[x]
      /\ Used(c) = Used(b) \cup {i}
      /\ \A k, x, y : Before(c, k, x, y) <=> Before(b, k, x, y)
  BY <1>1, <1>2, PutShaped
<1> HIDE DEF c
<1>5. Used(c) = Used(b) /\ \A x \in Used(b) : c.data[x].key = b.data[x].key
  BY <1>1, <1>2, <1>4
<1>6. Unique(c) /\ Stored(c) = Stored(b)
  BY <1>1, <1>5 DEF Unique, Stored
<1>7. Hashed(c) => Linked(c)
  <2>1. Hashed(b) => Linked(b)
    BY <1>1 DEF Ordered
  <2> QED
    BY <1>4, <1>5, <2>1 DEF Linked
<1>8. ~Hashed(c) => Used(c) = 0 .. c.n - 1
  BY <1>1, <1>4, <1>5 DEF Ordered
<1>9. Table(c)
  BY <1>1, <1>4, <1>5, <1>6, <1>7, <1>8 DEF Table, Ordered
<1>10. EntriesOf(c) = (EntriesOf(b) \ {b.data[i]}) \cup {e}
  <2>1. \A x \in Used(b) : x # i => b.data[x] # b.data[i]
    BY <1>1 DEF Unique
  <2> QED
    BY <1>1, <1>4, <1>5, <2>1 DEF EntriesOf
<1> QED
  BY <1>3, <1>6, <1>9, <1>10 DEF e

(* A body that is allocated for so many entries.                             *)
LEMMA AllocTable ==
    ASSUME NEW hint \in SizeHints
    PROVE  LET c == Alloc(RoundSize(hint))
           IN  Table(c) /\ EntriesOf(c) = {} /\ Used(c) = {}
<1>1. RoundSize(hint) \in Nat /\ RoundSize(hint) <= Pow2[HashShift]
  BY HashAssumption, SizeAssumption, RoundSizes
<1>2. PICK bits \in 0 .. HashShift : Alloc(RoundSize(hint)) = Blank(bits, 0)
  BY <1>1, AllocBlank
<1> QED
  BY <1>2, BlankOrdered

(* The first body of a table.                                                *)
LEMMA AllocOne == LET c == Alloc(1) IN Table(c) /\ EntriesOf(c) = {} /\ Stored(c) = {}
<1>1. 1 <= Pow2[HashShift]
  BY Powers, HashAssumption
<1>2. PICK bits \in 0 .. HashShift : Alloc(1) = Blank(bits, 0)
  BY <1>1, AllocBlank
<1> QED
  BY <1>2, BlankOrdered

-----------------------------------------------------------------------------
(* Removal from a packed table. *)

(* The entries above the removed one move down.                              *)
LEMMA ShiftedTable ==
    ASSUME NEW b, Table(b), ~Hashed(b), NEW i \in Used(b)
    PROVE  LET c == [Shifted(b, i) EXCEPT !.n = @ - 1]
           IN  Table(c) /\ EntriesOf(c) = EntriesOf(b) \ {b.data[i]}
<1> DEFINE D == Slots(b)
           d == [j \in D |-> IF j = b.n - 1 THEN FreeSlot
                             ELSE IF i <= j /\ j < b.n THEN b.data[j + 1]
                             ELSE b.data[j]]
           c == [bits |-> b.bits, n |-> b.n - 1, data |-> d]
           Old(j) == IF i <= j THEN j + 1 ELSE j
           New(j) == IF i < j THEN j - 1 ELSE j
<1>1. /\ Shaped(b) /\ Unique(b) /\ Ordered(b) /\ b.n \in Nat /\ Used(b) = 0 .. b.n - 1
      /\ b.n = Cardinality(Used(b))
  BY DEF Table, Ordered, Shaped
<1>2. /\ Used(b) \subseteq Slots(b) /\ Slots(b) \subseteq Nat
      /\ \A j \in Used(b) : b.data[j] \in Entry
      /\ \A j \in Slots(b) : j \notin Used(b) => b.data[j] = FreeSlot
      /\ FreeSlot.key = NoKey /\ \A f \in Entry : f.key # NoKey
  BY <1>1, SlotFacts, HashAssumption DEF Slots, Entry, FreeSlot
<1>3. [Shifted(b, i) EXCEPT !.n = @ - 1] = c
  <2> DEFINE w == [j \in DOMAIN b.data |-> IF j = b.n - 1 THEN FreeSlot
                                           ELSE IF i <= j /\ j < b.n THEN b.data[j + 1]
                                           ELSE b.data[j]]
  <2>1. b = [bits |-> b.bits, n |-> b.n, data |-> b.data] /\ DOMAIN b.data = D
    BY <1>1 DEF Shaped
  <2>2. Shifted(b, i) = [b EXCEPT !.data = w]
    BY DEF Shifted
  <2>3. w = d
    BY <2>1
  <2> HIDE DEF w, d
  <2>4. Shifted(b, i) = [bits |-> b.bits, n |-> b.n, data |-> d]
    BY <2>1, <2>2, <2>3
  <2> QED
    BY <2>4
<1>4. b.n - 1 \in Nat /\ i \in 0 .. b.n - 1
  BY <1>1
<1>5. \A j \in D : d[j] = IF j \in 0 .. b.n - 2 THEN b.data[Old(j)] ELSE FreeSlot
  BY <1>1, <1>2, <1>4
<1>6. \A j \in 0 .. b.n - 2 : j \in D /\ Old(j) \in Used(b) /\ Old(j) # i
  BY <1>1, <1>2, <1>4
<1> HIDE DEF d
<1>7. /\ c.bits = b.bits /\ c.n = b.n - 1 /\ c.data = d
      /\ Size(c) = Size(b) /\ Slots(c) = D /\ ~Hashed(c)
  BY DEF Size, Slots, Hashed
<1>8. Shaped(c)
  <2>1. \A j \in D : d[j] \in Entry \cup {FreeSlot}
    BY <1>2, <1>5, <1>6
  <2>2. d = [j \in D |-> d[j]]
    BY DEF d
  <2>3. b.bits \in 0 .. HashShift
    BY <1>1 DEF Shaped
  <2>4. c.data = [j \in Slots(c) |-> c.data[j]]
    BY <1>7, <2>2
  <2> QED
    BY <1>4, <1>7, <2>1, <2>3, <2>4 DEF Shaped
<1>9. Used(c) = 0 .. b.n - 2
  <2>1. Used(c) \subseteq D /\ \A j \in D : j \in Used(c) <=> d[j].key # NoKey
    BY <1>7, <1>8, SlotFacts
  <2> QED
    BY <1>2, <1>5, <1>6, <2>1
<1>10. Unique(c)
  <2> SUFFICES ASSUME NEW x \in 0 .. b.n - 2, NEW y \in 0 .. b.n - 2, d[x].key = d[y].key
               PROVE  x = y
    BY <1>7, <1>9 DEF Unique
  <2>1. Old(x) = Old(y)
    BY <1>1, <1>5, <1>6 DEF Unique
  <2> QED
    BY <1>4, <2>1
<1>11. EntriesOf(c) = EntriesOf(b) \ {b.data[i]}
  <2>1. EntriesOf(c) = {b.data[Old(j)] : j \in 0 .. b.n - 2}
    <3>1. \A j \in 0 .. b.n - 2 : d[j] = b.data[Old(j)]
      BY <1>5, <1>6
    <3> QED
      BY <1>7, <1>9, <3>1 DEF EntriesOf
  <2>2. ASSUME NEW j \in 0 .. b.n - 2
        PROVE  b.data[Old(j)] \in EntriesOf(b) \ {b.data[i]}
    BY <1>1, <1>6 DEF EntriesOf, Unique
  <2>3. ASSUME NEW x \in Used(b), x # i
        PROVE  \E j \in 0 .. b.n - 2 : b.data[x] = b.data[Old(j)]
    <3>1. New(x) \in 0 .. b.n - 2 /\ Old(New(x)) = x
      BY <1>1, <1>4, <2>3
    <3> QED
      BY <3>1
  <2>4. EntriesOf(b) = {b.data[x] : x \in Used(b)}
    BY DEF EntriesOf
  <2> HIDE DEF Old, c
  <2> QED
    BY <2>1, <2>2, <2>3, <2>4
<1>12. c.n = Cardinality(Used(c))
  <2>1. Cardinality(Used(c)) = b.n - 1
    <3> DEFINE top == b.n - 2
    <3>1. top \in Int /\ top + 1 = b.n - 1 /\ 0 <= top + 1
      BY <1>1, <1>4
    <3> HIDE DEF top
    <3>2. Cardinality(0 .. top) = IF 0 > top THEN 0 ELSE top - 0 + 1
      BY <3>1, FS_Interval
    <3>3. Cardinality(0 .. top) = top + 1
      BY <3>1, <3>2
    <3> QED
      BY <1>9, <3>1, <3>3 DEF top
  <2> QED
    BY <1>7, <2>1
<1> HIDE DEF c
<1>13. 0 .. b.n - 2 = 0 .. c.n - 1
  BY <1>1, <1>7
<1>14. Table(c)
  BY <1>7, <1>8, <1>9, <1>10, <1>12, <1>13 DEF Table, Ordered
<1> QED
  BY <1>3, <1>11, <1>14

-----------------------------------------------------------------------------
(* Removal from a hashed table. *)

\* How far slot y is from the removed entry.
From(b, i, y) == Way(Size(b), i, y)

\* h is free, and what is behind it is hidden only from r steps on, where nothing has been moved.
Hole(b, i, c, r, h) ==
    /\ h \in Slots(b) \ Used(c) /\ From(b, i, h) <= r
    /\ \A y \in Slots(b) : From(b, i, y) > r => c.data[y] = b.data[y]
    /\ \A x \in Used(c), y \in Slots(b) :
          Before(b, c.data[x].key, y, x) => y \in Used(c) \/ (y = h /\ From(b, i, x) > r)

(* Two bodies of one size have the same slots in the same order.             *)
LEMMA SameSlots ==
    ASSUME NEW b, Shaped(b), NEW c, Shaped(c), c.bits = b.bits, NEW i \in Slots(b)
    PROVE  /\ Size(c) = Size(b) /\ Slots(c) = Slots(b)
           /\ \A k, x, y : Before(c, k, x, y) <=> Before(b, k, x, y)
           /\ Size(b) \in Nat \ {0} /\ Slots(b) = 0 .. Size(b) - 1
           /\ \A y \in Slots(b) : From(b, i, y) \in 0 .. Size(b) - 1
           /\ \A x, y \in Slots(b) : From(b, i, x) = From(b, i, y) => x = y
           /\ \A k \in Keys : \A x, y \in Slots(b) : Before(b, k, x, y) \/ x = y \/ Before(b, k, y, x)
           /\ \A k \in Keys : \A x \in Slots(b) : ~Before(b, k, x, x)
           /\ Used(c) \subseteq Slots(b)
           /\ \A x \in Slots(b) : x \in Used(c) <=> c.data[x].key # NoKey
           /\ \A x \in Used(c) : c.data[x].key \in Keys /\ c.data[x] \in Entry
<1>1. Size(c) = Size(b) /\ Slots(c) = Slots(b) /\ (\A k, x, y : Before(c, k, x, y) <=> Before(b, k, x, y))
      /\ Slots(b) = 0 .. Size(b) - 1
  BY DEF Size, Slots, Before
<1>2. Size(b) \in Nat \ {0} /\ \A k \in Keys : HashKey(k, b.bits) \in Slots(b)
  BY SlotFacts
<1>3. /\ \A y \in Slots(b) : From(b, i, y) \in 0 .. Size(b) - 1
      /\ \A x, y \in Slots(b) : From(b, i, x) = From(b, i, y) => x = y
  <2>1. i \in 0 .. Size(b) - 1
    BY <1>1
  <2> DEFINE N == Size(b)
  <2>2. /\ \A y \in 0 .. N - 1 : Way(N, i, y) \in 0 .. N - 1
        /\ \A x, y \in 0 .. N - 1 : Way(N, i, x) = Way(N, i, y) => x = y
    <3>1. N \in Nat \ {0} /\ i \in 0 .. N - 1
      BY <1>2, <2>1
    <3> HIDE DEF N
    <3> QED
      BY <3>1, WayRound
  <2> QED
    BY <1>1, <2>2 DEF From
<1>4. /\ \A k \in Keys : \A x, y \in Slots(b) : Before(b, k, x, y) \/ x = y \/ Before(b, k, y, x)
      /\ \A k \in Keys : \A x \in Slots(b) : ~Before(b, k, x, x)
  <2> SUFFICES ASSUME NEW k \in Keys, NEW x \in Slots(b), NEW y \in Slots(b)
               PROVE  (Before(b, k, x, y) \/ x = y \/ Before(b, k, y, x)) /\ ~Before(b, k, x, x)
    OBVIOUS
  <2> DEFINE W(z) == Way(Size(b), HashKey(k, b.bits), z)
  <2>1. W(x) \in 0 .. Size(b) - 1 /\ W(y) \in 0 .. Size(b) - 1 /\ (W(x) = W(y) => x = y)
    BY <1>1, <1>2, WayRound
  <2>2. (Before(b, k, x, y) <=> W(x) < W(y)) /\ (Before(b, k, y, x) <=> W(y) < W(x)) /\ (Before(b, k, x, x) <=> W(x) < W(x))
    BY DEF Before
  <2> HIDE DEF W
  <2> QED
    BY <1>2, <2>1, <2>2
<1>5. /\ Used(c) \subseteq Slots(b)
      /\ \A x \in Slots(b) : x \in Used(c) <=> c.data[x].key # NoKey
      /\ \A x \in Used(c) : c.data[x].key \in Keys /\ c.data[x] \in Entry
  BY <1>1, SlotFacts
<1> QED
  BY <1>1, <1>2, <1>3, <1>4, <1>5

(* Passes, in terms of a body.                                               *)
LEMMA PassesBy ==
    ASSUME NEW b, Shaped(b), NEW i \in Slots(b), NEW k \in Keys,
           NEW a \in Slots(b), NEW z \in Slots(b), NEW x \in Slots(b), Before(b, k, a, x),
           \/ From(b, i, a) < From(b, i, z) /\ From(b, i, z) < From(b, i, x)
           \/ From(b, i, x) < From(b, i, a) /\ From(b, i, a) < From(b, i, z)
    PROVE  Before(b, k, z, x)
<1>1. /\ Size(b) \in Nat \ {0} /\ Slots(b) = 0 .. Size(b) - 1
      /\ HashKey(k, b.bits) \in Slots(b)
  BY SlotFacts DEF Slots
<1> QED
  BY <1>1, Passes DEF Before, From

(* If the next slot is free, no search has to pass the hole.                 *)
LEMMA HoleEnds ==
    ASSUME NEW b, Shaped(b), NEW i \in Slots(b), NEW c, Shaped(c), c.bits = b.bits,
           NEW r \in Nat, NEW h, Hole(b, i, c, r, h),
           NEW j \in Slots(b) \ Used(c), From(b, i, j) = r + 1
    PROVE  Linked(c)
<1>1. /\ Slots(c) = Slots(b)
      /\ \A k, x, y : Before(c, k, x, y) <=> Before(b, k, x, y)
      /\ Size(b) \in Nat \ {0} /\ Used(c) \subseteq Slots(b)
      /\ \A y \in Slots(b) : From(b, i, y) \in 0 .. Size(b) - 1
      /\ \A x, y \in Slots(b) : From(b, i, x) = From(b, i, y) => x = y
      /\ \A x \in Used(c) : c.data[x].key \in Keys
  BY SameSlots
<1>2. /\ h \in Slots(b) /\ h \notin Used(c) /\ From(b, i, h) <= r
      /\ \A x \in Used(c), y \in Slots(b) :
            Before(b, c.data[x].key, y, x) => y \in Used(c) \/ (y = h /\ From(b, i, x) > r)
  BY DEF Hole
<1> SUFFICES ASSUME NEW x \in Used(c), NEW y \in Slots(b), Before(b, c.data[x].key, y, x), y \notin Used(c)
             PROVE  FALSE
  BY <1>1 DEF Linked
<1>3. y = h /\ From(b, i, x) > r
  BY <1>2
<1>4. From(b, i, x) # r + 1
  BY <1>1
<1>5. From(b, i, h) < From(b, i, j) /\ From(b, i, j) < From(b, i, x)
  <2>1. From(b, i, h) \in Nat /\ From(b, i, x) \in Nat
    BY <1>1, <1>2
  <2> QED
    BY <1>2, <1>3, <1>4, <2>1
<1>6. Before(b, c.data[x].key, j, x)
  BY <1>1, <1>2, <1>3, <1>5, PassesBy
<1>7. j = h
  BY <1>2, <1>6
<1> QED
  BY <1>2, <1>7

(* If the next entry is found, it may stay.                                  *)
LEMMA HoleStays ==
    ASSUME NEW b, Shaped(b), NEW i \in Slots(b), NEW c, Shaped(c), c.bits = b.bits,
           NEW r \in Nat, NEW h, Hole(b, i, c, r, h),
           NEW j \in Used(c), From(b, i, j) = r + 1, First(c, c.data[j].key, j)
    PROVE  Hole(b, i, c, r + 1, h)
<1>1. /\ Slots(c) = Slots(b)
      /\ \A k, x, y : Before(c, k, x, y) <=> Before(b, k, x, y)
      /\ Size(b) \in Nat \ {0} /\ Used(c) \subseteq Slots(b)
      /\ \A y \in Slots(b) : From(b, i, y) \in 0 .. Size(b) - 1
      /\ \A x, y \in Slots(b) : From(b, i, x) = From(b, i, y) => x = y
      /\ \A x \in Slots(b) : x \in Used(c) <=> c.data[x].key # NoKey
  BY SameSlots
<1>2. /\ h \in Slots(b) /\ h \notin Used(c) /\ From(b, i, h) <= r
      /\ \A y \in Slots(b) : From(b, i, y) > r => c.data[y] = b.data[y]
      /\ \A x \in Used(c), y \in Slots(b) :
            Before(b, c.data[x].key, y, x) => y \in Used(c) \/ (y = h /\ From(b, i, x) > r)
  BY DEF Hole
<1>3. \A y \in Slots(b) : From(b, i, y) \in Nat /\ (From(b, i, y) > r + 1 => From(b, i, y) > r)
  BY <1>1
<1>4. ~Before(b, c.data[j].key, h, j)
  BY <1>1, <1>2 DEF First
<1>5. ASSUME NEW x \in Used(c), NEW y \in Slots(b), Before(b, c.data[x].key, y, x), y \notin Used(c)
      PROVE  y = h /\ From(b, i, x) > r + 1
  <2>1. y = h /\ From(b, i, x) > r
    BY <1>2, <1>5
  <2>2. x # j
    BY <1>4, <1>5, <2>1
  <2>3. From(b, i, x) # r + 1 /\ From(b, i, x) \in Nat
    BY <1>1, <1>3, <2>2
  <2> QED
    BY <2>1, <2>3
<1>6. From(b, i, h) <= r + 1
  BY <1>2, <1>3
<1> QED
  BY <1>2, <1>3, <1>5, <1>6 DEF Hole

\* An entry in the place of another one.
Swap(c, j, y, m) == Put(Put(c, y, c.data[j], m), j, FreeSlot, m)

(* An entry that moves is still there.                                       *)
LEMMA SwapFacts ==
    ASSUME NEW c, Shaped(c), Unique(c), NEW j \in Used(c), NEW h \in Slots(c) \ Used(c), NEW m \in Nat
    PROVE  LET d == Swap(c, j, h, m)
           IN  /\ Shaped(d) /\ Unique(d) /\ d.bits = c.bits /\ d.n = m
               /\ Used(d) = (Used(c) \cup {h}) \ {j} /\ EntriesOf(d) = EntriesOf(c)
               /\ d.data[h] = c.data[j] /\ \A x \in Slots(c) : x # h /\ x # j => d.data[x] = c.data[x]
<1> DEFINE e == c.data[j]
           p == Put(c, h, e, m)
           d == Put(p, j, FreeSlot, m)
<1>1. e \in Entry /\ j \in Slots(c) /\ Used(c) \subseteq Slots(c) /\ h # j
  BY SlotFacts
<1>2. /\ Shaped(p) /\ p.bits = c.bits /\ Slots(p) = Slots(c)
      /\ p.data[h] = e /\ \A x \in Slots(c) : x # h => p.data[x] = c.data[x]
      /\ Used(p) = Used(c) \cup {h}
  BY <1>1, PutShaped
<1> HIDE DEF p
<1>3. /\ Shaped(d) /\ d.bits = p.bits /\ d.n = m
      /\ \A x \in Slots(p) : x # j => d.data[x] = p.data[x]
      /\ Used(d) = Used(p) \ {j}
  <2>1. j \in Slots(p) /\ FreeSlot \in Entry \cup {FreeSlot} /\ Shaped(p)
    BY <1>1, <1>2
  <2> QED
    BY <2>1, PutShaped
<1> HIDE DEF d
<1>4. d.data[h] = e /\ \A x \in Slots(c) : x # h /\ x # j => d.data[x] = c.data[x]
  BY <1>1, <1>2, <1>3
<1>5. Used(d) = (Used(c) \cup {h}) \ {j}
  BY <1>2, <1>3
<1> DEFINE Old(x) == IF x = h THEN j ELSE x
<1>6. \A x \in Used(d) : Old(x) \in Used(c) /\ d.data[x] = c.data[Old(x)]
  BY <1>1, <1>4, <1>5
<1>7. \A x, y \in Used(d) : Old(x) = Old(y) => x = y
  BY <1>5
<1>8. \A y \in Used(c) : \E x \in Used(d) : Old(x) = y
  <2> SUFFICES ASSUME NEW y \in Used(c) PROVE \E x \in Used(d) : Old(x) = y
    OBVIOUS
  <2>1. CASE y = j
    <3>1. h \in Used(d) /\ Old(h) = y
      BY <1>1, <1>5, <2>1
    <3> QED
      BY <3>1
  <2>2. CASE y # j
    <3>1. y \in Used(d) /\ Old(y) = y
      BY <1>5, <2>2
    <3> QED
      BY <3>1
  <2> QED
    BY <2>1, <2>2
<1> HIDE DEF Old, e
<1>9. Unique(d)
  <2> SUFFICES ASSUME NEW x \in Used(d), NEW y \in Used(d), d.data[x].key = d.data[y].key
               PROVE  x = y
    BY DEF Unique
  <2>1. Old(x) = Old(y)
    BY <1>6 DEF Unique
  <2> QED
    BY <1>7, <2>1
<1>10. EntriesOf(d) = EntriesOf(c)
  <2>1. EntriesOf(d) \subseteq EntriesOf(c)
    BY <1>6 DEF EntriesOf
  <2>2. ASSUME NEW y \in Used(c) PROVE c.data[y] \in EntriesOf(d)
    <3>1. PICK x \in Used(d) : Old(x) = y
      BY <1>8
    <3> QED
      BY <1>6, <3>1 DEF EntriesOf
  <2> QED
    BY <2>1, <2>2 DEF EntriesOf
<1> QED
  BY <1>2, <1>3, <1>4, <1>5, <1>9, <1>10 DEF Swap, d, p, e

(* If the next entry is not found, its search ends at the hole: it moves     *)
(* there, and leaves a hole in its place.                                    *)
LEMMA HoleMoves ==
    ASSUME NEW b, Shaped(b), NEW i \in Slots(b), NEW c, Shaped(c), Unique(c), c.bits = b.bits,
           NEW r \in Nat, NEW h, Hole(b, i, c, r, h), NEW f \in Slots(b) \ Used(b), r < From(b, i, f),
           NEW j \in Used(c), From(b, i, j) = r + 1,
           NEW y, First(c, c.data[j].key, y), c.data[y].key # c.data[j].key, NEW m \in Nat
    PROVE  y = h /\ Hole(b, i, Swap(c, j, h, m), r + 1, j)
<1> DEFINE k == c.data[j].key
           d == Swap(c, j, h, m)
<1>1. /\ Slots(c) = Slots(b)
      /\ \A l, x, z : Before(c, l, x, z) <=> Before(b, l, x, z)
      /\ Size(b) \in Nat \ {0} /\ Used(c) \subseteq Slots(b)
      /\ \A x \in Slots(b) : From(b, i, x) \in 0 .. Size(b) - 1
      /\ \A x, z \in Slots(b) : From(b, i, x) = From(b, i, z) => x = z
      /\ \A l \in Keys : \A x, z \in Slots(b) : Before(b, l, x, z) \/ x = z \/ Before(b, l, z, x)
      /\ \A x \in Slots(b) : x \in Used(c) <=> c.data[x].key # NoKey
      /\ \A x \in Used(c) : c.data[x].key \in Keys
  BY SameSlots
<1>2. /\ h \in Slots(b) /\ h \notin Used(c) /\ From(b, i, h) <= r
      /\ \A x \in Slots(b) : From(b, i, x) > r => c.data[x] = b.data[x]
      /\ \A x \in Used(c), z \in Slots(b) :
            Before(b, c.data[x].key, z, x) => z \in Used(c) \/ (z = h /\ From(b, i, x) > r)
  BY DEF Hole
<1>3. /\ y \in Slots(b) /\ c.data[y].key \in {k, NoKey}
      /\ \A x \in Slots(b) : Before(b, k, x, y) => c.data[x].key \notin {k, NoKey}
  BY <1>1 DEF First
<1>4. y = h
  <2>1. y \notin Used(c) /\ y # j
    BY <1>1, <1>3
  <2>2. ~Before(b, k, j, y)
    BY <1>1, <1>3
  <2>3. Before(b, k, y, j)
    BY <1>1, <1>3, <2>1, <2>2
  <2> QED
    BY <1>2, <1>3, <2>1, <2>3
<1>5. /\ Used(d) = (Used(c) \cup {h}) \ {j}
      /\ d.data[h] = c.data[j] /\ \A x \in Slots(b) : x # h /\ x # j => d.data[x] = c.data[x]
  BY <1>1, <1>2, SwapFacts
<1> HIDE DEF d
<1>6. \A x \in Slots(b) : From(b, i, x) \in Nat
  BY <1>1
<1>7. f \notin Used(c) /\ f # h /\ r + 1 < From(b, i, f)
  <2>1. From(b, i, f) > r /\ f \in Slots(b)
    BY <1>6
  <2>2. c.data[f] = b.data[f]
    BY <1>2, <2>1
  <2>3. f \notin Used(c)
    <3>1. b.data[f].key = NoKey
      BY SlotFacts
    <3> QED
      BY <1>1, <2>1, <2>2, <3>1
  <2>4. f # h
    BY <1>2, <1>6, <2>1
  <2>5. From(b, i, f) # r + 1
    BY <1>1, <2>1, <2>3
  <2> QED
    BY <1>6, <2>1, <2>3, <2>4, <2>5
<1>8. ASSUME NEW x \in Slots(b), From(b, i, x) > r + 1
      PROVE  d.data[x] = b.data[x]
  <2>1. From(b, i, x) > r /\ x # h /\ x # j
    BY <1>2, <1>6, <1>8
  <2> QED
    BY <1>2, <1>5, <2>1
<1>9. ASSUME NEW x \in Used(d), NEW z \in Slots(b), Before(b, d.data[x].key, z, x), z \notin Used(d)
      PROVE  z = j /\ From(b, i, x) > r + 1
  <2>1. z = j \/ z \notin Used(c) \cup {h}
    BY <1>5, <1>9
  <2>2. CASE x = h
    <3>1. Before(b, k, z, h)
      BY <1>5, <1>9, <2>2
    <3>2. c.data[z].key \notin {k, NoKey}
      BY <1>3, <1>4, <3>1
    <3>3. z \in Used(c) /\ z # j
      BY <1>1, <3>2
    <3> QED
      BY <2>1, <3>3
  <2>3. CASE x # h
    <3>1. x \in Used(c) /\ x # j /\ d.data[x] = c.data[x] /\ x \in Slots(b)
      BY <1>1, <1>5, <2>3
    <3>2. z \in Used(c) \/ z = h
      BY <1>2, <1>9, <3>1
    <3>3. z = j
      BY <2>1, <3>2
    <3>4. From(b, i, x) # r + 1
      BY <1>1, <3>1
    <3>5. ASSUME From(b, i, x) <= r PROVE FALSE
      <4>1. From(b, i, x) < From(b, i, j) /\ From(b, i, j) < From(b, i, f)
        BY <1>6, <1>7, <3>1, <3>5
      <4>2. Before(b, c.data[x].key, j, x) /\ c.data[x].key \in Keys
        BY <1>1, <1>9, <3>1, <3>3
      <4>3. Before(b, c.data[x].key, f, x)
        BY <1>1, <3>1, <4>1, <4>2, PassesBy
      <4> QED
        BY <1>2, <1>7, <3>1, <4>3
    <3> QED
      BY <1>6, <3>1, <3>3, <3>4, <3>5
  <2> QED
    BY <2>2, <2>3
<1>10. j \in Slots(b) /\ j \notin Used(d) /\ From(b, i, j) <= r + 1
  BY <1>1, <1>5
<1> QED
  BY <1>4, <1>8, <1>9, <1>10 DEF Hole, d

(* A free slot stays free until it is reached.                               *)
LEMMA FreeAhead ==
    ASSUME NEW b, Shaped(b), NEW i \in Slots(b), NEW c, Shaped(c), c.bits = b.bits,
           NEW r \in Nat, NEW h, Hole(b, i, c, r, h), NEW f \in Slots(b) \ Used(b), r < From(b, i, f)
    PROVE  f \notin Used(c)
<1>1. From(b, i, f) \in Nat /\ \A x \in Slots(b) : x \in Used(c) <=> c.data[x].key # NoKey
  BY SameSlots
<1>2. c.data[f] = b.data[f]
  BY <1>1 DEF Hole
<1>3. b.data[f].key = NoKey
  BY SlotFacts
<1> QED
  BY <1>1, <1>2, <1>3

(* One entry behind the hole is dealt with.                                  *)
LEMMA SettledHole ==
    ASSUME NEW b, Shaped(b), Hashed(b), NEW i \in Slots(b), NEW c, Shaped(c), Unique(c),
           c.bits = b.bits, c.n = b.n,
           NEW r \in Nat, NEW h, Hole(b, i, c, r, h), NEW f \in Slots(b) \ Used(b), r < From(b, i, f),
           NEW j \in Used(c), From(b, i, j) = r + 1
    PROVE  LET d == Settle(c, j)
           IN  /\ Shaped(d) /\ Unique(d) /\ d.bits = b.bits /\ d.n = b.n
               /\ EntriesOf(d) = EntriesOf(c) /\ r + 1 < From(b, i, f)
               /\ \E g : Hole(b, i, d, r + 1, g)
<1> DEFINE k == c.data[j].key
           d == Settle(c, j)
<1>1. r + 1 < From(b, i, f)
  <2>1. f # j
    BY FreeAhead
  <2>2. j \in Slots(b) /\ From(b, i, f) \in Nat /\ From(b, i, f) # From(b, i, j)
    BY <2>1, SameSlots
  <2> QED
    BY <2>2
<1>2. /\ j \in Slots(c) /\ k \in Keys /\ Hashed(c) /\ c.n \in Nat /\ c.bits \in 0 .. HashShift
      /\ h \in Slots(c) \ Used(c) /\ c.data[j] \in Entry
  <2>1. Slots(c) = Slots(b) /\ c.data[j] \in Entry /\ k \in Keys /\ Used(c) \subseteq Slots(b)
    BY SameSlots
  <2> QED
    BY <2>1 DEF Hashed, Shaped, Hole
<1>3. PICK y : First(c, k, y)
  BY <1>2, FirstExists
<1>4. Locate(c, k) = [found |-> (c.data[y].key = k), index |-> y]
  BY <1>2, <1>3, FirstLocated
<1>5. d = IF c.data[y].key = k THEN c
          ELSE [c EXCEPT !.data[y] = c.data[j], !.data[j] = FreeSlot]
  <2>1. Locate(c, k).found = (c.data[y].key = k) /\ Locate(c, k).index = y
    BY <1>4
  <2>2. d = IF Locate(c, k).found THEN c
            ELSE [c EXCEPT !.data[Locate(c, k).index] = c.data[j], !.data[j] = FreeSlot]
    BY DEF Settle
  <2> HIDE DEF d
  <2> QED
    BY <2>1, <2>2
<1>6. CASE c.data[y].key = k
  <2>1. y = j
    <3>1. y \in Used(c)
      BY <1>2, <1>3, <1>6, SlotFacts DEF First
    <3> QED
      BY <1>6, <3>1 DEF Unique
  <2>2. Hole(b, i, c, r + 1, h)
    BY <1>3, <2>1, HoleStays
  <2> QED
    BY <1>1, <1>5, <1>6, <2>2
<1>7. CASE c.data[y].key # k
  <2>1. y = h /\ Hole(b, i, Swap(c, j, h, c.n), r + 1, j)
    BY <1>2, <1>3, <1>7, FreeAhead, HoleMoves
  <2>2. d = Swap(c, j, h, c.n)
    <3> DEFINE e == c.data[j]
    <3>1. e \in Entry \cup {FreeSlot} /\ b.bits \in 0 .. HashShift /\ b.n \in Nat
      BY <1>2
    <3>2. c \in Bodies(b.bits, b.n)
      BY <3>1, BodiesShaped
    <3>3. d = Refilled(c, y, e, j)
      BY <1>5, <1>7 DEF Refilled
    <3> HIDE DEF d, e, k
    <3>4. Refilled(c, y, e, j) = Put(Put(c, y, e, b.n), j, FreeSlot, b.n)
      BY <3>1, <3>2, TwoExcepts
    <3> QED
      BY <2>1, <3>3, <3>4 DEF Swap, e
  <2> HIDE DEF d
  <2>3. /\ Shaped(d) /\ Unique(d) /\ d.bits = c.bits /\ d.n = c.n /\ EntriesOf(d) = EntriesOf(c)
    BY <1>2, <2>2, SwapFacts
  <2> QED
    BY <1>1, <2>1, <2>2, <2>3 DEF d
<1> QED
  BY <1>6, <1>7

\* The states of the removal loop.
States(b) == [stop : BOOLEAN, body : Bodies(b.bits, b.n)]

\* The state after r rounds.
Loose(b, i, f, r, s) ==
    /\ s \in States(b) /\ Unique(s.body) /\ EntriesOf(s.body) = EntriesOf(b) \ {b.data[i]}
    /\ s.stop => Linked(s.body)
    /\ ~s.stop => r < From(b, i, f) /\ \E h : Hole(b, i, s.body, r, h)

(* A round keeps the kind of body.                                           *)
LEMMA VisitTyped ==
    ASSUME NEW b, Shaped(b), NEW s \in States(b), NEW j \in Slots(b)
    PROVE  /\ Visit(s, j) \in States(b)
           /\ s.stop \/ j \notin Used(s.body) =>
                 Visit(s, j).stop = TRUE /\ Visit(s, j).body = s.body
           /\ ~s.stop /\ j \in Used(s.body) =>
                 Visit(s, j).stop = FALSE /\ Visit(s, j).body = Settle(s.body, j)
<1> DEFINE c == s.body
           l == Locate(c, c.data[j].key)
           d == Settle(c, j)
<1>1. /\ c \in Bodies(b.bits, b.n) /\ s.stop \in BOOLEAN /\ s = [stop |-> s.stop, body |-> c]
      /\ b.bits \in 0 .. HashShift /\ b.n \in Nat
  BY DEF States, Shaped
<1>2. Shaped(c) /\ c.bits = b.bits /\ c.n = b.n
  BY <1>1, BodiesShaped
<1>3. /\ Slots(c) = Slots(b) /\ (j \in Used(c) <=> c.data[j].key # NoKey)
      /\ c.data[j] \in Entry \cup {FreeSlot}
  BY <1>2, SameSlots DEF Shaped
<1>4. d \in Bodies(b.bits, b.n)
  <2>1. CASE l.found
    BY <1>1, <2>1 DEF Settle
  <2>2. CASE ~l.found
    <3> DEFINE e == c.data[j]
               y == l.index
    <3>1. d = Refilled(c, y, e, j)
      BY <2>2 DEF Settle, Refilled
    <3> HIDE DEF c, d, e, y
    <3>2. e \in Entry \cup {FreeSlot}
      BY <1>3 DEF e
    <3> QED
      BY <1>1, <3>1, <3>2, TwoExcepts
  <2> QED
    BY <2>1, <2>2
<1> HIDE DEF c, d
<1>5. CASE s.stop \/ j \notin Used(c)
  <2>1. Visit(s, j) = [s EXCEPT !.stop = TRUE]
    BY <1>3, <1>5 DEF Visit, c
  <2>2. Visit(s, j) = [stop |-> TRUE, body |-> c]
    <3>1. \A v : [s EXCEPT !.stop = v] = [stop |-> v, body |-> c]
      BY <1>1
    <3>2. [s EXCEPT !.stop = TRUE] = [stop |-> TRUE, body |-> c]
      BY <3>1, Zenon
    <3> QED
      BY <2>1, <3>2, Zenon
  <2> QED
    BY <1>1, <1>5, <2>2 DEF States, c
<1>6. CASE ~s.stop /\ j \in Used(c)
  <2>1. Visit(s, j) = [s EXCEPT !.body = d]
    <3>1. ~(s.stop \/ s.body.data[j].key = NoKey)
      <4>1. c.data[j].key # NoKey
        BY <1>3, <1>6
      <4>2. s.body.data[j].key # NoKey
        BY <4>1 DEF c
      <4> QED
        BY <1>6, <4>2
    <3>2. Visit(s, j) = [s EXCEPT !.body = Settle(s.body, j)]
      BY <3>1 DEF Visit
    <3> QED
      BY <3>2 DEF c, d
  <2>2. Visit(s, j) = [stop |-> s.stop, body |-> d]
    BY <1>1, <2>1
  <2>3. Visit(s, j).stop = FALSE /\ Visit(s, j).body = d
    BY <1>1, <1>6, <2>2
  <2>4. Visit(s, j) \in States(b)
    BY <1>1, <1>4, <2>2 DEF States
  <2> QED
    BY <1>6, <2>3, <2>4 DEF c, d
<1> QED
  BY <1>5, <1>6 DEF c

(* A round of the removal loop.                                              *)
LEMMA RoundLoose ==
    ASSUME NEW b, Shaped(b), Hashed(b), NEW i \in Slots(b), NEW f \in Slots(b) \ Used(b),
           NEW r \in 0 .. Size(b) - 1, NEW s, Loose(b, i, f, r, s)
    PROVE  Loose(b, i, f, r + 1, Visit(s, (i + (r + 1)) % Size(b)))
<1> DEFINE N == Size(b)
           j == (i + (r + 1)) % N
           c == s.body
           t == Visit(s, j)
<1>1. /\ N \in Nat \ {0} /\ Slots(b) = 0 .. N - 1
  BY SlotFacts DEF Slots
<1>2. j \in Slots(b) /\ (r + 1 < N => From(b, i, j) = r + 1)
  <2>1. i \in 0 .. N - 1 /\ i + (r + 1) \in Int
    BY <1>1
  <2>2. ASSUME NEW x \in Int PROVE x % N \in 0 .. N - 1
    BY <1>1
  <2>3. \A d \in 0 .. N - 1 : Way(N, i, (i + d) % N) = d
    BY <1>1, <2>1, WayRound
  <2>4. r + 1 < N => r + 1 \in 0 .. N - 1
    BY <1>1
  <2> QED
    BY <1>1, <2>1, <2>2, <2>3, <2>4 DEF From
<1> HIDE DEF j, N
<1>3. /\ s \in States(b) /\ s.stop \in BOOLEAN
      /\ Unique(c) /\ EntriesOf(c) = EntriesOf(b) \ {b.data[i]}
      /\ s.stop => Linked(c)
      /\ ~s.stop => r < From(b, i, f) /\ \E h : Hole(b, i, c, r, h)
  BY DEF Loose, States
<1>4. Shaped(c) /\ c.bits = b.bits /\ c.n = b.n
  <2>1. c \in Bodies(b.bits, b.n) /\ b.bits \in 0 .. HashShift /\ b.n \in Nat
    BY <1>3 DEF States, Shaped
  <2> QED
    BY <2>1, BodiesShaped
<1>5. /\ t \in States(b)
      /\ s.stop \/ j \notin Used(c) => t.stop = TRUE /\ t.body = c
      /\ ~s.stop /\ j \in Used(c) => t.stop = FALSE /\ t.body = Settle(c, j)
  BY <1>2, <1>3, VisitTyped
<1> HIDE DEF c, t
<1>6. ASSUME s.stop
      PROVE  Loose(b, i, f, r + 1, t)
  <2>1. t.stop = TRUE /\ t.body = c
    BY <1>5, <1>6
  <2> QED
    BY <1>3, <1>5, <1>6, <2>1 DEF Loose
<1>7. ASSUME ~s.stop
      PROVE  Loose(b, i, f, r + 1, t)
  <2>1. PICK h : Hole(b, i, c, r, h)
    BY <1>3, <1>7
  <2>2. r < From(b, i, f) /\ r \in Nat
    BY <1>1, <1>3, <1>7 DEF N
  <2>3. r + 1 < N
    <3>1. From(b, i, f) \in 0 .. N - 1
      BY SameSlots DEF N
    <3> QED
      BY <1>1, <2>2, <3>1
  <2>4. From(b, i, j) = r + 1
    BY <1>2, <2>3
  <2>5. CASE j \notin Used(c)
    <3>1. Linked(c)
      BY <1>2, <1>4, <2>1, <2>2, <2>4, <2>5, HoleEnds
    <3> QED
      BY <1>3, <1>5, <2>5, <3>1 DEF Loose
  <2>6. CASE j \in Used(c)
    <3> DEFINE d == Settle(c, j)
    <3>1. /\ Unique(d) /\ EntriesOf(d) = EntriesOf(c) /\ r + 1 < From(b, i, f)
          /\ \E g : Hole(b, i, d, r + 1, g)
      BY <1>3, <1>4, <2>1, <2>2, <2>4, <2>6, SettledHole
    <3> HIDE DEF d
    <3>2. t.stop = FALSE /\ t.body = d
      BY <1>5, <1>7, <2>6 DEF d
    <3> QED
      BY <1>3, <1>5, <3>1, <3>2 DEF Loose
  <2> QED
    BY <2>5, <2>6
<1> QED
  BY <1>6, <1>7 DEF t, j, N

(* The entry is taken out.                                                   *)
LEMMA FirstLoose ==
    ASSUME NEW b, Shaped(b), Unique(b), Linked(b), NEW i \in Used(b), NEW f \in Slots(b) \ Used(b)
    PROVE  Loose(b, i, f, 0, [stop |-> FALSE, body |-> [b EXCEPT !.data[i] = FreeSlot]])
<1> DEFINE a == [stop |-> FALSE, body |-> [b EXCEPT !.data[i] = FreeSlot]]
           c == [b EXCEPT !.data[i] = FreeSlot]
<1>0. i \in Slots(b) /\ Used(b) \subseteq Slots(b)
  BY SlotFacts
<1>1. b.bits \in 0 .. HashShift /\ b.n \in Nat /\ b \in Bodies(b.bits, b.n)
  BY <1>0, BodiesShaped DEF Shaped
<1>2. c \in Bodies(b.bits, b.n) /\ c = Put(b, i, FreeSlot, b.n)
  BY <1>1, BodiesExcept
<1>3. FreeSlot \in Entry \cup {FreeSlot}
  OBVIOUS
<1> HIDE DEF c
<1>4. /\ Shaped(c) /\ c.bits = b.bits /\ Slots(c) = Slots(b)
      /\ \A x \in Slots(b) : x # i => c.data[x] = b.data[x]
      /\ Used(c) = Used(b) \ {i}
  <2> DEFINE p == Put(b, i, FreeSlot, b.n)
  <2>1. /\ Shaped(p) /\ p.bits = b.bits /\ Slots(p) = Slots(b)
        /\ \A x \in Slots(b) : x # i => p.data[x] = b.data[x]
        /\ Used(p) = Used(b) \ {i}
    <3>1. b.n \in Nat /\ i \in Slots(b)
      BY <1>0, <1>1
    <3> QED
      BY <1>3, <3>1, PutShaped
  <2> HIDE DEF p
  <2>2. c = p
    BY <1>2 DEF p
  <2> QED
    BY <2>1, <2>2
<1>5. /\ \A y \in Slots(b) : From(b, i, y) \in Nat
      /\ \A x, y \in Slots(b) : From(b, i, x) = From(b, i, y) => x = y
  BY <1>0, SameSlots
<1>6. From(b, i, i) = 0
  <2>1. i \in Int
    BY <1>0, SlotFacts DEF Slots
  <2> QED
    BY <2>1 DEF From, Way
<1>7. Unique(c) /\ EntriesOf(c) = EntriesOf(b) \ {b.data[i]}
  BY <1>0, <1>4 DEF Unique, EntriesOf
<1>8. Hole(b, i, c, 0, i)
  <2>1. \A y \in Slots(b) : From(b, i, y) > 0 <=> y # i
    BY <1>0, <1>5, <1>6
  <2>2. ASSUME NEW x \in Used(c), NEW y \in Slots(b), Before(b, c.data[x].key, y, x), y \notin Used(c)
        PROVE  y = i /\ From(b, i, x) > 0
    <3>1. x \in Used(b) /\ x # i /\ c.data[x] = b.data[x]
      BY <1>0, <1>4
    <3>2. y \in Used(b)
      BY <1>0, <2>2, <3>1 DEF Linked
    <3> QED
      BY <1>0, <1>4, <2>1, <2>2, <3>1, <3>2
  <2> QED
    BY <1>0, <1>4, <1>6, <2>1, <2>2 DEF Hole
<1>9. 0 < From(b, i, f)
  BY <1>0, <1>5, <1>6
<1>10. a = [stop |-> FALSE, body |-> c]
  BY DEF c
<1> HIDE DEF a
<1>11. a.stop = FALSE /\ a.body = c /\ a \in States(b)
  BY <1>2, <1>10 DEF States
<1>12. Loose(b, i, f, 0, a)
  BY <1>7, <1>8, <1>9, <1>11 DEF Loose
<1> QED
  BY <1>12 DEF a, c

(* The removal loop ends, and leaves no entry behind a hole.                 *)
LEMMA ClosedOrdered ==
    ASSUME NEW b, Table(b), Hashed(b), NEW i \in Used(b)
    PROVE  LET c == Closed(b, i)
           IN  /\ Shaped(c) /\ Unique(c) /\ Linked(c) /\ c.bits = b.bits /\ c.n = b.n
               /\ EntriesOf(c) = EntriesOf(b) \ {b.data[i]}
<1> DEFINE N == Size(b)
           a == [stop |-> FALSE, body |-> [b EXCEPT !.data[i] = FreeSlot]]
           S == States(b)
           F == [r \in 1 .. N |-> [s \in S |-> Visit(s, (i + r) % N)]]
           G(f) == [r \in 0 .. N |-> IF r = 0 THEN a ELSE Visit(f[r - 1], (i + r) % N)]
           g == CHOOSE f : f = G(f)
<1>1. /\ Shaped(b) /\ Unique(b) /\ Linked(b) /\ b.n = Cardinality(Used(b)) /\ b.n < Size(b)
      /\ N \in Nat \ {0} /\ Slots(b) = 0 .. N - 1 /\ Used(b) \subseteq Slots(b) /\ i \in Slots(b)
  BY SlotFacts DEF Table, Ordered, Slots
<1>2. PICK f \in Slots(b) \ Used(b) : TRUE
  <2>1. Used(b) # Slots(b)
    BY <1>1, UsedCounted
  <2> QED
    BY <1>1, <2>1
<1>3. Loose(b, i, f, 0, a)
  BY <1>1, FirstLoose
<1>4. a \in S
  BY <1>3 DEF Loose
<1> HIDE DEF a
<1>5. \A r : (i + r) \in Int => (i + r) % N \in Slots(b)
  BY <1>1
<1>6. F \in [1 .. N -> [S -> S]]
  <2>1. ASSUME NEW r \in 1 .. N, NEW s \in S
        PROVE  Visit(s, (i + r) % N) \in S
    <3>1. (i + r) % N \in Slots(b)
      BY <1>1, <1>5
    <3> HIDE DEF N
    <3> QED
      BY <1>1, <3>1, VisitTyped
  <2> HIDE DEF S, N
  <2> QED
    BY <2>1
<1>7. \A r \in 1 .. N, s \in S : F[r][s] = Visit(s, (i + r) % N)
  OBVIOUS
<1>8. Closed(b, i) = g[N].body
  BY DEF Closed, a
<1> HIDE DEF N, S, F
<1>s. PICK s : Steps(s, N, a, F, S)
  <2> HIDE DEF g, G
  <2>1. N \in Nat
    BY <1>1
  <2> QED
    BY <2>1, <1>4, <1>6, StepsExist
<1>9. s \in [0 .. N -> S] /\ s[0] = a /\ \A r \in 1 .. N : s[r] = F[r][s[r - 1]]
  BY <1>s DEF Steps
<1>10. \A r \in 0 .. N : s[r] = IF r = 0 THEN a ELSE Visit(s[r - 1], (i + r) % N)
  <2> TAKE r \in 0 .. N
  <2>1. r # 0 => r \in 1 .. N /\ r - 1 \in 0 .. N
    BY <1>1
  <2>2. r # 0 => s[r] = Visit(s[r - 1], (i + r) % N)
    BY <1>7, <1>9, <2>1
  <2> QED
    BY <1>9, <2>2
<1>11. s = G(s)
  BY <1>9, <1>10
<1>12. g = G(g)
  BY <1>11
<1> HIDE DEF g
<1>13. \A r \in 0 .. N : g[r] = IF r = 0 THEN a ELSE Visit(g[r - 1], (i + r) % N)
  BY <1>12
<1> DEFINE T == {r \in 0 .. N : Loose(b, i, f, r, g[r])}
<1>14. 0 \in T
  <2>1. g[0] = a /\ 0 \in 0 .. N
    BY <1>1, <1>13
  <2> QED
    BY <1>3, <2>1
<1>15. ASSUME NEW r \in 0 .. N - 1, r \in T
       PROVE  r + 1 \in T
  <2>1. r + 1 \in 0 .. N /\ r + 1 # 0 /\ (r + 1) - 1 = r /\ r \in 0 .. Size(b) - 1
    BY <1>1 DEF N
  <2>2. g[r + 1] = Visit(g[r], (i + (r + 1)) % Size(b))
    BY <1>13, <2>1 DEF N
  <2>3. Loose(b, i, f, r, g[r])
    BY <1>15
  <2>4. Loose(b, i, f, r + 1, g[r + 1])
    <3> HIDE DEF T, G
    <3>1. Loose(b, i, f, r + 1, Visit(g[r], (i + (r + 1)) % Size(b)))
      BY <1>1, <2>1, <2>3, RoundLoose
    <3> QED
      BY <2>2, <3>1
  <2> QED
    BY <2>1, <2>4
<1>16. N \in T
  <2>1. T \in SUBSET Nat
    BY <1>1
  <2> HIDE DEF T
  <2>2. \A r \in 0 .. N - 1 : r \in T => r + 1 \in T
    BY <1>15
  <2>3. 0 .. N \subseteq T
    BY <1>1, <1>14, <2>1, <2>2, UpTo
  <2> QED
    BY <1>1, <2>3
<1>17. Loose(b, i, f, N, g[N])
  BY <1>16
<1>18. /\ g[N] \in States(b) /\ Unique(g[N].body) /\ EntriesOf(g[N].body) = EntriesOf(b) \ {b.data[i]}
       /\ Linked(g[N].body)
  <2>1. ~(N < From(b, i, f))
    <3>1. From(b, i, f) \in 0 .. N - 1
      BY <1>1, <1>2, SameSlots DEF N
    <3> QED
      BY <1>1, <3>1
  <2>2. g[N].stop
    BY <1>17, <2>1 DEF Loose
  <2> QED
    BY <1>17, <2>2 DEF Loose
<1>19. Shaped(g[N].body) /\ g[N].body.bits = b.bits /\ g[N].body.n = b.n
  <2>1. g[N].body \in Bodies(b.bits, b.n) /\ b.bits \in 0 .. HashShift /\ b.n \in Nat
    BY <1>1, <1>18 DEF States, Shaped
  <2> QED
    BY <2>1, BodiesShaped
<1> QED
  BY <1>8, <1>18, <1>19

(* The number of entries is counted down.                                    *)
LEMMA CountedDown ==
    ASSUME NEW b, Shaped(b), NEW m \in Nat
    PROVE  LET c == [b EXCEPT !.n = m]
           IN  /\ Shaped(c) /\ c.bits = b.bits /\ c.n = m /\ Used(c) = Used(b) /\ EntriesOf(c) = EntriesOf(b)
               /\ Size(c) = Size(b) /\ (Hashed(c) <=> Hashed(b))
               /\ Unique(b) => Unique(c)
               /\ Linked(b) => Linked(c)
<1> DEFINE c == [b EXCEPT !.n = m]
<1>1. c = [bits |-> b.bits, n |-> m, data |-> b.data]
  BY DEF Shaped
<1> HIDE DEF c
<1>2. /\ c.bits = b.bits /\ c.n = m /\ c.data = b.data
      /\ c = [bits |-> c.bits, n |-> c.n, data |-> c.data]
  BY <1>1
<1>3. Size(c) = Size(b) /\ Slots(c) = Slots(b) /\ (Hashed(c) <=> Hashed(b))
  BY <1>2 DEF Size, Slots, Hashed
<1>4. Shaped(c)
  BY <1>2, <1>3 DEF Shaped
<1>5. Used(c) = Used(b)
  BY <1>2, <1>3 DEF Used
<1>6. EntriesOf(c) = EntriesOf(b) /\ (Unique(b) => Unique(c))
  BY <1>2, <1>5 DEF EntriesOf, Unique
<1>7. Linked(b) => Linked(c)
  BY <1>2, <1>3, <1>5 DEF Linked, Before
<1> QED
  BY <1>2, <1>3, <1>4, <1>5, <1>6, <1>7 DEF c

(* remove(): the table without the entry.                                    *)
LEMMA WithoutTable ==
    ASSUME NEW b, Table(b), NEW i \in Used(b)
    PROVE  LET c == Without(b, b.data[i].key)
           IN  Table(c) /\ EntriesOf(c) = EntriesOf(b) \ {b.data[i]}
<1> DEFINE c == Without(b, b.data[i].key)
<1>1. /\ Ordered(b) /\ Shaped(b) /\ Unique(b) /\ b.n \in Nat /\ b.n = Cardinality(Used(b))
  BY DEF Table, Ordered, Shaped
<1>2. Locate(b, b.data[i].key).index = i
  <2>1. Locate(b, b.data[i].key) = [found |-> TRUE, index |-> i]
    BY <1>1, UsedLocated
  <2> QED
    BY <2>1
<1>3. CASE ~Hashed(b)
  <2>1. c = [Shifted(b, i) EXCEPT !.n = @ - 1]
    BY <1>2, <1>3 DEF Without
  <2> HIDE DEF c
  <2> QED
    BY <1>3, <2>1, ShiftedTable DEF c
<1>4. CASE Hashed(b)
  <2> DEFINE d == Closed(b, i)
  <2>1. c = [d EXCEPT !.n = @ - 1]
    BY <1>2, <1>4 DEF Without
  <2>2. /\ Shaped(d) /\ Unique(d) /\ Linked(d) /\ d.bits = b.bits /\ d.n = b.n
        /\ EntriesOf(d) = EntriesOf(b) \ {b.data[i]}
    BY <1>4, ClosedOrdered
  <2> HIDE DEF d, c
  <2>3. c = [d EXCEPT !.n = b.n - 1]
    BY <2>1, <2>2
  <2>4. Cardinality(Used(d)) = b.n - 1 /\ b.n - 1 \in Nat
    <3>1. /\ Cardinality(EntriesOf(b)) = b.n /\ IsFiniteSet(EntriesOf(b))
      BY <1>1, BodyEntries
    <3>2. b.data[i] \in EntriesOf(b)
      BY DEF EntriesOf
    <3>3. Cardinality(EntriesOf(b) \ {b.data[i]}) = b.n - 1
      <4> DEFINE E == EntriesOf(b)
                 e == b.data[i]
      <4> HIDE DEF E, e
      <4>1. IsFiniteSet(E) /\ e \in E /\ Cardinality(E) = b.n
        BY <3>1, <3>2 DEF E, e
      <4>2. Cardinality(E \ {e}) = b.n - 1
        BY <4>1, FS_RemoveElement
      <4> QED
        BY <4>2 DEF E, e
    <3>4. Cardinality(EntriesOf(d)) = Cardinality(Used(d))
      BY <2>2, BodyEntries
    <3>5. Cardinality(Used(d)) \in Nat
      BY <2>2, UsedCounted
    <3> QED
      BY <2>2, <3>3, <3>4, <3>5
  <2>5. /\ Shaped(c) /\ c.bits = d.bits /\ c.n = b.n - 1 /\ Used(c) = Used(d) /\ EntriesOf(c) = EntriesOf(d)
        /\ Size(c) = Size(d) /\ (Hashed(c) <=> Hashed(d))
        /\ Unique(c) /\ Linked(c)
    BY <2>2, <2>3, <2>4, CountedDown
  <2>6. Hashed(d) /\ Size(d) = Size(b) /\ b.n < Size(b) /\ Size(b) \in Nat
    BY <1>1, <1>4, <2>2, SlotFacts DEF Hashed, Size, Table
  <2>7. c.n < Size(c)
    BY <1>1, <2>5, <2>6
  <2>8. Table(c)
    BY <2>4, <2>5, <2>6, <2>7 DEF Table, Ordered
  <2> QED
    BY <2>2, <2>5, <2>8 DEF c
<1> QED
  BY <1>3, <1>4

-----------------------------------------------------------------------------
(* Iterators. *)

(* Sorting lists each element once.                                          *)
LEMMA SortedLists ==
    ASSUME NEW D, IsFiniteSet(D), NEW rank \in [D -> Nat],
           \A x, y \in D : rank[x] = rank[y] => x = y
    PROVE  LET s == Sorted(rank)
           IN  /\ s \in [1 .. Cardinality(D) -> D]
               /\ \A j, l \in 1 .. Cardinality(D) : s[j] = s[l] => j = l
               /\ \A x \in D : \E j \in 1 .. Cardinality(D) : s[j] = x
<1> DEFINE n == Cardinality(D)
           Less(x) == {y \in D : rank[y] < rank[x]}
           g == [x \in D |-> Cardinality(Less(x)) + 1]
           s == Sorted(rank)
<1>1. n \in Nat /\ DOMAIN rank = D
  BY FS_CardinalityType
<1>2. ASSUME NEW x \in D
      PROVE  Cardinality(Less(x)) \in Nat /\ Cardinality(Less(x)) + 1 <= n /\ IsFiniteSet(Less(x))
  <2>1. Less(x) \in SUBSET D /\ x \notin Less(x)
    OBVIOUS
  <2> HIDE DEF Less
  <2>2. IsFiniteSet(Less(x)) /\ Cardinality(Less(x)) \in Nat
    BY <2>1, FS_Subset, FS_CardinalityType
  <2>3. Cardinality(Less(x) \cup {x}) = Cardinality(Less(x)) + 1
    BY <2>1, <2>2, FS_AddElement
  <2>4. Less(x) \cup {x} \in SUBSET D
    BY <2>1
  <2>5. Cardinality(Less(x) \cup {x}) <= n
    BY <2>4, FS_Subset
  <2> QED
    BY <2>2, <2>3, <2>5
<1>3. ASSUME NEW x \in D, NEW y \in D, rank[x] < rank[y]
      PROVE  Cardinality(Less(x)) < Cardinality(Less(y))
  <2>1. Less(x) \cup {x} \in SUBSET Less(y) /\ x \notin Less(x)
    BY <1>3
  <2> HIDE DEF Less
  <2>2. Cardinality(Less(x) \cup {x}) = Cardinality(Less(x)) + 1
    BY <1>2, <2>1, FS_AddElement
  <2>3. Cardinality(Less(x) \cup {x}) <= Cardinality(Less(y))
    BY <1>2, <2>1, FS_Subset
  <2> QED
    BY <1>2, <2>2, <2>3
<1>4. /\ \A x \in D : g[x] = Cardinality(Less(x)) + 1
      /\ g = [x \in D |-> g[x]]
  OBVIOUS
<1>5. s = [j \in 1 .. n |-> CHOOSE x \in D : Cardinality(Less(x)) = j - 1]
  BY <1>1 DEF Sorted
<1> HIDE DEF Less, g, s
<1>6. \A x \in D : g[x] \in 1 .. n
  BY <1>1, <1>2, <1>4
<1>7. ASSUME NEW x \in D, NEW y \in D, g[x] = g[y]
      PROVE  x = y
  <2>1. Cardinality(Less(x)) = Cardinality(Less(y)) /\ Cardinality(Less(x)) \in Nat
    BY <1>2, <1>4, <1>7
  <2>2. ~(rank[x] < rank[y]) /\ ~(rank[y] < rank[x])
    BY <1>2, <1>3, <2>1
  <2>3. rank[x] \in Nat /\ rank[y] \in Nat
    OBVIOUS
  <2> QED
    BY <2>2, <2>3
<1>8. \A j \in 1 .. n : \E x \in D : g[x] = j
  <2> HIDE DEF n
  <2>1. g \in [D -> 1 .. n]
    BY <1>4, <1>6
  <2>2. g \in Injection(D, 1 .. n)
    BY <1>7, <2>1 DEF Injection, IsInjective
  <2>3. IsFiniteSet(1 .. n) /\ Cardinality(1 .. n) = n
    <3>1. IsFiniteSet(1 .. n) /\ Cardinality(1 .. n) = IF 1 > n THEN 0 ELSE n - 1 + 1
      BY <1>1, FS_Interval
    <3> QED
      BY <1>1, <3>1
  <2>4. Cardinality(D) = Cardinality(1 .. n)
    BY <2>3 DEF n
  <2>5. g \in Surjection(D, 1 .. n)
    BY <2>2, <2>3, <2>4, FS_Injection
  <2> QED
    BY <2>5 DEF Surjection
<1>9. ASSUME NEW j \in 1 .. n
      PROVE  s[j] \in D /\ g[s[j]] = j
  <2> DEFINE P(x) == Cardinality(Less(x)) = j - 1
  <2>1. PICK x \in D : g[x] = j
    BY <1>8
  <2>2. P(x)
    BY <1>1, <1>2, <1>4, <2>1
  <2>3. s[j] = CHOOSE y \in D : P(y)
    BY <1>5
  <2> HIDE DEF P
  <2>4. s[j] \in D /\ P(s[j])
    BY <2>2, <2>3
  <2>5. g[s[j]] = (j - 1) + 1
    BY <1>4, <2>4 DEF P
  <2> QED
    BY <1>1, <2>4, <2>5
<1>10. ASSUME NEW x \in D
       PROVE  \E j \in 1 .. n : s[j] = x
  <2>1. g[x] \in 1 .. n /\ g[s[g[x]]] = g[x] /\ s[g[x]] \in D
    BY <1>6, <1>9
  <2> QED
    BY <1>7, <2>1
<1>11. s \in [1 .. n -> D]
  BY <1>5, <1>9
<1>12. \A j, l \in 1 .. n : s[j] = s[l] => j = l
  BY <1>9
<1> QED
  BY <1>10, <1>11, <1>12 DEF s

\* The keys of a table.
KeysIn(b) == IF b = NoBody THEN {} ELSE Stored(b)

\* The saved keys differ.
Iterator(t) ==
    /\ t = [keys |-> t.keys, pos |-> t.pos, n |-> t.n]
    /\ t.keys \in Seq(Keys) /\ t.n = Len(t.keys) /\ t.pos \in 0 .. t.n
    /\ \A j, l \in 1 .. t.n : t.keys[j] = t.keys[l] => j = l

(* A new iterator has all keys before it.                                    *)
LEMMA StartedIterates ==
    ASSUME NEW b, b = NoBody \/ Table(b), NEW sorted \in BOOLEAN
    PROVE  Iterator(Started(b, sorted)) /\ Rest(Started(b, sorted)) = KeysIn(b)
<1> DEFINE t == Started(b, sorted)
<1>1. CASE b = NoBody
  <2>1. t = [keys |-> <<>>, pos |-> 0, n |-> 0]
    BY <1>1 DEF Started, NoBody
  <2> HIDE DEF t
  <2>2. t.keys = <<>> /\ t.pos = 0 /\ t.n = 0 /\ Rest(t) = {}
    BY <2>1 DEF Rest
  <2>3. Iterator(t)
    BY <2>1, <2>2 DEF Iterator
  <2> QED
    BY <1>1, <2>2, <2>3 DEF KeysIn, t
<1>2. CASE b # NoBody
  <2> DEFINE rank == [i \in Used(b) |-> IF sorted THEN Rank[b.data[i].key] ELSE i]
             s == Sorted(rank)
             keys == SavedKeys(b, sorted)
             n == Cardinality(Used(b))
  <2>1. /\ Shaped(b) /\ Unique(b) /\ b.n = n /\ IsFiniteSet(Used(b)) /\ n \in Nat
        /\ \A i \in Used(b) : b.data[i].key \in Keys /\ i \in Nat
    <3>1. Shaped(b) /\ Unique(b) /\ b.n = n
      BY <1>2 DEF Table, Ordered
    <3> QED
      BY <3>1, SlotFacts, UsedCounted DEF Slots
  <2>2. /\ rank \in [Used(b) -> Nat]
        /\ \A x, y \in Used(b) : rank[x] = rank[y] => x = y
    <3>1. CASE sorted
      <4>1. /\ \A i \in Used(b) : rank[i] = Rank[b.data[i].key]
            /\ \A k \in Keys : Rank[k] \in Nat
        BY <3>1, HashAssumption
      <4>2. \A x, y \in Used(b) : rank[x] = rank[y] => b.data[x].key = b.data[y].key
        BY <2>1, <4>1, HashAssumption
      <4>3. \A i \in Used(b) : rank[i] \in Nat
        BY <2>1, <4>1
      <4> QED
        BY <2>1, <4>2, <4>3 DEF Unique
    <3>2. CASE ~sorted
      BY <2>1, <3>2
    <3> QED
      BY <3>1, <3>2
  <2>3. keys = [j \in DOMAIN s |-> b.data[s[j]].key]
    BY DEF SavedKeys
  <2> HIDE DEF rank
  <2>4. /\ s \in [1 .. n -> Used(b)]
        /\ \A j, l \in 1 .. n : s[j] = s[l] => j = l
        /\ \A x \in Used(b) : \E j \in 1 .. n : s[j] = x
    BY <2>1, <2>2, SortedLists
  <2> HIDE DEF s, n, keys
  <2>5. /\ keys \in [1 .. n -> Keys] /\ \A j \in 1 .. n : keys[j] = b.data[s[j]].key
    BY <2>1, <2>3, <2>4
  <2>6. keys \in Seq(Keys) /\ Len(keys) = n
    BY <2>1, <2>5
  <2>7. \A j, l \in 1 .. n : keys[j] = keys[l] => j = l
    BY <2>1, <2>4, <2>5 DEF Unique
  <2>8. {keys[j] : j \in 1 .. n} = Stored(b)
    <3>1. \A j \in 1 .. n : keys[j] \in Stored(b)
      BY <2>4, <2>5 DEF Stored
    <3>2. ASSUME NEW x \in Used(b) PROVE \E j \in 1 .. n : b.data[x].key = keys[j]
      BY <2>4, <2>5
    <3> QED
      BY <3>1, <3>2 DEF Stored
  <2>9. t = [keys |-> keys, pos |-> 0, n |-> n]
    BY <1>2, <2>1 DEF Started, keys
  <2> HIDE DEF t
  <2>10. t.keys = keys /\ t.pos = 0 /\ t.n = n /\ t = [keys |-> t.keys, pos |-> t.pos, n |-> t.n]
    BY <2>9
  <2>11. Iterator(t)
    BY <2>1, <2>6, <2>7, <2>10 DEF Iterator
  <2>12. Rest(t) = {keys[j] : j \in 1 .. n}
    BY <2>10 DEF Rest
  <2> QED
    BY <1>2, <2>8, <2>11, <2>12 DEF KeysIn, t
<1> QED
  BY <1>1, <1>2

(* next() delivers one key of the rest.                                      *)
LEMMA NextIterates ==
    ASSUME NEW t, Iterator(t), t.pos # t.n
    PROVE  LET k == t.keys[t.pos + 1]
               u == [t EXCEPT !.pos = @ + 1]
           IN  Iterator(u) /\ k \in Keys /\ k \in Rest(t) /\ Rest(u) = Rest(t) \ {k}
<1> DEFINE k == t.keys[t.pos + 1]
           u == [t EXCEPT !.pos = @ + 1]
<1>1. /\ t = [keys |-> t.keys, pos |-> t.pos, n |-> t.n]
      /\ t.keys \in Seq(Keys) /\ t.n = Len(t.keys) /\ t.pos \in 0 .. t.n
      /\ \A j, l \in 1 .. t.n : t.keys[j] = t.keys[l] => j = l
  BY DEF Iterator
<1>2. u = [keys |-> t.keys, pos |-> t.pos + 1, n |-> t.n]
  BY <1>1
<1>3. t.n \in Nat /\ t.pos + 1 \in 1 .. t.n /\ t.pos \in Nat
  BY <1>1
<1> HIDE DEF u
<1>4. u.keys = t.keys /\ u.pos = t.pos + 1 /\ u.n = t.n /\ u = [keys |-> u.keys, pos |-> u.pos, n |-> u.n]
  BY <1>2
<1>5. k \in Keys
  BY <1>1, <1>3
<1>6. Iterator(u)
  BY <1>1, <1>3, <1>4 DEF Iterator
<1>7. Rest(t) = {t.keys[j] : j \in t.pos + 1 .. t.n} /\ Rest(u) = {t.keys[j] : j \in (t.pos + 1) + 1 .. t.n}
  BY <1>4 DEF Rest
<1>8. k \in Rest(t)
  BY <1>3, <1>7
<1>9. \A j \in t.pos + 1 .. t.n : j \in 1 .. t.n /\ (j = t.pos + 1 \/ j \in (t.pos + 1) + 1 .. t.n)
  BY <1>3
<1>10. \A j \in (t.pos + 1) + 1 .. t.n : j \in t.pos + 1 .. t.n /\ j # t.pos + 1
  BY <1>3
<1>11. \A j \in 1 .. t.n : t.keys[j] = k => j = t.pos + 1
  BY <1>1, <1>3
<1>12. Rest(u) = Rest(t) \ {k}
  BY <1>7, <1>9, <1>10, <1>11
<1> QED
  BY <1>5, <1>6, <1>8, <1>12 DEF u

-----------------------------------------------------------------------------
(* Bodies as maps. *)

ContentsOf(b) == AsMap(IF b = NoBody THEN {} ELSE EntriesOf(b))

\* What a table may be.
Sound(b) == b = NoBody \/ Table(b)

(* The map of a table is that of its entries.                                *)
LEMMA ContentsFacts ==
    ASSUME NEW b, Sound(b)
    PROVE  /\ DOMAIN ContentsOf(b) = KeysIn(b)
           /\ ContentsOf(b) = [k \in KeysIn(b) |-> ContentsOf(b)[k]]
           /\ KeysIn(b) \subseteq Keys
<1>1. CASE b = NoBody
  <2>1. ContentsOf(b) = AsMap({}) /\ KeysIn(b) = {} /\ KeysOf({}) = {} /\ Single({})
    BY <1>1, EmptyMap DEF ContentsOf, KeysIn, KeysOf
  <2> QED
    BY <2>1, MapFacts
<1>2. CASE b # NoBody
  <2>1. Shaped(b) /\ Unique(b)
    BY <1>2 DEF Sound, Table, Ordered
  <2>2. Single(EntriesOf(b)) /\ KeysOf(EntriesOf(b)) = Stored(b)
    BY <2>1, BodyEntries
  <2>3. ContentsOf(b) = AsMap(EntriesOf(b)) /\ KeysIn(b) = Stored(b)
    BY <1>2 DEF ContentsOf, KeysIn
  <2>4. Stored(b) \subseteq Keys
    BY <2>1, SlotFacts DEF Stored
  <2> QED
    BY <2>2, <2>3, <2>4, MapFacts
<1> QED
  BY <1>1, <1>2

(* A search finds the keys of the table, and their entries.                  *)
LEMMA FoundEntries ==
    ASSUME NEW b, Sound(b), NEW k \in Keys
    PROVE  /\ Has(b, k) <=> k \in KeysIn(b)
           /\ EntryOf(b, k) = Dictionary!Entry(ContentsOf(b), k)
           /\ k \in KeysIn(b) =>
                 /\ Table(b) /\ Locate(b, k).index \in Used(b)
                 /\ b.data[Locate(b, k).index].key = k
                 /\ b.data[Locate(b, k).index] = [key |-> k, value |-> ContentsOf(b)[k]]
                 /\ b.data[Locate(b, k).index] \in Entry
<1>1. DOMAIN ContentsOf(b) = KeysIn(b)
  BY ContentsFacts
<1>2. ASSUME k \in KeysIn(b)
      PROVE  /\ Has(b, k) /\ Table(b) /\ Locate(b, k).index \in Used(b)
             /\ b.data[Locate(b, k).index].key = k
             /\ b.data[Locate(b, k).index] = [key |-> k, value |-> ContentsOf(b)[k]]
             /\ b.data[Locate(b, k).index] \in Entry
  <2>1. b # NoBody /\ k \in Stored(b) /\ Table(b)
    BY <1>2 DEF KeysIn, Sound
  <2>2. PICK i \in Used(b) : b.data[i].key = k
    BY <2>1 DEF Stored
  <2>3. Ordered(b) /\ Shaped(b) /\ Unique(b)
    BY <2>1 DEF Table, Ordered
  <2>4. Locate(b, k) = [found |-> TRUE, index |-> i]
    BY <2>2, <2>3, UsedLocated
  <2>5. Locate(b, k).found = TRUE /\ Locate(b, k).index = i
    BY <2>4
  <2>6. Single(EntriesOf(b)) /\ b.data[i] \in EntriesOf(b) /\ ContentsOf(b) = AsMap(EntriesOf(b))
    BY <2>1, <2>2, <2>3, BodyEntries DEF EntriesOf, ContentsOf
  <2>7. b.data[i] = [key |-> k, value |-> ContentsOf(b)[k]] /\ b.data[i] \in Entry
    BY <2>2, <2>6, MapFacts DEF Single
  <2> QED
    BY <2>1, <2>2, <2>5, <2>7 DEF Has
<1>3. ASSUME k \notin KeysIn(b)
      PROVE  ~Has(b, k)
  <2> SUFFICES ASSUME b # NoBody PROVE Locate(b, k).found = FALSE
    BY DEF Has
  <2>1. Table(b) /\ k \notin Stored(b)
    BY <1>3 DEF KeysIn, Sound
  <2>2. Ordered(b) /\ Shaped(b) /\ (Hashed(b) => Used(b) # Slots(b))
    <3>1. Ordered(b) /\ Shaped(b) /\ b.n = Cardinality(Used(b)) /\ (Hashed(b) => b.n < Size(b))
      BY <2>1 DEF Table, Ordered
    <3> QED
      BY <3>1, UsedCounted
  <2> QED
    BY <2>1, <2>2, AbsentLocated
<1>4. EntryOf(b, k) = Dictionary!Entry(ContentsOf(b), k)
  <2>1. CASE k \in KeysIn(b)
    <3>1. EntryOf(b, k) = b.data[Locate(b, k).index]
      BY <1>2, <2>1 DEF EntryOf, Slot
    <3> QED
      BY <1>1, <1>2, <2>1, <3>1 DEF Dictionary!Entry
  <2>2. CASE k \notin KeysIn(b)
    BY <1>1, <1>3, <2>2 DEF EntryOf, Dictionary!Entry, Dictionary!Nothing, Nothing
  <2> QED
    BY <2>1, <2>2
<1> QED
  BY <1>2, <1>3, <1>4

(* insert(): the key is there, with its old value or with zero.              *)
LEMMA InsertedContents ==
    ASSUME NEW b, Sound(b), NEW k \in Keys
    PROVE  LET m == ContentsOf(b)
               c == Added(b, k)
           IN  /\ Sound(c) /\ KeysIn(c) = KeysIn(b) \cup {k}
               /\ ContentsOf(c) = [j \in DOMAIN m \cup {k} |-> IF j \in DOMAIN m THEN m[j] ELSE Zero]
<1> DEFINE a == IF b = NoBody THEN Alloc(1) ELSE b
           m == ContentsOf(b)
           c == Added(b, k)
<1>1. Table(a) /\ Shaped(a) /\ Unique(a) /\ a # NoBody
  <2>1. Table(a)
    BY AllocOne DEF Sound
  <2>2. Shaped(a) /\ Unique(a)
    BY <2>1 DEF Table, Ordered
  <2> QED
    BY <2>1, <2>2, SlotFacts
<1>2. ContentsOf(a) = m /\ KeysIn(a) = KeysIn(b)
  <2>1. CASE b = NoBody
    <3>1. EntriesOf(a) = {} /\ Stored(a) = {}
      BY <2>1, AllocOne
    <3> QED
      BY <1>1, <2>1, <3>1 DEF ContentsOf, KeysIn
  <2>2. CASE b # NoBody
    BY <2>2
  <2> QED
    BY <2>1, <2>2
<1>3. c = Added(a, k)
  <2>1. a = IF a = NoBody THEN Alloc(1) ELSE a
    BY <1>1
  <2> QED
    BY <2>1 DEF Added
<1> HIDE DEF a, c, m
<1>4. DOMAIN m = KeysIn(a) /\ m = [j \in KeysIn(a) |-> m[j]] /\ Sound(a)
  <2>1. Sound(a)
    BY <1>1 DEF Sound
  <2> QED
    BY <1>2, <2>1, ContentsFacts
<1>5. CASE k \in KeysIn(a)
  <2>1. Has(a, k)
    BY <1>4, <1>5, FoundEntries
  <2>2. c = a
    BY <1>1, <1>3, <2>1 DEF Added, Has
  <2>3. m = [j \in DOMAIN m \cup {k} |-> IF j \in DOMAIN m THEN m[j] ELSE Zero]
    <3>1. DOMAIN m \cup {k} = KeysIn(a)
      BY <1>4, <1>5
    <3> QED
      BY <1>4, <3>1
  <2>4. KeysIn(b) \cup {k} = KeysIn(a)
    BY <1>2, <1>5
  <2> QED
    BY <1>2, <1>4, <2>2, <2>3, <2>4 DEF c, m
<1>6. CASE k \notin KeysIn(a)
  <2> DEFINE E == EntriesOf(a)
             e == [key |-> k, value |-> Zero]
  <2>1. k \in Keys \ Stored(a)
    BY <1>1, <1>6 DEF KeysIn
  <2>2. Table(c) /\ EntriesOf(c) = E \cup {e}
    BY <1>1, <1>3, <2>1, AddedTable
  <2>3. Single(E) /\ KeysOf(E) = Stored(a)
    BY <1>1, BodyEntries
  <2>4. e \in Entry /\ e.key = k /\ e.value = Zero
    BY HashAssumption DEF Entry
  <2>5. m = AsMap(E)
    BY <1>1, <1>2 DEF ContentsOf
  <2>6. c # NoBody /\ Shaped(c) /\ Unique(c)
    <3>1. Shaped(c) /\ Unique(c)
      BY <2>2 DEF Table, Ordered
    <3> QED
      BY <3>1, SlotFacts
  <2>7. ContentsOf(c) = AsMap(E \cup {e}) /\ KeysIn(c) = Stored(c)
    BY <2>2, <2>6 DEF ContentsOf, KeysIn
  <2> HIDE DEF E, e
  <2>8. AsMap(E \cup {e}) = [j \in DOMAIN AsMap(E) \cup {e.key} |-> IF j \in DOMAIN AsMap(E) THEN AsMap(E)[j] ELSE e.value]
    <3>1. e.key \notin KeysOf(E)
      BY <2>1, <2>3, <2>4
    <3> QED
      BY <2>3, <2>4, <3>1, MapWith
  <2>9. ContentsOf(c) = [j \in DOMAIN m \cup {k} |-> IF j \in DOMAIN m THEN m[j] ELSE Zero]
    BY <2>4, <2>5, <2>7, <2>8
  <2>10. KeysIn(c) = KeysIn(b) \cup {k}
    <3>1. Stored(c) = KeysOf(EntriesOf(c))
      BY <2>6, BodyEntries
    <3>2. KeysOf(E \cup {e}) = KeysOf(E) \cup {k}
      BY <2>4 DEF KeysOf
    <3>3. KeysIn(a) = Stored(a)
      BY <1>1 DEF KeysIn
    <3> QED
      BY <1>2, <2>2, <2>3, <2>7, <3>1, <3>2, <3>3
  <2> QED
    BY <2>2, <2>9, <2>10 DEF Sound, c, m
<1> QED
  BY <1>5, <1>6

(* A value that is written.                                                  *)
LEMMA AssignedContents ==
    ASSUME NEW b, Sound(b), NEW k \in KeysIn(b), NEW v \in Values
    PROVE  LET c == [b EXCEPT !.data[Locate(b, k).index].value = v]
           IN  Sound(c) /\ KeysIn(c) = KeysIn(b) /\ ContentsOf(c) = [ContentsOf(b) EXCEPT ![k] = v]
<1> DEFINE i == Locate(b, k).index
           c == [b EXCEPT !.data[i].value = v]
           e == b.data[i]
<1>1. k \in Keys
  BY ContentsFacts
<1>2. Table(b) /\ i \in Used(b) /\ e.key = k /\ b # NoBody
  BY <1>1, FoundEntries DEF KeysIn
<1> HIDE DEF i
<1>3. /\ Table(c) /\ EntriesOf(c) = (EntriesOf(b) \ {e}) \cup {[key |-> e.key, value |-> v]}
      /\ Stored(c) = Stored(b)
  BY <1>2, AssignedTable
<1> HIDE DEF c
<1>4. Single(EntriesOf(b)) /\ e \in EntriesOf(b)
  BY <1>2, BodyEntries DEF Table, Ordered, EntriesOf
<1>5. c # NoBody
  BY <1>3, SlotFacts DEF Table, Ordered
<1> HIDE DEF e
<1>6. AsMap(EntriesOf(c)) = [AsMap(EntriesOf(b)) EXCEPT ![k] = v]
  BY <1>2, <1>3, <1>4, MapSet
<1>7. Sound(c) /\ KeysIn(c) = KeysIn(b) /\ ContentsOf(c) = [ContentsOf(b) EXCEPT ![k] = v]
  BY <1>2, <1>3, <1>5, <1>6 DEF Sound, KeysIn, ContentsOf
<1> QED
  BY <1>7 DEF c, i

(* remove(): the entries of the other keys are left.                         *)
LEMMA RemovedContents ==
    ASSUME NEW b, Sound(b), NEW k \in Keys
    PROVE  LET m == ContentsOf(b)
               c == IF Has(b, k) THEN Without(b, k) ELSE b
           IN  /\ Sound(c) /\ KeysIn(c) = KeysIn(b) \ {k}
               /\ ContentsOf(c) = [j \in DOMAIN m \ {k} |-> m[j]]
<1> DEFINE m == ContentsOf(b)
           c == IF Has(b, k) THEN Without(b, k) ELSE b
<1>1. DOMAIN m = KeysIn(b) /\ m = [j \in KeysIn(b) |-> m[j]]
  BY ContentsFacts
<1>2. CASE k \in KeysIn(b)
  <2> DEFINE i == Locate(b, k).index
             e == b.data[i]
             E == EntriesOf(b)
  <2>1. Has(b, k) /\ Table(b) /\ i \in Used(b) /\ e.key = k /\ b # NoBody
    BY <1>2, FoundEntries DEF KeysIn
  <2>2. c = Without(b, e.key)
    BY <2>1
  <2> HIDE DEF i, c
  <2>3. Table(c) /\ EntriesOf(c) = E \ {e}
    BY <2>1, <2>2, WithoutTable
  <2>4. Single(E) /\ e \in E /\ KeysOf(E) = Stored(b)
    BY <2>1, BodyEntries DEF Table, Ordered, EntriesOf
  <2>5. c # NoBody /\ Stored(c) = KeysOf(EntriesOf(c))
    BY <2>3, SlotFacts, BodyEntries DEF Table, Ordered
  <2>6. m = AsMap(E) /\ ContentsOf(c) = AsMap(EntriesOf(c)) /\ KeysIn(b) = Stored(b) /\ KeysIn(c) = Stored(c)
    BY <2>1, <2>5 DEF ContentsOf, KeysIn
  <2> HIDE DEF e, E, m
  <2>7. KeysOf(E \ {e}) = KeysOf(E) \ {k} /\ AsMap(E \ {e}) = [j \in DOMAIN AsMap(E) \ {k} |-> AsMap(E)[j]]
    BY <2>1, <2>4, MapLess
  <2>8. Sound(c) /\ KeysIn(c) = KeysIn(b) \ {k} /\ ContentsOf(c) = [j \in DOMAIN m \ {k} |-> m[j]]
    BY <2>3, <2>4, <2>5, <2>6, <2>7 DEF Sound
  <2> QED
    BY <2>8 DEF c, m
<1>3. CASE k \notin KeysIn(b)
  <2>1. ~Has(b, k)
    BY <1>3, FoundEntries
  <2>2. c = b
    BY <2>1
  <2>3. DOMAIN m \ {k} = KeysIn(b) /\ KeysIn(b) \ {k} = KeysIn(b)
    BY <1>1, <1>3
  <2>4. m = [j \in DOMAIN m \ {k} |-> m[j]]
    BY <1>1, <2>3
  <2> HIDE DEF c
  <2>5. Sound(c) /\ KeysIn(c) = KeysIn(b) \ {k} /\ ContentsOf(c) = [j \in DOMAIN m \ {k} |-> m[j]]
    BY <2>2, <2>3, <2>4
  <2> QED
    BY <2>5 DEF c
<1> QED
  BY <1>2, <1>3

(* A body without entries: the empty map.                                    *)
LEMMA EmptyContents ==
    ASSUME NEW b, b = NoBody \/ EntriesOf(b) = {}
    PROVE  ContentsOf(b) = [k \in {} |-> Zero]
BY EmptyMap DEF ContentsOf

(* The caller's hints are numbers that fit.                                  *)
LEMMA HintedBody ==
    ASSUME NEW hint \in SizeHints
    PROVE  LET c == Alloc(RoundSize(hint))
           IN  Sound(c) /\ ContentsOf(c) = [k \in {} |-> Zero] /\ KeysIn(c) = {}
<1> DEFINE c == Alloc(RoundSize(hint))
<1>1. Table(c) /\ EntriesOf(c) = {} /\ Used(c) = {}
  BY AllocTable
<1> HIDE DEF c
<1>2. Sound(c) /\ ContentsOf(c) = [k \in {} |-> Zero] /\ KeysIn(c) = {}
  BY <1>1, EmptyContents DEF Sound, KeysIn, Stored
<1> QED
  BY <1>2 DEF c

-----------------------------------------------------------------------------
(* The table. *)

\* The keys an iterator has to deliver are there.
Inv ==
    /\ Sound(body)
    /\ iter = [i \in Iters |-> iter[i]] /\ \A i \in Iters : Iterator(iter[i])
    /\ active \subseteq Iters
    /\ \A i \in active : Rest(iter[i]) \subseteq KeysIn(body)
    /\ res \in Entry \cup {Nothing}

\* What the contract of the map says of a step.
MapStep == [Dictionary!Next]_(Dictionary!vars)

LEMMA IdleIterates == Iterator(Idle) /\ Rest(Idle) = {}
<1>1. Idle = [keys |-> Idle.keys, pos |-> Idle.pos, n |-> Idle.n] /\ Idle.keys = <<>> /\ Idle.pos = 0 /\ Idle.n = 0
  BY DEF Idle
<1> QED
  BY <1>1 DEF Iterator, Rest

(* A table begins empty.                                                     *)
LEMMA InitInv == Init => Inv /\ Dictionary!Init
<1> SUFFICES ASSUME Init PROVE Inv /\ Dictionary!Init
  OBVIOUS
<1>1. body = NoBody /\ iter = [i \in Iters |-> Idle] /\ active = {} /\ res = Nothing
  BY DEF Init
<1>2. Inv
  BY <1>1, IdleIterates DEF Inv, Sound
<1>3. Contents = [k \in {} |-> Zero]
  BY <1>1, EmptyContents DEF Contents, ContentsOf
<1>4. [i \in Iters |-> Left(i)] = [i \in Iters |-> {}]
  BY <1>1 DEF Left
<1> QED
  BY <1>1, <1>2, <1>3, <1>4 DEF Dictionary!Init, Dictionary!Nothing, Nothing

(* A search finds nothing but what is there.                                 *)
LEMMA EntryTyped ==
    ASSUME NEW b, Sound(b), NEW k \in Keys
    PROVE  EntryOf(b, k) \in Entry \cup {Nothing}
BY FoundEntries DEF EntryOf, Slot

LEMMA FindStep == ASSUME Inv, NEW k \in Keys, Find(k) PROVE Inv' /\ MapStep
<1>1. res' = EntryOf(body, k) /\ UNCHANGED <<body, iter, active>>
  BY DEF Find
<1>2. Inv'
  BY <1>1, EntryTyped DEF Inv
<1>3. UNCHANGED <<Contents, active, [i \in Iters |-> Left(i)]>>
  BY <1>1 DEF Contents, Left, Rest
<1>4. res' = Dictionary!Entry(Contents, k)
  BY <1>1, FoundEntries DEF Inv, Contents, ContentsOf
<1>5. Dictionary!Find(k)
  BY <1>3, <1>4 DEF Dictionary!Find
<1> QED
  BY <1>2, <1>5 DEF MapStep, Dictionary!Next

LEMMA InsertStep == ASSUME Inv, NEW k \in Keys, Insert(k) PROVE Inv' /\ MapStep
<1>1. active = {} /\ body' = Added(body, k) /\ res' = EntryOf(body', k) /\ UNCHANGED <<iter, active>>
  BY DEF Insert
<1> DEFINE m == ContentsOf(body)
<1>2. /\ Sound(body')
      /\ ContentsOf(body') = [j \in DOMAIN m \cup {k} |-> IF j \in DOMAIN m THEN m[j] ELSE Zero]
  BY <1>1, InsertedContents DEF Inv
<1>3. Inv'
  BY <1>1, <1>2, EntryTyped DEF Inv
<1>4. UNCHANGED <<active, [i \in Iters |-> Left(i)]>>
  BY <1>1 DEF Left, Rest
<1>5. Contents = m /\ Contents' = ContentsOf(body')
  BY DEF Contents, ContentsOf
<1>6. res' = Dictionary!Entry(Contents', k)
  BY <1>1, <1>2, <1>5, FoundEntries
<1> HIDE DEF m
<1>7. Dictionary!Insert(k)
  BY <1>1, <1>2, <1>4, <1>5, <1>6 DEF Dictionary!Insert
<1> QED
  BY <1>3, <1>7 DEF MapStep, Dictionary!Next

LEMMA AssignStep == ASSUME Inv, NEW k \in Keys, NEW v \in Values, Assign(k, v) PROVE Inv' /\ MapStep
<1>1. /\ Has(body, k) /\ body' = [body EXCEPT !.data[Locate(body, k).index].value = v]
      /\ res' = [key |-> k, value |-> v] /\ UNCHANGED <<iter, active>>
  BY DEF Assign
<1> DEFINE m == ContentsOf(body)
<1>2. Sound(body) /\ k \in KeysIn(body)
  BY <1>1, FoundEntries DEF Inv
<1>3. Sound(body') /\ KeysIn(body') = KeysIn(body) /\ ContentsOf(body') = [m EXCEPT ![k] = v]
  BY <1>1, <1>2, AssignedContents
<1>4. Inv'
  BY <1>1, <1>3 DEF Inv, Entry
<1>5. UNCHANGED <<active, [i \in Iters |-> Left(i)]>>
  BY <1>1 DEF Left, Rest
<1>6. Contents = m /\ Contents' = ContentsOf(body')
  BY DEF Contents, ContentsOf
<1>7. DOMAIN m = KeysIn(body)
  BY <1>2, ContentsFacts
<1> HIDE DEF m
<1>8. res' = Dictionary!Entry(Contents', k)
  BY <1>1, <1>2, <1>3, <1>6, <1>7 DEF Dictionary!Entry
<1>9. Dictionary!Assign(k, v)
  BY <1>2, <1>3, <1>5, <1>6, <1>7, <1>8 DEF Dictionary!Assign
<1> QED
  BY <1>4, <1>9 DEF MapStep, Dictionary!Next

LEMMA RemoveStep == ASSUME Inv, NEW k \in Keys, RemoveKey(k) PROVE Inv' /\ MapStep
<1>1. /\ \A i \in active : k \notin Left(i)
      /\ res' = EntryOf(body, k) /\ UNCHANGED <<iter, active>>
      /\ body' = IF Has(body, k) THEN Without(body, k) ELSE body
  BY DEF RemoveKey
<1> DEFINE m == ContentsOf(body)
<1>2. /\ Sound(body') /\ KeysIn(body') = KeysIn(body) \ {k}
      /\ ContentsOf(body') = [j \in DOMAIN m \ {k} |-> m[j]]
  BY <1>1, RemovedContents DEF Inv
<1>3. \A i \in active : Rest(iter[i]) \subseteq KeysIn(body) \ {k}
  BY <1>1 DEF Inv, Left
<1>4. Inv'
  BY <1>1, <1>2, <1>3, EntryTyped DEF Inv
<1>5. UNCHANGED <<active, [i \in Iters |-> Left(i)]>>
  BY <1>1 DEF Left, Rest
<1>6. Contents = m /\ Contents' = ContentsOf(body')
  BY DEF Contents, ContentsOf
<1>7. res' = Dictionary!Entry(Contents, k)
  BY <1>1, <1>6, FoundEntries DEF Inv
<1>8. \A i \in active : k \notin [j \in Iters |-> Left(j)][i]
  BY <1>1 DEF Inv
<1> HIDE DEF m
<1>9. Dictionary!RemoveKey(k)
  BY <1>2, <1>5, <1>6, <1>7, <1>8 DEF Dictionary!RemoveKey
<1> QED
  BY <1>4, <1>9 DEF MapStep, Dictionary!Next

LEMMA ClearStep == ASSUME Inv, NEW hint \in SizeHints, Clear(hint) PROVE Inv' /\ MapStep
<1>1. /\ active = {} /\ res' = Nothing /\ UNCHANGED <<iter, active>>
      /\ body' = IF hint = 0 THEN NoBody ELSE Alloc(RoundSize(hint))
  BY DEF Clear
<1>2. Sound(body') /\ ContentsOf(body') = [k \in {} |-> Zero]
  <2>1. Sound(NoBody) /\ ContentsOf(NoBody) = [k \in {} |-> Zero]
    BY EmptyContents DEF Sound
  <2>2. Sound(Alloc(RoundSize(hint))) /\ ContentsOf(Alloc(RoundSize(hint))) = [k \in {} |-> Zero]
    BY HintedBody
  <2> QED
    BY <1>1, <2>1, <2>2
<1>3. Inv'
  BY <1>1, <1>2 DEF Inv
<1>4. UNCHANGED <<active, [i \in Iters |-> Left(i)]>>
  BY <1>1 DEF Left, Rest
<1>5. Contents' = ContentsOf(body')
  BY DEF Contents, ContentsOf
<1>6. Dictionary!Clear
  BY <1>1, <1>2, <1>4, <1>5 DEF Dictionary!Clear, Dictionary!Nothing, Nothing
<1> QED
  BY <1>3, <1>6 DEF MapStep, Dictionary!Next

LEMMA SetSizeStep == ASSUME Inv, NEW hint \in SizeHints, SetSize(hint) PROVE Inv' /\ MapStep
<1>1. /\ active = {} /\ body = NoBody /\ body' = Alloc(RoundSize(hint)) /\ UNCHANGED <<iter, active, res>>
  BY DEF SetSize
<1>2. Sound(body') /\ ContentsOf(body') = [k \in {} |-> Zero]
  BY <1>1, HintedBody
<1>3. Inv'
  BY <1>1, <1>2 DEF Inv
<1>4. UNCHANGED <<active, [i \in Iters |-> Left(i)], res>>
  BY <1>1 DEF Left, Rest
<1>5. Contents = [k \in {} |-> Zero] /\ Contents' = ContentsOf(body')
  BY <1>1, EmptyContents DEF Contents, ContentsOf
<1>6. UNCHANGED Dictionary!vars
  BY <1>2, <1>4, <1>5 DEF Dictionary!vars
<1> QED
  BY <1>3, <1>6 DEF MapStep

LEMMA CopyStep == ASSUME Inv, AssignTable PROVE Inv' /\ MapStep
<1>1. /\ active = {} /\ body' = CopyOf(body) /\ res' = Nothing /\ UNCHANGED <<iter, active>>
  BY DEF AssignTable
<1>2. body' = body
  <2>1. CASE body = NoBody
    BY <1>1, <2>1 DEF CopyOf
  <2>2. CASE body # NoBody
    <3>1. Shaped(body)
      BY <2>2 DEF Inv, Sound, Table, Ordered
    <3>2. CopyOf(body) = body
      BY <3>1, SameCopy
    <3> QED
      BY <1>1, <3>2
  <2> QED
    BY <2>1, <2>2
<1>3. Inv'
  BY <1>1, <1>2 DEF Inv
<1>4. UNCHANGED <<active, [i \in Iters |-> Left(i)], Contents>>
  BY <1>1, <1>2 DEF Left, Rest, Contents
<1>5. Dictionary!Copy
  BY <1>1, <1>4 DEF Dictionary!Copy, Dictionary!Nothing, Nothing
<1> QED
  BY <1>3, <1>5 DEF MapStep, Dictionary!Next

LEMMA StartStep == ASSUME Inv, NEW i \in Iters, Start(i) PROVE Inv' /\ MapStep
<1>1. PICK sorted \in BOOLEAN : iter' = [iter EXCEPT ![i] = Started(body, sorted)]
  BY DEF Start
<1>2. active' = active \cup {i} /\ res' = Nothing /\ UNCHANGED body
  BY DEF Start
<1> DEFINE t == Started(body, sorted)
<1>3. Iterator(t) /\ Rest(t) = KeysIn(body)
  BY StartedIterates DEF Inv, Sound
<1> HIDE DEF t
<1>4. /\ iter' = [j \in Iters |-> iter'[j]] /\ iter'[i] = t
      /\ \A j \in Iters : j # i => iter'[j] = iter[j]
  BY <1>1 DEF Inv, t
<1>5. Inv'
  BY <1>2, <1>3, <1>4 DEF Inv
<1>6. Contents' = Contents /\ DOMAIN Contents = KeysIn(body)
  BY <1>2, ContentsFacts DEF Contents, ContentsOf, Inv
<1>7. \A j \in Iters : Left(j)' = IF j = i THEN KeysIn(body) ELSE Left(j)
  <2> SUFFICES ASSUME NEW j \in Iters PROVE Left(j)' = IF j = i THEN KeysIn(body) ELSE Left(j)
    OBVIOUS
  <2>1. Left(j)' = IF j \in active' THEN Rest(iter'[j]) ELSE {}
    BY DEF Left, Rest
  <2>2. Left(j) = IF j \in active THEN Rest(iter[j]) ELSE {}
    BY DEF Left
  <2> QED
    BY <1>2, <1>3, <1>4, <2>1, <2>2
<1>8. [j \in Iters |-> Left(j)]' = [[j \in Iters |-> Left(j)] EXCEPT ![i] = KeysIn(body)]
  BY <1>7
<1>9. Dictionary!Start(i)
  BY <1>2, <1>6, <1>8 DEF Dictionary!Start, Dictionary!Nothing, Nothing
<1> QED
  BY <1>5, <1>9 DEF MapStep, Dictionary!Next

LEMMA DeliverStep == ASSUME Inv, NEW i \in Iters, Deliver(i) PROVE Inv' /\ MapStep
<1> DEFINE t == iter[i]
           k == t.keys[t.pos + 1]
           u == [t EXCEPT !.pos = @ + 1]
<1>1. /\ i \in active /\ t.pos # t.n /\ iter' = [iter EXCEPT ![i] = u]
      /\ res' = Slot(body, k) /\ UNCHANGED <<body, active>>
  BY DEF Deliver, Inv
<1>2. Iterator(u) /\ k \in Keys /\ k \in Rest(t) /\ Rest(u) = Rest(t) \ {k}
  BY <1>1, NextIterates DEF Inv
<1> HIDE DEF k, u
<1>3. k \in KeysIn(body)
  BY <1>1, <1>2 DEF Inv
<1>4. Slot(body, k) \in Entry /\ Slot(body, k) = Dictionary!Entry(ContentsOf(body), k)
  <2>1. Slot(body, k) = EntryOf(body, k)
    BY <1>2, <1>3, FoundEntries DEF EntryOf, Inv
  <2> QED
    BY <1>2, <1>3, <2>1, FoundEntries DEF Inv, Slot
<1>5. /\ iter' = [j \in Iters |-> iter'[j]] /\ iter'[i] = u
      /\ \A j \in Iters : j # i => iter'[j] = iter[j]
  BY <1>1 DEF Inv
<1>6. Inv'
  BY <1>1, <1>2, <1>4, <1>5 DEF Inv
<1>7. Contents' = Contents /\ Contents = ContentsOf(body)
  BY <1>1 DEF Contents, ContentsOf
<1>8. Left(i) = Rest(t)
  BY <1>1 DEF Left
<1>9. \A j \in Iters : Left(j)' = IF j = i THEN Left(i) \ {k} ELSE Left(j)
  <2> SUFFICES ASSUME NEW j \in Iters PROVE Left(j)' = IF j = i THEN Left(i) \ {k} ELSE Left(j)
    OBVIOUS
  <2>1. Left(j)' = IF j \in active' THEN Rest(iter'[j]) ELSE {}
    BY DEF Left, Rest
  <2>2. Left(j) = IF j \in active THEN Rest(iter[j]) ELSE {}
    BY DEF Left
  <2> QED
    BY <1>1, <1>2, <1>5, <1>8, <2>1, <2>2
<1>10. [j \in Iters |-> Left(j)]' = [[j \in Iters |-> Left(j)] EXCEPT ![i] = @ \ {k}]
  BY <1>9
<1>11. k \in [j \in Iters |-> Left(j)][i]
  BY <1>2, <1>8
<1>12. Dictionary!Deliver(i)
  BY <1>1, <1>4, <1>7, <1>10, <1>11 DEF Dictionary!Deliver
<1> QED
  BY <1>6, <1>12 DEF MapStep, Dictionary!Next

LEMMA FinishStep == ASSUME Inv, NEW i \in Iters, Finish(i) PROVE Inv' /\ MapStep
<1>1. /\ i \in active /\ iter[i].pos = iter[i].n /\ iter' = [iter EXCEPT ![i] = Idle]
      /\ active' = active \ {i} /\ res' = Nothing /\ UNCHANGED body
  BY DEF Finish
<1>2. /\ iter' = [j \in Iters |-> iter'[j]] /\ iter'[i] = Idle
      /\ \A j \in Iters : j # i => iter'[j] = iter[j]
  BY <1>1 DEF Inv
<1>3. Inv'
  BY <1>1, <1>2, IdleIterates DEF Inv
<1>4. Left(i) = {}
  <2>1. iter[i].n \in Nat
    BY DEF Inv, Iterator
  <2>2. \A j : ~(j \in iter[i].n + 1 .. iter[i].n)
    BY <2>1
  <2> QED
    BY <1>1, <2>2 DEF Left, Rest
<1>5. \A j \in Iters : Left(j)' = Left(j)
  <2> SUFFICES ASSUME NEW j \in Iters PROVE Left(j)' = Left(j)
    OBVIOUS
  <2>1. Left(j)' = IF j \in active' THEN Rest(iter'[j]) ELSE {}
    BY DEF Left, Rest
  <2>2. Left(j) = IF j \in active THEN Rest(iter[j]) ELSE {}
    BY DEF Left
  <2> QED
    BY <1>1, <1>2, <1>4, <2>1, <2>2
<1>6. [j \in Iters |-> Left(j)]' = [j \in Iters |-> Left(j)]
  BY <1>5
<1>7. Contents' = Contents
  BY <1>1 DEF Contents
<1>8. [j \in Iters |-> Left(j)][i] = {}
  BY <1>4
<1>9. Dictionary!Finish(i)
  BY <1>1, <1>6, <1>7, <1>8 DEF Dictionary!Finish, Dictionary!Nothing, Nothing
<1> QED
  BY <1>3, <1>9 DEF MapStep, Dictionary!Next

LEMMA StepInv == Inv /\ [Next]_vars => Inv' /\ MapStep
<1> SUFFICES ASSUME Inv, [Next]_vars PROVE Inv' /\ MapStep
  OBVIOUS
<1>1. ASSUME UNCHANGED vars PROVE Inv' /\ MapStep
  <2>1. UNCHANGED <<body, iter, active, res>>
    BY <1>1 DEF vars
  <2>2. Inv'
    BY <2>1 DEF Inv
  <2>3. UNCHANGED <<Contents, active, [i \in Iters |-> Left(i)], res>>
    BY <2>1 DEF Contents, Left, Rest
  <2>4. UNCHANGED Dictionary!vars
    BY <2>3 DEF Dictionary!vars
  <2> QED
    BY <2>2, <2>4 DEF MapStep
<1>2. ASSUME Next PROVE Inv' /\ MapStep
  BY <1>2, FindStep, InsertStep, AssignStep, RemoveStep, ClearStep, SetSizeStep, CopyStep, StartStep,
     DeliverStep, FinishStep DEF Next
<1> QED
  BY <1>1, <1>2

(* Every search of LHash::locate() ends where its key is, or where it        *)
(* belongs: no hole is before an entry, the count is exact, and a hashed     *)
(* table has a free slot - for all keys, hash codes and sequences of calls.  *)
THEOREM TablesStayOrdered == Spec => [](TypeOK /\ ProbeInvariant /\ CountExact /\ RoomLeft)
<1>1. Init => Inv
  BY InitInv
<1>2. Inv /\ [Next]_vars => Inv'
  BY StepInv
<1>3. Inv => TypeOK /\ ProbeInvariant /\ CountExact /\ RoomLeft
  <2> SUFFICES ASSUME Inv PROVE TypeOK /\ ProbeInvariant /\ CountExact /\ RoomLeft
    OBVIOUS
  <2>1. body # NoBody => Table(body)
    BY DEF Inv, Sound
  <2>2. ProbeInvariant
    BY <2>1, UsedLocated DEF ProbeInvariant, Table
  <2>3. CountExact
    BY <2>1 DEF CountExact, Table, Ordered
  <2>4. RoomLeft
    <3>1. ASSUME body # NoBody, Hashed(body) PROVE Used(body) # 0 .. Size(body) - 1
      <4>1. Table(body) /\ Shaped(body)
        BY <2>1, <3>1 DEF Table, Ordered
      <4>2. Cardinality(Used(body)) < Size(body)
        BY <3>1, <4>1 DEF Table
      <4> QED
        BY <4>1, <4>2, UsedCounted DEF Slots
    <3> QED
      BY <3>1 DEF RoomLeft
  <2>5. TypeOK
    <3>1. Entry \cup {FreeSlot} = SlotType
      BY DEF Entry, SlotType
    <3>2. ASSUME body # NoBody
          PROVE  body.bits \in Nat /\ body.n \in Nat /\ body.data \in [0 .. Size(body) - 1 -> SlotType]
      <4>1. Shaped(body)
        BY <2>1, <3>2 DEF Table, Ordered
      <4>2. body.bits \in 0 .. HashShift /\ HashShift \in Nat /\ body.n \in Nat
        BY <4>1, HashAssumption DEF Shaped
      <4>3. body.data \in [0 .. Size(body) - 1 -> SlotType]
        BY <3>1, <4>1 DEF Shaped, Slots
      <4> QED
        BY <4>2, <4>3
    <3>3. \A i \in Iters : iter[i].keys \in Seq(Keys) /\ iter[i].n = Len(iter[i].keys) /\ iter[i].pos \in 0 .. iter[i].n
      BY DEF Inv, Iterator
    <3>4. active \subseteq Iters /\ res \in SlotType \cup {Nothing}
      BY <3>1 DEF Inv
    <3> QED
      BY <3>2, <3>3, <3>4 DEF TypeOK
  <2> QED
    BY <2>2, <2>3, <2>4, <2>5
<1> QED
  BY <1>1, <1>2, <1>3, PTL DEF Spec

(* The hash table is a map: what is found is what was last assigned, and an  *)
(* iterator delivers each entry once with its current value, also when       *)
(* entries move because others are removed (LHash.cc).                       *)
THEOREM HashIsMap == Spec => ImplementsMap
<1>1. Init => Inv /\ Dictionary!Init
  BY InitInv
<1>2. Inv /\ [Next]_vars => Inv' /\ [Dictionary!Next]_(Dictionary!vars)
  BY StepInv DEF MapStep
<1> QED
  BY <1>1, <1>2, PTL DEF Spec, ImplementsMap, Dictionary!Spec

-----------------------------------------------------------------------------
(***************************************************************************)
(* Proofs about IntervalHeap for every set of elements, every ranking and  *)
(* every number of nodes: each interval stays inside that of its parent,   *)
(* no element is lost or doubled, and the heap is a double-ended priority  *)
(* queue.                                                                  *)
(***************************************************************************)

Heaps == [Nodes -> [Ends -> Items \cup {NoItem}]]

(* Both ends compare by a total preorder, and one is the other turned round. *)
LEMMA Order ==
    ASSUME NEW e \in Ends
    PROVE  /\ Other(e) \in Ends \ {e} /\ Other(Other(e)) = e /\ Ends = {e, Other(e)}
           /\ \A x \in Items : Outside(e, x, x)
           /\ \A x, y, z \in Items : Outside(e, x, y) /\ Outside(e, y, z) => Outside(e, x, z)
           /\ \A x, y \in Items : Outside(e, x, y) \/ Outside(e, y, x)
           /\ \A x, y \in Items : Outside(Other(e), x, y) <=> Outside(e, y, x)
           /\ \A x, y \in Items : Beyond(e, x, y) <=> ~Outside(e, y, x)
BY HeapAssumption DEF Ends, Other, Outside, Beyond

(* Parents and children.                                                     *)
LEMMA Parents ==
    /\ \A j \in Nat : j > 1 => Parent(j) \in Nat /\ 1 <= Parent(j) /\ Parent(j) < j
    /\ \A i, j \in Nat : Parent(j) = i <=> j = 2 * i \/ j = 2 * i + 1
BY DEF Parent

(* What stands where after two elements changed places.                      *)
LEMMA ExchangedEnds ==
    ASSUME NEW h \in Heaps, NEW i \in Nodes, NEW j \in Nodes, NEW e \in Ends, NEW f \in Ends
    PROVE  LET g == Exchanged(h, i, e, j, f)
           IN  /\ g \in Heaps
               /\ g[j][f] = h[i][e]
               /\ g[i][e] = h[j][f]
               /\ \A k \in Nodes, d \in Ends :
                     ~(k = i /\ d = e) /\ ~(k = j /\ d = f) => g[k][d] = h[k][d]
<1> DEFINE u == [h EXCEPT ![i][e] = h[j][f]]
           g == Exchanged(h, i, e, j, f)
<1>1. g = [u EXCEPT ![j][f] = h[i][e]]
  BY DEF Exchanged
<1>2. u \in Heaps
  BY DEF Heaps
<1>3. \A k \in Nodes, d \in Ends : u[k][d] = IF k = i /\ d = e THEN h[j][f] ELSE h[k][d]
  BY DEF Heaps
<1> HIDE DEF u
<1>4. g \in Heaps
  BY <1>1, <1>2 DEF Heaps
<1>5. \A k \in Nodes, d \in Ends : g[k][d] = IF k = j /\ d = f THEN h[i][e] ELSE u[k][d]
  BY <1>1, <1>2 DEF Heaps
<1> HIDE DEF g
<1>6. g[i][e] = h[j][f]
  <2>1. CASE i = j /\ e = f
    BY <1>5, <2>1
  <2>2. CASE ~(i = j /\ e = f)
    BY <1>3, <1>5, <2>2
  <2> QED
    BY <2>1, <2>2
<1> QED
  BY <1>3, <1>4, <1>5, <1>6 DEF g

-----------------------------------------------------------------------------

\* The element at end e of node i is on its way up.  There are elements at this end of nodes up to last, at the
\* other of those up to full.  It may be beyond its parents only, and these are inside neither what is below it
\* nor the other end of its node.
Climbing(h, i, e, last, full) ==
    /\ h \in Heaps /\ i \in 1 .. last
    /\ \A j \in 1 .. last : h[j][e] \in Items
    /\ \A j \in 1 .. full : h[j][Other(e)] \in Items
    /\ \A j \in 2 .. last : j # i => Outside(e, h[Parent(j)][e], h[j][e])
    /\ \A j \in 2 .. full : Outside(Other(e), h[Parent(j)][Other(e)], h[j][Other(e)])
    /\ \A j \in 1 .. full : Outside(e, h[j][e], h[j][Other(e)])
    /\ full < last => Outside(e, h[last][e], h[Parent(last)][Other(e)])
    /\ i \in 2 .. full => Outside(e, h[Parent(i)][e], h[i][Other(e)])
    /\ i > 1 => \A j \in 2 .. last : Parent(j) = i => Outside(e, h[Parent(i)][e], h[j][e])

\* There is room, and only the last node may have one element.
Room(last, full) == last \in Nodes /\ full \in Nat \ {0} /\ full \in {last - 1, last}

LEMMA ClimbStep ==
    ASSUME NEW e \in Ends, NEW last, NEW full, Room(last, full),
           NEW h, NEW i, Climbing(h, i, e, last, full),
           i # 1, Outside(e, h[i][e], h[Parent(i)][e])
    PROVE  Climbing(Exchanged(h, i, e, Parent(i), e), Parent(i), e, last, full)
<1> DEFINE o == Other(e)
           p == Parent(i)
           g == Exchanged(h, i, e, p, e)
<1>1. /\ last \in Nat /\ full \in Nat /\ full <= last /\ last <= full + 1 /\ full >= 1
      /\ 1 .. last \subseteq Nodes /\ i \in Nat /\ i > 1 /\ i <= last
  BY HeapAssumption DEF Room, Climbing, Nodes
<1>2. /\ p \in Nat /\ 1 <= p /\ p < i /\ p \in 1 .. full /\ p \in 1 .. last
      /\ \A j \in 2 .. last : Parent(j) \in Nat /\ 1 <= Parent(j) /\ Parent(j) < j
  BY <1>1, Parents
<1>3. o \in Ends /\ o # e /\ h \in Heaps
  BY Order DEF Climbing
<1>4. /\ g \in Heaps /\ g[i][e] = h[p][e] /\ g[p][e] = h[i][e]
      /\ \A k \in 1 .. last : k # i /\ k # p => g[k][e] = h[k][e]
      /\ \A k \in 1 .. last : g[k][o] = h[k][o]
  <2>1. i \in Nodes /\ p \in Nodes
    BY <1>1, <1>2
  <2> HIDE DEF p, o
  <2>2. /\ g \in Heaps /\ g[i][e] = h[p][e] /\ g[p][e] = h[i][e]
        /\ \A k \in Nodes, d \in Ends :
              ~(k = i /\ d = e) /\ ~(k = p /\ d = e) => g[k][d] = h[k][d]
    BY <1>3, <2>1, ExchangedEnds
  <2> QED
    BY <1>1, <1>3, <2>2
<1>5. /\ \A j \in 1 .. last : h[j][e] \in Items
      /\ \A j \in 1 .. full : h[j][o] \in Items
      /\ \A j \in 2 .. last : j # i => Outside(e, h[Parent(j)][e], h[j][e])
      /\ \A j \in 2 .. full : Outside(o, h[Parent(j)][o], h[j][o])
      /\ \A j \in 1 .. full : Outside(e, h[j][e], h[j][o])
      /\ full < last => Outside(e, h[last][e], h[Parent(last)][o])
      /\ i \in 2 .. full => Outside(e, h[p][e], h[i][o])
      /\ \A j \in 2 .. last : Parent(j) = i => Outside(e, h[p][e], h[j][e])
  BY <1>1 DEF Climbing
<1>6. \A x, y, z \in Items : Outside(e, x, y) /\ Outside(e, y, z) => Outside(e, x, z)
  BY Order
<1>7. h[i][e] \in Items /\ h[p][e] \in Items /\ h[p][o] \in Items /\ Outside(e, h[i][e], h[p][e])
  BY <1>1, <1>2, <1>5
<1> HIDE DEF g, o
<1>8. \A j \in 1 .. last : g[j][e] \in Items
  BY <1>4, <1>5, <1>7
<1>9. \A j \in 1 .. full : g[j][o] \in Items
  BY <1>1, <1>4, <1>5
<1>10. ASSUME NEW j \in 2 .. last, j # p
       PROVE  Outside(e, g[Parent(j)][e], g[j][e])
  <2>1. Parent(j) \in 1 .. last /\ j \in 1 .. last /\ Parent(j) # j /\ j \in Nat
    BY <1>1, <1>2
  <2>2. CASE j = i
    BY <1>4, <1>7, <2>2
  <2>3. CASE j # i /\ Parent(j) = i
    <3>1. g[j][e] = h[j][e] /\ g[Parent(j)][e] = h[p][e]
      BY <1>4, <1>10, <2>1, <2>3
    <3> QED
      BY <1>5, <2>3, <3>1
  <2>4. CASE j # i /\ Parent(j) = p
    <3>1. g[j][e] = h[j][e] /\ g[Parent(j)][e] = h[i][e]
      BY <1>4, <1>10, <2>1, <2>4
    <3>2. Outside(e, h[p][e], h[j][e]) /\ h[j][e] \in Items
      BY <1>5, <2>1, <2>4
    <3> QED
      BY <1>6, <1>7, <3>1, <3>2
  <2>5. CASE j # i /\ Parent(j) # i /\ Parent(j) # p
    <3>1. g[j][e] = h[j][e] /\ g[Parent(j)][e] = h[Parent(j)][e]
      BY <1>4, <1>10, <2>1, <2>5
    <3> QED
      BY <1>5, <2>5, <3>1
  <2> QED
    BY <2>2, <2>3, <2>4, <2>5
<1>11. \A j \in 2 .. full : Outside(o, g[Parent(j)][o], g[j][o])
  <2> TAKE j \in 2 .. full
  <2>1. j \in 2 .. last /\ j \in 1 .. last /\ Parent(j) \in 1 .. last
    BY <1>1, <1>2
  <2> QED
    BY <1>4, <1>5, <2>1
<1>12. ASSUME NEW j \in 1 .. full
       PROVE  Outside(e, g[j][e], g[j][o])
  <2>1. j \in 1 .. last /\ g[j][o] = h[j][o] /\ h[j][o] \in Items /\ Outside(e, h[j][e], h[j][o])
    BY <1>1, <1>4, <1>5
  <2>2. CASE j = i
    <3>1. i \in 2 .. full
      BY <1>1, <2>2
    <3> QED
      BY <1>4, <1>5, <2>1, <2>2, <3>1
  <2>3. CASE j = p
    BY <1>4, <1>6, <1>7, <2>1, <2>3
  <2>4. CASE j # i /\ j # p
    BY <1>4, <2>1, <2>4
  <2> QED
    BY <2>2, <2>3, <2>4
<1>13. full < last => Outside(e, g[last][e], g[Parent(last)][o])
  <2> HAVE full < last
  <2>1. last \in 2 .. last /\ last \in 1 .. last /\ Parent(last) \in 1 .. last /\ last # p
    BY <1>1, <1>2
  <2>2. g[Parent(last)][o] = h[Parent(last)][o]
    BY <1>4, <2>1
  <2>3. CASE last = i
    <3>1. g[last][e] = h[p][e] /\ Parent(last) = p
      BY <1>4, <2>3
    <3> QED
      BY <1>2, <1>5, <2>2, <3>1
  <2>4. CASE last # i
    BY <1>4, <1>5, <2>1, <2>2, <2>4
  <2> QED
    BY <2>3, <2>4
<1>14. p \in 2 .. full => Outside(e, g[Parent(p)][e], g[p][o])
  <2> HAVE p \in 2 .. full
  <2>1. /\ p \in 2 .. last /\ Parent(p) \in 1 .. last /\ Parent(p) < p /\ Parent(p) # i
        /\ Parent(p) # p
    BY <1>1, <1>2
  <2>2. g[Parent(p)][e] = h[Parent(p)][e] /\ g[p][o] = h[p][o] /\ h[Parent(p)][e] \in Items
    BY <1>2, <1>4, <1>5, <2>1
  <2>3. Outside(e, h[Parent(p)][e], h[p][e]) /\ Outside(e, h[p][e], h[p][o])
    BY <1>2, <1>5, <2>1
  <2> QED
    BY <1>6, <1>7, <2>2, <2>3
<1>15. ASSUME p > 1, NEW j \in 2 .. last, Parent(j) = p
       PROVE  Outside(e, g[Parent(p)][e], g[j][e])
  <2>1. /\ p \in 2 .. last /\ Parent(p) \in 1 .. last /\ Parent(p) # i /\ Parent(p) # p
        /\ j \in 1 .. last /\ j # p
    BY <1>1, <1>2, <1>15
  <2>2. g[Parent(p)][e] = h[Parent(p)][e] /\ h[Parent(p)][e] \in Items
    BY <1>4, <1>5, <2>1
  <2>3. p # i /\ Outside(e, h[Parent(p)][e], h[p][e])
    BY <1>2, <1>5, <2>1
  <2>4. CASE j = i
    BY <1>4, <2>2, <2>3, <2>4
  <2>5. CASE j # i
    <3>1. g[j][e] = h[j][e] /\ h[j][e] \in Items /\ Outside(e, h[p][e], h[j][e])
      BY <1>4, <1>5, <1>15, <2>1, <2>5
    <3> QED
      BY <1>6, <1>7, <2>2, <2>3, <3>1
  <2> QED
    BY <2>4, <2>5
<1> HIDE DEF p
<1> QED
  BY <1>2, <1>4, <1>8, <1>9, <1>10, <1>11, <1>12, <1>13, <1>14, <1>15 DEF Climbing, g, o, p

-----------------------------------------------------------------------------

\* What stands at the places P, each an end of a node.
At(h, p) == h[p[1]][p[2]]
Elements(h, P) == {At(h, p) : p \in P}
Distinct(h, P) == \A p, q \in P : At(h, p) = At(h, q) => p = q

\* The places up to last at end e and up to full at the other one.
Places(e, last, full) == {p \in Nodes \X Ends : p[1] <= IF p[2] = e THEN last ELSE full}

(* Changing places loses and doubles nothing.                                *)
LEMMA ExchangeKeeps ==
    ASSUME NEW h \in Heaps, NEW P \in SUBSET (Nodes \X Ends),
           NEW i, NEW e, <<i, e>> \in P, NEW j, NEW f, <<j, f>> \in P
    PROVE  /\ Elements(Exchanged(h, i, e, j, f), P) = Elements(h, P)
           /\ Distinct(h, P) => Distinct(Exchanged(h, i, e, j, f), P)
<1> DEFINE g == Exchanged(h, i, e, j, f)
           a == <<i, e>>
           b == <<j, f>>
           Pi(p) == IF p = a THEN b ELSE IF p = b THEN a ELSE p
<1>1. /\ \A p \in P : Pi(p) \in P /\ Pi(Pi(p)) = p
  OBVIOUS
<1>2. ASSUME NEW p \in P
      PROVE  At(g, p) = At(h, Pi(p))
  <2>1. /\ i \in Nodes /\ j \in Nodes /\ e \in Ends /\ f \in Ends
        /\ p[1] \in Nodes /\ p[2] \in Ends /\ p = <<p[1], p[2]>>
    OBVIOUS
  <2>2. /\ g[j][f] = h[i][e] /\ g[i][e] = h[j][f]
        /\ \A k \in Nodes, d \in Ends :
              ~(k = i /\ d = e) /\ ~(k = j /\ d = f) => g[k][d] = h[k][d]
    BY <2>1, ExchangedEnds
  <2> HIDE DEF g
  <2>3. CASE p = a
    BY <2>2, <2>3 DEF At
  <2>4. CASE p = b /\ p # a
    BY <2>2, <2>4 DEF At
  <2>5. CASE p # a /\ p # b
    <3>1. ~(p[1] = i /\ p[2] = e) /\ ~(p[1] = j /\ p[2] = f)
      BY <2>1, <2>5
    <3>2. g[p[1]][p[2]] = h[p[1]][p[2]]
      BY <2>1, <2>2, <3>1
    <3> QED
      BY <2>5, <3>2 DEF At
  <2> QED
    BY <2>3, <2>4, <2>5
<1> HIDE DEF g, Pi
<1>3. Elements(g, P) = Elements(h, P)
  <2>1. ASSUME NEW x \in Elements(g, P) PROVE x \in Elements(h, P)
    BY <1>1, <1>2, <2>1 DEF Elements
  <2>2. ASSUME NEW p \in P PROVE At(h, p) \in Elements(g, P)
    <3>1. Pi(p) \in P /\ At(g, Pi(p)) = At(h, p)
      BY <1>1, <1>2
    <3> QED
      BY <3>1 DEF Elements
  <2> QED
    BY <2>1, <2>2 DEF Elements
<1>4. ASSUME Distinct(h, P), NEW p \in P, NEW q \in P, At(g, p) = At(g, q)
      PROVE  p = q
  <2>1. Pi(p) = Pi(q)
    BY <1>1, <1>2, <1>4 DEF Distinct
  <2> QED
    BY <1>1, <2>1
<1> QED
  BY <1>3, <1>4 DEF Distinct, g

(* push() brings the element up to where it belongs, and only moves elements. *)
LEMMA ClimbedRests ==
    ASSUME NEW e \in Ends, NEW last, NEW full, Room(last, full),
           NEW h, Climbing(h, last, e, last, full), Distinct(h, Places(e, last, full))
    PROVE  \E i \in 1 .. last :
              LET g == Climbed(h, last, e)
              IN  /\ Climbing(g, i, e, last, full)
                  /\ i = 1 \/ ~Outside(e, g[i][e], g[Parent(i)][e])
                  /\ Elements(g, Places(e, last, full)) = Elements(h, Places(e, last, full))
                  /\ Distinct(g, Places(e, last, full))
<1> DEFINE P == Places(e, last, full)
           Good(s) == /\ Climbing(s.heap, s.at, e, last, full)
                      /\ Elements(s.heap, P) = Elements(h, P) /\ Distinct(s.heap, P)
           Rises(s) == s.at # 1 /\ Outside(e, s.heap[s.at][e], s.heap[Parent(s.at)][e])
           S == {s \in [heap : Heaps, at : 1 .. last] : Good(s)}
           F == [s \in S |-> Climb(s, e)]
           m == [s \in S |-> s.at]
           a == [heap |-> h, at |-> last]
<1>1. last \in Nat /\ 1 <= last /\ 1 .. last \subseteq Nodes /\ last \in 1 .. last /\ h \in Heaps
  BY HeapAssumption DEF Room, Nodes, Climbing
<1>2. a \in S
  BY <1>1
<1>3. ASSUME NEW s \in S, Rises(s)
      PROVE  Climb(s, e) \in S /\ Climb(s, e).at < s.at
  <2> DEFINE g == Exchanged(s.heap, s.at, e, Parent(s.at), e)
  <2>1. Climb(s, e) = [heap |-> g, at |-> Parent(s.at)]
    BY <1>3 DEF Climb
  <2>2. Climbing(g, Parent(s.at), e, last, full)
    BY <1>3, ClimbStep
  <2>3. Parent(s.at) \in 1 .. last /\ Parent(s.at) < s.at /\ s.at \in 1 .. last
    BY <1>1, <1>3, Parents
  <2>4. <<s.at, e>> \in P /\ <<Parent(s.at), e>> \in P /\ P \in SUBSET (Nodes \X Ends)
    BY <1>1, <2>3 DEF Places
  <2>5. Elements(g, P) = Elements(s.heap, P) /\ Distinct(g, P)
    <3> DEFINE u == s.heap
               i == s.at
               j == Parent(i)
    <3>1. u \in Heaps /\ Distinct(u, P)
      OBVIOUS
    <3>2. P \in SUBSET (Nodes \X Ends)
      BY <2>4
    <3>3. <<i, e>> \in P
      BY <2>4
    <3>4. <<j, e>> \in P
      BY <2>4
    <3> HIDE DEF P, S, u, i, j
    <3>5. /\ Elements(Exchanged(u, i, e, j, e), P) = Elements(u, P)
          /\ Distinct(u, P) => Distinct(Exchanged(u, i, e, j, e), P)
      BY <3>1, <3>2, <3>3, <3>4, ExchangeKeeps
    <3> QED
      BY <3>1, <3>5 DEF u, i, j
  <2>6. g \in Heaps
    BY <2>2 DEF Climbing
  <2> HIDE DEF g, P
  <2> QED
    BY <1>3, <2>1, <2>2, <2>3, <2>5, <2>6
<1>4. ASSUME NEW s \in S, ~Rises(s)
      PROVE  Climb(s, e) = s
  BY <1>4 DEF Climb
<1> HIDE DEF Good, P
<1>5. F \in [S -> S] /\ m \in [S -> Nat] /\ m[a] <= last
  <2>1. \A s \in S : Climb(s, e) \in S
    BY <1>3, <1>4
  <2>2. \A s \in S : s.at \in Nat
    BY <1>1
  <2> HIDE DEF S
  <2> QED
    BY <1>1, <1>2, <2>1, <2>2
<1> HIDE DEF a
<1>6. PICK s : Runs(s, last, a, F, S)
  <2>1. F \in [S -> S]
    BY <1>5
  <2> HIDE DEF S, F, m
  <2> QED
    BY <1>1, <1>2, <2>1, RoundsExist
<1>7. /\ F \in [S -> S] /\ s \in [0 .. last -> S]
      /\ s[0] = a /\ \A r \in 1 .. last : s[r] = F[s[r - 1]]
  <2> HIDE DEF S, F, m
  <2> QED
    BY <1>6 DEF Runs
<1> DEFINE Done == {x \in S : ~Rises(x)}
<1>8. s[last] \in Done
  <2>1. \A x \in Done : F[x] = x
    BY <1>4
  <2>2. \A x \in S \ Done : m[F[x]] < m[x]
    <3> TAKE x \in S \ Done
    <3>1. F[x] = Climb(x, e) /\ Climb(x, e) \in S /\ Climb(x, e).at < x.at
      BY <1>3
    <3> HIDE DEF S
    <3> QED
      BY <3>1
  <2>3. Done \in SUBSET S
    OBVIOUS
  <2>4. m \in [S -> Nat] /\ m[a] <= last
    BY <1>5
  <2> HIDE DEF S, F, m, Done
  <2> QED
    BY <1>1, <1>6, <2>1, <2>2, <2>3, <2>4, LoopEnds
<1> DEFINE Body(g) == [r \in 0 .. last |->
                          IF r = 0 THEN [heap |-> h, at |-> last] ELSE Climb(g[r - 1], e)]
<1>9. s = Body(s)
  <2>1. ASSUME NEW r \in 0 .. last
        PROVE  s[r] = Body(s)[r]
    <3>1. CASE r = 0
      BY <1>1, <1>7, <3>1 DEF a
    <3>2. CASE r # 0
      <4>1. r \in 1 .. last /\ r - 1 \in 0 .. last
        BY <1>1, <3>2
      <4>2. s[r] = F[s[r - 1]] /\ s[r - 1] \in S
        BY <1>7, <4>1
      <4> QED
        BY <3>2, <4>2
    <3> QED
      BY <3>1, <3>2
  <2>2. s = [r \in 0 .. last |-> s[r]]
    BY <1>7
  <2> HIDE DEF S, F
  <2> QED
    BY <2>1, <2>2
<1>10. \A g : g = Body(g) => g = s
  <2> SUFFICES ASSUME NEW g, g = Body(g)
               PROVE  g = s
    OBVIOUS
  <2>1. g[0] = a
    BY <1>1 DEF a
  <2>2. ASSUME NEW r \in 1 .. last, g[r - 1] \in S
        PROVE  g[r] = F[g[r - 1]]
    <3>1. r \in 0 .. last /\ r # 0
      BY <1>1
    <3>2. g[r] = Climb(g[r - 1], e)
      BY <3>1
    <3> HIDE DEF S
    <3> QED
      BY <2>2, <3>2
  <2>3. g = [r \in 0 .. last |-> g[r]]
    OBVIOUS
  <2>4. Unrolls(g, last, a, F, S)
    <3> HIDE DEF S, F, m, Body
    <3> QED
      BY <2>1, <2>2, <2>3 DEF Unrolls
  <2> HIDE DEF S, F, m, Body
  <2> QED
    BY <1>1, <1>6, <2>4, RoundsUnique
<1>11. Climbed(h, last, e) = s[last].heap
  <2>1. (CHOOSE g : g = Body(g)) = s
    <3> HIDE DEF Body
    <3> QED
      BY <1>9, <1>10
  <2> QED
    BY <2>1 DEF Climbed
<1>12. Good(s[last]) /\ ~Rises(s[last]) /\ s[last].at \in 1 .. last
  BY <1>8
<1> HIDE DEF Done
<1> QED
  BY <1>11, <1>12 DEF Good, P

-----------------------------------------------------------------------------

\* The element at end e of node i is on its way down; the last node may hold one element twice.  It may be inside
\* its children only, and neither of them is beyond its parent.
Sinking(h, i, e, last, full) ==
    /\ h \in Heaps /\ i \in 1 .. full
    /\ \A j \in 1 .. last : h[j][e] \in Items /\ h[j][Other(e)] \in Items
    /\ \A j \in 2 .. last : Parent(j) # i => Outside(e, h[Parent(j)][e], h[j][e])
    /\ \A j \in 2 .. last : Outside(e, h[j][Other(e)], h[Parent(j)][Other(e)])
    /\ \A j \in 1 .. last : Outside(e, h[j][e], h[j][Other(e)])
    /\ full < last => h[last][e] = h[last][Other(e)] /\ Outside(e, h[i][e], h[last][e])
    /\ i > 1 => \A j \in 2 .. last : Parent(j) = i => Outside(e, h[Parent(i)][e], h[j][e])

(* The child that is compared is beyond the other one.                       *)
LEMMA ChildFirst ==
    ASSUME NEW e \in Ends, NEW last, NEW full, Room(last, full),
           NEW h, NEW i, Sinking(h, i, e, last, full), 2 * i <= last
    PROVE  LET c == Child([heap |-> h, at |-> i], e, last)
           IN  /\ c \in 2 .. last /\ i < c /\ Parent(c) = i
               /\ \A j \in 2 .. last : Parent(j) = i => Outside(e, h[c][e], h[j][e])
<1> DEFINE c == Child([heap |-> h, at |-> i], e, last)
           b == 2 * i
<1>1. last \in Nat /\ i \in Nat /\ i >= 1 /\ b \in 2 .. last /\ i < b /\ b \in Nat
  BY HeapAssumption DEF Room, Sinking, Nodes
<1>2. c = IF b < last /\ Beyond(e, h[b + 1][e], h[b][e]) THEN b + 1 ELSE b
  BY DEF Child
<1>3. Parent(b) = i /\ Parent(b + 1) = i
  BY <1>1, Parents
<1>4. \A j \in 2 .. last : Parent(j) = i => j = b \/ (b < last /\ j = b + 1)
  BY <1>1, Parents
<1>5. h[b][e] \in Items /\ (b < last => h[b + 1][e] \in Items)
  BY <1>1 DEF Sinking
<1>6. /\ \A x \in Items : Outside(e, x, x)
      /\ \A x, y \in Items : Outside(e, x, y) \/ Outside(e, y, x)
      /\ \A x, y \in Items : Beyond(e, x, y) <=> ~Outside(e, y, x)
  BY Order
<1>7. CASE b < last /\ Beyond(e, h[b + 1][e], h[b][e])
  <2>1. c = b + 1
    BY <1>2, <1>7
  <2>2. Outside(e, h[b + 1][e], h[b][e]) /\ Outside(e, h[b + 1][e], h[b + 1][e])
    BY <1>5, <1>6, <1>7
  <2>3. c \in 2 .. last /\ i < c
    BY <1>1, <1>7, <2>1
  <2> HIDE DEF c, b
  <2> QED
    BY <1>3, <1>4, <2>1, <2>2, <2>3 DEF c
<1>8. CASE ~(b < last /\ Beyond(e, h[b + 1][e], h[b][e]))
  <2>1. c = b
    BY <1>2, <1>8
  <2>2. Outside(e, h[b][e], h[b][e]) /\ (b < last => Outside(e, h[b][e], h[b + 1][e]))
    BY <1>5, <1>6, <1>8
  <2> HIDE DEF c, b
  <2> QED
    BY <1>1, <1>3, <1>4, <2>1, <2>2 DEF c
<1> QED
  BY <1>7, <1>8

\* The element of the child c has come up to i, and the two others are put into the node of the child the right
\* way round.
OneDown(g, h, i, c, e, last) ==
    /\ g \in Heaps
    /\ g[i][e] = h[c][e]
    /\ \/ g[c][e] = h[i][e] /\ g[c][Other(e)] = h[c][Other(e)]
       \/ g[c][e] = h[c][Other(e)] /\ g[c][Other(e)] = h[i][e]
    /\ Outside(e, g[c][e], g[c][Other(e)])
    /\ g[i][Other(e)] = h[i][Other(e)]
    /\ \A j \in 1 .. last, d \in Ends : j # i /\ j # c => g[j][d] = h[j][d]

\* The elements at the places P are the same, each once.
Rearranged(g, h, P) ==
    /\ Elements(g, P) = Elements(h, P)
    /\ Distinct(h, P) => Distinct(g, P)

(* What one round of pop_min() or pop_max() does.                            *)
LEMMA SinkEnds ==
    ASSUME NEW e \in Ends, NEW last, NEW full, Room(last, full),
           NEW h, NEW i, Sinking(h, i, e, last, full), 2 * i <= last,
           NEW c, c = Child([heap |-> h, at |-> i], e, last), ~Outside(e, h[i][e], h[c][e])
    PROVE  LET s == Sink([heap |-> h, at |-> i], e, last)
           IN  /\ s = [heap |-> s.heap, at |-> c]
               /\ OneDown(s.heap, h, i, c, e, last)
               /\ \A P \in SUBSET (Nodes \X Ends) :
                     <<i, e>> \in P /\ <<c, "left">> \in P /\ <<c, "right">> \in P =>
                        Rearranged(s.heap, h, P)
<1> DEFINE o == Other(e)
           u == Exchanged(h, i, e, c, e)
           v == Exchanged(u, c, "left", c, "right")
           s == [heap |-> h, at |-> i]
           g == Sink(s, e, last).heap
<1>1. /\ i \in Nodes /\ c \in Nodes /\ i # c /\ 1 .. last \subseteq Nodes
      /\ c \in 1 .. last /\ i \in 1 .. last /\ h \in Heaps
  <2>1. c \in 2 .. last /\ i < c
    BY ChildFirst
  <2>2. last \in Nat /\ full \in Nat /\ full <= last /\ 1 .. last \subseteq Nodes /\ i \in 1 .. full
    BY HeapAssumption DEF Room, Nodes, Sinking
  <2>3. h \in Heaps
    BY DEF Sinking
  <2> QED
    BY <2>1, <2>2, <2>3
<1>2. /\ o \in Ends /\ o # e /\ "left" \in Ends /\ "right" \in Ends
      /\ (e = "left" /\ o = "right") \/ (e = "right" /\ o = "left")
  BY DEF Ends, Other
<1>3. /\ u \in Heaps /\ u[c][e] = h[i][e] /\ u[i][e] = h[c][e] /\ u[i][o] = h[i][o] /\ u[c][o] = h[c][o]
      /\ \A j \in 1 .. last, d \in Ends : j # i /\ j # c => u[j][d] = h[j][d]
  <2>a. h \in Heaps
    BY <1>1
  <2>b. i \in Nodes
    BY <1>1
  <2>c. c \in Nodes
    BY <1>1
  <2>1. /\ u \in Heaps /\ u[c][e] = h[i][e] /\ u[i][e] = h[c][e]
        /\ \A k \in Nodes, d \in Ends :
              ~(k = i /\ d = e) /\ ~(k = c /\ d = e) => u[k][d] = h[k][d]
    BY ONLY <2>a, <2>b, <2>c, e \in Ends, ExchangedEnds
  <2> HIDE DEF u, o
  <2> QED
    BY <1>1, <1>2, <2>1
<1>4. /\ v \in Heaps /\ v[c]["right"] = u[c]["left"] /\ v[c]["left"] = u[c]["right"]
      /\ \A k \in Nodes, d \in Ends : k # c => v[k][d] = u[k][d]
  <2>a. u \in Heaps
    BY <1>3
  <2>b. c \in Nodes
    BY <1>1
  <2>c. "left" \in Ends /\ "right" \in Ends
    BY <1>2
  <2> HIDE DEF u
  <2>1. /\ v \in Heaps /\ v[c]["right"] = u[c]["left"] /\ v[c]["left"] = u[c]["right"]
        /\ \A k \in Nodes, d \in Ends :
              ~(k = c /\ d = "left") /\ ~(k = c /\ d = "right") => v[k][d] = u[k][d]
    BY ONLY <2>a, <2>b, <2>c, ExchangedEnds
  <2> HIDE DEF v
  <2> QED
    BY <2>1
<1>5. /\ ~(2 * s.at > last \/ Outside(e, s.heap[s.at][e], s.heap[c][e]))
      /\ c = Child(s, e, last)
  <2>1. last \in Nat /\ i \in Nat
    BY <1>1 DEF Room
  <2> QED
    BY <2>1
<1>6. ASSUME NEW P \in SUBSET (Nodes \X Ends), <<i, e>> \in P, <<c, "left">> \in P, <<c, "right">> \in P
      PROVE  /\ Elements(u, P) = Elements(h, P) /\ Elements(v, P) = Elements(h, P)
             /\ Distinct(h, P) => Distinct(u, P) /\ Distinct(v, P)
  <2>1. <<c, e>> \in P
    BY <1>2, <1>6
  <2>a. h \in Heaps
    BY <1>1
  <2>b. u \in Heaps
    BY <1>3
  <2>2. Elements(u, P) = Elements(h, P) /\ (Distinct(h, P) => Distinct(u, P))
    BY ONLY <2>a, P \in SUBSET (Nodes \X Ends), <1>6, <2>1, ExchangeKeeps
  <2> HIDE DEF u
  <2>3. Elements(v, P) = Elements(u, P) /\ (Distinct(u, P) => Distinct(v, P))
    BY ONLY <2>b, P \in SUBSET (Nodes \X Ends), <1>6, ExchangeKeeps
  <2> QED
    BY <2>2, <2>3
<1>7. u[c][e] \in Items /\ u[c][o] \in Items
  BY <1>1, <1>3 DEF Sinking
<1>8. CASE Beyond(e, u[c][o], u[c][e])
  <2>1. Sink(s, e, last) = [heap |-> v, at |-> c]
    BY <1>5, <1>8 DEF Sink
  <2>2. g = v
    BY <2>1
  <2>3. v[c][e] = u[c][o] /\ v[c][o] = u[c][e]
    BY <1>2, <1>4
  <2>4. Outside(e, u[c][o], u[c][e])
    BY <1>7, <1>8, Order
  <2>5. /\ v[i][e] = u[i][e] /\ v[i][o] = u[i][o]
        /\ \A j \in 1 .. last, d \in Ends : j # c => v[j][d] = u[j][d]
    <3> HIDE DEF u, v, o
    <3> QED
      BY <1>1, <1>2, <1>4
  <2> HIDE DEF u, v, g, o, s
  <2> QED
    BY <1>3, <1>4, <1>6, <2>1, <2>2, <2>3, <2>4, <2>5 DEF g, o, s, OneDown, Rearranged
<1>9. CASE ~Beyond(e, u[c][o], u[c][e])
  <2>1. Sink(s, e, last) = [heap |-> u, at |-> c]
    BY <1>5, <1>9 DEF Sink
  <2>2. g = u
    BY <2>1
  <2>3. Outside(e, u[c][e], u[c][o])
    BY <1>7, <1>9, Order
  <2> HIDE DEF u, v, g, o, s
  <2> QED
    BY <1>3, <1>6, <2>1, <2>2, <2>3 DEF g, o, s, OneDown, Rearranged
<1> QED
  BY <1>8, <1>9

LEMMA SinkStep ==
    ASSUME NEW e \in Ends, NEW last, NEW full, Room(last, full),
           NEW h, NEW i, Sinking(h, i, e, last, full), 2 * i <= last,
           NEW c, c = Child([heap |-> h, at |-> i], e, last), ~Outside(e, h[i][e], h[c][e])
    PROVE  c > i /\ Sinking(Sink([heap |-> h, at |-> i], e, last).heap, c, e, last, full)
<1> DEFINE o == Other(e)
           g == Sink([heap |-> h, at |-> i], e, last).heap
<1>1. /\ g \in Heaps
      /\ g[i][e] = h[c][e]
      /\ \/ g[c][e] = h[i][e] /\ g[c][o] = h[c][o]
         \/ g[c][e] = h[c][o] /\ g[c][o] = h[i][e]
      /\ Outside(e, g[c][e], g[c][o])
      /\ g[i][o] = h[i][o]
      /\ \A j \in 1 .. last, d \in Ends : j # i /\ j # c => g[j][d] = h[j][d]
  <2>1. OneDown(g, h, i, c, e, last)
    BY SinkEnds
  <2> HIDE DEF g
  <2> QED
    BY <2>1 DEF OneDown
<1> HIDE DEF g
<1>2. /\ c \in 2 .. last /\ i < c /\ Parent(c) = i
      /\ \A j \in 2 .. last : Parent(j) = i => Outside(e, h[c][e], h[j][e])
  BY ChildFirst
<1>3. /\ last \in Nat /\ full \in Nat /\ full <= last /\ i \in 1 .. full /\ i \in Nat /\ c \in Nat
      /\ i \in 1 .. last /\ c \in 1 .. last /\ (full < last => full = last - 1)
  BY HeapAssumption, <1>2 DEF Room, Sinking, Nodes
<1>4. \A j \in 2 .. last : Parent(j) \in 1 .. last /\ Parent(j) < j /\ j \in 1 .. last /\ j \in Nat
  BY <1>3, Parents
<1>5. /\ \A j \in 1 .. last : h[j][e] \in Items /\ h[j][o] \in Items
      /\ \A j \in 2 .. last : Parent(j) # i => Outside(e, h[Parent(j)][e], h[j][e])
      /\ \A j \in 2 .. last : Outside(e, h[j][o], h[Parent(j)][o])
      /\ \A j \in 1 .. last : Outside(e, h[j][e], h[j][o])
      /\ full < last => h[last][e] = h[last][o] /\ Outside(e, h[i][e], h[last][e])
      /\ i > 1 => \A j \in 2 .. last : Parent(j) = i => Outside(e, h[Parent(i)][e], h[j][e])
  BY DEF Sinking
<1>6. /\ \A x \in Items : Outside(e, x, x)
      /\ \A x, y, z \in Items : Outside(e, x, y) /\ Outside(e, y, z) => Outside(e, x, z)
      /\ \A x, y \in Items : Outside(e, x, y) \/ Outside(e, y, x)
      /\ o \in Ends /\ o # e /\ Ends = {e, o}
  BY Order
<1> HIDE DEF o
<1>7. /\ h[i][e] \in Items /\ h[i][o] \in Items /\ h[c][e] \in Items /\ h[c][o] \in Items
      /\ g[c][e] \in Items /\ g[c][o] \in Items
  BY <1>1, <1>3, <1>5
<1>8. /\ Outside(e, h[c][e], h[i][e]) /\ Outside(e, h[c][e], h[c][o])
      /\ Outside(e, h[i][e], h[i][o]) /\ Outside(e, h[c][o], h[i][o])
  BY <1>2, <1>3, <1>5, <1>6, <1>7
\* The element that goes on is not inside the one that came, and neither is the one it may be exchanged with.
<1>9. /\ Outside(e, h[c][e], g[c][e]) /\ Outside(e, g[c][e], h[i][e])
      /\ Outside(e, h[c][o], g[c][o]) /\ Outside(e, g[c][o], h[i][o])
  BY <1>1, <1>6, <1>7, <1>8
<1>10. full < last => c # last /\ i # last
  BY <1>3, <1>5
<1>11. c \in 1 .. full
  BY <1>3, <1>10
<1>12. \A j \in 1 .. last : g[j][e] \in Items /\ g[j][o] \in Items
  BY <1>1, <1>5, <1>6, <1>7
<1>13. ASSUME NEW j \in 2 .. last, Parent(j) # c
       PROVE  Outside(e, g[Parent(j)][e], g[j][e])
  <2>1. CASE j = c
    BY <1>1, <1>2, <1>9, <2>1
  <2>2. CASE j # c /\ Parent(j) = i
    <3>1. j # i
      BY <1>4, <2>2
    <3> QED
      BY <1>1, <1>2, <1>4, <2>2, <3>1
  <2>3. CASE j # c /\ j = i
    <3>1. Parent(j) # i /\ i > 1 /\ i \in 2 .. last
      BY <1>3, <1>4, <2>3
    <3>2. g[Parent(j)][e] = h[Parent(j)][e] /\ g[j][e] = h[c][e]
      BY <1>1, <1>4, <1>13, <2>3, <3>1
    <3> QED
      BY <1>2, <1>5, <2>3, <3>1, <3>2
  <2>4. CASE j # c /\ j # i /\ Parent(j) # i
    <3>1. g[Parent(j)][e] = h[Parent(j)][e] /\ g[j][e] = h[j][e]
      BY <1>1, <1>4, <1>13, <2>4
    <3> QED
      BY <1>5, <2>4, <3>1
  <2> QED
    BY <2>1, <2>2, <2>3, <2>4
<1>14. ASSUME NEW j \in 2 .. last
       PROVE  Outside(e, g[j][o], g[Parent(j)][o])
  <2>1. CASE j = c
    BY <1>1, <1>2, <1>9, <2>1
  <2>2. CASE j # c /\ Parent(j) = c
    <3>1. j # i
      BY <1>2, <1>3, <1>4, <2>2
    <3>2. g[j][o] = h[j][o] /\ Outside(e, h[j][o], h[c][o]) /\ h[j][o] \in Items
      BY <1>1, <1>4, <1>5, <1>6, <2>2, <3>1
    <3> QED
      BY <1>6, <1>7, <1>9, <2>2, <3>2
  <2>3. CASE j # c /\ Parent(j) # c
    <3>1. g[j][o] = h[j][o] /\ g[Parent(j)][o] = h[Parent(j)][o]
      BY <1>1, <1>4, <1>6, <2>3
    <3> QED
      BY <1>5, <3>1
  <2> QED
    BY <2>1, <2>2, <2>3
<1>15. ASSUME NEW j \in 1 .. last
       PROVE  Outside(e, g[j][e], g[j][o])
  <2>1. CASE j = c
    BY <1>1, <2>1
  <2>2. CASE j = i
    BY <1>1, <1>6, <1>7, <1>8, <2>2
  <2>3. CASE j # c /\ j # i
    BY <1>1, <1>5, <1>6, <2>3
  <2> QED
    BY <2>1, <2>2, <2>3
<1>16. full < last => g[last][e] = g[last][o] /\ Outside(e, g[c][e], g[last][e])
  <2> HAVE full < last
  <2>1. last \in 1 .. last /\ last # i /\ last # c
    BY <1>3, <1>10
  <2>2. g[last][e] = h[last][e] /\ g[last][o] = h[last][o] /\ h[last][e] \in Items
    BY <1>1, <1>5, <1>6, <2>1
  <2> QED
    BY <1>5, <1>6, <1>7, <1>9, <2>2
<1>17. ASSUME NEW j \in 2 .. last, Parent(j) = c
       PROVE  Outside(e, g[Parent(c)][e], g[j][e])
  <2>1. j # c /\ j # i /\ c # i
    BY <1>2, <1>3, <1>4, <1>17
  <2>2. g[j][e] = h[j][e] /\ Outside(e, h[c][e], h[j][e])
    BY <1>1, <1>4, <1>5, <1>17, <2>1
  <2> QED
    BY <1>1, <1>2, <2>2
<1>18. Sinking(g, c, e, last, full)
  BY <1>1, <1>11, <1>12, <1>13, <1>14, <1>15, <1>16, <1>17 DEF Sinking, o
<1> QED
  BY <1>2, <1>3, <1>18 DEF g

(* pop_min() and pop_max() bring the element down to where it belongs, and   *)
(* only move elements.                                                       *)
LEMMA SunkRests ==
    ASSUME NEW e \in Ends, NEW last, NEW full, Room(last, full),
           NEW h, Sinking(h, 1, e, last, full), Distinct(h, Places(Other(e), last, full))
    PROVE  \E i \in 1 .. last :
              LET g == Sunk(h, last, e)
              IN  /\ Sinking(g, i, e, last, full)
                  /\ 2 * i <= last => Outside(e, g[i][e], g[Child([heap |-> g, at |-> i], e, last)][e])
                  /\ Rearranged(g, h, Places(Other(e), last, full))
                  /\ Distinct(g, Places(Other(e), last, full))
<1> DEFINE P == Places(Other(e), last, full)
           Good(s) == /\ Sinking(s.heap, s.at, e, last, full)
                      /\ Elements(s.heap, P) = Elements(h, P) /\ Distinct(s.heap, P)
           Falls(s) == /\ 2 * s.at <= last
                       /\ ~Outside(e, s.heap[s.at][e], s.heap[Child(s, e, last)][e])
           S == {s \in [heap : Heaps, at : 1 .. last] : Good(s)}
           F == [s \in S |-> Sink(s, e, last)]
           m == [s \in S |-> last - s.at]
           a == [heap |-> h, at |-> 1]
<1>1. /\ last \in Nat /\ 1 <= last /\ 1 .. last \subseteq Nodes /\ 1 \in 1 .. last /\ h \in Heaps
      /\ full \in Nat /\ full <= last
  BY HeapAssumption DEF Room, Nodes, Sinking
<1>2. a \in S
  BY <1>1
<1>3. ASSUME NEW s \in S, Falls(s)
      PROVE  Sink(s, e, last) \in S /\ Sink(s, e, last).at > s.at
  <2> DEFINE u == s.heap
             i == s.at
             c == Child([heap |-> u, at |-> i], e, last)
             t == Sink([heap |-> u, at |-> i], e, last)
  <2>1. s = [heap |-> u, at |-> i] /\ i \in 1 .. last
    OBVIOUS
  <2>2. Sinking(u, i, e, last, full)
    OBVIOUS
  <2>3. 2 * i <= last /\ ~Outside(e, u[i][e], u[c][e])
    <3>1. Child(s, e, last) = c
      BY <2>1
    <3> QED
      BY <1>3, <3>1
  <2>4. Elements(u, P) = Elements(h, P) /\ Distinct(u, P)
    OBVIOUS
  <2>5. Sink(s, e, last) = t
    BY <2>1
  <2> HIDE DEF S, P, u, i, c
  <2>6. c > i /\ Sinking(t.heap, c, e, last, full)
    BY <2>2, <2>3, SinkStep DEF c
  <2>7. /\ t = [heap |-> t.heap, at |-> c]
        /\ \A Q \in SUBSET (Nodes \X Ends) :
              <<i, e>> \in Q /\ <<c, "left">> \in Q /\ <<c, "right">> \in Q => Rearranged(t.heap, u, Q)
    BY <2>2, <2>3, SinkEnds DEF c
  <2> HIDE DEF t
  <2>8. c \in 1 .. full /\ i \in 1 .. full /\ c \in 1 .. last /\ t.heap \in Heaps
    BY <1>1, <2>2, <2>6 DEF Sinking
  <2>9. P \in SUBSET (Nodes \X Ends) /\ <<i, e>> \in P /\ <<c, "left">> \in P /\ <<c, "right">> \in P
    <3>1. "left" \in Ends /\ "right" \in Ends /\ i \in Nodes /\ c \in Nodes /\ i <= full /\ i <= last
          /\ c <= full /\ c <= last
      BY <1>1, <2>8 DEF Ends
    <3> QED
      BY <3>1 DEF P, Places
  <2>10. Rearranged(t.heap, u, P)
    BY <2>7, <2>9
  <2>11. Elements(t.heap, P) = Elements(h, P) /\ Distinct(t.heap, P)
    BY <2>4, <2>10 DEF Rearranged
  <2>12. t \in S /\ t.at = c
    BY <2>6, <2>7, <2>8, <2>11 DEF S
  <2> QED
    BY <2>5, <2>6, <2>12 DEF i
<1>4. ASSUME NEW s \in S, ~Falls(s)
      PROVE  Sink(s, e, last) = s
  <2>1. 2 * s.at > last \/ Outside(e, s.heap[s.at][e], s.heap[Child(s, e, last)][e])
    BY <1>1, <1>4
  <2> QED
    BY <2>1 DEF Sink
<1> HIDE DEF Good, P
<1>5. F \in [S -> S] /\ m \in [S -> Nat] /\ m[a] <= last
  <2>1. \A s \in S : Sink(s, e, last) \in S
    BY <1>3, <1>4
  <2>2. \A s \in S : last - s.at \in Nat
    BY <1>1
  <2> HIDE DEF S
  <2> QED
    BY <1>1, <1>2, <2>1, <2>2
<1> HIDE DEF a
<1>6. PICK s : Runs(s, last, a, F, S)
  <2>1. F \in [S -> S]
    BY <1>5
  <2> HIDE DEF S, F, m
  <2> QED
    BY <1>1, <1>2, <2>1, RoundsExist
<1>7. /\ F \in [S -> S] /\ s \in [0 .. last -> S]
      /\ s[0] = a /\ \A r \in 1 .. last : s[r] = F[s[r - 1]]
  <2> HIDE DEF S, F, m
  <2> QED
    BY <1>6 DEF Runs
<1> DEFINE Done == {x \in S : ~Falls(x)}
<1>8. s[last] \in Done
  <2>1. \A x \in Done : F[x] = x
    BY <1>4
  <2>2. \A x \in S \ Done : m[F[x]] < m[x]
    <3> TAKE x \in S \ Done
    <3>1. F[x] = Sink(x, e, last) /\ Sink(x, e, last) \in S /\ Sink(x, e, last).at > x.at
      BY <1>3
    <3>2. \A y \in S : m[y] = last - y.at /\ y.at \in Nat
      BY <1>1
    <3> HIDE DEF S, F, m
    <3> QED
      BY <1>1, <3>1, <3>2
  <2>3. Done \in SUBSET S
    OBVIOUS
  <2>4. m \in [S -> Nat] /\ m[a] <= last
    BY <1>5
  <2> HIDE DEF S, F, m, Done
  <2> QED
    BY <1>1, <1>6, <2>1, <2>2, <2>3, <2>4, LoopEnds
<1> DEFINE Body(g) == [r \in 0 .. last |->
                          IF r = 0 THEN [heap |-> h, at |-> 1] ELSE Sink(g[r - 1], e, last)]
<1>9. s = Body(s)
  <2>1. ASSUME NEW r \in 0 .. last
        PROVE  s[r] = Body(s)[r]
    <3>1. CASE r = 0
      BY <1>1, <1>7, <3>1 DEF a
    <3>2. CASE r # 0
      <4>1. r \in 1 .. last /\ r - 1 \in 0 .. last
        BY <1>1, <3>2
      <4>2. s[r] = F[s[r - 1]] /\ s[r - 1] \in S
        BY <1>7, <4>1
      <4> QED
        BY <3>2, <4>2
    <3> QED
      BY <3>1, <3>2
  <2>2. s = [r \in 0 .. last |-> s[r]]
    BY <1>7
  <2> HIDE DEF S, F
  <2> QED
    BY <2>1, <2>2
<1>10. \A g : g = Body(g) => g = s
  <2> SUFFICES ASSUME NEW g, g = Body(g)
               PROVE  g = s
    OBVIOUS
  <2>1. g[0] = a
    BY <1>1 DEF a
  <2>2. ASSUME NEW r \in 1 .. last, g[r - 1] \in S
        PROVE  g[r] = F[g[r - 1]]
    <3>1. r \in 0 .. last /\ r # 0
      BY <1>1
    <3>2. g[r] = Sink(g[r - 1], e, last)
      BY <3>1
    <3> HIDE DEF S
    <3> QED
      BY <2>2, <3>2
  <2>3. g = [r \in 0 .. last |-> g[r]]
    OBVIOUS
  <2>4. Unrolls(g, last, a, F, S)
    <3> HIDE DEF S, F, m, Body
    <3> QED
      BY <2>1, <2>2, <2>3 DEF Unrolls
  <2> HIDE DEF S, F, m, Body
  <2> QED
    BY <1>1, <1>6, <2>4, RoundsUnique
<1>11. Sunk(h, last, e) = s[last].heap
  <2>1. (CHOOSE g : g = Body(g)) = s
    <3> HIDE DEF Body
    <3> QED
      BY <1>9, <1>10
  <2> QED
    BY <2>1 DEF Sunk
<1> DEFINE g == s[last].heap
           i == s[last].at
<1>12. Good(s[last]) /\ ~Falls(s[last]) /\ i \in 1 .. last /\ s[last] = [heap |-> g, at |-> i]
  BY <1>8
<1>13. 2 * i <= last => Outside(e, g[i][e], g[Child([heap |-> g, at |-> i], e, last)][e])
  BY <1>12
<1> HIDE DEF Done, Falls
<1> QED
  BY <1>11, <1>12, <1>13 DEF Good, P, Rearranged

-----------------------------------------------------------------------------

\* The heap as it is between two calls, seen from end e.
InOrder(h, e, last, full) ==
    /\ h \in Heaps
    /\ \A j \in 1 .. last : h[j][e] \in Items /\ h[j][Other(e)] \in Items
    /\ \A j \in 2 .. last : /\ Outside(e, h[Parent(j)][e], h[j][e])
                            /\ Outside(e, h[j][Other(e)], h[Parent(j)][Other(e)])
    /\ \A j \in 1 .. last : Outside(e, h[j][e], h[j][Other(e)])
    /\ full < last => h[last][e] = h[last][Other(e)]

\* The numbers of nodes and of full nodes.
Shape(last, full) == full \in Nat /\ last \in {full, full + 1} /\ last <= MaxNodes

(* It is in order seen from the other end, too.                              *)
LEMMA OtherEnd ==
    ASSUME NEW last, NEW full, Shape(last, full), NEW h, NEW e \in Ends, InOrder(h, e, last, full)
    PROVE  InOrder(h, Other(e), last, full)
<1> DEFINE o == Other(e)
<1>1. /\ o \in Ends /\ o # e /\ Other(o) = e /\ Ends = {e, o}
      /\ \A x, y \in Items : Outside(o, x, y) <=> Outside(e, y, x)
  BY Order
<1>2. \A j \in 2 .. last : j \in 1 .. last /\ Parent(j) \in 1 .. last
  <2>1. last \in Nat
    BY DEF Shape
  <2> QED
    BY <2>1, Parents
<1> HIDE DEF o
<1>3. /\ \A j \in 1 .. last : h[j][e] \in Items /\ h[j][o] \in Items
      /\ \A j \in 2 .. last : /\ Outside(e, h[Parent(j)][e], h[j][e])
                              /\ Outside(e, h[j][o], h[Parent(j)][o])
      /\ \A j \in 1 .. last : Outside(e, h[j][e], h[j][o])
      /\ full < last => h[last][e] = h[last][o] /\ last \in Nat /\ full \in Nat
      /\ h \in Heaps
  BY DEF InOrder, o, Shape
<1>4. InOrder(h, o, last, full)
  BY <1>1, <1>2, <1>3 DEF InOrder
<1> QED
  BY <1>4 DEF o

(* And the elements are the same.                                            *)
LEMMA BothEnds ==
    ASSUME NEW last, NEW full, Shape(last, full),
           NEW h, NEW e \in Ends, InOrder(h, e, last, full), Distinct(h, Places(e, last, full))
    PROVE  LET o == Other(e)
           IN  /\ InOrder(h, o, last, full)
               /\ Distinct(h, Places(o, last, full))
               /\ Elements(h, Places(o, last, full)) = Elements(h, Places(e, last, full))
<1> DEFINE o == Other(e)
           P == Places(e, last, full)
           Q == Places(o, last, full)
           Pi(p) == IF full < last /\ p[1] = last THEN <<last, o>> ELSE p
           Ip(q) == IF full < last /\ q[1] = last THEN <<last, e>> ELSE q
<1>1. /\ o \in Ends /\ o # e /\ Other(o) = e /\ Ends = {e, o}
      /\ \A x, y \in Items : Outside(o, x, y) <=> Outside(e, y, x)
  BY Order
<1>2. last \in Nat /\ full \in Nat /\ last \in {full, full + 1} /\ 1 .. last \subseteq Nodes
  BY HeapAssumption DEF Shape, Nodes
<1>3. InOrder(h, o, last, full)
  BY OtherEnd
<1> HIDE DEF o
<1>4. full < last => h[last][e] = h[last][o] /\ last \in Nodes
  BY <1>2 DEF InOrder, o
<1>5. \A p \in P : Pi(p) \in Q /\ Ip(Pi(p)) = p /\ At(h, Pi(p)) = At(h, p)
  <2> TAKE p \in P
  <2>1. /\ p \in Nodes \X Ends /\ p = <<p[1], p[2]>> /\ p[1] \in Nat
        /\ p[1] <= (IF p[2] = e THEN last ELSE full)
    BY DEF Places, Nodes
  <2>2. CASE full < last /\ p[1] = last
    <3>1. p[2] = e
      BY <1>2, <2>1, <2>2
    <3> QED
      BY <1>1, <1>4, <2>1, <2>2, <3>1 DEF Places, At
  <2>3. CASE ~(full < last /\ p[1] = last)
    <3>1. p[1] <= full /\ p[1] <= last
      BY <1>2, <2>1, <2>3
    <3> QED
      BY <2>1, <2>3, <3>1 DEF Places
  <2> QED
    BY <2>2, <2>3
<1>6. \A q \in Q : Ip(q) \in P /\ Pi(Ip(q)) = q
  <2> TAKE q \in Q
  <2>1. /\ q \in Nodes \X Ends /\ q = <<q[1], q[2]>> /\ q[1] \in Nat
        /\ q[1] <= (IF q[2] = o THEN last ELSE full)
    BY DEF Places, Nodes
  <2>2. CASE full < last /\ q[1] = last
    <3>1. q[2] = o
      BY <1>2, <2>1, <2>2
    <3> QED
      BY <1>1, <1>4, <2>1, <2>2, <3>1 DEF Places
  <2>3. CASE ~(full < last /\ q[1] = last)
    <3>1. q[1] <= full /\ q[1] <= last
      BY <1>2, <2>1, <2>3
    <3> QED
      BY <2>1, <2>3, <3>1 DEF Places
  <2> QED
    BY <2>2, <2>3
<1> HIDE DEF P, Q, Pi, Ip
<1>7. Distinct(h, Q)
  <2> SUFFICES ASSUME NEW q \in Q, NEW r \in Q, At(h, q) = At(h, r)
               PROVE  q = r
    BY DEF Distinct
  <2>1. At(h, Ip(q)) = At(h, q) /\ At(h, Ip(r)) = At(h, r) /\ Ip(q) \in P /\ Ip(r) \in P
    BY <1>5, <1>6
  <2>2. Ip(q) = Ip(r)
    BY <2>1 DEF Distinct, P
  <2> QED
    BY <1>6, <2>2
<1>8. Elements(h, Q) = Elements(h, P)
  <2>1. ASSUME NEW q \in Q PROVE At(h, q) \in Elements(h, P)
    <3>1. Ip(q) \in P /\ At(h, Ip(q)) = At(h, q)
      BY <1>5, <1>6
    <3> QED
      BY <3>1 DEF Elements
  <2>2. ASSUME NEW p \in P PROVE At(h, p) \in Elements(h, Q)
    <3>1. Pi(p) \in Q /\ At(h, Pi(p)) = At(h, p)
      BY <1>5
    <3> QED
      BY <3>1 DEF Elements
  <2> QED
    BY <2>1, <2>2 DEF Elements
<1> QED
  BY <1>3, <1>7, <1>8 DEF o, P, Q

(* The root is beyond every node.                                            *)
LEMMA RootFirst ==
    ASSUME NEW last, NEW full, Shape(last, full),
           NEW h, NEW e \in Ends, InOrder(h, e, last, full)
    PROVE  \A j \in 1 .. last : /\ Outside(e, h[1][e], h[j][e])
                                /\ Outside(e, h[j][Other(e)], h[1][Other(e)])
<1> DEFINE o == Other(e)
           Below(j) == Outside(e, h[1][e], h[j][e]) /\ Outside(e, h[j][o], h[1][o])
           T == {j \in 1 .. last : ~Below(j)}
<1>1. last \in Nat /\ \A j \in 2 .. last : j \in 1 .. last /\ Parent(j) \in 1 .. last /\ Parent(j) < j
  <2>1. last \in Nat
    BY DEF Shape
  <2> QED
    BY <2>1, Parents
<1>2. /\ \A j \in 1 .. last : h[j][e] \in Items /\ h[j][o] \in Items
      /\ \A j \in 2 .. last : /\ Outside(e, h[Parent(j)][e], h[j][e])
                              /\ Outside(e, h[j][o], h[Parent(j)][o])
  BY DEF InOrder
<1>3. /\ \A x \in Items : Outside(e, x, x)
      /\ \A x, y, z \in Items : Outside(e, x, y) /\ Outside(e, y, z) => Outside(e, x, z)
  BY Order
<1>4. SUFFICES ASSUME T # {} PROVE FALSE
  OBVIOUS
<1>5. PICK j \in T : \A k \in T : j <= k
  <2>1. T \in SUBSET Nat
    BY <1>1
  <2> HIDE DEF T
  <2> QED
    BY <1>4, <2>1, LeastElement
<1> HIDE DEF o
<1>6. j \in 1 .. last /\ ~Below(j) /\ 1 \in 1 .. last
  BY <1>1, <1>5
<1>7. j # 1
  BY <1>2, <1>3, <1>6
<1>8. j \in 2 .. last
  BY <1>1, <1>6, <1>7
<1>9. Parent(j) \notin T
  <2>1. Parent(j) < j /\ Parent(j) \in 1 .. last /\ j \in 1 .. last
    BY <1>1, <1>8
  <2>2. ~(j <= Parent(j))
    BY <1>1, <2>1
  <2> HIDE DEF T
  <2> QED
    BY <1>5, <2>2
<1>10. Below(Parent(j))
  BY <1>1, <1>8, <1>9
<1>11. Below(j)
  <2>1. /\ h[1][e] \in Items /\ h[1][o] \in Items /\ h[j][e] \in Items /\ h[j][o] \in Items
        /\ h[Parent(j)][e] \in Items /\ h[Parent(j)][o] \in Items
    BY <1>1, <1>2, <1>6, <1>8
  <2>2. Outside(e, h[Parent(j)][e], h[j][e]) /\ Outside(e, h[j][o], h[Parent(j)][o])
    BY <1>2, <1>8
  <2> QED
    BY <1>3, <1>10, <2>1, <2>2
<1> QED
  BY <1>6, <1>11

-----------------------------------------------------------------------------

\* The new element x is not inside what stands across from it or above it at the other end.
Fits(h, e, x, last, n) ==
    /\ last = n => Outside(e, x, h[last][Other(e)])
    /\ last < n => Outside(e, x, h[Parent(n)][Other(e)])

\* An element is assigned to an end of a node.
WithEnd(h, n, e, x) == [h EXCEPT ![n][e] = x]

(* push() starts with an element that is at its end of the new last node.    *)
LEMMA PushStart ==
    ASSUME NEW last, NEW full, Shape(last, full), last >= 1, NEW n, n = full + 1, n <= MaxNodes,
           NEW h, NEW e \in Ends, InOrder(h, e, last, full),
           Distinct(h, Places(Other(e), last, full)),
           NEW x \in Items, x \notin Elements(h, Places(Other(e), last, full)),
           Fits(h, e, x, last, n),
           NEW u, u = WithEnd(h, n, e, x)
    PROVE  /\ Climbing(u, n, e, n, last)
           /\ Distinct(u, Places(e, n, last))
           /\ Elements(u, Places(e, n, last)) = Elements(h, Places(Other(e), last, full)) \cup {x}
<1> DEFINE o == Other(e)
           P == Places(e, n, last)
           Q == Places(o, last, full)
           z == <<n, e>>
<1>1. /\ last \in Nat /\ full \in Nat /\ n \in Nat /\ n \in Nodes /\ last \in Nodes
      /\ (last = full \/ last = n) /\ n = full + 1 /\ 1 .. n \subseteq Nodes /\ n >= 1
  BY HeapAssumption DEF Shape, Nodes
<1>2. o \in Ends /\ o # e /\ Ends = {e, o}
  BY Order
<1> HIDE DEF o
<1>3. /\ h \in Heaps
      /\ \A j \in 1 .. last : h[j][e] \in Items /\ h[j][o] \in Items
      /\ \A j \in 2 .. last : Outside(e, h[Parent(j)][e], h[j][e])
      /\ \A j \in 2 .. last : Outside(e, h[j][o], h[Parent(j)][o])
      /\ \A j \in 1 .. last : Outside(e, h[j][e], h[j][o])
      /\ full < last => h[last][e] = h[last][o]
  BY DEF InOrder, o
<1>4. /\ u \in Heaps
      /\ u[n][e] = x
      /\ \A k \in Nodes, d \in Ends : ~(k = n /\ d = e) => u[k][d] = h[k][d]
  <2>1. u = [h EXCEPT ![n][e] = x]
    BY DEF WithEnd
  <2> QED
    BY <1>1, <1>3, <2>1 DEF Heaps
<1>5. Climbing(u, n, e, n, last)
  <2>1. \A j \in 2 .. n : Parent(j) \in 1 .. full /\ Parent(j) # n /\ Parent(j) \in 1 .. last
    BY <1>1, Parents
  <2>2. \A j \in 1 .. n : j \in Nodes /\ (j # n => j \in 1 .. last)
    BY <1>1
  <2>3. \A j \in 1 .. n : u[j][e] \in Items
    BY <1>3, <1>4, <2>2
  <2>4. \A j \in 1 .. last : j \in Nodes /\ u[j][o] = h[j][o]
    BY <1>1, <1>2, <1>4
  <2>5. \A j \in 1 .. n : j # n => u[j][e] = h[j][e]
    BY <1>4, <2>2
  <2>6. \A j \in 2 .. n : j # n => Outside(e, u[Parent(j)][e], u[j][e])
    <3> TAKE j \in 2 .. n
    <3> HAVE j # n
    <3>1. j \in 2 .. last /\ j \in 1 .. n /\ Parent(j) \in 1 .. n /\ Parent(j) # n
      BY <1>1, <2>1
    <3> QED
      BY <1>3, <2>5, <3>1
  <2>7. \A j \in 2 .. last : Outside(o, u[Parent(j)][o], u[j][o])
    <3> TAKE j \in 2 .. last
    <3>1. j \in 1 .. last /\ Parent(j) \in 1 .. last
      BY <1>1, <2>1
    <3>2. Outside(e, h[j][o], h[Parent(j)][o]) /\ h[j][o] \in Items /\ h[Parent(j)][o] \in Items
      BY <1>3, <3>1
    <3>3. Outside(o, h[Parent(j)][o], h[j][o])
      BY <3>2, Order DEF o
    <3> QED
      BY <2>4, <3>1, <3>3
  <2>8. \A j \in 1 .. last : Outside(e, u[j][e], u[j][o])
    <3> TAKE j \in 1 .. last
    <3>1. CASE j = n
      <4>1. last = full + 1 /\ last = n
        BY <1>1, <3>1
      <4>2. Outside(e, x, h[n][o])
        BY <4>1 DEF o, Fits
      <4> QED
        BY <1>4, <2>4, <3>1, <4>2
    <3>2. CASE j # n
      <4>1. j \in 1 .. n
        BY <1>1
      <4> QED
        BY <1>3, <2>4, <2>5, <3>2, <4>1
    <3> QED
      BY <3>1, <3>2
  <2>9. last < n => Outside(e, u[n][e], u[Parent(n)][o])
    <3> HAVE last < n
    <3>1. last = full /\ n \in 2 .. n
      BY <1>1
    <3>2. Outside(e, x, h[Parent(n)][o])
      BY <3>1 DEF o, Fits
    <3> QED
      BY <1>4, <2>1, <2>4, <3>1, <3>2
  <2>10. n \in 2 .. last => Outside(e, u[Parent(n)][e], u[n][o])
    <3> HAVE n \in 2 .. last
    <3>1. n = last /\ full < last /\ n \in 2 .. n /\ n \in 1 .. last
      BY <1>1
    <3>2. Outside(e, h[Parent(n)][e], h[n][e]) /\ h[n][e] = h[n][o]
      BY <1>3, <3>1
    <3>3. Parent(n) \in 1 .. n /\ Parent(n) # n
      BY <1>1, <2>1, <3>1
    <3> QED
      BY <2>4, <2>5, <3>1, <3>2, <3>3
  <2>11. \A j \in 2 .. n : Parent(j) # n
    BY <2>1
  <2>12. n \in 1 .. n
    BY <1>1
  <2> QED
    BY <1>4, <2>3, <1>3, <2>4, <2>6, <2>7, <2>8, <2>9, <2>10, <2>11, <2>12 DEF Climbing, o
<1>6. z \notin Q /\ P = Q \cup {z}
  <2>1. z \notin Q
    BY <1>1, <1>2 DEF Places
  <2>2. ASSUME NEW p \in P, p # z PROVE p \in Q
    <3>1. /\ p \in Nodes \X Ends /\ p = <<p[1], p[2]>> /\ p[1] \in Nat /\ p[2] \in Ends
          /\ p[1] <= (IF p[2] = e THEN n ELSE last)
      BY DEF Places, Nodes
    <3>2. p[1] <= IF p[2] = o THEN last ELSE full
      <4>1. CASE p[2] = e
        <5>1. p[1] # n /\ p[1] <= n
          BY <2>2, <3>1, <4>1
        <5> QED
          BY <1>1, <1>2, <3>1, <4>1, <5>1
      <4>2. CASE p[2] = o
        BY <1>2, <3>1, <4>2
      <4> QED
        BY <1>2, <3>1, <4>1, <4>2
    <3> QED
      BY <3>1, <3>2 DEF Places
  <2>3. ASSUME NEW p \in Q PROVE p \in P
    <3>1. /\ p \in Nodes \X Ends /\ p[1] \in Nat /\ p[2] \in Ends
          /\ p[1] <= (IF p[2] = o THEN last ELSE full)
      BY DEF Places, Nodes
    <3>2. p[1] <= IF p[2] = e THEN n ELSE last
      BY <1>1, <1>2, <3>1
    <3> QED
      BY <3>1, <3>2 DEF Places
  <2>4. z \in P
    BY <1>1 DEF Places
  <2> QED
    BY <2>1, <2>2, <2>3, <2>4
<1>7. At(u, z) = x /\ \A p \in Q : At(u, p) = At(h, p)
  <2>1. At(u, z) = x
    BY <1>4 DEF At
  <2>2. ASSUME NEW p \in Q PROVE At(u, p) = At(h, p)
    <3>1. p = <<p[1], p[2]>> /\ p[1] \in Nodes /\ p[2] \in Ends /\ p # z
      BY <1>6 DEF Places
    <3> QED
      BY <1>4, <3>1 DEF At
  <2> QED
    BY <2>1, <2>2
<1>8. \A p \in Q : At(h, p) # x
  BY DEF Elements, o
<1>9. Distinct(h, Q)
  BY DEF o
<1> HIDE DEF P, Q, z
<1>10. Distinct(u, P)
  BY <1>6, <1>7, <1>8, <1>9 DEF Distinct
<1>11. Elements(u, P) = Elements(h, Q) \cup {x}
  <2>1. \A p \in P : At(u, p) \in Elements(h, Q) \cup {x}
    BY <1>6, <1>7 DEF Elements
  <2>2. \A p \in Q : At(h, p) \in Elements(u, P)
    <3> TAKE p \in Q
    <3>1. p \in P /\ At(u, p) = At(h, p)
      BY <1>6, <1>7
    <3> QED
      BY <3>1 DEF Elements
  <2>3. x \in Elements(u, P)
    <3>1. z \in P /\ At(u, z) = x
      BY <1>6, <1>7
    <3> QED
      BY <3>1 DEF Elements
  <2> QED
    BY <2>1, <2>2, <2>3 DEF Elements
<1> QED
  BY <1>5, <1>10, <1>11 DEF P, Q, o

(* It ends with a heap in order; the twin of an odd element counts once.     *)
LEMMA PushEnd ==
    ASSUME NEW e \in Ends, NEW last, NEW full, Room(last, full),
           NEW g, NEW i, Climbing(g, i, e, last, full),
           i = 1 \/ ~Outside(e, g[i][e], g[Parent(i)][e]),
           NEW v, v = IF full < last THEN [g EXCEPT ![last][Other(e)] = g[last][e]] ELSE g
    PROVE  InOrder(v, e, last, full) /\ Rearranged(v, g, Places(e, last, full))
<1> DEFINE o == Other(e)
           P == Places(e, last, full)
<1>1. /\ last \in Nat /\ full \in Nat /\ full >= 1 /\ (full = last \/ full = last - 1) /\ last \in Nodes
      /\ 1 .. last \subseteq Nodes
      /\ \A j \in 2 .. last : j \in 1 .. last /\ Parent(j) \in 1 .. last /\ Parent(j) \in 1 .. full
  <2>1. /\ last \in Nat /\ full \in Nat /\ full >= 1 /\ (full = last \/ full = last - 1) /\ last \in Nodes
        /\ 1 .. last \subseteq Nodes
    BY HeapAssumption DEF Room, Nodes
  <2> QED
    BY <2>1, Parents
<1>2. /\ o \in Ends /\ o # e /\ Ends = {e, o}
      /\ \A x \in Items : Outside(e, x, x)
      /\ \A x, y \in Items : Outside(e, x, y) \/ Outside(e, y, x)
      /\ \A x, y \in Items : Outside(o, x, y) <=> Outside(e, y, x)
  BY Order
<1>3. /\ g \in Heaps /\ i \in 1 .. last
      /\ \A j \in 1 .. last : g[j][e] \in Items
      /\ \A j \in 1 .. full : g[j][o] \in Items
      /\ \A j \in 2 .. last : j # i => Outside(e, g[Parent(j)][e], g[j][e])
      /\ \A j \in 2 .. full : Outside(o, g[Parent(j)][o], g[j][o])
      /\ \A j \in 1 .. full : Outside(e, g[j][e], g[j][o])
      /\ full < last => Outside(e, g[last][e], g[Parent(last)][o])
  BY DEF Climbing
<1> HIDE DEF o
<1>4. \A j \in 2 .. last : Outside(e, g[Parent(j)][e], g[j][e])
  <2> TAKE j \in 2 .. last
  <2>1. CASE j = i
    <3>1. i # 1 /\ g[i][e] \in Items /\ g[Parent(i)][e] \in Items
      BY <1>1, <1>3, <2>1
    <3> QED
      BY <1>2, <2>1, <3>1
  <2>2. CASE j # i
    BY <1>3, <2>2
  <2> QED
    BY <2>1, <2>2
<1>5. /\ v \in Heaps
      /\ \A j \in 1 .. last : v[j][e] = g[j][e]
      /\ \A j \in 1 .. full : v[j][o] = g[j][o]
      /\ full < last => v[last][o] = g[last][e]
      /\ \A p \in P : At(v, p) = At(g, p)
  <2>1. CASE full < last
    <3>1. v = [g EXCEPT ![last][o] = g[last][e]]
      BY <2>1 DEF o
    <3>2. /\ v \in Heaps /\ v[last][o] = g[last][e]
          /\ \A k \in Nodes, d \in Ends : ~(k = last /\ d = o) => v[k][d] = g[k][d]
      <4>1. last \in Nodes /\ o \in Ends /\ g \in [Nodes -> [Ends -> Items \cup {NoItem}]]
        BY <1>1, <1>2, <1>3 DEF Heaps
      <4>2. g[last][e] \in Items \cup {NoItem}
        BY <4>1
      <4> QED
        BY ONLY <3>1, <4>1, <4>2 DEF Heaps
    <3>3. \A j \in 1 .. full : j # last /\ j \in Nodes
      BY <1>1, <2>1
    <3>4. ASSUME NEW p \in P PROVE At(v, p) = At(g, p)
      <4>1. /\ p = <<p[1], p[2]>> /\ p[1] \in Nodes /\ p[2] \in Ends
            /\ p[1] <= (IF p[2] = e THEN last ELSE full)
        BY DEF Places
      <4>2. ~(p[1] = last /\ p[2] = o)
        BY <1>1, <1>2, <2>1, <4>1
      <4> QED
        BY <3>2, <4>1, <4>2 DEF At
    <3>5. \A j \in 1 .. last : v[j][e] = g[j][e]
      BY <1>1, <1>2, <3>2
    <3> HIDE DEF P
    <3> QED
      BY <1>2, <3>2, <3>3, <3>4, <3>5
  <2>2. CASE ~(full < last)
    BY <1>3, <2>2
  <2> QED
    BY <2>1, <2>2
<1>6. \A j \in 1 .. last : v[j][e] \in Items /\ v[j][o] \in Items
  <2> TAKE j \in 1 .. last
  <2>1. CASE j \in 1 .. full
    BY <1>3, <1>5, <2>1
  <2>2. CASE j \notin 1 .. full
    <3>1. j = last /\ full < last
      BY <1>1, <2>2
    <3> QED
      BY <1>3, <1>5, <3>1
  <2> QED
    BY <2>1, <2>2
<1>7. ASSUME NEW j \in 2 .. last
      PROVE  /\ Outside(e, v[Parent(j)][e], v[j][e])
             /\ Outside(e, v[j][o], v[Parent(j)][o])
  <2>1. Outside(e, v[Parent(j)][e], v[j][e])
    BY <1>1, <1>4, <1>5
  <2>2. CASE j \in 2 .. full
    <3>1. j \in 1 .. full /\ Parent(j) \in 1 .. full
      BY <1>1, <2>2
    <3> QED
      BY <1>2, <1>3, <1>5, <2>1, <2>2, <3>1
  <2>3. CASE j \notin 2 .. full
    <3>1. j = last /\ full < last /\ Parent(j) \in 1 .. full
      BY <1>1, <2>3
    <3> QED
      BY <1>3, <1>5, <2>1, <3>1
  <2> QED
    BY <2>2, <2>3
<1>8. ASSUME NEW j \in 1 .. last
      PROVE  Outside(e, v[j][e], v[j][o])
  <2>1. CASE j \in 1 .. full
    BY <1>3, <1>5, <2>1
  <2>2. CASE j \notin 1 .. full
    <3>1. j = last /\ full < last
      BY <1>1, <2>2
    <3> QED
      BY <1>2, <1>3, <1>5, <3>1
  <2> QED
    BY <2>1, <2>2
<1>9. full < last => v[last][e] = v[last][o]
  BY <1>1, <1>5
<1>10. InOrder(v, e, last, full)
  BY <1>5, <1>6, <1>7, <1>8, <1>9 DEF InOrder, o
<1>11. Rearranged(v, g, P)
  <2> HIDE DEF P
  <2> QED
    BY <1>5 DEF Rearranged, Elements, Distinct
<1> QED
  BY <1>10, <1>11

-----------------------------------------------------------------------------

(* pop_min() and pop_max() start with the last element at the root.          *)
LEMMA PopStart ==
    ASSUME NEW last, NEW full, Shape(last, full), last >= 2,
           NEW h, NEW e \in Ends, InOrder(h, e, last, full), Distinct(h, Places(e, last, full)),
           NEW k, k = IF full < last THEN h ELSE WithEnd(h, last, e, h[last][Other(e)]),
           NEW u, u = WithEnd(k, 1, e, h[last][e]), NEW n, n = last - 1
    PROVE  /\ Sinking(u, 1, e, full, n)
           /\ Distinct(u, Places(Other(e), full, n))
           /\ Elements(u, Places(Other(e), full, n)) = Elements(h, Places(e, last, full)) \ {h[1][e]}
<1> DEFINE o == Other(e)
           P == Places(o, full, n)
           Q == Places(e, last, full)
           z == <<last, e>>
           r == <<1, e>>
<1>1. /\ last \in Nat /\ full \in Nat /\ n \in Nat /\ last \in Nodes /\ 1 \in Nodes /\ full >= 1
      /\ n >= 1 /\ (last = full \/ last = full + 1) /\ last = n + 1 /\ 1 .. last \subseteq Nodes
  BY HeapAssumption DEF Shape, Nodes
<1>2. /\ o \in Ends /\ o # e /\ Ends = {e, o}
      /\ \A x \in Items : Outside(e, x, x)
      /\ \A x, w, y \in Items : Outside(e, x, w) /\ Outside(e, w, y) => Outside(e, x, y)
  BY Order
<1>3. /\ h \in Heaps
      /\ \A j \in 1 .. last : h[j][e] \in Items /\ h[j][o] \in Items
      /\ \A j \in 2 .. last : Outside(e, h[Parent(j)][e], h[j][e])
      /\ \A j \in 2 .. last : Outside(e, h[j][o], h[Parent(j)][o])
      /\ \A j \in 1 .. last : Outside(e, h[j][e], h[j][o])
      /\ full < last => h[last][e] = h[last][o]
  BY DEF InOrder
<1>4. \A j \in 1 .. last : Outside(e, h[j][o], h[1][o])
  BY RootFirst
<1>5. k = IF full < last THEN h ELSE [h EXCEPT ![last][e] = h[last][o]]
  BY DEF WithEnd
<1> HIDE DEF o
<1>6. /\ k \in Heaps
      /\ full = last => k[last][e] = h[last][o]
      /\ \A j \in Nodes, d \in Ends : ~(j = last /\ d = e) => k[j][d] = h[j][d]
  <2>1. CASE full < last
    BY <1>1, <1>3, <1>5, <2>1
  <2>2. CASE ~(full < last)
    <3>1. last \in Nodes /\ e \in Ends /\ h \in [Nodes -> [Ends -> Items \cup {NoItem}]]
      BY <1>1, <1>3 DEF Heaps
    <3>2. h[last][o] \in Items \cup {NoItem}
      BY <1>2, <3>1
    <3>3. k = [h EXCEPT ![last][e] = h[last][o]]
      BY <1>5, <2>2
    <3> QED
      BY ONLY <3>1, <3>2, <3>3 DEF Heaps
  <2> QED
    BY <2>1, <2>2
<1>7. /\ u \in Heaps
      /\ u[1][e] = h[last][e]
      /\ \A j \in Nodes, d \in Ends : ~(j = 1 /\ d = e) => u[j][d] = k[j][d]
  <2>1. 1 \in Nodes /\ e \in Ends /\ k \in [Nodes -> [Ends -> Items \cup {NoItem}]]
    BY <1>1, <1>6 DEF Heaps
  <2>2. h[last][e] \in Items \cup {NoItem}
    BY <1>1, <1>3
  <2>3. u = [k EXCEPT ![1][e] = h[last][e]]
    BY DEF WithEnd
  <2> QED
    BY ONLY <2>1, <2>2, <2>3 DEF Heaps
<1>8. /\ \A j \in 1 .. last : j \in Nodes /\ u[j][o] = h[j][o]
      /\ \A j \in 1 .. last : j # 1 /\ j # last => u[j][e] = h[j][e]
      /\ full = last => u[last][e] = h[last][o]
  <2>1. \A j \in 1 .. last : j \in Nodes /\ u[j][o] = h[j][o]
    BY <1>1, <1>2, <1>6, <1>7
  <2>2. \A j \in 1 .. last : j # 1 /\ j # last => u[j][e] = h[j][e]
    BY <1>1, <1>6, <1>7
  <2>3. full = last => u[last][e] = h[last][o]
    BY <1>1, <1>6, <1>7
  <2> QED
    BY <2>1, <2>2, <2>3
<1>9. Sinking(u, 1, e, full, n)
  <2>1. \A j \in 1 .. full : j \in 1 .. last /\ (j = last => full = last)
    BY <1>1
  <2>2. \A j \in 2 .. full :
            /\ j \in 2 .. last /\ j \in 1 .. last /\ j # 1
            /\ Parent(j) \in 1 .. last /\ Parent(j) # last
    BY <1>1, Parents
  <2>3. h[last][e] \in Items /\ h[last][o] \in Items
    BY <1>1, <1>3
  <2>4. ASSUME NEW j \in 1 .. full
        PROVE  u[j][e] \in Items /\ u[j][o] \in Items
    <3>1. CASE j = 1
      BY <1>3, <1>7, <1>8, <2>1, <2>3, <3>1
    <3>2. CASE j # 1 /\ j = last
      BY <1>3, <1>8, <2>1, <2>3, <3>2
    <3>3. CASE j # 1 /\ j # last
      BY <1>3, <1>8, <2>1, <3>3
    <3> QED
      BY <3>1, <3>2, <3>3
  <2>5. ASSUME NEW j \in 2 .. full, Parent(j) # 1
        PROVE  Outside(e, u[Parent(j)][e], u[j][e])
    <3>1. u[Parent(j)][e] = h[Parent(j)][e] /\ h[Parent(j)][e] \in Items
      BY <1>3, <1>8, <2>2, <2>5
    <3>2. CASE j = last
      <4>1. full = last
        BY <1>1, <3>2
      <4>2. u[j][e] = h[j][o] /\ Outside(e, h[j][e], h[j][o]) /\ h[j][e] \in Items /\ h[j][o] \in Items
        BY <1>3, <1>8, <2>2, <3>2, <4>1
      <4>3. Outside(e, h[Parent(j)][e], h[j][e])
        BY <1>3, <2>2
      <4> QED
        BY <1>2, <3>1, <4>2, <4>3
    <3>3. CASE j # last
      BY <1>3, <1>8, <2>2, <3>1, <3>3
    <3> QED
      BY <3>2, <3>3
  <2>6. ASSUME NEW j \in 2 .. full
        PROVE  Outside(e, u[j][o], u[Parent(j)][o])
    BY <1>3, <1>8, <2>2
  <2>7. ASSUME NEW j \in 1 .. full
        PROVE  Outside(e, u[j][e], u[j][o])
    <3>1. CASE j = 1
      <4>1. Outside(e, h[last][e], h[last][o]) /\ Outside(e, h[last][o], h[1][o])
        BY <1>1, <1>3, <1>4
      <4>2. u[j][e] = h[last][e] /\ u[j][o] = h[1][o] /\ h[1][o] \in Items
        BY <1>3, <1>7, <1>8, <2>1, <3>1
      <4> QED
        BY <1>2, <2>3, <4>1, <4>2
    <3>2. CASE j # 1 /\ j = last
      BY <1>2, <1>8, <2>1, <2>3, <3>2
    <3>3. CASE j # 1 /\ j # last
      BY <1>3, <1>8, <2>1, <3>3
    <3> QED
      BY <3>1, <3>2, <3>3
  <2>8. n < full => u[full][e] = u[full][o] /\ Outside(e, u[1][e], u[full][e])
    <3> HAVE n < full
    <3>1. full = last /\ last \in 1 .. last
      BY <1>1
    <3> QED
      BY <1>3, <1>7, <1>8, <3>1
  <2>9. 1 \in 1 .. n /\ ~(1 > 1)
    BY <1>1
  <2> QED
    BY <1>7, <2>4, <2>5, <2>6, <2>7, <2>8, <2>9 DEF Sinking, o
<1>10. z \notin P /\ Q = P \cup {z} /\ r \in P
  <2>1. z \notin P
    BY <1>1, <1>2 DEF Places
  <2>2. ASSUME NEW p \in Q, p # z PROVE p \in P
    <3>1. /\ p \in Nodes \X Ends /\ p = <<p[1], p[2]>> /\ p[1] \in Nat /\ p[2] \in Ends
          /\ p[1] <= (IF p[2] = e THEN last ELSE full)
      BY DEF Places, Nodes
    <3>2. p[1] <= IF p[2] = o THEN full ELSE n
      <4>1. CASE p[2] = e
        <5>1. p[1] # last /\ p[1] <= last
          BY <2>2, <3>1, <4>1
        <5> QED
          BY <1>1, <1>2, <3>1, <4>1, <5>1
      <4>2. CASE p[2] = o
        BY <1>2, <3>1, <4>2
      <4> QED
        BY <1>2, <3>1, <4>1, <4>2
    <3> QED
      BY <3>1, <3>2 DEF Places
  <2>3. ASSUME NEW p \in P PROVE p \in Q
    <3>1. /\ p \in Nodes \X Ends /\ p[1] \in Nat /\ p[2] \in Ends
          /\ p[1] <= (IF p[2] = o THEN full ELSE n)
      BY DEF Places, Nodes
    <3>2. p[1] <= IF p[2] = e THEN last ELSE full
      BY <1>1, <1>2, <3>1
    <3> QED
      BY <3>1, <3>2 DEF Places
  <2>4. z \in Q
    BY <1>1 DEF Places
  <2>5. r \in P
    BY <1>1, <1>2 DEF Places
  <2> QED
    BY <2>1, <2>2, <2>3, <2>4, <2>5
<1>11. /\ At(u, r) = At(h, z) /\ At(h, r) = h[1][e]
       /\ \A p \in P : p # r => At(u, p) = At(h, p)
  <2>1. At(u, r) = At(h, z) /\ At(h, r) = h[1][e]
    BY <1>7 DEF At
  <2>2. ASSUME NEW p \in P, p # r PROVE At(u, p) = At(h, p)
    <3>1. p = <<p[1], p[2]>> /\ p[1] \in Nodes /\ p[2] \in Ends /\ p # z
      BY <1>10 DEF Places
    <3>2. ~(p[1] = last /\ p[2] = e) /\ ~(p[1] = 1 /\ p[2] = e)
      BY <2>2, <3>1
    <3> QED
      BY <1>6, <1>7, <3>1, <3>2 DEF At
  <2> QED
    BY <2>1, <2>2
<1>12. Distinct(h, Q)
  OBVIOUS
<1> HIDE DEF P, Q, z, r
<1>13. Distinct(u, P)
  BY <1>10, <1>11, <1>12 DEF Distinct
<1>14. Elements(u, P) = Elements(h, Q) \ {h[1][e]}
  <2>1. ASSUME NEW p \in P PROVE At(u, p) \in Elements(h, Q) \ {h[1][e]}
    <3>1. CASE p = r
      <4>1. z \in Q /\ r \in Q /\ z # r /\ At(u, p) = At(h, z)
        BY <1>10, <1>11, <3>1
      <4> QED
        BY <1>11, <1>12, <4>1 DEF Distinct, Elements
    <3>2. CASE p # r
      <4>1. p \in Q /\ r \in Q /\ At(u, p) = At(h, p)
        BY <1>10, <1>11, <3>2
      <4> QED
        BY <1>11, <1>12, <3>2, <4>1 DEF Distinct, Elements
    <3> QED
      BY <3>1, <3>2
  <2>2. ASSUME NEW q \in Q, At(h, q) # h[1][e] PROVE At(h, q) \in Elements(u, P)
    <3>1. CASE q = z
      <4>1. r \in P /\ At(u, r) = At(h, q)
        BY <1>10, <1>11, <3>1
      <4> QED
        BY <4>1 DEF Elements
    <3>2. CASE q # z
      <4>1. q \in P /\ q # r
        BY <1>10, <1>11, <2>2, <3>2
      <4>2. At(u, q) = At(h, q)
        BY <1>11, <4>1
      <4> QED
        BY <4>1, <4>2 DEF Elements
    <3> QED
      BY <3>1, <3>2
  <2> QED
    BY <2>1, <2>2 DEF Elements
<1> QED
  BY <1>9, <1>13, <1>14 DEF P, Q, o

(* They end with a heap in order.                                            *)
LEMMA PopEnd ==
    ASSUME NEW e \in Ends, NEW last, NEW full, Room(last, full),
           NEW g, NEW i, Sinking(g, i, e, last, full),
           2 * i <= last => Outside(e, g[i][e], g[Child([heap |-> g, at |-> i], e, last)][e])
    PROVE  InOrder(g, e, last, full)
<1> DEFINE c == Child([heap |-> g, at |-> i], e, last)
<1>1. /\ last \in Nat /\ full \in Nat /\ full <= last /\ i \in 1 .. full /\ i \in 1 .. last /\ i \in Nat
      /\ \A j \in 2 .. last : j \in 1 .. last
  BY HeapAssumption DEF Room, Sinking, Nodes
<1>2. ASSUME NEW j \in 2 .. last
      PROVE  Outside(e, g[Parent(j)][e], g[j][e])
  <2>1. CASE Parent(j) = i
    <3>1. 2 * i <= last
      BY <1>1, <2>1, Parents
    <3>2. /\ c \in 2 .. last
          /\ \A m \in 2 .. last : Parent(m) = i => Outside(e, g[c][e], g[m][e])
      BY <3>1, ChildFirst
    <3>3. Outside(e, g[i][e], g[c][e])
      BY <3>1
    <3> HIDE DEF c
    <3>4. g[i][e] \in Items /\ g[c][e] \in Items /\ g[j][e] \in Items
      BY <1>1, <3>2 DEF Sinking
    <3>5. \A x, y, z \in Items : Outside(e, x, y) /\ Outside(e, y, z) => Outside(e, x, z)
      BY Order
    <3> QED
      BY <2>1, <3>2, <3>3, <3>4, <3>5
  <2>2. CASE Parent(j) # i
    BY <2>2 DEF Sinking
  <2> QED
    BY <2>1, <2>2
<1> QED
  BY <1>2 DEF Sinking, InOrder

-----------------------------------------------------------------------------

\* The elements are n, in the nodes that n elements take.
HeapOf(h, n) ==
    /\ Shape(LastNode(n), n \div 2)
    /\ InOrder(h, "left", LastNode(n), n \div 2)
    /\ Distinct(h, Places("left", LastNode(n), n \div 2))

ElementsOf(h, n) == Elements(h, Places("left", LastNode(n), n \div 2))

(* The number of nodes and of full nodes, and those of one element more.     *)
LEMMA Halves ==
    ASSUME NEW n \in Nat
    PROVE  /\ LastNode(n) \in Nat /\ n \div 2 \in Nat
           /\ LastNode(n) = n \div 2 \/ LastNode(n) = n \div 2 + 1
           /\ n % 2 = 1 <=> LastNode(n) = n \div 2 + 1
           /\ n % 2 = 0 <=> LastNode(n) = n \div 2
           /\ LastNode(n + 1) = n \div 2 + 1 /\ (n + 1) \div 2 = LastNode(n)
           /\ n >= 1 => LastNode(n) >= 1
           /\ n >= 3 => LastNode(n) >= 2
           /\ n = 0 => LastNode(n) = 0
           /\ n = 1 => LastNode(n) = 1
           /\ n = 2 => LastNode(n) = 1
BY DEF LastNode

(* A heap of n elements, seen from either end.                               *)
LEMMA HeapOfEnds ==
    ASSUME NEW n \in Nat, NEW h, NEW e \in Ends,
           Shape(LastNode(n), n \div 2)
    PROVE  /\ HeapOf(h, n) <=> /\ InOrder(h, e, LastNode(n), n \div 2)
                               /\ Distinct(h, Places(e, LastNode(n), n \div 2))
           /\ HeapOf(h, n) => ElementsOf(h, n) = Elements(h, Places(e, LastNode(n), n \div 2))
<1> DEFINE last == LastNode(n)
           full == n \div 2
<1>1. "left" \in Ends /\ "right" \in Ends /\ (e = "left" \/ e = "right")
      /\ Other("left") = "right" /\ Other("right") = "left"
  BY DEF Ends, Other
<1> HIDE DEF last, full
<1>2. CASE e = "left"
  BY <1>2 DEF HeapOf, ElementsOf, last, full
<1>3. CASE e = "right"
  <2>1. Shape(last, full)
    BY DEF last, full
  <2>2. ASSUME InOrder(h, "left", last, full), Distinct(h, Places("left", last, full))
        PROVE  /\ InOrder(h, "right", last, full) /\ Distinct(h, Places("right", last, full))
               /\ Elements(h, Places("right", last, full)) = Elements(h, Places("left", last, full))
    BY <1>1, <2>1, <2>2, BothEnds
  <2>3. ASSUME InOrder(h, "right", last, full), Distinct(h, Places("right", last, full))
        PROVE  InOrder(h, "left", last, full) /\ Distinct(h, Places("left", last, full))
    BY <1>1, <2>1, <2>3, BothEnds
  <2> QED
    BY <1>3, <2>1, <2>2, <2>3 DEF HeapOf, ElementsOf, last, full
<1> QED
  BY <1>1, <1>2, <1>3

(* What is in the heap is what stands at its places.                         *)
LEMMA HeldElements ==
    ASSUME NEW h, NEW n \in Nat, Shape(LastNode(n), n \div 2)
    PROVE  {h[i]["left"] : i \in 1 .. LastNode(n)} \cup {h[i]["right"] : i \in 1 .. n \div 2} = ElementsOf(h, n)
<1> DEFINE There == {h[i]["left"] : i \in 1 .. LastNode(n)} \cup {h[i]["right"] : i \in 1 .. n \div 2}
           last == LastNode(n)
           full == n \div 2
           P == Places("left", last, full)
<1>1. /\ last \in Nat /\ full \in Nat /\ last <= MaxNodes /\ full <= last /\ MaxNodes \in Nat
      /\ "left" \in Ends /\ "right" \in Ends
  BY HeapAssumption DEF Shape, Ends
<1>2. There = {h[i]["left"] : i \in 1 .. last} \cup {h[i]["right"] : i \in 1 .. full}
  OBVIOUS
<1> HIDE DEF last, full
<1>3. ASSUME NEW p \in P PROVE At(h, p) \in There
  <2>1. /\ p \in Nodes \X Ends /\ p[1] \in 1 .. MaxNodes /\ (p[2] = "left" \/ p[2] = "right")
        /\ p[1] <= (IF p[2] = "left" THEN last ELSE full)
    BY DEF Places, Nodes, Ends
  <2>2. CASE p[2] = "left"
    <3>1. p[1] \in 1 .. last
      BY <1>1, <2>1, <2>2
    <3> QED
      BY <1>2, <2>2, <3>1 DEF At
  <2>3. CASE p[2] = "right"
    <3>1. p[1] \in 1 .. full
      BY <1>1, <2>1, <2>3
    <3> QED
      BY <1>2, <2>3, <3>1 DEF At
  <2> QED
    BY <2>1, <2>2, <2>3
<1>4. ASSUME NEW i \in 1 .. last PROVE h[i]["left"] \in Elements(h, P)
  <2> DEFINE p == <<i, "left">>
  <2>1. p \in P /\ At(h, p) = h[i]["left"]
    BY <1>1 DEF Places, Nodes, At
  <2> HIDE DEF p, P
  <2> QED
    BY <2>1 DEF Elements
<1>5. ASSUME NEW i \in 1 .. full PROVE h[i]["right"] \in Elements(h, P)
  <2> DEFINE p == <<i, "right">>
  <2>1. p \in P /\ At(h, p) = h[i]["right"]
    BY <1>1 DEF Places, Nodes, At
  <2> HIDE DEF p, P
  <2> QED
    BY <2>1 DEF Elements
<1> HIDE DEF P
<1>6. There = Elements(h, P)
  <2>1. There \subseteq Elements(h, P)
    BY <1>2, <1>4, <1>5
  <2>2. Elements(h, P) \subseteq There
    BY <1>3 DEF Elements
  <2> QED
    BY <2>1, <2>2
<1> QED
  BY <1>6 DEF ElementsOf, P, last, full

(* push() adds the element and nothing else.                                 *)
LEMMA PushedHeap ==
    ASSUME size \in Nat, HeapOf(heap, size), LastNode(size + 1) <= MaxNodes,
           NEW x \in Items, x \notin ElementsOf(heap, size)
    PROVE  /\ HeapOf(Pushed(x), size + 1)
           /\ ElementsOf(Pushed(x), size + 1) = ElementsOf(heap, size) \cup {x}
<1> DEFINE last == LastNode(size)
           full == size \div 2
           n == full + 1
           e == EndFor(x)
           o == Other(e)
           u == [heap EXCEPT ![n][e] = x]
           g == Climbed(u, n, e)
           v == IF last < n THEN [g EXCEPT ![n][o] = g[n][e]] ELSE g
           P == Places(e, n, last)
<1>1. /\ last \in Nat /\ full \in Nat /\ (last = full \/ last = full + 1)
      /\ size % 2 = 1 <=> last = full + 1
      /\ size % 2 = 0 <=> last = full
      /\ LastNode(size + 1) = n /\ (size + 1) \div 2 = last
      /\ size >= 1 => last >= 1
      /\ size = 0 => last = 0
  BY Halves
<1>2. Shape(last, full) /\ InOrder(heap, "left", last, full) /\ Distinct(heap, Places("left", last, full))
  BY DEF HeapOf
<1>3. Shape(n, last) /\ n <= MaxNodes /\ n \in Nodes /\ MaxNodes \in Nat
  BY <1>1, HeapAssumption DEF Shape, Nodes
<1>4. CASE size = 0
  <2> DEFINE w == Pushed(x)
  <2>1. /\ last = 0 /\ full = 0 /\ n = 1 /\ 1 \in Nodes /\ "left" \in Ends /\ "right" \in Ends
        /\ Other("left") = "right"
    BY <1>1, <1>3, <1>4 DEF Ends, Other
  <2>2. w = [heap EXCEPT ![1] = [f \in Ends |-> x]]
    BY <1>4 DEF Pushed
  <2>3. w \in Heaps /\ w[1]["left"] = x /\ w[1]["right"] = x
    BY <1>2, <2>1, <2>2 DEF InOrder, Heaps
  <2> HIDE DEF w
  <2>4. Places("left", 1, 0) = {<<1, "left">>} /\ Places("left", 0, 0) = {}
    BY <2>1 DEF Places, Nodes, Ends
  <2>5. Outside("left", x, x)
    BY <2>1, Order
  <2>6. InOrder(w, "left", 1, 0)
    BY <2>1, <2>3, <2>5 DEF InOrder
  <2>7. Distinct(w, Places("left", 1, 0))
    BY <2>4 DEF Distinct
  <2>8. Elements(w, Places("left", 1, 0)) = {x} /\ Elements(heap, Places("left", 0, 0)) = {}
    <3>1. At(w, <<1, "left">>) = x
      BY <2>3 DEF At
    <3> QED
      BY <2>4, <3>1 DEF Elements
  <2>9. LastNode(size + 1) = 1 /\ (size + 1) \div 2 = 0 /\ LastNode(size) = 0 /\ size \div 2 = 0
    BY <1>1, <2>1
  <2>10. Shape(1, 0)
    BY <1>3, <2>1
  <2> QED
    BY <2>6, <2>7, <2>8, <2>9, <2>10 DEF HeapOf, ElementsOf, w
<1>5. CASE size # 0
  <2>1. /\ last >= 1 /\ n >= 1 /\ e \in Ends /\ "left" \in Ends /\ "right" \in Ends
        /\ Other("left") = "right" /\ Other("right") = "left" /\ (e = "left" \/ e = "right") /\ o \in Ends
        /\ Other(o) = e
    BY <1>1, <1>5 DEF EndFor, Ends, Other
  <2>2. Room(n, last)
    BY <1>1, <1>3, <2>1 DEF Room
  <2>3. Pushed(x) = v
    <3>1. size % 2 = 0 <=> last < n
      BY <1>1
    <3>2. LastNode(size + 1) = n
      BY <1>1
    <3> HIDE DEF e, n, last
    <3> QED
      BY <1>5, <3>1, <3>2 DEF Pushed, e
  <2>4. /\ \A j \in 1 .. last : heap[j]["left"] \in Items /\ heap[j]["right"] \in Items
        /\ \A j \in 1 .. last : Outside("left", heap[j]["left"], heap[j]["right"])
        /\ full < last => heap[last]["left"] = heap[last]["right"]
    BY <1>2, <2>1 DEF InOrder
  <2>5. /\ \A a, b, c \in Items : Outside("left", a, b) /\ Outside("left", b, c) => Outside("left", a, c)
        /\ \A a, b \in Items : Outside("left", a, b) \/ Outside("left", b, a)
        /\ \A a, b \in Items : Outside("right", a, b) <=> Outside("left", b, a)
        /\ \A a, b \in Items : Beyond("left", a, b) <=> ~Outside("left", b, a)
    BY <2>1, Order
  <2>6. last = n => Outside(e, x, heap[last][o])
    <3> HAVE last = n
    <3>1. last \in 1 .. last /\ full < last /\ size % 2 = 1 /\ size % 2 # 0
      BY <1>1, <2>1
    <3>2. heap[last]["left"] \in Items /\ heap[last]["right"] = heap[last]["left"]
      BY <2>4, <3>1
    <3>3. e = IF Beyond("left", x, heap[last]["left"]) THEN "left" ELSE "right"
      BY <3>1 DEF EndFor
    <3> HIDE DEF e, last, full
    <3> QED
      BY <2>1, <2>5, <3>2, <3>3
  <2>7. last = full => Outside(e, x, heap[Parent(n)][o])
    <3> HAVE last = full
    <3>1. Parent(n) \in 1 .. last /\ size % 2 = 0 /\ size % 2 # 1
      BY <1>1, <2>1, Parents
    <3>2. heap[Parent(n)]["left"] \in Items /\ heap[Parent(n)]["right"] \in Items
          /\ Outside("left", heap[Parent(n)]["left"], heap[Parent(n)]["right"])
      BY <2>4, <3>1
    <3>3. e = IF Outside("left", x, heap[Parent(n)]["left"]) THEN "left" ELSE "right"
      BY <1>1, <3>1 DEF EndFor
    <3> HIDE DEF e, last, full, n
    <3> QED
      BY <2>1, <2>5, <3>2, <3>3
  <2>8. /\ InOrder(heap, e, last, full) /\ Distinct(heap, Places(o, last, full))
        /\ Elements(heap, Places(o, last, full)) = ElementsOf(heap, size)
    BY <1>2, <2>1, HeapOfEnds
  <2> HIDE DEF e
  <2>9. /\ Climbing(u, n, e, n, last)
        /\ Distinct(u, P)
        /\ Elements(u, P) = ElementsOf(heap, size) \cup {x}
    <3>2. Shape(last, full)
      BY <1>2
    <3>3. last >= 1 /\ n = full + 1 /\ n <= MaxNodes
      BY <1>3, <2>1
    <3>4. InOrder(heap, e, last, full)
      BY <2>8
    <3>5. Distinct(heap, Places(Other(e), last, full))
      BY <2>8
    <3>6. x \notin Elements(heap, Places(Other(e), last, full))
      BY <2>8
    <3>7. Fits(heap, e, x, last, n)
      BY <1>1, <2>6, <2>7 DEF Fits
    <3>8. u = WithEnd(heap, n, e, x)
      BY DEF WithEnd
    <3>9. e \in Ends
      BY <2>1
    <3> HIDE DEF last, full, u, n
    <3>10. /\ Climbing(u, n, e, n, last)
           /\ Distinct(u, Places(e, n, last))
           /\ Elements(u, Places(e, n, last)) = Elements(heap, Places(Other(e), last, full)) \cup {x}
      BY <3>2, <3>3, <3>4, <3>5, <3>6, <3>7, <3>8, <3>9, PushStart
    <3> QED
      BY <2>8, <3>10
  <2> HIDE DEF u
  <2>10. PICK i \in 1 .. n :
              /\ Climbing(g, i, e, n, last)
              /\ i = 1 \/ ~Outside(e, g[i][e], g[Parent(i)][e])
              /\ Elements(g, P) = Elements(u, P)
              /\ Distinct(g, P)
    <3> HIDE DEF n, last
    <3> QED
      BY <2>1, <2>2, <2>9, ClimbedRests
  <2> HIDE DEF g
  <2>11. InOrder(v, e, n, last) /\ Rearranged(v, g, P)
    <3> HIDE DEF n, last
    <3> QED
      BY <2>1, <2>2, <2>10, PushEnd
  <2> HIDE DEF v
  <2>12. InOrder(v, e, n, last) /\ Distinct(v, P) /\ Elements(v, P) = ElementsOf(heap, size) \cup {x}
    BY <2>9, <2>10, <2>11 DEF Rearranged
  <2>13. HeapOf(v, size + 1) /\ ElementsOf(v, size + 1) = Elements(v, P)
    <3>1. Shape(LastNode(size + 1), (size + 1) \div 2) /\ size + 1 \in Nat
      BY <1>1, <1>3
    <3>2. /\ InOrder(v, e, LastNode(size + 1), (size + 1) \div 2)
          /\ Distinct(v, Places(e, LastNode(size + 1), (size + 1) \div 2))
      BY <1>1, <2>12
    <3>3. /\ HeapOf(v, size + 1)
          /\ ElementsOf(v, size + 1) = Elements(v, Places(e, LastNode(size + 1), (size + 1) \div 2))
      BY <2>1, <3>1, <3>2, HeapOfEnds
    <3> QED
      BY <1>1, <3>3
  <2> QED
    BY <2>3, <2>12, <2>13
<1> QED
  BY <1>4, <1>5

(* Both ends of the root are elements, and beyond every other one.           *)
LEMMA RootShown ==
    ASSUME size \in Nat, size > 0, HeapOf(heap, size), NEW e \in Ends
    PROVE  /\ heap[1][e] \in Items
           /\ heap[1][e] \in ElementsOf(heap, size)
           /\ \A y \in ElementsOf(heap, size) : y \in Items /\ Outside(e, heap[1][e], y)
<1> DEFINE last == LastNode(size)
           full == size \div 2
           o == Other(e)
           P == Places(e, last, full)
<1>1. last \in Nat /\ full \in Nat /\ full <= last /\ last >= 1 /\ Shape(last, full) /\ 1 \in Nodes
  <2>1. last \in Nat /\ full \in Nat /\ (last = full \/ last = full + 1) /\ last >= 1
    BY Halves
  <2>2. Shape(last, full)
    BY DEF HeapOf
  <2>3. 1 \in Nodes
    BY HeapAssumption DEF Nodes
  <2> QED
    BY <2>1, <2>2, <2>3
<1>2. /\ InOrder(heap, e, last, full)
      /\ ElementsOf(heap, size) = Elements(heap, P)
  BY <1>1, HeapOfEnds
<1>3. /\ o \in Ends /\ o # e /\ Ends = {e, o}
      /\ \A x, y, z \in Items : Outside(e, x, y) /\ Outside(e, y, z) => Outside(e, x, z)
  BY Order
<1> HIDE DEF last, full
<1>4. /\ \A j \in 1 .. last : heap[j][e] \in Items /\ heap[j][o] \in Items
      /\ \A j \in 1 .. last : Outside(e, heap[j][e], heap[j][o])
  BY <1>2 DEF InOrder
<1>5. \A j \in 1 .. last : Outside(e, heap[1][e], heap[j][e])
  BY <1>1, <1>2, RootFirst
<1> HIDE DEF o
<1>6. 1 \in 1 .. last
  BY <1>1
<1>7. heap[1][e] \in Elements(heap, P)
  <2> DEFINE r == <<1, e>>
  <2>1. r \in P /\ At(heap, r) = heap[1][e]
    BY <1>1 DEF Places, At
  <2> HIDE DEF r, P
  <2> QED
    BY <2>1 DEF Elements
<1>8. ASSUME NEW p \in P
      PROVE  At(heap, p) \in Items /\ Outside(e, heap[1][e], At(heap, p))
  <2>1. /\ p[1] \in Nat /\ p[1] >= 1 /\ p[1] <= last /\ (p[2] = e \/ p[2] = o)
    BY <1>1, <1>3 DEF Places, Nodes
  <2>2. p[1] \in 1 .. last
    BY <1>1, <2>1
  <2>3. CASE p[2] = e
    BY <1>4, <1>5, <2>2, <2>3 DEF At
  <2>4. CASE p[2] = o
    <3>1. At(heap, p) = heap[p[1]][o]
      BY <2>4 DEF At
    <3>2. /\ heap[1][e] \in Items /\ heap[p[1]][e] \in Items /\ heap[p[1]][o] \in Items
          /\ Outside(e, heap[1][e], heap[p[1]][e]) /\ Outside(e, heap[p[1]][e], heap[p[1]][o])
      BY <1>4, <1>5, <1>6, <2>2
    <3> QED
      BY <1>3, <3>1, <3>2
  <2> QED
    BY <2>1, <2>3, <2>4
<1> HIDE DEF P
<1>9. \A y \in Elements(heap, P) : y \in Items /\ Outside(e, heap[1][e], y)
  BY <1>8 DEF Elements
<1> QED
  BY <1>2, <1>4, <1>6, <1>7, <1>9

(* pop_min() and pop_max() remove the element at their end of the root, and  *)
(* nothing else.                                                             *)
LEMMA PoppedHeap ==
    ASSUME size \in Nat, size > 0, HeapOf(heap, size), NEW e \in Ends
    PROVE  /\ HeapOf(Popped(e), size - 1)
           /\ ElementsOf(Popped(e), size - 1) = ElementsOf(heap, size) \ {heap[1][e]}
<1> DEFINE m == size - 1
           last == LastNode(size)
           full == size \div 2
           n == last - 1
           o == Other(e)
           k == IF full < last THEN heap ELSE WithEnd(heap, last, e, heap[last][o])
           u == WithEnd(k, 1, e, heap[last][e])
           g == Sunk(u, full, e)
           P == Places(o, full, n)
<1>1. m \in Nat /\ size = m + 1
  OBVIOUS
<1>2. /\ LastNode(m) \in Nat /\ m \div 2 \in Nat
      /\ LastNode(m + 1) = m \div 2 + 1 /\ (m + 1) \div 2 = LastNode(m)
      /\ LastNode(m) = m \div 2 \/ LastNode(m) = m \div 2 + 1
      /\ m = 0 => LastNode(m) = 0
      /\ m = 1 => LastNode(m) = 1
  BY <1>1, Halves
<1>3. /\ LastNode(m) = full /\ m \div 2 = n /\ last \in Nat /\ full \in Nat /\ n \in Nat /\ last = n + 1
      /\ (last = full \/ last = full + 1)
  BY <1>1, <1>2
<1>4. /\ size % 2 = 1 <=> full < last
      /\ m > 1 => last >= 2
      /\ m = 0 => last = 1 /\ full = 0
      /\ m = 1 => last = 1 /\ full = 1
  <2>1. /\ size % 2 = 1 <=> last = full + 1
        /\ size >= 3 => last >= 2
    BY Halves
  <2> QED
    BY <1>1, <1>2, <1>3, <2>1
<1>5. /\ Shape(last, full) /\ InOrder(heap, e, last, full) /\ Distinct(heap, Places(e, last, full))
      /\ ElementsOf(heap, size) = Elements(heap, Places(e, last, full))
  <2>1. Shape(last, full)
    BY DEF HeapOf
  <2> QED
    BY <2>1, HeapOfEnds
<1>6. Shape(full, n) /\ Shape(LastNode(m), m \div 2) /\ full <= MaxNodes /\ MaxNodes \in Nat
  BY <1>3, <1>5, HeapAssumption DEF Shape
<1>7. /\ o \in Ends /\ o # e /\ Ends = {e, o} /\ Other(o) = e
      /\ \A x \in Items : Outside(e, x, x)
      /\ ("left" = e \/ "left" = o)
  BY Order DEF Ends
<1>8. full < last => heap[last]["left"] = heap[last][e]
  BY <1>5, <1>7 DEF InOrder
<1>9. Popped(e) = IF m > 1 THEN g ELSE k
  <2> DEFINE y == IF size % 2 = 1 THEN heap[last]["left"] ELSE heap[last][e]
             h == IF size % 2 = 1 THEN heap ELSE [heap EXCEPT ![last][e] = heap[last][Other(e)]]
             w == [h EXCEPT ![1][e] = y]
  <2>1. Popped(e) = IF m > 1 THEN Sunk(w, LastNode(m), e) ELSE h
    BY DEF Popped
  <2>2. y = heap[last][e]
    <3> HIDE DEF last, full
    <3> QED
      BY <1>4, <1>8
  <2>3. h = k
    <3> HIDE DEF last, full
    <3> QED
      BY <1>4 DEF WithEnd
  <2>4. w = u
    <3> HIDE DEF k, h, y, last
    <3> QED
      BY <2>2, <2>3 DEF WithEnd
  <2>5. LastNode(m) = full
    BY <1>3
  <2> HIDE DEF w, u, k, h, full, m
  <2> QED
    BY <2>1, <2>3, <2>4, <2>5
<1>10. CASE m > 1
  <2>1. last >= 2 /\ n >= 1 /\ full >= 1
    BY <1>3, <1>4, <1>10
  <2>2. Room(full, n)
    <3>1. full \in Nodes
      BY <1>3, <1>6, <2>1 DEF Nodes
    <3> QED
      BY <1>3, <2>1, <3>1 DEF Room
  <2>3. k = IF full < last THEN heap ELSE WithEnd(heap, last, e, heap[last][Other(e)])
    OBVIOUS
  <2>4. u = WithEnd(k, 1, e, heap[last][e])
    OBVIOUS
  <2> HIDE DEF k, u
  <2>5. /\ Sinking(u, 1, e, full, n)
        /\ Distinct(u, P)
        /\ Elements(u, P) = ElementsOf(heap, size) \ {heap[1][e]}
    <3>1. Shape(last, full)
      BY <1>5
    <3>2. InOrder(heap, e, last, full)
      BY <1>5
    <3>3. Distinct(heap, Places(e, last, full))
      BY <1>5
    <3>4. ElementsOf(heap, size) = Elements(heap, Places(e, last, full))
      BY <1>5
    <3>5. n = last - 1
      OBVIOUS
    <3> HIDE DEF last, full, n
    <3>6. /\ Sinking(u, 1, e, full, n)
          /\ Distinct(u, Places(Other(e), full, n))
          /\ Elements(u, Places(Other(e), full, n)) = Elements(heap, Places(e, last, full)) \ {heap[1][e]}
      BY <2>1, <2>3, <2>4, <3>1, <3>2, <3>3, <3>5, PopStart
    <3> QED
      BY <3>4, <3>6
  <2>6. PICK i \in 1 .. full :
              /\ Sinking(g, i, e, full, n)
              /\ 2 * i <= full => Outside(e, g[i][e], g[Child([heap |-> g, at |-> i], e, full)][e])
              /\ Rearranged(g, u, P)
              /\ Distinct(g, P)
    <3> HIDE DEF last, full, n
    <3> QED
      BY <2>2, <2>5, SunkRests
  <2> HIDE DEF g
  <2>7. InOrder(g, e, full, n)
    <3> HIDE DEF last, full, n
    <3> QED
      BY <2>2, <2>6, PopEnd
  <2>8. Elements(g, P) = ElementsOf(heap, size) \ {heap[1][e]}
    BY <2>5, <2>6 DEF Rearranged
  <2>9. HeapOf(g, m) /\ ElementsOf(g, m) = Elements(g, P)
    <3>1. m \in Nat /\ Shape(LastNode(m), m \div 2)
      BY <1>1, <1>6
    <3>2. InOrder(g, o, LastNode(m), m \div 2)
      <4> HIDE DEF last, full, n, o
      <4>1. Shape(full, n) /\ InOrder(g, e, full, n)
        BY <1>6, <2>7
      <4>2. InOrder(g, o, full, n)
        BY <4>1, OtherEnd DEF o
      <4> QED
        BY <1>3, <4>2
    <3>3. Distinct(g, Places(o, LastNode(m), m \div 2))
      BY <1>3, <2>6
    <3> HIDE DEF m
    <3>4. /\ HeapOf(g, m)
          /\ ElementsOf(g, m) = Elements(g, Places(o, LastNode(m), m \div 2))
      BY <1>7, <3>1, <3>2, <3>3, HeapOfEnds
    <3> QED
      BY <1>3, <3>4
  <2> QED
    BY <1>9, <1>10, <2>8, <2>9
<1>11. CASE m = 1
  <2>1. last = 1 /\ full = 1 /\ n = 0 /\ 1 \in Nodes
    BY <1>3, <1>4, <1>11, HeapAssumption DEF Nodes
  <2>2. k = WithEnd(heap, 1, e, heap[1][o])
    BY <2>1
  <2>3. /\ heap \in Heaps /\ heap[1][e] \in Items /\ heap[1][o] \in Items
    BY <1>5, <2>1 DEF InOrder
  <2>4. k \in Heaps /\ k[1][e] = heap[1][o] /\ k[1][o] = heap[1][o]
    <3>1. heap \in [Nodes -> [Ends -> Items \cup {NoItem}]]
      BY <2>3 DEF Heaps
    <3>2. k = [heap EXCEPT ![1][e] = heap[1][o]]
      BY <2>2 DEF WithEnd
    <3> HIDE DEF k, o
    <3> QED
      BY ONLY <1>7, <2>1, <2>3, <3>1, <3>2, e \in Ends DEF Heaps
  <2> HIDE DEF k
  <2>5. Places(o, 1, 0) = {<<1, o>>} /\ Places(e, 1, 1) = {<<1, e>>, <<1, o>>}
    BY <1>7, <2>1 DEF Places, Nodes
  <2>6. /\ At(heap, <<1, e>>) = heap[1][e] /\ At(heap, <<1, o>>) = heap[1][o]
        /\ At(k, <<1, o>>) = heap[1][o] /\ <<1, e>> # <<1, o>>
    BY <1>7, <2>4 DEF At
  <2>7. heap[1][e] # heap[1][o]
    <3>1. Distinct(heap, Places(e, 1, 1))
      BY <1>5, <2>1
    <3> QED
      BY <2>5, <2>6, <3>1 DEF Distinct
  <2>8. Elements(heap, Places(e, 1, 1)) = {heap[1][e], heap[1][o]} /\ Elements(k, Places(o, 1, 0)) = {heap[1][o]}
    <3> HIDE DEF o
    <3> QED
      BY <2>5, <2>6 DEF Elements
  <2>9. Distinct(k, Places(o, 1, 0))
    BY <2>5 DEF Distinct
  <2>10. InOrder(k, o, 1, 0)
    <3>1. Outside(o, heap[1][o], heap[1][o])
      BY <1>7, <2>3, Order
    <3> QED
      BY <1>7, <2>3, <2>4, <3>1 DEF InOrder
  <2>11. LastNode(m) = 1 /\ m \div 2 = 0
    BY <1>3, <2>1
  <2>12. HeapOf(k, m) /\ ElementsOf(k, m) = Elements(k, Places(o, 1, 0))
    <3>1. m \in Nat /\ Shape(LastNode(m), m \div 2)
      BY <1>1, <1>6
    <3> HIDE DEF m
    <3> QED
      BY <1>7, <2>9, <2>10, <2>11, <3>1, HeapOfEnds
  <2>13. ElementsOf(heap, size) = {heap[1][e], heap[1][o]}
    BY <1>5, <2>1, <2>8
  <2>14. Popped(e) = k
    BY <1>9, <1>11
  <2> HIDE DEF m, o
  <2> QED
    BY <2>7, <2>8, <2>12, <2>13, <2>14 DEF m
<1>12. CASE m = 0
  <2>1. last = 1 /\ full = 0 /\ n = 0 /\ 1 \in Nodes
    BY <1>3, <1>4, <1>12, HeapAssumption DEF Nodes
  <2>2. Popped(e) = heap
    BY <1>9, <1>12, <2>1
  <2>3. Places(e, 1, 0) = {<<1, e>>} /\ Places(e, 0, 0) = {}
    BY <1>7, <2>1 DEF Places, Nodes
  <2>4. Elements(heap, Places(e, 1, 0)) = {heap[1][e]} /\ Elements(heap, Places(e, 0, 0)) = {}
    <3>1. At(heap, <<1, e>>) = heap[1][e]
      BY DEF At
    <3> QED
      BY <2>3, <3>1 DEF Elements
  <2>5. Distinct(heap, Places(e, 0, 0))
    BY <2>3 DEF Distinct
  <2>6. InOrder(heap, e, 0, 0)
    BY <1>5 DEF InOrder
  <2>7. LastNode(m) = 0 /\ m \div 2 = 0
    BY <1>3, <2>1
  <2>8. HeapOf(heap, m) /\ ElementsOf(heap, m) = {}
    <3>1. m \in Nat /\ Shape(LastNode(m), m \div 2)
      BY <1>1, <1>6
    <3> HIDE DEF m
    <3> QED
      BY <2>4, <2>5, <2>6, <2>7, <3>1, HeapOfEnds
  <2>9. ElementsOf(heap, size) = {heap[1][e]}
    BY <1>5, <2>1, <2>4
  <2> QED
    BY <2>2, <2>8, <2>9
<1> QED
  BY <1>1, <1>10, <1>11, <1>12

-----------------------------------------------------------------------------
HeapInv ==
    /\ size \in Nat
    /\ HeapOf(heap, size)
    /\ IsFiniteSet(Held)
    /\ Cardinality(Held) = size

(* It holds of the empty heap.                                               *)
LEMMA InitHeapInv == HeapInit => HeapInv
<1> SUFFICES ASSUME HeapInit PROVE HeapInv
  OBVIOUS
<1>1. size = 0 /\ size \in Nat /\ heap \in Heaps
  BY DEF HeapInit, Heaps
<1>2. LastNode(size) = 0 /\ size \div 2 = 0
  BY <1>1, Halves
<1>3. Shape(0, 0)
  BY HeapAssumption DEF Shape
<1>4. Places("left", 0, 0) = {}
  BY DEF Places, Nodes
<1>5. InOrder(heap, "left", 0, 0) /\ Distinct(heap, Places("left", 0, 0))
  BY <1>1, <1>4 DEF InOrder, Distinct
<1>6. HeapOf(heap, size)
  BY <1>2, <1>3, <1>5 DEF HeapOf
<1>7. Held = {}
  BY <1>1, <1>2, <1>3, <1>4, HeldElements DEF Held, ElementsOf, Elements
<1> QED
  BY <1>1, <1>6, <1>7, FS_EmptySet DEF HeapInv

(* push() keeps the invariant, and adds its element.                         *)
LEMMA PushKeeps ==
    ASSUME HeapInv, NEW x \in Items, Push(x)
    PROVE  HeapInv' /\ x \notin Held /\ Held' = Held \cup {x}
<1>1. /\ size \in Nat /\ HeapOf(heap, size) /\ Shape(LastNode(size), size \div 2)
      /\ IsFiniteSet(Held) /\ Cardinality(Held) = size
  BY DEF HeapInv, HeapOf
<1>2. x \notin Held /\ LastNode(size + 1) <= MaxNodes /\ heap' = Pushed(x) /\ size' = size + 1
  BY DEF Push
<1>3. Held = ElementsOf(heap, size)
  BY <1>1, HeldElements DEF Held
<1>4. HeapOf(Pushed(x), size + 1) /\ ElementsOf(Pushed(x), size + 1) = ElementsOf(heap, size) \cup {x}
  BY <1>1, <1>2, <1>3, PushedHeap
<1>5. size' \in Nat /\ HeapOf(heap', size') /\ Shape(LastNode(size'), size' \div 2)
  BY <1>1, <1>2, <1>4 DEF HeapOf
<1>6. Held' = ElementsOf(heap', size')
  BY <1>5, HeldElements DEF Held
<1>7. Held' = Held \cup {x}
  BY <1>2, <1>3, <1>4, <1>6
<1>8. IsFiniteSet(Held') /\ Cardinality(Held') = size'
  BY <1>1, <1>2, <1>7, FS_AddElement
<1> QED
  BY <1>2, <1>5, <1>7, <1>8 DEF HeapInv, HeapOf

(* pop_min() and pop_max() keep it, and remove the element they showed.      *)
LEMMA PopKeeps ==
    ASSUME HeapInv, NEW e \in Ends, Pop(e)
    PROVE  /\ HeapInv'
           /\ shown' \in Held /\ Held' = Held \ {shown'}
           /\ \A y \in Held : y \in Items /\ Outside(e, shown', y)
<1>1. /\ size \in Nat /\ HeapOf(heap, size) /\ Shape(LastNode(size), size \div 2)
      /\ IsFiniteSet(Held) /\ Cardinality(Held) = size
  BY DEF HeapInv, HeapOf
<1>2. size > 0 /\ shown' = heap[1][e] /\ heap' = Popped(e) /\ size' = size - 1
  BY DEF Pop
<1>3. Held = ElementsOf(heap, size)
  BY <1>1, HeldElements DEF Held
<1>4. /\ shown' \in Held
      /\ \A y \in Held : y \in Items /\ Outside(e, shown', y)
  BY <1>1, <1>2, <1>3, RootShown
<1>5. /\ HeapOf(Popped(e), size - 1)
      /\ ElementsOf(Popped(e), size - 1) = ElementsOf(heap, size) \ {heap[1][e]}
  BY <1>1, <1>2, PoppedHeap
<1>6. size' \in Nat /\ HeapOf(heap', size') /\ Shape(LastNode(size'), size' \div 2)
  BY <1>1, <1>2, <1>5 DEF HeapOf
<1>7. Held' = ElementsOf(heap', size')
  BY <1>6, HeldElements DEF Held
<1>8. Held' = Held \ {shown'}
  BY <1>2, <1>3, <1>5, <1>7
<1>9. IsFiniteSet(Held') /\ Cardinality(Held') = size'
  BY <1>1, <1>2, <1>4, <1>8, FS_RemoveElement
<1> QED
  BY <1>4, <1>6, <1>8, <1>9 DEF HeapInv, HeapOf

(* The invariant holds of every reachable state.                             *)
THEOREM HeapInvHolds == HeapSpec => []HeapInv
<1>1. HeapInv /\ [HeapNext]_hvars => HeapInv'
  <2> SUFFICES ASSUME HeapInv, [HeapNext]_hvars PROVE HeapInv'
    OBVIOUS
  <2>1. ASSUME NEW x \in Items, Push(x) PROVE HeapInv'
    BY <2>1, PushKeeps
  <2>2. ASSUME NEW e \in Ends, Pop(e) PROVE HeapInv'
    BY <2>2, PopKeeps
  <2>3. CASE UNCHANGED hvars
    BY <2>3 DEF hvars, HeapInv, Held
  <2> QED
    BY <2>1, <2>2, <2>3 DEF HeapNext
<1> QED
  BY <1>1, InitHeapInv, PTL DEF HeapSpec

(* Every element is there once, each interval is inside the interval of its  *)
(* parent, and an odd last node is a single point.                           *)
THEOREM IntervalsNested == HeapSpec => []IntervalProperty
<1>1. HeapInv => IntervalProperty
  <2> SUFFICES ASSUME HeapInv PROVE IntervalProperty
    OBVIOUS
  <2> DEFINE last == LastNode(size)
  <2>1. /\ size \in Nat /\ Cardinality(Held) = size /\ InOrder(heap, "left", last, size \div 2)
    BY DEF HeapInv, HeapOf
  <2>2. /\ Other("left") = "right" /\ Ends = {"left", "right"} /\ "left" \in Ends
        /\ \A x, y \in Items : Outside("right", x, y) <=> Outside("left", y, x)
    BY Order DEF Other, Ends
  <2>3. last \in Nat /\ (size % 2 = 1 => last = size \div 2 + 1) /\ size \div 2 \in Nat
        /\ (size >= 1 => last >= 1)
    BY <2>1, Halves
  <2>4. ASSUME NEW i \in 1 .. last
        PROVE  /\ Outside("left", heap[i]["left"], heap[i]["right"])
               /\ i > 1 => \A e \in Ends : Outside(e, heap[Parent(i)][e], heap[i][e])
    <3>1. Outside("left", heap[i]["left"], heap[i]["right"])
      BY <2>1, <2>2 DEF InOrder
    <3>2. ASSUME i > 1, NEW e \in Ends
          PROVE  Outside(e, heap[Parent(i)][e], heap[i][e])
      <4>1. i \in 2 .. last /\ Parent(i) \in 1 .. last
        BY <2>3, <3>2, Parents
      <4>2. /\ Outside("left", heap[Parent(i)]["left"], heap[i]["left"])
            /\ Outside("left", heap[i]["right"], heap[Parent(i)]["right"])
            /\ heap[i]["right"] \in Items /\ heap[Parent(i)]["right"] \in Items
        BY <2>1, <2>2, <4>1 DEF InOrder
      <4> QED
        BY <2>2, <4>2
    <3> QED
      BY <3>1, <3>2
  <2>5. size % 2 = 1 => heap[last]["left"] = heap[last]["right"]
    BY <2>1, <2>2, <2>3 DEF InOrder
  <2> QED
    BY <2>1, <2>4, <2>5 DEF IntervalProperty
<1> QED
  BY <1>1, HeapInvHolds, PTL

(* The heap is a double-ended priority queue: push() is its Push, and the    *)
(* two pops are its PopMin and PopMax.                                       *)
THEOREM HeapIsQueue == HeapSpec => ImplementsQueue
<1>1. HeapInit => Queue!Init
  BY FS_EmptySet DEF HeapInit, Queue!Init, Held, LastNode
<1>2. HeapInv /\ [HeapNext]_hvars => [Queue!Next]_Queue!vars
  <2> SUFFICES ASSUME HeapInv, [HeapNext]_hvars PROVE [Queue!Next]_Queue!vars
    OBVIOUS
  <2>1. ASSUME NEW x \in Items, Push(x) PROVE Queue!Push(x)
    <3>1. x \notin Held /\ Held' = Held \cup {x}
      BY <2>1, PushKeeps
    <3>2. shown' = NoItem
      BY <2>1 DEF Push
    <3> QED
      BY <3>1, <3>2 DEF Queue!Push
  <2>2. ASSUME NEW e \in Ends, Pop(e) PROVE Queue!PopMin \/ Queue!PopMax
    <3>1. /\ shown' \in Held /\ Held' = Held \ {shown'}
          /\ \A y \in Held : y \in Items /\ Outside(e, shown', y)
      BY <2>2, PopKeeps
    <3>2. CASE e = "left"
      <4>1. \A y \in Held : ItemRank[shown'] <= ItemRank[y]
        BY <3>1, <3>2 DEF Outside
      <4> QED
        BY <3>1, <4>1 DEF Queue!PopMin
    <3>3. CASE e = "right"
      <4>1. \A y \in Held : ItemRank[shown'] >= ItemRank[y]
        BY <3>1, <3>3 DEF Outside
      <4> QED
        BY <3>1, <4>1 DEF Queue!PopMax
    <3> QED
      BY <3>2, <3>3 DEF Ends
  <2>3. CASE UNCHANGED hvars
    BY <2>3 DEF hvars, Held, Queue!vars
  <2> QED
    BY <2>1, <2>2, <2>3 DEF HeapNext, Queue!Next
<1> QED
  BY <1>1, <1>2, HeapInvHolds, PTL DEF HeapSpec, ImplementsQueue, Queue!Spec
=============================================================================
