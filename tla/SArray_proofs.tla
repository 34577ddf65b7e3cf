---------------------------- MODULE SArray_proofs ----------------------------
(***************************************************************************)
(* Proofs about SArray for every set of keys, every order of them and      *)
(* every growth ratio: both binary searches end where they should, the     *)
(* entries stay packed and sorted, and the array with one iterator on it   *)
(* is a map.                                                               *)
(***************************************************************************)
EXTENDS SArray, Loops

Entry == [key : Keys, value : Values]

\* An array of n entries.
Filled(b, n) ==
    /\ b.max \in Nat \ {0} /\ n \in 0 .. b.max
    /\ b = [max |-> b.max, deleted |-> b.deleted, data |-> b.data] /\ b.deleted \in BOOLEAN
    /\ b.data = [i \in 0 .. b.max - 1 |-> b.data[i]]
    /\ \A i \in 0 .. n - 1 : b.data[i] \in Entry
    /\ \A i \in n .. b.max - 1 : b.data[i] = FreeSlot
    /\ \A i, j \in 0 .. n - 1 : i < j => Order[b.data[i].key] < Order[b.data[j].key]

(* Free slots are those without a key.                                       *)
LEMMA UsedSlots ==
    ASSUME OrderAssumption, NEW b, NEW n, Filled(b, n)
    PROVE  /\ b # NullBody /\ n \in Nat /\ b.max \in Nat /\ n <= b.max /\ b.max >= 1
           /\ \A i \in 0 .. b.max - 1 : IsFree(b, i) <=> i >= n
           /\ \A i \in 0 .. n - 1 : b.data[i].key \in Keys /\ Order[b.data[i].key] \in Int
<1>1. /\ b.max \in Nat \ {0} /\ n \in 0 .. b.max
      /\ \A i \in 0 .. n - 1 : b.data[i] \in Entry
      /\ \A i \in n .. b.max - 1 : b.data[i] = FreeSlot
  BY DEF Filled
<1>2. b # NullBody
  BY <1>1 DEF NullBody
<1>3. \A i \in 0 .. n - 1 : b.data[i].key \in Keys /\ b.data[i].key # NoKey
  BY <1>1 DEF Entry, OrderAssumption
<1>4. \A i \in 0 .. b.max - 1 : i >= n => i \in n .. b.max - 1
  BY <1>1
<1>5. \A i \in 0 .. b.max - 1 : i < n => i \in 0 .. n - 1
  BY <1>1
<1>6. FreeSlot.key = NoKey
  BY DEF FreeSlot
<1>7. \A i \in 0 .. b.max - 1 : IsFree(b, i) <=> i >= n
  BY <1>1, <1>3, <1>4, <1>5, <1>6 DEF IsFree
<1>8. \A i \in 0 .. n - 1 : Order[b.data[i].key] \in Int
  BY <1>3 DEF OrderAssumption
<1> QED
  BY <1>1, <1>2, <1>3, <1>7, <1>8

(* Half way between two numbers.                                             *)
LEMMA Halfway ==
    ASSUME NEW l \in Nat, NEW u \in Nat
    PROVE  LET m == (l + u) \div 2
           IN  /\ m \in Nat
               /\ l < u => l <= m /\ m < u
               /\ l + 1 < u => l < m
  OBVIOUS

(* numEntries() finds the end of the entries.                                *)
LEMMA EndFound ==
    ASSUME OrderAssumption, NEW b, NEW n, Filled(b, n)
    PROVE  NumEntries(b) = n
<1> DEFINE S == {s \in [lower : 0 .. b.max, upper : 0 .. b.max] :
                    s.lower < s.upper /\ s.lower < n /\ n <= s.upper}
           F == [s \in S |-> EndRound(b, s)]
           Done == {s \in S : s.lower + 1 >= s.upper}
           m == [s \in S |-> s.upper - s.lower]
           G(f) == [r \in 0 .. b.max |-> IF r = 0 THEN Whole(b) ELSE EndRound(b, f[r - 1])]
           g == CHOOSE f : f = G(f)
<1>1. /\ b # NullBody /\ n \in Nat /\ b.max \in Nat /\ n <= b.max /\ b.max >= 1
      /\ \A i \in 0 .. b.max - 1 : IsFree(b, i) <=> i >= n
  BY UsedSlots
<1>2. NumEntries(b) = IF IsFree(b, 0) THEN 0 ELSE g[b.max].upper
  BY <1>1 DEF NumEntries
<1>3. CASE n = 0
  BY <1>1, <1>2, <1>3
<1>4. CASE n # 0
  <2>1. Whole(b) \in S /\ ~IsFree(b, 0)
    BY <1>1, <1>4 DEF Whole
  <2>2. ASSUME NEW s \in S
        PROVE  /\ EndRound(b, s) \in S /\ m[s] \in Nat
               /\ s \in Done => EndRound(b, s) = s
               /\ s \notin Done => m[EndRound(b, s)] < m[s]
    <3> DEFINE h == Middle(s)
    <3>1. /\ s.lower \in Nat /\ s.upper \in Nat /\ s.lower < s.upper /\ s.lower < n /\ n <= s.upper
          /\ s.upper <= b.max
          /\ s = [lower |-> s.lower, upper |-> s.upper]
      BY <1>1
    <3>2. /\ h \in Nat /\ s.lower <= h /\ h < s.upper
          /\ s.lower + 1 < s.upper => s.lower < h
      BY <3>1, Halfway DEF Middle
    <3> HIDE DEF h
    <3>3. CASE s.lower + 1 >= s.upper
      BY <3>1, <3>3 DEF EndRound
    <3>4. CASE s.lower + 1 < s.upper /\ IsFree(b, h)
      <4>1. EndRound(b, s) = [lower |-> s.lower, upper |-> h]
        BY <3>1, <3>4 DEF EndRound, h
      <4>2. n <= h
        BY <1>1, <3>1, <3>2, <3>4
      <4>3. EndRound(b, s) \in S
        BY <1>1, <3>1, <3>2, <4>1, <4>2
      <4>4. m[s] = s.upper - s.lower /\ m[EndRound(b, s)] = h - s.lower
        BY <4>1, <4>3
      <4>5. m[EndRound(b, s)] < m[s] /\ s \notin Done /\ m[s] \in Nat
        BY <3>1, <3>2, <3>4, <4>4
      <4> QED
        BY <4>3, <4>5
    <3>5. CASE s.lower + 1 < s.upper /\ ~IsFree(b, h)
      <4>1. EndRound(b, s) = [lower |-> h, upper |-> s.upper]
        BY <3>1, <3>5 DEF EndRound, h
      <4>2. h < n
        BY <1>1, <3>1, <3>2, <3>5
      <4>3. EndRound(b, s) \in S
        BY <1>1, <3>1, <3>2, <4>1, <4>2
      <4>4. m[s] = s.upper - s.lower /\ m[EndRound(b, s)] = s.upper - h
        BY <4>1, <4>3
      <4>5. m[EndRound(b, s)] < m[s] /\ s \notin Done /\ m[s] \in Nat
        BY <3>1, <3>2, <3>5, <4>4
      <4> QED
        BY <4>3, <4>5
    <3> QED
      BY <3>1, <3>3, <3>4, <3>5
  <2>3. F \in [S -> S] /\ m \in [S -> Nat] /\ Done \in SUBSET S
    BY <2>2
  <2>4. m[Whole(b)] <= b.max
    BY <1>1, <2>1 DEF Whole
  <2>5. /\ \A s \in Done : F[s] = s
        /\ \A s \in S \ Done : m[F[s]] < m[s]
        /\ \A s \in S : F[s] = EndRound(b, s)
    BY <2>2
  <2>6. \A s \in Done : s.upper = n
    BY <1>1
  <2> HIDE DEF S, F, Done, m
  <2>7. PICK s : Runs(s, b.max, Whole(b), F, S) /\ s[b.max] \in Done
    BY <1>1, <2>1, <2>3, <2>4, <2>5, LoopRests
  <2>8. g = s
    <3>1. /\ s = [r \in 0 .. b.max |-> s[r]] /\ s[0] = Whole(b)
          /\ \A r \in 1 .. b.max : s[r] = F[s[r - 1]] /\ s[r - 1] \in S
      BY <1>1, <2>7 DEF Runs
    <3>2. \A r \in 0 .. b.max : s[r] = IF r = 0 THEN Whole(b) ELSE EndRound(b, s[r - 1])
      <4> TAKE r \in 0 .. b.max
      <4>1. r # 0 => r \in 1 .. b.max
        BY <1>1
      <4>2. r # 0 => s[r] = F[s[r - 1]] /\ s[r - 1] \in S
        BY <3>1, <4>1
      <4> QED
        BY <2>5, <3>1, <4>2
    <3>3. s = G(s)
      BY <3>1, <3>2
    <3>4. g = G(g)
      BY <3>3
    <3> HIDE DEF g
    <3>5. Unrolls(g, b.max, Whole(b), F, S)
      <4>1. g = [r \in 0 .. b.max |-> g[r]]
        BY <3>4
      <4>2. \A r \in 0 .. b.max : g[r] = IF r = 0 THEN Whole(b) ELSE EndRound(b, g[r - 1])
        BY <3>4
      <4>3. g[0] = Whole(b) /\ \A r \in 1 .. b.max : g[r] = EndRound(b, g[r - 1])
        BY <1>1, <4>2
      <4> QED
        BY <2>5, <4>1, <4>3 DEF Unrolls
    <3> QED
      BY <1>1, <2>7, <3>5, RoundsUnique
  <2> QED
    BY <1>2, <2>1, <2>6, <2>7, <2>8
<1> QED
  BY <1>3, <1>4

\* l is where k is among n entries, or where it belongs.
Located(b, n, k, l) ==
    /\ l.found => l.index \in 0 .. n - 1 /\ b.data[l.index].key = k
    /\ ~l.found => /\ l.index \in 0 .. n
                   /\ \A i \in 0 .. l.index - 1 : Order[b.data[i].key] < Order[k]
                   /\ \A i \in l.index .. n - 1 : Order[k] < Order[b.data[i].key]

\* The entries below lower are smaller and those from upper on larger.
Between(b, n, k, lower, upper) ==
    /\ lower <= n
    /\ \A i \in 0 .. lower - 1 : Order[b.data[i].key] < Order[k]
    /\ \A i \in 0 .. n - 1 : upper <= i => Order[k] < Order[b.data[i].key]

(* locate() finds the key, or its place.                                     *)
LEMMA KeyFound ==
    ASSUME OrderAssumption, NEW b, NEW n, Filled(b, n), NEW k \in Keys
    PROVE  Located(b, n, k, Locate(b, k)) /\ Locate(b, k).found \in BOOLEAN
<1> DEFINE Hit(i) == i < n /\ b.data[i].key = k
           Good(s) == /\ s.lower <= s.upper
                      /\ Between(b, n, k, s.lower, s.upper) \/ (s.lower = s.upper /\ Hit(s.lower))
           S == {s \in [lower : 0 .. b.max, upper : 0 .. b.max] : Good(s)}
           F == [s \in S |-> KeyRound(b, k, s)]
           Done == {s \in S : s.lower >= s.upper}
           m == [s \in S |-> s.upper - s.lower]
           G(f) == [r \in 0 .. b.max |-> IF r = 0 THEN Whole(b) ELSE KeyRound(b, k, f[r - 1])]
           g == CHOOSE f : f = G(f)
           j == g[b.max].lower
<1>1. /\ b # NullBody /\ n \in Nat /\ b.max \in Nat /\ n <= b.max /\ b.max >= 1
      /\ \A i \in 0 .. b.max - 1 : IsFree(b, i) <=> i >= n
      /\ \A i \in 0 .. n - 1 : b.data[i].key \in Keys /\ Order[b.data[i].key] \in Int
  BY UsedSlots
<1>2. /\ Order[k] \in Int
      /\ \A i \in 0 .. n - 1 : Order[b.data[i].key] = Order[k] => b.data[i].key = k
  BY <1>1 DEF OrderAssumption
<1>3. \A h, i \in 0 .. n - 1 : h < i => Order[b.data[h].key] < Order[b.data[i].key]
  BY DEF Filled
<1>4. Whole(b) \in S
  <2>1. Between(b, n, k, 0, b.max)
    BY <1>1 DEF Between
  <2> QED
    BY <1>1, <2>1 DEF Whole
<1>5. ASSUME NEW s \in S
      PROVE  /\ KeyRound(b, k, s) \in S /\ m[s] \in Nat
             /\ s \in Done => KeyRound(b, k, s) = s
             /\ s \notin Done => m[KeyRound(b, k, s)] < m[s]
  <2> DEFINE h == Middle(s)
  <2>1. /\ s.lower \in Nat /\ s.upper \in Nat /\ s.lower <= s.upper /\ s.upper <= b.max
        /\ s = [lower |-> s.lower, upper |-> s.upper]
    BY <1>1
  <2>2. /\ h \in Nat
        /\ s.lower < s.upper => s.lower <= h /\ h < s.upper
    BY <2>1, Halfway DEF Middle
  <2>3. CASE s.lower >= s.upper
    BY <2>1, <2>3 DEF KeyRound
  <2>4. CASE s.lower < s.upper
    <3>1. Between(b, n, k, s.lower, s.upper)
      BY <2>1, <2>4
    <3>2. /\ h \in 0 .. b.max - 1
          /\ IsFree(b, h) <=> h >= n
          /\ h < n => h \in 0 .. n - 1
      BY <1>1, <2>1, <2>2, <2>4
    <3>3. /\ s.lower <= n
          /\ \A i \in 0 .. s.lower - 1 : Order[b.data[i].key] < Order[k]
          /\ \A i \in 0 .. n - 1 : s.upper <= i => Order[k] < Order[b.data[i].key]
      BY <3>1 DEF Between
    <3>4. m[s] = s.upper - s.lower /\ s \notin Done
      BY <2>1, <2>4
    <3>5. CASE IsFree(b, h) \/ Order[k] < Order[b.data[h].key]
      <4>1. KeyRound(b, k, s) = [lower |-> s.lower, upper |-> h]
        <5> HIDE DEF h
        <5> QED
          BY <2>1, <2>4, <3>5 DEF KeyRound, h
      <4>2. ASSUME NEW i \in 0 .. n - 1, h <= i
            PROVE  Order[k] < Order[b.data[i].key]
        <5>1. h \in 0 .. n - 1 /\ ~IsFree(b, h)
          BY <1>1, <2>2, <3>2, <4>2
        <5>2. Order[k] < Order[b.data[h].key]
          BY <3>5, <5>1
        <5>3. h = i \/ Order[b.data[h].key] < Order[b.data[i].key]
          <6>1. h = i \/ h < i
            BY <2>2, <4>2
          <6> QED
            BY <1>3, <5>1, <6>1
        <5> HIDE DEF h
        <5> QED
          BY <1>1, <1>2, <5>1, <5>2, <5>3
      <4> HIDE DEF h
      <4>3. Between(b, n, k, s.lower, h)
        BY <3>3, <4>2 DEF Between
      <4>4. KeyRound(b, k, s) \in S
        BY <1>1, <2>1, <2>2, <2>4, <4>1, <4>3
      <4>5. m[KeyRound(b, k, s)] = h - s.lower
        BY <4>1, <4>4
      <4> HIDE DEF S, m, Done
      <4>6. m[KeyRound(b, k, s)] < m[s] /\ m[s] \in Nat
        BY <2>1, <2>2, <2>4, <3>4, <4>5
      <4> QED
        BY <3>4, <4>4, <4>6
    <3>6. CASE ~IsFree(b, h) /\ Order[k] > Order[b.data[h].key]
      <4>0. h \in 0 .. n - 1
        BY <1>1, <2>2, <3>2, <3>6
      <4>1. KeyRound(b, k, s) = [lower |-> h + 1, upper |-> s.upper]
        <5>1. ~(Order[k] < Order[b.data[h].key]) /\ ~(s.lower >= s.upper)
          BY <1>1, <1>2, <2>1, <2>4, <3>6, <4>0
        <5> HIDE DEF h
        <5> QED
          BY <2>1, <3>6, <5>1 DEF KeyRound, h
      <4>2. ASSUME NEW i \in 0 .. (h + 1) - 1
            PROVE  Order[b.data[i].key] < Order[k]
        <5>1. i \in 0 .. n - 1 /\ (i = h \/ i < h)
          BY <1>1, <2>2, <4>0
        <5>2. i = h \/ Order[b.data[i].key] < Order[b.data[h].key]
          BY <1>3, <4>0, <5>1
        <5>3. Order[b.data[h].key] < Order[k]
          BY <1>1, <1>2, <3>6, <4>0
        <5> HIDE DEF h
        <5> QED
          BY <1>1, <1>2, <4>0, <5>1, <5>2, <5>3
      <4> HIDE DEF h
      <4>3. Between(b, n, k, h + 1, s.upper)
        BY <1>1, <3>3, <4>0, <4>2 DEF Between
      <4>4. KeyRound(b, k, s) \in S
        BY <1>1, <2>1, <2>2, <2>4, <4>1, <4>3
      <4>5. m[KeyRound(b, k, s)] = s.upper - (h + 1)
        BY <4>1, <4>4
      <4> HIDE DEF S, m, Done
      <4>6. m[KeyRound(b, k, s)] < m[s] /\ m[s] \in Nat
        BY <2>1, <2>2, <2>4, <3>4, <4>5
      <4> QED
        BY <3>4, <4>4, <4>6
    <3>7. CASE ~(IsFree(b, h) \/ Order[k] < Order[b.data[h].key]) /\ ~(Order[k] > Order[b.data[h].key])
      <4>0. h \in 0 .. n - 1
        BY <1>1, <2>2, <3>2, <3>7
      <4>1. KeyRound(b, k, s) = [lower |-> h, upper |-> h]
        <5>1. ~(s.lower >= s.upper)
          BY <2>1, <2>4
        <5> HIDE DEF h
        <5> QED
          BY <3>7, <5>1 DEF KeyRound, h
      <4>2. Hit(h)
        <5>1. Order[b.data[h].key] = Order[k]
          BY <1>1, <1>2, <3>7, <4>0
        <5> QED
          BY <1>1, <1>2, <4>0, <5>1
      <4> HIDE DEF h, Hit
      <4>4. KeyRound(b, k, s) \in S
        BY <1>1, <2>1, <2>2, <2>4, <4>1, <4>2
      <4>5. m[KeyRound(b, k, s)] = h - h
        BY <4>1, <4>4
      <4> HIDE DEF S, m, Done
      <4>6. m[KeyRound(b, k, s)] < m[s] /\ m[s] \in Nat
        BY <2>1, <2>2, <2>4, <3>4, <4>5
      <4> QED
        BY <3>4, <4>4, <4>6
    <3> QED
      BY <3>5, <3>6, <3>7
  <2> QED
    BY <2>1, <2>3, <2>4
<1>6. F \in [S -> S] /\ m \in [S -> Nat] /\ Done \in SUBSET S
  BY <1>5
<1>7. m[Whole(b)] <= b.max
  BY <1>1, <1>4 DEF Whole
<1>8. /\ \A s \in Done : F[s] = s
      /\ \A s \in S \ Done : m[F[s]] < m[s]
      /\ \A s \in S : F[s] = KeyRound(b, k, s)
  BY <1>5
<1>9. \A s \in Done : s.lower \in 0 .. b.max /\ (Between(b, n, k, s.lower, s.lower) \/ Hit(s.lower))
  <2> TAKE s \in Done
  <2>1. s.lower = s.upper
    BY <1>1
  <2> QED
    BY <2>1
<1> HIDE DEF S, F, Done, m, Hit, Good
<1>10. PICK s : Runs(s, b.max, Whole(b), F, S) /\ s[b.max] \in Done
  BY <1>1, <1>4, <1>6, <1>7, <1>8, LoopRests
<1>11. g = s
  <2>1. /\ s = [r \in 0 .. b.max |-> s[r]] /\ s[0] = Whole(b)
        /\ \A r \in 1 .. b.max : s[r] = F[s[r - 1]] /\ s[r - 1] \in S
    BY <1>1, <1>10 DEF Runs
  <2>2. \A r \in 0 .. b.max : s[r] = IF r = 0 THEN Whole(b) ELSE KeyRound(b, k, s[r - 1])
    <3> TAKE r \in 0 .. b.max
    <3>1. r # 0 => r \in 1 .. b.max
      BY <1>1
    <3>2. r # 0 => s[r] = F[s[r - 1]] /\ s[r - 1] \in S
      BY <2>1, <3>1
    <3> QED
      BY <1>8, <2>1, <3>2
  <2>3. s = G(s)
    BY <2>1, <2>2
  <2>4. g = G(g)
    BY <2>3
  <2> HIDE DEF g
  <2>5. Unrolls(g, b.max, Whole(b), F, S)
    <3>1. g = [r \in 0 .. b.max |-> g[r]]
      BY <2>4
    <3>2. \A r \in 0 .. b.max : g[r] = IF r = 0 THEN Whole(b) ELSE KeyRound(b, k, g[r - 1])
      BY <2>4
    <3>3. g[0] = Whole(b) /\ \A r \in 1 .. b.max : g[r] = KeyRound(b, k, g[r - 1])
      BY <1>1, <3>2
    <3> QED
      BY <1>8, <3>1, <3>3 DEF Unrolls
  <2> QED
    BY <1>1, <1>10, <2>5, RoundsUnique
<1>12. Search(b, k) = j
  BY DEF Search
<1> HIDE DEF g
<1>13. j \in 0 .. b.max /\ (Between(b, n, k, j, j) \/ Hit(j))
  BY <1>9, <1>10, <1>11
<1> HIDE DEF j
<1> DEFINE past == j = b.max \/ (j < b.max /\ IsFree(b, j))
<1>14. past <=> j >= n
  BY <1>1, <1>13
<1>15. Locate(b, k) = CASE ~past /\ b.data[j].key = k -> [found |-> TRUE, index |-> j]
                        [] past \/ Order[k] < Order[b.data[j].key] -> [found |-> FALSE, index |-> j]
                        [] OTHER -> [found |-> FALSE, index |-> j + 1]
  BY <1>12 DEF Locate
<1> HIDE DEF past
<1>16. CASE Hit(j)
  <2>1. j \in 0 .. n - 1 /\ b.data[j].key = k
    BY <1>1, <1>13, <1>16 DEF Hit
  <2>2. ~past
    BY <1>1, <1>14, <2>1
  <2>3. ~(past \/ Order[k] < Order[b.data[j].key])
    BY <1>2, <2>1, <2>2
  <2>4. Locate(b, k) = [found |-> TRUE, index |-> j]
    BY <1>15, <2>1, <2>2, <2>3
  <2> QED
    BY <2>1, <2>4 DEF Located
<1>17. CASE Between(b, n, k, j, j)
  <2>1. /\ j <= n /\ j \in 0 .. n
        /\ \A i \in 0 .. j - 1 : Order[b.data[i].key] < Order[k]
        /\ \A i \in 0 .. n - 1 : j <= i => Order[k] < Order[b.data[i].key]
    BY <1>1, <1>13, <1>17 DEF Between
  <2>2. past \/ Order[k] < Order[b.data[j].key]
    BY <1>1, <1>13, <1>14, <2>1
  <2>3. ~(~past /\ b.data[j].key = k)
    BY <1>2, <2>2
  <2>4. Locate(b, k) = [found |-> FALSE, index |-> j]
    BY <1>15, <2>2, <2>3
  <2>5. \A i \in j .. n - 1 : Order[k] < Order[b.data[i].key]
    BY <2>1
  <2> QED
    BY <2>1, <2>4, <2>5 DEF Located
<1> QED
  BY <1>13, <1>16, <1>17

-----------------------------------------------------------------------------
\* The map m has the n entries of b.
Shows(m, b, n) ==
    /\ m = [k \in DOMAIN m |-> m[k]]
    /\ DOMAIN m = {b.data[i].key : i \in 0 .. n - 1}
    /\ \A i \in 0 .. n - 1 : m[b.data[i].key] = b.data[i].value

(* There is one such map.                                                    *)
LEMMA ShownOnce ==
    ASSUME NEW m, NEW w, NEW b, NEW n, Shows(m, b, n), Shows(w, b, n)
    PROVE  m = w
<1>1. /\ m = [k \in DOMAIN m |-> m[k]] /\ w = [k \in DOMAIN w |-> w[k]]
      /\ DOMAIN m = {b.data[i].key : i \in 0 .. n - 1} /\ DOMAIN w = DOMAIN m
      /\ \A i \in 0 .. n - 1 : m[b.data[i].key] = w[b.data[i].key]
  BY DEF Shows
<1>2. \A k \in DOMAIN m : m[k] = w[k]
  BY <1>1
<1> QED
  BY <1>1, <1>2

(* Different places hold different keys.                                     *)
LEMMA KeysDiffer ==
    ASSUME OrderAssumption, NEW b, NEW n, Filled(b, n),
           NEW i \in 0 .. n - 1, NEW j \in 0 .. n - 1, b.data[i].key = b.data[j].key
    PROVE  i = j
<1>1. /\ i < j => Order[b.data[i].key] < Order[b.data[j].key]
      /\ j < i => Order[b.data[j].key] < Order[b.data[i].key]
  BY DEF Filled
<1>2. Order[b.data[i].key] \in Int /\ n \in Nat
  BY UsedSlots
<1> QED
  BY <1>1, <1>2

(* The entries of an array are those it is filled with.                      *)
LEMMA EntriesShown ==
    ASSUME OrderAssumption, NEW b, NEW n, Filled(b, n)
    PROVE  Shows(EntriesOf(b), b, n)
<1> DEFINE slots == {b.data[i] : i \in {j \in 0 .. b.max - 1 : ~IsFree(b, j)}}
           m == [k \in {s.key : s \in slots} |-> (CHOOSE s \in slots : s.key = k).value]
<1>1. /\ n \in Nat /\ b.max \in Nat /\ n <= b.max
      /\ \A i \in 0 .. b.max - 1 : IsFree(b, i) <=> i >= n
  BY UsedSlots
<1>2. EntriesOf(b) = m
  BY DEF EntriesOf
<1>3. {j \in 0 .. b.max - 1 : ~IsFree(b, j)} = 0 .. n - 1
  <2>1. \A j \in 0 .. b.max - 1 : ~IsFree(b, j) <=> j \in 0 .. n - 1
    BY <1>1
  <2>2. 0 .. n - 1 \subseteq 0 .. b.max - 1
    BY <1>1
  <2> QED
    BY <2>1, <2>2
<1>4. slots = {b.data[i] : i \in 0 .. n - 1}
  BY <1>3
<1>5. {s.key : s \in slots} = {b.data[i].key : i \in 0 .. n - 1}
  <2> HIDE DEF slots, m
  <2>1. \A s \in slots : s.key \in {b.data[i].key : i \in 0 .. n - 1}
    BY <1>4
  <2>2. ASSUME NEW i \in 0 .. n - 1
        PROVE  b.data[i].key \in {s.key : s \in slots}
    <3>1. b.data[i] \in slots
      BY <1>4
    <3> QED
      BY <3>1
  <2> QED
    BY <2>1, <2>2
<1>6. ASSUME NEW i \in 0 .. n - 1
      PROVE  m[b.data[i].key] = b.data[i].value
  <2> DEFINE c == CHOOSE s \in slots : s.key = b.data[i].key
  <2>1. c \in slots /\ c.key = b.data[i].key
    BY <1>4
  <2>2. PICK j \in 0 .. n - 1 : c = b.data[j]
    BY <1>4, <2>1
  <2>3. j = i
    BY <2>1, <2>2, KeysDiffer
  <2>4. b.data[i].key \in {s.key : s \in slots}
    BY <1>5
  <2>5. m[b.data[i].key] = c.value
    BY <2>4
  <2> HIDE DEF c
  <2> QED
    BY <2>2, <2>3, <2>5
<1> QED
  BY <1>2, <1>5, <1>6 DEF Shows

(* Nothing is in an array without slots.                                     *)
LEMMA NoEntries ==
    /\ EntriesOf(NullBody) = [k \in {} |-> Zero] /\ NumEntries(NullBody) = 0
    /\ \A k : ~Has(NullBody, k) /\ EntryOf(NullBody, k) = Nothing
<1>1. NullBody.max = 0
  BY DEF NullBody
<1>2. {j \in 0 .. NullBody.max - 1 : ~IsFree(NullBody, j)} = {}
  BY <1>1
<1>3. EntriesOf(NullBody) = [k \in {} |-> Zero]
  BY <1>2 DEF EntriesOf
<1> QED
  BY <1>3 DEF NumEntries, Has, EntryOf

BodyInv(b) == b = NullBody \/ \E n \in Nat : Filled(b, n)

\* The entry of k in the map m, or none.
InMap(m, k) == IF k \in DOMAIN m THEN [key |-> k, value |-> m[k]] ELSE Nothing

(* A key is found if it is in the map, and at the place of its entry.        *)
LEMMA FoundInMap ==
    ASSUME OrderAssumption, NEW b, NEW n, Filled(b, n), NEW k \in Keys
    PROVE  LET l == Locate(b, k) IN
           /\ Has(b, k) <=> k \in DOMAIN EntriesOf(b)
           /\ Has(b, k) <=> l.found
           /\ Has(b, k) => /\ l.index \in 0 .. n - 1 /\ b.data[l.index].key = k
                           /\ b.data[l.index] = [key |-> k, value |-> EntriesOf(b)[k]]
<1> DEFINE l == Locate(b, k)
           m == EntriesOf(b)
<1>1. b # NullBody /\ n \in Nat /\ \A i \in 0 .. n - 1 : b.data[i].key \in Keys /\ Order[b.data[i].key] \in Int
  BY UsedSlots
<1>2. Located(b, n, k, l) /\ l.found \in BOOLEAN
  BY KeyFound
<1>3. /\ DOMAIN m = {b.data[i].key : i \in 0 .. n - 1}
      /\ \A i \in 0 .. n - 1 : m[b.data[i].key] = b.data[i].value
  BY EntriesShown DEF Shows
<1>4. Has(b, k) <=> l.found
  BY <1>1, <1>2 DEF Has
<1> HIDE DEF l, m
<1>5. CASE l.found
  <2>1. l.index \in 0 .. n - 1 /\ b.data[l.index].key = k
    BY <1>2, <1>5 DEF Located
  <2>2. k \in DOMAIN m /\ m[k] = b.data[l.index].value
    BY <1>3, <2>1
  <2>3. b.data[l.index] \in Entry
    BY <2>1 DEF Filled
  <2>4. b.data[l.index] = [key |-> k, value |-> m[k]]
    BY <2>1, <2>2, <2>3 DEF Entry
  <2> QED
    BY <1>4, <1>5, <2>1, <2>2, <2>4 DEF l, m
<1>6. CASE ~l.found
  <2>1. /\ l.index \in 0 .. n
        /\ \A i \in 0 .. l.index - 1 : Order[b.data[i].key] < Order[k]
        /\ \A i \in l.index .. n - 1 : Order[k] < Order[b.data[i].key]
    BY <1>2, <1>6 DEF Located
  <2>2. \A i \in 0 .. n - 1 : b.data[i].key # k
    <3> TAKE i \in 0 .. n - 1
    <3>1. i \in 0 .. l.index - 1 \/ i \in l.index .. n - 1
      BY <1>1, <2>1
    <3>2. Order[b.data[i].key] < Order[k] \/ Order[k] < Order[b.data[i].key]
      BY <2>1, <3>1
    <3>3. Order[k] \in Int
      BY DEF OrderAssumption
    <3> QED
      BY <3>2, <3>3
  <2>3. k \notin DOMAIN m
    BY <1>3, <2>2
  <2> QED
    BY <1>4, <1>6, <2>3 DEF l, m
<1> QED
  BY <1>2, <1>5, <1>6

(* What find() delivers.                                                     *)
LEMMA EntryInMap ==
    ASSUME OrderAssumption, NEW b, BodyInv(b), NEW k \in Keys
    PROVE  EntryOf(b, k) = InMap(EntriesOf(b), k) /\ (Has(b, k) <=> k \in DOMAIN EntriesOf(b))
<1>1. CASE b = NullBody
  BY <1>1, NoEntries DEF InMap
<1>2. ASSUME NEW n \in Nat, Filled(b, n)
      PROVE  EntryOf(b, k) = InMap(EntriesOf(b), k) /\ (Has(b, k) <=> k \in DOMAIN EntriesOf(b))
  <2> DEFINE l == Locate(b, k)
  <2>1. /\ Has(b, k) <=> k \in DOMAIN EntriesOf(b)
        /\ Has(b, k) => b.data[l.index] = [key |-> k, value |-> EntriesOf(b)[k]]
    BY <1>2, FoundInMap
  <2> QED
    BY <2>1 DEF EntryOf, InMap
<1> QED
  BY <1>1, <1>2 DEF BodyInv

-----------------------------------------------------------------------------
(* Growing does not shrink.                                                  *)
LEMMA Grown ==
    ASSUME NEW m \in Nat, NEW p \in Nat, NEW q \in Nat \ {0}, p >= q
    PROVE  (m * p) \div q \in Nat /\ (m * p) \div q >= m
<1> DEFINE x == m * p
           d == x \div q
<1>1. x \in Nat /\ m * q \in Nat
  OBVIOUS
<1>2. x >= m * q
  <2>1. p - q \in Nat
    OBVIOUS
  <2>2. m * (p - q) >= 0
    BY <2>1
  <2>3. m * p = m * (p - q) + m * q
    BY <2>1
  <2> QED
    BY <2>2, <2>3
<1> HIDE DEF x
<1>3. d \in Nat /\ x < q * (d + 1)
  BY <1>1
<1> HIDE DEF d
<1>4. ASSUME d < m PROVE FALSE
  <2>1. m - (d + 1) \in Nat
    BY <1>3, <1>4
  <2>2. q * (m - (d + 1)) >= 0
    BY <2>1
  <2>3. m * q = q * (m - (d + 1)) + q * (d + 1)
    BY <1>3, <2>1
  <2> QED
    BY <1>1, <1>2, <1>3, <2>2, <2>3
<1> QED
  BY <1>3, <1>4 DEF d, x

(* A new body has no entries.                                                *)
LEMMA AllocEmpty ==
    ASSUME OrderAssumption, NEW size \in Nat \ {0}
    PROVE  Filled(Alloc(size), 0) /\ EntriesOf(Alloc(size)) = [k \in {} |-> Zero]
<1> DEFINE a == Alloc(size)
<1>1. a = [max |-> size, deleted |-> FALSE, data |-> [i \in 0 .. size - 1 |-> FreeSlot]]
  BY DEF Alloc
<1> HIDE DEF a
<1>2. Filled(a, 0)
  BY <1>1 DEF Filled
<1>3. Shows(EntriesOf(a), a, 0)
  BY <1>2, EntriesShown
<1>4. Shows([k \in {} |-> Zero], a, 0)
  BY DEF Shows
<1> QED
  BY <1>2, <1>3, <1>4, ShownOnce DEF a

\* Between the n entries of b and those of c there is one more, at index.
Opens(c, b, n, index, k) ==
    /\ Filled(c, n + 1)
    /\ \A i \in 0 .. n : c.data[i] = IF i < index THEN b.data[i]
                                     ELSE IF i = index THEN [key |-> k, value |-> Zero]
                                     ELSE b.data[i - 1]

(* insert() puts the new entry at its place, also when the body grows.       *)
LEMMA OpenedFilled ==
    ASSUME OrderAssumption, NEW b, NEW n, Filled(b, n), NEW k \in Keys, ~Locate(b, k).found
    PROVE  Opens(Opened(b, Locate(b, k).index, [key |-> k, value |-> Zero]), b, n, Locate(b, k).index, k)
<1> DEFINE index == Locate(b, k).index
           slot == [key |-> k, value |-> Zero]
           c == Opened(b, index, slot)
           grown == (b.max * GrowNum) \div GrowDen
           max == IF n < b.max THEN b.max ELSE IF grown = n THEN n + 1 ELSE grown
           At(i) == CASE i < index -> b.data[i]
                      [] i = index -> slot
                      [] index < i /\ i <= n -> b.data[i - 1]
                      [] n < i /\ i < b.max -> b.data[i]
                      [] i >= b.max /\ i > n /\ i >= FilledFrom(b) -> FreeSlot
                      [] OTHER -> [key |-> Junk, value |-> Junk]
<1>1. /\ n \in Nat /\ b.max \in Nat /\ n <= b.max /\ b.max >= 1
      /\ \A i \in 0 .. n - 1 : b.data[i].key \in Keys /\ Order[b.data[i].key] \in Int
  BY UsedSlots
<1>2. /\ index \in 0 .. n
      /\ \A i \in 0 .. index - 1 : Order[b.data[i].key] < Order[k]
      /\ \A i \in index .. n - 1 : Order[k] < Order[b.data[i].key]
  BY KeyFound DEF Located
<1>3. /\ b = [max |-> b.max, deleted |-> b.deleted, data |-> b.data] /\ b.deleted \in BOOLEAN
      /\ \A i \in 0 .. n - 1 : b.data[i] \in Entry
      /\ \A i \in n .. b.max - 1 : b.data[i] = FreeSlot
      /\ \A i, j \in 0 .. n - 1 : i < j => Order[b.data[i].key] < Order[b.data[j].key]
  BY DEF Filled
<1>4. NumEntries(b) = n
  BY EndFound
<1>5. max \in Nat /\ max >= n + 1 /\ max >= b.max
  <2>1. grown \in Nat /\ grown >= b.max
    BY <1>1, Grown DEF OrderAssumption
  <2> HIDE DEF grown
  <2> QED
    BY <1>1, <2>1
<1>6. c = [b EXCEPT !.max = max, !.data = [i \in 0 .. max - 1 |-> At(i)]]
  BY <1>4 DEF Opened
<1>7. Order[k] \in Int /\ slot \in Entry /\ slot.key = k
  BY DEF OrderAssumption, Entry
<1> HIDE DEF index, max, slot
<1>8. /\ \A i \in 0 .. n : At(i) = IF i < index THEN b.data[i] ELSE IF i = index THEN slot ELSE b.data[i - 1]
      /\ \A i \in n + 1 .. max - 1 : At(i) = FreeSlot
  <2>1. \A i \in 0 .. n : i < index => At(i) = b.data[i]
    BY <1>1, <1>2
  <2>2. \A i \in 0 .. n : i = index => At(i) = slot
    BY <1>1, <1>2
  <2>3. \A i \in 0 .. n : i > index => At(i) = b.data[i - 1]
    BY <1>1, <1>2
  <2>4. ASSUME NEW i \in n + 1 .. max - 1
        PROVE  At(i) = FreeSlot
    <3>1. i \in Nat /\ i > n /\ i > index /\ i < max
      BY <1>1, <1>2, <1>5
    <3>2. CASE i < b.max
      <4>1. At(i) = b.data[i]
        BY <1>1, <1>2, <3>1, <3>2
      <4>2. i \in n .. b.max - 1
        BY <1>1, <3>1, <3>2
      <4> HIDE DEF At
      <4> QED
        BY <1>3, <4>1, <4>2
    <3>3. CASE i >= b.max
      <4>1. i >= FilledFrom(b)
        <5>1. i >= b.max + 1
          BY <1>1, <3>1, <3>3 DEF max
        <5> QED
          BY <5>1 DEF FilledFrom
      <4> QED
        BY <1>1, <1>2, <3>1, <3>3, <4>1
    <3> QED
      BY <1>1, <3>1, <3>2, <3>3
  <2> HIDE DEF At
  <2>5. \A i \in 0 .. n : i < index \/ i = index \/ i > index
    BY <1>1, <1>2
  <2> QED
    BY <1>1, <1>2, <2>1, <2>2, <2>3, <2>4, <2>5
<1> HIDE DEF At, c
<1>9. c = [max |-> max, deleted |-> b.deleted, data |-> [i \in 0 .. max - 1 |-> At(i)]]
  BY <1>3, <1>6
<1>10. \A i \in 0 .. n : c.data[i] = IF i < index THEN b.data[i] ELSE IF i = index THEN slot ELSE b.data[i - 1]
  <2>1. 0 .. n \subseteq 0 .. max - 1
    BY <1>1, <1>5
  <2> QED
    BY <1>8, <1>9, <2>1
<1>11. \A i \in n + 1 .. c.max - 1 : c.data[i] = FreeSlot
  <2>1. n + 1 .. max - 1 \subseteq 0 .. max - 1
    BY <1>1, <1>5
  <2> QED
    BY <1>8, <1>9, <2>1
<1>12. \A i \in 0 .. n : c.data[i] \in Entry
  <2> TAKE i \in 0 .. n
  <2>1. CASE i < index
    <3>1. i \in 0 .. n - 1
      BY <1>1, <1>2, <2>1
    <3> QED
      BY <1>3, <1>10, <2>1, <3>1
  <2>2. CASE i = index
    BY <1>7, <1>10, <2>2
  <2>3. CASE i > index
    <3>1. i - 1 \in 0 .. n - 1 /\ ~(i < index) /\ i # index
      BY <1>1, <1>2, <2>3
    <3> QED
      BY <1>3, <1>10, <3>1
  <2> QED
    BY <1>1, <1>2, <2>1, <2>2, <2>3
<1>13. ASSUME NEW i \in 0 .. n, NEW j \in 0 .. n, i < j
       PROVE  Order[c.data[i].key] < Order[c.data[j].key]
  <2>1. CASE j < index
    <3>1. i \in 0 .. n - 1 /\ j \in 0 .. n - 1 /\ i < index
      BY <1>1, <1>2, <1>13, <2>1
    <3> QED
      BY <1>3, <1>10, <1>13, <2>1, <3>1
  <2>2. CASE j = index
    <3>1. i \in 0 .. index - 1 /\ i < index
      BY <1>1, <1>2, <1>13, <2>2
    <3> QED
      BY <1>2, <1>7, <1>10, <2>2, <3>1
  <2>3. CASE j > index /\ i = index
    <3>1. j - 1 \in index .. n - 1 /\ ~(j < index) /\ j # index
      BY <1>1, <1>2, <2>3
    <3> QED
      BY <1>2, <1>7, <1>10, <2>3, <3>1
  <2>4. CASE j > index /\ i < index
    <3>1. /\ j - 1 \in 0 .. n - 1 /\ ~(j < index) /\ j # index /\ i \in 0 .. n - 1
          /\ i < j - 1
      BY <1>1, <1>2, <2>4
    <3> QED
      BY <1>3, <1>10, <2>4, <3>1
  <2>5. CASE i > index
    <3>1. /\ j - 1 \in 0 .. n - 1 /\ i - 1 \in 0 .. n - 1 /\ i - 1 < j - 1
          /\ ~(j < index) /\ j # index /\ ~(i < index) /\ i # index
      BY <1>1, <1>2, <1>13, <2>5
    <3> QED
      BY <1>3, <1>10, <3>1
  <2> QED
    BY <1>1, <1>2, <2>1, <2>2, <2>3, <2>4, <2>5
<1>14. Filled(c, n + 1)
  <2>1. (n + 1) - 1 = n /\ n + 1 \in 0 .. c.max /\ c.max \in Nat \ {0}
    BY <1>1, <1>5, <1>9
  <2>2. c.data = [i \in 0 .. c.max - 1 |-> c.data[i]]
    BY <1>9
  <2>3. c = [max |-> c.max, deleted |-> c.deleted, data |-> c.data] /\ c.deleted \in BOOLEAN
    BY <1>3, <1>9
  <2> QED
    BY <1>11, <1>12, <1>13, <2>1, <2>2, <2>3 DEF Filled
<1> QED
  BY <1>10, <1>14 DEF Opens, c, index, slot

(* insert() adds a key that was not there with the value zero.               *)
LEMMA AddedEntries ==
    ASSUME OrderAssumption, NEW b, BodyInv(b), NEW k \in Keys
    PROVE  /\ BodyInv(Added(b, k)) /\ Added(b, k) # NullBody
           /\ EntriesOf(Added(b, k))
                = [j \in DOMAIN EntriesOf(b) \cup {k} |-> IF j \in DOMAIN EntriesOf(b) THEN EntriesOf(b)[j] ELSE Zero]
<1> DEFINE base == IF b = NullBody THEN Alloc(1) ELSE b
           l == Locate(base, k)
           m == EntriesOf(b)
           w == [j \in DOMAIN m \cup {k} |-> IF j \in DOMAIN m THEN m[j] ELSE Zero]
           a == Added(b, k)
<1>1. PICK n \in Nat : Filled(base, n)
  <2>1. CASE b = NullBody
    BY <2>1, AllocEmpty
  <2>2. CASE b # NullBody
    BY <2>2 DEF BodyInv
  <2> QED
    BY <2>1, <2>2
<1>2. EntriesOf(base) = m
  BY AllocEmpty, NoEntries
<1>3. a = IF l.found THEN base ELSE Opened(base, l.index, [key |-> k, value |-> Zero])
  BY DEF Added
<1> HIDE DEF base, m
<1>4. /\ Shows(m, base, n)
      /\ l.found <=> k \in DOMAIN m
  BY <1>1, <1>2, EntriesShown, FoundInMap
<1>5. /\ m = [j \in DOMAIN m |-> m[j]]
      /\ DOMAIN m = {base.data[i].key : i \in 0 .. n - 1}
      /\ \A i \in 0 .. n - 1 : m[base.data[i].key] = base.data[i].value
  BY <1>4 DEF Shows
<1>6. CASE l.found
  <2>1. k \in DOMAIN m /\ a = base
    BY <1>3, <1>4, <1>6
  <2>2. w = m
    <3>1. DOMAIN m \cup {k} = DOMAIN m
      BY <2>1
    <3> QED
      BY <1>5, <3>1
  <2>3. base # NullBody
    BY <1>1, UsedSlots
  <2> HIDE DEF w
  <2> QED
    BY <1>1, <1>2, <2>1, <2>2, <2>3 DEF BodyInv, w, m
<1>7. CASE ~l.found
  <2> DEFINE index == l.index
  <2>1. k \notin DOMAIN m /\ a = Opened(base, index, [key |-> k, value |-> Zero])
    BY <1>3, <1>4, <1>7
  <2>2. Opens(a, base, n, index, k)
    BY <1>1, <1>7, <2>1, OpenedFilled
  <2>3. /\ Filled(a, n + 1)
        /\ \A i \in 0 .. n : a.data[i] = IF i < index THEN base.data[i]
                                         ELSE IF i = index THEN [key |-> k, value |-> Zero]
                                         ELSE base.data[i - 1]
    BY <2>2 DEF Opens
  <2>4. Located(base, n, k, l)
    BY <1>1, KeyFound
  <2>5. index \in 0 .. n
    BY <1>7, <2>4 DEF Located
  <2> HIDE DEF l, a, index
  <2>6. \A i \in 0 .. n : a.data[i].key \in DOMAIN m \cup {k} /\ w[a.data[i].key] = a.data[i].value
    <3> TAKE i \in 0 .. n
    <3>1. CASE i < index
      <4>1. i \in 0 .. n - 1 /\ a.data[i] = base.data[i]
        BY <2>3, <2>5, <3>1
      <4>2. a.data[i].key \in DOMAIN m /\ m[a.data[i].key] = a.data[i].value
        BY <1>5, <4>1
      <4> QED
        BY <4>2
    <3>2. CASE i = index
      <4>1. a.data[i] = [key |-> k, value |-> Zero]
        BY <2>3, <3>2, <2>5
      <4> QED
        BY <2>1, <4>1
    <3>3. CASE i > index
      <4>1. i - 1 \in 0 .. n - 1 /\ ~(i < index) /\ i # index
        BY <2>5, <3>3
      <4>2. a.data[i] = base.data[i - 1]
        BY <2>3, <4>1
      <4>3. a.data[i].key \in DOMAIN m /\ m[a.data[i].key] = a.data[i].value
        BY <1>5, <4>1, <4>2
      <4> QED
        BY <4>3
    <3> QED
      BY <2>5, <3>1, <3>2, <3>3
  <2>7. ASSUME NEW j \in DOMAIN m \cup {k}
        PROVE  \E i \in 0 .. n : a.data[i].key = j
    <3>1. CASE j = k
      <4>1. a.data[index].key = k
        BY <2>3, <2>5
      <4> QED
        BY <2>5, <3>1, <4>1
    <3>2. CASE j \in DOMAIN m
      <4>1. PICK i \in 0 .. n - 1 : base.data[i].key = j
        BY <1>5, <3>2
      <4>2. CASE i < index
        <5>1. i \in 0 .. n /\ a.data[i] = base.data[i]
          BY <2>3, <2>5, <4>2
        <5> QED
          BY <4>1, <5>1
      <4>3. CASE ~(i < index)
        <5>1. i + 1 \in 0 .. n /\ ~(i + 1 < index) /\ i + 1 # index /\ (i + 1) - 1 = i
          BY <2>5, <4>3
        <5>2. a.data[i + 1] = base.data[i]
          BY <2>3, <5>1
        <5> QED
          BY <4>1, <5>1, <5>2
      <4> QED
        BY <4>2, <4>3
    <3> QED
      BY <3>1, <3>2
  <2>8. Shows(w, a, n + 1)
    <3>1. (n + 1) - 1 = n
      OBVIOUS
    <3>2. DOMAIN w = {a.data[i].key : i \in 0 .. n}
      BY <2>6, <2>7
    <3>3. w = [j \in DOMAIN w |-> w[j]]
      OBVIOUS
    <3> HIDE DEF w
    <3> QED
      BY <2>6, <3>1, <3>2, <3>3 DEF Shows
  <2>9. EntriesOf(a) = w
    <3>1. n + 1 \in Nat /\ Shows(EntriesOf(a), a, n + 1)
      BY <2>3, EntriesShown
    <3> HIDE DEF w
    <3> QED
      BY <2>8, <3>1, ShownOnce
  <2>10. a # NullBody
    BY <2>3, UsedSlots
  <2> HIDE DEF w
  <2> QED
    BY <2>3, <2>9, <2>10 DEF BodyInv, w, m, a
<1> QED
  BY <1>6, <1>7

-----------------------------------------------------------------------------
\* Of the n entries of b, the one at index is not in c, which has the mark.
Closes(c, b, n, index) ==
    /\ Filled(c, n - 1) /\ c.deleted = TRUE
    /\ \A i \in 0 .. n - 2 : c.data[i] = IF i < index THEN b.data[i] ELSE b.data[i + 1]

(* remove() closes the gap.                                                  *)
LEMMA ClosedFilled ==
    ASSUME OrderAssumption, NEW b, NEW n, Filled(b, n), NEW k \in Keys, Locate(b, k).found
    PROVE  Closes(Without(b, k), b, n, Locate(b, k).index)
<1> DEFINE index == Locate(b, k).index
           c == Without(b, k)
           At(i) == IF i = n - 1 THEN FreeSlot
                    ELSE IF index <= i /\ i < n THEN b.data[i + 1]
                    ELSE b.data[i]
<1>1. n \in Nat /\ b.max \in Nat /\ n <= b.max /\ b.max >= 1
  BY UsedSlots
<1>2. index \in 0 .. n - 1
  BY KeyFound DEF Located
<1>3. /\ b = [max |-> b.max, deleted |-> b.deleted, data |-> b.data]
      /\ b.data = [i \in 0 .. b.max - 1 |-> b.data[i]]
      /\ \A i \in 0 .. n - 1 : b.data[i] \in Entry
      /\ \A i \in n .. b.max - 1 : b.data[i] = FreeSlot
      /\ \A i, j \in 0 .. n - 1 : i < j => Order[b.data[i].key] < Order[b.data[j].key]
  BY DEF Filled
<1>4. NumEntries(b) = n
  BY EndFound
<1>5. c = [max |-> b.max, deleted |-> TRUE, data |-> [i \in 0 .. b.max - 1 |-> At(i)]]
  <2>1. Without_NoMark(b, k) = [b EXCEPT !.data = [i \in DOMAIN b.data |-> At(i)]]
    BY <1>4 DEF Without_NoMark
  <2>2. DOMAIN b.data = 0 .. b.max - 1
    BY <1>3
  <2> HIDE DEF At
  <2>3. Without_NoMark(b, k) = [max |-> b.max, deleted |-> b.deleted, data |-> [i \in 0 .. b.max - 1 |-> At(i)]]
    BY <1>3, <2>1, <2>2
  <2>4. c = [Without_NoMark(b, k) EXCEPT !.deleted = TRUE]
    BY DEF Without
  <2> DEFINE d == [i \in 0 .. b.max - 1 |-> At(i)]
             w == Without_NoMark(b, k)
  <2>5. w = [max |-> b.max, deleted |-> b.deleted, data |-> d] /\ c = [w EXCEPT !.deleted = TRUE]
    BY <2>3, <2>4
  <2> HIDE DEF c, d, w
  <2>6. c = [max |-> b.max, deleted |-> TRUE, data |-> d]
    BY <2>5
  <2> QED
    BY <2>6 DEF d
<1> HIDE DEF index, c
<1>6. /\ \A i \in 0 .. n - 2 : At(i) = IF i < index THEN b.data[i] ELSE b.data[i + 1]
      /\ \A i \in n - 1 .. b.max - 1 : At(i) = FreeSlot
  <2>1. \A i \in 0 .. n - 2 : At(i) = IF i < index THEN b.data[i] ELSE b.data[i + 1]
    BY <1>1, <1>2
  <2>2. ASSUME NEW i \in n - 1 .. b.max - 1
        PROVE  At(i) = FreeSlot
    <3>1. CASE i = n - 1
      BY <3>1
    <3>2. CASE i # n - 1
      <4>1. i \in n .. b.max - 1 /\ ~(index <= i /\ i < n)
        BY <1>1, <1>2, <3>2
      <4> QED
        BY <1>3, <3>2, <4>1
    <3> QED
      BY <3>1, <3>2
  <2> QED
    BY <2>1, <2>2
<1> HIDE DEF At
<1>7. \A i \in 0 .. n - 2 : c.data[i] = IF i < index THEN b.data[i] ELSE b.data[i + 1]
  <2>1. 0 .. n - 2 \subseteq 0 .. b.max - 1
    BY <1>1
  <2> QED
    BY <1>5, <1>6, <2>1
<1>8. \A i \in n - 1 .. c.max - 1 : c.data[i] = FreeSlot
  <2>1. n - 1 .. b.max - 1 \subseteq 0 .. b.max - 1
    BY <1>1, <1>2
  <2> QED
    BY <1>5, <1>6, <2>1
<1>9. \A i \in 0 .. n - 2 : c.data[i] \in Entry
  <2> TAKE i \in 0 .. n - 2
  <2>1. i \in 0 .. n - 1 /\ i + 1 \in 0 .. n - 1
    BY <1>1
  <2> QED
    BY <1>3, <1>7, <2>1
<1>10. ASSUME NEW i \in 0 .. n - 2, NEW j \in 0 .. n - 2, i < j
       PROVE  Order[c.data[i].key] < Order[c.data[j].key]
  <2>1. i \in 0 .. n - 1 /\ i + 1 \in 0 .. n - 1 /\ j \in 0 .. n - 1 /\ j + 1 \in 0 .. n - 1
    BY <1>1
  <2>2. i < j + 1 /\ i + 1 < j + 1 /\ (i < index \/ ~(i < index)) /\ (j < index => i < index)
    BY <1>1, <1>2, <1>10
  <2>3. CASE j < index
    BY <1>3, <1>7, <1>10, <2>1, <2>2, <2>3
  <2>4. CASE ~(j < index) /\ i < index
    BY <1>3, <1>7, <1>10, <2>1, <2>2, <2>4
  <2>5. CASE ~(j < index) /\ ~(i < index)
    BY <1>3, <1>7, <1>10, <2>1, <2>2, <2>5
  <2> QED
    BY <2>3, <2>4, <2>5, <2>2
<1>11. Filled(c, n - 1)
  <2>1. (n - 1) - 1 = n - 2 /\ n - 1 \in 0 .. c.max /\ c.max \in Nat \ {0}
    BY <1>1, <1>2, <1>5
  <2>2. c.data = [i \in 0 .. c.max - 1 |-> c.data[i]]
    BY <1>5
  <2>3. c = [max |-> c.max, deleted |-> c.deleted, data |-> c.data] /\ c.deleted \in BOOLEAN
    BY <1>5
  <2> QED
    BY <1>8, <1>9, <1>10, <2>1, <2>2, <2>3 DEF Filled
<1>12. c.deleted = TRUE
  BY <1>5
<1> QED
  BY <1>7, <1>11, <1>12 DEF Closes, c, index

\* The map m without k.
Less(m, k) == [j \in DOMAIN m \ {k} |-> m[j]]

(* What is left has the other entries.                                       *)
LEMMA ClosedEntries ==
    ASSUME OrderAssumption, NEW b, NEW n, Filled(b, n), NEW k \in Keys,
           NEW index \in 0 .. n - 1, b.data[index].key = k, NEW c, Closes(c, b, n, index)
    PROVE  EntriesOf(c) = Less(EntriesOf(b), k)
<1> DEFINE m == EntriesOf(b)
           w == [j \in DOMAIN m \ {k} |-> m[j]]
<1>1. n \in Nat
  BY UsedSlots
<1>2. /\ DOMAIN m = {b.data[i].key : i \in 0 .. n - 1}
      /\ \A i \in 0 .. n - 1 : m[b.data[i].key] = b.data[i].value
  BY EntriesShown DEF Shows
<1>3. /\ Filled(c, n - 1)
      /\ \A i \in 0 .. n - 2 : c.data[i] = IF i < index THEN b.data[i] ELSE b.data[i + 1]
  BY DEF Closes
<1> HIDE DEF m
<1>4. ASSUME NEW i \in 0 .. n - 2
      PROVE  c.data[i].key \in DOMAIN m \ {k} /\ w[c.data[i].key] = c.data[i].value
  <2>1. PICK j \in 0 .. n - 1 : c.data[i] = b.data[j] /\ j # index
    <3>1. CASE i < index
      <4>1. i \in 0 .. n - 1 /\ i # index
        BY <1>1, <3>1
      <4> QED
        BY <1>3, <3>1, <4>1
    <3>2. CASE ~(i < index)
      <4>1. i + 1 \in 0 .. n - 1 /\ i + 1 # index
        BY <1>1, <3>2
      <4> QED
        BY <1>3, <3>2, <4>1
    <3> QED
      BY <3>1, <3>2
  <2>2. b.data[j].key # k
    BY <2>1, KeysDiffer
  <2>3. b.data[j].key \in DOMAIN m /\ m[b.data[j].key] = b.data[j].value
    BY <1>2
  <2> QED
    BY <2>1, <2>2, <2>3
<1>5. ASSUME NEW h \in DOMAIN m \ {k}
      PROVE  \E i \in 0 .. n - 2 : c.data[i].key = h
  <2>1. PICK j \in 0 .. n - 1 : b.data[j].key = h
    BY <1>2
  <2>2. j # index
    BY <2>1
  <2>3. CASE j < index
    <3>1. j \in 0 .. n - 2 /\ c.data[j] = b.data[j]
      BY <1>1, <1>3, <2>3
    <3> QED
      BY <2>1, <3>1
  <2>4. CASE j > index
    <3>1. j - 1 \in 0 .. n - 2 /\ ~(j - 1 < index) /\ (j - 1) + 1 = j
      BY <1>1, <2>4
    <3>2. c.data[j - 1] = b.data[j]
      BY <1>3, <3>1
    <3> QED
      BY <2>1, <3>1, <3>2
  <2> QED
    BY <1>1, <2>2, <2>3, <2>4
<1>6. Shows(w, c, n - 1)
  <2>1. (n - 1) - 1 = n - 2
    BY <1>1
  <2>2. DOMAIN w = {c.data[i].key : i \in 0 .. n - 2}
    <3>1. DOMAIN w = DOMAIN m \ {k}
      OBVIOUS
    <3> HIDE DEF w
    <3>2. \A i \in 0 .. n - 2 : c.data[i].key \in DOMAIN w
      BY <1>4, <3>1
    <3>3. \A h \in DOMAIN w : \E i \in 0 .. n - 2 : c.data[i].key = h
      BY <1>5, <3>1
    <3> QED
      BY <3>2, <3>3
  <2>3. w = [j \in DOMAIN w |-> w[j]]
    OBVIOUS
  <2> HIDE DEF w
  <2> QED
    BY <1>4, <2>1, <2>2, <2>3 DEF Shows
<1>7. Shows(EntriesOf(c), c, n - 1)
  BY <1>3, EntriesShown
<1> HIDE DEF w
<1>8. EntriesOf(c) = w
  BY <1>6, <1>7, ShownOnce
<1> QED
  BY <1>8 DEF w, m, Less

\* The n entries of c are those of b.
Same(c, b, n) == Filled(c, n) /\ \A i \in 0 .. n - 1 : c.data[i] = b.data[i]

(* Then the maps are the same, too.                                          *)
LEMMA SameEntries ==
    ASSUME OrderAssumption, NEW b, NEW n, Filled(b, n), NEW c, Same(c, b, n)
    PROVE  EntriesOf(c) = EntriesOf(b)
<1>1. Filled(c, n) /\ \A i \in 0 .. n - 1 : c.data[i] = b.data[i]
  BY DEF Same
<1>2. Shows(EntriesOf(b), b, n) /\ Shows(EntriesOf(c), c, n)
  BY <1>1, EntriesShown
<1>3. Shows(EntriesOf(b), c, n)
  BY <1>1, <1>2 DEF Shows
<1> QED
  BY <1>2, <1>3, ShownOnce

(* Clearing the mark changes no entry.                                       *)
LEMMA UnmarkedSame ==
    ASSUME OrderAssumption, NEW b, NEW n, Filled(b, n)
    PROVE  Same(Unmarked(b), b, n) /\ Unmarked(b).deleted = FALSE
<1> DEFINE c == Unmarked(b)
<1>1. b # NullBody
  BY UsedSlots
<1>2. b = [max |-> b.max, deleted |-> b.deleted, data |-> b.data]
  BY DEF Filled
<1>3. c = [max |-> b.max, deleted |-> FALSE, data |-> b.data]
  BY <1>1, <1>2 DEF Unmarked
<1> HIDE DEF c
<1>4. c.max = b.max /\ c.data = b.data /\ c.deleted = FALSE
  BY <1>3
<1>5. Filled(c, n)
  BY <1>3, <1>4 DEF Filled
<1> QED
  BY <1>4, <1>5 DEF Same, c

(* The copy has the same entries in a body of the same size.                 *)
LEMMA CopySame ==
    ASSUME OrderAssumption, NEW b, NEW n, Filled(b, n)
    PROVE  Same(CopyOf(b), b, n)
<1> DEFINE c == CopyOf(b)
<1>1. /\ b # NullBody /\ n \in Nat /\ b.max \in Nat /\ n <= b.max /\ b.max >= 1
      /\ NumEntries(b) = n
  BY UsedSlots, EndFound
<1>2. c = [max |-> b.max, deleted |-> FALSE,
           data |-> [i \in 0 .. b.max - 1 |-> IF i < n THEN b.data[i] ELSE FreeSlot]]
  <2>1. c = [Alloc(b.max) EXCEPT !.data = [i \in DOMAIN Alloc(b.max).data |->
                                             IF i < n THEN b.data[i] ELSE Alloc(b.max).data[i]]]
    BY <1>1 DEF CopyOf
  <2> QED
    BY <2>1 DEF Alloc
<1> HIDE DEF c
<1>3. \A i \in 0 .. n - 1 : c.data[i] = b.data[i]
  <2>1. \A i \in 0 .. n - 1 : i \in 0 .. b.max - 1 /\ i < n
    BY <1>1
  <2> QED
    BY <1>2, <2>1
<1>4. \A i \in n .. b.max - 1 : c.data[i] = FreeSlot
  <2>1. \A i \in n .. b.max - 1 : i \in 0 .. b.max - 1 /\ ~(i < n)
    BY <1>1
  <2> QED
    BY <1>2, <2>1
<1>5. Filled(c, n)
  <2>1. /\ c.max = b.max /\ c.deleted \in BOOLEAN
        /\ c = [max |-> c.max, deleted |-> c.deleted, data |-> c.data]
        /\ c.data = [i \in 0 .. b.max - 1 |-> c.data[i]]
    BY <1>2
  <2> QED
    BY <1>1, <1>3, <1>4, <2>1 DEF Filled
<1> QED
  BY <1>3, <1>5 DEF Same, c

(* A value assigned at the place of a key is its value in the map.           *)
LEMMA AssignedEntries ==
    ASSUME OrderAssumption, NEW b, NEW n, Filled(b, n), NEW index \in 0 .. n - 1, NEW v \in Values
    PROVE  LET c == [b EXCEPT !.data[index].value = v]
               k == b.data[index].key
           IN  /\ Filled(c, n) /\ c.deleted = b.deleted
               /\ \A i \in 0 .. n - 1 : c.data[i].key = b.data[i].key
               /\ k \in DOMAIN EntriesOf(b) /\ EntriesOf(c) = [EntriesOf(b) EXCEPT ![k] = v]
<1> DEFINE c == [b EXCEPT !.data[index].value = v]
           k == b.data[index].key
           m == EntriesOf(b)
           w == [m EXCEPT ![k] = v]
<1>1. n \in Nat /\ b.max \in Nat /\ n <= b.max /\ b.max >= 1
  BY UsedSlots
<1>2. /\ b = [max |-> b.max, deleted |-> b.deleted, data |-> b.data] /\ b.deleted \in BOOLEAN
      /\ b.data = [i \in 0 .. b.max - 1 |-> b.data[i]]
      /\ \A i \in 0 .. n - 1 : b.data[i] \in Entry
      /\ \A i \in n .. b.max - 1 : b.data[i] = FreeSlot
      /\ \A i, j \in 0 .. n - 1 : i < j => Order[b.data[i].key] < Order[b.data[j].key]
      /\ b.max \in Nat \ {0} /\ n \in 0 .. b.max
  BY DEF Filled
<1>3. b.data[index] = [key |-> k, value |-> b.data[index].value] /\ k \in Keys
  BY <1>2 DEF Entry
<1>4. c = [max |-> b.max, deleted |-> b.deleted, data |-> [b.data EXCEPT ![index] = [key |-> k, value |-> v]]]
  <2>1. c = [b EXCEPT !.data = [b.data EXCEPT ![index] = [b.data[index] EXCEPT !.value = v]]]
    OBVIOUS
  <2>2. [b.data[index] EXCEPT !.value = v] = [key |-> k, value |-> v]
    BY <1>3
  <2> HIDE DEF c, k
  <2> QED
    BY <1>2, <2>1, <2>2
<1> HIDE DEF c, k
<1>5. /\ c.max = b.max /\ c.deleted = b.deleted
      /\ c.data = [i \in 0 .. b.max - 1 |-> IF i = index THEN [key |-> k, value |-> v] ELSE b.data[i]]
  BY <1>2, <1>4
<1>6. \A i \in 0 .. n - 1 : c.data[i] = IF i = index THEN [key |-> k, value |-> v] ELSE b.data[i]
  <2>1. 0 .. n - 1 \subseteq 0 .. b.max - 1
    BY <1>1
  <2> QED
    BY <1>5, <2>1
<1>7. \A i \in 0 .. n - 1 : c.data[i].key = b.data[i].key
  BY <1>6 DEF k
<1>8. \A i \in n .. b.max - 1 : c.data[i] = FreeSlot
  <2>1. \A i \in n .. b.max - 1 : i \in 0 .. b.max - 1 /\ i # index
    BY <1>1
  <2> QED
    BY <1>2, <1>5, <2>1
<1>9. \A i \in 0 .. n - 1 : c.data[i] \in Entry
  <2>1. [key |-> k, value |-> v] \in Entry
    BY <1>3 DEF Entry
  <2>2. \A i \in 0 .. n - 1 : b.data[i] \in Entry
    BY <1>2
  <2> QED
    BY ONLY <1>6, <2>1, <2>2
<1>10. Filled(c, n)
  <2>1. c = [max |-> c.max, deleted |-> c.deleted, data |-> c.data] /\ c.data = [i \in 0 .. c.max - 1 |-> c.data[i]]
    BY <1>4, <1>5
  <2> QED
    BY <1>2, <1>5, <1>7, <1>8, <1>9, <2>1 DEF Filled
<1>11. /\ m = [j \in DOMAIN m |-> m[j]]
       /\ DOMAIN m = {b.data[i].key : i \in 0 .. n - 1}
       /\ \A i \in 0 .. n - 1 : m[b.data[i].key] = b.data[i].value
  BY EntriesShown DEF Shows
<1> HIDE DEF m
<1>12. k \in DOMAIN m
  BY <1>11 DEF k
<1>13. DOMAIN w = DOMAIN m /\ \A j \in DOMAIN m : w[j] = IF j = k THEN v ELSE m[j]
  OBVIOUS
<1>14. Shows(w, c, n)
  <2>1. w = [j \in DOMAIN w |-> w[j]]
    OBVIOUS
  <2> HIDE DEF w
  <2>2. DOMAIN w = {c.data[i].key : i \in 0 .. n - 1}
    BY <1>7, <1>11, <1>13
  <2>3. ASSUME NEW i \in 0 .. n - 1
        PROVE  w[c.data[i].key] = c.data[i].value
    <3>1. b.data[i].key \in DOMAIN m
      BY <1>11
    <3>2. CASE i = index
      BY <1>6, <1>12, <1>13, <3>2
    <3>3. CASE i # index
      <4>1. b.data[i].key # k
        BY <3>3, KeysDiffer DEF k
      <4> QED
        BY <1>6, <1>11, <1>13, <3>1, <3>3, <4>1
    <3> QED
      BY <3>2, <3>3
  <2> QED
    BY <2>1, <2>2, <2>3 DEF Shows
<1> HIDE DEF w
<1>15. EntriesOf(c) = w
  <2>1. Shows(EntriesOf(c), c, n)
    BY <1>10, EntriesShown
  <2> QED
    BY <1>14, <2>1, ShownOnce
<1> QED
  BY <1>5, <1>7, <1>10, <1>12, <1>15 DEF c, k, m, w

-----------------------------------------------------------------------------
\* What an iterator t on the array b counts on.
Ready(b, t) ==
    /\ t = [sorted |-> t.sorted, keys |-> t.keys, pos |-> t.pos, n |-> t.n]
    /\ t.sorted \in BOOLEAN /\ t.n \in Nat /\ t.pos \in 0 .. t.n
    /\ b = NullBody => ~t.sorted /\ t.n = 0
    /\ b # NullBody /\ ~t.sorted => Filled(b, t.n - Back(b, t)) /\ Back(b, t) <= t.pos
    /\ b # NullBody /\ t.sorted =>
         /\ \A i \in t.pos + 1 .. t.n : t.keys[i] \in DOMAIN EntriesOf(b)
         /\ \A i, j \in 1 .. t.n : t.keys[i] = t.keys[j] => i = j

(* What it has still to deliver.                                             *)
LEMMA RestOf ==
    ASSUME NEW b, NEW t, Ready(b, t)
    PROVE  /\ b = NullBody => AtEnd(b, t) /\ Rest(b, t) = {}
           /\ b # NullBody /\ t.sorted => Rest(b, t) = {t.keys[j] : j \in t.pos + 1 .. t.n}
           /\ b # NullBody /\ ~t.sorted =>
                Rest(b, t) = {b.data[j].key : j \in t.pos - Back(b, t) .. t.n - Back(b, t) - 1}
           /\ b # NullBody => (AtEnd(b, t) <=> t.pos = t.n)
<1>1. t.sorted \in BOOLEAN /\ t.n \in Nat /\ t.pos \in Nat /\ t.pos <= t.n /\ Back(b, t) \in {0, 1}
  BY DEF Ready, Back
<1>2. b # NullBody => (AtEnd(b, t) <=> t.pos = t.n)
  BY <1>1 DEF AtEnd
<1>3. ASSUME b # NullBody, t.pos = t.n
      PROVE  t.pos + 1 .. t.n = {} /\ t.pos - Back(b, t) .. t.n - Back(b, t) - 1 = {}
  BY <1>1, <1>3
<1>4. b = NullBody => AtEnd(b, t) /\ Rest(b, t) = {}
  BY DEF AtEnd, Rest
<1>5. CASE t.pos = t.n
  BY <1>1, <1>2, <1>3, <1>4, <1>5 DEF Rest
<1>6. CASE t.pos # t.n
  BY <1>2, <1>4, <1>6 DEF Rest
<1> QED
  BY <1>5, <1>6

(* Removing the entry delivered last takes nothing away from what is left.   *)
LEMMA RemovedUnder ==
    ASSUME OrderAssumption, NEW b, NEW n, Filled(b, n), NEW k \in Keys, Has(b, k),
           NEW t, Ready(b, t), k \in Current(b, t), k \notin Rest(b, t)
    PROVE  Ready(Without(b, k), t) /\ Rest(Without(b, k), t) = Rest(b, t)
<1> DEFINE c == Without(b, k)
           index == Locate(b, k).index
           m == EntriesOf(b)
<1>1. b # NullBody /\ n \in Nat
  BY UsedSlots
<1>2. index \in 0 .. n - 1 /\ b.data[index].key = k /\ Locate(b, k).found
  BY FoundInMap
<1>3. Closes(c, b, n, index)
  BY <1>2, ClosedFilled
<1>4. EntriesOf(c) = [j \in DOMAIN m \ {k} |-> m[j]]
  BY <1>2, <1>3, ClosedEntries DEF Less
<1>5. /\ Filled(c, n - 1) /\ c.deleted = TRUE
      /\ \A i \in 0 .. n - 2 : c.data[i] = IF i < index THEN b.data[i] ELSE b.data[i + 1]
  BY <1>3 DEF Closes
<1>6. c # NullBody
  BY <1>5, UsedSlots
<1> HIDE DEF c, index, m
<1>7. /\ t = [sorted |-> t.sorted, keys |-> t.keys, pos |-> t.pos, n |-> t.n]
      /\ t.sorted \in BOOLEAN /\ t.n \in Nat /\ t.pos \in 0 .. t.n
  BY DEF Ready
<1>8. CASE t.sorted
  <2>1. /\ \A i \in t.pos + 1 .. t.n : t.keys[i] \in DOMAIN m
        /\ \A i, j \in 1 .. t.n : t.keys[i] = t.keys[j] => i = j
    BY <1>1, <1>8 DEF Ready, m
  <2>2. Rest(b, t) = {t.keys[j] : j \in t.pos + 1 .. t.n}
    BY <1>1, <1>8, RestOf
  <2>3. \A i \in t.pos + 1 .. t.n : t.keys[i] \in DOMAIN EntriesOf(c)
    BY <1>4, <2>1, <2>2
  <2>4. Ready(c, t)
    BY <1>6, <1>7, <1>8, <2>1, <2>3 DEF Ready
  <2>5. Rest(c, t) = {t.keys[j] : j \in t.pos + 1 .. t.n}
    BY <1>6, <1>8, <2>4, RestOf
  <2> QED
    BY <2>2, <2>4, <2>5 DEF c
<1>9. CASE ~t.sorted
  <2>1. t.pos # 0 /\ ~b.deleted /\ k = b.data[t.pos - 1].key
    BY <1>1, <1>9 DEF Current
  <2>2. Back(b, t) = 0 /\ Back(c, t) = 1
    BY <1>5, <1>6, <1>9, <2>1 DEF Back
  <2>3. Filled(b, t.n)
    <3>1. Filled(b, t.n - Back(b, t))
      BY <1>1, <1>9 DEF Ready
    <3> QED
      BY <1>7, <2>2, <3>1
  <2>4. n = t.n
    <3>1. NumEntries(b) = n /\ NumEntries(b) = t.n
      BY <2>3, EndFound
    <3> QED
      BY <3>1
  <2>5. index = t.pos - 1
    <3>1. t.pos - 1 \in 0 .. n - 1
      BY <1>7, <2>1, <2>4
    <3> QED
      BY <1>2, <2>1, <3>1, KeysDiffer
  <2>6. Ready(c, t)
    <3>1. Filled(c, t.n - Back(c, t)) /\ Back(c, t) <= t.pos
      BY <1>5, <1>7, <2>1, <2>2, <2>4
    <3> QED
      BY <1>6, <1>7, <1>9, <3>1 DEF Ready
  <2>7. Rest(b, t) = {b.data[j].key : j \in t.pos .. t.n - 1}
    <3>1. Rest(b, t) = {b.data[j].key : j \in t.pos - 0 .. t.n - 0 - 1}
      BY <1>1, <1>9, <2>2, RestOf
    <3>2. t.pos - 0 = t.pos /\ t.n - 0 - 1 = t.n - 1
      BY <1>7
    <3> QED
      BY <3>1, <3>2
  <2>8. Rest(c, t) = {c.data[j].key : j \in t.pos - 1 .. t.n - 2}
    <3>1. Rest(c, t) = {c.data[j].key : j \in t.pos - 1 .. t.n - 1 - 1}
      BY <1>6, <1>9, <2>2, <2>6, RestOf
    <3>2. t.n - 1 - 1 = t.n - 2
      BY <1>7
    <3> QED
      BY <3>1, <3>2
  <2>9. \A j \in t.pos - 1 .. t.n - 2 : j + 1 \in t.pos .. t.n - 1 /\ c.data[j] = b.data[j + 1]
    <3> TAKE j \in t.pos - 1 .. t.n - 2
    <3>1. j \in 0 .. n - 2 /\ ~(j < index) /\ j + 1 \in t.pos .. t.n - 1
      BY <1>7, <2>1, <2>4, <2>5
    <3> QED
      BY <1>5, <3>1
  <2>10. \A j \in t.pos .. t.n - 1 : j - 1 \in t.pos - 1 .. t.n - 2 /\ (j - 1) + 1 = j
    BY <1>7
  <2>11. Rest(c, t) = Rest(b, t)
    <3>1. Rest(c, t) \subseteq Rest(b, t)
      BY <2>7, <2>8, <2>9
    <3>2. \A j \in t.pos .. t.n - 1 : \E i \in t.pos - 1 .. t.n - 2 : b.data[j] = c.data[i]
      BY <2>9, <2>10
    <3>3. Rest(b, t) \subseteq Rest(c, t)
      BY <2>7, <2>8, <3>2
    <3> QED
      BY <3>1, <3>3
  <2> QED
    BY <2>6, <2>11 DEF c
<1> QED
  BY <1>7, <1>8, <1>9

\* An iterator that starts on b, with a sort function or without.
Started(b, sorted) ==
    [sorted |-> sorted /\ b # NullBody,
     keys |-> IF sorted THEN [j \in 1 .. NumEntries(b) |-> b.data[NumEntries(b) - j].key] ELSE <<>>,
     pos |-> 0, n |-> NumEntries(b)]

(* It has all the entries to deliver.                                        *)
LEMMA StartedReady ==
    ASSUME OrderAssumption, NEW b, BodyInv(b), NEW sorted \in BOOLEAN
    PROVE  /\ Ready(Unmarked(b), Started(b, sorted))
           /\ Rest(Unmarked(b), Started(b, sorted)) = DOMAIN EntriesOf(b)
<1> DEFINE c == Unmarked(b)
           t == Started(b, sorted)
<1>1. CASE b = NullBody
  <2>1. c = NullBody
    BY <1>1 DEF Unmarked
  <2>2. t.sorted = FALSE /\ t.n = 0 /\ t.pos = 0 /\ t = [sorted |-> t.sorted, keys |-> t.keys, pos |-> t.pos, n |-> t.n]
    BY <1>1, NoEntries DEF Started
  <2> HIDE DEF c, t
  <2>3. Ready(c, t)
    <3>1. t.sorted \in BOOLEAN /\ t.n \in Nat /\ t.pos \in 0 .. t.n /\ ~t.sorted /\ t.n = 0
      <4>1. t.n \in Nat /\ t.n = 0 /\ t.pos = 0
        BY <2>2
      <4>2. 0 \in 0 .. 0
        OBVIOUS
      <4>3. t.sorted \in BOOLEAN /\ ~t.sorted
        BY <2>2
      <4> QED
        BY ONLY <4>1, <4>2, <4>3
    <3>2. c # NullBody => FALSE
      BY <2>1
    <3> QED
      BY ONLY <2>2, <3>1, <3>2 DEF Ready
  <2>4. Rest(c, t) = {} /\ DOMAIN EntriesOf(b) = {}
    BY <1>1, <2>1, <2>3, RestOf, NoEntries
  <2> QED
    BY <2>3, <2>4 DEF c, t
<1>2. ASSUME NEW n \in Nat, Filled(b, n)
      PROVE  Ready(c, t) /\ Rest(c, t) = DOMAIN EntriesOf(b)
  <2>1. b # NullBody /\ NumEntries(b) = n
    BY <1>2, EndFound, UsedSlots
  <2>2. Same(c, b, n) /\ c.deleted = FALSE
    BY <1>2, UnmarkedSame
  <2>3. Filled(c, n) /\ (\A i \in 0 .. n - 1 : c.data[i] = b.data[i]) /\ EntriesOf(c) = EntriesOf(b)
    BY <1>2, <2>2, SameEntries DEF Same
  <2>4. c # NullBody
    BY <2>3, UsedSlots
  <2>5. /\ t.sorted = sorted /\ t.n = n /\ t.pos = 0
        /\ t = [sorted |-> t.sorted, keys |-> t.keys, pos |-> t.pos, n |-> t.n]
        /\ sorted => t.keys = [j \in 1 .. n |-> b.data[n - j].key]
    BY <2>1 DEF Started
  <2>6. DOMAIN EntriesOf(b) = {b.data[i].key : i \in 0 .. n - 1}
    BY <1>2, EntriesShown DEF Shows
  <2> HIDE DEF c, t
  <2>7. Back(c, t) = 0
    BY <2>2 DEF Back
  <2>8. CASE sorted
    <3>1. \A j \in 1 .. n : n - j \in 0 .. n - 1 /\ t.keys[j] = b.data[n - j].key
      BY <1>2, <2>5, <2>8
    <3>2. \A i \in 0 .. n - 1 : n - i \in 1 .. n /\ n - (n - i) = i
      BY <1>2
    <3>3. \A i, j \in 1 .. n : t.keys[i] = t.keys[j] => i = j
      <4> TAKE i, j \in 1 .. n
      <4> HAVE t.keys[i] = t.keys[j]
      <4>1. n - i = n - j
        BY <1>2, <3>1, KeysDiffer
      <4> QED
        BY <4>1
    <3>4. \A i \in 1 .. n : t.keys[i] \in DOMAIN EntriesOf(c)
      BY <2>3, <2>6, <3>1
    <3>5. 0 + 1 = 1
      OBVIOUS
    <3>6. Ready(c, t)
      BY <2>4, <2>5, <2>8, <3>3, <3>4, <3>5 DEF Ready
    <3>7. Rest(c, t) = {t.keys[j] : j \in 1 .. n}
      BY <2>4, <2>5, <2>8, <3>5, <3>6, RestOf
    <3>8. \A i \in 0 .. n - 1 : \E j \in 1 .. n : t.keys[j] = b.data[i].key
      <4> TAKE i \in 0 .. n - 1
      <4>1. n - i \in 1 .. n /\ t.keys[n - i] = b.data[n - (n - i)].key /\ n - (n - i) = i
        BY <3>1, <3>2
      <4> QED
        BY <4>1
    <3>9. Rest(c, t) = {b.data[i].key : i \in 0 .. n - 1}
      BY <3>1, <3>7, <3>8
    <3> QED
      BY <2>6, <3>6, <3>9
  <2>9. CASE ~sorted
    <3>1. Ready(c, t)
      <4>1. t.n - Back(c, t) = n
        BY <2>5, <2>7
      <4> QED
        BY <2>3, <2>4, <2>5, <2>7, <2>9, <4>1 DEF Ready
    <3>2. Rest(c, t) = {c.data[j].key : j \in 0 - 0 .. n - 0 - 1}
      BY <2>4, <2>5, <2>7, <2>9, <3>1, RestOf
    <3>3. Rest(c, t) = {c.data[j].key : j \in 0 .. n - 1}
      <4>1. 0 - 0 = 0 /\ n - 0 - 1 = n - 1
        OBVIOUS
      <4> QED
        BY <3>2, <4>1
    <3>4. Rest(c, t) = {b.data[i].key : i \in 0 .. n - 1}
      BY <2>3, <3>3
    <3> QED
      BY <2>6, <3>1, <3>4
  <2> QED
    BY <2>8, <2>9
<1> QED
  BY <1>1, <1>2 DEF BodyInv

(* The entries are a function on keys.                                       *)
LEMMA EntriesFunction ==
    ASSUME OrderAssumption, NEW b, BodyInv(b)
    PROVE  LET m == EntriesOf(b) IN m = [k \in DOMAIN m |-> m[k]] /\ DOMAIN m \subseteq Keys
<1> DEFINE m == EntriesOf(b)
<1>1. CASE b = NullBody
  BY <1>1, NoEntries
<1>2. ASSUME NEW n \in Nat, Filled(b, n)
      PROVE  m = [k \in DOMAIN m |-> m[k]] /\ DOMAIN m \subseteq Keys
  <2>1. m = [k \in DOMAIN m |-> m[k]] /\ DOMAIN m = {b.data[i].key : i \in 0 .. n - 1}
    BY <1>2, EntriesShown DEF Shows
  <2>2. \A i \in 0 .. n - 1 : b.data[i].key \in Keys
    BY <1>2, UsedSlots
  <2> HIDE DEF m
  <2> QED
    BY <2>1, <2>2
<1> QED
  BY <1>1, <1>2 DEF BodyInv

(* An iterator that moves on is as it was but for its place and end.         *)
LEMMA Moved ==
    ASSUME NEW t, NEW p, NEW n, t = [sorted |-> t.sorted, keys |-> t.keys, pos |-> t.pos, n |-> t.n]
    PROVE  LET rec == [sorted |-> t.sorted, keys |-> t.keys, pos |-> p, n |-> n] IN
           /\ [t EXCEPT !.pos = p, !.n = n] = rec
           /\ n = t.n => [t EXCEPT !.pos = p] = rec
<1> DEFINE s == t.sorted
           ks == t.keys
           q == t.pos
           e == t.n
<1>1. t = [sorted |-> s, keys |-> ks, pos |-> q, n |-> e]
  OBVIOUS
<1> HIDE DEF s, ks, q, e
<1>2. [t EXCEPT !.pos = p, !.n = n] = [sorted |-> s, keys |-> ks, pos |-> p, n |-> n]
  <2> DEFINE r == [t EXCEPT !.pos = p]
  <2>1. r = [sorted |-> s, keys |-> ks, pos |-> p, n |-> e]
    BY <1>1
  <2>2. [t EXCEPT !.pos = p, !.n = n] = [r EXCEPT !.n = n]
    OBVIOUS
  <2> HIDE DEF r
  <2>3. [r EXCEPT !.n = n] = [sorted |-> s, keys |-> ks, pos |-> p, n |-> n]
    BY ONLY <2>1
  <2> QED
    BY <2>2, <2>3
<1>3. [t EXCEPT !.pos = p] = [sorted |-> s, keys |-> ks, pos |-> p, n |-> e]
  BY <1>1
<1> QED
  BY <1>2, <1>3 DEF s, ks, e

\* The iterator u on c goes on where t on b was, after delivering e.
Delivers(b, t, c, u, e) ==
    /\ BodyInv(c) /\ EntriesOf(c) = EntriesOf(b) /\ Ready(c, u)
    /\ \E k \in Rest(b, t) : e = InMap(EntriesOf(b), k) /\ Rest(c, u) = Rest(b, t) \ {k}

(* next() by position delivers one of the entries left, and leaves the rest. *)
LEMMA Walked ==
    ASSUME OrderAssumption, NEW b, BodyInv(b), NEW t, Ready(b, t), ~t.sorted, ~AtEnd(b, t)
    PROVE  Delivers(b, t, Unmarked(b),
                    [t EXCEPT !.pos = t.pos - Back(b, t) + 1, !.n = t.n - Back(b, t)],
                    b.data[t.pos - Back(b, t)])
<1> DEFINE c == Unmarked(b)
           p == t.pos - Back(b, t)
           n == t.n - Back(b, t)
           u == [t EXCEPT !.pos = p + 1, !.n = n]
           m == EntriesOf(b)
           k == b.data[p].key
<1>1. b # NullBody
  BY DEF AtEnd
<1>2. /\ t = [sorted |-> t.sorted, keys |-> t.keys, pos |-> t.pos, n |-> t.n]
      /\ t.n \in Nat /\ t.pos \in 0 .. t.n /\ Back(b, t) \in {0, 1}
      /\ Back(b, t) <= t.pos /\ Filled(b, n)
  BY <1>1 DEF Ready, Back
<1>3. t.pos # t.n
  BY <1>1, RestOf
<1>4. p \in Nat /\ n \in Nat /\ p < n /\ p \in 0 .. n - 1 /\ p + 1 \in 0 .. n
  BY <1>2, <1>3
<1>5. u = [sorted |-> t.sorted, keys |-> t.keys, pos |-> p + 1, n |-> n]
  <2>1. u = [t EXCEPT !.pos = p + 1, !.n = n]
    OBVIOUS
  <2> HIDE DEF p, n, u
  <2> QED
    BY <1>2, <2>1, Moved
<1>6. Same(c, b, n) /\ c.deleted = FALSE
  BY <1>2, UnmarkedSame
<1>7. /\ Filled(c, n) /\ (\A i \in 0 .. n - 1 : c.data[i] = b.data[i])
      /\ EntriesOf(c) = EntriesOf(b) /\ c # NullBody
  BY <1>2, <1>6, SameEntries, UsedSlots DEF Same
<1>8. Rest(b, t) = {b.data[j].key : j \in p .. n - 1}
  BY <1>1, RestOf
<1>9. b.data[p] = InMap(m, k)
  <2>1. /\ DOMAIN m = {b.data[i].key : i \in 0 .. n - 1}
        /\ \A i \in 0 .. n - 1 : m[b.data[i].key] = b.data[i].value
    BY <1>2, EntriesShown DEF Shows
  <2>2. b.data[p] \in Entry
    BY <1>2, <1>4 DEF Filled
  <2>3. b.data[p] = [key |-> k, value |-> b.data[p].value]
    BY <2>2 DEF Entry
  <2> HIDE DEF m, k
  <2>4. k \in DOMAIN m /\ m[k] = b.data[p].value
    BY <1>4, <2>1 DEF k
  <2> QED
    BY <2>3, <2>4 DEF InMap
<1> HIDE DEF c, u, p, n
<1>10. u.sorted = t.sorted /\ u.pos = p + 1 /\ u.n = n /\ u = [sorted |-> u.sorted, keys |-> u.keys, pos |-> u.pos, n |-> u.n]
  BY <1>5
<1>11. Back(c, u) = 0
  BY <1>6 DEF Back
<1>12. Ready(c, u)
  <2>1. Filled(c, u.n - Back(c, u)) /\ Back(c, u) <= u.pos
    BY <1>4, <1>7, <1>10, <1>11
  <2> QED
    BY <1>4, <1>7, <1>10, <2>1 DEF Ready
<1>13. Rest(c, u) = {b.data[j].key : j \in p + 1 .. n - 1}
  <2>1. Rest(c, u) = {c.data[j].key : j \in u.pos - Back(c, u) .. u.n - Back(c, u) - 1}
    BY <1>7, <1>10, <1>12, RestOf
  <2>2. /\ u.pos - Back(c, u) = p + 1 /\ u.n - Back(c, u) - 1 = n - 1
        /\ p + 1 .. n - 1 \subseteq 0 .. n - 1
    BY <1>4, <1>10, <1>11
  <2> QED
    BY <1>7, <2>1, <2>2
<1>14. Rest(c, u) = Rest(b, t) \ {k}
  <2>1. p .. n - 1 = {p} \cup (p + 1 .. n - 1) /\ p \notin p + 1 .. n - 1
    BY <1>4
  <2>2. \A j \in p + 1 .. n - 1 : b.data[j].key # k
    <3> TAKE j \in p + 1 .. n - 1
    <3>1. j \in 0 .. n - 1 /\ j # p
      BY <1>4
    <3> QED
      BY <1>2, <1>4, <3>1, KeysDiffer DEF n
  <2> QED
    BY <1>8, <1>13, <2>1, <2>2
<1>15. k \in Rest(b, t)
  BY <1>4, <1>8
<1>16. BodyInv(c)
  BY <1>4, <1>7 DEF BodyInv
<1> QED
  BY <1>7, <1>9, <1>12, <1>14, <1>15, <1>16 DEF Delivers, c, u, p, n

(* So does next() with a sort function, which looks the next key up.         *)
LEMMA WalkedSorted ==
    ASSUME OrderAssumption, NEW b, BodyInv(b), NEW t, Ready(b, t), t.sorted, ~AtEnd(b, t)
    PROVE  Delivers(b, t, Unmarked(b), [t EXCEPT !.pos = t.pos + 1],
                    b.data[Locate(b, t.keys[t.pos + 1]).index])
<1> DEFINE c == Unmarked(b)
           u == [t EXCEPT !.pos = t.pos + 1]
           k == t.keys[t.pos + 1]
           m == EntriesOf(b)
           e == b.data[Locate(b, k).index]
<1>1. b # NullBody
  BY DEF AtEnd
<1>2. /\ t = [sorted |-> t.sorted, keys |-> t.keys, pos |-> t.pos, n |-> t.n]
      /\ t.n \in Nat /\ t.pos \in 0 .. t.n
      /\ \A i \in t.pos + 1 .. t.n : t.keys[i] \in DOMAIN m
      /\ \A i, j \in 1 .. t.n : t.keys[i] = t.keys[j] => i = j
  BY <1>1 DEF Ready
<1>3. t.pos # t.n
  BY <1>1, RestOf
<1>4. t.pos + 1 \in t.pos + 1 .. t.n /\ t.pos + 1 \in 0 .. t.n
  BY <1>2, <1>3
<1>5. k \in DOMAIN m /\ k \in Keys
  BY <1>2, <1>4, EntriesFunction
<1>6. PICK n \in Nat : Filled(b, n)
  BY <1>1 DEF BodyInv
<1>7. e = InMap(m, k)
  <2>1. e = [key |-> k, value |-> m[k]]
    BY <1>5, <1>6, FoundInMap
  <2> HIDE DEF e, m, k
  <2> QED
    BY <1>5, <2>1 DEF InMap
<1>8. Same(c, b, n)
  BY <1>6, UnmarkedSame
<1>9. Filled(c, n) /\ EntriesOf(c) = m /\ c # NullBody
  BY <1>6, <1>8, SameEntries, UsedSlots DEF Same
<1>10. u = [sorted |-> t.sorted, keys |-> t.keys, pos |-> t.pos + 1, n |-> t.n]
  BY <1>2, Moved
<1> HIDE DEF c, u, m, e
<1>11. /\ u.sorted = t.sorted /\ u.pos = t.pos + 1 /\ u.n = t.n /\ u.keys = t.keys
       /\ u = [sorted |-> u.sorted, keys |-> u.keys, pos |-> u.pos, n |-> u.n]
  BY <1>10
<1>12. /\ t.pos + 1 .. t.n = {t.pos + 1} \cup (t.pos + 1 + 1 .. t.n)
       /\ t.pos + 1 \notin t.pos + 1 + 1 .. t.n
       /\ t.pos + 1 .. t.n \subseteq 1 .. t.n
  BY <1>2, <1>4
<1>13. Ready(c, u)
  <2>1. \A i \in u.pos + 1 .. u.n : u.keys[i] \in DOMAIN EntriesOf(c)
    BY <1>2, <1>9, <1>11, <1>12
  <2>2. \A i, j \in 1 .. u.n : u.keys[i] = u.keys[j] => i = j
    BY <1>2, <1>11
  <2> QED
    BY <1>2, <1>4, <1>9, <1>11, <2>1, <2>2 DEF Ready
<1>14. Rest(b, t) = {t.keys[j] : j \in t.pos + 1 .. t.n}
  BY <1>1, RestOf
<1>15. Rest(c, u) = {t.keys[j] : j \in t.pos + 1 + 1 .. t.n}
  BY <1>9, <1>11, <1>13, RestOf
<1>16. Rest(c, u) = Rest(b, t) \ {k}
  <2>1. \A j \in t.pos + 1 + 1 .. t.n : t.keys[j] # k
    BY <1>2, <1>12
  <2> QED
    BY <1>12, <1>14, <1>15, <2>1
<1>17. k \in Rest(b, t)
  BY <1>4, <1>14
<1>18. BodyInv(c)
  BY <1>9 DEF BodyInv
<1> QED
  BY <1>7, <1>9, <1>13, <1>16, <1>17, <1>18 DEF Delivers, c, u, m, e

(* Assigning a value takes nothing away from an iterator.                    *)
LEMMA AssignedUnder ==
    ASSUME OrderAssumption, NEW b, BodyInv(b), NEW k \in Keys, Has(b, k), NEW v \in Values
    PROVE  LET c == [b EXCEPT !.data[Locate(b, k).index].value = v] IN
           /\ BodyInv(c) /\ k \in DOMAIN EntriesOf(b) /\ EntriesOf(c) = [EntriesOf(b) EXCEPT ![k] = v]
           /\ \A t : Ready(b, t) => Ready(c, t) /\ Rest(c, t) = Rest(b, t)
<1> DEFINE index == Locate(b, k).index
           c == [b EXCEPT !.data[index].value = v]
           m == EntriesOf(b)
<1>1. b # NullBody
  BY DEF Has
<1>2. PICK n \in Nat : Filled(b, n)
  BY <1>1 DEF BodyInv
<1>3. index \in 0 .. n - 1 /\ b.data[index].key = k
  BY <1>2, FoundInMap
<1>4. /\ Filled(c, n) /\ c.deleted = b.deleted
      /\ \A i \in 0 .. n - 1 : c.data[i].key = b.data[i].key
      /\ k \in DOMAIN m /\ EntriesOf(c) = [m EXCEPT ![k] = v]
  <2> HIDE DEF index
  <2> QED
    BY <1>2, <1>3, AssignedEntries
<1>5. c # NullBody /\ BodyInv(c)
  BY <1>4, UsedSlots DEF BodyInv
<1> HIDE DEF c, m, index
<1>6. DOMAIN EntriesOf(c) = DOMAIN m
  BY <1>4
<1>7. ASSUME NEW t, Ready(b, t)
      PROVE  Ready(c, t) /\ Rest(c, t) = Rest(b, t)
  <2>1. Back(c, t) = Back(b, t)
    BY <1>1, <1>4, <1>5 DEF Back
  <2>2. CASE t.sorted
    <3>1. Ready(c, t)
      BY <1>1, <1>5, <1>6, <1>7, <2>2 DEF Ready, m
    <3> QED
      BY <1>1, <1>5, <1>7, <2>2, <3>1, RestOf
  <2>3. CASE ~t.sorted
    <3>1. t.n \in Nat /\ t.pos \in 0 .. t.n /\ Back(b, t) \in {0, 1} /\ Back(b, t) <= t.pos /\ Filled(b, t.n - Back(b, t))
      BY <1>1, <1>7, <2>3 DEF Ready, Back
    <3>2. t.n - Back(b, t) = n
      <4>1. NumEntries(b) = n /\ NumEntries(b) = t.n - Back(b, t)
        BY <1>2, <3>1, EndFound
      <4> QED
        BY <4>1
    <3>3. Ready(c, t)
      <4>1. Filled(c, t.n - Back(c, t)) /\ Back(c, t) <= t.pos
        BY <1>4, <2>1, <3>1, <3>2
      <4> QED
        BY <1>5, <1>7, <2>3, <3>1, <4>1 DEF Ready
    <3>4. /\ Rest(b, t) = {b.data[j].key : j \in t.pos - Back(b, t) .. n - 1}
          /\ Rest(c, t) = {c.data[j].key : j \in t.pos - Back(b, t) .. n - 1}
      <4>1. Rest(b, t) = {b.data[j].key : j \in t.pos - Back(b, t) .. t.n - Back(b, t) - 1}
        BY <1>1, <1>7, <2>3, RestOf
      <4>2. Rest(c, t) = {c.data[j].key : j \in t.pos - Back(c, t) .. t.n - Back(c, t) - 1}
        BY <1>5, <2>3, <3>3, RestOf
      <4> QED
        BY <2>1, <3>2, <4>1, <4>2
    <3>5. t.pos - Back(b, t) .. n - 1 \subseteq 0 .. n - 1
      BY <3>1
    <3> QED
      BY <1>4, <3>3, <3>4, <3>5
  <2> QED
    BY <2>2, <2>3
<1> QED
  BY <1>4, <1>5, <1>7 DEF c, m, index

-----------------------------------------------------------------------------
\* There is one deleted mark in a body: it can serve one iterator at a time.
OneIterator == \A i, j \in Iters : i = j

(* The inductive invariant: a sorted and packed array, and iterators that    *)
(* know where they are in it.                                                *)
Inv ==
    /\ BodyInv(body) /\ active \subseteq Iters
    /\ iter = [i \in Iters |-> iter[i]]
    /\ \A i \in active : Ready(body, iter[i])

Todo == [i \in Iters |-> Left(i)]

LEMMA InitInv == Init => Inv /\ Dictionary!Init
<1> SUFFICES ASSUME Init PROVE Inv /\ Dictionary!Init
  OBVIOUS
<1>1. body = NullBody /\ active = {} /\ iter = [i \in Iters |-> Idle] /\ res = Nothing
  BY DEF Init
<1>2. Inv
  BY <1>1 DEF Inv, BodyInv
<1>3. [i \in Iters |-> Left(i)] = [i \in Iters |-> {}]
  BY <1>1 DEF Left
<1>4. Contents = [k \in {} |-> Zero]
  BY <1>1, NoEntries DEF Contents
<1> QED
  BY <1>1, <1>2, <1>3, <1>4 DEF Dictionary!Init, Dictionary!Nothing, Nothing

(* A step that changes no entry of the array and no iterator.                *)
LEMMA KeptInv ==
    ASSUME Inv, UNCHANGED <<body, iter, active>>
    PROVE  Inv' /\ Contents' = Contents /\ Todo' = Todo
<1>1. Inv'
  BY DEF Inv
<1>2. Contents' = Contents
  BY DEF Contents
<1>3. Todo' = Todo
  BY DEF Todo, Left
<1> QED
  BY <1>1, <1>2, <1>3

(* A step on the array alone, in between the iterations.                     *)
LEMMA IdleInv ==
    ASSUME Inv, active = {}, UNCHANGED <<iter, active>>, BodyInv(body')
    PROVE  Inv' /\ Todo' = Todo
<1>1. Inv'
  BY DEF Inv
<1>2. \A i \in Iters : Left(i)' = {} /\ Left(i) = {}
  BY DEF Left
<1> QED
  BY <1>1, <1>2 DEF Todo

LEMMA FindStep ==
    ASSUME OrderAssumption, Inv, NEW k \in Keys, Find(k)
    PROVE  Inv' /\ Dictionary!Find(k)
<1>1. res' = EntryOf(body, k) /\ UNCHANGED <<body, iter, active>>
  BY DEF Find
<1>2. Inv' /\ Contents' = Contents /\ Todo' = Todo
  BY <1>1, KeptInv
<1>3. EntryOf(body, k) = InMap(Contents, k)
  BY EntryInMap DEF Inv, Contents
<1> QED
  BY <1>1, <1>2, <1>3 DEF Dictionary!Find, Dictionary!Entry, Dictionary!Nothing, InMap, Nothing, Todo

LEMMA InsertStep ==
    ASSUME OrderAssumption, Inv, NEW k \in Keys, Insert(k)
    PROVE  Inv' /\ Dictionary!Insert(k)
<1>1. active = {} /\ body' = Added(body, k) /\ res' = EntryOf(body', k) /\ UNCHANGED <<iter, active>>
  BY DEF Insert
<1>2. BodyInv(body)
  BY DEF Inv
<1>3. /\ BodyInv(body')
      /\ EntriesOf(body') = [j \in DOMAIN EntriesOf(body) \cup {k} |->
                               IF j \in DOMAIN EntriesOf(body) THEN EntriesOf(body)[j] ELSE Zero]
  BY <1>1, <1>2, AddedEntries
<1>4. Inv' /\ Todo' = Todo
  BY <1>1, <1>3, IdleInv
<1>5. res' = InMap(Contents', k)
  <2>1. EntryOf(body', k) = InMap(EntriesOf(body'), k)
    BY <1>3, EntryInMap
  <2> QED
    BY <1>1, <2>1 DEF Contents
<1>6. Contents' = [j \in DOMAIN Contents \cup {k} |-> IF j \in DOMAIN Contents THEN Contents[j] ELSE Zero]
  BY <1>3 DEF Contents
<1> QED
  BY <1>1, <1>4, <1>5, <1>6 DEF Dictionary!Insert, Dictionary!Entry, Dictionary!Nothing, InMap, Nothing, Todo

LEMMA AssignStep ==
    ASSUME OrderAssumption, Inv, NEW k \in Keys, NEW v \in Values, Assign(k, v)
    PROVE  Inv' /\ Dictionary!Assign(k, v)
<1>1. /\ Has(body, k) /\ body' = [body EXCEPT !.data[Locate(body, k).index].value = v]
      /\ res' = [key |-> k, value |-> v] /\ UNCHANGED <<iter, active>>
  BY DEF Assign
<1>2. BodyInv(body) /\ active \subseteq Iters /\ iter = [i \in Iters |-> iter[i]] /\ \A i \in active : Ready(body, iter[i])
  BY DEF Inv
<1>3. /\ BodyInv(body') /\ k \in DOMAIN EntriesOf(body) /\ EntriesOf(body') = [EntriesOf(body) EXCEPT ![k] = v]
      /\ \A t : Ready(body, t) => Ready(body', t) /\ Rest(body', t) = Rest(body, t)
  BY <1>1, <1>2, AssignedUnder
<1>4. Inv'
  BY <1>1, <1>2, <1>3 DEF Inv
<1>5. Todo' = Todo
  <2>1. \A i \in Iters : Left(i)' = Left(i)
    BY <1>1, <1>2, <1>3 DEF Left
  <2> QED
    BY <2>1 DEF Todo
<1>6. k \in DOMAIN Contents /\ Contents' = [Contents EXCEPT ![k] = v]
  BY <1>3 DEF Contents
<1>7. res' = InMap(Contents', k)
  BY <1>1, <1>6 DEF InMap
<1> QED
  BY <1>1, <1>4, <1>5, <1>6, <1>7
    DEF Dictionary!Assign, Dictionary!Entry, Dictionary!Nothing, InMap, Nothing, Todo

LEMMA RemoveStep ==
    ASSUME OrderAssumption, OneIterator, Inv, NEW k \in Keys, RemoveKey(k)
    PROVE  Inv' /\ Dictionary!RemoveKey(k)
<1> DEFINE m == EntriesOf(body)
<1>1. /\ Removable(k) /\ res' = EntryOf(body, k) /\ UNCHANGED <<iter, active>>
      /\ body' = IF Has(body, k) THEN Without(body, k) ELSE body
  BY DEF RemoveKey
<1>2. BodyInv(body) /\ active \subseteq Iters /\ iter = [i \in Iters |-> iter[i]] /\ \A i \in active : Ready(body, iter[i])
  BY DEF Inv
<1>3. res' = InMap(Contents, k) /\ (Has(body, k) <=> k \in DOMAIN m)
  BY <1>1, <1>2, EntryInMap DEF Contents
<1>4. m = [j \in DOMAIN m |-> m[j]]
  BY <1>2, EntriesFunction
<1>5. Inv' /\ Todo' = Todo /\ EntriesOf(body') = [j \in DOMAIN m \ {k} |-> m[j]]
  <2>1. CASE ~Has(body, k)
    <3>1. body' = body
      BY <1>1, <2>1
    <3>2. Inv' /\ Todo' = Todo
      BY <1>1, <3>1, KeptInv
    <3>3. DOMAIN m \ {k} = DOMAIN m
      BY <1>3, <2>1
    <3>4. m = [j \in DOMAIN m \ {k} |-> m[j]]
      BY <1>4, <3>3
    <3> QED
      BY <3>1, <3>2, <3>4
  <2>2. CASE Has(body, k)
    <3>1. body' = Without(body, k)
      BY <1>1, <2>2
    <3>2. PICK n \in Nat : Filled(body, n)
      BY <1>2, <2>2 DEF BodyInv, Has
    <3> DEFINE index == Locate(body, k).index
    <3>3. index \in 0 .. n - 1 /\ body.data[index].key = k /\ Locate(body, k).found
      BY <2>2, <3>2, FoundInMap
    <3>4. Closes(body', body, n, index)
      BY <3>1, <3>2, <3>3, ClosedFilled
    <3>5. EntriesOf(body') = [j \in DOMAIN m \ {k} |-> m[j]]
      <4> DEFINE c == body'
                 b == body
      <4>1. index \in 0 .. n - 1 /\ b.data[index].key = k /\ Closes(c, b, n, index) /\ Filled(b, n)
        BY <3>2, <3>3, <3>4
      <4> HIDE DEF index, b, c
      <4>2. EntriesOf(c) = Less(EntriesOf(b), k)
        BY ONLY <4>1, OrderAssumption, k \in Keys, n \in Nat, ClosedEntries
      <4> QED
        BY <4>2 DEF b, c, Less
    <3>6. BodyInv(body')
      <4>1. n - 1 \in Nat
        BY <3>2, <3>3
      <4> QED
        BY <3>4, <4>1 DEF Closes, BodyInv
    <3>7. ASSUME NEW i \in active
          PROVE  Ready(body', iter[i]) /\ Rest(body', iter[i]) = Rest(body, iter[i])
      <4>1. PICK j \in active : k \in Current(body, iter[j])
        BY <1>1, <2>2, <3>7 DEF Removable
      <4>2. j = i
        BY <1>2, <3>7, <4>1 DEF OneIterator
      <4>3. k \in Current(body, iter[i])
        BY <4>1, <4>2
      <4>4. k \notin Rest(body, iter[i])
        BY <1>1, <3>7 DEF Removable, Left
      <4>5. Ready(body, iter[i])
        BY <1>2, <3>7
      <4> QED
        BY <2>2, <3>1, <3>2, <4>3, <4>4, <4>5, RemovedUnder
    <3>8. Inv'
      BY <1>1, <1>2, <3>6, <3>7 DEF Inv
    <3>9. Todo' = Todo
      <4>1. \A i \in Iters : Left(i)' = Left(i)
        BY <1>1, <3>7 DEF Left
      <4> QED
        BY <4>1 DEF Todo
    <3> QED
      BY <3>5, <3>8, <3>9
  <2> QED
    BY <2>1, <2>2
<1>6. \A i \in active : k \notin Todo[i]
  BY <1>1, <1>2 DEF Removable, Todo
<1>7. Contents' = [j \in DOMAIN Contents \ {k} |-> Contents[j]]
  BY <1>5 DEF Contents
<1> QED
  BY <1>1, <1>3, <1>5, <1>6, <1>7
    DEF Dictionary!RemoveKey, Dictionary!Entry, Dictionary!Nothing, InMap, Nothing, Todo

LEMMA ClearStep ==
    ASSUME OrderAssumption, Inv, NEW size \in SizeHints, Clear(size)
    PROVE  Inv' /\ Dictionary!Clear
<1>1. /\ active = {} /\ body' = (IF size = 0 THEN NullBody ELSE Alloc(size))
      /\ res' = Nothing /\ UNCHANGED <<iter, active>>
  BY DEF Clear
<1>2. BodyInv(body') /\ EntriesOf(body') = [k \in {} |-> Zero]
  <2>1. CASE size = 0
    BY <1>1, <2>1, NoEntries DEF BodyInv
  <2>2. CASE size # 0
    <3>1. size \in Nat \ {0}
      BY <2>2 DEF OrderAssumption
    <3>2. Filled(Alloc(size), 0) /\ EntriesOf(Alloc(size)) = [k \in {} |-> Zero]
      BY <3>1, AllocEmpty
    <3> QED
      BY <1>1, <2>2, <3>2 DEF BodyInv
  <2> QED
    BY <2>1, <2>2
<1>3. Inv' /\ Todo' = Todo
  BY <1>1, <1>2, IdleInv
<1> QED
  BY <1>1, <1>2, <1>3 DEF Dictionary!Clear, Dictionary!Nothing, Nothing, Contents, Todo

LEMMA SetSizeStep ==
    ASSUME OrderAssumption, Inv, NEW size \in SizeHints, SetSize(size)
    PROVE  Inv' /\ UNCHANGED Dictionary!vars
<1>1. /\ active = {} /\ body = NullBody /\ size # 0 /\ body' = Alloc(size)
      /\ UNCHANGED <<iter, active, res>>
  BY DEF SetSize
<1>2. size \in Nat \ {0}
  BY <1>1 DEF OrderAssumption
<1>3. Filled(body', 0) /\ EntriesOf(body') = [k \in {} |-> Zero]
  BY <1>1, <1>2, AllocEmpty
<1>4. Inv' /\ Todo' = Todo
  <2>1. BodyInv(body')
    BY <1>3 DEF BodyInv
  <2> QED
    BY <1>1, <2>1, IdleInv
<1>5. Contents' = Contents
  BY <1>1, <1>3, NoEntries DEF Contents
<1> QED
  BY <1>1, <1>4, <1>5 DEF Dictionary!vars, Todo

LEMMA AssignArrayStep ==
    ASSUME OrderAssumption, Inv, AssignArray
    PROVE  Inv' /\ Dictionary!Copy
<1>1. active = {} /\ body' = CopyOf(body) /\ res' = Nothing /\ UNCHANGED <<iter, active>>
  BY DEF AssignArray
<1>2. BodyInv(body') /\ EntriesOf(body') = EntriesOf(body)
  <2>1. CASE body = NullBody
    BY <1>1, <2>1 DEF CopyOf, BodyInv
  <2>2. ASSUME NEW n \in Nat, Filled(body, n)
        PROVE  BodyInv(body') /\ EntriesOf(body') = EntriesOf(body)
    <3>1. Same(body', body, n)
      BY <1>1, <2>2, CopySame
    <3>2. EntriesOf(body') = EntriesOf(body)
      BY <2>2, <3>1, SameEntries
    <3> QED
      BY <3>1, <3>2 DEF Same, BodyInv
  <2> QED
    BY <2>1, <2>2 DEF Inv, BodyInv
<1>3. Inv' /\ Todo' = Todo
  BY <1>1, <1>2, IdleInv
<1> QED
  BY <1>1, <1>2, <1>3 DEF Dictionary!Copy, Dictionary!Nothing, Nothing, Contents, Todo

-----------------------------------------------------------------------------
LEMMA UnmarkedBody ==
    ASSUME OrderAssumption, NEW b, BodyInv(b)
    PROVE  BodyInv(Unmarked(b)) /\ EntriesOf(Unmarked(b)) = EntriesOf(b)
<1>1. CASE b = NullBody
  BY <1>1 DEF Unmarked, BodyInv
<1>2. ASSUME NEW n \in Nat, Filled(b, n)
      PROVE  BodyInv(Unmarked(b)) /\ EntriesOf(Unmarked(b)) = EntriesOf(b)
  <2>1. Same(Unmarked(b), b, n)
    BY <1>2, UnmarkedSame
  <2>2. EntriesOf(Unmarked(b)) = EntriesOf(b)
    BY <1>2, <2>1, SameEntries
  <2> QED
    BY <2>1, <2>2 DEF Same, BodyInv
<1> QED
  BY <1>1, <1>2 DEF BodyInv

(* A step of the only iterator, to u, which has what T says to deliver.      *)
LEMMA IteratorInv ==
    ASSUME OneIterator, Inv, NEW i \in Iters, NEW u, NEW T,
           BodyInv(body'), Ready(body', u), Rest(body', u) = T,
           iter' = [iter EXCEPT ![i] = u], active' = active \cup {i}
    PROVE  Inv' /\ Todo' = [Todo EXCEPT ![i] = T]
<1>1. active \subseteq Iters /\ iter = [j \in Iters |-> iter[j]]
  BY DEF Inv
<1>2. iter'[i] = u /\ iter' = [j \in Iters |-> iter'[j]]
  BY <1>1
<1>3. active' = {i}
  BY <1>1 DEF OneIterator
<1>4. Inv'
  BY <1>2, <1>3 DEF Inv
<1>5. ASSUME NEW j \in Iters
      PROVE  Left(j)' = [Todo EXCEPT ![i] = T][j]
  <2>1. j = i
    BY DEF OneIterator
  <2>2. Left(i)' = T
    BY <1>2, <1>3 DEF Left
  <2> QED
    BY <2>1, <2>2 DEF Todo
<1> QED
  BY <1>4, <1>5 DEF Todo

LEMMA StartStep ==
    ASSUME OrderAssumption, OneIterator, Inv, NEW i \in Iters, Start(i)
    PROVE  Inv' /\ Dictionary!Start(i)
<1>1. PICK sorted \in BOOLEAN : iter' = [iter EXCEPT ![i] = Started(body, sorted)]
  BY DEF Start, Started, SortedKeys
<1>2. active' = active \cup {i} /\ body' = Unmarked(body) /\ res' = Nothing
  BY DEF Start
<1>3. BodyInv(body)
  BY DEF Inv
<1>4. /\ Ready(body', Started(body, sorted))
      /\ Rest(body', Started(body, sorted)) = DOMAIN EntriesOf(body)
  BY <1>2, <1>3, StartedReady
<1>5. BodyInv(body') /\ Contents' = Contents
  BY <1>2, <1>3, UnmarkedBody DEF Contents
<1>6. Inv' /\ Todo' = [Todo EXCEPT ![i] = DOMAIN Contents]
  BY <1>1, <1>2, <1>4, <1>5, IteratorInv DEF Contents
<1> QED
  BY <1>2, <1>5, <1>6 DEF Dictionary!Start, Dictionary!Nothing, Nothing, Todo

(* Both ways of next(): one of the entries left is delivered.                *)
LEMMA DeliverStep ==
    ASSUME OneIterator, Inv, NEW i \in active, NEW u,
           Delivers(body, iter[i], body', u, res'), iter' = [iter EXCEPT ![i] = u], UNCHANGED active
    PROVE  Inv' /\ Dictionary!Deliver(i)
<1>1. /\ BodyInv(body') /\ EntriesOf(body') = EntriesOf(body) /\ Ready(body', u)
  BY DEF Delivers
<1>2. PICK k \in Rest(body, iter[i]) :
        res' = InMap(EntriesOf(body), k) /\ Rest(body', u) = Rest(body, iter[i]) \ {k}
  BY DEF Delivers
<1>3. i \in Iters /\ active' = active \cup {i}
  BY DEF Inv
<1>4. Inv' /\ Todo' = [Todo EXCEPT ![i] = Rest(body, iter[i]) \ {k}]
  BY <1>1, <1>2, <1>3, IteratorInv
<1>5. Todo[i] = Rest(body, iter[i])
  BY <1>3 DEF Todo, Left
<1>6. k \in Todo[i] /\ Todo' = [Todo EXCEPT ![i] = Todo[i] \ {k}]
  BY <1>2, <1>4, <1>5
<1>7. Contents' = Contents /\ res' = InMap(Contents, k)
  BY <1>1, <1>2 DEF Contents
<1> QED
  BY <1>4, <1>6, <1>7
    DEF Dictionary!Deliver, Dictionary!Entry, Dictionary!Nothing, InMap, Nothing, Todo

LEMMA WalkStep ==
    ASSUME OrderAssumption, OneIterator, Inv, NEW i \in Iters, Walk(i)
    PROVE  Inv' /\ Dictionary!Deliver(i)
<1> DEFINE t == iter[i]
           u == [t EXCEPT !.pos = t.pos - Back(body, t) + 1, !.n = t.n - Back(body, t)]
<1>1. /\ i \in active /\ ~t.sorted /\ ~AtEnd(body, t)
      /\ iter' = [iter EXCEPT ![i].pos = @ - Back(body, iter[i]) + 1, ![i].n = @ - Back(body, iter[i])]
      /\ res' = body.data[t.pos - Back(body, t)] /\ body' = Unmarked(body) /\ UNCHANGED active
  BY DEF Walk
<1>2. BodyInv(body) /\ Ready(body, t) /\ iter = [j \in Iters |-> iter[j]]
  BY <1>1 DEF Inv
<1>3. Delivers(body, t, body', u, res')
  BY <1>1, <1>2, Walked
<1>4. iter' = [iter EXCEPT ![i] = u]
  BY <1>1, <1>2
<1> HIDE DEF u
<1> QED
  BY <1>1, <1>3, <1>4, DeliverStep

LEMMA WalkSortedStep ==
    ASSUME OrderAssumption, OneIterator, Inv, NEW i \in Iters, WalkSorted(i)
    PROVE  Inv' /\ Dictionary!Deliver(i)
<1> DEFINE t == iter[i]
           u == [t EXCEPT !.pos = t.pos + 1]
<1>1. /\ i \in active /\ t.sorted /\ ~AtEnd(body, t)
      /\ iter' = [iter EXCEPT ![i].pos = @ + 1]
      /\ res' = body.data[Locate(body, t.keys[t.pos + 1]).index] /\ body' = Unmarked(body) /\ UNCHANGED active
  BY DEF WalkSorted
<1>2. BodyInv(body) /\ Ready(body, t)
  BY <1>1 DEF Inv
<1>3. Delivers(body, t, body', u, res')
  BY <1>1, <1>2, WalkedSorted
<1>4. iter' = [iter EXCEPT ![i] = u]
  BY <1>1
<1> HIDE DEF u
<1> QED
  BY <1>1, <1>3, <1>4, DeliverStep

LEMMA FinishStep ==
    ASSUME Inv, NEW i \in Iters, Finish(i)
    PROVE  Inv' /\ Dictionary!Finish(i)
<1>1. /\ i \in active /\ AtEnd(body, iter[i]) /\ iter' = [iter EXCEPT ![i] = Idle]
      /\ active' = active \ {i} /\ res' = Nothing /\ UNCHANGED body
  BY DEF Finish
<1>2. BodyInv(body) /\ active \subseteq Iters /\ iter = [j \in Iters |-> iter[j]] /\ \A j \in active : Ready(body, iter[j])
  BY DEF Inv
<1>3. \A j \in Iters : j # i => iter'[j] = iter[j]
  BY <1>1, <1>2
<1>4. iter' = [j \in Iters |-> iter'[j]]
  BY <1>1, <1>2
<1>5. Inv'
  BY <1>1, <1>2, <1>3, <1>4 DEF Inv
<1>6. Left(i) = {} /\ Left(i)' = {}
  BY <1>1 DEF Left, Rest
<1>7. ASSUME NEW j \in Iters
      PROVE  Left(j)' = Left(j)
  BY <1>1, <1>3, <1>6, <1>7 DEF Left
<1>8. Todo' = Todo /\ Todo[i] = {}
  BY <1>6, <1>7 DEF Todo
<1>9. Contents' = Contents
  BY <1>1 DEF Contents
<1> QED
  BY <1>1, <1>5, <1>8, <1>9 DEF Dictionary!Finish, Dictionary!Nothing, Nothing, Todo

-----------------------------------------------------------------------------
(* What the array itself needs, it keeps whatever the iterators do.          *)
LEMMA BodyStep ==
    ASSUME OrderAssumption, BodyInv(body), [Next]_vars
    PROVE  BodyInv(body')
<1>1. BodyInv(Unmarked(body))
  BY UnmarkedBody
<1>2. ASSUME NEW k \in Keys, Insert(k) PROVE BodyInv(body')
  BY <1>2, AddedEntries DEF Insert
<1>3. ASSUME NEW k \in Keys, NEW v \in Values, Assign(k, v) PROVE BodyInv(body')
  BY <1>3, AssignedUnder DEF Assign
<1>4. ASSUME NEW k \in Keys, RemoveKey(k) PROVE BodyInv(body')
  <2>1. CASE ~Has(body, k)
    BY <1>4, <2>1 DEF RemoveKey
  <2>2. CASE Has(body, k)
    <3>1. PICK n \in Nat : Filled(body, n)
      BY <2>2 DEF BodyInv, Has
    <3>2. Locate(body, k).index \in 0 .. n - 1 /\ Locate(body, k).found
      BY <2>2, <3>1, FoundInMap
    <3>3. Filled(Without(body, k), n - 1)
      BY <3>1, <3>2, ClosedFilled DEF Closes
    <3>4. n - 1 \in Nat
      BY <3>1, <3>2
    <3>5. body' = Without(body, k)
      BY <1>4, <2>2 DEF RemoveKey
    <3> QED
      BY <3>3, <3>4, <3>5 DEF BodyInv
  <2> QED
    BY <2>1, <2>2
<1>5. ASSUME NEW size \in SizeHints, Clear(size) \/ SetSize(size) PROVE BodyInv(body')
  <2>1. body' = NullBody \/ (body' = Alloc(size) /\ size \in Nat \ {0})
    BY <1>5 DEF Clear, SetSize, OrderAssumption
  <2>2. CASE body' = NullBody
    BY <2>2 DEF BodyInv
  <2>3. CASE body' = Alloc(size) /\ size \in Nat \ {0}
    <3>1. Filled(Alloc(size), 0)
      BY <2>3, AllocEmpty
    <3> QED
      BY <2>3, <3>1 DEF BodyInv
  <2> QED
    BY <2>1, <2>2, <2>3
<1>6. ASSUME AssignArray PROVE BodyInv(body')
  <2>1. body' = CopyOf(body)
    BY <1>6 DEF AssignArray
  <2>2. CASE body = NullBody
    BY <2>1, <2>2 DEF CopyOf, BodyInv
  <2>3. ASSUME NEW n \in Nat, Filled(body, n) PROVE BodyInv(body')
    BY <2>1, <2>3, CopySame DEF Same, BodyInv
  <2> QED
    BY <2>2, <2>3 DEF BodyInv
<1>7. ASSUME NEW i \in Iters, Start(i) \/ Walk(i) \/ WalkSorted(i) PROVE BodyInv(body')
  <2>1. body' = Unmarked(body)
    BY <1>7 DEF Start, Walk, WalkSorted
  <2> QED
    BY <1>1, <2>1
<1>8. ASSUME UNCHANGED body PROVE BodyInv(body')
  BY <1>8
<1>9. \/ \E k \in Keys : Insert(k) \/ RemoveKey(k)
      \/ \E k \in Keys, v \in Values : Assign(k, v)
      \/ \E size \in SizeHints : Clear(size) \/ SetSize(size)
      \/ AssignArray
      \/ \E i \in Iters : Start(i) \/ Walk(i) \/ WalkSorted(i)
      \/ UNCHANGED body
  BY DEF Next, vars, Find, Finish
<1> QED
  BY <1>2, <1>3, <1>4, <1>5, <1>6, <1>7, <1>8, <1>9

(* Entries are packed at the front of the array, in strictly increasing      *)
(* order of their keys: what the searches of locate() and numEntries() rest  *)
(* on is kept by insert() that moves entries up or grows, by remove() that   *)
(* moves them down, and by every other operation.                            *)
THEOREM ArrayStaysPacked ==
    ASSUME OrderAssumption
    PROVE  Spec => []Packed
<1>1. Init => BodyInv(body)
  BY DEF Init, BodyInv
<1>2. BodyInv(body) /\ [Next]_vars => BodyInv(body)'
  BY BodyStep
<1>3. BodyInv(body) => Packed
  <2>1. ASSUME NEW n \in Nat, Filled(body, n),
               NEW i \in 0 .. body.max - 1, NEW j \in 0 .. body.max - 1, i < j, ~IsFree(body, j)
        PROVE  ~IsFree(body, i) /\ Order[body.data[i].key] < Order[body.data[j].key]
    <3>1. body.max \in Nat /\ \A h \in 0 .. body.max - 1 : IsFree(body, h) <=> h >= n
      BY <2>1, UsedSlots
    <3>2. i \in 0 .. n - 1 /\ j \in 0 .. n - 1
      BY <2>1, <3>1
    <3>3. Order[body.data[i].key] < Order[body.data[j].key]
      BY <2>1, <3>2 DEF Filled
    <3> QED
      BY <3>1, <3>2, <3>3
  <2> QED
    BY <2>1 DEF BodyInv, Packed
<1> QED
  BY <1>1, <1>2, <1>3, PTL DEF Spec

(* Every step keeps the invariant, and is one of the map or no step of it.   *)
LEMMA NextStep ==
    ASSUME OrderAssumption, OneIterator, Inv, [Next]_vars
    PROVE  Inv' /\ [Dictionary!Next]_Dictionary!vars
<1> DEFINE Goal == Inv' /\ (Dictionary!Next \/ UNCHANGED Dictionary!vars)
<1>1. ASSUME NEW k \in Keys, Find(k) PROVE Goal
  BY <1>1, FindStep DEF Dictionary!Next
<1>2. ASSUME NEW k \in Keys, Insert(k) PROVE Goal
  BY <1>2, InsertStep DEF Dictionary!Next
<1>3. ASSUME NEW k \in Keys, NEW v \in Values, Assign(k, v) PROVE Goal
  BY <1>3, AssignStep DEF Dictionary!Next
<1>4. ASSUME NEW k \in Keys, RemoveKey(k) PROVE Goal
  BY <1>4, RemoveStep DEF Dictionary!Next
<1>5. ASSUME NEW size \in SizeHints, Clear(size) PROVE Goal
  BY <1>5, ClearStep DEF Dictionary!Next
<1>6. ASSUME NEW size \in SizeHints, SetSize(size) PROVE Goal
  BY <1>6, SetSizeStep
<1>7. ASSUME AssignArray PROVE Goal
  BY <1>7, AssignArrayStep DEF Dictionary!Next
<1>8. ASSUME NEW i \in Iters, Start(i) PROVE Goal
  BY <1>8, StartStep DEF Dictionary!Next
<1>9. ASSUME NEW i \in Iters, Walk(i) PROVE Goal
  BY <1>9, WalkStep DEF Dictionary!Next
<1>10. ASSUME NEW i \in Iters, WalkSorted(i) PROVE Goal
  BY <1>10, WalkSortedStep DEF Dictionary!Next
<1>11. ASSUME NEW i \in Iters, Finish(i) PROVE Goal
  BY <1>11, FinishStep DEF Dictionary!Next
<1>12. ASSUME UNCHANGED vars PROVE Goal
  <2>1. UNCHANGED <<body, iter, active, res>>
    BY <1>12 DEF vars
  <2>2. Inv' /\ Contents' = Contents /\ Todo' = Todo
    BY <2>1, KeptInv
  <2> QED
    BY <2>1, <2>2 DEF Dictionary!vars, Todo
<1> HIDE DEF Goal
<1>13. Goal
  BY <1>1, <1>2, <1>3, <1>4, <1>5, <1>6, <1>7, <1>8, <1>9, <1>10, <1>11, <1>12 DEF Next
<1> QED
  BY <1>13 DEF Goal

(* SArrayIter notices that the entry it delivered was removed: less the      *)
(* pending deletion, it expects as many entries as there are.                *)
THEOREM DeletionsAreSeen ==
    ASSUME OrderAssumption, OneIterator
    PROVE  Spec => []IteratorSeesDeletions
<1>1. Init => Inv
  BY InitInv
<1>2. Inv /\ [Next]_vars => Inv'
  BY NextStep
<1>3. Inv => IteratorSeesDeletions
  <2>1. ASSUME Inv, NEW i \in active, body # NullBody, ~iter[i].sorted
        PROVE  iter[i].n - Back(body, iter[i]) = NumEntries(body)
    <3>1. Ready(body, iter[i])
      BY <2>1 DEF Inv
    <3>2. Filled(body, iter[i].n - Back(body, iter[i]))
      BY <2>1, <3>1 DEF Ready
    <3> QED
      BY <3>2, EndFound
  <2> QED
    BY <2>1 DEF IteratorSeesDeletions
<1> QED
  BY <1>1, <1>2, <1>3, PTL DEF Spec

(* The array is a map: what is found, inserted, removed and delivered by an  *)
(* iterator is what Map.h promises, for every order of the keys and every    *)
(* way the body grows, also when an iterator's entry is removed under it.    *)
THEOREM ArrayIsMap ==
    ASSUME OrderAssumption, OneIterator
    PROVE  Spec => ImplementsMap
<1>1. Init => Inv /\ Dictionary!Init
  BY InitInv
<1>2. Inv /\ [Next]_vars => Inv' /\ [Dictionary!Next]_Dictionary!vars
  BY NextStep
<1> QED
  BY <1>1, <1>2, PTL DEF Spec, ImplementsMap, Dictionary!Spec
===============================================================================
