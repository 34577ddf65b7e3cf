-------------------------------- MODULE Loops --------------------------------
(***************************************************************************)
(* Induction over the natural numbers, and what it says of loops that are  *)
(* written as recursive functions of the number of rounds.  The induction  *)
(* is on sets of numbers, which has no operator as a parameter.            *)
(***************************************************************************)
EXTENDS Integers, WellFoundedInduction, TLAPS

(* Every set of natural numbers but the empty one has a least element.       *)
LEMMA LeastElement ==
    ASSUME NEW T \in SUBSET Nat, T # {}
    PROVE  \E x \in T : \A y \in T : x <= y
<1> DEFINE R == OpToRel(<, Nat)
<1>1. IsWellFoundedOn(R, Nat)
  BY NatLessThanWellFounded
<1>2. PICK x \in T : \A y \in T : ~(<<y, x>> \in R)
  <2> HIDE DEF R
  <2> QED
    BY <1>1, WFMin
<1>3. \A y \in T : ~(y < x)
  BY <1>2 DEF OpToRel
<1> HIDE DEF R
<1> QED
  BY <1>3, SMT

(* Induction up to n, with the set of the numbers that are good.             *)
LEMMA UpTo ==
    ASSUME NEW n \in Nat, NEW T \in SUBSET Nat, 0 \in T,
           \A i \in 0 .. n - 1 : i \in T => i + 1 \in T
    PROVE  0 .. n \subseteq T
<1> DEFINE Bad == (0 .. n) \ T
<1>1. SUFFICES ASSUME Bad # {} PROVE FALSE
  OBVIOUS
<1>2. Bad \in SUBSET Nat
  OBVIOUS
<1>3. PICK x \in Bad : \A y \in Bad : x <= y
  <2> HIDE DEF Bad
  <2> QED
    BY <1>1, <1>2, LeastElement
<1>4. x \in 0 .. n /\ x \notin T /\ x # 0
  BY <1>3
<1>5. x - 1 \in 0 .. n - 1 /\ x - 1 \notin Bad
  <2>1. x \in Int /\ 0 < x
    BY <1>4
  <2>2. \A y \in Bad : x <= y
    BY <1>3
  <2> HIDE DEF Bad
  <2>3. ~(x <= x - 1)
    BY <2>1
  <2>4. x - 1 \notin Bad
    BY <2>2, <2>3
  <2> QED
    BY <1>4, <2>1, <2>4
<1>6. x - 1 \in T
  BY <1>5
<1> QED
  BY <1>4, <1>5, <1>6

-----------------------------------------------------------------------------

\* The first n rounds of a loop that starts from a and has the body F.
Runs(s, n, a, F, S) ==
    /\ F \in [S -> S] /\ s \in [0 .. n -> S]
    /\ s[0] = a /\ \A r \in 1 .. n : s[r] = F[s[r - 1]]

(* Every loop has them.                                                      *)
LEMMA RoundsExist ==
    ASSUME NEW n \in Nat, NEW S, NEW a \in S, NEW F \in [S -> S]
    PROVE  \E s : Runs(s, n, a, F, S)
<1> DEFINE T == {k \in 0 .. n : \E s : Runs(s, k, a, F, S)}
<1>1. 0 \in T
  <2> DEFINE s == [r \in 0 .. 0 |-> a]
  <2>1. Runs(s, 0, a, F, S)
    BY DEF Runs
  <2>2. 0 \in 0 .. n
    OBVIOUS
  <2> HIDE DEF s
  <2> QED
    BY <2>1, <2>2
<1>2. ASSUME NEW k \in 0 .. n - 1, k \in T
      PROVE  k + 1 \in T
  <2>0. PICK s : Runs(s, k, a, F, S)
    BY <1>2
  <2>1. s \in [0 .. k -> S] /\ s[0] = a /\ \A r \in 1 .. k : s[r] = F[s[r - 1]]
    BY <2>0 DEF Runs
  <2> DEFINE t == [r \in 0 .. k + 1 |-> IF r = k + 1 THEN F[s[k]] ELSE s[r]]
  <2>2. t \in [0 .. k + 1 -> S]
    <3>1. F[s[k]] \in S
      BY <2>1
    <3>2. \A r \in 0 .. k + 1 : r # k + 1 => r \in 0 .. k
      OBVIOUS
    <3> QED
      BY <2>1, <3>1, <3>2
  <2>3. t[0] = a
    BY <2>1
  <2>4. ASSUME NEW r \in 1 .. k + 1
        PROVE  t[r] = F[t[r - 1]]
    <3>1. r - 1 \in 0 .. k /\ t[r - 1] = s[r - 1] /\ r \in 0 .. k + 1
      OBVIOUS
    <3>2. CASE r = k + 1
      BY <3>1, <3>2
    <3>3. CASE r # k + 1
      <4>1. r \in 1 .. k /\ t[r] = s[r]
        BY <3>1, <3>3
      <4> QED
        BY <2>1, <3>1, <4>1
    <3> QED
      BY <3>2, <3>3
  <2> HIDE DEF t
  <2>5. Runs(t, k + 1, a, F, S)
    BY <2>2, <2>3, <2>4 DEF Runs
  <2>6. k + 1 \in 0 .. n
    OBVIOUS
  <2> QED
    BY <2>5, <2>6
<1>3. n \in T
  <2>1. T \in SUBSET Nat
    OBVIOUS
  <2> HIDE DEF T
  <2>2. \A i \in 0 .. n - 1 : i \in T => i + 1 \in T
    BY <1>2
  <2>3. 0 .. n \subseteq T
    BY <1>1, <2>1, <2>2, UpTo
  <2> QED
    BY <2>3
<1> QED
  BY <1>3

\* The same for a loop whose body is another one in each round.
Steps(s, n, a, F, S) ==
    s \in [0 .. n -> S] /\ s[0] = a /\ \A r \in 1 .. n : s[r] = F[r][s[r - 1]]

(* Every such loop has them.                                                 *)
LEMMA StepsExist ==
    ASSUME NEW n \in Nat, NEW S, NEW a \in S, NEW F \in [1 .. n -> [S -> S]]
    PROVE  \E s : Steps(s, n, a, F, S)
<1> DEFINE Q(s, k) == s \in [0 .. k -> S] /\ s[0] = a /\ \A r \in 1 .. k : s[r] = F[r][s[r - 1]]
           T == {k \in 0 .. n : \E s : Q(s, k)}
<1>1. 0 \in T
  <2> DEFINE s == [r \in 0 .. 0 |-> a]
  <2>1. Q(s, 0) /\ 0 \in 0 .. n
    OBVIOUS
  <2> HIDE DEF s, Q
  <2> QED
    BY <2>1
<1>2. ASSUME NEW k \in 0 .. n - 1, k \in T
      PROVE  k + 1 \in T
  <2>1. PICK s : Q(s, k)
    BY <1>2
  <2>2. k + 1 \in 1 .. n /\ k \in 0 .. k /\ \A r \in 0 .. k + 1 : r # k + 1 => r \in 0 .. k
    OBVIOUS
  <2> DEFINE t == [r \in 0 .. k + 1 |-> IF r = k + 1 THEN F[k + 1][s[k]] ELSE s[r]]
  <2>3. F[k + 1][s[k]] \in S
    BY <2>1, <2>2
  <2>4. t \in [0 .. k + 1 -> S]
    BY <2>1, <2>2, <2>3
  <2>5. t[0] = a
    BY <2>1
  <2>6. ASSUME NEW r \in 1 .. k + 1
        PROVE  t[r] = F[r][t[r - 1]]
    <3>1. r - 1 \in 0 .. k /\ t[r - 1] = s[r - 1] /\ r \in 0 .. k + 1
      OBVIOUS
    <3>2. CASE r = k + 1
      BY <3>1, <3>2
    <3>3. CASE r # k + 1
      <4>1. r \in 1 .. k /\ t[r] = s[r]
        BY <3>1, <3>3
      <4> QED
        BY <2>1, <3>1, <4>1
    <3> QED
      BY <3>2, <3>3
  <2> HIDE DEF t
  <2>7. Q(t, k + 1)
    BY <2>4, <2>5, <2>6
  <2> HIDE DEF Q
  <2> QED
    BY <2>2, <2>7
<1>3. n \in T
  <2>1. T \in SUBSET Nat
    <3> HIDE DEF Q
    <3> QED
      OBVIOUS
  <2> HIDE DEF T
  <2>2. \A i \in 0 .. n - 1 : i \in T => i + 1 \in T
    BY <1>2
  <2>3. 0 .. n \subseteq T
    BY <1>1, <2>1, <2>2, UpTo
  <2> QED
    BY <2>3
<1>4. PICK s : Q(s, n)
  BY <1>3
<1> QED
  BY <1>4 DEF Steps

\* The same without the type of the rounds.
Unrolls(g, n, a, F, S) ==
    /\ g = [r \in 0 .. n |-> g[r]]
    /\ g[0] = a /\ \A r \in 1 .. n : g[r - 1] \in S => g[r] = F[g[r - 1]]

(* It has no others.                                                         *)
LEMMA RoundsUnique ==
    ASSUME NEW n \in Nat, NEW S, NEW F, NEW a, NEW s, Runs(s, n, a, F, S),
           NEW g, Unrolls(g, n, a, F, S)
    PROVE  g = s
<1>a. /\ g = [r \in 0 .. n |-> g[r]]
      /\ g[0] = a /\ \A r \in 1 .. n : g[r - 1] \in S => g[r] = F[g[r - 1]]
  BY DEF Unrolls
<1>b. /\ F \in [S -> S] /\ s \in [0 .. n -> S]
      /\ s[0] = a /\ \A r \in 1 .. n : s[r] = F[s[r - 1]]
  BY DEF Runs
<1> DEFINE T == {r \in 0 .. n : g[r] = s[r]}
<1>1. 0 \in T
  BY <1>b, <1>a
<1>2. ASSUME NEW r \in 0 .. n - 1, r \in T
      PROVE  r + 1 \in T
  <2>1. r + 1 \in 0 .. n /\ r + 1 \in 1 .. n /\ (r + 1) - 1 = r /\ r \in 0 .. n
    OBVIOUS
  <2>2. g[r] = s[r] /\ s[r] \in S
    BY <1>b, <1>a, <1>2, <2>1
  <2>3. g[r + 1] = F[g[r]] /\ s[r + 1] = F[s[r]]
    BY <1>b, <1>a, <2>1, <2>2
  <2> QED
    BY <2>1, <2>2, <2>3
<1>3. 0 .. n \subseteq T
  <2>1. T \in SUBSET Nat
    OBVIOUS
  <2>2. \A r \in 0 .. n - 1 : r \in T => r + 1 \in T
    BY <1>2
  <2> HIDE DEF T
  <2> QED
    BY <1>1, <2>1, <2>2, UpTo
<1>4. \A r \in 0 .. n : g[r] = s[r]
  BY <1>3
<1>5. s = [r \in 0 .. n |-> s[r]]
  BY <1>b, <1>a
<1> QED
  BY <1>a, <1>4, <1>5

(* A loop that does nothing once it is done, and before that gets nearer to  *)
(* zero in each round, is done after enough rounds.                          *)
LEMMA LoopEnds ==
    ASSUME NEW n \in Nat, NEW S, NEW F, NEW a, NEW s, Runs(s, n, a, F, S),
           NEW Done \in SUBSET S, NEW m \in [S -> Nat], m[a] <= n,
           \A x \in Done : F[x] = x,
           \A x \in S \ Done : m[F[x]] < m[x]
    PROVE  s[n] \in Done
<1>0. /\ F \in [S -> S] /\ s \in [0 .. n -> S]
      /\ s[0] = a /\ \A r \in 1 .. n : s[r] = F[s[r - 1]]
  BY DEF Runs
<1> DEFINE T == {r \in 0 .. n : s[r] \in Done \/ m[s[r]] <= n - r}
<1>1. 0 \in T
  BY <1>0
<1>2. ASSUME NEW r \in 0 .. n - 1, r \in T
      PROVE  r + 1 \in T
  <2>1. r + 1 \in 1 .. n /\ (r + 1) - 1 = r /\ r \in 0 .. n
    OBVIOUS
  <2>2. s[r + 1] = F[s[r]] /\ s[r] \in S
    BY <1>0, <2>1
  <2>3. CASE s[r] \in Done
    <3>1. s[r + 1] = s[r]
      BY <2>2, <2>3
    <3> QED
      BY <2>1, <2>3, <3>1
  <2>4. CASE s[r] \notin Done
    <3>1. m[s[r]] <= n - r
      BY <1>2, <2>4
    <3>2. m[s[r + 1]] < m[s[r]]
      BY <2>2, <2>4
    <3>3. m[s[r + 1]] \in Nat /\ m[s[r]] \in Nat
      BY <1>0, <2>1
    <3>4. m[s[r + 1]] <= n - (r + 1)
      BY <3>1, <3>2, <3>3
    <3>5. r + 1 \in 0 .. n
      OBVIOUS
    <3> QED
      BY <3>4, <3>5
  <2> QED
    BY <2>3, <2>4
<1>3. n \in T
  <2>1. T \in SUBSET Nat
    OBVIOUS
  <2> HIDE DEF T
  <2>2. \A i \in 0 .. n - 1 : i \in T => i + 1 \in T
    BY <1>2
  <2>3. 0 .. n \subseteq T
    BY <1>1, <2>1, <2>2, UpTo
  <2> QED
    BY <2>3
<1>4. s[n] \in S /\ m[s[n]] \in Nat /\ m[F[s[n]]] \in Nat
  BY <1>0
<1> QED
  BY <1>3, <1>4

(* Such a loop has rounds, and the last one is where it rests.               *)
LEMMA LoopRests ==
    ASSUME NEW n \in Nat, NEW S, NEW F \in [S -> S], NEW a \in S,
           NEW Done \in SUBSET S, NEW m \in [S -> Nat], m[a] <= n,
           \A x \in Done : F[x] = x,
           \A x \in S \ Done : m[F[x]] < m[x]
    PROVE  \E s : Runs(s, n, a, F, S) /\ s[n] \in Done
<1>1. PICK s : Runs(s, n, a, F, S)
  BY RoundsExist
<1>2. s[n] \in Done
  BY <1>1, LoopEnds
<1> QED
  BY <1>1, <1>2

(* What holds before the first step, and after a step when it did before it, *)
(* holds after every step.                                                   *)
LEMMA StepsStay ==
    ASSUME NEW n \in Nat, NEW S, NEW g, g[0] \in S,
           \A i \in 1 .. n : g[i - 1] \in S => g[i] \in S
    PROVE  \A i \in 0 .. n : g[i] \in S
<1> DEFINE T == {i \in 0 .. n : g[i] \in S}
<1>1. 0 \in T
  OBVIOUS
<1>2. ASSUME NEW i \in 0 .. n - 1, i \in T
      PROVE  i + 1 \in T
  <2>1. i + 1 \in 1 .. n /\ (i + 1) - 1 = i /\ i + 1 \in 0 .. n
    OBVIOUS
  <2>2. g[i + 1] \in S
    BY <1>2, <2>1
  <2> QED
    BY <2>1, <2>2
<1>3. T \in SUBSET Nat
  OBVIOUS
<1>4. \A i \in 0 .. n - 1 : i \in T => i + 1 \in T
  BY <1>2
<1> HIDE DEF T
<1>5. 0 .. n \subseteq T
  BY <1>1, <1>3, <1>4, UpTo
<1> QED
  BY <1>5 DEF T

-----------------------------------------------------------------------------

(* What holds of an element when it holds of those with a smaller measure    *)
(* holds of all.                                                             *)
LEMMA MeasureInduction ==
    ASSUME NEW D, NEW m \in [D -> Nat], NEW T,
           \A x \in D : (\A y \in D : m[y] < m[x] => y \in T) => x \in T
    PROVE  D \subseteq T
<1> DEFINE Bad == {m[x] : x \in D \ T}
<1>1. SUFFICES ASSUME ~(D \subseteq T) PROVE FALSE
  OBVIOUS
<1>2. Bad \in SUBSET Nat /\ Bad # {}
  BY <1>1
<1>3. PICK k \in Bad : \A j \in Bad : k <= j
  <2> HIDE DEF Bad
  <2> QED
    BY <1>2, LeastElement
<1>4. PICK x \in D \ T : m[x] = k
  BY <1>3
<1>5. ASSUME NEW y \in D, m[y] < m[x]
      PROVE  y \in T
  <2>1. SUFFICES ASSUME y \notin T PROVE FALSE
    OBVIOUS
  <2>2. m[y] \in Bad
    BY <2>1
  <2>3. m[x] <= m[y]
    BY <1>3, <1>4, <2>2
  <2>4. m[x] \in Int /\ m[y] \in Int
    OBVIOUS
  <2> QED
    BY <1>5, <2>3, <2>4
<1> QED
  BY <1>4, <1>5

\* The body G of a recursive definition of a function from D to V looks only
\* at elements with a smaller measure m.
Recursion(D, V, m, G) ==
    /\ V # {} /\ m \in [D -> Nat] /\ G \in [[D -> V] -> [D -> V]]
    /\ \A f, h \in [D -> V] : \A x \in D :
          (\A y \in D : m[y] < m[x] => f[y] = h[y]) => G[f][x] = G[h][x]

(* Such a recursive definition defines a function.                           *)
LEMMA RecursionDefines ==
    ASSUME NEW D, NEW V, NEW m, NEW G, Recursion(D, V, m, G)
    PROVE  \E f \in [D -> V] : f = G[f]
<1>a. /\ V # {} /\ m \in [D -> Nat] /\ G \in [[D -> V] -> [D -> V]]
      /\ \A f, h \in [D -> V] : \A x \in D :
            (\A y \in D : m[y] < m[x] => f[y] = h[y]) => G[f][x] = G[h][x]
  BY DEF Recursion
<1> DEFINE Good(n) == {f \in [D -> V] : \A x \in D : m[x] < n => f[x] = G[f][x]}
           T == {n \in Nat : Good(n) # {}}
<1>1. 0 \in T
  <2>1. PICK v : v \in V
    BY <1>a
  <2>2. [x \in D |-> v] \in [D -> V]
    BY <1>a, <2>1
  <2>3. \A x \in D : ~(m[x] < 0)
    BY <1>a
  <2> QED
    BY <1>a, <2>2, <2>3
<1>2. ASSUME NEW n \in Nat, n \in T
      PROVE  n + 1 \in T
  <2>1. PICK f \in Good(n) : TRUE
    BY <1>a, <1>2
  <2>2. G[f] \in [D -> V] /\ G[G[f]] \in [D -> V] /\ f \in [D -> V]
    BY <1>a, <2>1
  <2>3. ASSUME NEW x \in D, m[x] < n + 1
        PROVE  G[f][x] = G[G[f]][x]
    <3>1. ASSUME NEW y \in D, m[y] < m[x]
          PROVE  f[y] = G[f][y]
      <4>1. m[y] < n
        <5>1. m[x] \in Int /\ m[y] \in Int
          BY <1>a
        <5> QED
          BY <1>a, <2>3, <3>1, <5>1
      <4> QED
        BY <1>a, <2>1, <4>1
    <3> QED
      BY <1>a, <2>2, <3>1
  <2>4. G[f] \in Good(n + 1)
    BY <1>a, <2>2, <2>3
  <2> QED
    BY <1>a, <2>4
<1>3. T = Nat
  <2>1. T \in SUBSET Nat
    BY <1>a
  <2>2. ASSUME NEW n \in Nat
        PROVE  n \in T
    <3>1. \A i \in 0 .. n - 1 : i \in T => i + 1 \in T
      BY <1>a, <1>2
    <3> HIDE DEF T
    <3>2. 0 .. n \subseteq T
      BY <1>a, <1>1, <2>1, <3>1, UpTo
    <3> QED
      BY <1>a, <3>2
  <2> QED
    BY <1>a, <2>2
<1>4. ASSUME NEW i \in Nat, NEW f \in Good(i), NEW j \in Nat, NEW h \in Good(j),
             NEW z \in D, m[z] < i, m[z] < j
      PROVE  f[z] = h[z]
  <2> DEFINE U == {x \in D : m[x] < i /\ m[x] < j => f[x] = h[x]}
  <2>1. ASSUME NEW x \in D, \A y \in D : m[y] < m[x] => y \in U
        PROVE  x \in U
    <3>1. SUFFICES ASSUME m[x] < i, m[x] < j
                   PROVE  f[x] = h[x]
      BY <1>a
    <3>2. ASSUME NEW y \in D, m[y] < m[x]
          PROVE  f[y] = h[y]
      <4>1. m[y] < i /\ m[y] < j
        <5>1. m[x] \in Int /\ m[y] \in Int
          BY <1>a
        <5> QED
          BY <1>a, <3>1, <3>2, <5>1
      <4> QED
        BY <1>a, <2>1, <3>2, <4>1
    <3>3. G[f][x] = G[h][x]
      BY <1>a, <3>2
    <3> QED
      BY <1>a, <3>1, <3>3
  <2> HIDE DEF U
  <2>2. D \subseteq U
    BY <1>a, <2>1, MeasureInduction
  <2> QED
    BY <1>a, <1>4, <2>2 DEF U
<1> DEFINE Of(x) == CHOOSE f : f \in Good(m[x] + 1)
           H == [x \in D |-> Of(x)[x]]
<1>5. \A x \in D : Of(x) \in Good(m[x] + 1)
  <2>1. SUFFICES ASSUME NEW x \in D PROVE Of(x) \in Good(m[x] + 1)
    BY <1>a
  <2>2. m[x] + 1 \in T
    BY <1>a, <1>3
  <2>3. \E f : f \in Good(m[x] + 1)
    BY <1>a, <2>2
  <2> HIDE DEF Good
  <2> QED
    BY <1>a, <2>3
<1>6. \A x \in D : Of(x) \in [D -> V] /\ Of(x)[x] = G[Of(x)][x]
  <2>1. \A x \in D : m[x] < m[x] + 1
    BY <1>a
  <2> HIDE DEF Of
  <2> QED
    BY <1>a, <1>5, <2>1
<1> HIDE DEF Of, Good
<1>7. H \in [D -> V]
  BY <1>a, <1>6
<1>8. ASSUME NEW x \in D
      PROVE  H[x] = G[H][x]
  <2>1. ASSUME NEW y \in D, m[y] < m[x]
        PROVE  Of(x)[y] = H[y]
    <3>1. m[y] < m[x] + 1 /\ m[y] < m[y] + 1 /\ m[x] + 1 \in Nat /\ m[y] + 1 \in Nat
      <4>1. m[x] \in Nat /\ m[y] \in Nat
        BY <1>a
      <4> QED
        BY <1>a, <2>1, <4>1
    <3>2. Of(x)[y] = Of(y)[y]
      BY <1>a, <1>4, <1>5, <3>1
    <3> QED
      BY <1>a, <3>2
  <2> HIDE DEF H
  <2>2. G[Of(x)][x] = G[H][x]
    BY <1>a, <1>6, <1>7, <2>1
  <2>3. H[x] = Of(x)[x]
    BY DEF H
  <2> QED
    BY <1>a, <1>6, <2>2, <2>3
<1>9. G[H] \in [D -> V]
  BY <1>a, <1>7
<1>10. H = G[H]
  <2> HIDE DEF H
  <2> QED
    BY <1>a, <1>7, <1>8, <1>9
<1> QED
  BY <1>a, <1>7, <1>10
===============================================================================
