---------------------------- MODULE NgramLM_proofs ----------------------------
(***************************************************************************)
(* Proofs about the backoff N-gram model, for every vocabulary, order,     *)
(* corpus and discounting.                                                 *)
(***************************************************************************)
EXTENDS NgramLM, Loops, FiniteSetTheorems

-----------------------------------------------------------------------------
(* Fractions. *)

\* The equation that defines Gcd.
LEMMA GcdIs ==
    /\ Gcd \in [Nat \X Nat -> Nat]
    /\ \A p \in Nat \X Nat : Gcd[p] = IF p[2] = 0 THEN p[1] ELSE Gcd[<<p[2], p[1] % p[2]>>]
<1> DEFINE D == Nat \X Nat
           Body(f, p) == IF p[2] = 0 THEN p[1] ELSE f[<<p[2], p[1] % p[2]>>]
           G == [f \in [D -> Nat] |-> [p \in D |-> Body(f, p)]]
           m == [p \in D |-> p[2]]
<1>1. \A p \in D : p[2] # 0 => <<p[2], p[1] % p[2]>> \in D /\ p[1] % p[2] < p[2]
  OBVIOUS
<1>2. m \in [D -> Nat]
  OBVIOUS
<1>3. G \in [[D -> Nat] -> [D -> Nat]]
  <2>1. \A f \in [D -> Nat], p \in D : Body(f, p) \in Nat
    <3> SUFFICES ASSUME NEW f \in [D -> Nat], NEW p \in D PROVE Body(f, p) \in Nat
      OBVIOUS
    <3>1. CASE p[2] = 0
      BY <3>1
    <3>2. CASE p[2] # 0
      <4>1. f[<<p[2], p[1] % p[2]>>] \in Nat
        BY <1>1, <3>2
      <4> QED
        BY <3>2, <4>1
    <3> QED
      BY <3>1, <3>2
  <2> HIDE DEF Body, D
  <2> QED
    BY <2>1
<1>4. \A f, h \in [D -> Nat] : \A p \in D :
         (\A q \in D : m[q] < m[p] => f[q] = h[q]) => G[f][p] = G[h][p]
  <2> SUFFICES ASSUME NEW f \in [D -> Nat], NEW h \in [D -> Nat], NEW p \in D,
                      \A q \in D : m[q] < m[p] => f[q] = h[q]
               PROVE  G[f][p] = G[h][p]
    OBVIOUS
  <2>1. G[f][p] = Body(f, p) /\ G[h][p] = Body(h, p)
    OBVIOUS
  <2>2. CASE p[2] = 0
    BY <2>1, <2>2
  <2>3. CASE p[2] # 0
    <3> DEFINE q == <<p[2], p[1] % p[2]>>
    <3>1. q \in D /\ q[2] < p[2]
      BY <1>1, <2>3
    <3>2. m[q] < m[p]
      BY <3>1
    <3>3. f[q] = h[q]
      BY <3>1, <3>2
    <3> QED
      BY <2>1, <2>3, <3>3
  <2> QED
    BY <2>2, <2>3
<1>5. \E f \in [D -> Nat] : f = G[f]
  <2>1. Nat # {}
    OBVIOUS
  <2> HIDE DEF D, G, m
  <2>2. Recursion(D, Nat, m, G)
    BY <1>2, <1>3, <1>4, <2>1 DEF Recursion
  <2> QED
    BY <2>2, RecursionDefines
<1>6. \E f : f = [p \in D |-> Body(f, p)]
  BY <1>5
<1>7. Gcd = [p \in D |-> Body(Gcd, p)]
  <2>1. Gcd = CHOOSE f : f = [p \in D |-> Body(f, p)]
    BY DEF Gcd
  <2> HIDE DEF D, Body
  <2> QED
    BY <1>6, <2>1
<1>8. \A p \in D : Gcd[p] \in Nat
  <2> DEFINE T == {p \in D : Gcd[p] \in Nat}
  <2>1. ASSUME NEW p \in D, \A q \in D : m[q] < m[p] => q \in T
        PROVE  p \in T
    <3>1. Gcd[p] = Body(Gcd, p)
      <4> HIDE DEF D, Body
      <4> QED
        BY <1>7
    <3>2. CASE p[2] = 0
      BY <3>1, <3>2
    <3>3. CASE p[2] # 0
      <4> DEFINE q == <<p[2], p[1] % p[2]>>
      <4>1. q \in D /\ m[q] < m[p]
        BY <1>1, <3>3
      <4>2. Gcd[q] \in Nat
        BY <2>1, <4>1
      <4> QED
        BY <3>1, <3>3, <4>2
    <3> QED
      BY <3>2, <3>3
  <2> HIDE DEF D, m, T
  <2>2. D \subseteq T
    BY <1>2, <2>1, MeasureInduction
  <2> QED
    BY <2>2 DEF T
<1> QED
  <2> HIDE DEF Body, D
  <2>1. Gcd \in [D -> Nat] /\ \A p \in D : Gcd[p] = Body(Gcd, p)
    BY <1>7, <1>8
  <2> QED
    BY <2>1 DEF Body, D

\* Nothing but one divides one.
LEMMA GcdOne ==
    ASSUME NEW a \in Nat
    PROVE  Gcd[<<a, 1>>] = 1 /\ Gcd[<<1, a>>] = 1
<1>1. Gcd[<<1, 0>>] = 1
  BY GcdIs
<1>2. ASSUME NEW b \in Nat PROVE Gcd[<<b, 1>>] = 1
  <2>1. Gcd[<<b, 1>>] = Gcd[<<1, b % 1>>]
    BY GcdIs
  <2>2. b % 1 = 0
    OBVIOUS
  <2> QED
    BY <1>1, <2>1, <2>2
<1>3. CASE a = 0
  BY <1>1, <1>2, <1>3
<1>4. CASE a = 1
  BY <1>2, <1>4
<1>5. CASE a \notin {0, 1}
  <2>1. Gcd[<<1, a>>] = Gcd[<<a, 1 % a>>]
    BY <1>5, GcdIs
  <2>2. 1 % a = 1
    BY <1>5
  <2> QED
    BY <1>2, <2>1, <2>2
<1> QED
  BY <1>3, <1>4, <1>5

\* A quotient of integers, in its lowest terms, is a fraction.
LEMMA RatioType ==
    ASSUME NEW n \in Int, NEW d \in Nat
    PROVE  Ratio(n, d) \in Fraction /\ (n >= 0 => Ratio(n, d) \in Amounts)
<1> DEFINE g == Gcd[<<Size(n), d>>]
<1>1. Size(n) \in Nat
  BY DEF Size
<1>2. g \in Nat
  BY <1>1, GcdIs
<1>3. CASE g = 0
  BY <1>3 DEF Ratio, Fraction, Amounts
<1>4. CASE g # 0
  <2> HIDE DEF g
  <2>1. n \div g \in Int /\ d \div g \in Nat /\ (n >= 0 => n \div g \in Nat)
    BY <1>2, <1>4
  <2>2. Ratio(n, d) = <<n \div g, d \div g>>
    BY <1>4 DEF Ratio, g
  <2> QED
    BY <2>1, <2>2 DEF Fraction, Amounts
<1> QED
  BY <1>3, <1>4

\* The masses computeBOW can be told to leave.
Masses == {q \in Fraction : ~Less(One, q)}

\* The constants that stand for probabilities and masses.
LEMMA Constants ==
    /\ Zero \in Amounts /\ One \in Amounts /\ Zero \in Masses /\ NoMinimum \in Masses
    /\ Amounts \subseteq Fraction /\ \A q \in Fraction : ~Negative(q) => q \in Amounts
BY DEF Zero, One, NoMinimum, Fraction, Amounts, Masses, Less, Negative

\* Fractions are closed under the operations.
LEMMA TimesType ==
    ASSUME NEW p \in Fraction, NEW q \in Fraction
    PROVE  Times(p, q) \in Fraction
<1>1. Ratio(p[1], q[2]) \in Fraction /\ Ratio(q[1], p[2]) \in Fraction
  BY RatioType DEF Fraction
<1>2. \A l, r \in Fraction : Product2(l, r) \in Fraction
  <2> SUFFICES ASSUME NEW l \in Fraction, NEW r \in Fraction PROVE Product2(l, r) \in Fraction
    OBVIOUS
  <2>1. l[1] * r[1] \in Int /\ l[2] * r[2] \in Nat
    BY DEF Fraction
  <2> QED
    BY <2>1 DEF Product2, Fraction
<1> QED
  BY <1>1, <1>2 DEF Times

\* One changes no fraction.
LEMMA TimesOne ==
    ASSUME NEW p \in Fraction
    PROVE  Times(p, One) = p
<1>1. PICK n \in Int, d \in Nat : p = <<n, d>>
  BY DEF Fraction
<1>2. Size(n) \in Nat /\ Size(1) = 1
  BY DEF Size
<1>3. Ratio(n, 1) = <<n, 1>>
  <2>1. Gcd[<<Size(n), 1>>] = 1
    BY <1>2, GcdOne
  <2>2. n \div 1 = n /\ 1 \div 1 = 1
    OBVIOUS
  <2> QED
    BY <2>1, <2>2 DEF Ratio
<1>4. Ratio(1, d) = <<1, d>>
  <2>1. Gcd[<<Size(1), d>>] = 1
    BY <1>2, GcdOne
  <2>2. d \div 1 = d /\ 1 \div 1 = 1
    OBVIOUS
  <2> QED
    BY <2>1, <2>2 DEF Ratio
<1>5. Times(p, One) = Product2(<<n, 1>>, <<1, d>>)
  BY <1>1, <1>3, <1>4 DEF Times, One
<1>6. n * 1 = n /\ 1 * d = d
  OBVIOUS
<1> QED
  BY <1>1, <1>5, <1>6 DEF Product2

LEMMA PlusType ==
    ASSUME NEW p \in Fraction, NEW q \in Fraction
    PROVE  Plus(p, q) \in Fraction
<1> DEFINE g == Gcd[<<p[2], q[2]>>]
<1>1. p[1] \in Int /\ q[1] \in Int /\ p[2] \in Nat /\ q[2] \in Nat
  BY DEF Fraction
<1>2. g \in Nat
  BY <1>1, GcdIs
<1>3. CASE g = 0
  BY <1>3 DEF Plus, Fraction
<1>4. CASE g # 0
  <2> HIDE DEF g
  <2> DEFINE a == q[2] \div g
             b == p[2] \div g
  <2>1. a \in Nat /\ b \in Nat
    BY <1>1, <1>2, <1>4
  <2>2. Plus(p, q) = Ratio(p[1] * a + q[1] * b, p[2] * a)
    BY <1>4 DEF Plus, g
  <2> HIDE DEF a, b
  <2>3. p[1] * a + q[1] * b \in Int /\ p[2] * a \in Nat
    BY <1>1, <2>1
  <2> QED
    BY <2>2, <2>3, RatioType
<1> QED
  BY <1>3, <1>4

LEMMA MinusType ==
    ASSUME NEW p \in Fraction, NEW q \in Fraction
    PROVE  Minus(p, q) \in Fraction
<1>1. <<-q[1], q[2]>> \in Fraction
  BY DEF Fraction
<1> QED
  BY <1>1, PlusType DEF Minus

LEMMA OverType ==
    ASSUME NEW p \in Fraction, NEW q \in Fraction
    PROVE  Over(p, q) \in Fraction
<1> DEFINE r == IF q[1] < 0 THEN <<-q[2], -q[1]>> ELSE <<q[2], q[1]>>
<1>1. r \in Fraction
  BY DEF Fraction
<1>2. Over(p, q) = Times(p, r)
  BY DEF Over
<1> HIDE DEF r
<1> QED
  BY <1>1, <1>2, TimesType

\* Amounts, the fractions that are not negative, are too.
LEMMA TimesAmount ==
    ASSUME NEW p \in Amounts, NEW q \in Amounts
    PROVE  Times(p, q) \in Amounts
<1>1. Ratio(p[1], q[2]) \in Amounts /\ Ratio(q[1], p[2]) \in Amounts
  BY RatioType DEF Amounts
<1>2. \A l, r \in Amounts : Product2(l, r) \in Amounts
  <2> SUFFICES ASSUME NEW l \in Amounts, NEW r \in Amounts PROVE Product2(l, r) \in Amounts
    OBVIOUS
  <2>1. l[1] * r[1] \in Nat /\ l[2] * r[2] \in Nat
    BY DEF Amounts
  <2> QED
    BY <2>1 DEF Product2, Amounts
<1> QED
  BY <1>1, <1>2 DEF Times

LEMMA PlusAmount ==
    ASSUME NEW p \in Amounts, NEW q \in Amounts
    PROVE  Plus(p, q) \in Amounts
<1> DEFINE g == Gcd[<<p[2], q[2]>>]
<1>1. p[1] \in Nat /\ q[1] \in Nat /\ p[2] \in Nat /\ q[2] \in Nat
  BY DEF Amounts
<1>2. g \in Nat
  BY <1>1, GcdIs
<1>3. CASE g = 0
  BY <1>3 DEF Plus, Amounts
<1>4. CASE g # 0
  <2> HIDE DEF g
  <2> DEFINE a == q[2] \div g
             b == p[2] \div g
  <2>1. a \in Nat /\ b \in Nat
    BY <1>1, <1>2, <1>4
  <2>2. Plus(p, q) = Ratio(p[1] * a + q[1] * b, p[2] * a)
    BY <1>4 DEF Plus, g
  <2> HIDE DEF a, b
  <2>3. p[1] * a \in Nat /\ q[1] * b \in Nat /\ p[2] * a \in Nat
    BY <1>1, <2>1
  <2>4. p[1] * a + q[1] * b \in Int /\ p[1] * a + q[1] * b >= 0
    BY <2>3
  <2> QED
    BY <2>2, <2>3, <2>4, RatioType
<1> QED
  BY <1>3, <1>4

LEMMA OverAmount ==
    ASSUME NEW p \in Amounts, NEW q \in Amounts
    PROVE  Over(p, q) \in Amounts
<1>1. <<q[2], q[1]>> \in Amounts /\ ~(q[1] < 0)
  BY DEF Amounts
<1>2. Over(p, q) = Times(p, <<q[2], q[1]>>)
  BY <1>1 DEF Over
<1> QED
  BY <1>1, <1>2, TimesAmount

\* A quotient does not get smaller when its dividend does not.
LEMMA QuotientGrows ==
    ASSUME NEW a \in Int, NEW b \in Int, a <= b, NEW g \in Nat, g # 0
    PROVE  a \div g <= b \div g
<1> DEFINE x == a \div g
           y == b \div g
<1>1. x \in Int /\ y \in Int
  OBVIOUS
<1>2. g * x <= a /\ b < g * y + g
  OBVIOUS
<1> HIDE DEF x, y
<1>3. SUFFICES ASSUME x >= y + 1 PROVE FALSE
  BY <1>1 DEF x, y
<1>4. g * x >= g * (y + 1) /\ g * (y + 1) = g * y + g
  BY <1>1, <1>3
<1>5. g * x \in Int /\ g * y \in Int
  BY <1>1
<1> QED
  BY <1>2, <1>4, <1>5

\* What a mass of at most one leaves of one, and what that leaves of an
\* amount.
LEMMA OneMinus ==
    ASSUME NEW q \in Fraction
    PROVE  /\ ~Less(One, q) => Minus(One, q) \in Amounts
           /\ ~Negative(q) => ~Less(One, Minus(One, q))
<1>1. PICK n \in Int, d \in Nat : q = <<n, d>>
  BY DEF Fraction
<1>2. Minus(One, q) = Ratio(d - n, d)
  <2>1. Gcd[<<1, d>>] = 1
    BY GcdOne
  <2>2. d \div 1 = d /\ 1 \div 1 = 1
    OBVIOUS
  <2>3. Minus(One, q) = Ratio(1 * d + (-n) * 1, 1 * d)
    BY <1>1, <2>1, <2>2 DEF Minus, Plus, One
  <2>4. 1 * d + (-n) * 1 = d - n /\ 1 * d = d
    OBVIOUS
  <2> QED
    BY <2>3, <2>4
<1>3. ASSUME ~Less(One, q) PROVE Minus(One, q) \in Amounts
  <2>1. d - n \in Int /\ d - n >= 0
    BY <1>1, <1>3 DEF Less, One
  <2> QED
    BY <1>2, <2>1, RatioType
<1>4. ASSUME ~Negative(q) PROVE ~Less(One, Minus(One, q))
  <2> DEFINE g == Gcd[<<Size(d - n), d>>]
  <2>1. d - n <= d /\ d - n \in Int
    BY <1>1, <1>4 DEF Negative
  <2>2. g \in Nat
    <3>1. Size(d - n) \in Nat
      BY <2>1 DEF Size
    <3> QED
      BY <3>1, GcdIs
  <2>3. Ratio(d - n, d) = IF g = 0 THEN <<0, 0>> ELSE <<(d - n) \div g, d \div g>>
    BY DEF Ratio
  <2> HIDE DEF g
  <2>4. CASE g = 0
    BY <1>2, <2>3, <2>4 DEF Less, One
  <2>5. CASE g # 0
    <3>1. (d - n) \div g <= d \div g
      BY <2>1, <2>2, <2>5, QuotientGrows
    <3>2. (d - n) \div g \in Int /\ d \div g \in Int
      BY <2>1, <2>2, <2>5
    <3> DEFINE x == (d - n) \div g
               y == d \div g
    <3>3. Minus(One, q) = <<x, y>>
      BY <1>2, <2>3, <2>5
    <3> HIDE DEF x, y
    <3>4. x <= y /\ x \in Int /\ y \in Int
      BY <3>1, <3>2 DEF x, y
    <3> QED
      BY <3>3, <3>4 DEF Less, One
  <2> QED
    BY <2>4, <2>5
<1> QED
  BY <1>3, <1>4

-----------------------------------------------------------------------------
(* Folds over finite sets. *)

AnyOf(S) == CHOOSE x \in S : TRUE

\* The fold with Op of the subsets of A, one element at a time.
Folding(g, A, base, Op) ==
    g = [S \in SUBSET A |-> IF S = {} THEN base ELSE Op[<<AnyOf(S), g[S \ {AnyOf(S)}]>>]]

\* There is such a function.
LEMMA FoldDefines ==
    ASSUME NEW A, IsFiniteSet(A), NEW V, NEW base \in V, NEW Op \in [A \X V -> V]
    PROVE  \E g \in [SUBSET A -> V] : Folding(g, A, base, Op)
<1> DEFINE D == SUBSET A
           Body(g, S) == IF S = {} THEN base ELSE Op[<<AnyOf(S), g[S \ {AnyOf(S)}]>>]
           G == [g \in [D -> V] |-> [S \in D |-> Body(g, S)]]
           m == [S \in D |-> Cardinality(S)]
<1>1. ASSUME NEW S \in D, S # {}
      PROVE  /\ AnyOf(S) \in A /\ S \ {AnyOf(S)} \in D
             /\ Cardinality(S \ {AnyOf(S)}) < Cardinality(S)
  <2>1. AnyOf(S) \in S
    BY <1>1 DEF AnyOf
  <2>2. IsFiniteSet(S)
    BY FS_Subset
  <2>3. Cardinality(S) \in Nat /\ Cardinality(S \ {AnyOf(S)}) = Cardinality(S) - 1
    BY <2>1, <2>2, FS_RemoveElement, FS_CardinalityType
  <2> QED
    BY <2>1, <2>3
<1>2. m \in [D -> Nat]
  <2>1. \A S \in D : IsFiniteSet(S)
    BY FS_Subset
  <2> QED
    BY <2>1, FS_CardinalityType
<1>3. \A g \in [D -> V], S \in D : Body(g, S) \in V
  <2> SUFFICES ASSUME NEW g \in [D -> V], NEW S \in D PROVE Body(g, S) \in V
    OBVIOUS
  <2>1. CASE S = {}
    BY <2>1
  <2>2. CASE S # {}
    BY <1>1, <2>2
  <2> QED
    BY <2>1, <2>2
<1>4. G \in [[D -> V] -> [D -> V]]
  <2> HIDE DEF Body, D
  <2> QED
    BY <1>3
<1>5. ASSUME NEW f \in [D -> V], NEW h \in [D -> V], NEW S \in D,
             \A T \in D : m[T] < m[S] => f[T] = h[T]
      PROVE  G[f][S] = G[h][S]
  <2>1. G[f][S] = Body(f, S) /\ G[h][S] = Body(h, S)
    OBVIOUS
  <2>2. CASE S = {}
    BY <2>1, <2>2
  <2>3. CASE S # {}
    <3> DEFINE T == S \ {AnyOf(S)}
    <3>1. T \in D /\ m[T] < m[S]
      BY <1>1, <2>3
    <3>2. f[T] = h[T]
      BY <1>5, <3>1
    <3> QED
      BY <2>1, <2>3, <3>2
  <2> QED
    BY <2>2, <2>3
<1>6. Recursion(D, V, m, G)
  <2>1. V # {}
    OBVIOUS
  <2> HIDE DEF D, m, G
  <2> QED
    BY <1>2, <1>4, <1>5, <2>1 DEF Recursion
<1>7. \E g \in [D -> V] : g = G[g]
  <2> HIDE DEF D, m, G
  <2> QED
    BY <1>6, RecursionDefines
<1> HIDE DEF Body
<1>8. \E g \in [D -> V] : g = [S \in D |-> Body(g, S)]
  BY <1>7
<1> QED
  BY <1>8 DEF Body, Folding

\* What a fold returns is of the type of its operation.
LEMMA FoldStays ==
    ASSUME NEW A, IsFiniteSet(A), NEW V, NEW g, g[{}] \in V,
           \A S \in SUBSET A : S # {} /\ g[S \ {AnyOf(S)}] \in V => g[S] \in V
    PROVE  g[A] \in V
<1> DEFINE D == SUBSET A
           m == [S \in D |-> Cardinality(S)]
           T == {S \in D : g[S] \in V}
<1>1. m \in [D -> Nat]
  <2>1. \A S \in D : IsFiniteSet(S)
    BY FS_Subset
  <2> QED
    BY <2>1, FS_CardinalityType
<1>2. ASSUME NEW S \in D, \A U \in D : m[U] < m[S] => U \in T
      PROVE  S \in T
  <2>1. CASE S = {}
    BY <2>1
  <2>2. CASE S # {}
    <3> DEFINE U == S \ {AnyOf(S)}
    <3>1. AnyOf(S) \in S
      BY <2>2 DEF AnyOf
    <3>2. IsFiniteSet(S)
      BY FS_Subset
    <3>3. Cardinality(S) \in Nat /\ Cardinality(U) = Cardinality(S) - 1
      BY <3>1, <3>2, FS_RemoveElement, FS_CardinalityType
    <3>4. U \in D /\ m[U] < m[S]
      BY <3>3
    <3>5. g[U] \in V
      BY <1>2, <3>4
    <3> QED
      BY <2>2, <3>5
  <2> QED
    BY <2>1, <2>2
<1>3. D \subseteq T
  <2> HIDE DEF D, m, T
  <2> QED
    BY <1>1, <1>2, MeasureInduction
<1> QED
  BY <1>3

\* SumOfAll, with the fold it is defined by written out.
LEMMA SumIs ==
    ASSUME NEW f
    PROVE  SumOfAll(f) = (CHOOSE g : g = [S \in SUBSET DOMAIN f |->
                                             IF S = {} THEN Zero
                                             ELSE Plus(f[AnyOf(S)], g[S \ {AnyOf(S)}])])[DOMAIN f]
BY DEF SumOfAll, MapThenFoldSet, AnyOf

\* A sum of amounts is an amount.
LEMMA SumType ==
    ASSUME NEW A, IsFiniteSet(A), NEW f \in [A -> Amounts]
    PROVE  SumOfAll(f) \in Amounts
<1> DEFINE Op == [q \in A \X Amounts |-> Plus(f[q[1]], q[2])]
           sum == CHOOSE g : g = [S \in SUBSET DOMAIN f |->
                                   IF S = {} THEN Zero
                                   ELSE Plus(f[AnyOf(S)], g[S \ {AnyOf(S)}])]
<1>0. DOMAIN f = A
  OBVIOUS
<1>1. Op \in [A \X Amounts -> Amounts]
  BY PlusAmount
<1>2. PICK g \in [SUBSET A -> Amounts] : Folding(g, A, Zero, Op)
  <2> HIDE DEF Op
  <2> QED
    BY <1>1, Constants, FoldDefines
<1>a. \A S \in SUBSET A : S # {} => AnyOf(S) \in A /\ S \ {AnyOf(S)} \in SUBSET A
  BY DEF AnyOf
<1>3. \A S \in SUBSET A : S # {} =>
         Op[<<AnyOf(S), g[S \ {AnyOf(S)}]>>] = Plus(f[AnyOf(S)], g[S \ {AnyOf(S)}])
  BY <1>a
<1>4. g = [S \in SUBSET A |-> IF S = {} THEN Zero ELSE Plus(f[AnyOf(S)], g[S \ {AnyOf(S)}])]
  <2> HIDE DEF Op
  <2> QED
    BY <1>2, <1>3 DEF Folding
<1>5. sum = [S \in SUBSET A |-> IF S = {} THEN Zero ELSE Plus(f[AnyOf(S)], sum[S \ {AnyOf(S)}])]
  BY <1>0, <1>4
<1>6. SumOfAll(f) = sum[A]
  <2>1. SumOfAll(f) = sum[DOMAIN f]
    BY SumIs
  <2> QED
    BY <1>0, <2>1
<1> HIDE DEF sum
<1>7. sum[{}] \in Amounts
  BY <1>5, Constants
<1>8. \A S \in SUBSET A : S # {} /\ sum[S \ {AnyOf(S)}] \in Amounts => sum[S] \in Amounts
  <2> SUFFICES ASSUME NEW S \in SUBSET A, S # {}, sum[S \ {AnyOf(S)}] \in Amounts
               PROVE  sum[S] \in Amounts
    OBVIOUS
  <2>1. sum[S] = Plus(f[AnyOf(S)], sum[S \ {AnyOf(S)}])
    BY <1>5
  <2>2. f[AnyOf(S)] \in Amounts
    BY <1>a
  <2> QED
    BY <2>1, <2>2, PlusAmount
<1> QED
  BY <1>6, <1>7, <1>8, FoldStays

\* The same for ProductOfAll.
LEMMA ProductIs ==
    ASSUME NEW f
    PROVE  ProductOfAll(f) = (CHOOSE g : g = [S \in SUBSET DOMAIN f |->
                                             IF S = {} THEN One
                                             ELSE Times(f[AnyOf(S)], g[S \ {AnyOf(S)}])])[DOMAIN f]
BY DEF ProductOfAll, MapThenFoldSet, AnyOf

\* A product of amounts is an amount.
LEMMA ProductType ==
    ASSUME NEW A, IsFiniteSet(A), NEW f \in [A -> Amounts]
    PROVE  ProductOfAll(f) \in Amounts /\ (A = {} => ProductOfAll(f) = One)
<1> DEFINE Op == [q \in A \X Amounts |-> Times(f[q[1]], q[2])]
           prod == CHOOSE g : g = [S \in SUBSET DOMAIN f |->
                                    IF S = {} THEN One
                                    ELSE Times(f[AnyOf(S)], g[S \ {AnyOf(S)}])]
<1>0. DOMAIN f = A
  OBVIOUS
<1>1. Op \in [A \X Amounts -> Amounts]
  BY TimesAmount
<1>2. PICK g \in [SUBSET A -> Amounts] : Folding(g, A, One, Op)
  <2> HIDE DEF Op
  <2> QED
    BY <1>1, Constants, FoldDefines
<1>a. \A S \in SUBSET A : S # {} => AnyOf(S) \in A /\ S \ {AnyOf(S)} \in SUBSET A
  BY DEF AnyOf
<1>3. \A S \in SUBSET A : S # {} =>
         Op[<<AnyOf(S), g[S \ {AnyOf(S)}]>>] = Times(f[AnyOf(S)], g[S \ {AnyOf(S)}])
  BY <1>a
<1>4. g = [S \in SUBSET A |-> IF S = {} THEN One ELSE Times(f[AnyOf(S)], g[S \ {AnyOf(S)}])]
  <2> HIDE DEF Op
  <2> QED
    BY <1>2, <1>3 DEF Folding
<1>5. prod = [S \in SUBSET A |-> IF S = {} THEN One ELSE Times(f[AnyOf(S)], prod[S \ {AnyOf(S)}])]
  BY <1>0, <1>4
<1>6. ProductOfAll(f) = prod[A]
  <2>1. ProductOfAll(f) = prod[DOMAIN f]
    BY ProductIs
  <2> QED
    BY <1>0, <2>1
<1> HIDE DEF prod
<1>7. prod[{}] = One
  BY <1>5
<1>8. \A S \in SUBSET A : S # {} /\ prod[S \ {AnyOf(S)}] \in Amounts => prod[S] \in Amounts
  <2> SUFFICES ASSUME NEW S \in SUBSET A, S # {}, prod[S \ {AnyOf(S)}] \in Amounts
               PROVE  prod[S] \in Amounts
    OBVIOUS
  <2>1. prod[S] = Times(f[AnyOf(S)], prod[S \ {AnyOf(S)}])
    BY <1>5
  <2>2. f[AnyOf(S)] \in Amounts
    BY <1>a
  <2> QED
    BY <2>1, <2>2, TimesAmount
<1>9. prod[{}] \in Amounts
  BY <1>7, Constants
<1>10. prod[A] \in Amounts
  BY <1>8, <1>9, FoldStays
<1> QED
  BY <1>6, <1>7, <1>10

\* What a corpus counts after a context is a natural number.
LEMMA CountTotalType ==
    ASSUME NEW stats \in Corpora, NEW ctx
    PROVE  CountTotal(stats, ctx) \in Nat
<1> DEFINE A == Followers(stats, ctx) \cap Events
           f == [w \in A |-> stats[Append(ctx, w)]]
           Op == [q \in A \X Nat |-> f[q[1]] + q[2]]
           sum == CHOOSE g : g = [S \in SUBSET A |->
                                   IF S = {} THEN 0
                                   ELSE stats[Append(ctx, AnyOf(S))] + g[S \ {AnyOf(S)}]]
<1>0. f \in [A -> Nat]
  BY CorporaAssumption DEF Followers
<1>b. IsFiniteSet(A)
  <2>1. A \in SUBSET Words
    BY DEF Followers
  <2> QED
    BY <2>1, WordsAssumption, FS_Subset
<1>1. Op \in [A \X Nat -> Nat]
  <2> HIDE DEF f, A
  <2> QED
    BY <1>0
<1>2. PICK g \in [SUBSET A -> Nat] : Folding(g, A, 0, Op)
  <2>1. 0 \in Nat
    OBVIOUS
  <2> HIDE DEF Op, A
  <2> QED
    BY <1>b, <1>1, <2>1, FoldDefines
<1>a. \A S \in SUBSET A : S # {} => AnyOf(S) \in A /\ S \ {AnyOf(S)} \in SUBSET A
  BY DEF AnyOf
<1>3. \A S \in SUBSET A : S # {} =>
         Op[<<AnyOf(S), g[S \ {AnyOf(S)}]>>] = stats[Append(ctx, AnyOf(S))] + g[S \ {AnyOf(S)}]
  <2> HIDE DEF A
  <2> QED
    BY <1>a
<1>4. g = [S \in SUBSET A |-> IF S = {} THEN 0 ELSE stats[Append(ctx, AnyOf(S))] + g[S \ {AnyOf(S)}]]
  <2> HIDE DEF Op, A
  <2> QED
    BY <1>2, <1>3 DEF Folding
<1>5. sum = [S \in SUBSET A |-> IF S = {} THEN 0 ELSE stats[Append(ctx, AnyOf(S))] + sum[S \ {AnyOf(S)}]]
  <2> HIDE DEF A
  <2> QED
    BY <1>4
<1>6. CountTotal(stats, ctx) = sum[A]
  BY DEF CountTotal, MapThenFoldSet, AnyOf
<1> HIDE DEF sum
<1>7. sum[{}] \in Nat
  BY <1>5
<1>8. \A S \in SUBSET A : S # {} /\ sum[S \ {AnyOf(S)}] \in Nat => sum[S] \in Nat
  <2> SUFFICES ASSUME NEW S \in SUBSET A, S # {}, sum[S \ {AnyOf(S)}] \in Nat
               PROVE  sum[S] \in Nat
    OBVIOUS
  <2>1. f[AnyOf(S)] \in Nat /\ f[AnyOf(S)] = stats[Append(ctx, AnyOf(S))]
    BY <1>0, <1>a
  <2> HIDE DEF A, f
  <2>2. sum[S] = stats[Append(ctx, AnyOf(S))] + sum[S \ {AnyOf(S)}]
    BY <1>5
  <2> QED
    BY <2>1, <2>2
<1> HIDE DEF A
<1>9. sum[A] \in Nat
  BY <1>b, <1>7, <1>8, FoldStays
<1> QED
  BY <1>6, <1>9

-----------------------------------------------------------------------------
(* Sequences of words. *)

\* The beginnings of a context.
LEMMA FirstFacts ==
    ASSUME NEW c \in Seq(Words), NEW n \in 0 .. Len(c)
    PROVE  /\ First(c, n) \in Seq(Words) /\ Len(First(c, n)) = n
           /\ \A k \in 0 .. n : First(First(c, n), k) = First(c, k)
           /\ First(c, 0) = <<>> /\ First(c, Len(c)) = c
           /\ (n = 0 <=> First(c, n) = <<>>)
<1>1. First(c, n) \in Seq(Words) /\ Len(First(c, n)) = n
  BY DEF First
<1>2. ASSUME NEW k \in 0 .. n PROVE First(First(c, n), k) = First(c, k)
  BY DEF First
<1>3. First(c, 0) = <<>> /\ First(c, Len(c)) = c
  BY DEF First
<1>4. n = 0 <=> First(c, n) = <<>>
  BY <1>1, <1>3
<1> QED
  BY <1>1, <1>2, <1>3, <1>4

\* A word in front of a context, and what is behind it.
LEMMA WordFirst ==
    ASSUME NEW w \in Words, NEW c \in Seq(Words)
    PROVE  /\ <<w>> \o c \in Seq(Words) /\ Len(<<w>> \o c) = Len(c) + 1
           /\ Tail(<<w>> \o c) = c /\ (<<w>> \o c)[1] = w
OBVIOUS

LEMMA TailFacts ==
    ASSUME NEW g \in Seq(Words), Len(g) # 0
    PROVE  /\ g[1] \in Words /\ Tail(g) \in Seq(Words) /\ Len(Tail(g)) = Len(g) - 1
           /\ g = <<g[1]>> \o Tail(g)
<1>1. g[1] \in Words /\ Tail(g) \in Seq(Words) /\ Len(Tail(g)) = Len(g) - 1
  OBVIOUS
<1>2. g = <<g[1]>> \o Tail(g)
  OBVIOUS
<1> QED
  BY <1>1, <1>2

-----------------------------------------------------------------------------
(* The models. *)

Grams == {g \in Seq(Words) : Len(g) \in 1 .. Order}
Nodes == {c \in Seq(Words) : Len(c) \in 0 .. Order - 1}

\* The functions to fractions from a part of D.
Tables(D) == UNION {[E -> Amounts] : E \in SUBSET D}

\* The context trie is closed under the walks that search it and holds the
\* context of every N-gram.
Linked(m) ==
    /\ <<>> \in DOMAIN m.bow
    /\ \A c \in DOMAIN m.bow : \A n \in 0 .. Len(c) : First(c, n) \in DOMAIN m.bow
    /\ \A g \in DOMAIN m.prob : Tail(g) \in DOMAIN m.bow

Models == {m \in [prob : Tables(Grams), bow : Tables(Nodes)] : Linked(m)}

\* Every context has a probability, the line its weight is written on.
Writable(m) == \A c \in DOMAIN m.bow \ {<<>>} : c \in DOMAIN m.prob

\* What belongs to Tables(D).
LEMMA TableIs ==
    ASSUME NEW D, NEW f \in Tables(D)
    PROVE  /\ DOMAIN f \subseteq D /\ \A x \in DOMAIN f : f[x] \in Amounts
           /\ f = [x \in DOMAIN f |-> f[x]]
<1>1. PICK E \in SUBSET D : f \in [E -> Amounts]
  BY DEF Tables
<1> QED
  BY <1>1

LEMMA IsTable ==
    ASSUME NEW D, NEW E \in SUBSET D, NEW f \in [E -> Amounts]
    PROVE  f \in Tables(D)
BY DEF Tables

\* The function r has the entries of h and the others of f.
Overlaid(r, f, h) ==
    /\ DOMAIN r = DOMAIN f \cup DOMAIN h
    /\ \A x \in DOMAIN h : r[x] = h[x]
    /\ \A x \in DOMAIN f \ DOMAIN h : r[x] = f[x]

\* Writing one table over another leaves a table.
LEMMA WithTable ==
    ASSUME NEW D, NEW f \in Tables(D), NEW h \in Tables(D)
    PROVE  With(f, h) \in Tables(D) /\ Overlaid(With(f, h), f, h)
<1> DEFINE E == DOMAIN f \cup DOMAIN h
<1>1. E \in SUBSET D
  BY TableIs
<1>2. \A x \in E : (IF x \in DOMAIN h THEN h[x] ELSE f[x]) \in Amounts
  BY TableIs
<1>3. With(f, h) \in [E -> Amounts]
  BY <1>2 DEF With
<1>4. With(f, h) \in Tables(D)
  BY <1>1, <1>3, IsTable
<1>5. Overlaid(With(f, h), f, h)
  BY DEF With, Overlaid
<1> QED
  BY <1>4, <1>5

\* What there is to know of a model.
LEMMA ModelIs ==
    ASSUME NEW m \in Models
    PROVE  /\ m.prob \in Tables(Grams) /\ m.bow \in Tables(Nodes) /\ m = [prob |-> m.prob, bow |-> m.bow]
           /\ \A g \in DOMAIN m.prob : /\ g \in Seq(Words) /\ Len(g) \in 1 .. Order
                                       /\ m.prob[g] \in Amounts /\ Tail(g) \in DOMAIN m.bow
           /\ \A c \in DOMAIN m.bow : /\ c \in Seq(Words) /\ Len(c) \in 0 .. Order - 1
                                      /\ m.bow[c] \in Amounts
                                      /\ \A n \in 0 .. Len(c) : First(c, n) \in DOMAIN m.bow
           /\ <<>> \in DOMAIN m.bow
<1>1. m \in [prob : Tables(Grams), bow : Tables(Nodes)] /\ Linked(m)
  BY DEF Models
<1>2. m.prob \in Tables(Grams) /\ m.bow \in Tables(Nodes) /\ m = [prob |-> m.prob, bow |-> m.bow]
  BY <1>1
<1>3. /\ DOMAIN m.prob \subseteq Grams /\ \A x \in DOMAIN m.prob : m.prob[x] \in Amounts
      /\ DOMAIN m.bow \subseteq Nodes /\ \A x \in DOMAIN m.bow : m.bow[x] \in Amounts
  BY <1>2, TableIs
<1> QED
  BY <1>1, <1>2, <1>3 DEF Linked, Grams, Nodes

\* How a model is put together.
LEMMA IsModel ==
    ASSUME NEW p \in Tables(Grams), NEW b \in Tables(Nodes), Linked([prob |-> p, bow |-> b])
    PROVE  [prob |-> p, bow |-> b] \in Models
BY DEF Models

\* The nodes that are put in hang together.
LEMMA InsertBOWsModel ==
    ASSUME NEW m \in Models, NEW cs \in SUBSET Nodes
    PROVE  LET r == InsertBOWs(m, cs)
           IN  /\ r \in Models /\ r.prob = m.prob
               /\ DOMAIN r.bow = DOMAIN m.bow \cup UNION {Prefixes(c) : c \in cs}
               /\ \A c \in DOMAIN m.bow : r.bow[c] = m.bow[c]
               /\ cs \subseteq DOMAIN r.bow
<1> DEFINE E == UNION {Prefixes(c) : c \in cs}
           new == [c \in E |-> One]
           b == With(new, m.bow)
<1>1. ASSUME NEW c \in E
      PROVE  c \in Nodes /\ \A n \in 0 .. Len(c) : First(c, n) \in E
  <2>0. PICK d \in cs : c \in Prefixes(d)
    OBVIOUS
  <2>1. PICK k \in 0 .. Len(d) : c = First(d, k)
    BY <2>0 DEF Prefixes
  <2>2. d \in Seq(Words) /\ Len(d) \in 0 .. Order - 1
    BY DEF Nodes
  <2>3. c \in Seq(Words) /\ Len(c) = k
    BY <2>1, <2>2, FirstFacts
  <2>4. c \in Nodes
    BY <2>2, <2>3, OrderAssumption DEF Nodes
  <2>5. ASSUME NEW n \in 0 .. Len(c)
        PROVE  First(c, n) \in E
    <3>1. n \in 0 .. k /\ n \in 0 .. Len(d)
      BY <2>2, <2>3
    <3>2. First(c, n) = First(d, n)
      BY <2>1, <2>2, <3>1, FirstFacts
    <3> QED
      BY <3>1, <3>2 DEF Prefixes
  <2> QED
    BY <2>4, <2>5
<1>2. new \in Tables(Nodes)
  <2>1. E \in SUBSET Nodes
    BY <1>1
  <2>2. new \in [E -> Amounts]
    BY Constants
  <2> HIDE DEF E, new
  <2> QED
    BY <2>1, <2>2, IsTable
<1>3. /\ b \in Tables(Nodes) /\ DOMAIN b = E \cup DOMAIN m.bow
      /\ \A c \in DOMAIN m.bow : b[c] = m.bow[c]
  <2>1. DOMAIN new = E
    OBVIOUS
  <2>2. m.bow \in Tables(Nodes)
    BY ModelIs
  <2> HIDE DEF E, new
  <2>3. b \in Tables(Nodes) /\ Overlaid(b, new, m.bow)
    BY <1>2, <2>2, WithTable
  <2> HIDE DEF b
  <2> QED
    BY <2>1, <2>3 DEF Overlaid
<1>4. InsertBOWs(m, cs) = [prob |-> m.prob, bow |-> b]
  BY ModelIs DEF InsertBOWs
<1> DEFINE r == [prob |-> m.prob, bow |-> b]
<1>5. r.prob = m.prob /\ r.bow = b
  OBVIOUS
<1> HIDE DEF r
<1>6. cs \subseteq E
  <2> SUFFICES ASSUME NEW c \in cs PROVE c \in E
    OBVIOUS
  <2>1. c \in Seq(Words) /\ Len(c) \in Nat
    BY DEF Nodes
  <2>2. First(c, Len(c)) = c /\ Len(c) \in 0 .. Len(c)
    BY <2>1, FirstFacts
  <2>3. c \in Prefixes(c)
    BY <2>2 DEF Prefixes
  <2> QED
    BY <2>3
<1> HIDE DEF E, b
<1>7. Linked(r)
  BY <1>1, <1>3, <1>5, ModelIs DEF Linked
<1>8. r \in Models
  BY <1>3, <1>7, IsModel, ModelIs DEF r
<1>9. InsertBOWs(m, cs) = r
  BY <1>4 DEF r
<1> QED
  BY <1>3, <1>5, <1>6, <1>8, <1>9 DEF E

\* The model r is m with the N-grams of ps and the contexts they need.
Inserted(r, m, ps) ==
    /\ Overlaid(r.prob, m.prob, ps)
    /\ DOMAIN r.bow = DOMAIN m.bow \cup UNION {Prefixes(Tail(g)) : g \in DOMAIN ps}
    /\ \A c \in DOMAIN m.bow : r.bow[c] = m.bow[c]

\* insertProb keeps a model a model: the nodes on the way are made with it.
LEMMA InsertProbsModel ==
    ASSUME NEW m \in Models, NEW ps \in Tables(Grams)
    PROVE  InsertProbs(m, ps) \in Models /\ Inserted(InsertProbs(m, ps), m, ps)
<1> DEFINE cs == {Tail(g) : g \in DOMAIN ps}
           q == InsertBOWs(m, cs)
<1>1. cs \in SUBSET Nodes
  <2> SUFFICES ASSUME NEW g \in DOMAIN ps PROVE Tail(g) \in Nodes
    OBVIOUS
  <2>1. g \in Seq(Words) /\ Len(g) \in 1 .. Order
    BY TableIs DEF Grams
  <2>2. Tail(g) \in Seq(Words) /\ Len(Tail(g)) = Len(g) - 1
    BY <2>1, TailFacts
  <2> QED
    BY <2>1, <2>2, OrderAssumption DEF Nodes
<1>2. /\ q \in Models /\ q.prob = m.prob
      /\ DOMAIN q.bow = DOMAIN m.bow \cup UNION {Prefixes(c) : c \in cs}
      /\ \A c \in DOMAIN m.bow : q.bow[c] = m.bow[c]
      /\ cs \subseteq DOMAIN q.bow
  <2> HIDE DEF cs
  <2> QED
    BY <1>1, InsertBOWsModel
<1>3. UNION {Prefixes(c) : c \in cs} = UNION {Prefixes(Tail(g)) : g \in DOMAIN ps}
  OBVIOUS
<1> DEFINE p == With(m.prob, ps)
           r == [prob |-> p, bow |-> q.bow]
<1>4. /\ p \in Tables(Grams) /\ DOMAIN p = DOMAIN m.prob \cup DOMAIN ps
      /\ \A g \in DOMAIN ps : p[g] = ps[g]
      /\ \A g \in DOMAIN m.prob \ DOMAIN ps : p[g] = m.prob[g]
  <2>1. m.prob \in Tables(Grams)
    BY ModelIs
  <2> HIDE DEF q, r, cs
  <2>2. p \in Tables(Grams) /\ Overlaid(p, m.prob, ps)
    BY <2>1, WithTable
  <2> HIDE DEF p
  <2> QED
    BY <2>2 DEF Overlaid
<1>5. InsertProbs(m, ps) = r
  <2> HIDE DEF cs
  <2>1. InsertProbs(m, ps) = [q EXCEPT !.prob = With(@, ps)]
    BY DEF InsertProbs, cs
  <2> HIDE DEF q
  <2>2. q = [prob |-> q.prob, bow |-> q.bow]
    BY <1>2, ModelIs
  <2> QED
    BY <1>2, <2>1, <2>2
<1>6. r.prob = p /\ r.bow = q.bow
  OBVIOUS
<1>7. Linked(r)
  <2>1. \A g \in DOMAIN ps : Tail(g) \in cs
    OBVIOUS
  <2>2. q.bow \in Tables(Nodes)
    BY <1>2, ModelIs
  <2> HIDE DEF r, p, q, cs
  <2>3. \A g \in DOMAIN p : Tail(g) \in DOMAIN q.bow
    BY <1>2, <1>4, <2>1, ModelIs
  <2> QED
    BY <1>2, <1>6, <2>3, ModelIs DEF Linked
<1>8. r \in Models
  <2>1. q.bow \in Tables(Nodes)
    BY <1>2, ModelIs
  <2> HIDE DEF p, q
  <2> QED
    BY <1>4, <1>7, <2>1, IsModel
<1> HIDE DEF r, p, q, cs
<1> QED
  BY <1>2, <1>3, <1>4, <1>5, <1>6, <1>8 DEF Inserted, Overlaid

-----------------------------------------------------------------------------
(* The walk down the trie. *)

\* The walk along c, in at most n steps, gets to the node at depth d.
DepthIs(d, m, c, n) ==
    d \in 0 .. n /\ \A k \in 0 .. n : First(c, k) \in DOMAIN m.bow <=> k <= d

\* The walk down a trie ends somewhere, at one depth.
LEMMA DepthExists ==
    ASSUME NEW m \in Models, NEW c \in Seq(Words), NEW n \in 0 .. Len(c)
    PROVE  DepthIs(DepthOf(m, c, n), m, c, n)
<1> DEFINE P(d) == /\ First(c, d) \in DOMAIN m.bow
                   /\ d < n => First(c, d + 1) \notin DOMAIN m.bow
           Off == {k \in 0 .. n : First(c, k) \notin DOMAIN m.bow}
<1>0. First(c, 0) \in DOMAIN m.bow
  BY FirstFacts, ModelIs
<1>1. \E d \in 0 .. n : P(d)
  <2>1. CASE Off = {}
    <3>1. n \in 0 .. n /\ ~(n < n)
      OBVIOUS
    <3>2. First(c, n) \in DOMAIN m.bow
      BY <2>1, <3>1
    <3> QED
      BY <3>1, <3>2
  <2>2. CASE Off # {}
    <3>1. Off \in SUBSET Nat
      OBVIOUS
    <3>2. PICK k \in Off : \A j \in Off : k <= j
      <4> HIDE DEF Off
      <4> QED
        BY <2>2, <3>1, LeastElement
    <3>3. k \in 1 .. n /\ k - 1 \in 0 .. n /\ (k - 1) + 1 = k
      <4>1. k # 0
        BY <1>0, <3>2
      <4> QED
        BY <3>2, <4>1
    <3>4. k - 1 \notin Off
      <4>1. ~(k <= k - 1)
        BY <3>3
      <4> HIDE DEF Off
      <4> QED
        BY <3>2, <4>1
    <3>5. P(k - 1)
      BY <3>2, <3>3, <3>4
    <3> QED
      BY <3>3, <3>5
  <2> QED
    BY <2>1, <2>2
<1> DEFINE d == DepthOf(m, c, n)
<1>2. d \in 0 .. n /\ P(d)
  <2>1. d = CHOOSE e \in 0 .. n : P(e)
    BY DEF DepthOf
  <2> HIDE DEF P
  <2> QED
    BY <1>1, <2>1
<1> HIDE DEF d
<1>3. ASSUME NEW k \in 0 .. n
      PROVE  First(c, k) \in DOMAIN m.bow <=> k <= d
  <2>1. CASE k <= d
    <3>1. First(c, d) \in Seq(Words) /\ Len(First(c, d)) = d /\ First(First(c, d), k) = First(c, k)
      <4>1. d \in 0 .. Len(c) /\ k \in 0 .. d
        BY <1>2, <2>1
      <4> QED
        BY <4>1, FirstFacts
    <3>2. k \in 0 .. Len(First(c, d))
      BY <1>2, <2>1, <3>1
    <3>3. First(First(c, d), k) \in DOMAIN m.bow
      BY <1>2, <3>2, ModelIs
    <3> QED
      BY <2>1, <3>1, <3>3
  <2>2. CASE ~(k <= d)
    <3>1. d < n /\ d + 1 \in 0 .. k /\ d + 1 \in 0 .. Len(c) /\ k \in 0 .. Len(c)
      BY <1>2, <2>2
    <3>2. First(c, d + 1) \notin DOMAIN m.bow
      BY <1>2, <3>1
    <3>3. First(First(c, k), d + 1) = First(c, d + 1) /\ Len(First(c, k)) = k
      BY <3>1, FirstFacts
    <3>4. First(c, k) \notin DOMAIN m.bow
      BY <3>1, <3>2, <3>3, ModelIs
    <3> QED
      BY <2>2, <3>4
  <2> QED
    BY <2>1, <2>2
<1> QED
  BY <1>2, <1>3 DEF DepthIs, d

\* The depths at which w has a probability on a walk to depth d.
Found(m, w, c, d) == {k \in 0 .. d : <<w>> \o First(c, k) \in DOMAIN m.prob}

\* The greatest number of F, or zero.
IsBest(b, F) == b \in F \cup {0} /\ \A j \in F : j <= b

\* Of the depths that hold a probability there is a deepest.
LEMMA BestExists ==
    ASSUME NEW d \in Nat, NEW F \in SUBSET (0 .. d)
    PROVE  \E b \in F \cup {0} : \A j \in F : j <= b
<1>1. CASE F = {}
  BY <1>1
<1>2. CASE F # {}
  <2> DEFINE T == {d - j : j \in F}
  <2>1. T \in SUBSET Nat /\ T # {}
    <3>1. \A j \in F : j \in 0 .. d
      OBVIOUS
    <3>2. \A j \in F : d - j \in Nat
      BY <3>1
    <3> QED
      BY <1>2, <3>2
  <2>2. PICK t \in T : \A u \in T : t <= u
    <3> HIDE DEF T
    <3> QED
      BY <2>1, LeastElement
  <2>3. PICK b \in F : t = d - b
    BY <2>2
  <2>4. \A j \in F : j <= b
    <3> SUFFICES ASSUME NEW j \in F PROVE j <= b
      OBVIOUS
    <3>1. d - b <= d - j
      BY <2>2, <2>3
    <3> QED
      BY <3>1
  <2> QED
    BY <2>4
<1> QED
  BY <1>1, <1>2

\* The probability found at depth b with the weights of the nodes after it.
Answer(m, w, c, d, b) ==
    Times(IF Found(m, w, c, d) = {} THEN Zero ELSE m.prob[<<w>> \o First(c, b)],
          ProductOfAll([j \in b + 1 .. d |-> m.bow[First(c, j)]]))

\* The shorter of two lengths.
LEMMA ShortestIs ==
    ASSUME NEW a \in Nat, NEW b \in Nat
    PROVE  /\ Shortest(a, b) \in 0 .. a /\ Shortest(a, b) \in 0 .. b
           /\ (a <= b => Shortest(a, b) = a) /\ (b <= a => Shortest(a, b) = b)
BY DEF Shortest

\* What wordProbBO computes, with its two searches replaced by what they
\* find.
LEMMA WordProbIs ==
    ASSUME NEW m \in Models, NEW w \in Words, NEW c \in Seq(Words), NEW n \in Nat
    PROVE  \E d \in Nat, b \in Nat :
              /\ DepthIs(d, m, c, Shortest(n, Len(c)))
              /\ IsBest(b, Found(m, w, c, d))
              /\ WordProbBO(m, w, c, n) = Answer(m, w, c, d, b)
<1> DEFINE N == Shortest(n, Len(c))
           d == DepthOf(m, c, N)
           F == Found(m, w, c, d)
           b == CHOOSE k \in F \cup {0} : \A j \in F : j <= k
<1>1. N \in 0 .. Len(c)
  BY ShortestIs
<1>2. DepthIs(d, m, c, N)
  <2> HIDE DEF N
  <2> QED
    BY <1>1, DepthExists
<1>3. d \in Nat
  BY <1>1, <1>2 DEF DepthIs
<1>4. \E k \in F \cup {0} : \A j \in F : j <= k
  <2>1. F \in SUBSET (0 .. d)
    BY DEF Found
  <2> HIDE DEF F, d
  <2> QED
    BY <1>3, <2>1, BestExists
<1>5. IsBest(b, F)
  <2> HIDE DEF F
  <2> QED
    BY <1>4 DEF IsBest
<1>6. b \in Nat
  <2>1. \A k \in F : k \in Nat
    BY <1>3 DEF Found
  <2> HIDE DEF F, b
  <2> QED
    BY <1>5, <2>1 DEF IsBest
<1>7. WordProbBO(m, w, c, n) = Answer(m, w, c, d, b)
  BY DEF WordProbBO, Answer, Found
<1> HIDE DEF d, b, F
<1> QED
  BY <1>2, <1>3, <1>5, <1>6, <1>7 DEF F, N

\* The answer is an amount: a probability times back-off weights.
LEMMA AnswerType ==
    ASSUME NEW m \in Models, NEW w \in Words, NEW c \in Seq(Words), NEW N \in 0 .. Len(c),
           NEW d, DepthIs(d, m, c, N), NEW b, IsBest(b, Found(m, w, c, d))
    PROVE  Answer(m, w, c, d, b) \in Amounts
<1>1. d \in 0 .. N
  BY DEF DepthIs
<1>2. b \in 0 .. d
  BY <1>1 DEF IsBest, Found
<1> DEFINE p == IF Found(m, w, c, d) = {} THEN Zero ELSE m.prob[<<w>> \o First(c, b)]
           A == b + 1 .. d
           f == [j \in A |-> m.bow[First(c, j)]]
<1>3. p \in Amounts
  <2>1. CASE Found(m, w, c, d) = {}
    BY <2>1, Constants
  <2>2. CASE Found(m, w, c, d) # {}
    <3>1. b \in Found(m, w, c, d)
      <4>1. PICK j \in Found(m, w, c, d) : TRUE
        BY <2>2
      <4>2. j \in Nat /\ j <= b
        BY <1>1, <4>1 DEF Found, IsBest
      <4>3. CASE b = 0
        BY <4>1, <4>2, <4>3
      <4>4. CASE b # 0
        BY <4>4 DEF IsBest
      <4> QED
        BY <4>3, <4>4
    <3>2. <<w>> \o First(c, b) \in DOMAIN m.prob
      BY <3>1 DEF Found
    <3> QED
      BY <2>2, <3>2, ModelIs
  <2> QED
    BY <2>1, <2>2
<1>4. f \in [A -> Amounts]
  <2> SUFFICES ASSUME NEW j \in A PROVE m.bow[First(c, j)] \in Amounts
    OBVIOUS
  <2>1. j \in 0 .. N /\ j <= d
    BY <1>1, <1>2
  <2>2. First(c, j) \in DOMAIN m.bow
    BY <2>1 DEF DepthIs
  <2> QED
    BY <2>2, ModelIs
<1>5. IsFiniteSet(A)
  BY <1>1, <1>2, FS_Interval
<1>6. ProductOfAll(f) \in Amounts
  <2> HIDE DEF A, f
  <2> QED
    BY <1>4, <1>5, ProductType
<1> HIDE DEF p, f
<1> QED
  BY <1>3, <1>6, TimesAmount DEF Answer, p, f

\* wordProbBO never returns a negative probability.
LEMMA WordProbType ==
    ASSUME NEW m \in Models, NEW w \in Words, NEW c \in Seq(Words), NEW n \in Nat
    PROVE  WordProbBO(m, w, c, n) \in Amounts
<1>1. PICK d \in Nat, b \in Nat :
         /\ DepthIs(d, m, c, Shortest(n, Len(c)))
         /\ IsBest(b, Found(m, w, c, d))
         /\ WordProbBO(m, w, c, n) = Answer(m, w, c, d, b)
  BY WordProbIs
<1>2. Shortest(n, Len(c)) \in 0 .. Len(c)
  BY ShortestIs
<1> QED
  BY <1>1, <1>2, AnswerType

-----------------------------------------------------------------------------
(* Backoff weights. *)

\* The sets that are summed over are finite.
LEMMA EventsFinite == Events \subseteq Words /\ IsFiniteSet(Events) /\ \A E \in SUBSET Words : IsFiniteSet(E)
<1>1. \A E \in SUBSET Words : IsFiniteSet(E)
  BY WordsAssumption, FS_Subset
<1> QED
  BY <1>1 DEF Events

LEMMA ExplicitFinite ==
    ASSUME NEW m \in Models, NEW c \in Seq(Words)
    PROVE  IsFiniteSet(Explicit(m, c))
<1> DEFINE T == {<<w>> \o c : w \in Words}
           f == [w \in Words |-> <<w>> \o c]
<1>1. f \in Surjection(Words, T)
  BY DEF Surjection
<1>2. IsFiniteSet(T)
  <2> HIDE DEF T, f
  <2> QED
    BY <1>1, WordsAssumption, FS_Surjection
<1>3. Explicit(m, c) \in SUBSET T
  <2> SUFFICES ASSUME NEW g \in Explicit(m, c) PROVE g \in T
    OBVIOUS
  <2>1. g \in Seq(Words) /\ Len(g) # 0 /\ Tail(g) = c
    BY ModelIs DEF Explicit
  <2>2. g[1] \in Words /\ g = <<g[1]>> \o c
    BY <2>1, TailFacts
  <2> QED
    BY <2>2
<1> HIDE DEF T
<1> QED
  BY <1>2, <1>3, FS_Subset

Parts == [scale : Amounts, num : Fraction, den : Amounts]

\* computeBOW ends with a weight that is not negative, whatever the sums are.
LEMMA BOWPartsType ==
    ASSUME NEW sum \in Amounts, NEW low \in Amounts, NEW minMass \in Masses
    PROVE  BOWParts(sum, low, minMass) \in Parts
<1> DEFINE short  == ~Negative(minMass) /\ Less(Minus(One, sum), minMass)
           num    == IF short THEN minMass ELSE Minus(One, sum)
           den    == Minus(One, low)
           scaled == IF short THEN Over(Minus(One, minMass), sum) ELSE One
           full   == ~Positive(den) /\ Positive(num)
<1>1. num \in Fraction /\ den \in Fraction /\ ~Less(One, num)
  <2>1. Minus(One, sum) \in Fraction /\ Minus(One, low) \in Fraction /\ ~Less(One, Minus(One, sum))
    <3>1. sum \in Fraction /\ low \in Fraction /\ One \in Fraction /\ ~Negative(sum)
      BY Constants DEF Amounts, Negative
    <3> QED
      BY <3>1, MinusType, OneMinus
  <2> QED
    BY <2>1 DEF Masses
<1>2. scaled \in Amounts
  <2>1. Minus(One, minMass) \in Amounts
    BY OneMinus DEF Masses
  <2>2. Over(Minus(One, minMass), sum) \in Amounts
    BY <2>1, OverAmount
  <2> QED
    BY <2>2, Constants
<1> HIDE DEF num, den, scaled
<1>3. (IF full THEN Over(scaled, Minus(One, num)) ELSE scaled) \in Amounts
  <2>1. Minus(One, num) \in Amounts
    BY <1>1, OneMinus
  <2>2. Over(scaled, Minus(One, num)) \in Amounts
    BY <1>2, <2>1, OverAmount
  <2> QED
    BY <1>2, <2>2
<1>4. (IF full THEN Zero ELSE num) \in Fraction
  BY <1>1, Constants
<1>5. (IF full \/ ~Positive(den) THEN Zero ELSE den) \in Amounts
  <2>1. Positive(den) => ~Negative(den)
    BY <1>1 DEF Positive, Negative, Fraction
  <2> QED
    BY <1>1, <2>1, Constants
<1>6. BOWParts(sum, low, minMass) =
        [scale |-> IF full THEN Over(scaled, Minus(One, num)) ELSE scaled,
         num   |-> IF full THEN Zero ELSE num,
         den   |-> IF full \/ ~Positive(den) THEN Zero ELSE den]
  BY DEF BOWParts, num, den, scaled
<1> QED
  BY <1>3, <1>4, <1>5, <1>6 DEF Parts

\* The same for the sums a model yields.
LEMMA ComputeBOWType ==
    ASSUME NEW m \in Models, NEW c \in Seq(Words), NEW minMass \in Masses
    PROVE  ComputeBOW(m, c, minMass) \in Parts
<1> DEFINE E == Explicit(m, c)
           f == [g \in E |-> m.prob[g]]
           h == [g \in E |-> WordProbBO(m, g[1], c, Len(c) - 1)]
<1>1. IsFiniteSet(E)
  BY ExplicitFinite
<1>2. SumOfAll(f) \in Amounts
  <2>1. f \in [E -> Amounts]
    BY ModelIs DEF Explicit
  <2> HIDE DEF E, f
  <2> QED
    BY <1>1, <2>1, SumType
<1>3. (IF c = <<>> THEN Zero ELSE SumOfAll(h)) \in Amounts
  <2>1. CASE c = <<>>
    BY <2>1, Constants
  <2>2. CASE c # <<>>
    <3>1. Len(c) - 1 \in Nat
      BY <2>2
    <3>2. h \in [E -> Amounts]
      <4> SUFFICES ASSUME NEW g \in E PROVE WordProbBO(m, g[1], c, Len(c) - 1) \in Amounts
        OBVIOUS
      <4>1. g \in Seq(Words) /\ Len(g) # 0
        BY ModelIs DEF Explicit
      <4>2. g[1] \in Words
        BY <4>1, TailFacts
      <4> QED
        BY <3>1, <4>2, WordProbType
    <3>3. SumOfAll(h) \in Amounts
      <4> HIDE DEF E, h
      <4> QED
        BY <1>1, <3>2, SumType
    <3> QED
      BY <2>2, <3>3
  <2> QED
    BY <2>1, <2>2
<1> QED
  BY <1>2, <1>3, BOWPartsType DEF ComputeBOW

\* The model r has the contexts of m, and at least the N-grams.
Keeps(r, m) == DOMAIN r.bow = DOMAIN m.bow /\ DOMAIN m.prob \subseteq DOMAIN r.prob

Reprobed(m, new)   == [m EXCEPT !.prob = With(@, new)]
Reweighted(m, new) == [m EXCEPT !.bow = With(@, new)]

\* New probabilities for n-grams that are there change no structure.
LEMMA ReprobedModel ==
    ASSUME NEW m \in Models, NEW new \in Tables(Grams), DOMAIN new \subseteq DOMAIN m.prob
    PROVE  /\ Reprobed(m, new) \in Models /\ Keeps(Reprobed(m, new), m)
           /\ DOMAIN Reprobed(m, new).prob = DOMAIN m.prob
<1> DEFINE p == With(m.prob, new)
           r == [prob |-> p, bow |-> m.bow]
<1>1. p \in Tables(Grams) /\ Overlaid(p, m.prob, new)
  <2>1. m.prob \in Tables(Grams)
    BY ModelIs
  <2> QED
    BY <2>1, WithTable
<1>2. DOMAIN p = DOMAIN m.prob
  <2> HIDE DEF p
  <2> QED
    BY <1>1 DEF Overlaid
<1>3. Reprobed(m, new) = r
  BY ModelIs DEF Reprobed
<1>4. r.prob = p /\ r.bow = m.bow
  OBVIOUS
<1> HIDE DEF p
<1>5. r \in Models
  <2>1. Linked(r)
    BY <1>2, <1>4, ModelIs DEF Linked
  <2> QED
    BY <1>1, <2>1, ModelIs, IsModel
<1> HIDE DEF r
<1> QED
  BY <1>2, <1>3, <1>4, <1>5 DEF Keeps

\* Nor do new weights for contexts that are there.
LEMMA ReweightedModel ==
    ASSUME NEW m \in Models, NEW new \in Tables(Nodes), DOMAIN new \subseteq DOMAIN m.bow
    PROVE  /\ Reweighted(m, new) \in Models /\ Keeps(Reweighted(m, new), m)
           /\ Reweighted(m, new).prob = m.prob
<1> DEFINE b == With(m.bow, new)
           r == [prob |-> m.prob, bow |-> b]
<1>1. b \in Tables(Nodes) /\ Overlaid(b, m.bow, new)
  <2>1. m.bow \in Tables(Nodes)
    BY ModelIs
  <2> QED
    BY <2>1, WithTable
<1>2. DOMAIN b = DOMAIN m.bow
  <2> HIDE DEF b
  <2> QED
    BY <1>1 DEF Overlaid
<1>3. Reweighted(m, new) = r
  BY ModelIs DEF Reweighted
<1>4. r.prob = m.prob /\ r.bow = b
  OBVIOUS
<1> HIDE DEF b
<1>5. r \in Models
  <2>1. Linked(r)
    BY <1>2, <1>4, ModelIs DEF Linked
  <2> QED
    BY <1>1, <2>1, ModelIs, IsModel
<1> HIDE DEF r
<1> QED
  BY <1>2, <1>3, <1>4, <1>5 DEF Keeps

\* The passes of computeBOWs over one length change no structure.
LEMMA ScaledModel ==
    ASSUME NEW m \in Models, NEW i \in Nat, NEW minMass \in Masses
    PROVE  /\ Scaled(m, i, minMass) \in Models /\ Keeps(Scaled(m, i, minMass), m)
           /\ DOMAIN Scaled(m, i, minMass).prob = DOMAIN m.prob
<1> DEFINE N == NgramsOf(m, i + 1)
           new == [g \in N |-> Times(m.prob[g], ComputeBOW(m, Tail(g), minMass).scale)]
<1>1. new \in [N -> Amounts]
  <2> SUFFICES ASSUME NEW g \in N
               PROVE  Times(m.prob[g], ComputeBOW(m, Tail(g), minMass).scale) \in Amounts
    OBVIOUS
  <2>1. m.prob[g] \in Amounts /\ Tail(g) \in Seq(Words)
    BY ModelIs DEF NgramsOf
  <2>2. ComputeBOW(m, Tail(g), minMass).scale \in Amounts
    <3>1. ComputeBOW(m, Tail(g), minMass) \in Parts
      BY <2>1, ComputeBOWType
    <3> QED
      BY <3>1 DEF Parts
  <2> QED
    BY <2>1, <2>2, TimesAmount
<1>2. N \subseteq DOMAIN m.prob /\ N \in SUBSET Grams
  BY ModelIs DEF NgramsOf, Grams
<1>3. Scaled(m, i, minMass) = Reprobed(m, new)
  BY DEF Scaled, Reprobed
<1>4. DOMAIN new = N
  OBVIOUS
<1> HIDE DEF N, new
<1>5. new \in Tables(Grams)
  BY <1>1, <1>2, IsTable
<1> QED
  BY <1>2, <1>3, <1>4, <1>5, ReprobedModel

LEMMA DistributedModel ==
    ASSUME NEW m \in Models, NEW mass \in Amounts
    PROVE  Distributed(m, mass) \in Models /\ Keeps(Distributed(m, mass), m)
<1> DEFINE p0(w) == IF <<w>> \in DOMAIN m.prob THEN m.prob[<<w>>] ELSE Zero
           zeros == {w \in Events : p0(w) = Zero}
           lucky == IF zeros = {} THEN Events ELSE zeros
           share == Over(mass, <<Cardinality(lucky), 1>>)
           new   == [w \in Events |-> IF w \in lucky THEN Plus(p0(w), share) ELSE p0(w)]
           G == {<<w>> : w \in Events}
           ps == [g \in G |-> new[g[1]]]
<1>1. \A w \in Events : p0(w) \in Amounts
  BY Constants, ModelIs
<1>2. share \in Amounts
  <2>1. lucky \in SUBSET Words
    BY EventsFinite
  <2>2. Cardinality(lucky) \in Nat
    <3> HIDE DEF lucky
    <3> QED
      BY <2>1, EventsFinite, FS_CardinalityType
  <2>3. <<Cardinality(lucky), 1>> \in Amounts
    <3> HIDE DEF lucky
    <3> QED
      BY <2>2 DEF Amounts
  <2> HIDE DEF lucky
  <2> QED
    BY <2>3, OverAmount
<1>3. new \in [Events -> Amounts]
  <2> HIDE DEF p0, share, lucky
  <2> QED
    BY <1>1, <1>2, PlusAmount
<1>4. ps \in [G -> Amounts]
  <2> HIDE DEF new
  <2> QED
    BY <1>3
<1>5. G \in SUBSET Grams
  <2> SUFFICES ASSUME NEW w \in Events PROVE <<w>> \in Grams
    OBVIOUS
  <2>1. <<w>> \in Seq(Words) /\ Len(<<w>>) = 1
    BY EventsFinite
  <2> QED
    BY <2>1, OrderAssumption DEF Grams
<1>6. Distributed(m, mass) = InsertProbs(m, ps)
  BY DEF Distributed
<1>7. DOMAIN ps = G
  OBVIOUS
<1>8. \A g \in G : Prefixes(Tail(g)) = {<<>>}
  <2> SUFFICES ASSUME NEW w \in Events PROVE Prefixes(Tail(<<w>>)) = {<<>>}
    OBVIOUS
  <2>1. Tail(<<w>>) = <<>>
    OBVIOUS
  <2>2. <<>> \in Seq(Words) /\ Len(<<>>) = 0
    OBVIOUS
  <2>3. First(<<>>, 0) = <<>>
    BY DEF First
  <2> QED
    BY <2>1, <2>2, <2>3 DEF Prefixes
<1> HIDE DEF new, ps, G
<1>9. ps \in Tables(Grams)
  BY <1>4, <1>5, IsTable
<1>10. /\ InsertProbs(m, ps) \in Models
       /\ Inserted(InsertProbs(m, ps), m, ps)
  BY <1>9, InsertProbsModel
<1>11. UNION {Prefixes(Tail(g)) : g \in DOMAIN ps} \subseteq DOMAIN m.bow
  BY <1>7, <1>8, ModelIs
<1>12. Keeps(InsertProbs(m, ps), m)
  BY <1>10, <1>11 DEF Inserted, Overlaid, Keeps
<1> QED
  BY <1>6, <1>10, <1>12

LEMMA WithWeightsModel ==
    ASSUME NEW m \in Models, NEW C \in SUBSET DOMAIN m.bow, NEW part \in [C -> Parts]
    PROVE  WithWeights(m, part) \in Models /\ Keeps(WithWeights(m, part), m)
<1>0. DOMAIN part = C
  OBVIOUS
<1>1. CASE <<>> \in DOMAIN part /\ ~Negative(part[<<>>].num)
  <2>1. part[<<>>].num \in Amounts
    <3>1. part[<<>>].num \in Fraction
      BY <1>0, <1>1 DEF Parts
    <3> QED
      BY <1>1, <3>1, Constants
  <2>2. WithWeights(m, part) = Distributed(m, part[<<>>].num)
    BY <1>1 DEF WithWeights
  <2> QED
    BY <2>1, <2>2, DistributedModel
<1>2. CASE ~(<<>> \in DOMAIN part /\ ~Negative(part[<<>>].num))
  <2> DEFINE new == [c \in DOMAIN part |-> Weight(c, part[c])]
  <2>1. new \in [C -> Amounts]
    <3> SUFFICES ASSUME NEW c \in C PROVE Weight(c, part[c]) \in Amounts
      BY <1>0
    <3>1. part[c].num \in Fraction /\ part[c].den \in Amounts
      BY DEF Parts
    <3>2. ~Negative(part[c].num) => part[c].num \in Amounts
      BY <3>1, Constants
    <3>3. ~Negative(part[c].num) => Over(part[c].num, part[c].den) \in Amounts
      BY <3>1, <3>2, OverAmount
    <3> QED
      BY <3>3, Constants DEF Weight
  <2>2. C \in SUBSET Nodes
    BY ModelIs DEF Nodes
  <2>3. WithWeights(m, part) = Reweighted(m, new)
    BY <1>2 DEF WithWeights, Reweighted
  <2>4. DOMAIN new = C
    BY <1>0
  <2> HIDE DEF new
  <2>5. new \in Tables(Nodes)
    BY <2>1, <2>2, IsTable
  <2> QED
    BY <2>3, <2>4, <2>5, ReweightedModel
<1> QED
  BY <1>1, <1>2

LEMMA BOWsComputedModel ==
    ASSUME NEW m \in Models, NEW i \in Nat, NEW minMass \in Masses
    PROVE  BOWsComputed(m, i, minMass) \in Models /\ Keeps(BOWsComputed(m, i, minMass), m)
<1> DEFINE s == Scaled(m, i, minMass)
           C == Contexts(m, i)
           part == [c \in C |-> ComputeBOW(m, c, minMass)]
<1>1. s \in Models /\ Keeps(s, m) /\ DOMAIN s.prob = DOMAIN m.prob
  BY ScaledModel
<1>2. part \in [C -> Parts]
  <2>1. \A c \in C : c \in Seq(Words)
    BY ModelIs DEF Contexts
  <2> HIDE DEF C
  <2> QED
    BY <2>1, ComputeBOWType
<1>3. C \in SUBSET DOMAIN m.bow
  BY DEF Contexts
<1>4. BOWsComputed(m, i, minMass) = WithWeights(s, part)
  BY DEF BOWsComputed
<1> HIDE DEF s, C, part
<1>5. C \in SUBSET DOMAIN s.bow
  BY <1>1, <1>3 DEF Keeps
<1>6. WithWeights(s, part) \in Models /\ Keeps(WithWeights(s, part), s)
  BY <1>1, <1>2, <1>5, WithWeightsModel
<1>7. Keeps(WithWeights(s, part), m)
  BY <1>1, <1>6 DEF Keeps
<1> QED
  BY <1>4, <1>6, <1>7

\* What recomputeBOWs does in round i.
RecomputedRound(m, i, minMass) ==
    BOWsComputed(m, i - 1, IF i = 1 /\ Positive(minMass) THEN Zero ELSE minMass)

\* recomputeBOWs changes no structure.
LEMMA RecomputedModel ==
    ASSUME NEW m \in Models, NEW minMass \in Masses
    PROVE  Recomputed(m, minMass) \in Models /\ Keeps(Recomputed(m, minMass), m)
<1> DEFINE S == {r \in Models : Keeps(r, m)}
           F == [i \in 1 .. Order |-> [r \in S |-> RecomputedRound(r, i, minMass)]]
           level == CHOOSE s : s = [i \in 0 .. Order |->
                                      IF i = 0 THEN m ELSE RecomputedRound(s[i - 1], i, minMass)]
<1>1. m \in S
  BY DEF Keeps
<1>2. \A i \in 1 .. Order, r \in S : RecomputedRound(r, i, minMass) \in S
  <2> SUFFICES ASSUME NEW i \in 1 .. Order, NEW r \in S PROVE RecomputedRound(r, i, minMass) \in S
    OBVIOUS
  <2> DEFINE mass == IF i = 1 /\ Positive(minMass) THEN Zero ELSE minMass
  <2>1. mass \in Masses /\ i - 1 \in Nat
    BY Constants
  <2> HIDE DEF mass
  <2>2. BOWsComputed(r, i - 1, mass) \in Models /\ Keeps(BOWsComputed(r, i - 1, mass), r)
    BY <2>1, BOWsComputedModel
  <2>3. Keeps(BOWsComputed(r, i - 1, mass), m)
    BY <2>2 DEF Keeps
  <2> QED
    BY <2>2, <2>3 DEF RecomputedRound, mass
<1>3. F \in [1 .. Order -> [S -> S]]
  <2> HIDE DEF S
  <2> QED
    BY <1>2
<1>4. PICK s : Steps(s, Order, m, F, S)
  <2>1. Order \in Nat
    BY OrderAssumption
  <2> HIDE DEF S, F
  <2> QED
    BY <1>1, <1>3, <2>1, StepsExist
<1>a. s \in [0 .. Order -> S] /\ s[0] = m /\ \A i \in 1 .. Order : s[i] = F[i][s[i - 1]]
  BY <1>4 DEF Steps
<1>5. s = [i \in 0 .. Order |-> IF i = 0 THEN m ELSE RecomputedRound(s[i - 1], i, minMass)]
  <2>1. \A i \in 0 .. Order : i # 0 => i \in 1 .. Order /\ i - 1 \in 0 .. Order
    BY OrderAssumption
  <2> HIDE DEF S
  <2>2. \A i \in 0 .. Order : i # 0 => s[i] = RecomputedRound(s[i - 1], i, minMass)
    BY <1>a, <2>1
  <2> QED
    BY <1>a, <2>2
<1>6. level = [i \in 0 .. Order |->
                 IF i = 0 THEN m ELSE RecomputedRound(level[i - 1], i, minMass)]
  <2> HIDE DEF S, F
  <2> QED
    BY <1>5
<1>7. Recomputed(m, minMass) = level[Order]
  BY DEF Recomputed, RecomputedRound
<1> HIDE DEF level
<1>8. level[0] \in S
  <2>1. 0 \in 0 .. Order
    BY OrderAssumption
  <2> QED
    BY <1>1, <1>6, <2>1
<1>9. \A i \in 1 .. Order : level[i - 1] \in S => level[i] \in S
  <2>1. \A i \in 1 .. Order : i \in 0 .. Order /\ i # 0
    OBVIOUS
  <2> HIDE DEF S
  <2> QED
    BY <1>2, <1>6, <2>1
<1>10. level[Order] \in S
  <2>1. Order \in Nat /\ Order \in 0 .. Order
    BY OrderAssumption
  <2> HIDE DEF S
  <2> QED
    BY <1>8, <1>9, <2>1, StepsStay
<1> QED
  BY <1>7, <1>10

LEMMA RecomputedWritable ==
    ASSUME NEW m \in Models, NEW minMass \in Masses, Writable(m)
    PROVE  Recomputed(m, minMass) \in Models /\ Writable(Recomputed(m, minMass))
<1>1. Recomputed(m, minMass) \in Models /\ Keeps(Recomputed(m, minMass), m)
  BY RecomputedModel
<1> QED
  BY <1>1 DEF Keeps, Writable

-----------------------------------------------------------------------------
(* fixupProbs. *)

\* The ends of a context.
LEMMA RestFacts ==
    ASSUME NEW c \in Seq(Words), NEW j \in 0 .. Len(c)
    PROVE  /\ Rest(c, j) \in Seq(Words) /\ Len(Rest(c, j)) = Len(c) - j
           /\ j < Len(c) => Tail(Rest(c, j)) = Rest(c, j + 1)
<1>1. Rest(c, j) \in Seq(Words) /\ Len(Rest(c, j)) = Len(c) - j
  BY DEF Rest
<1>2. ASSUME j < Len(c) PROVE Tail(Rest(c, j)) = Rest(c, j + 1)
  BY <1>2 DEF Rest
<1> QED
  BY <1>1, <1>2

LEMMA RestOfRest ==
    ASSUME NEW c \in Seq(Words), NEW j \in 0 .. Len(c), NEW k \in 0 .. Len(c) - j
    PROVE  Rest(Rest(c, j), k) = Rest(c, j + k)
BY DEF Rest

LEMMA FirstOfRest ==
    ASSUME NEW c \in Seq(Words), NEW j \in 0 .. Len(c), NEW n \in 0 .. Len(c) - j
    PROVE  First(Rest(c, j), n) = Rest(First(c, j + n), j)
BY DEF Rest, First

\* What fixupProbs adds are ends of contexts.
LEMMA ToAddIs ==
    ASSUME NEW m \in Models
    PROVE  \A g \in ToAdd(m) : \E c \in DOMAIN m.bow : \E j \in 0 .. Len(c) - 1 : g = Rest(c, j)
BY DEF ToAdd

\* Every end of a context has a probability or gets one.
LEMMA EndsCovered ==
    ASSUME NEW m \in Models, NEW c \in DOMAIN m.bow, NEW i \in 0 .. Len(c) - 1
    PROVE  Rest(c, i) \in DOMAIN m.prob \cup ToAdd(m)
<1> DEFINE Covered(g) == g \in DOMAIN m.prob \cup ToAdd(m)
           T == {d \in DOMAIN m.bow : \A j \in 0 .. Len(d) - 1 : Covered(Rest(d, j))}
           size == [d \in DOMAIN m.bow |-> Len(d)]
<1>1. size \in [DOMAIN m.bow -> Nat]
  BY ModelIs
<1>2. ASSUME NEW d \in DOMAIN m.bow, \A e \in DOMAIN m.bow : size[e] < size[d] => e \in T,
             NEW j \in 0 .. Len(d) - 1
      PROVE  Covered(Rest(d, j))
  <2>0. d \in Seq(Words) /\ Len(d) \in Nat
    BY ModelIs
  <2>1. CASE \A k \in 0 .. j : Rest(d, k) \notin DOMAIN m.prob
    <3>1. Rest(d, j) \in ToAdd(m)
      BY <2>1 DEF ToAdd
    <3> QED
      BY <3>1
  <2>2. CASE \E k \in 0 .. j : Rest(d, k) \in DOMAIN m.prob
    <3>1. PICK k \in 0 .. j : Rest(d, k) \in DOMAIN m.prob
      BY <2>2
    <3>2. CASE k = j
      BY <3>1, <3>2
    <3>3. CASE k # j
      <4> DEFINE e == Rest(d, k + 1)
      <4>1. k \in 0 .. Len(d) /\ k < Len(d) /\ k + 1 \in 0 .. Len(d)
        BY <2>0
      <4>2. e \in DOMAIN m.bow
        <5>1. Tail(Rest(d, k)) \in DOMAIN m.bow
          BY <3>1, ModelIs
        <5> QED
          BY <2>0, <4>1, <5>1, RestFacts
      <4>3. Len(e) = Len(d) - (k + 1)
        BY <2>0, <4>1, RestFacts
      <4>4. size[e] < size[d]
        BY <2>0, <4>1, <4>2, <4>3
      <4>5. j - (k + 1) \in 0 .. Len(e) - 1
        BY <2>0, <3>3, <4>3
      <4>6. Covered(Rest(e, j - (k + 1)))
        BY <1>2, <4>2, <4>4, <4>5
      <4>7. Rest(e, j - (k + 1)) = Rest(d, j)
        <5>1. j - (k + 1) \in 0 .. Len(d) - (k + 1) /\ (k + 1) + (j - (k + 1)) = j
          BY <2>0, <3>3
        <5> QED
          BY <2>0, <4>1, <5>1, RestOfRest
      <4> QED
        BY <4>6, <4>7
    <3> QED
      BY <3>2, <3>3
  <2> QED
    BY <2>1, <2>2
<1>3. DOMAIN m.bow \subseteq T
  <2>1. \A d \in DOMAIN m.bow :
           (\A e \in DOMAIN m.bow : size[e] < size[d] => e \in T) => d \in T
    BY <1>2
  <2> HIDE DEF T, size
  <2> QED
    BY <1>1, <2>1, MeasureInduction
<1> QED
  BY <1>3

\* The contexts of the N-grams that are added get one as well.
LEMMA AddedCovered ==
    ASSUME NEW m \in Models, NEW g \in ToAdd(m), NEW c \in Prefixes(Tail(g)), c # <<>>
    PROVE  c \in DOMAIN m.prob \cup ToAdd(m)
<1>1. PICK d \in DOMAIN m.bow : \E j \in 0 .. Len(d) - 1 : g = Rest(d, j)
  BY ToAddIs
<1>2. PICK j \in 0 .. Len(d) - 1 : g = Rest(d, j)
  BY <1>1
<1>3. d \in Seq(Words) /\ Len(d) \in Nat
  BY ModelIs
<1>4. j \in 0 .. Len(d) /\ j + 1 \in 0 .. Len(d) /\ j < Len(d)
  BY <1>3
<1>5. Tail(g) = Rest(d, j + 1) /\ Len(Tail(g)) = Len(d) - (j + 1) /\ Tail(g) \in Seq(Words)
  BY <1>2, <1>3, <1>4, RestFacts
<1>6. PICK n \in 0 .. Len(Tail(g)) : c = First(Tail(g), n)
  BY DEF Prefixes
<1>7. n # 0
  BY <1>5, <1>6, FirstFacts
<1> DEFINE e == First(d, (j + 1) + n)
<1>8. (j + 1) + n \in 0 .. Len(d) /\ n \in 0 .. Len(d) - (j + 1)
  BY <1>3, <1>4, <1>5
<1>9. e \in DOMAIN m.bow
  BY <1>8, ModelIs
<1>10. Len(e) = (j + 1) + n
  BY <1>3, <1>8, FirstFacts
<1>11. c = Rest(e, j + 1)
  BY <1>3, <1>4, <1>5, <1>6, <1>8, FirstOfRest
<1>12. j + 1 \in 0 .. Len(e) - 1
  BY <1>4, <1>7, <1>10
<1> HIDE DEF e
<1> QED
  BY <1>9, <1>11, <1>12, EndsCovered

\* What fixupProbs does in round i.
FixedUpRound(m, part, i) ==
    InsertProbs(part, [g \in {h \in ToAdd(m) : Len(h) = i} |->
                         WordProbBO(part, g[1], Tail(g), i - 1)])

\* They are n-grams shorter than the order.
LEMMA ToAddGrams ==
    ASSUME NEW m \in Models, NEW g \in ToAdd(m)
    PROVE  g \in Grams /\ Len(g) \in 1 .. Order - 1
<1>1. PICK c \in DOMAIN m.bow : \E j \in 0 .. Len(c) - 1 : g = Rest(c, j)
  BY ToAddIs
<1>2. PICK j \in 0 .. Len(c) - 1 : g = Rest(c, j)
  BY <1>1
<1>3. c \in Seq(Words) /\ Len(c) \in 0 .. Order - 1
  BY ModelIs
<1>4. g \in Seq(Words) /\ Len(g) = Len(c) - j
  <2>1. j \in 0 .. Len(c)
    BY <1>3
  <2> QED
    BY <1>2, <1>3, <2>1, RestFacts
<1> QED
  BY <1>3, <1>4, OrderAssumption DEF Grams

\* The model r is m with N-grams of the set A, and contexts for them.
Extends(r, m, A) ==
    /\ DOMAIN m.prob \subseteq DOMAIN r.prob
    /\ DOMAIN r.prob \subseteq DOMAIN m.prob \cup A
    /\ DOMAIN m.bow \subseteq DOMAIN r.bow
    /\ DOMAIN r.bow \subseteq DOMAIN m.bow \cup UNION {Prefixes(Tail(g)) : g \in A}

\* One length of fixupProbs.
LEMMA FixedUpRoundModel ==
    ASSUME NEW m \in Models, NEW part \in Models, NEW i \in 1 .. Order - 1,
           Extends(part, m, ToAdd(m))
    PROVE  LET r == FixedUpRound(m, part, i)
           IN  /\ r \in Models /\ Extends(r, m, ToAdd(m))
               /\ DOMAIN r.prob = DOMAIN part.prob \cup {g \in ToAdd(m) : Len(g) = i}
<1> DEFINE G == {h \in ToAdd(m) : Len(h) = i}
           ps == [g \in G |-> WordProbBO(part, g[1], Tail(g), i - 1)]
           r == FixedUpRound(m, part, i)
<1>1. ps \in [G -> Amounts]
  <2> SUFFICES ASSUME NEW g \in G PROVE WordProbBO(part, g[1], Tail(g), i - 1) \in Amounts
    OBVIOUS
  <2>1. g \in Seq(Words) /\ Len(g) # 0
    BY ToAddGrams DEF Grams
  <2>2. g[1] \in Words /\ Tail(g) \in Seq(Words) /\ i - 1 \in Nat
    BY <2>1, TailFacts
  <2> QED
    BY <2>2, WordProbType
<1>2. G \in SUBSET Grams
  BY ToAddGrams
<1>3. r = InsertProbs(part, ps) /\ DOMAIN ps = G
  BY DEF FixedUpRound
<1>4. ps \in Tables(Grams)
  <2> HIDE DEF ps, G
  <2> QED
    BY <1>1, <1>2, IsTable
<1> HIDE DEF ps, r
<1>5. r \in Models /\ Inserted(r, part, ps)
  BY <1>3, <1>4, InsertProbsModel
<1>6. DOMAIN r.prob = DOMAIN part.prob \cup G
  BY <1>3, <1>5 DEF Inserted, Overlaid
<1>7. DOMAIN r.bow = DOMAIN part.bow \cup UNION {Prefixes(Tail(g)) : g \in G}
  BY <1>3, <1>5 DEF Inserted
<1>8. Extends(r, m, ToAdd(m))
  <2>1. G \subseteq ToAdd(m)
    OBVIOUS
  <2>2. UNION {Prefixes(Tail(g)) : g \in G} \subseteq UNION {Prefixes(Tail(g)) : g \in ToAdd(m)}
    BY <2>1
  <2> HIDE DEF G
  <2> QED
    BY <1>6, <1>7, <2>1, <2>2 DEF Extends
<1> QED
  BY <1>5, <1>6, <1>8 DEF r

\* fixupProbs makes the model writable.
LEMMA FixedUpModel ==
    ASSUME NEW m \in Models
    PROVE  FixedUp(m) \in Models /\ Writable(FixedUp(m))
<1> DEFINE S == {r \in Models : Extends(r, m, ToAdd(m))}
           F == [i \in 1 .. Order - 1 |-> [r \in S |-> FixedUpRound(m, r, i)]]
           level == CHOOSE s : s = [i \in 0 .. Order - 1 |->
                                      IF i = 0 THEN m ELSE FixedUpRound(m, s[i - 1], i)]
<1>1. m \in S
  BY DEF Extends
<1>2. \A i \in 1 .. Order - 1, r \in S : FixedUpRound(m, r, i) \in S
  BY FixedUpRoundModel
<1>3. F \in [1 .. Order - 1 -> [S -> S]]
  <2> HIDE DEF S
  <2> QED
    BY <1>2
<1>n. Order - 1 \in Nat
  BY OrderAssumption
<1>4. PICK s : Steps(s, Order - 1, m, F, S)
  <2> HIDE DEF S, F
  <2> QED
    BY <1>1, <1>3, <1>n, StepsExist
<1>a. s \in [0 .. Order - 1 -> S] /\ s[0] = m /\ \A i \in 1 .. Order - 1 : s[i] = F[i][s[i - 1]]
  BY <1>4 DEF Steps
<1>5. s = [i \in 0 .. Order - 1 |-> IF i = 0 THEN m ELSE FixedUpRound(m, s[i - 1], i)]
  <2>1. \A i \in 0 .. Order - 1 : i # 0 => i \in 1 .. Order - 1 /\ i - 1 \in 0 .. Order - 1
    BY <1>n
  <2> HIDE DEF S
  <2>2. \A i \in 0 .. Order - 1 : i # 0 => s[i] = FixedUpRound(m, s[i - 1], i)
    BY <1>a, <2>1
  <2> QED
    BY <1>a, <2>2
<1>6. level = [i \in 0 .. Order - 1 |-> IF i = 0 THEN m ELSE FixedUpRound(m, level[i - 1], i)]
  <2> HIDE DEF S, F
  <2> QED
    BY <1>5
<1>7. FixedUp(m) = level[Order - 1]
  BY DEF FixedUp, FixedUpRound
<1> HIDE DEF level
<1>8. level[0] \in S
  <2>1. 0 \in 0 .. Order - 1
    BY <1>n
  <2> QED
    BY <1>1, <1>6, <2>1
<1>9. \A i \in 1 .. Order - 1 : level[i - 1] \in S => level[i] \in S
  <2>1. \A i \in 1 .. Order - 1 : i \in 0 .. Order - 1 /\ i # 0
    OBVIOUS
  <2> HIDE DEF S
  <2> QED
    BY <1>2, <1>6, <2>1
<1>10. \A i \in 0 .. Order - 1 : level[i] \in S
  <2> HIDE DEF S
  <2> QED
    BY <1>8, <1>9, <1>n, StepsStay
<1> DEFINE T == {i \in 0 .. Order - 1 :
                  \A g \in ToAdd(m) : Len(g) <= i => g \in DOMAIN level[i].prob}
<1>11. 0 \in T
  <2>1. \A g \in ToAdd(m) : ~(Len(g) <= 0)
    BY ToAddGrams
  <2> QED
    BY <1>n, <2>1
<1>12. ASSUME NEW i \in 0 .. (Order - 1) - 1, i \in T
       PROVE  i + 1 \in T
  <2>1. i + 1 \in 1 .. Order - 1 /\ i + 1 \in 0 .. Order - 1 /\ (i + 1) - 1 = i /\ i \in 0 .. Order - 1
    BY <1>n
  <2>2. level[i + 1] = FixedUpRound(m, level[i], i + 1)
    <3> HIDE DEF S
    <3> QED
      BY <1>6, <2>1
  <2>3. DOMAIN level[i + 1].prob = DOMAIN level[i].prob \cup {g \in ToAdd(m) : Len(g) = i + 1}
    <3>1. level[i] \in Models /\ Extends(level[i], m, ToAdd(m))
      BY <1>10, <2>1
    <3> QED
      BY <2>1, <2>2, <3>1, FixedUpRoundModel
  <2>4. ASSUME NEW g \in ToAdd(m), Len(g) <= i + 1
        PROVE  g \in DOMAIN level[i + 1].prob
    <3>1. Len(g) \in Int
      BY ToAddGrams
    <3>2. CASE Len(g) = i + 1
      BY <2>3, <3>2
    <3>3. CASE Len(g) # i + 1
      <4>1. Len(g) <= i
        BY <2>4, <3>1, <3>3
      <4> QED
        BY <1>12, <2>3, <4>1
    <3> QED
      BY <3>2, <3>3
  <2> QED
    BY <2>1, <2>4
<1>13. 0 .. Order - 1 \subseteq T
  <2>1. T \in SUBSET Nat
    OBVIOUS
  <2>2. \A i \in 0 .. (Order - 1) - 1 : i \in T => i + 1 \in T
    BY <1>12
  <2> HIDE DEF T
  <2> QED
    BY <1>11, <1>n, <2>1, <2>2, UpTo
<1> DEFINE r == level[Order - 1]
<1>14. r \in Models /\ Extends(r, m, ToAdd(m)) /\ Order - 1 \in T
  BY <1>10, <1>13, <1>n
<1>15. ToAdd(m) \subseteq DOMAIN r.prob
  BY <1>14, ToAddGrams
<1> HIDE DEF level, T, S, r
<1>16. ASSUME NEW c \in DOMAIN r.bow, c # <<>>
       PROVE  c \in DOMAIN r.prob
  <2>1. c \in DOMAIN m.bow \cup UNION {Prefixes(Tail(g)) : g \in ToAdd(m)}
    BY <1>14 DEF Extends
  <2>2. c \in DOMAIN m.prob \cup ToAdd(m)
    <3>1. CASE c \in DOMAIN m.bow
      <4>1. c \in Seq(Words) /\ Len(c) # 0
        BY <1>16, <3>1, ModelIs
      <4>2. 0 \in 0 .. Len(c) - 1 /\ Rest(c, 0) = c
        BY <4>1 DEF Rest
      <4> QED
        BY <3>1, <4>2, EndsCovered
    <3>2. CASE c \notin DOMAIN m.bow
      <4>1. PICK g \in ToAdd(m) : c \in Prefixes(Tail(g))
        BY <2>1, <3>2
      <4> QED
        BY <1>16, <4>1, AddedCovered
    <3> QED
      BY <3>1, <3>2
  <2> QED
    BY <1>14, <1>15, <2>2 DEF Extends
<1> QED
  BY <1>7, <1>14, <1>16 DEF Writable, r

-----------------------------------------------------------------------------
(* Estimation. *)

\* The fields a discounting method has.
LEMMA DiscountIs ==
    ASSUME NEW disc \in DiscountTypes
    PROVE  /\ disc.method \in {"none", "GoodTuring", "ConstDiscount", "WittenBell"}
           /\ disc.method # "none" => disc.mincount \in Nat
           /\ disc.method = "GoodTuring" => disc.d \in Amounts /\ disc.max \in Nat
           /\ disc.method = "ConstDiscount" => disc.d \in Amounts
           /\ disc.method = "none" => ~disc.interpolate
BY DEF DiscountTypes

\* The coefficients of the discounting methods are fractions, and their
\* weights for the lower order amounts.
LEMMA CoefficientType ==
    ASSUME NEW disc \in DiscountTypes, disc.method # "none",
           NEW count \in Nat, NEW total \in Nat, NEW observed \in Nat
    PROVE  Coefficient(disc, count, total, observed) \in Fraction
<1>1. disc.method \in {"GoodTuring", "ConstDiscount", "WittenBell"} /\ disc.mincount \in Nat
  BY DiscountIs
<1>2. CASE count = 0
  BY <1>2, Constants DEF Coefficient
<1>3. CASE count > 0 /\ count < disc.mincount
  BY <1>1, <1>3, Constants DEF Coefficient
<1>4. CASE count > 0 /\ count >= disc.mincount
  <2>0. ~(count = 0) /\ ~(count > 0 /\ count < disc.mincount)
    BY <1>1, <1>4
  <2>1. CASE disc.method = "GoodTuring"
    <3>1. Coefficient(disc, count, total, observed) = IF count > disc.max THEN One ELSE disc.d
      BY <1>4, <2>0, <2>1 DEF Coefficient
    <3> QED
      BY <2>1, <3>1, DiscountIs, Constants
  <2>2. CASE disc.method = "ConstDiscount"
    <3>1. Coefficient(disc, count, total, observed) =
            Over(Minus(<<count, 1>>, disc.d), <<count, 1>>)
      BY <1>4, <2>0, <2>2 DEF Coefficient
    <3>2. <<count, 1>> \in Fraction /\ disc.d \in Fraction
      BY <2>2, DiscountIs, Constants DEF Fraction
    <3>3. Minus(<<count, 1>>, disc.d) \in Fraction
      BY <3>2, MinusType
    <3> QED
      BY <3>1, <3>2, <3>3, OverType
  <2>3. CASE disc.method = "WittenBell"
    <3>1. Coefficient(disc, count, total, observed) = Ratio(total, total + observed)
      BY <1>4, <2>0, <2>3 DEF Coefficient
    <3>2. total \in Int /\ total + observed \in Nat
      OBVIOUS
    <3> QED
      BY <3>1, <3>2, RatioType
  <2> QED
    BY <1>1, <2>1, <2>2, <2>3
<1>5. count = 0 \/ (count > 0 /\ count < disc.mincount) \/ (count > 0 /\ count >= disc.mincount)
  BY <1>1
<1> QED
  BY <1>2, <1>3, <1>4, <1>5

LEMMA LowerOrderWeightType ==
    ASSUME NEW disc \in DiscountTypes, disc.method # "none",
           NEW total \in Nat, NEW observed \in Nat
    PROVE  LowerOrderWeight(disc, total, observed) \in Amounts
<1>1. disc.method \in {"GoodTuring", "ConstDiscount", "WittenBell"}
  BY DiscountIs
<1>2. CASE disc.method = "GoodTuring"
  BY <1>2, Constants DEF LowerOrderWeight
<1>3. CASE disc.method = "ConstDiscount"
  <2>1. LowerOrderWeight(disc, total, observed) = Over(Times(disc.d, <<observed, 1>>), <<total, 1>>)
    BY <1>3 DEF LowerOrderWeight
  <2>2. disc.d \in Amounts /\ <<observed, 1>> \in Amounts /\ <<total, 1>> \in Amounts
    BY <1>3, DiscountIs DEF Amounts
  <2>3. Times(disc.d, <<observed, 1>>) \in Amounts
    BY <2>2, TimesAmount
  <2> QED
    BY <2>1, <2>2, <2>3, OverAmount
<1>4. CASE disc.method = "WittenBell"
  <2>1. LowerOrderWeight(disc, total, observed) = Ratio(observed, total + observed)
    BY <1>4 DEF LowerOrderWeight
  <2>2. observed \in Int /\ total + observed \in Nat
    OBVIOUS
  <2> QED
    BY <2>1, <2>2, RatioType
<1> QED
  BY <1>1, <1>2, <1>3, <1>4

\* Turning an n-gram round.
LEMMA BackwardsFacts ==
    ASSUME NEW s \in Seq(Words)
    PROVE  /\ Backwards(s) \in Seq(Words) /\ Len(Backwards(s)) = Len(s)
           /\ Backwards(Backwards(s)) = s
<1> DEFINE b == Backwards(s)
<1>0. Len(s) \in Nat /\ \A i \in 1 .. Len(s) : s[i] \in Words /\ Len(s) + 1 - i \in 1 .. Len(s)
  OBVIOUS
<1>1. b = [i \in 1 .. Len(s) |-> s[Len(s) + 1 - i]]
  BY DEF Backwards
<1>2. b \in [1 .. Len(s) -> Words]
  BY <1>0, <1>1
<1>3. b \in Seq(Words) /\ Len(b) = Len(s)
  BY <1>0, <1>2
<1>4. Backwards(b) = [i \in 1 .. Len(s) |-> b[Len(s) + 1 - i]]
  BY <1>3 DEF Backwards
<1>5. \A i \in 1 .. Len(s) : b[Len(s) + 1 - i] = s[i]
  <2> SUFFICES ASSUME NEW i \in 1 .. Len(s) PROVE b[Len(s) + 1 - i] = s[i]
    OBVIOUS
  <2>1. Len(s) + 1 - i \in 1 .. Len(s) /\ Len(s) + 1 - (Len(s) + 1 - i) = i
    BY <1>0
  <2> HIDE DEF b
  <2> QED
    BY <1>1, <2>1
<1>6. s = [i \in 1 .. Len(s) |-> s[i]]
  OBVIOUS
<1> HIDE DEF b
<1>7. Backwards(b) = s
  BY <1>4, <1>5, <1>6
<1> QED
  BY <1>3, <1>7 DEF b

\* The words a corpus has seen after a context.
LEMMA FollowersIn ==
    ASSUME NEW stats \in Corpora, NEW ctx
    PROVE  /\ Followers(stats, ctx) \subseteq Words
           /\ \A w \in Followers(stats, ctx) : stats[Append(ctx, w)] \in Nat
           /\ ObservedVocab(stats, ctx) \in Nat
<1>1. Followers(stats, ctx) \subseteq Words
  BY DEF Followers
<1>2. \A w \in Followers(stats, ctx) : stats[Append(ctx, w)] \in Nat
  BY CorporaAssumption DEF Followers
<1>3. IsFiniteSet(Followers(stats, ctx) \cap Events)
  BY <1>1, EventsFinite
<1> QED
  BY <1>1, <1>2, <1>3, FS_CardinalityType DEF ObservedVocab

\* The N-grams of a context.
GramsIn(ctx) == {<<w>> \o Backwards(ctx) : w \in Words}

\* What an attempt gives, as a table of N-grams of the context.
LEMMA AttemptType ==
    ASSUME NEW m \in Models, NEW stats \in Corpora, NEW ctx \in Seq(Words),
           NEW disc \in DiscountTypes, NEW total \in Nat, NEW observed \in Nat,
           NEW interpolate, interpolate => disc.interpolate
    PROVE  Attempt(m, stats, ctx, disc, total, observed, interpolate).probs \in Tables(GramsIn(ctx))
<1> DEFINE i == Len(ctx) + 1
           c == Backwards(ctx)
           count(w)  == stats[Append(ctx, w)]
           weight(w) == IF disc.method = "none" THEN One
                        ELSE Coefficient(disc, count(w), total, observed)
           lower(w)  == IF i > 1 THEN WordProbBO(m, w, c, i - 2)
                        ELSE Ratio(1, Cardinality(Events))
           share(w)  == IF interpolate
                        THEN Times(LowerOrderWeight(disc, total, observed), lower(w))
                        ELSE Zero
           prob(w)   == Plus(Times(weight(w), Ratio(count(w), total)), share(w))
           kept == {w \in Followers(stats, ctx) :
                      IF w \in Events THEN (i = 1 \/ count(w) > 0) /\ Positive(weight(w))
                                      ELSE i = 1}
           G == {<<w>> \o c : w \in kept}
           probs == [g \in G |-> IF g[1] \in Events THEN prob(g[1]) ELSE Zero]
<1>1. Attempt(m, stats, ctx, disc, total, observed, interpolate).probs = probs
  BY DEF Attempt
<1>2. c \in Seq(Words) /\ i - 1 \in Nat
  BY BackwardsFacts
<1>b. \A w \in kept : w \in Events => Positive(weight(w))
  OBVIOUS
<1>3. kept \subseteq Words /\ \A w \in kept : count(w) \in Nat
  <2>1. kept \subseteq Followers(stats, ctx)
    OBVIOUS
  <2> HIDE DEF kept
  <2> QED
    BY <2>1, FollowersIn
<1> HIDE DEF kept
<1>4. ASSUME NEW w \in kept, w \in Events
      PROVE  prob(w) \in Amounts
  <2>1. weight(w) \in Amounts
    <3>1. count(w) \in Nat
      BY <1>3
    <3>2. disc.method # "none" => Coefficient(disc, count(w), total, observed) \in Fraction
      <4> HIDE DEF count
      <4> QED
        BY <3>1, CoefficientType
    <3>3. weight(w) \in Fraction /\ Positive(weight(w))
      BY <1>b, <1>4, <3>2, Constants
    <3> HIDE DEF weight
    <3>4. ~Negative(weight(w))
      BY <3>3 DEF Positive, Negative, Fraction
    <3> QED
      BY <3>3, <3>4, Constants
  <2>2. Ratio(count(w), total) \in Amounts
    <3>1. count(w) \in Int /\ count(w) >= 0
      BY <1>3
    <3> HIDE DEF count
    <3> QED
      BY <3>1, RatioType
  <2>3. lower(w) \in Amounts
    <3>1. CASE i > 1
      <4>1. i - 2 \in Nat /\ w \in Words
        BY <1>2, <1>3, <3>1
      <4> HIDE DEF i, c
      <4> QED
        BY <1>2, <3>1, <4>1, WordProbType
    <3>2. CASE ~(i > 1)
      <4>1. Cardinality(Events) \in Nat /\ 1 \in Int
        BY EventsFinite, FS_CardinalityType
      <4> HIDE DEF i
      <4> QED
        BY <3>2, <4>1, RatioType
    <3> QED
      BY <3>1, <3>2
  <2>4. share(w) \in Amounts
    <3>1. CASE interpolate
      <4>1. disc.method # "none"
        BY <3>1, DiscountIs
      <4>2. LowerOrderWeight(disc, total, observed) \in Amounts
        BY <4>1, LowerOrderWeightType
      <4> HIDE DEF lower
      <4> QED
        BY <2>3, <3>1, <4>2, TimesAmount
    <3>2. CASE ~interpolate
      BY <3>2, Constants
    <3> QED
      BY <3>1, <3>2
  <2> HIDE DEF weight, share, count
  <2>5. Times(weight(w), Ratio(count(w), total)) \in Amounts
    BY <2>1, <2>2, TimesAmount
  <2> QED
    BY <2>4, <2>5, PlusAmount
<1> HIDE DEF prob
<1>5. probs \in [G -> Amounts]
  <2> SUFFICES ASSUME NEW w \in kept
               PROVE  (IF (<<w>> \o c)[1] \in Events THEN prob((<<w>> \o c)[1]) ELSE Zero) \in Amounts
    OBVIOUS
  <2>1. (<<w>> \o c)[1] = w
    BY <1>2, <1>3, WordFirst
  <2> QED
    BY <1>4, <2>1, Constants
<1>6. G \in SUBSET GramsIn(ctx)
  BY <1>3 DEF GramsIn
<1> HIDE DEF probs, G
<1>7. probs \in Tables(GramsIn(ctx))
  BY <1>5, <1>6, IsTable
<1> QED
  BY <1>1, <1>7

\* One of the attempts is sufficient, or the last one is taken.
LEMMA SufficientIs ==
    ASSUME NEW attempts
    PROVE  \E k \in 0 .. MaxRetries : Sufficient(attempts) = attempts[k]
<1> DEFINE enough == {k \in 0 .. MaxRetries : Less(attempts[k].total, One)}
           k0 == CHOOSE k \in enough \cup {MaxRetries} : \A j \in enough : k <= j
<1>0. MaxRetries \in Nat
  BY OrderAssumption
<1>1. enough \in SUBSET (0 .. MaxRetries)
  OBVIOUS
<1>2. Sufficient(attempts) = attempts[k0]
  BY DEF Sufficient
<1> HIDE DEF enough
<1>3. \E k \in enough \cup {MaxRetries} : \A j \in enough : k <= j
  <2>1. CASE enough = {}
    BY <2>1
  <2>2. CASE enough # {}
    <3>1. enough \in SUBSET Nat
      BY <1>0, <1>1
    <3> QED
      BY <2>2, <3>1, LeastElement
  <2> QED
    BY <2>1, <2>2
<1>4. k0 \in enough \cup {MaxRetries}
  BY <1>3
<1> HIDE DEF k0
<1>5. k0 \in 0 .. MaxRetries
  BY <1>0, <1>1, <1>4
<1> QED
  BY <1>2, <1>5

\* The estimate for one context is a table of its n-grams.
LEMMA ContextProbsType ==
    ASSUME NEW m \in Models, NEW stats \in Corpora, NEW ctx \in Seq(Words), NEW disc \in DiscountTypes
    PROVE  ContextProbs(m, stats, ctx, disc) \in Tables(GramsIn(ctx))
<1> DEFINE total    == CountTotal(stats, ctx)
           observed == ObservedVocab(stats, ctx)
           more(k)  == IF disc.interpolate /\ k > 0 THEN k - 1 ELSE k
           try(k)   == Attempt(m, stats, ctx, disc, total + more(k), observed,
                               disc.interpolate /\ k = 0)
           tries    == [k \in 0 .. MaxRetries |-> try(k)]
<1>1. total \in Nat /\ observed \in Nat
  BY CountTotalType, FollowersIn
<1>2. ASSUME NEW k \in Nat
      PROVE  try(k).probs \in Tables(GramsIn(ctx))
  <2>1. total + more(k) \in Nat
    <3> HIDE DEF total
    <3> QED
      BY <1>1
  <2>2. (disc.interpolate /\ k = 0) => disc.interpolate
    OBVIOUS
  <2> HIDE DEF total, more, observed
  <2> QED
    BY <1>1, <2>1, <2>2, AttemptType
<1>3. ContextProbs(m, stats, ctx, disc) =
        IF disc.method = "none" \/ observed = Cardinality(Events)
        THEN try(0).probs ELSE Sufficient(tries).probs
  BY DEF ContextProbs
<1>4. Sufficient(tries).probs \in Tables(GramsIn(ctx))
  <2> HIDE DEF try
  <2>1. \A k \in 0 .. MaxRetries : k \in Nat /\ tries[k] = try(k)
    OBVIOUS
  <2> HIDE DEF tries
  <2>2. PICK k \in 0 .. MaxRetries : Sufficient(tries) = tries[k]
    BY SufficientIs
  <2> QED
    BY <1>2, <2>1, <2>2
<1> HIDE DEF try, tries, observed
<1>5. try(0).probs \in Tables(GramsIn(ctx))
  BY <1>2
<1> QED
  BY <1>3, <1>4, <1>5

\* The N-grams of the contexts of a level, each with the probability its
\* context gives it.
LEMMA GatheredType ==
    ASSUME NEW i \in 1 .. Order, NEW C \in SUBSET {ctx \in Seq(Words) : Len(ctx) = i - 1},
           NEW part, DOMAIN part = C, \A ctx \in C : part[ctx] \in Tables(GramsIn(ctx))
    PROVE  Gathered(part) \in Tables(Grams)
<1> DEFINE G == UNION {DOMAIN part[ctx] : ctx \in DOMAIN part}
<1>1. ASSUME NEW g \in G
      PROVE  g \in Grams /\ part[Backwards(Tail(g))][g] \in Amounts
  <2>1. PICK ctx \in C : g \in DOMAIN part[ctx]
    OBVIOUS
  <2>2. part[ctx] \in Tables(GramsIn(ctx))
    OBVIOUS
  <2>3. DOMAIN part[ctx] \subseteq GramsIn(ctx) /\ part[ctx][g] \in Amounts
    BY <2>1, <2>2, TableIs
  <2>4. PICK w \in Words : g = <<w>> \o Backwards(ctx)
    BY <2>1, <2>3 DEF GramsIn
  <2>5. ctx \in Seq(Words) /\ Len(ctx) = i - 1
    OBVIOUS
  <2>6. /\ Backwards(ctx) \in Seq(Words) /\ Len(Backwards(ctx)) = i - 1
        /\ Backwards(Backwards(ctx)) = ctx
    BY <2>5, BackwardsFacts
  <2>7. g \in Seq(Words) /\ Len(g) = i /\ Tail(g) = Backwards(ctx)
    BY <2>4, <2>6, WordFirst
  <2> QED
    BY <2>3, <2>6, <2>7 DEF Grams
<1>2. Gathered(part) \in [G -> Amounts]
  BY <1>1 DEF Gathered
<1>3. G \in SUBSET Grams
  BY <1>1
<1> HIDE DEF G
<1> QED
  BY <1>2, <1>3, IsTable

\* The estimate of one length keeps a model a model.
LEMMA EstimatedLevelModel ==
    ASSUME NEW m \in Models, NEW stats \in Corpora, NEW i \in 1 .. Order, NEW disc \in DiscountTypes
    PROVE  EstimatedLevel(m, stats, i, disc) \in Models
<1> DEFINE C == Counted(stats, i)
           part == [ctx \in C |-> ContextProbs(m, stats, ctx, disc)]
           q == InsertProbs(m, Gathered(part))
<1>1. C \in SUBSET {ctx \in Seq(Words) : Len(ctx) = i - 1}
  <2>1. <<>> \in Seq(Words)
    OBVIOUS
  <2> QED
    BY <2>1, CorporaAssumption DEF Counted
<1>2. DOMAIN part = C /\ \A ctx \in C : part[ctx] \in Tables(GramsIn(ctx))
  <2>1. \A ctx \in C : ContextProbs(m, stats, ctx, disc) \in Tables(GramsIn(ctx))
    <3> HIDE DEF C
    <3> QED
      BY <1>1, ContextProbsType
  <2> HIDE DEF C
  <2> QED
    BY <2>1
<1>3. EstimatedLevel(m, stats, i, disc) = BOWsComputed(q, i - 1, NoMinimum)
  BY DEF EstimatedLevel
<1> HIDE DEF C, part
<1>4. Gathered(part) \in Tables(Grams)
  BY <1>1, <1>2, GatheredType
<1>5. q \in Models
  BY <1>4, InsertProbsModel
<1> HIDE DEF q
<1>6. i - 1 \in Nat
  OBVIOUS
<1> QED
  BY <1>3, <1>5, <1>6, Constants, BOWsComputedModel

\* The model before the first estimate.
LEMMA EmptyModel == Empty \in Models /\ Writable(Empty)
<1>1. <<>> \in Nodes
  BY OrderAssumption DEF Nodes
<1> DEFINE b == [c \in {<<>>} |-> One]
           p == [g \in {} |-> Zero]
<1>2. b \in [{<<>>} -> Amounts] /\ p \in [{} -> Amounts]
  BY Constants
<1>3. b \in Tables(Nodes)
  <2>1. {<<>>} \in SUBSET Nodes
    BY <1>1
  <2> HIDE DEF b
  <2> QED
    BY <1>2, <2>1, IsTable
<1>4. p \in Tables(Grams)
  <2>1. {} \in SUBSET Grams
    OBVIOUS
  <2> HIDE DEF p
  <2> QED
    BY <1>2, <2>1, IsTable
<1>5. Empty = [prob |-> p, bow |-> b]
  BY DEF Empty
<1>6. First(<<>>, 0) = <<>> /\ Len(<<>>) = 0
  BY DEF First
<1>7. DOMAIN b = {<<>>} /\ DOMAIN p = {}
  OBVIOUS
<1> HIDE DEF b, p
<1>8. Linked([prob |-> p, bow |-> b])
  BY <1>6, <1>7 DEF Linked
<1>9. [prob |-> p, bow |-> b] \in Models
  BY <1>3, <1>4, <1>8, IsModel
<1> QED
  BY <1>5, <1>7, <1>9 DEF Writable

\* estimate leaves a model with a probability for every context.
LEMMA EstimatedModel ==
    ASSUME NEW stats \in Corpora, NEW discounts \in Discounting
    PROVE  Estimated(stats, discounts) \in Models /\ Writable(Estimated(stats, discounts))
<1> DEFINE S == Models
           m == InsertProbs(Empty, [g \in {<<SentStart>>} |-> Zero])
           F == [i \in 1 .. Order |-> [r \in S |-> EstimatedLevel(r, stats, i, discounts[i])]]
           level == CHOOSE s : s = [i \in 0 .. Order |->
                                      IF i = 0 THEN m
                                      ELSE EstimatedLevel(s[i - 1], stats, i, discounts[i])]
<1>7. Estimated(stats, discounts) = FixedUp(level[Order])
  BY DEF Estimated
<1>1. m \in S
  <2> DEFINE ps == [g \in {<<SentStart>>} |-> Zero]
  <2>1. <<SentStart>> \in Seq(Words) /\ Len(<<SentStart>>) = 1
    BY WordsAssumption
  <2>2. {<<SentStart>>} \in SUBSET Grams
    BY <2>1, OrderAssumption DEF Grams
  <2>3. ps \in [{<<SentStart>>} -> Amounts]
    BY Constants
  <2>4. m = InsertProbs(Empty, ps)
    OBVIOUS
  <2> HIDE DEF ps, m
  <2>5. ps \in Tables(Grams)
    BY <2>2, <2>3, IsTable
  <2> QED
    BY <2>4, <2>5, EmptyModel, InsertProbsModel
<1> HIDE DEF m
<1>2. \A i \in 1 .. Order, r \in S : EstimatedLevel(r, stats, i, discounts[i]) \in S
  <2>1. \A i \in 1 .. Order : discounts[i] \in DiscountTypes
    BY DiscountingAssumption
  <2> QED
    BY <2>1, EstimatedLevelModel
<1>3. F \in [1 .. Order -> [S -> S]]
  <2> HIDE DEF S
  <2> QED
    BY <1>2
<1>n. Order \in Nat
  BY OrderAssumption
<1>4. PICK s : Steps(s, Order, m, F, S)
  <2> HIDE DEF S, F
  <2> QED
    BY <1>1, <1>3, <1>n, StepsExist
<1>a. s \in [0 .. Order -> S] /\ s[0] = m /\ \A i \in 1 .. Order : s[i] = F[i][s[i - 1]]
  BY <1>4 DEF Steps
<1>5. s = [i \in 0 .. Order |-> IF i = 0 THEN m ELSE EstimatedLevel(s[i - 1], stats, i, discounts[i])]
  <2>1. \A i \in 0 .. Order : i # 0 => i \in 1 .. Order /\ i - 1 \in 0 .. Order
    BY <1>n
  <2> HIDE DEF S
  <2>2. \A i \in 0 .. Order : i # 0 => s[i] = EstimatedLevel(s[i - 1], stats, i, discounts[i])
    BY <1>a, <2>1
  <2> QED
    BY <1>a, <2>2
<1>6. level = [i \in 0 .. Order |-> IF i = 0 THEN m ELSE EstimatedLevel(level[i - 1], stats, i, discounts[i])]
  <2> HIDE DEF S, F
  <2> QED
    BY <1>5
<1> HIDE DEF level
<1>8. level[0] \in S
  <2>1. 0 \in 0 .. Order
    BY <1>n
  <2> QED
    BY <1>1, <1>6, <2>1
<1>9. \A i \in 1 .. Order : level[i - 1] \in S => level[i] \in S
  <2>1. \A i \in 1 .. Order : i \in 0 .. Order /\ i # 0
    OBVIOUS
  <2> HIDE DEF S
  <2> QED
    BY <1>2, <1>6, <2>1
<1>10. \A i \in 0 .. Order : level[i] \in S
  <2> HIDE DEF S
  <2> QED
    BY <1>8, <1>9, <1>n, StepsStay
<1>11. level[Order] \in Models
  BY <1>n, <1>10
<1> QED
  BY <1>7, <1>11, FixedUpModel

-----------------------------------------------------------------------------
(* Static interpolation. *)

\* A mixture of two amounts is an amount.
LEMMA MixProbType ==
    ASSUME NEW p \in Amounts, NEW q \in Amounts, NEW lambda \in Amounts, ~Less(One, lambda)
    PROVE  MixProb(p, q, lambda) \in Amounts
<1>1. Minus(One, lambda) \in Amounts
  BY Constants, OneMinus
<1>2. Times(lambda, p) \in Amounts /\ Times(Minus(One, lambda), q) \in Amounts
  BY <1>1, TimesAmount
<1> QED
  BY <1>2, PlusAmount DEF MixProb

\* The nodes on the way to an n-gram are there.
LEMMA TailPrefixes ==
    ASSUME NEW m \in Models, NEW g \in DOMAIN m.prob
    PROVE  Prefixes(Tail(g)) \subseteq DOMAIN m.bow
<1>1. Tail(g) \in DOMAIN m.bow
  BY ModelIs
<1>2. \A n \in 0 .. Len(Tail(g)) : First(Tail(g), n) \in DOMAIN m.bow
  BY <1>1, ModelIs
<1> QED
  BY <1>2 DEF Prefixes

\* The model r has the N-grams of m, and no contexts but those of m and m2.
Joins(r, m, m2) ==
    /\ DOMAIN m.prob \subseteq DOMAIN r.prob
    /\ DOMAIN r.bow \subseteq DOMAIN m.bow \cup DOMAIN m2.bow

\* The model r is m with the N-grams of length i of m2.
Joined(r, m, m2, i) ==
    /\ r \in Models /\ Joins(r, m, m2)
    /\ DOMAIN r.prob = DOMAIN m.prob \cup NgramsOf(m2, i)

\* mixProbs on one length.
LEMMA MixedLevelModel ==
    ASSUME NEW m \in Models, NEW m2 \in Models, NEW i \in Nat, NEW lambda \in Amounts, ~Less(One, lambda)
    PROVE  Joined(MixedLevel(m, m2, i, lambda), m, m2, i + 1)
<1> DEFINE mine   == NgramsOf(m, i + 1)
           theirs == NgramsOf(m2, i + 1) \ mine
           G == mine \cup theirs
           ps == [g \in G |->
                   IF g \in mine
                   THEN MixProb(m.prob[g], WordProbBO(m2, g[1], Tail(g), i), lambda)
                   ELSE MixProb(WordProbBO(m, g[1], Tail(g), i), m2.prob[g], lambda)]
           r == MixedLevel(m, m2, i, lambda)
<1>1. r = InsertProbs(m, ps) /\ DOMAIN ps = G
  BY DEF MixedLevel
<1>2. G \in SUBSET Grams
  BY ModelIs DEF NgramsOf, Grams
<1>3. ps \in [G -> Amounts]
  <2> SUFFICES ASSUME NEW g \in G
               PROVE  (IF g \in mine
                       THEN MixProb(m.prob[g], WordProbBO(m2, g[1], Tail(g), i), lambda)
                       ELSE MixProb(WordProbBO(m, g[1], Tail(g), i), m2.prob[g], lambda)) \in Amounts
    OBVIOUS
  <2>1. g \in Seq(Words) /\ Len(g) # 0
    BY <1>2 DEF Grams
  <2>2. g[1] \in Words /\ Tail(g) \in Seq(Words)
    BY <2>1, TailFacts
  <2>3. WordProbBO(m, g[1], Tail(g), i) \in Amounts /\ WordProbBO(m2, g[1], Tail(g), i) \in Amounts
    BY <2>2, WordProbType
  <2>4. CASE g \in mine
    <3>1. m.prob[g] \in Amounts
      BY <2>4, ModelIs DEF NgramsOf
    <3> HIDE DEF mine, theirs
    <3> QED
      BY <2>3, <2>4, <3>1, MixProbType
  <2>5. CASE g \notin mine
    <3>1. g \in NgramsOf(m2, i + 1)
      BY <2>5
    <3>2. m2.prob[g] \in Amounts
      BY <3>1, ModelIs DEF NgramsOf
    <3> HIDE DEF mine, theirs
    <3> QED
      BY <2>3, <2>5, <3>2, MixProbType
  <2> QED
    BY <2>4, <2>5
<1>4. ps \in Tables(Grams)
  <2> HIDE DEF ps, G
  <2> QED
    BY <1>2, <1>3, IsTable
<1> HIDE DEF ps, r
<1>5. r \in Models /\ Inserted(r, m, ps)
  BY <1>1, <1>4, InsertProbsModel
<1>6. DOMAIN r.prob = DOMAIN m.prob \cup NgramsOf(m2, i + 1)
  <2>1. G = mine \cup NgramsOf(m2, i + 1) /\ mine \subseteq DOMAIN m.prob
    BY DEF NgramsOf
  <2> HIDE DEF G, mine
  <2> QED
    BY <1>1, <1>5, <2>1 DEF Inserted, Overlaid
<1>7. UNION {Prefixes(Tail(g)) : g \in G} \subseteq DOMAIN m.bow \cup DOMAIN m2.bow
  <2> SUFFICES ASSUME NEW g \in G
               PROVE  Prefixes(Tail(g)) \subseteq DOMAIN m.bow \cup DOMAIN m2.bow
    OBVIOUS
  <2>1. g \in DOMAIN m.prob \/ g \in DOMAIN m2.prob
    BY DEF NgramsOf
  <2> QED
    BY <2>1, TailPrefixes
<1> HIDE DEF G
<1>8. Joins(r, m, m2)
  BY <1>1, <1>5, <1>6, <1>7 DEF Inserted, Joins
<1> QED
  BY <1>5, <1>6, <1>8 DEF Joined, r

\* What mixProbs does in round i.
MixedRound(m2, lambda, part, i) == MixedLevel(part, m2, Order - i, lambda)

\* mixProbs keeps a model a model, and every context on a line of its own.
LEMMA MixedModel ==
    ASSUME NEW m \in Models, NEW m2 \in Models, NEW lambda \in Amounts, ~Less(One, lambda),
           Writable(m), Writable(m2)
    PROVE  Mixed(m, m2, lambda) \in Models /\ Writable(Mixed(m, m2, lambda))
<1> DEFINE S == {r \in Models : Joins(r, m, m2)}
           F == [i \in 1 .. Order |-> [r \in S |-> MixedRound(m2, lambda, r, i)]]
           level == CHOOSE s : s = [i \in 0 .. Order |->
                                      IF i = 0 THEN m ELSE MixedRound(m2, lambda, s[i - 1], i)]
<1>1. m \in S
  BY DEF Joins
<1>b. ASSUME NEW i \in 1 .. Order, NEW r \in S
      PROVE  /\ MixedRound(m2, lambda, r, i) \in S
             /\ DOMAIN MixedRound(m2, lambda, r, i).prob =
                  DOMAIN r.prob \cup NgramsOf(m2, Order + 1 - i)
  <2>1. Order - i \in Nat /\ (Order - i) + 1 = Order + 1 - i
    BY OrderAssumption
  <2> DEFINE q == MixedLevel(r, m2, Order - i, lambda)
  <2>2. Joined(q, r, m2, (Order - i) + 1)
    BY <2>1, MixedLevelModel
  <2> HIDE DEF q
  <2>3. q \in Models /\ DOMAIN q.prob = DOMAIN r.prob \cup NgramsOf(m2, Order + 1 - i)
    BY <2>1, <2>2 DEF Joined
  <2>4. Joins(q, m, m2)
    BY <2>2 DEF Joins, Joined
  <2> QED
    BY <2>3, <2>4 DEF MixedRound, q
<1>2. \A i \in 1 .. Order, r \in S : MixedRound(m2, lambda, r, i) \in S
  BY <1>b
<1>3. F \in [1 .. Order -> [S -> S]]
  <2> HIDE DEF S
  <2> QED
    BY <1>2
<1>n. Order \in Nat
  BY OrderAssumption
<1>4. PICK s : Steps(s, Order, m, F, S)
  <2> HIDE DEF S, F
  <2> QED
    BY <1>1, <1>3, <1>n, StepsExist
<1>a. s \in [0 .. Order -> S] /\ s[0] = m /\ \A i \in 1 .. Order : s[i] = F[i][s[i - 1]]
  BY <1>4 DEF Steps
<1>5. s = [i \in 0 .. Order |-> IF i = 0 THEN m ELSE MixedRound(m2, lambda, s[i - 1], i)]
  <2>1. \A i \in 0 .. Order : i # 0 => i \in 1 .. Order /\ i - 1 \in 0 .. Order
    BY <1>n
  <2> HIDE DEF S
  <2>2. \A i \in 0 .. Order : i # 0 => s[i] = MixedRound(m2, lambda, s[i - 1], i)
    BY <1>a, <2>1
  <2> QED
    BY <1>a, <2>2
<1>6. level = [i \in 0 .. Order |-> IF i = 0 THEN m ELSE MixedRound(m2, lambda, level[i - 1], i)]
  <2> HIDE DEF S, F
  <2> QED
    BY <1>5
<1>7. Mixed(m, m2, lambda) = Recomputed(level[Order], NoMinimum)
  BY DEF Mixed, MixedRound
<1> HIDE DEF level
<1>8. level[0] \in S
  <2>1. 0 \in 0 .. Order
    BY <1>n
  <2> QED
    BY <1>1, <1>6, <2>1
<1>9. \A i \in 1 .. Order : level[i - 1] \in S => level[i] \in S
  <2>1. \A i \in 1 .. Order : i \in 0 .. Order /\ i # 0
    OBVIOUS
  <2> HIDE DEF S
  <2> QED
    BY <1>2, <1>6, <2>1
<1>10. \A i \in 0 .. Order : level[i] \in S
  <2> HIDE DEF S
  <2> QED
    BY <1>8, <1>9, <1>n, StepsStay
<1> DEFINE T == {i \in 0 .. Order :
                  \A g \in DOMAIN m2.prob : Len(g) > Order - i => g \in DOMAIN level[i].prob}
<1>11. 0 \in T
  <2>1. \A g \in DOMAIN m2.prob : ~(Len(g) > Order - 0)
    BY <1>n, ModelIs
  <2> QED
    BY <1>n, <2>1
<1>12. ASSUME NEW i \in 0 .. Order - 1, i \in T
       PROVE  i + 1 \in T
  <2>1. i + 1 \in 1 .. Order /\ i + 1 \in 0 .. Order /\ (i + 1) - 1 = i /\ i \in 0 .. Order
    BY <1>n
  <2>2. level[i + 1] = MixedRound(m2, lambda, level[i], i + 1)
    <3> HIDE DEF S
    <3> QED
      BY <1>6, <2>1
  <2>3. DOMAIN level[i + 1].prob = DOMAIN level[i].prob \cup NgramsOf(m2, Order + 1 - (i + 1))
    <3>1. level[i] \in S
      BY <1>10, <2>1
    <3> HIDE DEF S
    <3> QED
      BY <1>b, <2>1, <2>2, <3>1
  <2>4. ASSUME NEW g \in DOMAIN m2.prob, Len(g) > Order - (i + 1)
        PROVE  g \in DOMAIN level[i + 1].prob
    <3>1. Len(g) \in Int
      BY ModelIs
    <3>2. CASE Len(g) = Order + 1 - (i + 1)
      BY <2>3, <3>2 DEF NgramsOf
    <3>3. CASE Len(g) # Order + 1 - (i + 1)
      <4>1. Len(g) > Order - i
        BY <1>n, <2>4, <3>1, <3>3
      <4> QED
        BY <1>12, <2>3, <4>1
    <3> QED
      BY <3>2, <3>3
  <2> QED
    BY <2>1, <2>4
<1>13. 0 .. Order \subseteq T
  <2>1. T \in SUBSET Nat
    OBVIOUS
  <2>2. \A i \in 0 .. Order - 1 : i \in T => i + 1 \in T
    BY <1>12
  <2> HIDE DEF T
  <2> QED
    BY <1>11, <1>n, <2>1, <2>2, UpTo
<1> DEFINE r == level[Order]
<1>14. r \in Models /\ Joins(r, m, m2) /\ Order \in T
  BY <1>10, <1>13, <1>n
<1>15. DOMAIN m2.prob \subseteq DOMAIN r.prob
  <2>1. \A g \in DOMAIN m2.prob : Len(g) > Order - Order
    BY <1>n, ModelIs
  <2> QED
    BY <1>14, <2>1
<1> HIDE DEF level, T, S, r
<1>16. Writable(r)
  BY <1>14, <1>15 DEF Joins, Writable
<1>17. Recomputed(r, NoMinimum) \in Models /\ Writable(Recomputed(r, NoMinimum))
  BY <1>14, <1>16, Constants, RecomputedWritable
<1> QED
  BY <1>7, <1>17 DEF r

-----------------------------------------------------------------------------
(* Pruning. *)

\* When n-grams may be taken out together with the contexts that become
\* empty.
LEMMA WithoutModel ==
    ASSUME NEW m \in Models, NEW grams, NEW contexts,
           \A g \in DOMAIN m.prob \ grams : Tail(g) \notin contexts,
           \A c \in DOMAIN m.bow \ contexts : \A n \in 0 .. Len(c) : First(c, n) \notin contexts,
           <<>> \notin contexts
    PROVE  LET r == Without(m, grams, contexts)
           IN  /\ r \in Models
               /\ DOMAIN r.prob = DOMAIN m.prob \ grams /\ DOMAIN r.bow = DOMAIN m.bow \ contexts
<1> DEFINE p == [g \in DOMAIN m.prob \ grams |-> m.prob[g]]
           b == [c \in DOMAIN m.bow \ contexts |-> m.bow[c]]
           r == [prob |-> p, bow |-> b]
<1>1. p \in Tables(Grams)
  <2>1. p \in [DOMAIN m.prob \ grams -> Amounts] /\ DOMAIN m.prob \ grams \in SUBSET Grams
    BY ModelIs DEF Grams
  <2> HIDE DEF p
  <2> QED
    BY <2>1, IsTable
<1>2. b \in Tables(Nodes)
  <2>1. b \in [DOMAIN m.bow \ contexts -> Amounts] /\ DOMAIN m.bow \ contexts \in SUBSET Nodes
    BY ModelIs DEF Nodes
  <2> HIDE DEF b
  <2> QED
    BY <2>1, IsTable
<1>3. Without(m, grams, contexts) = r
  BY DEF Without
<1>4. DOMAIN p = DOMAIN m.prob \ grams /\ DOMAIN b = DOMAIN m.bow \ contexts
  OBVIOUS
<1>5. r.prob = p /\ r.bow = b
  OBVIOUS
<1> HIDE DEF p, b
<1>6. Linked(r)
  <2>1. <<>> \in DOMAIN b
    BY <1>4, ModelIs
  <2>2. \A c \in DOMAIN b : \A n \in 0 .. Len(c) : First(c, n) \in DOMAIN b
    <3> SUFFICES ASSUME NEW c \in DOMAIN b, NEW n \in 0 .. Len(c) PROVE First(c, n) \in DOMAIN b
      OBVIOUS
    <3>1. c \in DOMAIN m.bow /\ c \notin contexts
      BY <1>4
    <3>2. First(c, n) \in DOMAIN m.bow
      BY <3>1, ModelIs
    <3> QED
      BY <1>4, <3>1, <3>2
  <2>3. \A g \in DOMAIN p : Tail(g) \in DOMAIN b
    <3> SUFFICES ASSUME NEW g \in DOMAIN p PROVE Tail(g) \in DOMAIN b
      OBVIOUS
    <3>1. g \in DOMAIN m.prob \ grams
      BY <1>4
    <3>2. Tail(g) \in DOMAIN m.bow
      BY <3>1, ModelIs
    <3> QED
      BY <1>4, <3>1, <3>2
  <2> HIDE DEF r
  <2> QED
    BY <1>5, <2>1, <2>2, <2>3 DEF Linked
<1>7. r \in Models
  BY <1>1, <1>2, <1>6, IsModel
<1> HIDE DEF r
<1> QED
  BY <1>3, <1>4, <1>5, <1>7

\* A context that is emptied at level i can go with its N-grams: no other is
\* left in it, and no longer context runs through it.
LEMMA EmptiedModel ==
    ASSUME NEW m \in Models, NEW i \in 1 .. Order - 1, NEW gone,
           NEW contexts \in SUBSET Emptied(m, i, gone)
    PROVE  LET r == Without(m, gone, contexts)
           IN  /\ r \in Models
               /\ DOMAIN r.prob = DOMAIN m.prob \ gone /\ DOMAIN r.bow = DOMAIN m.bow \ contexts
<1>1. ASSUME NEW g \in DOMAIN m.prob \ gone
      PROVE  Tail(g) \notin contexts
  BY DEF Emptied, Explicit
<1>2. ASSUME NEW c \in DOMAIN m.bow \ contexts, NEW n \in 0 .. Len(c)
      PROVE  First(c, n) \notin contexts
  <2>0. SUFFICES ASSUME First(c, n) \in contexts PROVE FALSE
    OBVIOUS
  <2>1. c \in Seq(Words) /\ Len(c) \in Nat /\ c \in DOMAIN m.bow
    BY ModelIs
  <2>2. Len(First(c, n)) = n
    BY <2>1, FirstFacts
  <2>3. n = i
    BY <2>0, <2>2 DEF Emptied, Contexts
  <2>4. n # Len(c)
    BY <2>0, <2>1, FirstFacts
  <2>5. i + 1 \in 0 .. Len(c) /\ i \in 0 .. i + 1
    BY <2>1, <2>3, <2>4
  <2> DEFINE d == First(c, i + 1)
  <2>6. d \in DOMAIN m.bow
    BY <2>1, <2>5, ModelIs
  <2>7. Len(d) = i + 1 /\ First(d, i) = First(c, i)
    BY <2>1, <2>5, FirstFacts
  <2>8. d \in Contexts(m, i + 1)
    BY <2>6, <2>7 DEF Contexts
  <2> HIDE DEF d
  <2> QED
    BY <2>0, <2>3, <2>7, <2>8 DEF Emptied
<1>3. <<>> \notin contexts
  <2>1. Len(<<>>) = 0 /\ i # 0
    OBVIOUS
  <2> QED
    BY <2>1 DEF Emptied, Contexts
<1> QED
  BY <1>1, <1>2, <1>3, WithoutModel

\* pruneProbs on one length.
LEMMA PrunedLevelModel ==
    ASSUME NEW m \in Models, NEW i \in 1 .. Order - 1, NEW low, Writable(m)
    PROVE  PrunedLevel(m, i, low) \in Models /\ Writable(PrunedLevel(m, i, low))
<1> DEFINE sane == {c \in Contexts(m, i) : ~Negative(ComputeBOW(m, c, NoMinimum).num)}
           s == Scaled(m, i, NoMinimum)
           gone == {g \in NgramsOf(m, i + 1) \cap low : Tail(g) \in sane /\ ~Needed(m, g)}
           contexts == Emptied(m, i, gone) \cap sane
           r == Without(s, gone, contexts)
<1>1. PrunedLevel(m, i, low) = r
  BY DEF PrunedLevel
<1>2. s \in Models /\ DOMAIN s.bow = DOMAIN m.bow /\ DOMAIN s.prob = DOMAIN m.prob
  <2>1. i \in Nat
    OBVIOUS
  <2>2. s \in Models /\ Keeps(s, m) /\ DOMAIN s.prob = DOMAIN m.prob
    BY <2>1, Constants, ScaledModel
  <2> HIDE DEF s
  <2> QED
    BY <2>2 DEF Keeps
<1>3. \A g \in gone : g \notin DOMAIN m.bow
  BY DEF Needed
<1> HIDE DEF sane, s, gone
<1>4. contexts \in SUBSET Emptied(s, i, gone)
  <2>1. Emptied(s, i, gone) = Emptied(m, i, gone)
    BY <1>2 DEF Emptied, Contexts, Explicit
  <2> QED
    BY <2>1
<1> HIDE DEF contexts
<1>5. /\ r \in Models
      /\ DOMAIN r.prob = DOMAIN s.prob \ gone /\ DOMAIN r.bow = DOMAIN s.bow \ contexts
  BY <1>2, <1>4, EmptiedModel
<1> HIDE DEF r
<1>6. Writable(r)
  BY <1>2, <1>3, <1>5 DEF Writable
<1> QED
  BY <1>1, <1>5, <1>6

\* What pruneProbs does in round k.
PrunedRound(low, minorder, part, k) ==
    IF Order - k < minorder - 1 THEN part ELSE PrunedLevel(part, Order - k, low)

\* pruneProbs keeps a model a model, and every context on a line of its own.
LEMMA PrunedModel ==
    ASSUME NEW m \in Models, NEW low, NEW minorder \in Nat \ {0, 1}, Writable(m)
    PROVE  Pruned(m, low, minorder) \in Models /\ Writable(Pruned(m, low, minorder))
<1> DEFINE S == {r \in Models : Writable(r)}
           F == [i \in 1 .. Order - 1 |-> [r \in S |-> PrunedRound(low, minorder, r, i)]]
           level == CHOOSE s : s = [k \in 0 .. Order - 1 |->
                                      IF k = 0 THEN m ELSE PrunedRound(low, minorder, s[k - 1], k)]
<1>1. m \in S
  OBVIOUS
<1>2. \A i \in 1 .. Order - 1, r \in S : PrunedRound(low, minorder, r, i) \in S
  <2> SUFFICES ASSUME NEW i \in 1 .. Order - 1, NEW r \in S
               PROVE  PrunedRound(low, minorder, r, i) \in S
    OBVIOUS
  <2>1. CASE Order - i < minorder - 1
    BY <2>1 DEF PrunedRound
  <2>2. CASE ~(Order - i < minorder - 1)
    <3>1. Order - i \in 1 .. Order - 1
      BY <2>2, OrderAssumption
    <3>2. r \in Models /\ Writable(r)
      OBVIOUS
    <3>3. PrunedLevel(r, Order - i, low) \in Models /\ Writable(PrunedLevel(r, Order - i, low))
      BY <3>1, <3>2, PrunedLevelModel
    <3> QED
      BY <2>2, <3>3 DEF PrunedRound
  <2> QED
    BY <2>1, <2>2
<1>3. F \in [1 .. Order - 1 -> [S -> S]]
  <2> HIDE DEF S
  <2> QED
    BY <1>2
<1>n. Order - 1 \in Nat
  BY OrderAssumption
<1>4. PICK s : Steps(s, Order - 1, m, F, S)
  <2> HIDE DEF S, F
  <2> QED
    BY <1>1, <1>3, <1>n, StepsExist
<1>a. s \in [0 .. Order - 1 -> S] /\ s[0] = m /\ \A i \in 1 .. Order - 1 : s[i] = F[i][s[i - 1]]
  BY <1>4 DEF Steps
<1>5. s = [i \in 0 .. Order - 1 |-> IF i = 0 THEN m ELSE PrunedRound(low, minorder, s[i - 1], i)]
  <2>1. \A i \in 0 .. Order - 1 : i # 0 => i \in 1 .. Order - 1 /\ i - 1 \in 0 .. Order - 1
    BY <1>n
  <2> HIDE DEF S
  <2>2. \A i \in 0 .. Order - 1 : i # 0 => s[i] = PrunedRound(low, minorder, s[i - 1], i)
    BY <1>a, <2>1
  <2> QED
    BY <1>a, <2>2
<1>6. level = [i \in 0 .. Order - 1 |-> IF i = 0 THEN m ELSE PrunedRound(low, minorder, level[i - 1], i)]
  <2> HIDE DEF S, F
  <2> QED
    BY <1>5
<1>7. Pruned(m, low, minorder) = Recomputed(level[Order - 1], NoMinimum)
  BY DEF Pruned, PrunedRound
<1> HIDE DEF level
<1>8. level[0] \in S
  <2>1. 0 \in 0 .. Order - 1
    BY <1>n
  <2> QED
    BY <1>1, <1>6, <2>1
<1>9. \A i \in 1 .. Order - 1 : level[i - 1] \in S => level[i] \in S
  <2>1. \A i \in 1 .. Order - 1 : i \in 0 .. Order - 1 /\ i # 0
    OBVIOUS
  <2> HIDE DEF S
  <2> QED
    BY <1>2, <1>6, <2>1
<1>10. \A i \in 0 .. Order - 1 : level[i] \in S
  <2> HIDE DEF S
  <2> QED
    BY <1>8, <1>9, <1>n, StepsStay
<1>11. level[Order - 1] \in Models /\ Writable(level[Order - 1])
  BY <1>n, <1>10
<1> HIDE DEF S
<1> QED
  BY <1>7, <1>11, Constants, RecomputedWritable

\* pruneLowProbs on one length.
LEMMA LowPrunedLevelModel ==
    ASSUME NEW m \in Models, NEW i \in 1 .. Order - 1
    PROVE  LowPrunedLevel(m, i) \in Models
<1> DEFINE gone == {g \in NgramsOf(m, i + 1) :
                      Less(m.prob[g], Times(m.bow[Tail(g)], WordProbBO(m, g[1], Tail(g), i - 1)))}
           r == Without(m, gone, Emptied(m, i, gone))
<1>1. LowPrunedLevel(m, i) = r
  BY DEF LowPrunedLevel
<1>2. Emptied(m, i, gone) \in SUBSET Emptied(m, i, gone)
  OBVIOUS
<1> HIDE DEF gone
<1>3. r \in Models
  BY <1>2, EmptiedModel
<1> QED
  BY <1>1, <1>3

\* What pruneLowProbs does in round i of a pass.
LowPrunedRound(m, minorder, part, i) ==
    IF i < minorder - 1 THEN m ELSE LowPrunedLevel(part, i)

\* One pass over all lengths.
LEMMA LowPrunedPassModel ==
    ASSUME NEW m \in Models, NEW minorder \in Nat \ {0, 1}
    PROVE  LowPrunedPass(m, minorder) \in [pruned : BOOLEAN, model : Models]
<1> DEFINE S == Models
           F == [i \in 1 .. Order - 1 |-> [r \in S |-> LowPrunedRound(m, minorder, r, i)]]
           level == CHOOSE s : s = [i \in 0 .. Order - 1 |-> LowPrunedRound(m, minorder, s[i - 1], i)]
<1>1. m \in S
  OBVIOUS
<1>2. \A i \in 1 .. Order - 1, r \in S : LowPrunedRound(m, minorder, r, i) \in S
  BY LowPrunedLevelModel DEF LowPrunedRound
<1>3. F \in [1 .. Order - 1 -> [S -> S]]
  <2> HIDE DEF S
  <2> QED
    BY <1>2
<1>n. Order - 1 \in Nat
  BY OrderAssumption
<1>4. PICK s : Steps(s, Order - 1, m, F, S)
  <2> HIDE DEF S, F
  <2> QED
    BY <1>1, <1>3, <1>n, StepsExist
<1>a. s \in [0 .. Order - 1 -> S] /\ s[0] = m /\ \A i \in 1 .. Order - 1 : s[i] = F[i][s[i - 1]]
  BY <1>4 DEF Steps
<1>5. s = [i \in 0 .. Order - 1 |-> LowPrunedRound(m, minorder, s[i - 1], i)]
  <2>1. \A i \in 0 .. Order - 1 : i # 0 => i \in 1 .. Order - 1 /\ i - 1 \in 0 .. Order - 1
    BY <1>n
  <2>2. \A i \in 0 .. Order - 1 : i # 0 => s[i] = LowPrunedRound(m, minorder, s[i - 1], i)
    BY <1>a, <2>1
  <2>3. \A r : LowPrunedRound(m, minorder, r, 0) = m
    BY DEF LowPrunedRound
  <2>4. \A i \in 0 .. Order - 1 : s[i] = LowPrunedRound(m, minorder, s[i - 1], i)
    BY <1>a, <2>2, <2>3
  <2> QED
    BY <1>a, <2>4
<1>6. level = [i \in 0 .. Order - 1 |-> LowPrunedRound(m, minorder, level[i - 1], i)]
  <2> HIDE DEF S, F
  <2> QED
    BY <1>5
<1>7. LowPrunedPass(m, minorder) =
        [pruned |-> Cardinality(DOMAIN m.prob) # Cardinality(DOMAIN level[Order - 1].prob),
         model  |-> Recomputed(level[Order - 1], NoMinimum)]
  BY DEF LowPrunedPass, LowPrunedRound
<1> HIDE DEF level
<1>8. level[0] \in S
  <2>1. 0 \in 0 .. Order - 1
    BY <1>n
  <2>2. \A r : LowPrunedRound(m, minorder, r, 0) = m
    BY DEF LowPrunedRound
  <2> QED
    BY <1>1, <1>6, <2>1, <2>2
<1>9. \A i \in 1 .. Order - 1 : level[i - 1] \in S => level[i] \in S
  <2>1. \A i \in 1 .. Order - 1 : i \in 0 .. Order - 1
    OBVIOUS
  <2> QED
    BY <1>2, <1>6, <2>1
<1>10. \A i \in 0 .. Order - 1 : level[i] \in S
  <2> HIDE DEF S
  <2> QED
    BY <1>8, <1>9, <1>n, StepsStay
<1>11. level[Order - 1] \in Models
  BY <1>n, <1>10
<1>12. Recomputed(level[Order - 1], NoMinimum) \in Models
  BY <1>11, Constants, RecomputedModel
<1> QED
  BY <1>7, <1>12

\* There are finitely many N-grams.
LEMMA GramsFinite == \A E \in SUBSET Grams : IsFiniteSet(E)
<1> DEFINE L(n) == {c \in Seq(Words) : Len(c) \in 0 .. n}
           T == {n \in 0 .. Order : IsFiniteSet(L(n))}
<1>n. Order \in Nat
  BY OrderAssumption
<1>1. 0 \in T
  <2>1. L(0) \subseteq {<<>>}
    OBVIOUS
  <2>2. IsFiniteSet({<<>>})
    BY FS_Singleton
  <2>3. IsFiniteSet(L(0))
    <3> HIDE DEF L
    <3> QED
      BY <2>1, <2>2, FS_Subset
  <2>4. 0 \in 0 .. Order
    BY <1>n
  <2> HIDE DEF L
  <2> QED
    BY <2>3, <2>4
<1>2. ASSUME NEW n \in 0 .. Order - 1, n \in T
      PROVE  n + 1 \in T
  <2> DEFINE Ext(w) == {<<w>> \o c : c \in L(n)}
             All == {Ext(w) : w \in Words}
  <2>1. ASSUME NEW w \in Words
        PROVE  IsFiniteSet(Ext(w))
    <3> DEFINE f == [c \in L(n) |-> <<w>> \o c]
    <3>1. f \in Surjection(L(n), Ext(w))
      <4> HIDE DEF L
      <4> QED
        BY DEF Surjection
    <3>2. IsFiniteSet(L(n))
      BY <1>2
    <3> HIDE DEF f, Ext, L
    <3> QED
      BY <3>1, <3>2, FS_Surjection
  <2>2. IsFiniteSet(All)
    <3> DEFINE f == [w \in Words |-> Ext(w)]
    <3> HIDE DEF Ext
    <3>1. f \in Surjection(Words, All)
      BY DEF Surjection
    <3> HIDE DEF f, All
    <3> QED
      BY <3>1, WordsAssumption, FS_Surjection
  <2>3. IsFiniteSet(UNION All)
    <3>1. \A X \in All : IsFiniteSet(X)
      <4> HIDE DEF Ext
      <4> QED
        BY <2>1
    <3> HIDE DEF All
    <3> QED
      BY <2>2, <3>1, FS_UNION
  <2>4. L(n + 1) \subseteq (UNION All) \cup {<<>>}
    <3> SUFFICES ASSUME NEW g \in L(n + 1), g # <<>> PROVE g \in UNION All
      OBVIOUS
    <3>1. g \in Seq(Words) /\ Len(g) # 0 /\ Len(g) \in 0 .. n + 1
      OBVIOUS
    <3>2. g[1] \in Words /\ Tail(g) \in Seq(Words) /\ Len(Tail(g)) = Len(g) - 1 /\ g = <<g[1]>> \o Tail(g)
      BY <3>1, TailFacts
    <3>3. Tail(g) \in L(n)
      BY <3>1, <3>2
    <3>4. g \in Ext(g[1])
      <4> HIDE DEF L
      <4> QED
        BY <3>2, <3>3
    <3> HIDE DEF Ext
    <3> QED
      BY <3>2, <3>4
  <2>5. IsFiniteSet((UNION All) \cup {<<>>})
    <3> HIDE DEF All
    <3> QED
      BY <2>3, FS_Singleton, FS_Union
  <2>6. IsFiniteSet(L(n + 1))
    <3> HIDE DEF All, L
    <3> QED
      BY <2>4, <2>5, FS_Subset
  <2>7. n + 1 \in 0 .. Order
    BY <1>n
  <2> QED
    BY <2>6, <2>7
<1>3. IsFiniteSet(L(Order))
  <2>1. T \in SUBSET Nat
    OBVIOUS
  <2>2. \A n \in 0 .. Order - 1 : n \in T => n + 1 \in T
    BY <1>2
  <2>3. Order \in T
    <3> HIDE DEF T
    <3>1. 0 .. Order \subseteq T
      BY <1>1, <1>n, <2>1, <2>2, UpTo
    <3> QED
      BY <1>n, <3>1
  <2> QED
    BY <2>3
<1>4. Grams \subseteq L(Order)
  BY DEF Grams
<1> HIDE DEF L
<1> QED
  BY <1>3, <1>4, FS_Subset

\* What pruneLowProbs does in round k.
LowPrunedAgain(minorder, before) ==
    IF before.pruned THEN LowPrunedPass(before.model, minorder) ELSE before

\* pruneLowProbs, repeated until a pass prunes nothing.
LEMMA LowPrunedModel ==
    ASSUME NEW m \in Models, NEW minorder \in Nat \ {0, 1}
    PROVE  LowPruned(m, minorder) \in Models /\ Writable(LowPruned(m, minorder))
<1> DEFINE N == Cardinality(DOMAIN m.prob)
           S == [pruned : BOOLEAN, model : Models]
           first == LowPrunedPass(m, minorder)
           F == [i \in 1 .. N |-> [r \in S |-> LowPrunedAgain(minorder, r)]]
           level == CHOOSE s : s = [k \in 0 .. N |->
                                      IF k = 0 THEN first ELSE LowPrunedAgain(minorder, s[k - 1])]
<1>7. LowPruned(m, minorder) = FixedUp(level[N].model)
  BY DEF LowPruned, LowPrunedAgain
<1>1. first \in S
  BY LowPrunedPassModel
<1>2. \A i \in 1 .. N, r \in S : LowPrunedAgain(minorder, r) \in S
  <2> SUFFICES ASSUME NEW r \in S PROVE LowPrunedAgain(minorder, r) \in S
    OBVIOUS
  <2>1. r.model \in Models
    OBVIOUS
  <2>2. LowPrunedPass(r.model, minorder) \in S
    BY <2>1, LowPrunedPassModel
  <2> QED
    BY <2>2 DEF LowPrunedAgain
<1>b. N \in Nat
  <2>1. DOMAIN m.prob \in SUBSET Grams
    BY ModelIs DEF Grams
  <2> QED
    BY <2>1, GramsFinite, FS_CardinalityType
<1> HIDE DEF N, first
<1>3. F \in [1 .. N -> [S -> S]]
  <2> HIDE DEF S
  <2> QED
    BY <1>2
<1>n. N \in Nat
  BY <1>b
<1>4. PICK s : Steps(s, N, first, F, S)
  <2> HIDE DEF S, F
  <2> QED
    BY <1>1, <1>3, <1>n, StepsExist
<1>a. s \in [0 .. N -> S] /\ s[0] = first /\ \A i \in 1 .. N : s[i] = F[i][s[i - 1]]
  BY <1>4 DEF Steps
<1>5. s = [i \in 0 .. N |-> IF i = 0 THEN first ELSE LowPrunedAgain(minorder, s[i - 1])]
  <2>1. \A i \in 0 .. N : i # 0 => i \in 1 .. N /\ i - 1 \in 0 .. N
    BY <1>n
  <2> HIDE DEF S
  <2>2. \A i \in 0 .. N : i # 0 => s[i] = LowPrunedAgain(minorder, s[i - 1])
    BY <1>a, <2>1
  <2> QED
    BY <1>a, <2>2
<1>6. level = [i \in 0 .. N |-> IF i = 0 THEN first ELSE LowPrunedAgain(minorder, level[i - 1])]
  <2> HIDE DEF S, F
  <2> QED
    BY <1>5
<1> HIDE DEF level
<1>8. level[0] \in S
  <2>1. 0 \in 0 .. N
    BY <1>n
  <2> QED
    BY <1>1, <1>6, <2>1
<1>9. \A i \in 1 .. N : level[i - 1] \in S => level[i] \in S
  <2>1. \A i \in 1 .. N : i \in 0 .. N /\ i # 0
    OBVIOUS
  <2> HIDE DEF S
  <2> QED
    BY <1>2, <1>6, <2>1
<1>10. \A i \in 0 .. N : level[i] \in S
  <2> HIDE DEF S
  <2> QED
    BY <1>8, <1>9, <1>n, StepsStay
<1>11. level[N].model \in Models
  BY <1>n, <1>10
<1> QED
  BY <1>7, <1>11, FixedUpModel DEF N, first

-----------------------------------------------------------------------------
(* Rescoring. *)

\* rescoreProbs keeps a model a model.
LEMMA RescoredModel ==
    ASSUME NEW m \in Models, NEW m2 \in Models, Writable(m)
    PROVE  Rescored(m, m2) \in Models /\ Writable(Rescored(m, m2))
<1> DEFINE p == [g \in DOMAIN m.prob |-> WordProb(m2, g[1], Tail(g))]
           r == [prob |-> p, bow |-> m.bow]
<1>1. p \in [DOMAIN m.prob -> Amounts]
  <2> SUFFICES ASSUME NEW g \in DOMAIN m.prob PROVE WordProb(m2, g[1], Tail(g)) \in Amounts
    OBVIOUS
  <2>1. g \in Seq(Words) /\ Len(g) # 0
    BY ModelIs
  <2>2. g[1] \in Words /\ Tail(g) \in Seq(Words)
    BY <2>1, TailFacts
  <2>3. Order - 1 \in Nat
    BY OrderAssumption
  <2> QED
    BY <2>2, <2>3, WordProbType DEF WordProb
<1>2. DOMAIN m.prob \in SUBSET Grams
  BY ModelIs DEF Grams
<1>3. Rescored(m, m2) = Recomputed(r, NoMinimum)
  <2>1. [m EXCEPT !.prob = p] = r
    BY ModelIs
  <2>2. Rescored(m, m2) = Recomputed([m EXCEPT !.prob = p], NoMinimum)
    BY DEF Rescored
  <2> HIDE DEF p, r
  <2> QED
    BY <2>1, <2>2
<1>4. DOMAIN p = DOMAIN m.prob /\ r.prob = p /\ r.bow = m.bow
  OBVIOUS
<1> HIDE DEF p
<1>5. p \in Tables(Grams)
  BY <1>1, <1>2, IsTable
<1>6. r \in Models
  <2>1. Linked(r)
    BY <1>4, ModelIs DEF Linked
  <2> QED
    BY <1>5, <2>1, ModelIs, IsModel
<1>7. Writable(r)
  BY <1>4 DEF Writable
<1> HIDE DEF r
<1>8. Recomputed(r, NoMinimum) \in Models /\ Writable(Recomputed(r, NoMinimum))
  BY <1>6, <1>7, Constants, RecomputedWritable
<1> QED
  BY <1>3, <1>8

-----------------------------------------------------------------------------
(* What an answer depends on. *)

\* The walk down a trie ends at one depth only.
LEMMA DepthUnique ==
    ASSUME NEW m, NEW c, NEW n \in Nat, NEW d, NEW e, DepthIs(d, m, c, n), DepthIs(e, m, c, n)
    PROVE  d = e
<1>1. /\ d \in 0 .. n /\ e \in 0 .. n
      /\ \A k \in 0 .. n : (First(c, k) \in DOMAIN m.bow) <=> k <= d
      /\ \A k \in 0 .. n : (First(c, k) \in DOMAIN m.bow) <=> k <= e
  BY DEF DepthIs
<1>2. d <= e
  BY <1>1
<1>3. e <= d
  BY <1>1
<1> QED
  BY <1>1, <1>2, <1>3

\* There is one deepest depth only.
LEMMA BestUnique ==
    ASSUME NEW F \in SUBSET Nat, NEW a, NEW b, IsBest(a, F), IsBest(b, F)
    PROVE  a = b
<1>1. /\ a \in F \cup {0} /\ \A j \in F : j <= a
      /\ b \in F \cup {0} /\ \A j \in F : j <= b
  BY DEF IsBest
<1>2. a \in Nat /\ b \in Nat
  BY <1>1
<1>3. a <= b
  BY <1>1, <1>2
<1>4. b <= a
  BY <1>1, <1>2
<1> QED
  BY <1>2, <1>3, <1>4

\* In m along c, and in r along e, the walks to depth d find the same for w.
SameWalk(m, c, r, e, w, d) ==
    /\ \A k \in 0 .. d : (<<w>> \o First(c, k) \in DOMAIN m.prob) <=> (<<w>> \o First(e, k) \in DOMAIN r.prob)
    /\ \A k \in 0 .. d : <<w>> \o First(c, k) \in DOMAIN m.prob =>
                           m.prob[<<w>> \o First(c, k)] = r.prob[<<w>> \o First(e, k)]
    /\ \A k \in 1 .. d : m.bow[First(c, k)] = r.bow[First(e, k)]

\* Two models, or two histories, that look alike along the walk give the
\* same answer.
LEMMA SameAnswers ==
    ASSUME NEW m \in Models, NEW r \in Models, NEW w \in Words,
           NEW c \in Seq(Words), NEW e \in Seq(Words), NEW n \in Nat, NEW l \in Nat, NEW d \in Nat,
           DepthIs(d, m, c, Shortest(n, Len(c))), DepthIs(d, r, e, Shortest(l, Len(e))),
           SameWalk(m, c, r, e, w, d)
    PROVE  WordProbBO(m, w, c, n) = WordProbBO(r, w, e, l)
<1>1. PICK d1 \in Nat, b1 \in Nat :
         /\ DepthIs(d1, m, c, Shortest(n, Len(c)))
         /\ IsBest(b1, Found(m, w, c, d1))
         /\ WordProbBO(m, w, c, n) = Answer(m, w, c, d1, b1)
  BY WordProbIs
<1>2. PICK d2 \in Nat, b2 \in Nat :
         /\ DepthIs(d2, r, e, Shortest(l, Len(e)))
         /\ IsBest(b2, Found(r, w, e, d2))
         /\ WordProbBO(r, w, e, l) = Answer(r, w, e, d2, b2)
  BY WordProbIs
<1>3. Shortest(n, Len(c)) \in Nat /\ Shortest(l, Len(e)) \in Nat
  <2>1. Len(c) \in Nat /\ Len(e) \in Nat
    OBVIOUS
  <2> QED
    BY <2>1 DEF Shortest
<1>4. d1 = d /\ d2 = d
  BY <1>1, <1>2, <1>3, DepthUnique
<1>5. Found(m, w, c, d) = Found(r, w, e, d) /\ Found(m, w, c, d) \in SUBSET Nat
  BY DEF Found, SameWalk
<1>6. b1 = b2
  BY <1>1, <1>2, <1>4, <1>5, BestUnique
<1> DEFINE b == b1
           f == [j \in b + 1 .. d |-> m.bow[First(c, j)]]
           h == [j \in b + 1 .. d |-> r.bow[First(e, j)]]
<1>7. f = h
  <2>1. \A j \in b + 1 .. d : j \in 1 .. d
    OBVIOUS
  <2> QED
    BY <2>1 DEF SameWalk
<1>8. (IF Found(m, w, c, d) = {} THEN Zero ELSE m.prob[<<w>> \o First(c, b)])
        = (IF Found(r, w, e, d) = {} THEN Zero ELSE r.prob[<<w>> \o First(e, b)])
  <2>1. CASE Found(m, w, c, d) = {}
    BY <1>5, <2>1
  <2>2. CASE Found(m, w, c, d) # {}
    <3>1. b \in Found(m, w, c, d)
      BY <1>1, <1>4, <1>5, <2>2 DEF IsBest
    <3>2. b \in 0 .. d /\ <<w>> \o First(c, b) \in DOMAIN m.prob
      BY <3>1 DEF Found
    <3>3. m.prob[<<w>> \o First(c, b)] = r.prob[<<w>> \o First(e, b)]
      BY <3>2 DEF SameWalk
    <3> QED
      BY <1>5, <3>3
  <2> QED
    BY <2>1, <2>2
<1>9. Answer(m, w, c, d, b) = Answer(r, w, e, d, b)
  <2>1. Answer(m, w, c, d, b) =
          Times(IF Found(m, w, c, d) = {} THEN Zero ELSE m.prob[<<w>> \o First(c, b)], ProductOfAll(f))
    BY DEF Answer
  <2>2. Answer(r, w, e, d, b) =
          Times(IF Found(r, w, e, d) = {} THEN Zero ELSE r.prob[<<w>> \o First(e, b)], ProductOfAll(h))
    BY DEF Answer
  <2> HIDE DEF f, h
  <2> QED
    BY <1>7, <1>8, <2>1, <2>2
<1> QED
  BY <1>1, <1>2, <1>4, <1>6, <1>9

\* The deepest depth is one of the depths.
LEMMA BestIs ==
    ASSUME NEW d \in Nat, NEW F \in SUBSET (0 .. d), NEW b, IsBest(b, F)
    PROVE  b \in 0 .. d /\ (F # {} => b \in F)
<1>1. b \in F \cup {0} /\ \A j \in F : j <= b
  BY DEF IsBest
<1>2. ASSUME F # {} PROVE b \in F
  <2>1. PICK j \in F : TRUE
    BY <1>2
  <2>2. j \in Nat /\ j <= b
    BY <1>1, <2>1
  <2> QED
    BY <1>1, <2>1, <2>2
<1> QED
  BY <1>1, <1>2

-----------------------------------------------------------------------------
(* contextID. *)

\* The histories asked about.
LEMMA HistoriesAre == Histories \subseteq Seq(Words)
<1> SUFFICES ASSUME NEW c \in Histories PROVE c \in Seq(Words)
  OBVIOUS
<1>1. PICK n \in 0 .. Order - 1 : c \in [1 .. n -> Words \ {SentEnd}]
  BY DEF Histories
<1>2. c \in [1 .. n -> Words] /\ n \in Nat
  BY <1>1, OrderAssumption
<1> QED
  BY <1>2

\* The length contextID reports is where the walk down the trie ends.
LEMMA ContextLengthIs ==
    ASSUME NEW m \in Models, NEW c \in Seq(Words)
    PROVE  /\ ContextLength(m, c) \in 0 .. Len(c) /\ ContextLength(m, c) <= Order - 1
           /\ DepthIs(ContextLength(m, c), m, c, Shortest(Order - 1, Len(c)))
           /\ \A k \in 0 .. ContextLength(m, c) : First(c, k) \in DOMAIN m.bow
<1> DEFINE N == Shortest(Order - 1, Len(c))
           n == ContextLength(m, c)
<1>1. N \in 0 .. Len(c) /\ N <= Order - 1
  <2>1. Order - 1 \in Nat /\ Len(c) \in Nat
    BY OrderAssumption
  <2>2. N \in 0 .. Order - 1 /\ N \in 0 .. Len(c)
    BY <2>1, ShortestIs
  <2> QED
    BY <2>1, <2>2
<1>2. n = DepthOf(m, c, N)
  BY DEF ContextLength
<1> HIDE DEF N, n
<1>3. DepthIs(n, m, c, N)
  BY <1>1, <1>2, DepthExists
<1>4. n \in 0 .. N
  BY <1>3 DEF DepthIs
<1>5. n \in 0 .. Len(c) /\ n <= Order - 1
  BY <1>1, <1>4, OrderAssumption
<1>6. \A k \in 0 .. n : First(c, k) \in DOMAIN m.bow
  BY <1>1, <1>3, <1>4 DEF DepthIs
<1> QED
  BY <1>3, <1>5, <1>6 DEF N, n

\* The walk along a beginning of c that is a context gets to its end.
LEMMA WholeWalk ==
    ASSUME NEW m \in Models, NEW c \in Seq(Words), NEW k \in 0 .. ContextLength(m, c)
    PROVE  DepthIs(k, m, First(c, k), Shortest(Order - 1, Len(First(c, k))))
<1> DEFINE n == ContextLength(m, c)
           e == First(c, k)
<1>1. n \in 0 .. Len(c) /\ n <= Order - 1 /\ \A j \in 0 .. n : First(c, j) \in DOMAIN m.bow
  BY ContextLengthIs
<1>2. k \in 0 .. Len(c) /\ k <= Order - 1 /\ k \in Nat
  BY <1>1, OrderAssumption
<1>3. Len(e) = k /\ \A j \in 0 .. k : First(e, j) = First(c, j)
  BY <1>2, FirstFacts
<1>4. Shortest(Order - 1, Len(e)) = k
  <2>1. Order - 1 \in Nat
    BY OrderAssumption
  <2> HIDE DEF e
  <2> QED
    BY <1>2, <1>3, <2>1, ShortestIs
<1>5. \A j \in 0 .. k : First(e, j) \in DOMAIN m.bow /\ j <= k
  BY <1>1, <1>2, <1>3
<1> HIDE DEF e
<1>6. DepthIs(k, m, e, k)
  BY <1>2, <1>5 DEF DepthIs
<1> QED
  BY <1>4, <1>6 DEF e

\* contextID without a word: the context alone gives every probability.
LEMMA ContextSuffices ==
    ASSUME NEW m \in Models, NEW c \in Seq(Words), NEW w \in Words
    PROVE  WordProb(m, w, c) = WordProb(m, w, First(c, ContextLength(m, c)))
<1> DEFINE n == ContextLength(m, c)
           e == First(c, n)
<1>1. n \in 0 .. Len(c) /\ DepthIs(n, m, c, Shortest(Order - 1, Len(c)))
  BY ContextLengthIs
<1>2. n \in Nat /\ Order - 1 \in Nat
  BY <1>1, OrderAssumption
<1>3. DepthIs(n, m, e, Shortest(Order - 1, Len(e)))
  <2>1. n \in 0 .. n
    BY <1>2
  <2> QED
    BY <2>1, WholeWalk
<1>4. e \in Seq(Words) /\ \A j \in 0 .. n : First(e, j) = First(c, j)
  BY <1>1, FirstFacts
<1>5. SameWalk(m, c, m, e, w, n)
  <2>1. \A j \in 1 .. n : j \in 0 .. n
    BY <1>2
  <2> HIDE DEF n, e
  <2> QED
    BY <1>4, <2>1 DEF SameWalk
<1> HIDE DEF n, e
<1>6. WordProbBO(m, w, c, Order - 1) = WordProbBO(m, w, e, Order - 1)
  BY <1>1, <1>2, <1>3, <1>4, <1>5, SameAnswers
<1> QED
  BY <1>6 DEF WordProb, n, e

\* The depths at which w has a probability, but for the root.
Longer(m, w, c) == {j \in 1 .. ContextLength(m, c) : <<w>> \o First(c, j) \in DOMAIN m.prob}

\* The length it reports for a word is the deepest that holds a
\* probability for it.
LEMMA ContextLengthOfIs ==
    ASSUME NEW m \in Models, NEW c \in Seq(Words), NEW w \in Words
    PROVE  /\ ContextLengthOf(m, w, c) \in 0 .. ContextLength(m, c)
           /\ IsBest(ContextLengthOf(m, w, c), Found(m, w, c, ContextLength(m, c)))
<1> DEFINE n == ContextLength(m, c)
           F == Longer(m, w, c)
           Q(k) == IF F = {} THEN k = 0 ELSE k \in F /\ \A j \in F : j <= k
           k0 == ContextLengthOf(m, w, c)
<1>1. n \in Nat
  <2>1. n \in 0 .. Len(c)
    BY ContextLengthIs
  <2> QED
    BY <2>1
<1>2. F \in SUBSET (0 .. n)
  BY DEF Longer
<1>3. k0 = CHOOSE k \in 0 .. n : Q(k)
  BY DEF ContextLengthOf, Longer
<1> HIDE DEF F, n
<1>4. \E k \in 0 .. n : Q(k)
  <2>1. PICK b \in F \cup {0} : \A j \in F : j <= b
    BY <1>1, <1>2, BestExists
  <2>2. IsBest(b, F)
    BY <2>1 DEF IsBest
  <2>3. b \in 0 .. n /\ (F # {} => b \in F)
    BY <1>1, <1>2, <2>2, BestIs
  <2> QED
    BY <2>1, <2>3
<1>5. k0 \in 0 .. n /\ Q(k0)
  <2> HIDE DEF Q, k0
  <2> QED
    BY <1>3, <1>4
<1> HIDE DEF k0
<1>6. \A j \in Found(m, w, c, n) : j \in F \/ j = 0
  <2> SUFFICES ASSUME NEW j \in Found(m, w, c, n), j # 0 PROVE j \in F
    OBVIOUS
  <2>1. j \in 1 .. n /\ <<w>> \o First(c, j) \in DOMAIN m.prob
    BY <1>1 DEF Found
  <2> QED
    BY <2>1 DEF Longer, F, n
<1>7. F \subseteq Found(m, w, c, n)
  BY <1>1 DEF Longer, Found, F, n
<1>8. IsBest(k0, Found(m, w, c, n))
  BY <1>1, <1>5, <1>6, <1>7 DEF IsBest
<1> QED
  BY <1>5, <1>8 DEF n, k0

\* contextID with a word, and contextBOW.
LEMMA ContextOfWordSuffices ==
    ASSUME NEW m \in Models, NEW c \in Seq(Words), NEW w \in Words
    PROVE  WordProb(m, w, c) = Times(WordProb(m, w, First(c, ContextLengthOf(m, w, c))),
                                     ContextBOW(m, c, ContextLengthOf(m, w, c)))
<1> DEFINE n == ContextLength(m, c)
           k == ContextLengthOf(m, w, c)
           e == First(c, k)
           F == Found(m, w, c, n)
           p == IF F = {} THEN Zero ELSE m.prob[<<w>> \o First(c, k)]
<1>1. n \in 0 .. Len(c) /\ DepthIs(n, m, c, Shortest(Order - 1, Len(c)))
  BY ContextLengthIs
<1>2. k \in 0 .. n /\ IsBest(k, F)
  BY ContextLengthOfIs
<1>3. n \in Nat /\ k \in Nat /\ Order - 1 \in Nat /\ k \in 0 .. Len(c)
  BY <1>1, <1>2, OrderAssumption
<1>4. F \in SUBSET (0 .. n)
  BY DEF Found
<1>5. F # {} => k \in F
  <2> HIDE DEF F, k, n
  <2> QED
    BY <1>2, <1>3, <1>4, BestIs
<1>6. p \in Amounts
  <2>1. F # {} => <<w>> \o First(c, k) \in DOMAIN m.prob
    BY <1>5 DEF Found
  <2> HIDE DEF F, k
  <2> QED
    BY <2>1, Constants, ModelIs
<1>7. WordProb(m, w, c) = Times(p, ContextBOW(m, c, k))
  <2>1. PICK d1 \in Nat, b1 \in Nat :
           /\ DepthIs(d1, m, c, Shortest(Order - 1, Len(c)))
           /\ IsBest(b1, Found(m, w, c, d1))
           /\ WordProbBO(m, w, c, Order - 1) = Answer(m, w, c, d1, b1)
    BY <1>3, WordProbIs
  <2>2. Shortest(Order - 1, Len(c)) \in Nat
    <3>1. Len(c) \in Nat
      OBVIOUS
    <3> QED
      BY <1>3, <3>1 DEF Shortest
  <2>3. d1 = n
    <3> HIDE DEF n
    <3> QED
      BY <1>1, <2>1, <2>2, DepthUnique
  <2>4. b1 = k
    <3>1. F \in SUBSET Nat /\ IsBest(b1, F)
      BY <1>4, <2>1, <2>3
    <3> HIDE DEF F, k
    <3> QED
      BY <1>2, <3>1, BestUnique
  <2>5. WordProbBO(m, w, c, Order - 1) = Answer(m, w, c, n, k)
    BY <2>1, <2>3, <2>4
  <2>6. Answer(m, w, c, n, k) = Times(p, ContextBOW(m, c, k))
    BY DEF Answer, ContextBOW
  <2> QED
    BY <2>5, <2>6 DEF WordProb
<1>8. WordProb(m, w, e) = p
  <2>1. PICK d2 \in Nat, b2 \in Nat :
           /\ DepthIs(d2, m, e, Shortest(Order - 1, Len(e)))
           /\ IsBest(b2, Found(m, w, e, d2))
           /\ WordProbBO(m, w, e, Order - 1) = Answer(m, w, e, d2, b2)
    <3>1. e \in Seq(Words)
      BY <1>3, FirstFacts
    <3> HIDE DEF e
    <3> QED
      BY <1>3, <3>1, WordProbIs
  <2>2. DepthIs(k, m, e, Shortest(Order - 1, Len(e)))
    BY <1>2, WholeWalk
  <2>3. Len(e) = k /\ \A j \in 0 .. k : First(e, j) = First(c, j)
    BY <1>3, FirstFacts
  <2>4. Shortest(Order - 1, Len(e)) \in Nat
    <3> HIDE DEF e
    <3> QED
      BY <1>3, <2>3 DEF Shortest
  <2>5. d2 = k
    <3> HIDE DEF k, e
    <3> QED
      BY <2>1, <2>2, <2>4, DepthUnique
  <2>6. Found(m, w, e, k) = F
    <3>1. \A j \in F : j \in 0 .. k
      <4> HIDE DEF F, k, n
      <4> QED
        BY <1>2, <1>3, <1>4 DEF IsBest
    <3>2. \A j \in 0 .. k : j \in 0 .. n
      BY <1>2, <1>3
    <3>3. \A j \in 0 .. k : (j \in Found(m, w, e, k)) <=> (j \in F)
      <4> HIDE DEF e, k, n
      <4> QED
        BY <2>3, <3>2 DEF Found
    <3>4. Found(m, w, e, k) \subseteq 0 .. k
      BY DEF Found
    <3> QED
      BY <3>1, <3>3, <3>4
  <2>7. b2 = k
    <3>1. F \in SUBSET Nat /\ IsBest(b2, F)
      BY <1>4, <2>1, <2>5, <2>6
    <3> HIDE DEF F, k
    <3> QED
      BY <1>2, <3>1, BestUnique
  <2>8. WordProbBO(m, w, e, Order - 1) = Answer(m, w, e, k, k)
    BY <2>1, <2>5, <2>7
  <2> DEFINE f == [j \in k + 1 .. k |-> m.bow[First(e, j)]]
             q == IF Found(m, w, e, k) = {} THEN Zero ELSE m.prob[<<w>> \o First(e, k)]
  <2>9. Answer(m, w, e, k, k) = Times(q, ProductOfAll(f))
    BY DEF Answer
  <2>10. q = p
    <3>1. First(e, k) = First(c, k)
      BY <1>3, <2>3
    <3> HIDE DEF e, F
    <3> QED
      BY <2>6, <3>1
  <2>11. ProductOfAll(f) = One
    <3>1. k + 1 .. k = {}
      BY <1>3
    <3>2. f \in [k + 1 .. k -> Amounts]
      <4> HIDE DEF k, e
      <4> QED
        BY <3>1
    <3>3. IsFiniteSet(k + 1 .. k)
      <4> HIDE DEF k
      <4> QED
        BY <3>1, FS_EmptySet
    <3> HIDE DEF f, k
    <3> QED
      BY <3>1, <3>2, <3>3, ProductType
  <2> HIDE DEF f, q, p, e
  <2>12. WordProbBO(m, w, e, Order - 1) = Times(p, One)
    BY <2>8, <2>9, <2>10, <2>11
  <2> QED
    BY <1>6, <2>12, Constants, TimesOne DEF WordProb
<1> HIDE DEF p, F
<1> QED
  BY <1>7, <1>8

-----------------------------------------------------------------------------
(* Writing and reading. *)

\* What a file says that is written of m with order n.
IsFileOf(file, m, n) ==
    /\ DOMAIN file = {g \in DOMAIN m.prob : Len(g) <= n}
    /\ \A g \in DOMAIN file :
          /\ file[g].prob = m.prob[g]
          /\ file[g].bow = IF Len(g) < n /\ g \in DOMAIN m.bow THEN {m.bow[g]} ELSE {}

\* What a file that write produces holds.
LEMMA WrittenIs ==
    ASSUME NEW m, NEW n
    PROVE  IsFileOf(Written(m, n), m, n)
BY DEF Written, IsFileOf

\* The N-grams of length i that are written with a weight, and the model
\* with nodes for them.
WithNode(m, n, i)    == {g \in DOMAIN m.prob : Len(g) = i /\ i < n /\ g \in DOMAIN m.bow}
NodesMade(m, n, part, i) == InsertBOWs(part, WithNode(m, n, i))

\* What read does in round i, of the file that was written of m.
ReadRound(m, n, part, i) ==
    LET made  == NodesMade(m, n, part, i)
        kept  == {g \in DOMAIN m.prob : Len(g) = i /\ Tail(g) \in DOMAIN made.bow}
    IN  [prob |-> With(part.prob, [g \in kept |-> m.prob[g]]),
         bow  |-> With(made.bow, [g \in WithNode(m, n, i) |-> m.bow[g]])]

\* read takes one section of the file and makes the nodes it needs.
LEMMA ReadRoundIs ==
    ASSUME NEW m \in Models, NEW n \in 1 .. Order, NEW part \in Models, NEW i \in 1 .. n
    PROVE  LET r    == ReadRound(m, n, part, i)
               made == NodesMade(m, n, part, i)
               kept == {g \in DOMAIN m.prob : Len(g) = i /\ Tail(g) \in DOMAIN made.bow}
           IN  /\ r \in Models
               /\ made \in Models
               /\ DOMAIN made.bow = DOMAIN part.bow \cup UNION {Prefixes(c) : c \in WithNode(m, n, i)}
               /\ \A c \in DOMAIN part.bow : made.bow[c] = part.bow[c]
               /\ Overlaid(r.prob, part.prob, [g \in kept |-> m.prob[g]])
               /\ DOMAIN r.bow = DOMAIN made.bow
               /\ Overlaid(r.bow, made.bow, [g \in WithNode(m, n, i) |-> m.bow[g]])
<1> DEFINE N == WithNode(m, n, i)
           made == NodesMade(m, n, part, i)
           kept == {g \in DOMAIN m.prob : Len(g) = i /\ Tail(g) \in DOMAIN made.bow}
           pnew == [g \in kept |-> m.prob[g]]
           bnew == [g \in N |-> m.bow[g]]
           p == With(part.prob, pnew)
           b == With(made.bow, bnew)
           r == [prob |-> p, bow |-> b]
<1>1. N \in SUBSET Nodes /\ N \subseteq DOMAIN m.bow
  BY ModelIs DEF WithNode, Nodes
<1>2. /\ made \in Models
      /\ DOMAIN made.bow = DOMAIN part.bow \cup UNION {Prefixes(c) : c \in N}
      /\ \A c \in DOMAIN part.bow : made.bow[c] = part.bow[c]
      /\ N \subseteq DOMAIN made.bow
  <2> HIDE DEF N
  <2> QED
    BY <1>1, InsertBOWsModel DEF NodesMade, N
<1> HIDE DEF made, N
<1>3. p \in Tables(Grams) /\ Overlaid(p, part.prob, pnew)
  <2>1. pnew \in [kept -> Amounts] /\ kept \in SUBSET Grams
    BY ModelIs DEF Grams
  <2> HIDE DEF kept, pnew
  <2>2. pnew \in Tables(Grams)
    BY <2>1, IsTable
  <2>3. part.prob \in Tables(Grams)
    BY ModelIs
  <2> QED
    BY <2>2, <2>3, WithTable
<1>4. b \in Tables(Nodes) /\ Overlaid(b, made.bow, bnew)
  <2>1. bnew \in [N -> Amounts]
    BY <1>1, ModelIs
  <2> HIDE DEF bnew
  <2>2. bnew \in Tables(Nodes)
    BY <1>1, <2>1, IsTable
  <2>3. made.bow \in Tables(Nodes)
    BY <1>2, ModelIs
  <2> QED
    BY <2>2, <2>3, WithTable
<1>5. DOMAIN pnew = kept /\ DOMAIN bnew = N
  OBVIOUS
<1>6. r.prob = p /\ r.bow = b
  OBVIOUS
<1>7. \A g \in kept : Tail(g) \in DOMAIN made.bow
  OBVIOUS
<1>8. ReadRound(m, n, part, i) = r
  BY DEF ReadRound, made, N
<1> HIDE DEF p, b, pnew, bnew, kept
<1>9. DOMAIN b = DOMAIN made.bow
  BY <1>2, <1>4, <1>5 DEF Overlaid
<1>10. DOMAIN p = DOMAIN part.prob \cup kept
  BY <1>3, <1>5 DEF Overlaid
<1>11. Linked(r)
  <2>1. \A g \in DOMAIN p : Tail(g) \in DOMAIN b
    <3> SUFFICES ASSUME NEW g \in DOMAIN p PROVE Tail(g) \in DOMAIN b
      OBVIOUS
    <3>1. CASE g \in kept
      BY <1>7, <1>9, <3>1
    <3>2. CASE g \in DOMAIN part.prob
      <4>1. Tail(g) \in DOMAIN part.bow
        BY <3>2, ModelIs
      <4> QED
        BY <1>2, <1>9, <4>1
    <3> QED
      BY <1>10, <3>1, <3>2
  <2>2. <<>> \in DOMAIN b /\ \A c \in DOMAIN b : \A k \in 0 .. Len(c) : First(c, k) \in DOMAIN b
    BY <1>2, <1>9, ModelIs
  <2> QED
    BY <1>6, <2>1, <2>2 DEF Linked
<1>12. r \in Models
  BY <1>3, <1>4, <1>11, IsModel
<1> HIDE DEF r
<1>13. /\ Overlaid(r.prob, part.prob, pnew) /\ Overlaid(r.bow, made.bow, bnew)
       /\ DOMAIN r.bow = DOMAIN made.bow
  BY <1>3, <1>4, <1>6, <1>9
<1> QED
  BY <1>2, <1>8, <1>12, <1>13 DEF pnew, bnew, kept, made, N

\* The model r has what m has of N-grams up to length i, and of contexts up
\* to length i that are shorter than n.
ReadUpTo(r, m, n, i) ==
    /\ r \in Models
    /\ DOMAIN r.prob = {g \in DOMAIN m.prob : Len(g) <= i}
    /\ DOMAIN r.bow = {c \in DOMAIN m.bow : Len(c) <= i /\ Len(c) < n}
    /\ \A g \in DOMAIN r.prob : r.prob[g] = m.prob[g]
    /\ \A c \in DOMAIN r.bow \ {<<>>} : r.bow[c] = m.bow[c]

\* After a section, everything up to its length is as it was written.
LEMMA ReadRoundReads ==
    ASSUME NEW m \in Models, Writable(m), NEW n \in 1 .. Order, NEW i \in 1 .. n,
           NEW part, ReadUpTo(part, m, n, i - 1)
    PROVE  ReadUpTo(ReadRound(m, n, part, i), m, n, i)
<1> DEFINE N == WithNode(m, n, i)
           made == NodesMade(m, n, part, i)
           kept == {g \in DOMAIN m.prob : Len(g) = i /\ Tail(g) \in DOMAIN made.bow}
           pnew == [g \in kept |-> m.prob[g]]
           bnew == [g \in N |-> m.bow[g]]
           r == ReadRound(m, n, part, i)
<1>0. /\ part \in Models
      /\ DOMAIN part.prob = {g \in DOMAIN m.prob : Len(g) <= i - 1}
      /\ DOMAIN part.bow = {c \in DOMAIN m.bow : Len(c) <= i - 1 /\ Len(c) < n}
      /\ \A g \in DOMAIN part.prob : part.prob[g] = m.prob[g]
      /\ \A c \in DOMAIN part.bow \ {<<>>} : part.bow[c] = m.bow[c]
  BY DEF ReadUpTo
<1>1. /\ r \in Models
      /\ DOMAIN made.bow = DOMAIN part.bow \cup UNION {Prefixes(c) : c \in N}
      /\ \A c \in DOMAIN part.bow : made.bow[c] = part.bow[c]
      /\ Overlaid(r.prob, part.prob, pnew)
      /\ DOMAIN r.bow = DOMAIN made.bow
      /\ Overlaid(r.bow, made.bow, bnew)
  BY <1>0, ReadRoundIs
<1>2. DOMAIN pnew = kept /\ DOMAIN bnew = N
  OBVIOUS
<1>3. \A c \in N : c \in DOMAIN m.bow /\ Len(c) = i /\ i < n
  BY DEF WithNode
<1>4. \A c \in DOMAIN m.bow : Len(c) = i /\ i < n => c \in N
  <2> SUFFICES ASSUME NEW c \in DOMAIN m.bow, Len(c) = i, i < n PROVE c \in N
    OBVIOUS
  <2>1. c # <<>>
    OBVIOUS
  <2>2. c \in DOMAIN m.prob
    BY <2>1 DEF Writable
  <2> QED
    BY <2>2 DEF WithNode
<1> HIDE DEF N, made, r
<1>5. DOMAIN r.bow = {c \in DOMAIN m.bow : Len(c) <= i /\ Len(c) < n}
  <2>1. ASSUME NEW c \in DOMAIN r.bow
        PROVE  c \in DOMAIN m.bow /\ Len(c) <= i /\ Len(c) < n
    <3>1. CASE c \in DOMAIN part.bow
      <4>1. c \in DOMAIN m.bow /\ Len(c) <= i - 1 /\ Len(c) < n
        BY <1>0, <3>1
      <4>2. Len(c) \in Int
        BY <4>1, ModelIs
      <4> QED
        BY <4>1, <4>2
    <3>2. CASE c \notin DOMAIN part.bow
      <4>1. PICK d \in N : c \in Prefixes(d)
        BY <1>1, <2>1, <3>2
      <4>2. PICK k \in 0 .. Len(d) : c = First(d, k)
        BY <4>1 DEF Prefixes
      <4>3. d \in DOMAIN m.bow /\ Len(d) = i /\ i < n /\ d \in Seq(Words)
        BY <1>3, <4>1, ModelIs
      <4>4. c \in DOMAIN m.bow /\ Len(c) = k
        BY <4>2, <4>3, FirstFacts, ModelIs
      <4> QED
        BY <4>2, <4>3, <4>4
    <3> QED
      BY <3>1, <3>2
  <2>2. ASSUME NEW c \in DOMAIN m.bow, Len(c) <= i, Len(c) < n
        PROVE  c \in DOMAIN r.bow
    <3>1. Len(c) \in Int /\ c \in Seq(Words)
      BY ModelIs
    <3>2. CASE Len(c) <= i - 1
      BY <1>0, <1>1, <2>2, <3>2
    <3>3. CASE ~(Len(c) <= i - 1)
      <4>1. Len(c) = i /\ i < n
        BY <2>2, <3>1, <3>3
      <4>2. c \in N
        BY <1>4, <4>1
      <4>3. c \in DOMAIN bnew
        BY <1>2, <4>2
      <4> HIDE DEF bnew
      <4> QED
        BY <1>1, <4>3 DEF Overlaid
    <3> QED
      BY <3>2, <3>3
  <2> QED
    BY <2>1, <2>2
<1>6. \A c \in DOMAIN r.bow \ {<<>>} : r.bow[c] = m.bow[c]
  <2> SUFFICES ASSUME NEW c \in DOMAIN r.bow, c # <<>> PROVE r.bow[c] = m.bow[c]
    OBVIOUS
  <2>1. CASE c \in N
    <3>1. c \in DOMAIN bnew /\ bnew[c] = m.bow[c]
      BY <2>1
    <3> HIDE DEF bnew
    <3> QED
      BY <1>1, <3>1 DEF Overlaid
  <2>2. CASE c \notin N
    <3>1. c \in DOMAIN m.bow /\ Len(c) <= i /\ Len(c) < n
      BY <1>5
    <3>2. Len(c) \in Int
      BY <3>1, ModelIs
    <3>3. Len(c) <= i - 1
      <4>1. Len(c) # i
        BY <1>4, <2>2, <3>1
      <4> QED
        BY <3>1, <3>2, <4>1
    <3>4. c \in DOMAIN part.bow
      BY <1>0, <3>1, <3>3
    <3>5. r.bow[c] = made.bow[c]
      <4>1. c \in DOMAIN made.bow \ DOMAIN bnew
        BY <1>1, <1>2, <2>2, <3>4
      <4> HIDE DEF bnew
      <4> QED
        BY <1>1, <4>1 DEF Overlaid
    <3> QED
      BY <1>0, <1>1, <3>4, <3>5
  <2> QED
    BY <2>1, <2>2
<1>7. kept = {g \in DOMAIN m.prob : Len(g) = i}
  <2> SUFFICES ASSUME NEW g \in DOMAIN m.prob, Len(g) = i PROVE Tail(g) \in DOMAIN made.bow
    OBVIOUS
  <2>1. g \in Seq(Words) /\ Len(g) # 0 /\ Tail(g) \in DOMAIN m.bow
    BY ModelIs
  <2>2. Len(Tail(g)) = i - 1
    BY <2>1, TailFacts
  <2>3. Tail(g) \in DOMAIN part.bow
    BY <1>0, <2>1, <2>2
  <2> QED
    BY <1>1, <2>3
<1>8. DOMAIN r.prob = DOMAIN part.prob \cup {g \in DOMAIN m.prob : Len(g) = i}
  <2> HIDE DEF pnew, kept
  <2> QED
    BY <1>1, <1>2, <1>7 DEF Overlaid
<1>9. DOMAIN r.prob = {g \in DOMAIN m.prob : Len(g) <= i}
  <2>1. \A g \in DOMAIN m.prob : Len(g) <= i <=> (Len(g) <= i - 1 \/ Len(g) = i)
    <3> SUFFICES ASSUME NEW g \in DOMAIN m.prob
                 PROVE  Len(g) <= i <=> (Len(g) <= i - 1 \/ Len(g) = i)
      OBVIOUS
    <3>1. Len(g) \in Int
      BY ModelIs
    <3> QED
      BY <3>1
  <2> QED
    BY <1>0, <1>8, <2>1
<1>10. \A g \in DOMAIN r.prob : r.prob[g] = m.prob[g]
  <2> SUFFICES ASSUME NEW g \in DOMAIN r.prob PROVE r.prob[g] = m.prob[g]
    OBVIOUS
  <2>1. CASE g \in kept
    <3>1. g \in DOMAIN pnew /\ pnew[g] = m.prob[g]
      BY <2>1
    <3> HIDE DEF pnew, kept
    <3> QED
      BY <1>1, <3>1 DEF Overlaid
  <2>2. CASE g \notin kept
    <3>1. g \in DOMAIN part.prob
      BY <1>7, <1>8, <2>2
    <3>2. g \in DOMAIN part.prob \ DOMAIN pnew
      BY <1>2, <2>2, <3>1
    <3> HIDE DEF pnew, kept
    <3>3. r.prob[g] = part.prob[g]
      BY <1>1, <3>2 DEF Overlaid
    <3> QED
      BY <1>0, <3>1, <3>3
  <2> QED
    BY <2>1, <2>2
<1>11. ReadUpTo(r, m, n, i)
  BY <1>1, <1>5, <1>6, <1>9, <1>10 DEF ReadUpTo
<1> QED
  BY <1>11 DEF r

\* The model read begins with the empty one, with no weight at the root.
Nothing == [Empty EXCEPT !.bow[<<>>] = Zero]

\* Before the first section nothing has been read.
LEMMA NothingRead ==
    ASSUME NEW m \in Models, NEW n \in 1 .. Order
    PROVE  Nothing \in Models /\ ReadUpTo(Nothing, m, n, 0)
<1> DEFINE b == [c \in {<<>>} |-> Zero]
           p == [g \in {} |-> Zero]
           r == [prob |-> p, bow |-> b]
<1>1. Nothing = r
  <2>1. Empty = [prob |-> p, bow |-> [c \in {<<>>} |-> One]]
    BY DEF Empty
  <2>2. [[c \in {<<>>} |-> One] EXCEPT ![<<>>] = Zero] = b
    OBVIOUS
  <2> QED
    BY <2>1, <2>2 DEF Nothing
<1>2. b \in Tables(Nodes)
  <2>1. <<>> \in Nodes
    BY OrderAssumption DEF Nodes
  <2>2. {<<>>} \in SUBSET Nodes /\ b \in [{<<>>} -> Amounts]
    BY <2>1, Constants
  <2> HIDE DEF b
  <2> QED
    BY <2>2, IsTable
<1>3. p \in Tables(Grams)
  <2>1. {} \in SUBSET Grams /\ p \in [{} -> Amounts]
    OBVIOUS
  <2> HIDE DEF p
  <2> QED
    BY <2>1, IsTable
<1>4. DOMAIN b = {<<>>} /\ DOMAIN p = {} /\ r.prob = p /\ r.bow = b
  OBVIOUS
<1> HIDE DEF b, p
<1>5. Linked(r)
  <2>1. First(<<>>, 0) = <<>> /\ Len(<<>>) = 0
    BY DEF First
  <2> QED
    BY <1>4, <2>1 DEF Linked
<1>6. r \in Models
  BY <1>2, <1>3, <1>5, IsModel
<1>7. {<<>>} = {c \in DOMAIN m.bow : Len(c) <= 0 /\ Len(c) < n}
  <2>1. <<>> \in DOMAIN m.bow /\ Len(<<>>) = 0
    BY ModelIs
  <2>2. \A c \in DOMAIN m.bow : Len(c) <= 0 => c = <<>>
    BY ModelIs
  <2> QED
    BY <2>1, <2>2
<1>8. {} = {g \in DOMAIN m.prob : Len(g) <= 0}
  <2>1. \A g \in DOMAIN m.prob : ~(Len(g) <= 0)
    BY ModelIs
  <2> QED
    BY <2>1
<1> HIDE DEF r
<1>9. ReadUpTo(r, m, n, 0)
  BY <1>4, <1>6, <1>7, <1>8 DEF ReadUpTo
<1> QED
  BY <1>1, <1>6, <1>9

\* A model that is written and read again is the model, cut to length n.
LEMMA ReadFromWritten ==
    ASSUME NEW m \in Models, Writable(m), NEW n \in 1 .. Order
    PROVE  ReadUpTo(ReadFrom(Written(m, n), n), m, n, n)
<1> DEFINE S == Models
           F == [i \in 1 .. n |-> [r \in S |-> ReadRound(m, n, r, i)]]
           file == Written(m, n)
           Lines(i) == {g \in DOMAIN file : Len(g) = i}
           Marked(i) == {g \in Lines(i) : i < n /\ file[g].bow # {}}
           Made(part, i) == InsertBOWs(part, Marked(i))
           Kept(part, i) == {g \in Lines(i) : Tail(g) \in DOMAIN Made(part, i).bow}
           Round(part, i) ==
             [prob |-> With(part.prob, [g \in Kept(part, i) |-> file[g].prob]),
              bow  |-> With(Made(part, i).bow, [g \in Marked(i) |-> CHOOSE b \in file[g].bow : TRUE])]
           level == CHOOSE s : s = [i \in 0 .. n |-> IF i = 0 THEN Nothing ELSE Round(s[i - 1], i)]
<1>7. ReadFrom(file, n) = level[n]
  BY DEF ReadFrom, Nothing
<1>b. ASSUME NEW i \in 1 .. n, NEW part
      PROVE  Round(part, i) = ReadRound(m, n, part, i)
  <2>0. IsFileOf(file, m, n)
    BY WrittenIs
  <2> HIDE DEF file
  <2>1. DOMAIN file = {g \in DOMAIN m.prob : Len(g) <= n}
    BY <2>0 DEF IsFileOf
  <2>2. Lines(i) = {g \in DOMAIN m.prob : Len(g) = i}
    BY <2>1
  <2>3. \A g \in Lines(i) : /\ file[g].prob = m.prob[g]
                            /\ file[g].bow = IF i < n /\ g \in DOMAIN m.bow THEN {m.bow[g]} ELSE {}
    BY <2>0 DEF IsFileOf
  <2>4. Marked(i) = WithNode(m, n, i)
    BY <2>2, <2>3 DEF WithNode
  <2>5. Made(part, i) = NodesMade(m, n, part, i)
    BY <2>4 DEF NodesMade
  <2> DEFINE made == NodesMade(m, n, part, i)
             kept == {g \in DOMAIN m.prob : Len(g) = i /\ Tail(g) \in DOMAIN made.bow}
  <2>6. Kept(part, i) = kept
    BY <2>2, <2>5
  <2>7. [g \in Kept(part, i) |-> file[g].prob] = [g \in kept |-> m.prob[g]]
    BY <2>2, <2>3, <2>6
  <2>8. [g \in Marked(i) |-> CHOOSE b \in file[g].bow : TRUE] = [g \in WithNode(m, n, i) |-> m.bow[g]]
    <3>1. \A g \in Marked(i) : (CHOOSE b \in file[g].bow : TRUE) = m.bow[g]
      <4> SUFFICES ASSUME NEW g \in Marked(i) PROVE (CHOOSE b \in file[g].bow : TRUE) = m.bow[g]
        OBVIOUS
      <4>1. g \in WithNode(m, n, i) /\ g \in Lines(i)
        BY <2>4
      <4>2. file[g].bow = {m.bow[g]}
        BY <2>3, <4>1 DEF WithNode
      <4> QED
        BY <4>2
    <3> HIDE DEF Marked
    <3> QED
      BY <2>4, <3>1
  <2>9. ReadRound(m, n, part, i) =
          [prob |-> With(part.prob, [g \in kept |-> m.prob[g]]),
           bow  |-> With(made.bow, [g \in WithNode(m, n, i) |-> m.bow[g]])]
    BY DEF ReadRound
  <2> HIDE DEF Kept, Marked, Made, kept, Lines
  <2>10. Round(part, i) =
          [prob |-> With(part.prob, [g \in kept |-> m.prob[g]]),
           bow  |-> With(made.bow, [g \in WithNode(m, n, i) |-> m.bow[g]])]
    BY <2>5, <2>7, <2>8
  <2> QED
    BY <2>9, <2>10
<1> HIDE DEF Round, file
<1>1. Nothing \in S
  BY NothingRead
<1>2. \A i \in 1 .. n, r \in S : ReadRound(m, n, r, i) \in S
  BY ReadRoundIs
<1>3. F \in [1 .. n -> [S -> S]]
  <2> HIDE DEF S
  <2> QED
    BY <1>2
<1>n. n \in Nat
  OBVIOUS
<1>4. PICK s : Steps(s, n, Nothing, F, S)
  <2> HIDE DEF S, F
  <2> QED
    BY <1>1, <1>3, <1>n, StepsExist
<1>a. s \in [0 .. n -> S] /\ s[0] = Nothing /\ \A i \in 1 .. n : s[i] = F[i][s[i - 1]]
  BY <1>4 DEF Steps
<1>5. s = [i \in 0 .. n |-> IF i = 0 THEN Nothing ELSE ReadRound(m, n, s[i - 1], i)]
  <2>1. \A i \in 0 .. n : i # 0 => i \in 1 .. n /\ i - 1 \in 0 .. n
    BY <1>n
  <2> HIDE DEF S
  <2>2. \A i \in 0 .. n : i # 0 => s[i] = ReadRound(m, n, s[i - 1], i)
    BY <1>a, <2>1
  <2> QED
    BY <1>a, <2>2
<1>6. level = [i \in 0 .. n |-> IF i = 0 THEN Nothing ELSE ReadRound(m, n, level[i - 1], i)]
  <2>1. \A i \in 0 .. n : i # 0 => i \in 1 .. n
    OBVIOUS
  <2>2. s = [i \in 0 .. n |-> IF i = 0 THEN Nothing ELSE Round(s[i - 1], i)]
    BY <1>5, <1>b, <2>1
  <2>3. level = [i \in 0 .. n |-> IF i = 0 THEN Nothing ELSE Round(level[i - 1], i)]
    <3> HIDE DEF S, F
    <3> QED
      BY <2>2
  <2> HIDE DEF level
  <2> QED
    BY <1>b, <2>1, <2>3
<1> HIDE DEF level
<1> DEFINE T == {i \in 0 .. n : ReadUpTo(level[i], m, n, i)}
<1>8. 0 \in T
  <2>1. 0 \in 0 .. n
    OBVIOUS
  <2>2. level[0] = Nothing
    BY <1>6, <2>1
  <2> QED
    BY <2>1, <2>2, NothingRead
<1>9. ASSUME NEW i \in 0 .. n - 1, i \in T
      PROVE  i + 1 \in T
  <2>1. i + 1 \in 1 .. n /\ i + 1 \in 0 .. n /\ (i + 1) - 1 = i /\ i + 1 # 0
    OBVIOUS
  <2>2. level[i + 1] = ReadRound(m, n, level[i], i + 1)
    BY <1>6, <2>1
  <2>3. ReadUpTo(level[i], m, n, (i + 1) - 1)
    BY <1>9, <2>1
  <2>4. ReadUpTo(ReadRound(m, n, level[i], i + 1), m, n, i + 1)
    BY <2>1, <2>3, ReadRoundReads
  <2> QED
    BY <2>1, <2>2, <2>4
<1>10. n \in T
  <2>1. T \in SUBSET Nat
    OBVIOUS
  <2>2. \A i \in 0 .. n - 1 : i \in T => i + 1 \in T
    BY <1>9
  <2> HIDE DEF T
  <2>3. 0 .. n \subseteq T
    BY <1>8, <1>n, <2>1, <2>2, UpTo
  <2> QED
    BY <1>n, <2>3
<1> QED
  BY <1>7, <1>10 DEF file

\* It predicts as the model did from n - 1 words.
LEMMA ReadPredicts ==
    ASSUME NEW m \in Models, Writable(m), NEW n \in 1 .. Order,
           NEW c \in Seq(Words), NEW w \in Words
    PROVE  WordProbBO(ReadFrom(Written(m, n), n), w, c, n - 1) = WordProbBO(m, w, c, n - 1)
<1> DEFINE r == ReadFrom(Written(m, n), n)
           N == Shortest(n - 1, Len(c))
           d == DepthOf(m, c, N)
<1>1. /\ r \in Models
      /\ DOMAIN r.prob = {g \in DOMAIN m.prob : Len(g) <= n}
      /\ DOMAIN r.bow = {e \in DOMAIN m.bow : Len(e) <= n /\ Len(e) < n}
      /\ \A g \in DOMAIN r.prob : r.prob[g] = m.prob[g]
      /\ \A e \in DOMAIN r.bow \ {<<>>} : r.bow[e] = m.bow[e]
  BY ReadFromWritten DEF ReadUpTo
<1>2. n - 1 \in Nat /\ Len(c) \in Nat
  OBVIOUS
<1>3. N \in 0 .. Len(c) /\ N \in 0 .. n - 1
  BY <1>2, ShortestIs
<1> HIDE DEF r, N
<1>4. DepthIs(d, m, c, N)
  BY <1>3, DepthExists
<1> HIDE DEF d
<1>5. \A k \in 0 .. N : First(c, k) \in Seq(Words) /\ Len(First(c, k)) = k /\ k <= n /\ k < n
  <2> SUFFICES ASSUME NEW k \in 0 .. N
               PROVE  First(c, k) \in Seq(Words) /\ Len(First(c, k)) = k /\ k <= n /\ k < n
    OBVIOUS
  <2>1. k \in 0 .. Len(c) /\ k <= n /\ k < n
    BY <1>2, <1>3
  <2> QED
    BY <2>1, FirstFacts
<1>6. \A k \in 0 .. N : (First(c, k) \in DOMAIN m.bow) <=> (First(c, k) \in DOMAIN r.bow)
  BY <1>1, <1>5
<1>7. DepthIs(d, r, c, N)
  BY <1>4, <1>6 DEF DepthIs
<1>8. d \in 0 .. N /\ \A k \in 0 .. d : k \in 0 .. N /\ First(c, k) \in DOMAIN m.bow
  <2>1. d \in 0 .. N /\ \A k \in 0 .. N : (First(c, k) \in DOMAIN m.bow) <=> k <= d
    BY <1>4 DEF DepthIs
  <2>2. \A k \in 0 .. d : k \in 0 .. N /\ k <= d
    BY <1>3, <2>1
  <2> QED
    BY <2>1, <2>2
<1>9. \A k \in 0 .. d : /\ (<<w>> \o First(c, k) \in DOMAIN m.prob) <=> (<<w>> \o First(c, k) \in DOMAIN r.prob)
                        /\ <<w>> \o First(c, k) \in DOMAIN m.prob =>
                             m.prob[<<w>> \o First(c, k)] = r.prob[<<w>> \o First(c, k)]
  <2> SUFFICES ASSUME NEW k \in 0 .. d
               PROVE  /\ (<<w>> \o First(c, k) \in DOMAIN m.prob) <=> (<<w>> \o First(c, k) \in DOMAIN r.prob)
                      /\ <<w>> \o First(c, k) \in DOMAIN m.prob =>
                           m.prob[<<w>> \o First(c, k)] = r.prob[<<w>> \o First(c, k)]
    OBVIOUS
  <2>1. First(c, k) \in Seq(Words) /\ Len(First(c, k)) = k /\ k < n /\ k \in Nat
    BY <1>3, <1>5, <1>8
  <2> DEFINE g == <<w>> \o First(c, k)
  <2>2. Len(g) = k + 1
    BY <2>1, WordFirst
  <2>3. Len(g) <= n
    BY <2>1, <2>2
  <2> HIDE DEF g
  <2>4. (g \in DOMAIN m.prob <=> g \in DOMAIN r.prob) /\ (g \in DOMAIN m.prob => m.prob[g] = r.prob[g])
    BY <1>1, <2>3
  <2> QED
    BY <2>4 DEF g
<1>10. \A k \in 1 .. d : m.bow[First(c, k)] = r.bow[First(c, k)]
  <2> SUFFICES ASSUME NEW k \in 1 .. d PROVE m.bow[First(c, k)] = r.bow[First(c, k)]
    OBVIOUS
  <2>1. k \in 0 .. d /\ k # 0
    OBVIOUS
  <2>2. k \in 0 .. N /\ First(c, k) \in DOMAIN m.bow
    BY <1>8, <2>1
  <2>3. First(c, k) # <<>>
    BY <1>5, <2>1, <2>2
  <2>4. First(c, k) \in DOMAIN r.bow
    BY <1>6, <2>2
  <2> QED
    BY <1>1, <2>3, <2>4
<1>11. SameWalk(m, c, r, c, w, d)
  BY <1>9, <1>10 DEF SameWalk
<1>12. d \in Nat
  BY <1>3, <1>8
<1>13. WordProbBO(m, w, c, n - 1) = WordProbBO(r, w, c, n - 1)
  BY <1>1, <1>2, <1>4, <1>7, <1>11, <1>12, SameAnswers DEF N
<1> QED
  BY <1>13 DEF r

\* What read leaves is a model again.
LEMMA ReadFromModel ==
    ASSUME NEW m \in Models, Writable(m)
    PROVE  /\ ReadFrom(Written(m, Order), Order) \in Models
           /\ Writable(ReadFrom(Written(m, Order), Order))
<1> DEFINE r == ReadFrom(Written(m, Order), Order)
<1>1. Order \in 1 .. Order
  BY OrderAssumption
<1>2. ReadUpTo(r, m, Order, Order)
  BY <1>1, ReadFromWritten
<1> HIDE DEF r
<1>3. DOMAIN r.prob = DOMAIN m.prob /\ DOMAIN r.bow \subseteq DOMAIN m.bow /\ r \in Models
  <2>1. \A g \in DOMAIN m.prob : Len(g) <= Order
    BY ModelIs
  <2> QED
    BY <1>2, <2>1 DEF ReadUpTo
<1>4. Writable(r)
  BY <1>3 DEF Writable
<1> QED
  BY <1>3, <1>4 DEF r

-----------------------------------------------------------------------------
(* The theorems. *)

\* The inductive invariant: what the operations keep of a model, and that an
\* estimated model can be written.
Inv == lm \in Models /\ (last[1] # "none" => Writable(lm))

\* The invariant holds at first.
LEMMA InitInv == Init => Inv
<1> SUFFICES ASSUME Init PROVE Inv
  OBVIOUS
<1>1. lm = Empty
  BY DEF Init
<1>2. Empty \in Models /\ Writable(Empty)
  BY EmptyModel
<1> QED
  BY <1>1, <1>2 DEF Inv

\* The models of the other corpora are models.
LEMMA OthersAre ==
    ASSUME NEW m2 \in Others
    PROVE  m2 \in Models /\ Writable(m2)
<1>1. PICK s \in Corpora, d \in Discounting : m2 = Estimated(s, d)
  BY DEF Others
<1> QED
  BY <1>1, EstimatedModel

\* Every operation preserves it.
LEMMA NextInv == Inv /\ [Next]_vars => Inv'
<1> SUFFICES ASSUME Inv, [Next]_vars PROVE Inv'
  OBVIOUS
<1>0. lm \in Models /\ (last[1] # "none" => Writable(lm))
  BY DEF Inv
<1>a. /\ \A q \in Lambdas : q \in Amounts /\ ~Less(One, q)
      /\ \A q \in MinMasses : q \in Masses
      /\ \A n \in MinPrunes : n \in Nat \ {0, 1}
  BY OptionsAssumption DEF Masses
<1>b. ASSUME lm' \in Models, Writable(lm') PROVE Inv'
  BY <1>b DEF Inv, Writable
<1>1. CASE Estimate
  <2>1. PICK s \in Corpora, d \in Discounting : lm' = Estimated(s, d)
    BY <1>1 DEF Estimate, Becomes
  <2>2. Estimated(s, d) \in Models /\ Writable(Estimated(s, d))
    BY EstimatedModel
  <2> QED
    BY <1>b, <2>1, <2>2
<1>2. CASE Renormalize
  <2>1. PICK mass \in MinMasses : lm' = Recomputed(lm, mass)
    BY <1>2 DEF Renormalize, Becomes
  <2>2. Recomputed(lm, mass) \in Models /\ Writable(Recomputed(lm, mass))
    <3>1. Writable(lm)
      BY <1>0, <1>2 DEF Renormalize
    <3> QED
      BY <1>0, <1>a, <3>1, RecomputedWritable
  <2> QED
    BY <1>b, <2>1, <2>2
<1>3. CASE Mix
  <2>1. PICK m2 \in Others, lambda \in Lambdas : lm' = Mixed(lm, m2, lambda)
    BY <1>3 DEF Mix, Becomes
  <2>2. Mixed(lm, m2, lambda) \in Models /\ Writable(Mixed(lm, m2, lambda))
    <3>1. Writable(lm)
      BY <1>0, <1>3 DEF Mix
    <3>2. m2 \in Models /\ Writable(m2)
      BY OthersAre
    <3>3. lambda \in Amounts /\ ~Less(One, lambda)
      BY <1>a
    <3> QED
      BY <1>0, <3>1, <3>2, <3>3, MixedModel
  <2> QED
    BY <1>b, <2>1, <2>2
<1>4. CASE Prune
  <2>1. PICK n \in MinPrunes : \E low : lm' = Pruned(lm, low, n)
    BY <1>4 DEF Prune, Becomes
  <2>2. PICK low : lm' = Pruned(lm, low, n)
    BY <2>1
  <2>3. Pruned(lm, low, n) \in Models /\ Writable(Pruned(lm, low, n))
    <3>1. Writable(lm)
      BY <1>0, <1>4 DEF Prune
    <3>2. n \in Nat \ {0, 1}
      BY <1>a
    <3> QED
      BY <1>0, <3>1, <3>2, PrunedModel
  <2> QED
    BY <1>b, <2>2, <2>3
<1>5. CASE PruneLow
  <2>1. PICK n \in MinPrunes : lm' = LowPruned(lm, n)
    BY <1>5 DEF PruneLow, Becomes
  <2>2. LowPruned(lm, n) \in Models /\ Writable(LowPruned(lm, n))
    <3>1. n \in Nat \ {0, 1}
      BY <1>a
    <3> QED
      BY <1>0, <3>1, LowPrunedModel
  <2> QED
    BY <1>b, <2>1, <2>2
<1>6. CASE Rescore
  <2>1. PICK m2 \in Others : lm' = Rescored(lm, m2)
    BY <1>6 DEF Rescore, Becomes
  <2>2. Rescored(lm, m2) \in Models /\ Writable(Rescored(lm, m2))
    <3>1. Writable(lm)
      BY <1>0, <1>6 DEF Rescore
    <3>2. m2 \in Models
      BY OthersAre
    <3> QED
      BY <1>0, <3>1, <3>2, RescoredModel
  <2> QED
    BY <1>b, <2>1, <2>2
<1>7. CASE WriteAndRead
  <2>1. lm' = ReadFrom(Written(lm, Order), Order)
    BY <1>7 DEF WriteAndRead, Becomes
  <2>2. /\ ReadFrom(Written(lm, Order), Order) \in Models
        /\ Writable(ReadFrom(Written(lm, Order), Order))
    <3>1. Writable(lm)
      BY <1>0, <1>7 DEF WriteAndRead
    <3> QED
      BY <1>0, <3>1, ReadFromModel
  <2> QED
    BY <1>b, <2>1, <2>2
<1>8. CASE UNCHANGED vars
  <2>1. lm' = lm /\ last' = last
    BY <1>8 DEF vars
  <2> QED
    BY <1>0, <2>1 DEF Inv, Writable
<1> QED
  BY <1>1, <1>2, <1>3, <1>4, <1>5, <1>6, <1>7, <1>8 DEF Next

(* Whatever is done to a model, it stays a context trie with its tables.     *)
THEOREM ModelKept == Spec => []Inv
<1>1. Init => Inv
  BY InitInv
<1>2. Inv /\ [Next]_vars => Inv'
  BY NextInv
<1> QED
  BY <1>1, <1>2, PTL DEF Spec

(* The trie is closed under the walks that search it and holds the context   *)
(* of every N-gram, no N-gram is longer than the model's order, and no       *)
(* probability or weight ever is negative, whatever computeBOW subtracts.    *)
THEOREM TypeCorrect == Spec => []TypeOK
<1>1. Inv => TypeOK
  <2> SUFFICES ASSUME lm \in Models PROVE TypeOK
    BY DEF Inv
  <2>1. <<>> \in DOMAIN lm.bow
    BY ModelIs
  <2>2. \A c \in DOMAIN lm.bow : Prefixes(c) \subseteq DOMAIN lm.bow /\ Len(c) < Order
    <3> SUFFICES ASSUME NEW c \in DOMAIN lm.bow
                 PROVE  Prefixes(c) \subseteq DOMAIN lm.bow /\ Len(c) < Order
      OBVIOUS
    <3>1. Len(c) \in 0 .. Order - 1 /\ \A n \in 0 .. Len(c) : First(c, n) \in DOMAIN lm.bow
      BY ModelIs
    <3>2. Len(c) < Order
      BY <3>1, OrderAssumption
    <3> QED
      BY <3>1, <3>2 DEF Prefixes
  <2>3. \A g \in DOMAIN lm.prob : g # <<>> /\ Tail(g) \in DOMAIN lm.bow
    <3> SUFFICES ASSUME NEW g \in DOMAIN lm.prob PROVE g # <<>> /\ Tail(g) \in DOMAIN lm.bow
      OBVIOUS
    <3>1. Len(g) \in 1 .. Order /\ Tail(g) \in DOMAIN lm.bow
      BY ModelIs
    <3> QED
      BY <3>1
  <2>4. \A q \in Amounts : ~Negative(q)
    BY DEF Amounts, Negative
  <2>5. \A g \in DOMAIN lm.prob : ~Negative(lm.prob[g])
    BY <2>4, ModelIs
  <2>6. \A c \in DOMAIN lm.bow : ~Negative(lm.bow[c])
    BY <2>4, ModelIs
  <2> QED
    BY <2>1, <2>2, <2>3, <2>5, <2>6 DEF TypeOK
<1> QED
  BY <1>1, ModelKept, PTL

(* The context that contextID names gives every probability its history      *)
(* gives, and with contextBOW the one it names for a word does.              *)
THEOREM ContextIDSufficesAlways == Spec => []ContextIDSuffices
<1>1. Inv => ContextIDSuffices
  <2> SUFFICES ASSUME lm \in Models, NEW c \in Histories, NEW w \in Events
               PROVE  LET n == ContextLength(lm, c)
                          k == ContextLengthOf(lm, w, c)
                      IN  /\ WordProb(lm, w, c) = WordProb(lm, w, First(c, n))
                          /\ WordProb(lm, w, c) = Times(WordProb(lm, w, First(c, k)),
                                                        ContextBOW(lm, c, k))
    BY DEF Inv, ContextIDSuffices
  <2>1. c \in Seq(Words) /\ w \in Words
    BY HistoriesAre, EventsFinite
  <2>2. WordProb(lm, w, c) = WordProb(lm, w, First(c, ContextLength(lm, c)))
    BY <2>1, ContextSuffices
  <2>3. WordProb(lm, w, c) = Times(WordProb(lm, w, First(c, ContextLengthOf(lm, w, c))),
                                   ContextBOW(lm, c, ContextLengthOf(lm, w, c)))
    BY <2>1, ContextOfWordSuffices
  <2> QED
    BY <2>2, <2>3
<1> QED
  BY <1>1, ModelKept, PTL

(* Every context has a line for its weight, and a model that is written with *)
(* any number of its orders and read again predicts as it did.               *)
THEOREM ReadsBackAlways == Spec => []ReadsBack
<1>1. Inv => ReadsBack
  <2> SUFFICES ASSUME lm \in Models, Writable(lm)
               PROVE  /\ \A c \in DOMAIN lm.bow \ {<<>>} : c \in DOMAIN lm.prob
                      /\ \A n \in 1 .. Order : \A c \in Histories, w \in Events :
                           WordProbBO(ReadFrom(Written(lm, n), n), w, c, n - 1)
                             = WordProbBO(lm, w, c, n - 1)
    BY DEF Inv, ReadsBack
  <2>1. \A c \in DOMAIN lm.bow \ {<<>>} : c \in DOMAIN lm.prob
    BY DEF Writable
  <2>2. \A n \in 1 .. Order : \A c \in Histories, w \in Events :
          WordProbBO(ReadFrom(Written(lm, n), n), w, c, n - 1) = WordProbBO(lm, w, c, n - 1)
    <3> SUFFICES ASSUME NEW n \in 1 .. Order, NEW c \in Histories, NEW w \in Events
                 PROVE  WordProbBO(ReadFrom(Written(lm, n), n), w, c, n - 1)
                          = WordProbBO(lm, w, c, n - 1)
      OBVIOUS
    <3>1. c \in Seq(Words) /\ w \in Words
      BY HistoriesAre, EventsFinite
    <3> QED
      BY <3>1, ReadPredicts
  <2> QED
    BY <2>1, <2>2
<1> QED
  BY <1>1, ModelKept, PTL

===============================================================================
