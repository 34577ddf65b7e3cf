------------------------------ MODULE Rational ------------------------------
(***************************************************************************)
(* Exact nonnegative-denominator fractions <<n, d>> in lowest terms.  The  *)
(* language models keep log10 probabilities in floating point and compare  *)
(* them with an epsilon (lm/src/Prob.h); the models of them use fractions, *)
(* for which the same comparisons are exact.                               *)
(*                                                                         *)
(* As in floating point every operation has a result: <<1, 0>> is what a   *)
(* division by zero gives, and <<0, 0>> is no number, in no order to any.  *)
(***************************************************************************)
EXTENDS Integers, Folds

Fraction == Int \X Nat

\* The greatest common divisor of p[1] and p[2].
Gcd[p \in Nat \X Nat] == IF p[2] = 0 THEN p[1] ELSE Gcd[<<p[2], p[1] % p[2]>>]

Size(n) == IF n < 0 THEN -n ELSE n

\* The fraction n/d in lowest terms, for d >= 0.
Ratio(n, d) == LET g == Gcd[<<Size(n), d>>]
               IN  IF g = 0 THEN <<0, 0>> ELSE <<n \div g, d \div g>>

Zero == <<0, 1>>
One  == <<1, 1>>

Plus(p, q) == LET g == Gcd[<<p[2], q[2]>>]
              IN  IF g = 0 THEN <<0, 0>>
                  ELSE Ratio(p[1] * (q[2] \div g) + q[1] * (p[2] \div g),
                             p[2] * (q[2] \div g))

Minus(p, q) == Plus(p, <<-q[1], q[2]>>)

\* Factors are reduced crosswise before they are multiplied.
Product2(l, r) == <<l[1] * r[1], l[2] * r[2]>>
Times(p, q) == Product2(Ratio(p[1], q[2]), Ratio(q[1], p[2]))

Over(p, q) == Times(p, IF q[1] < 0 THEN <<-q[2], -q[1]>> ELSE <<q[2], q[1]>>)

Less(p, q) == p[1] * q[2] < q[1] * p[2]

Positive(p) == p[1] > 0
Negative(p) == p[1] < 0

\* The sum and the product of the values of a function with finite domain.
SumOfAll(h) ==
  MapThenFoldSet(Plus, Zero, LAMBDA x : h[x], LAMBDA S : CHOOSE x \in S : TRUE, DOMAIN h)
ProductOfAll(h) ==
  MapThenFoldSet(Times, One, LAMBDA x : h[x], LAMBDA S : CHOOSE x \in S : TRUE, DOMAIN h)

\* The sum of F(x) over the finite set S.
Total(F(_), S) == SumOfAll([x \in S |-> F(x)])
=============================================================================
