------------------------------ MODULE Discounts ------------------------------
(***************************************************************************)
(* lm/src/Discount.cc: how much of a count the methods of discounting      *)
(* leave, the counts of counts they are estimated from, and the lower-     *)
(* order counts that Kneser-Ney smoothing replaces.  A count trie is a     *)
(* function from N-grams to counts; a discount is a record of its method   *)
(* and parameters, which are exact fractions.                              *)
(***************************************************************************)
EXTENDS Rational, Sequences, FiniteSets, Functions

CONSTANTS
    NonEvents,      \* words that are not predicted: <s>
    TagCount        \* from metatags to the counts they stand for

NgramsOfOrder(t, i) == {g \in DOMAIN t : Len(g) = i}

LastWord(g) == g[Len(g)]

\* A metatag's count is a number of N-grams, those that were not kept.
MetaGrams(t, i, c) == {g \in NgramsOfOrder(t, i) : /\ LastWord(g) \in DOMAIN TagCount
                                                   /\ TagCount[LastWord(g)] = c}
RealGrams(t, i, c) == {g \in NgramsOfOrder(t, i) :
                         /\ LastWord(g) \notin NonEvents \cup DOMAIN TagCount
                         /\ t[g] = c}

SumOver(t, grams) == FoldFunctionOnSet(+, 0, t, grams)

-----------------------------------------------------------------------------
(* Good-Turing.                                                            *)

\* The counts of counts, which take the values of the metatags.
CountOfCounts(t, i, c) == Cardinality(RealGrams(t, i, c)) + SumOver(t, MetaGrams(t, i, c))

\* maxCount goes down until the count above it has been seen.
LoweredMax(n, max) ==
    IF n[1] = 0 THEN 0
    ELSE CHOOSE m \in 0 .. max : /\ m = 0 \/ n[m + 1] # 0
                                 /\ \A l \in m + 1 .. max : n[l + 1] = 0

CommonTerm(n, max) == Ratio((max + 1) * n[max + 1], n[1])

TuringRatio(n, c) == Ratio((c + 1) * n[c + 1], c * n[c])

\* A coefficient outside of what is thought to be its range is 1.
GoodTuringCoefficient(n, max, c) ==
    LET common == CommonTerm(n, max)
        coeff  == LET top == Minus(TuringRatio(n, c), common)
                      bot == Minus(One, common)
                  IN  IF Negative(bot) THEN Over(Minus(Zero, top), Minus(Zero, bot))
                      ELSE Over(top, bot)
    IN  IF n[c] = 0 \/ common = One THEN One
        ELSE IF ~Positive(coeff) \/ Less(One, TuringRatio(n, c)) THEN One ELSE coeff

EstimatedGT(t, i, d) ==
    LET n   == [c \in 0 .. d.maxcount + 1 |-> CountOfCounts(t, i, c)]
        max == LoweredMax(n, d.maxcount)
    IN  [d EXCEPT !.maxcount = max, !.coeffs = [c \in 1 .. max |-> GoodTuringCoefficient(n, max, c)]]

-----------------------------------------------------------------------------
(* Kneser-Ney.                                                             *)

\* prepareCounts(): the counts of one order become the numbers of words that
\* come before, except for N-grams that begin with a non-event.
Prepared(t, i, maxOrder) ==
    IF i >= maxOrder THEN t
    ELSE [g \in DOMAIN t |->
            IF Len(g) # i \/ g[1] \in NonEvents THEN t[g]
            ELSE Cardinality({h \in NgramsOfOrder(t, i + 1) : Tail(h) = g /\ t[h] > 0})]

\* The counts of counts: here a metatag is one N-gram, whatever its count.
TypeCount(t, i, c) == Cardinality(RealGrams(t, i, c)) + Cardinality(MetaGrams(t, i, c))

\* Chen and Goodman's constants.
EstimatedKN(n) == <<Ratio(n[1], n[1] + 2 * n[2])>>

EstimatedModKN(n) ==
    LET Y == Ratio(n[1], n[1] + 2 * n[2])
    IN  [j \in 1 .. 3 |-> Minus(<<j, 1>>, Times(Y, Ratio((j + 1) * n[j + 1], n[j])))]

Levels(d) == IF d.method = "KneserNey" THEN 2 ELSE 4

\* estimate() succeeds when the counts of counts are there and nothing is negative.
Failed == [method |-> "failed"]

EstimatedConstants(t, i, d) ==
    LET n  == [c \in 1 .. Levels(d) |-> TypeCount(t, i, c)]
        ds == IF d.method = "KneserNey" THEN EstimatedKN(n) ELSE EstimatedModKN(n)
    IN  IF \E c \in DOMAIN n : n[c] = 0 THEN Failed
        ELSE IF \E j \in DOMAIN ds : Negative(ds[j]) THEN Failed
        ELSE [d EXCEPT !.ds = ds]

IsKN(d) == d.method \in {"KneserNey", "ModKneserNey"}

PreparedBy_Again(d, t, i, maxOrder) == IF IsKN(d) THEN Prepared(t, i, maxOrder) ELSE t

\* prepareCounts() of a discount; the other methods leave the counts alone.
PreparedBy(d, t, i, maxOrder) == IF IsKN(d) /\ ~d.modified THEN Prepared(t, i, maxOrder) ELSE t
AfterPrepare(d, i, maxOrder) == IF IsKN(d) /\ i < maxOrder THEN [d EXCEPT !.modified = TRUE] ELSE d

\* events is vocabSize(), the number of words in the vocabulary that are events.
\* estimate(): the new discount, from the counts prepared before or after it.
Estimate(t, i, maxOrder, d, events) ==
    LET u == IF IsKN(d) /\ ~d.atEnd THEN PreparedBy(d, t, i, maxOrder) ELSE t
    IN  CASE d.method = "GoodTuring"            -> EstimatedGT(t, i, d)
          [] d.method \in {"Natural", "AddSmooth"} -> [d EXCEPT !.vocabSize = events]
          [] IsKN(d)                            -> EstimatedConstants(u, i, d)
          [] d.method \in {"Const", "WittenBell", "none"} -> d

-----------------------------------------------------------------------------
(* The part of a count that is left, and the weight that interpolation     *)
(* gives to the shorter N-grams.                                           *)

\* The constant that modified Kneser-Ney takes off a count.
ConstantFor(d, count) == IF count >= Len(d.ds) THEN d.ds[Len(d.ds)] ELSE d.ds[count]

\* Below the minimum nothing is left; a count of zero is only looked at by
\* Natural, which treats it as any other.
Cut(d, count)  == count < d.mincount /\ (count > 0 \/ d.method = "Natural")
Kept(d, count) == count >= d.mincount /\ (count > 0 \/ d.method = "Natural")

Retained(d, count, total, observed) ==
    CASE count = 0 /\ d.method # "Natural" -> One
      [] Cut(d, count) -> Zero
      [] Kept(d, count) /\ d.method = "GoodTuring" ->
           IF count > d.maxcount THEN One ELSE d.coeffs[count]
      [] Kept(d, count) /\ d.method \in {"KneserNey", "ModKneserNey", "Const"} ->
           Over(Minus(<<count, 1>>, ConstantFor(d, count)), <<count, 1>>)
      [] Kept(d, count) /\ d.method = "Natural" ->
           IF observed = d.vocabSize THEN One
           ELSE Ratio(total * (total + 1) + observed * (1 - observed),
                      total * (total + 1) + 2 * observed)
      [] Kept(d, count) /\ d.method = "AddSmooth" ->
           Over(Plus(One, Over(d.delta, <<count, 1>>)),
                Plus(One, Over(Times(<<d.vocabSize, 1>>, d.delta), <<total, 1>>)))
      [] Kept(d, count) /\ d.method = "WittenBell" -> Ratio(total, total + observed)

\* atLeast[c] is the number of words seen c times or more, for c in 1 .. 3.
InterpolationWeight_NoRest(d, total, atLeast) ==
    CASE d.method \in {"KneserNey", "ModKneserNey", "Const"} ->
           Over(Times(d.ds[1], <<atLeast[1], 1>>), <<total, 1>>)
      [] d.method = "WittenBell" -> Ratio(atLeast[1], total + atLeast[1])
      [] d.method \in {"GoodTuring", "Natural", "AddSmooth"} -> Zero

InterpolationWeight(d, total, atLeast) ==
    CASE d.method \in {"KneserNey", "Const"} ->
           Over(Times(d.ds[1], <<atLeast[1], 1>>), <<total, 1>>)
      [] d.method = "ModKneserNey" ->
           Over(Plus(Times(d.ds[1], <<atLeast[1] - atLeast[2], 1>>),
                     Plus(Times(d.ds[2], <<atLeast[2] - atLeast[3], 1>>),
                          Times(d.ds[3], <<atLeast[3], 1>>))), <<total, 1>>)
      [] d.method = "WittenBell" -> Ratio(atLeast[1], total + atLeast[1])
      [] d.method \in {"GoodTuring", "Natural", "AddSmooth"} -> Zero

\* nodiscount()
NoDiscounting(d) ==
    \/ d.method = "none"
    \/ d.method = "GoodTuring" /\ d.mincount <= 1 /\ d.maxcount = 0
    \/ d.method = "Const" /\ d.mincount <= 1 /\ d.ds[1] = Zero
    \/ d.method = "AddSmooth" /\ d.mincount <= 1 /\ d.delta = Zero
=============================================================================
