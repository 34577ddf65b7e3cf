----------------------------- MODULE Discounting -----------------------------
(***************************************************************************)
(* ngram-count.cc: counts are gathered, then the discounts are estimated   *)
(* from them for one order after the other, and the estimation of a model  *)
(* (Ngram::estimate) prepares once more what the discounts ask for.        *)
(* Discounting changes the counts it works on.  How counts are gathered is *)
(* in NgramCounts.                                                         *)
(***************************************************************************)
EXTENDS Integers, Sequences, FiniteSets

CONSTANTS
    Words,             \* the words that occur in text and files
    MetaTag,           \* from counts to the metatags that stand for them
    NonEvents,
    Order,
    Discountings       \* the discounts by order that the options of a run ask for

Tags     == {MetaTag[n] : n \in DOMAIN MetaTag}
TagCount == [w \in Tags |-> CHOOSE n \in DOMAIN MetaTag : MetaTag[n] = w]

D == INSTANCE Discounts

ASSUME OrderAssumption == Order \in Nat \ {0}

\* What the discount objects hold: a minimum count, parameters, and whether these
\* come from a file; with Kneser-Ney, whether the counts are changed already, and
\* whether they are to be changed after the parameters are estimated.
DiscountObjects ==
  [method : {"KneserNey", "ModKneserNey"}, mincount : Nat, ds : Seq(D!Fraction),
   modified : BOOLEAN, atEnd : BOOLEAN, fromFile : BOOLEAN]
    \cup [method : {"GoodTuring"}, mincount : Nat, maxcount : Nat, coeffs : Seq(D!Fraction),
          fromFile : BOOLEAN]
    \cup [method : {"Const"}, mincount : Nat, ds : Seq(D!Fraction), fromFile : BOOLEAN]
    \cup [method : {"Natural"}, mincount : Nat, vocabSize : Nat, fromFile : BOOLEAN]
    \cup [method : {"AddSmooth"}, mincount : Nat, delta : D!Fraction, vocabSize : Nat,
          fromFile : BOOLEAN]
    \cup [method : {"WittenBell", "none"}, mincount : Nat, fromFile : BOOLEAN]

ASSUME DiscountingsAssumption == Discountings \subseteq [1 .. Order -> DiscountObjects]

VARIABLES
    counts,       \* the trie
    vocab,        \* words with an index
    stage,        \* the next order to discount; 0 while counting
    discounts,    \* the discounts by order
    original      \* the counts before the first discount

discountVars == <<counts, vocab, stage, discounts, original>>

Exited   == Order + 3
ForModel == Order + 1

\* What gathering leaves: the counts of finitely many N-grams.
IsCounts(t) ==
    /\ IsFiniteSet(DOMAIN t) /\ DOMAIN t \subseteq Seq(Words \cup Tags)
    /\ t \in [DOMAIN t -> Nat]

Gather ==
    /\ stage = 0
    /\ IsCounts(counts')
    /\ UNCHANGED <<stage, discounts, original>>

Choose(choice) ==
    /\ stage = 0
    /\ stage' = 1
    /\ discounts' = choice
    /\ original' = counts
    /\ UNCHANGED <<counts, vocab>>

Events == Cardinality(vocab \ NonEvents)

\* Parameters are read from a file, or estimated; when that fails the program ends.
DiscountOrder ==
    LET d == discounts[stage]
        e == D!Estimate(counts, stage, Order, d, Events)
    IN  /\ stage \in 1 .. Order
        /\ IF d.fromFile
           THEN stage' = stage + 1 /\ UNCHANGED <<counts, discounts>>
           ELSE IF e = D!Failed
           THEN stage' = Exited /\ UNCHANGED <<counts, discounts>>
           ELSE /\ stage' = stage + 1
                /\ counts' = D!PreparedBy(d, counts, stage, Order)
                /\ discounts' = [discounts EXCEPT ![stage] = D!AfterPrepare(e, stage, Order)]
        /\ UNCHANGED <<vocab, original>>

\* Ngram::estimate() prepares the orders one by one.
PreparedForModel ==
    LET upTo[i \in 0 .. Order] ==
          IF i = 0 THEN counts
          ELSE IF D!NoDiscounting(discounts[i]) THEN upTo[i - 1]
          ELSE D!PreparedBy(discounts[i], upTo[i - 1], i, Order)
    IN  upTo[Order]

PrepareForModel ==
    /\ stage = ForModel
    /\ stage' = ForModel + 1
    /\ counts' = PreparedForModel
    /\ discounts' = [i \in 1 .. Order |-> D!AfterPrepare(discounts[i], i, Order)]
    /\ UNCHANGED <<vocab, original>>

Discount ==
    \/ \E choice \in Discountings : Choose(choice)
    \/ DiscountOrder
    \/ PrepareForModel

DiscountingInit == IsCounts(counts) /\ stage = 0 /\ discounts = <<>> /\ original = <<>>

DiscountingSpec == DiscountingInit /\ [][Gather \/ Discount]_discountVars

-----------------------------------------------------------------------------
\* When the discounts are there, every order that Kneser-Ney smoothing is asked for
\* below the highest has, for N-grams that can have a word before them, the number
\* of such words in the counts as they were before any order was changed; all other
\* counts are the original ones.  Orders are changed one by one, some before and
\* some after others were estimated, and some not before the model is built
\* (Discount.cc, KneserNey::prepareCounts).
ContinuationCounts ==
    stage = ForModel + 1 =>
      \A g \in DOMAIN counts \ {<<>>} :
        LET d == discounts[Len(g)]
        IN  counts[g] = IF Len(g) < Order /\ D!IsKN(d) /\ g[1] \notin NonEvents
                        THEN Cardinality({w \in Words \cup Tags :
                                            /\ <<w>> \o g \in DOMAIN original
                                            /\ original[<<w>> \o g] > 0})
                        ELSE original[g]
=============================================================================
