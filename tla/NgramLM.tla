------------------------------- MODULE NgramLM ------------------------------
(***************************************************************************)
(* The backoff N-gram model of SRILM (lm/src/NgramLM.cc): how it assigns   *)
(* probabilities, how it is estimated from counts, and the operations that *)
(* change an estimated model, as ngram-count and ngram call them.          *)
(*                                                                         *)
(* A model has two parts.  `prob' gives the explicit probability of an     *)
(* N-gram; `bow' has one entry for every node of the context trie, its     *)
(* backoff weight.  N-grams and contexts are sequences of words, NEAREST   *)
(* WORD FIRST, as the trie is keyed: the N-gram <<w>> \o c is the word w   *)
(* after the context c, and a context is the key of an N-gram as well.     *)
(* Probabilities are exact fractions where the code has log10 floats, so   *)
(* its tests against Prob_Epsilon are exact here.                          *)
(*                                                                         *)
(* Left out: metatags and <unk>, codebooks, class N-grams, trustTotals.    *)
(***************************************************************************)
EXTENDS Integers, Sequences, FiniteSets, FiniteSetsExt, Rational

CONSTANTS
  Words,        \* the vocabulary
  SentStart,    \* <s>, the one non-event
  SentEnd,      \* </s>
  Order,        \* maximal N-gram length
  Corpora,      \* the count tries ngram-count is run on
  Discounting,  \* one sequence of Order discounts per run of ngram-count
  Lambdas,      \* mixture weights
  MinMasses,    \* -minbackoff values
  MinPrunes,    \* -minprune values
  MaxPruned,    \* bound: N-grams below the pruning threshold
  MaxRetries,   \* bound: attempts of the estimator for one context
  MaxOps        \* bound: operations on one model

ASSUME WordsAssumption ==
    IsFiniteSet(Words) /\ SentStart \in Words /\ SentEnd \in Words /\ SentStart # SentEnd
ASSUME OrderAssumption == Order \in Nat \ {0} /\ MaxRetries \in Nat

\* Counts are not negative.
ASSUME CorporaAssumption ==
    \A stats \in Corpora : \A g \in DOMAIN stats : g \in Seq(Words) /\ stats[g] \in Nat

\* The fractions that are not negative.
Amounts == Nat \X Nat

\* The discount methods: a Good-Turing coefficient d for the counts 1 ..
\* max, an absolute discount d (Kneser-Ney's too), Witten-Bell.  None of
\* the coefficients is negative (Discount.cc and Discount.h see to it).
DiscountTypes ==
  [method : {"none"}, interpolate : {FALSE}]
    \cup [method : {"GoodTuring"}, d : Amounts, max : Nat, mincount : Nat, interpolate : BOOLEAN]
    \cup [method : {"ConstDiscount"}, d : Amounts, mincount : Nat, interpolate : BOOLEAN]
    \cup [method : {"WittenBell"}, mincount : Nat, interpolate : BOOLEAN]

ASSUME DiscountingAssumption == Discounting \subseteq [1 .. Order -> DiscountTypes]

\* Mixture weights and minimum masses are at most one.  N-grams of length 1
\* are not pruned (ngram(1): the minimum of -minprune is 2).
ASSUME OptionsAssumption ==
    /\ Lambdas \subseteq {q \in Amounts : ~Less(One, q)}
    /\ MinMasses \subseteq {q \in Fraction : ~Less(One, q)}
    /\ MinPrunes \subseteq Nat \ {0, 1}

Events == Words \ {SentStart}

VARIABLES
  lm,    \* the model
  last,  \* the operation that produced it, with its -minprune
  ops    \* operations so far

vars == <<lm, last, ops>>

----------------------------------------------------------------------------
(* The context trie. *)

First(c, n) == SubSeq(c, 1, n)
Prefixes(c) == {First(c, n) : n \in 0 .. Len(c)}

Empty == [prob |-> [g \in {} |-> Zero], bow |-> [c \in {<<>>} |-> One]]

\* The function f with the entries of g put over its own.
With(f, g) ==
  [x \in DOMAIN f \cup DOMAIN g |-> IF x \in DOMAIN g THEN g[x] ELSE f[x]]

\* insertBOW: the node and the ones above it, created with weight one.
InsertBOWs(m, cs) ==
  [m EXCEPT !.bow = With([c \in UNION {Prefixes(c) : c \in cs} |-> One], @)]

\* insertProb, for all the N-grams in the domain of ps.
InsertProbs(m, ps) ==
  [InsertBOWs(m, {Tail(g) : g \in DOMAIN ps}) EXCEPT !.prob = With(@, ps)]

\* The contexts of length i, and the N-grams explicit in a context.
Contexts(m, i)  == {c \in DOMAIN m.bow : Len(c) = i}
Explicit(m, c)  == {g \in DOMAIN m.prob : Tail(g) = c}
NgramsOf(m, i)  == {g \in DOMAIN m.prob : Len(g) = i}

----------------------------------------------------------------------------
(* The backoff algorithm. *)

\* How far the walk down the trie gets along c, in at most n steps.
DepthOf(m, c, n) ==
  CHOOSE d \in 0 .. n : /\ First(c, d) \in DOMAIN m.bow
                        /\ d < n => First(c, d + 1) \notin DOMAIN m.bow

Shortest(a, b) == IF a < b THEN a ELSE b

\* The deepest explicit probability found on the walk, times the weights of
\* the nodes passed after it.
WordProbBO(m, w, c, clen) ==
  LET depth == DepthOf(m, c, Shortest(clen, Len(c)))
      found == {k \in 0 .. depth : <<w>> \o First(c, k) \in DOMAIN m.prob}
      best  == CHOOSE k \in found \cup {0} : \A j \in found : j <= k
  IN  Times(IF found = {} THEN Zero ELSE m.prob[<<w>> \o First(c, best)],
            ProductOfAll([j \in best + 1 .. depth |-> m.bow[First(c, j)]]))

WordProb(m, w, c) == WordProbBO(m, w, c, Order - 1)

\* contextID: the length of the longest suffix of the history that is a
\* context, or the longest one with an explicit probability of w.
ContextLength(m, c) == DepthOf(m, c, Shortest(Order - 1, Len(c)))
ContextLengthOf(m, w, c) ==
  CHOOSE k \in 0 .. ContextLength(m, c) :
    LET found == {j \in 1 .. ContextLength(m, c) :
                    <<w>> \o First(c, j) \in DOMAIN m.prob}
    IN  IF found = {} THEN k = 0 ELSE k \in found /\ \A j \in found : j <= k

ContextBOW_Inclusive(m, c, length) ==
  ProductOfAll([j \in length .. ContextLength(m, c) |-> m.bow[First(c, j)]])

\* contextBOW: what the nodes beyond the first `length' words contribute.
ContextBOW(m, c, length) ==
  ProductOfAll([j \in length + 1 .. ContextLength(m, c) |-> m.bow[First(c, j)]])

----------------------------------------------------------------------------
(* Backoff weights. *)

\* distributeProb: the mass goes to the events without probability, or to
\* all events when there is none.
Distributed(m, mass) ==
  LET p0(w) == IF <<w>> \in DOMAIN m.prob THEN m.prob[<<w>>] ELSE Zero
      zeros == {w \in Events : p0(w) = Zero}
      lucky == IF zeros = {} THEN Events ELSE zeros
      share == Over(mass, <<Cardinality(lucky), 1>>)
      new   == [w \in Events |-> IF w \in lucky THEN Plus(p0(w), share) ELSE p0(w)]
  IN  InsertProbs(m, [g \in {<<w>> : w \in Events} |-> new[g[1]]])

\* computeBOW: the factor the explicit probabilities of a context are scaled
\* by, and the numerator and denominator of its weight, from the sums of the
\* probabilities and of their backed-off estimates.
BOWParts(sum, low, minMass) ==
  LET short  == ~Negative(minMass) /\ Less(Minus(One, sum), minMass)
      num    == IF short THEN minMass ELSE Minus(One, sum)
      den    == Minus(One, low)
      scaled == IF short THEN Over(Minus(One, minMass), sum) ELSE One
      full   == ~Positive(den) /\ Positive(num)
  IN  [scale |-> IF full THEN Over(scaled, Minus(One, num)) ELSE scaled,
       num   |-> IF full THEN Zero ELSE num,
       den   |-> IF full \/ ~Positive(den) THEN Zero ELSE den]

\* The empty context has no estimates to back off to.  No minimum mass is -1.
ComputeBOW(m, c, minMass) ==
  BOWParts(SumOfAll([g \in Explicit(m, c) |-> m.prob[g]]),
           IF c = <<>> THEN Zero
           ELSE SumOfAll([g \in Explicit(m, c) |-> WordProbBO(m, g[1], c, Len(c) - 1)]),
           minMass)

\* The probabilities of the contexts of length i after computeBOW has
\* scaled them.
Scaled(m, i, minMass) ==
  [m EXCEPT !.prob = With(@, [g \in NgramsOf(m, i + 1) |->
                        Times(m.prob[g], ComputeBOW(m, Tail(g), minMass).scale)])]

Weight(c, part) ==
  IF Negative(part.num) \/ c = <<>> THEN Zero
  ELSE IF part.num = Zero /\ part.den = Zero THEN One
  ELSE Over(part.num, part.den)

WithWeights(m, part) ==
  IF <<>> \in DOMAIN part /\ ~Negative(part[<<>>].num)
  THEN Distributed(m, part[<<>>].num)
  ELSE [m EXCEPT !.bow = With(@, [c \in DOMAIN part |-> Weight(c, part[c])])]

\* computeBOWs: the weights of one level, from the levels below it.
BOWsComputed(m, i, minMass) ==
  WithWeights(Scaled(m, i, minMass),
              [c \in Contexts(m, i) |-> ComputeBOW(m, c, minMass)])

NoMinimum == <<-1, 1>>

\* The mistake of visiting the longest contexts first.
Recomputed_LongestFirst(m, minMass) ==
  LET level[i \in 0 .. Order] ==
        IF i = 0 THEN m ELSE BOWsComputed(level[i - 1], Order - i, minMass)
  IN  level[Order]

\* recomputeBOWs: all levels, shortest contexts first; a positive minimum
\* does not apply to the empty context.
Recomputed(m, minMass) ==
  LET level[i \in 0 .. Order] ==
        IF i = 0 THEN m
        ELSE BOWsComputed(level[i - 1], i - 1,
               IF i = 1 /\ Positive(minMass) THEN Zero ELSE minMass)
  IN  level[Order]

----------------------------------------------------------------------------
(* fixupProbs: the ARPA format needs a probability for every context.  For *)
(* a context abcd these are p(d|abc), p(c|ab), ..., up to the first that   *)
(* is there; each gets the value the backoff algorithm gives it.           *)

Rest(c, j) == SubSeq(c, j + 1, Len(c))

ToAdd(m) ==
  {g \in UNION {{Rest(c, j) : j \in 0 .. Len(c) - 1} : c \in DOMAIN m.bow} :
     \E c \in DOMAIN m.bow : \E j \in 0 .. Len(c) - 1 :
        /\ g = Rest(c, j)
        /\ \A k \in 0 .. j : Rest(c, k) \notin DOMAIN m.prob}

FixedUp(m) ==
  LET missing == ToAdd(m)
      level[i \in 0 .. Order - 1] ==
        IF i = 0 THEN m
        ELSE LET part == level[i - 1]
             IN  InsertProbs(part, [g \in {h \in missing : Len(h) = i} |->
                                      WordProbBO(part, g[1], Tail(g), i - 1)])
  IN  level[Order - 1]

----------------------------------------------------------------------------
(* Estimation from counts.  A count trie is a function from N-grams in the *)
(* order they are READ, closed under prefixes, to counts.                  *)

Coefficient(d, count, total, observed) ==
  CASE count = 0          -> One
    [] count > 0 /\ count < d.mincount -> Zero
    [] count > 0 /\ count >= d.mincount /\ d.method = "GoodTuring" ->
         IF count > d.max THEN One ELSE d.d
    [] count > 0 /\ count >= d.mincount /\ d.method = "ConstDiscount" ->
         Over(Minus(<<count, 1>>, d.d), <<count, 1>>)
    [] count > 0 /\ count >= d.mincount /\ d.method = "WittenBell" ->
         Ratio(total, total + observed)

LowerOrderWeight(d, total, observed) ==
  CASE d.method = "GoodTuring"    -> Zero
    [] d.method = "ConstDiscount" -> Over(Times(d.d, <<observed, 1>>), <<total, 1>>)
    [] d.method = "WittenBell"    -> Ratio(observed, total + observed)

NoDiscount == [method |-> "none", interpolate |-> FALSE]

Backwards(s) == [i \in 1 .. Len(s) |-> s[Len(s) + 1 - i]]

Followers(stats, ctx) == {w \in Words : Append(ctx, w) \in DOMAIN stats}

\* One attempt at the probabilities of a context: `total' is the count in
\* the denominator, `interpolate' whether the lower order is mixed in.
Attempt(m, stats, ctx, disc, total, observed, interpolate) ==
  LET i == Len(ctx) + 1
      c == Backwards(ctx)
      count(w)  == stats[Append(ctx, w)]
      weight(w) == IF disc.method = "none" THEN One
                   ELSE Coefficient(disc, count(w), total, observed)
      lower(w)  == IF i > 1 THEN WordProbBO(m, w, c, i - 2)
                   ELSE Ratio(1, Cardinality(Events))
      prob(w)   == Plus(Times(weight(w), Ratio(count(w), total)),
                        IF interpolate
                        THEN Times(LowerOrderWeight(disc, total, observed), lower(w))
                        ELSE Zero)
      kept == {w \in Followers(stats, ctx) :
                 IF w \in Events THEN (i = 1 \/ count(w) > 0) /\ Positive(weight(w))
                                 ELSE i = 1}
  IN  [probs |-> [g \in {<<w>> \o c : w \in kept} |->
                    IF g[1] \in Events THEN prob(g[1]) ELSE Zero],
       total |-> SumOfAll([w \in kept \cap Events |-> prob(w)])]

\* The event types that follow a context.  The code means to pass over
\* those with a zero count, but tests the pointer to the count.
ObservedVocab(stats, ctx) == Cardinality(Followers(stats, ctx) \cap Events)

CountTotal(stats, ctx) ==
  MapThenFoldSet(+, 0, LAMBDA w : stats[Append(ctx, w)], LAMBDA S : CHOOSE x \in S : TRUE,
                 Followers(stats, ctx) \cap Events)

\* The mistake of keeping the first attempt.
ContextProbs_NoRetry(m, stats, ctx, disc) ==
  Attempt(m, stats, ctx, disc, CountTotal(stats, ctx), ObservedVocab(stats, ctx),
          disc.interpolate).probs

\* The first of the attempts 0 .. MaxRetries that leaves backoff mass.
Sufficient(attempts) ==
  LET enough == {k \in 0 .. MaxRetries : Less(attempts[k].total, One)}
  IN  attempts[CHOOSE k \in enough \cup {MaxRetries} : \A j \in enough : k <= j]

\* The probabilities of a context.  While they leave no backoff mass though
\* not all the vocabulary was observed, interpolation is disabled first and
\* then the denominator is incremented.
ContextProbs(m, stats, ctx, disc) ==
  LET total    == CountTotal(stats, ctx)
      observed == ObservedVocab(stats, ctx)
      more(k)  == IF disc.interpolate /\ k > 0 THEN k - 1 ELSE k
      try(k)   == Attempt(m, stats, ctx, disc, total + more(k), observed,
                          disc.interpolate /\ k = 0)
  IN  IF disc.method = "none" \/ observed = Cardinality(Events)
      THEN try(0).probs
      ELSE Sufficient([k \in 0 .. MaxRetries |-> try(k)]).probs

\* The contexts of N-grams of length i: none that ends in </s>, none
\* without counts.
Counted(stats, i) ==
  {ctx \in DOMAIN stats \cup {<<>>} :
     /\ Len(ctx) = i - 1
     /\ i > 1 => ctx[i - 1] # SentEnd
     /\ CountTotal(stats, ctx) > 0}

\* The probabilities of all the contexts of a level, as N-grams.
Gathered(part) ==
  [g \in UNION {DOMAIN part[ctx] : ctx \in DOMAIN part} |-> part[Backwards(Tail(g))][g]]

EstimatedLevel(m, stats, i, disc) ==
  LET part == [ctx \in Counted(stats, i) |-> ContextProbs(m, stats, ctx, disc)]
  IN  BOWsComputed(InsertProbs(m, Gathered(part)), i - 1, NoMinimum)

\* estimate: <s> is a unigram of probability zero; then level by level,
\* each with its weights; the missing context probabilities at the end.
Estimated(stats, discounts) ==
  LET level[i \in 0 .. Order] ==
        IF i = 0 THEN InsertProbs(Empty, [g \in {<<SentStart>>} |-> Zero])
        ELSE EstimatedLevel(level[i - 1], stats, i, discounts[i])
  IN  FixedUp(level[Order])

----------------------------------------------------------------------------
(* Static interpolation.                                                   *)

MixProb(p, q, lambda) == Plus(Times(lambda, p), Times(Minus(One, lambda), q))

\* One level of the destructive mixProbs: the explicit N-grams of the model,
\* then those only lm2 has, whose probability in the model is backed off.
MixedLevel(m, m2, i, lambda) ==
  LET mine   == NgramsOf(m, i + 1)
      theirs == NgramsOf(m2, i + 1) \ mine
  IN  InsertProbs(m,
        [g \in mine \cup theirs |->
           IF g \in mine
           THEN MixProb(m.prob[g], WordProbBO(m2, g[1], Tail(g), i), lambda)
           ELSE MixProb(WordProbBO(m, g[1], Tail(g), i), m2.prob[g], lambda)])

\* The mistake of mixing the shortest N-grams first.
Mixed_ShortestFirst(m, m2, lambda) ==
  LET level[i \in 0 .. Order] ==
        IF i = 0 THEN m ELSE MixedLevel(level[i - 1], m2, i - 1, lambda)
  IN  Recomputed(level[Order], NoMinimum)

\* mixProbs(lm2, lambda): longest N-grams first, so that the model still
\* computes its own estimates while it is overwritten.
Mixed(m, m2, lambda) ==
  LET level[i \in 0 .. Order] ==
        IF i = 0 THEN m ELSE MixedLevel(level[i - 1], m2, Order - i, lambda)
  IN  Recomputed(level[Order], NoMinimum)

----------------------------------------------------------------------------
(* Pruning. *)

Without(m, grams, contexts) ==
  [prob |-> [g \in DOMAIN m.prob \ grams |-> m.prob[g]],
   bow  |-> [c \in DOMAIN m.bow \ contexts |-> m.bow[c]]]

\* The contexts of length i that lose their last probability and have no
\* longer context below them.
Emptied(m, i, gone) ==
  {c \in Contexts(m, i) : /\ Explicit(m, c) \subseteq gone
                          /\ \A d \in Contexts(m, i + 1) : First(d, i) # c}

\* An N-gram that is itself a context is needed.
Needed(m, g) == g \in DOMAIN m.bow

\* pruneProbs at one level.  Whether an N-gram is below the perplexity
\* threshold is left open: `low' is the set of those that are.
PrunedLevel(m, i, low) ==
  LET sane == {c \in Contexts(m, i) : ~Negative(ComputeBOW(m, c, NoMinimum).num)}
      s    == Scaled(m, i, NoMinimum)
      gone == {g \in NgramsOf(m, i + 1) \cap low : Tail(g) \in sane /\ ~Needed(m, g)}
  IN  Without(s, gone, Emptied(m, i, gone) \cap sane)

\* pruneProbs: from the longest N-grams down to length minorder.
Pruned(m, low, minorder) ==
  LET level[k \in 0 .. Order - 1] ==
        IF k = 0 THEN m
        ELSE IF Order - k < minorder - 1 THEN level[k - 1]
        ELSE PrunedLevel(level[k - 1], Order - k, low)
  IN  Recomputed(level[Order - 1], NoMinimum)

\* pruneLowProbs at one level: the N-grams below their backed-off estimate.
LowPrunedLevel(m, i) ==
  LET gone == {g \in NgramsOf(m, i + 1) :
                 Less(m.prob[g], Times(m.bow[Tail(g)],
                                       WordProbBO(m, g[1], Tail(g), i - 1)))}
  IN  Without(m, gone, Emptied(m, i, gone))

\* One pass over the levels, and new weights.
LowPrunedPass(m, minorder) ==
  LET level[i \in 0 .. Order - 1] ==
        IF i < minorder - 1 THEN m ELSE LowPrunedLevel(level[i - 1], i)
  IN  [pruned |-> Cardinality(DOMAIN m.prob) # Cardinality(DOMAIN level[Order - 1].prob),
       model  |-> Recomputed(level[Order - 1], NoMinimum)]

\* The mistake of a single pass.
LowPruned_OnePass(m, minorder) == FixedUp(LowPrunedPass(m, minorder).model)

\* pruneLowProbs: passes until nothing is pruned, since each changes the
\* weights; then the contexts get back the probabilities they need.
LowPruned(m, minorder) ==
  LET pass[k \in 0 .. Cardinality(DOMAIN m.prob)] ==
        IF k = 0 THEN LowPrunedPass(m, minorder)
        ELSE LET before == pass[k - 1]
             IN  IF before.pruned THEN LowPrunedPass(before.model, minorder)
                                  ELSE before
  IN  FixedUp(pass[Cardinality(DOMAIN m.prob)].model)

----------------------------------------------------------------------------
(* Rescoring, writing and reading. *)

\* rescoreProbs: the N-grams of the model with the probabilities of another.
Rescored(m, m2) ==
  Recomputed([m EXCEPT !.prob = [g \in DOMAIN m.prob |->
                                   WordProb(m2, g[1], Tail(g))]], NoMinimum)

\* The mistake of writing no weight of one.
Written_NoTrivialBOW(m, order) ==
  [g \in {h \in DOMAIN m.prob : Len(h) <= order} |->
     [prob |-> m.prob[g],
      bow  |-> IF Len(g) < order /\ g \in DOMAIN m.bow /\ m.bow[g] # One
               THEN {m.bow[g]} ELSE {}]]

\* writeWithOrder: one line for every N-gram, with a weight when the N-gram
\* is a context.
Written(m, order) ==
  [g \in {h \in DOMAIN m.prob : Len(h) <= order} |->
     [prob |-> m.prob[g],
      bow  |-> IF Len(g) < order /\ g \in DOMAIN m.bow THEN {m.bow[g]} ELSE {}]]

\* read: lines in increasing length; a weight makes the N-gram a context,
\* and an N-gram whose context no shorter line has made is dropped.
ReadFrom(file, order) ==
  LET level[i \in 0 .. order] ==
        IF i = 0 THEN [Empty EXCEPT !.bow[<<>>] = Zero]
        ELSE LET part  == level[i - 1]
                 lines == {g \in DOMAIN file : Len(g) = i}
                 nodes == {g \in lines : i < order /\ file[g].bow # {}}
                 made  == InsertBOWs(part, nodes)
                 kept  == {g \in lines : Tail(g) \in DOMAIN made.bow}
             IN  [prob |-> With(part.prob, [g \in kept |-> file[g].prob]),
                  bow  |-> With(made.bow, [g \in nodes |-> CHOOSE b \in file[g].bow : TRUE])]
  IN  level[order]

----------------------------------------------------------------------------
(* The operations.  ngram-count estimates a model; ngram reads one, mixes  *)
(* it, renormalizes, prunes and rescores it, and writes it.                *)

\* The other models a run of ngram can name.
Others == {Estimated(s, d) : s \in Corpora, d \in Discounting}

Init == lm = Empty /\ last = <<"none">> /\ ops = 0

Becomes(m, by) ==
  /\ ops < MaxOps
  /\ ops' = ops + 1
  /\ last' = by
  /\ lm' = m

Estimate ==
  /\ last[1] = "none"
  /\ \E s \in Corpora, d \in Discounting : Becomes(Estimated(s, d), <<"Estimate", s>>)

Renormalize ==
  /\ last[1] # "none"
  /\ \E mass \in MinMasses : Becomes(Recomputed(lm, mass), <<"Renormalize">>)

Mix ==
  /\ last[1] # "none"
  /\ \E m2 \in Others, lambda \in Lambdas : Becomes(Mixed(lm, m2, lambda), <<"Mix">>)

Prune ==
  /\ last[1] # "none"
  /\ \E n \in MinPrunes :
       \E k \in 1 .. MaxPruned :
         \E low \in kSubset(k, {g \in DOMAIN lm.prob : Len(g) >= n}) :
           Becomes(Pruned(lm, low, n), <<"Prune", n>>)

PruneLow ==
  /\ last[1] # "none"
  /\ \E n \in MinPrunes : Becomes(LowPruned(lm, n), <<"PruneLow", n>>)

Rescore ==
  /\ last[1] # "none"
  /\ \E m2 \in Others : Becomes(Rescored(lm, m2), <<"Rescore">>)

\* The model is written by one program and read by the next.
WriteAndRead ==
  /\ last[1] # "none"
  /\ Becomes(ReadFrom(Written(lm, Order), Order), <<"Read">>)

Next == Estimate \/ Renormalize \/ Mix \/ Prune \/ PruneLow \/ Rescore \/ WriteAndRead

Spec == Init /\ [][Next]_vars

----------------------------------------------------------------------------
(* Properties. *)

\* The histories a word is predicted from: no </s>, and <s> only in front.
Histories ==
  {c \in UNION {[1 .. n -> Words \ {SentEnd}] : n \in 0 .. Order - 1} :
     \A i \in 1 .. Len(c) : c[i] = SentStart => i = Len(c)}

\* The context trie is closed under the walks that search it and holds the
\* context of every N-gram; no probability and no weight is negative.
TypeOK ==
  /\ <<>> \in DOMAIN lm.bow
  /\ \A c \in DOMAIN lm.bow : Prefixes(c) \subseteq DOMAIN lm.bow /\ Len(c) < Order
  /\ \A g \in DOMAIN lm.prob : g # <<>> /\ Tail(g) \in DOMAIN lm.bow
  /\ \A g \in DOMAIN lm.prob : ~Negative(lm.prob[g])
  /\ \A c \in DOMAIN lm.bow : ~Negative(lm.bow[c])

\* After every operation the model is a probability distribution: for every
\* history, seen or not, the probabilities of the words sum to one.  The
\* bows of NgramLM.cc (computeBOW, distributeProb) and the value fixupProbs
\* inserts exist for this.
Normalized ==
  last[1] # "none" =>
    \A c \in Histories : SumOfAll([w \in Events |-> WordProb(lm, w, c)]) = One

\* Every context has a probability as an N-gram, which is the only line of
\* the ARPA file its backoff weight can be written on: estimate and
\* pruneLowProbs end with fixupProbs for it, pruneProbs spares the N-grams
\* that are contexts, mixProbs gets the context with its N-gram.  A file
\* written with the first n orders and read again, also by a model of smaller
\* order, predicts as the model did from n - 1 words.
ReadsBack ==
  last[1] # "none" =>
    /\ \A c \in DOMAIN lm.bow \ {<<>>} : c \in DOMAIN lm.prob
    /\ \A n \in 1 .. Order : \A c \in Histories, w \in Events :
         WordProbBO(ReadFrom(Written(lm, n), n), w, c, n - 1) = WordProbBO(lm, w, c, n - 1)

\* contextID names all of a history that matters: words beyond its length
\* do not change any probability, and beyond the length for a given word
\* they change it by contextBOW.  LM clients and lattices that merge
\* histories rely on it.
ContextIDSuffices ==
  \A c \in Histories :
    LET n == ContextLength(lm, c)
    IN  \A w \in Events :
          LET k == ContextLengthOf(lm, w, c)
          IN  /\ WordProb(lm, w, c) = WordProb(lm, w, First(c, n))
              /\ WordProb(lm, w, c) = Times(WordProb(lm, w, First(c, k)),
                                            ContextBOW(lm, c, k))

\* Every word has been seen after a context if the N-grams that the trie holds
\* with a count of zero are taken for observations.
ZerosTakenAsSeen(stats, ctx) ==
  /\ Events \subseteq Followers(stats, ctx)
  /\ \E w \in Events : stats[Append(ctx, w)] = 0

\* After estimation with discounting, a word that was not seen after a
\* context has some probability there when it has some in the shorter one:
\* the retries of estimate2 (NgramLM.cc:1907-1918) are for this.  N-grams with a
\* count of zero are artifacts of the trie (1807) and not seen, but the retries
\* count them as seen (1733): the property is not kept where only they are missing.
UnseenWordsGetMass ==
  last[1] = "Estimate" =>
    \A c \in DOMAIN lm.bow, w \in Events :
      /\ c # <<>>
      /\ ~ZerosTakenAsSeen(last[2], Backwards(c))
      /\ Positive(WordProbBO(lm, w, c, Len(c) - 1))
      => Positive(WordProb(lm, w, c))

\* Some N-gram of length n or more is below its backed-off estimate.
HasLowProbs(m, n) ==
  \E g \in DOMAIN m.prob :
    /\ Len(g) >= n
    /\ Less(m.prob[g], Times(m.bow[Tail(g)], WordProbBO(m, g[1], Tail(g), Len(g) - 2)))

\* The same, for a model that comes with the weights recomputeBOWs gives it.
LowProbsPruned ==
  [][last'[1] = "PruneLow" /\ lm = Recomputed(lm, NoMinimum) =>
       ~HasLowProbs(lm', last'[2])]_vars

\* A destructive mix is the mixture of the two models as they were: every
\* N-gram of either gets the weighted mean of what each model gave it.
MixIsMixture ==
  [][last'[1] = "Mix" =>
       \E m2 \in Others, lambda \in Lambdas :
         /\ DOMAIN lm'.prob = DOMAIN lm.prob \cup DOMAIN m2.prob
         /\ \A g \in DOMAIN lm'.prob :
              lm'.prob[g] = MixProb(WordProb(lm, g[1], Tail(g)),
                                    WordProb(m2, g[1], Tail(g)), lambda)]_vars
=============================================================================
