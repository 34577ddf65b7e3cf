------------------------------ MODULE FNgramLM ------------------------------
(***************************************************************************)
(* flm/src: factored language models.  FNgramSpecs.cc reads which factors  *)
(* of nearby words (the parents) predict a factor (the child), and how     *)
(* sets of parents (the nodes of the backoff graph) lose parents one at a  *)
(* time; FactoredVocab.cc keeps the words of each tag; FNgramStats.cc      *)
(* counts, for every node in use, the child after the parents' factors;    *)
(* FDiscount.cc estimates discounts.  A context is a function from the     *)
(* parents of a node to words, and the counts of a node are a function     *)
(* from pairs of a context and a child's word.                             *)
(*   FNgramLM.cc, fngram-count.cc and fngram.cc: a model is estimated from *)
(* counts, written, read by another process that reads the counts again to *)
(* choose between the nodes to back off to, and asked for the probability  *)
(* of sentences.  Where several nodes are combined the probabilities       *)
(* passed down do not sum to one, and the weight that makes them is kept   *)
(* for the next question.                                                  *)
(***************************************************************************)
EXTENDS Rational, Sequences, FiniteSetsExt, Functions

LOCAL INSTANCE SequencesExt
LOCAL INSTANCE FiniteSetsExt

CONSTANTS
    Tags,           \* the tags of the factors, the word's own among them
    TagOf,          \* from the words a file can hold to the tags in their names
    UnkIsWord, NullIsWord,
    OpenVocab,      \* words that are not known are added
    VirtualBegin, VirtualEnd, AddStart, AddEnd

D == INSTANCE Discounts WITH NonEvents <- {}, TagCount <- <<>>

WordTag  == "W"
SentStart == "<s>"
SentEnd   == "</s>"
Unk       == "<unk>"
Null      == "<NULL>"
Pause     == "-pau-"
EmptySlot == "<empty>"
None      == "none"

-----------------------------------------------------------------------------
(* The vocabulary of each tag.                                             *)

TagSubVocabs ==
    [t \in Tags |-> {SentStart, SentEnd}
                      \cup (IF NullIsWord /\ t # WordTag THEN {Null} ELSE {})
                      \cup (IF UnkIsWord THEN {Unk} ELSE {})]

\* A name without a tag, which that of a special word is, is one of the word's.
TagOfName(w) == IF w \in DOMAIN TagOf THEN TagOf[w] ELSE WordTag

AddedTagWord(v, t, w) == [v EXCEPT ![t] = @ \cup {w}]

\* addWord2(): a word of an unknown tag is not added.
TagFound(w)    == TagOfName(w) \in Tags
AddedWord(v, w) == IF TagFound(w) THEN AddedTagWord(v, TagOfName(w), w) ELSE v

IndexOf(v, t, w) == IF w \in v[t] THEN w ELSE Unk

AlwaysNonEvent(w) == w \in {SentStart, Pause} \/ (w = Unk /\ ~UnkIsWord)

IsNonEvent(v, t, w) == AlwaysNonEvent(w) \/ w \notin v[t] \/ (~NullIsWord /\ w = Null)

Events(v, t) == {w \in v[t] : ~IsNonEvent(v, t, w)}

VocabSize(v, t) == Cardinality(Events(v, t))

\* loadWordFactors(): a factor without a tag takes the place of the word,
\* of two factors with a tag the first is used, and what is missing is null.
WordFactors(factors) ==
    LET untagged  == {i \in DOMAIN factors : factors[i].tag = None}
        tagged(t) == {i \in DOMAIN factors : factors[i].tag = t}
    IN  [t \in Tags |->
           IF t = WordTag /\ untagged # {} THEN factors[Max(untagged)].word
           ELSE IF tagged(t) # {} THEN factors[Min(tagged(t))].word
           ELSE Null]

-----------------------------------------------------------------------------
(* The backoff graph.                                                      *)

\* A node has its parents as the bits of its number.
RECURSIVE Number(_)
Number(node) == IF node = {} THEN 0 ELSE LET p == Max(node) IN 2 ^ (p - 1) + Number(node \ {p})

Nodes(spec) == SUBSET (DOMAIN spec.parents)
Top(spec)   == DOMAIN spec.parents

\* Descending by number, as the children of a node are visited.
InOrder(nodes) == SetToSortSeq(nodes, LAMBDA m, n : Number(m) > Number(n))

\* Level by level upwards, by number within a level.
ByLevel(nodes) == SetToSortSeq(nodes, LAMBDA m, n :
                      \/ Cardinality(m) < Cardinality(n)
                      \/ Cardinality(m) = Cardinality(n) /\ Number(m) < Number(n))

ChildNodes_NoConstraint(node, constraint) == {node \ {p} : p \in node}

\* One parent that the constraint allows is dropped.
ChildNodes(node, constraint) == {node \ {p} : p \in node \cap constraint}

Defaults(parents) ==
    [constraint |-> parents, strategy |-> "counts_sum_counts_norm", combine |-> "max",
     weights |-> <<>>, gtmin |-> 1, gtmax |-> 7, discount |-> "gt", cdiscount |-> None,
     interpolate |-> FALSE, modified |-> FALSE, atEnd |-> FALSE, knParent |-> None]

\* The order in which the choices of a discount are looked at.
DiscountRank == <<"gt", "ukn", "kn", "const", "wb", "natural">>
Stronger(new, old) == IF IndexFirstSubSeq(<<new>>, DiscountRank) > IndexFirstSubSeq(<<old>>, DiscountRank)
                      THEN new ELSE old

Without(opts) == IF opts = <<>> THEN opts ELSE Tail(opts)

\* The options of a node, from the left.  The weights of "combine wmean"
\* also use up the word that follows them.
RECURSIVE WithOptions(_, _)
WithOptions(sub, opts) ==
    IF opts = <<>> THEN sub
    ELSE LET o == Head(opts)
         IN  WithOptions(
               CASE o.key = "discount" -> [sub EXCEPT !.discount = Stronger(o.value, @)]
                 [] o.key = "cdiscount" -> [sub EXCEPT !.discount = Stronger("const", @), !.cdiscount = o.value]
                 [] o.key = "weights" -> [sub EXCEPT !.combine = "wmean", !.weights = o.value]
                 [] OTHER -> [sub EXCEPT ![o.key] = o.value],
               IF o.key = "weights" THEN Without(Tail(opts)) ELSE Tail(opts))

\* The weights are brought to a sum of one, in the order of the children.
Normed(weights) ==
    LET all == FoldFunction(Plus, Zero, weights)
    IN  [c \in DOMAIN weights |-> Over(weights[c], all)]

SubSets(spec) ==
    [node \in Nodes(spec) |->
       IF node \in DOMAIN spec.options
       THEN LET sub == WithOptions(Defaults(DOMAIN spec.parents), spec.options[node])
            IN  [sub EXCEPT !.weights = IF @ = <<>> THEN @ ELSE Normed(@)]
       ELSE Defaults(DOMAIN spec.parents)]

\* The same parent twice, or the child as its own parent.
BadParents(spec) ==
    \/ \E i, j \in DOMAIN spec.parents : i # j /\ spec.parents[i] = spec.parents[j]
    \/ \E i \in DOMAIN spec.parents : spec.parents[i] = [tag |-> spec.child, offset |-> 0]

\* Only the nodes that the backoff reaches from the top have counts.
RECURSIVE Reached(_, _)
Reached(sub, nodes) ==
    LET next == UNION {ChildNodes(n, sub[n].constraint) : n \in nodes}
    IN  IF nodes = {} THEN {} ELSE nodes \cup Reached(sub, next)

\* Nodes get their counts level by level, as children of the used ones.
GetsCountsFirst(sub, used, x, n) ==
    LET finder(c) == Min({Number(m) : m \in {m \in used : c \in ChildNodes(m, sub[m].constraint)}})
    IN  \/ Cardinality(x) > Cardinality(n)
        \/ /\ Cardinality(x) = Cardinality(n)
           /\ \/ finder(x) < finder(n)
              \/ finder(x) = finder(n) /\ Number(x) >= Number(n)

\* Every node but the last has a child, and Kneser-Ney's counts come from a
\* node that has some by then.
BadGraph(sub, used, top) ==
    \/ \E n \in used \ {{}} : ChildNodes(n, sub[n].constraint) = {}
    \/ \E n \in used : ~(DOMAIN sub[n].weights \subseteq ChildNodes(n, sub[n].constraint))
    \/ \E n \in used \ {top} : /\ sub[n].knParent # None
                              /\ \/ sub[n].knParent \notin used
                                 \/ ~GetsCountsFirst(sub, used, sub[n].knParent, n)

Rejected == [child |-> None]

Built(spec) ==
    LET sub  == SubSets(spec)
        used == Reached(sub, {DOMAIN spec.parents})
    IN  IF BadParents(spec) \/ BadGraph(sub, used, DOMAIN spec.parents) THEN Rejected
        ELSE [child |-> spec.child, parents |-> spec.parents, sub |-> sub, used |-> used]

Backoffs(spec, node) == ChildNodes(node, spec.sub[node].constraint)

\* The probabilities that are passed down do not sum to one by themselves.
RequiresGenBackoff(spec, node) ==
    /\ Cardinality(Backoffs(spec, node)) > 1
    /\ spec.sub[node].combine \notin {"avg", "wmean"}

-----------------------------------------------------------------------------
(* Counting.                                                               *)

Everywhere(w) == [t \in Tags |-> w]

\* The words of a line as rows, and the vocabulary that has the new ones.
Indexed(v, words) ==
    IF OpenVocab THEN [i \in DOMAIN words |-> words[i]]
    ELSE [i \in DOMAIN words |-> [t \in Tags |-> IndexOf(v, t, words[i][t])]]

WithWords(v, words) ==
    IF OpenVocab THEN [t \in Tags |-> v[t] \cup {words[i][t] : i \in DOMAIN words}] ELSE v

\* The marks of the sentence: one that is given at the start takes all
\* the factors of its row with it.
Padded(rows) ==
    (CASE rows[1][WordTag] = SentStart -> <<Everywhere(SentStart)>> \o Tail(rows)
       [] rows[1][WordTag] # SentStart /\ AddStart -> <<Everywhere(SentStart)>> \o rows
       [] OTHER -> rows)
    \o (IF rows[Len(rows)][WordTag] # SentEnd /\ AddEnd THEN <<Everywhere(SentEnd)>> ELSE <<>>)

\* The word a parent has at position i, with the marks beyond the ends.
ParentWord(m, parent, i, begin, end) ==
    CASE i + parent.offset < 1      -> begin
      [] i + parent.offset > Len(m) -> end
      [] OTHER                      -> m[i + parent.offset][parent.tag]

ContextAt(m, spec, node, i, begin, end) ==
    [p \in node |-> ParentWord(m, spec.parents[p], i, begin, end)]

\* A context that reaches beyond the sentence counts if there are virtual words.
Gram(m, spec, node, i) ==
    <<ContextAt(m, spec, node, i, IF VirtualBegin THEN SentStart ELSE None,
                                  IF VirtualEnd THEN SentEnd ELSE None),
      m[i][spec.child]>>

Complete(gram) == None \notin Range(gram[1])

AddedTo(f, gram, n) == [g \in DOMAIN f \cup {gram} |->
                           (IF g \in DOMAIN f THEN f[g] ELSE 0) + (IF g = gram THEN n ELSE 0)]

\* countSentence(): all positions, all nodes in use.
Counted(counts, spec, m, weight) ==
    [node \in DOMAIN counts |->
       FoldLeft(LAMBDA f, i : LET gram == Gram(m, spec, node, i)
                              IN  IF Complete(gram) THEN AddedTo(f, gram, weight) ELSE f,
                counts[node], [i \in 1 .. Len(m) |-> i])]

NoCounts(spec) == [node \in spec.used |-> <<>>]

OOVs(spec, rows) == Cardinality({i \in DOMAIN rows : rows[i][spec.child] = Unk})

\* write(): the lines of a file of counts.
WrittenCounts(counts) ==
    UNION {{[node |-> node, gram |-> g, count |-> counts[node][g]] : g \in DOMAIN counts[node]}
           : node \in DOMAIN counts}

WordsOf(line) == Range(line.gram[1]) \cup {line.gram[2]}

\* read(): a word of an unknown tag makes its line be skipped; in a closed
\* vocabulary lines can become the same.
LineRead(v, line) ==
    [line EXCEPT !.gram =
       <<[p \in DOMAIN @[1] |-> IF OpenVocab THEN @[1][p] ELSE IndexOf(v, TagOfName(@[1][p]), @[1][p])],
         IF OpenVocab THEN @[2] ELSE IndexOf(v, TagOfName(@[2]), @[2])>>]

Readable(line) == OpenVocab => \A w \in WordsOf(line) : TagFound(w)

ReadCounts(counts, v, file) ==
    FoldFunctionOnSet(LAMBDA line, cs :
                        [node \in DOMAIN cs \cup {line.node} |->
                            LET f == IF node \in DOMAIN cs THEN cs[node] ELSE <<>>
                            IN  IF node = line.node THEN AddedTo(f, LineRead(v, line).gram, line.count) ELSE f],
                      counts, [line \in file |-> line], {line \in file : Readable(line)})

VocabRead(v, file) ==
    IF OpenVocab THEN FoldSet(LAMBDA w, u : AddedWord(u, w), v, UNION {WordsOf(line) : line \in file}) ELSE v

-----------------------------------------------------------------------------
(* Discounts, estimated on the way up through the graph.                   *)

DiscountFor(sub) ==
    CASE sub.discount = "natural" -> [method |-> "Natural", mincount |-> sub.gtmin, vocabSize |-> 0]
      [] sub.discount = "wb"      -> [method |-> "WittenBell", mincount |-> sub.gtmin]
      [] sub.discount = "const"   -> [method |-> "Const", mincount |-> sub.gtmin, ds |-> <<sub.cdiscount>>]
      [] sub.discount = "kn"      -> [method |-> "ModKneserNey", mincount |-> sub.gtmin, ds |-> <<>>]
      [] sub.discount = "ukn"     -> [method |-> "KneserNey", mincount |-> sub.gtmin, ds |-> <<>>]
      [] sub.discount = "gt"      -> [method |-> "GoodTuring", mincount |-> sub.gtmin,
                                      maxcount |-> sub.gtmax, coeffs |-> <<>>]

\* The first word of an N-gram: that of the last parent, or the child.
FirstWord(g) == IF DOMAIN g[1] = {} THEN g[2] ELSE g[1][Max(DOMAIN g[1])]

KeepsCount(g) == AlwaysNonEvent(FirstWord(g)) \/ (NullIsWord /\ FirstWord(g) = Null)

\* The node with one parent more that the counts come from.
KNParent(spec, node) ==
    IF spec.sub[node].knParent # None THEN spec.sub[node].knParent
    ELSE Head(InOrder({n \in spec.used : node \subseteq n /\ Cardinality(n) = Cardinality(node) + 1}))

\* What stands for an N-gram of a larger node in a smaller one.
Shorter(g, node) == <<Restrict(g[1], node), g[2]>>

\* prepareCounts(): the number of N-grams of the parent that there are; those
\* that begin with a non-event keep their count, and get this one on top.
Prepared(counts, spec, node) ==
    LET longer == counts[KNParent(spec, node)]
        f == counts[node]
    IN  [g \in DOMAIN f |->
           (IF KeepsCount(g) THEN f[g] ELSE 0)
             + Cardinality({h \in DOMAIN longer : longer[h] > 0 /\ Shorter(h, node) = g})]

IsKN(sub) == sub.discount \in {"kn", "ukn"}

Modifies(spec, node) == IsKN(spec.sub[node]) /\ ~spec.sub[node].modified /\ node # Top(spec)

\* The counts of a node once its discount has been estimated.
CountsAfter(counts, spec, node) ==
    IF Modifies(spec, node) THEN [counts EXCEPT ![node] = Prepared(counts, spec, node)] ELSE counts

\* Good-Turing and Kneser-Ney only look at the N-grams that predict an event.
EventGrams(v, spec, f) == Restrict(f, {g \in DOMAIN f : ~IsNonEvent(v, spec.child, g[2])})

ModKNConstants(f, d) ==
    LET n == [c \in 1 .. 4 |-> D!TypeCount(f, 2, c)]
    IN  IF \E c \in DOMAIN n : n[c] = 0 THEN D!Failed ELSE [d EXCEPT !.ds = D!EstimatedModKN(n)]

EstimatedDiscount(v, spec, before, after, node) ==
    LET sub == spec.sub[node]
        d   == DiscountFor(sub)
        f   == EventGrams(v, spec, IF sub.atEnd THEN before[node] ELSE after[node])
    IN  CASE d.method = "GoodTuring"   -> D!EstimatedGT(f, 2, d)
          [] d.method = "Natural"      -> [d EXCEPT !.vocabSize = VocabSize(v, spec.child)]
          [] d.method = "KneserNey"    -> D!EstimatedConstants(f, 2, d)
          [] d.method = "ModKneserNey" -> ModKNConstants(f, d)
          [] OTHER                     -> d

\* estimateDiscounts(): counts and discounts, or a discount that failed.
EstimatedDiscounts(v, spec, counts) ==
    FoldLeft(LAMBDA s, node :
               LET after == CountsAfter(s.counts, spec, node)
               IN  [counts |-> after,
                    discounts |-> [n \in DOMAIN s.discounts \cup {node} |->
                       IF n = node THEN EstimatedDiscount(v, spec, s.counts, after, node) ELSE s.discounts[n]]],
             [counts |-> counts, discounts |-> <<>>], ByLevel(spec.used))

FailedDiscount(discounts) == \E n \in DOMAIN discounts : discounts[n] = D!Failed

-----------------------------------------------------------------------------
(* What a node is worth in a context, when one of several is chosen.       *)

Cards(v, spec, node) == <<Cardinality(v[spec.child])>> \o
                        [i \in 1 .. Cardinality(node) |->
                           Cardinality(v[spec.parents[SetToSortSeq(node, <)[i]].tag])]

ProdCardinalities(v, spec, node) == FoldSeq(LAMBDA a, b : a * b, 1, Cards(v, spec, node))
SumCardinalities(v, spec, node)  == FoldSeq(+, 0, Cards(v, spec, node))

GramsAfter(f, ctx) == {g \in DOMAIN f : g[1] = ctx}

CountSum(f, ctx) == FoldFunctionOnSet(+, 0, f, GramsAfter(f, ctx))

\* backoffValueRSubCtxW(), but for a node's probability.  The strategies that
\* say "sum_card" and "sum_log_card" have their norms exchanged.
CountValue(v, spec, counts, strategy, node, ctx, w) ==
    LET f == counts[node]
        c == Restrict(ctx, node)
        n == f[<<c, w>>]
    IN  IF <<c, w>> \notin DOMAIN f THEN Zero
        ELSE IF n = 0 THEN Zero
        ELSE CASE strategy = "counts_no_norm" -> <<n, 1>>
               [] strategy = "counts_sum_counts_norm" -> Ratio(n, CountSum(f, c))
               [] strategy = "counts_sum_num_words_norm" -> Ratio(n, Cardinality(GramsAfter(f, c)))
               [] strategy = "counts_prod_card_norm" -> Ratio(n, ProdCardinalities(v, spec, node))
               [] strategy = "counts_sum_log_card_norm" -> Ratio(n, SumCardinalities(v, spec, node))

-----------------------------------------------------------------------------
(* The tools.                                                              *)

CONSTANTS
    SpecChoices,    \* sequences of specifications
    TrainingLines, TestLines,    \* sequences of words, a word being a sequence of factors
    MaxTraining, MaxTests,
    NoiseWords,
    SkipOOVs, NoScoreMarks,
    MaxRetries      \* how often the denominator of a context is incremented

VARIABLES
    process,    \* "fngram-count" or "fngram"
    stage,      \* how far it has come
    specs, vocab, counts, discounts,
    lm,         \* by specification and node, probabilities and backoff weights
    files,      \* the counts and the models that have been written
    stats,      \* by specification, the statistics of the sentences scored
    trained,    \* how many lines have been counted or scored
    original    \* what the process that estimated the models would answer from

vars == <<process, stage, specs, vocab, counts, discounts, lm, files, stats, trained, original>>

-----------------------------------------------------------------------------
(* Probabilities.                                                          *)

\* What is needed beside the model to answer.
Env(s, v) == [spec |-> specs[s], counts |-> counts[s], vocab |-> v, words |-> v[specs[s].child]]

Infinite == <<1, 0>>
NaN      == <<0, 0>>

\* Logarithms are added: an infinite weight times zero is not a number.
Scaled(bow, p) ==
    IF bow = NaN \/ p = NaN THEN NaN
    ELSE IF bow = Infinite THEN IF p = Zero THEN NaN ELSE Infinite
    ELSE IF p = Infinite THEN IF bow = Zero THEN NaN ELSE Infinite
    ELSE Times(bow, p)

SumOver(f) ==
    IF NaN \in Range(f) THEN NaN
    ELSE IF Infinite \in Range(f) THEN Infinite
    ELSE FoldFunction(Plus, Zero, f)

Quotient(p, q) == IF q = Zero THEN (IF p = Zero THEN NaN ELSE Infinite)
                  ELSE IF q \in {NaN, Infinite} THEN NaN ELSE Over(p, q)

WeightOf(spec, node, child) ==
    LET weights == spec.sub[node].weights
    IN  IF child \in DOMAIN weights THEN weights[child] ELSE Zero

AllMultiplied(f) == FoldFunction(Scaled, One, f)

RECURSIVE WordProbBO(_, _, _, _, _), BgChildProbBO(_, _, _, _, _)

\* boNode(): the child that is worth most, or least; the highest of several.
BestOf(kids, value, most) ==
    Head(SelectSeq(InOrder(kids), LAMBDA k : \A l \in kids : IF most THEN ~Less(value[k], value[l])
                                                             ELSE ~Less(value[l], value[k])))

BoNode(e, m, node, ctx, w) ==
    LET kids == Backoffs(e.spec, node)
        sub  == e.spec.sub[node]
        value == [k \in kids |->
                    IF sub.strategy = "bog_node_prob" THEN WordProbBO(e, m, k, ctx, w)
                    ELSE CountValue(e.vocab, e.spec, e.counts, sub.strategy, k, ctx, w)]
    IN  IF Cardinality(node) = 1 THEN {} ELSE BestOf(kids, value, sub.combine = "max")

BgChildProbBO(e, m, node, ctx, w) ==
    LET kids == Backoffs(e.spec, node)
        combine == e.spec.sub[node].combine
        probs == [k \in kids |-> WordProbBO(e, m, k, ctx, w)]
    IN  IF Cardinality(kids) = 1 THEN probs[CHOOSE k \in kids : TRUE]
        ELSE CASE combine = "prod"  -> AllMultiplied(probs)
               [] combine = "sum"   -> SumOver(probs)
               [] combine = "avg"   -> Scaled(SumOver(probs), <<1, Cardinality(kids)>>)
               [] combine = "wmean" -> SumOver([k \in kids |-> Scaled(probs[k], WeightOf(e.spec, node, k))])
               [] combine \in {"max", "min"} -> WordProbBO(e, m, BoNode(e, m, node, ctx, w), ctx, w)

BgChildProbSum(e, m, node, ctx) == SumOver([w \in e.words |-> BgChildProbBO(e, m, node, ctx, w)])

\* The weight of a context: the one that is kept or, where the children's
\* probabilities do not sum to one, their sum's inverse.
BowFor(e, m, node, ctx) ==
    LET c == Restrict(ctx, node)
    IN  IF c \in DOMAIN m[node].bows THEN m[node].bows[c]
        ELSE IF RequiresGenBackoff(e.spec, node) THEN Quotient(One, BgChildProbSum(e, m, node, ctx))
        ELSE One

WordProbBO(e, m, node, ctx, w) ==
    LET gram == <<Restrict(ctx, node), w>>
    IN  IF gram \in DOMAIN m[node].probs THEN m[node].probs[gram]
        ELSE IF node = {} THEN Zero
        ELSE Scaled(BowFor(e, m, node, ctx), BgChildProbBO(e, m, node, ctx, w))

\* wordProbSum() of a context.
WordProbSum(e, m, node, ctx) == SumOver([w \in e.words |-> WordProbBO(e, m, node, ctx, w)])

\* The contexts whose weight is computed, and kept, for a question.
RECURSIVE Asked(_, _, _, _, _)
Asked(e, m, node, ctx, w) ==
    LET c      == Restrict(ctx, node)
        sub    == e.spec.sub[node]
        kids   == Backoffs(e.spec, node)
        chosen == IF Cardinality(kids) > 1 /\ sub.combine \in {"max", "min"} /\ sub.strategy # "bog_node_prob"
                  THEN {} ELSE kids
        below(x) == UNION {Asked(e, m, k, ctx, x) : k \in
                             IF chosen = {} THEN {BoNode(e, m, node, ctx, x)} ELSE chosen}
    IN  IF node = {} \/ <<c, w>> \in DOMAIN m[node].probs THEN {}
        ELSE IF RequiresGenBackoff(e.spec, node) /\ c \notin DOMAIN m[node].bows
        THEN {<<node, c>>} \cup UNION {below(x) : x \in e.words}
        ELSE below(w)

Kept_Sum(e, m, asked) ==
    [node \in DOMAIN m |->
       LET new == {a[2] : a \in {a \in asked : a[1] = node}} \ DOMAIN m[node].bows
       IN  [m[node] EXCEPT !.bows = [c \in DOMAIN @ \cup new |->
                                       IF c \in DOMAIN @ THEN @[c] ELSE BgChildProbSum(e, m, node, c)]]]

\* The model that keeps the weights of the contexts asked for.
Kept(e, m, asked) ==
    [node \in DOMAIN m |->
       LET new == {a[2] : a \in {a \in asked : a[1] = node}} \ DOMAIN m[node].bows
       IN  [m[node] EXCEPT !.bows = [c \in DOMAIN @ \cup new |->
                                       IF c \in DOMAIN @ THEN @[c] ELSE BowFor(e, m, node, c)]]]

-----------------------------------------------------------------------------
(* Estimation of one node after the other, from the smallest.              *)

EmptyNode == [probs |-> <<>>, bows |-> <<>>]

\* Contexts with an unknown word are not used unless it is a word.
Contexts(f, node) ==
    {c \in {g[1] : g \in DOMAIN f} \cup (IF node = {} THEN {<<>>} ELSE {}) : UnkIsWord \/ Unk \notin Range(c)}

Following(f, c) == {g[2] : g \in GramsAfter(f, c)}

EventsAfter(e, f, c) == {w \in Following(f, c) : ~IsNonEvent(e.vocab, e.spec.child, w)}

\* The number of words seen so often, or more.
SeenAtLeast(e, f, c, n) == Cardinality({w \in EventsAfter(e, f, c) : f[<<c, w>>] >= n})

TotalCount(e, f, c) == FoldFunctionOnSet(+, 0, f, {<<c, w>> : w \in EventsAfter(e, f, c)})

\* What a shorter context gives a word; the last one, the uniform distribution.
LowerOrder(e, m, node, c, w) ==
    IF node = {} THEN <<1, VocabSize(e.vocab, e.spec.child)>> ELSE BgChildProbBO(e, m, node, c, w)

Coefficient(e, node, d, c, w, total) ==
    IF D!NoDiscounting(d) THEN One
    ELSE D!Retained(d, e.counts[node][<<c, w>>], total, SeenAtLeast(e, e.counts[node], c, 0))

Explicit(e, m, node, d, c, w, total) ==
    LET f == e.counts[node]
        own == Over(Times(Coefficient(e, node, d, c, w, total), <<f[<<c, w>>], 1>>), <<total, 1>>)
    IN  IF e.spec.sub[node].interpolate
        THEN Plus(own, Times(D!InterpolationWeight(d, total, <<SeenAtLeast(e, f, c, 0), SeenAtLeast(e, f, c, 2),
                                                               SeenAtLeast(e, f, c, 3)>>),
                             LowerOrder(e, m, node, c, w)))
        ELSE own

KeptWords(e, node, d, c, total) ==
    {w \in EventsAfter(e, e.counts[node], c) : Coefficient(e, node, d, c, w, total) # Zero}

MassUsed(e, m, node, d, c, total) ==
    SumOver([w \in KeptWords(e, node, d, c, total) |-> Explicit(e, m, node, d, c, w, total)])

\* The denominator is incremented until something is left for other words.
Denominator(e, m, node, d, c) ==
    LET total == TotalCount(e, e.counts[node], c)
    IN  IF D!NoDiscounting(d) THEN total
        ELSE CHOOSE t \in total .. total + MaxRetries :
               /\ Less(MassUsed(e, m, node, d, c, t), One)
               /\ \A u \in total .. t - 1 : ~Less(MassUsed(e, m, node, d, c, u), One)

\* Words that are not predicted are only kept by the last node, with zero.
ZeroWords(e, node, c) ==
    IF node = {} THEN (Following(e.counts[node], c) \ (EventsAfter(e, e.counts[node], c) \cup {Unk})) ELSE {}

ContextProbs(e, m, node, d, c, total) ==
    LET kept == KeptWords(e, node, d, c, total)
    IN  [g \in {<<c, w>> : w \in kept \cup ZeroWords(e, node, c)} |->
           IF g[2] \in kept THEN Explicit(e, m, node, d, c, g[2], total) ELSE Zero]

NodeProbs(e, m, node, d) ==
    FoldSet(LAMBDA c, f : IF TotalCount(e, e.counts[node], c) = 0 THEN f
                          ELSE ContextProbs(e, m, node, d, c, Denominator(e, m, node, d, c)) @@ f,
            IF node = {} THEN <<<<>>, SentStart>> :> Zero ELSE <<>>, Contexts(e.counts[node], node))

ExplicitWords(m, node, c) == {g[2] : g \in {g \in DOMAIN m[node].probs : g[1] = c}}

MassLeft(m, node, c) ==
    Minus(One, SumOver([w \in ExplicitWords(m, node, c) |-> m[node].probs[<<c, w>>]]))

\* computeBOW1child(): the children's probabilities sum to one.
Bow1Child(e, m, node, c) ==
    LET num == MassLeft(m, node, c)
        den == Minus(One, SumOver([w \in ExplicitWords(m, node, c) |-> BgChildProbBO(e, m, node, c, w)]))
    IN  IF Negative(num) THEN Zero
        ELSE IF ~Positive(den) THEN (IF Positive(num) THEN Zero ELSE One)
        ELSE Over(num, den)

BowGen_AllWords(e, m, node, c) ==
    LET num == MassLeft(m, node, c)
        den == BgChildProbSum(e, m, node, c)
    IN  IF Negative(num) THEN Zero ELSE IF num = Zero THEN One ELSE Quotient(num, den)

\* computeBOW(): the children's probabilities of the other words are added up.
BowGen(e, m, node, c) ==
    LET num == MassLeft(m, node, c)
        den == SumOver([w \in e.words \ ExplicitWords(m, node, c) |-> BgChildProbBO(e, m, node, c, w)])
    IN  IF Negative(num) THEN Zero ELSE IF num = Zero THEN One ELSE Quotient(num, den)

Bow(e, m, node, c) == IF RequiresGenBackoff(e.spec, node) THEN BowGen(e, m, node, c) ELSE Bow1Child(e, m, node, c)

\* distributeProb(): the mass left goes to the events without probability, or to all.
Distributed(e, probs, mass) ==
    LET events == Events(e.vocab, e.spec.child)
        prob(w) == IF <<<<>>, w>> \in DOMAIN probs THEN probs[<<<<>>, w>>] ELSE Zero
        zeros  == {w \in events : prob(w) = Zero}
        given  == IF zeros # {} THEN zeros ELSE events
    IN  [g \in DOMAIN probs \cup {<<<<>>, w>> : w \in events} |->
           IF g[2] \in given THEN Plus(prob(g[2]), Over(mass, <<Cardinality(given), 1>>)) ELSE prob(g[2])]

WithWeights(e, m, node) ==
    IF node = {} THEN LET mass == MassLeft(m, node, <<>>)
                      IN  IF Negative(mass) THEN m
                          ELSE [m EXCEPT ![node].probs = Distributed(e, @, mass)]
    ELSE [m EXCEPT ![node].bows = [c \in {g[1] : g \in DOMAIN m[node].probs} |-> Bow(e, m, node, c)]]

EstimatedNode(e, m, node, d) ==
    WithWeights(e, [m EXCEPT ![node].probs = NodeProbs(e, m, node, d)], node)

\* The weights that are kept on the way are not written, and are left out here.
Estimated(e, ds) ==
    FoldLeft(LAMBDA m, node : EstimatedNode(e, m, node, ds[node]),
             [node \in e.spec.used |-> EmptyNode], ByLevel(e.spec.used))

\* write(): the weights are written with the first word of a context.
Written(m) ==
    [node \in DOMAIN m |->
       [m[node] EXCEPT !.bows = Restrict(@, DOMAIN @ \cap {g[1] : g \in DOMAIN m[node].probs})]]

\* read(): the words are added to the vocabulary.
WordsIn(m) == UNION {UNION {Range(g[1]) \cup {g[2]} : g \in DOMAIN m[node].probs} : node \in DOMAIN m}
VocabOf(v, m) == FoldSet(LAMBDA w, u : AddedWord(u, w), v, WordsIn(m))

-----------------------------------------------------------------------------
(* Sentences.                                                              *)

Framed(rows) ==
    (IF rows[1][WordTag] = SentStart THEN <<Everywhere(SentStart)>> \o Tail(rows)
     ELSE <<Everywhere(SentStart)>> \o rows)

\* sentenceProb(): the marks take all factors of their rows.
Marked(rows) ==
    LET framed == Framed(rows)
        last   == Len(framed)
    IN  IF rows[Len(rows)][WordTag] = SentEnd THEN [framed EXCEPT ![last] = Everywhere(SentEnd)]
        ELSE Append(framed, Everywhere(SentEnd))

FromPast(spec)   == \A p \in DOMAIN spec.parents : spec.parents[p].offset <= 0
FromFuture(spec) == \A p \in DOMAIN spec.parents : spec.parents[p].offset >= 0

\* The marks that are predicted.
Scored(spec, m) ==
    CASE NoScoreMarks     -> 2 .. Len(m) - 1
      [] ~NoScoreMarks /\ FromPast(spec) -> 2 .. Len(m)
      [] ~NoScoreMarks /\ ~FromPast(spec) /\ FromFuture(spec) -> 1 .. Len(m) - 1
      [] OTHER            -> 2 .. Len(m) - 1

\* An empty slot has not been seen: the words that are missing are backed off from.
ContextOf(spec, m, i) ==
    ContextAt(m, spec, Top(spec), i, IF VirtualBegin THEN SentStart ELSE EmptySlot,
                                     IF VirtualEnd THEN SentEnd ELSE EmptySlot)

HasUnk(spec, m, i) == m[i][spec.child] = Unk \/ Unk \in Range(ContextOf(spec, m, i))

ScoredWords(spec, m) == {i \in Scored(spec, m) : m[i][spec.child] \notin NoiseWords \cup {Pause}}

\* wordProb() of the word at one position.
WordProbAt(e, lmodel, m, i) ==
    IF SkipOOVs /\ HasUnk(e.spec, m, i) THEN Zero
    ELSE WordProbBO(e, lmodel, Top(e.spec), ContextOf(e.spec, m, i), m[i][e.spec.child])

NoStats == [sentences |-> 0, words |-> 0, oovs |-> 0, zeros |-> 0, prob |-> One]

\* What a sentence adds to the statistics of a specification.
SentenceStats(e, lmodel, m, before) ==
    LET probs == [i \in ScoredWords(e.spec, m) |-> WordProbAt(e, lmodel, m, i)]
        none  == {i \in DOMAIN probs : probs[i] = Zero}
        oovs  == {i \in none : m[i][e.spec.child] = Unk}
    IN  [sentences |-> before.sentences + 1, words |-> before.words + Len(m) - 2,
         oovs |-> before.oovs + Cardinality(oovs), zeros |-> before.zeros + Cardinality(none \ oovs),
         prob |-> Scaled(before.prob, AllMultiplied(Restrict(probs, DOMAIN probs \ none)))]

AskedBy(e, lmodel, m) ==
    UNION {Asked(e, lmodel, Top(e.spec), ContextOf(e.spec, m, i), m[i][e.spec.child]) :
             i \in {i \in ScoredWords(e.spec, m) : ~(SkipOOVs /\ HasUnk(e.spec, m, i))}}

-----------------------------------------------------------------------------
(* The tools.                                                              *)

Rows(line) == [i \in DOMAIN line |-> WordFactors(line[i])]

Exited == /\ stage' = "exited"
          /\ UNCHANGED <<process, specs, vocab, counts, discounts, lm, files, stats, trained, original>>

Init ==
    \E choice \in SpecChoices :
      /\ process = "fngram-count"
      /\ specs = [s \in DOMAIN choice |-> Built(choice[s])]
      /\ vocab = TagSubVocabs
      /\ counts = [s \in DOMAIN choice |-> IF specs[s] = Rejected THEN <<>> ELSE NoCounts(specs[s])]
      /\ stage = IF Rejected \in Range(specs) THEN "exited" ELSE "counting"
      /\ discounts = [s \in DOMAIN choice |-> <<>>]
      /\ lm = [s \in DOMAIN choice |-> <<>>]
      /\ files = [counts |-> None, lm |-> None]
      /\ stats = [s \in DOMAIN choice |-> NoStats]
      /\ trained = 0
      /\ original = None

CountLine(line) ==
    LET rows == Indexed(vocab, Rows(line))
    IN  /\ process = "fngram-count" /\ stage = "counting" /\ trained < MaxTraining
        /\ vocab' = WithWords(vocab, Rows(line))
        /\ counts' = [s \in DOMAIN specs |-> Counted(counts[s], specs[s], Padded(rows), 1)]
        /\ stats' = [s \in DOMAIN specs |->
                       [stats[s] EXCEPT !.words = @ + Len(Padded(rows)) - 1, !.sentences = @ + 1,
                                        !.oovs = @ + IF OpenVocab THEN 0 ELSE OOVs(specs[s], rows)]]
        /\ trained' = trained + 1
        /\ UNCHANGED <<process, stage, specs, discounts, lm, files, original>>

WriteCounts ==
    /\ process = "fngram-count" /\ stage = "counting" /\ trained > 0
    /\ stage' = "counted"
    /\ files' = [files EXCEPT !.counts = [s \in DOMAIN specs |-> WrittenCounts(counts[s])]]
    /\ UNCHANGED <<process, specs, vocab, counts, discounts, lm, stats, trained, original>>

EstimateDiscounts ==
    LET estimated == [s \in DOMAIN specs |-> EstimatedDiscounts(vocab, specs[s], counts[s])]
    IN  /\ stage = "counted"
        /\ IF \E s \in DOMAIN specs : FailedDiscount(estimated[s].discounts) THEN Exited
           ELSE /\ stage' = "discounted"
                /\ counts' = [s \in DOMAIN specs |-> estimated[s].counts]
                /\ discounts' = [s \in DOMAIN specs |-> estimated[s].discounts]
                /\ UNCHANGED <<process, specs, vocab, lm, files, stats, trained, original>>

\* estimate(), for one specification after the other.
EstimateLM ==
    /\ process = "fngram-count" /\ stage = "discounted"
    /\ stage' = "estimated"
    /\ lm' = [s \in DOMAIN specs |-> Estimated(Env(s, vocab), discounts[s])]
    /\ UNCHANGED <<process, specs, vocab, counts, discounts, files, stats, trained, original>>

WriteLM ==
    /\ process = "fngram-count" /\ stage = "estimated"
    /\ stage' = "written"
    /\ files' = [files EXCEPT !.lm = [s \in DOMAIN specs |-> Written(lm[s])]]
    /\ UNCHANGED <<process, specs, vocab, counts, discounts, lm, stats, trained, original>>

\* fngram begins with an empty vocabulary and reads the counts.
StartFngram ==
    /\ stage = "written"
    /\ process' = "fngram"
    /\ stage' = "counted"
    /\ vocab' = FoldLeft(VocabRead, TagSubVocabs, files.counts)
    /\ counts' = [s \in DOMAIN specs |-> ReadCounts(NoCounts(specs[s]), vocab', files.counts[s])]
    /\ discounts' = [s \in DOMAIN specs |-> <<>>]
    /\ lm' = [s \in DOMAIN specs |-> <<>>]
    /\ stats' = [s \in DOMAIN specs |-> NoStats]
    /\ trained' = 0
    /\ original' = [s \in DOMAIN specs |-> [env |-> Env(s, vocab), lm |-> lm[s]]]
    /\ UNCHANGED <<specs, files>>

ReadLM ==
    /\ process = "fngram" /\ stage = "discounted"
    /\ stage' = "scoring"
    /\ lm' = files.lm
    /\ vocab' = FoldLeft(VocabOf, vocab, files.lm)
    /\ UNCHANGED <<process, specs, counts, discounts, files, stats, trained, original>>

\* A line of the text of pplFile(); the weights that are computed are kept.
Score(line) ==
    LET m == Marked([i \in DOMAIN line |-> [t \in Tags |-> IndexOf(vocab, t, Rows(line)[i][t])]])
    IN  /\ process = "fngram" /\ stage = "scoring" /\ trained < MaxTests
        /\ stats' = [s \in DOMAIN specs |-> SentenceStats(Env(s, vocab), lm[s], m, stats[s])]
        /\ lm' = [s \in DOMAIN specs |-> Kept(Env(s, vocab), lm[s], AskedBy(Env(s, vocab), lm[s], m))]
        /\ trained' = trained + 1
        /\ UNCHANGED <<process, stage, specs, vocab, counts, discounts, files, original>>

\* A hypothesis of rescoreFile(): its words are added, and its statistics
\* are only used to warn.
Rescore(line) ==
    LET m == Marked(Rows(line))
    IN  /\ process = "fngram" /\ stage = "scoring" /\ trained < MaxTests
        /\ vocab' = WithWords(vocab, Rows(line))
        /\ lm' = [s \in DOMAIN specs |-> Kept(Env(s, vocab'), lm[s], AskedBy(Env(s, vocab'), lm[s], m))]
        /\ stats' = [s \in DOMAIN specs |-> NoStats]
        /\ trained' = trained + 1
        /\ UNCHANGED <<process, stage, specs, counts, discounts, files, original>>

Next ==
    \/ \E line \in TrainingLines : CountLine(line)
    \/ WriteCounts
    \/ EstimateDiscounts
    \/ EstimateLM
    \/ WriteLM
    \/ StartFngram
    \/ ReadLM
    \/ \E line \in TestLines : Score(line) \/ Rescore(line)

Spec == Init /\ [][Next]_vars

-----------------------------------------------------------------------------
(* Properties.                                                             *)

\* The contexts a question can have.
ContextsOf(spec, node, v) ==
    LET words(p) == v[spec.parents[p].tag]
    IN  {c \in [node -> UNION {words(p) : p \in node}] : \A p \in node : c[p] \in words(p)}

\* fngram answers what the process that estimated the models would have
\* answered, whatever has been asked before.
AnswersKept ==
    stage = "scoring" =>
      \A s \in DOMAIN specs :
        LET e == Env(s, vocab)  o == original[s]  top == Top(specs[s])
        IN  \A c \in ContextsOf(specs[s], top, o.env.vocab), w \in o.env.words :
              WordProbBO(e, lm[s], top, c, w) = WordProbBO(o.env, o.lm, top, c, w)

\* All events have a probability of their own after the context: whatever mass
\* is left has nowhere to go, and is lost (one child) or makes the weight
\* infinite (several).
Saturated(s, node, c) ==
    node # {} /\ Events(vocab, specs[s].child) \subseteq ExplicitWords(lm[s], node, c)

\* After estimation the probabilities sum to one in every context of every
\* node, seen or not, unless a context that is backed off to is saturated:
\* FNgramLM::wordProbSum() checks the ones it meets.
Normalized ==
    stage = "estimated" =>
      \A s \in DOMAIN specs : \A node \in specs[s].used :
        \A c \in ContextsOf(specs[s], node, vocab) :
          \/ \E below \in SUBSET node \cap specs[s].used : Saturated(s, below, Restrict(c, below))
          \/ WordProbSum(Env(s, vocab), lm[s], node, c) = One
=============================================================================
