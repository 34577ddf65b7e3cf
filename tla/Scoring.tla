------------------------------ MODULE Scoring -------------------------------
(***************************************************************************)
(* Language models built from others and models that adapt, stacked as     *)
(* lm/src/ngram.cc stacks them: unigram caches (CacheLM.cc), models loaded *)
(* on demand (DynamicLM.cc), mixtures whose weights follow the text        *)
(* (AdaptiveMix.cc), linear and log-linear mixtures (BayesMix.cc,          *)
(* LoglinearMix.cc) and unigram marginals (AdaptiveMarginals.cc).          *)
(*                                                                         *)
(* A model is a tree of records.  `kind' says what it is, `subs' has the   *)
(* models below it.  What changes in it is in a tree of the same shape,    *)
(* where `on' is the flag of sequential processing (LM::running).  Asking  *)
(* for a probability gives it (`p') and the changed tree (`s').            *)
(*                                                                         *)
(* The vocabulary is closed: <unk> is a non-event.  Exponents (likelihood  *)
(* scales, log-linear weights, the weight of marginals) are one or zero.   *)
(***************************************************************************)
EXTENDS HiddenModels

LOCAL INSTANCE TLC
LOCAL INSTANCE SequencesExt
LOCAL INSTANCE FiniteSetsExt

CONSTANTS Vocabulary,   \* the words and </s>: what the sums run over, with tags that are no words
          Files         \* the models that can be loaded by name

Hidden   == {"class", "hidden", "df", "hmm"}
Mixed    == {"bayes", "loglinear"}
DFEvents == {"@SDEL", "@DEL1", "@DEL2", "@REP1", "@REP2"}

RECURSIVE Pristine(_)
Pristine(m) ==
    CASE m.kind = "ngram" -> [on |-> FALSE]
      [] m.kind \in Hidden -> [on |-> FALSE, dp |-> Nothing, asked |-> <<>>]
      [] m.kind = "cache" -> [on |-> FALSE, ring |-> [i \in 1 .. m.length |-> NoWord], end |-> 0,
                              counts |-> <<>>, total |-> 0]
      [] m.kind = "dynamic" -> [on |-> FALSE, loaded |-> NoWord]
      [] m.kind = "adaptmix" -> [on |-> FALSE, posteriors |-> m.priors, history |-> <<>>, kept |-> 0,
                                 accumulating |-> TRUE]
      [] m.kind = "bayes" -> [on |-> FALSE, subs |-> [i \in DOMAIN m.subs |-> Pristine(m.subs[i])]]
      [] m.kind = "loglinear" -> [on |-> FALSE, subs |-> [i \in DOMAIN m.subs |-> Pristine(m.subs[i])],
                                  denoms |-> <<>>]
      [] m.kind = "marginals" -> [on |-> FALSE, subs |-> <<Pristine(m.subs[1])>>, denoms |-> <<>>,
                                  alphas |-> <<>>]

\* running(): the flag goes down to the models below.
RECURSIVE Running(_, _)
Running(s, flag) ==
    IF "subs" \in DOMAIN s
      THEN [s EXCEPT !.on = flag, !.subs = [i \in DOMAIN s.subs |-> Running(s.subs[i], flag)]]
      ELSE [s EXCEPT !.on = flag]

RECURSIVE NonWord(_, _)
NonWord(m, w) ==
    \/ w \in {SentStart, Unknown}
    \/ m.kind = "class" /\ w \in {d.class : d \in m.defs}
    \/ m.kind = "hidden" /\ w \in {e \in DOMAIN m.events : ~ m.events[e].observed}
    \/ m.kind = "df" /\ w \in DFEvents
    \/ m.kind \in Mixed \cup {"marginals"} /\ \E i \in DOMAIN m.subs : NonWord(m.subs[i], w)

\* The vocabulary without them.
WordsOf(m) == {w \in Vocabulary : ~ NonWord(m, w)}

\* contextID(): how much of a context a model uses, whatever the word.
RECURSIVE ContextUsed(_, _)
ContextUsed(m, c) ==
    CASE m.kind = "ngram" -> UsedLength(m.prob, c)
      [] m.kind \in Hidden \cup {"cache", "dynamic"} -> Len(c)
      [] m.kind = "adaptmix" -> Max({UsedLength(t, c) : t \in {m.tables[i] : i \in DOMAIN m.tables}})
      [] OTHER -> Max({ContextUsed(m.subs[i], c) : i \in DOMAIN m.subs})

-----------------------------------------------------------------------------
\* The cache of the last words.

CountOf(s, w) == IF w \in DOMAIN s.counts THEN s.counts[w] ELSE 0

\* The mistake of remembering words that are only asked about.
CacheAsked_Always(s, w) ==
    LET old == s.ring[s.end + 1]
        less == IF old = NoWord THEN s.counts ELSE [s.counts EXCEPT ![old] = @ - 1]
    IN  [s EXCEPT !.ring[s.end + 1] = w, !.end = (s.end + 1) % Len(s.ring),
                  !.counts = (w :> (IF w \in DOMAIN less THEN less[w] ELSE 0) + 1) @@ less,
                  !.total = IF old = NoWord THEN @ + 1 ELSE @]

\* The mistake of forgetting a word without uncounting it.
CacheAsked_StillCounted(s, w) ==
    LET old == s.ring[s.end + 1]
    IN  IF ~ s.on \/ Len(s.ring) = 0 THEN s
        ELSE [s EXCEPT !.ring[s.end + 1] = w, !.end = (s.end + 1) % Len(s.ring),
                       !.counts = (w :> CountOf(s, w) + 1) @@ s.counts,
                       !.total = IF old = NoWord THEN @ + 1 ELSE @]

CacheAsked(s, w) ==
    LET old == s.ring[s.end + 1]
        less == IF old = NoWord THEN s.counts ELSE [s.counts EXCEPT ![old] = @ - 1]
    IN  IF ~ s.on \/ Len(s.ring) = 0 THEN s
        ELSE [s EXCEPT !.ring[s.end + 1] = w, !.end = (s.end + 1) % Len(s.ring),
                       !.counts = (w :> (IF w \in DOMAIN less THEN less[w] ELSE 0) + 1) @@ less,
                       !.total = IF old = NoWord THEN @ + 1 ELSE @]

AskCache(s, w) ==
    IF w = Unknown THEN [s |-> s, p |-> Zero]
    ELSE [s |-> CacheAsked(s, w),
          p |-> IF s.total = 0 THEN Zero ELSE Ratio(CountOf(s, w), s.total)]

\* A model that setState() loads: the one loaded before is gone even when there is no such file.
Loaded(s, file) ==
    [s EXCEPT !.loaded = IF file = @ \/ file \in DOMAIN Files THEN file ELSE NoWord]

AskDynamic(s, w, c) ==
    [s |-> s, p |-> IF s.loaded = NoWord THEN Zero ELSE NgramProb(Files[s.loaded], w, c)]

-----------------------------------------------------------------------------
\* Mixture weights that follow the text: EM over the history, later words first, each word
\* weighing `decay' times the next one.

Power(q, n) == LET f[i \in 0 .. n] == IF i = 0 THEN One ELSE Times(q, f[i - 1]) IN f[n]
MinDecay == <<1, 1000>>

Shares(m, posteriors, probs) ==
    LET all == Total(LAMBDA i : Times(posteriors[i], probs[i]), DOMAIN posteriors)
    IN  [i \in DOMAIN posteriors |->
            IF all = Zero THEN Zero ELSE Over(Times(posteriors[i], probs[i]), all)]

\* The words that count: not yet decayed too much, and known to a component.
Samples(m, posteriors, history) ==
    {h \in DOMAIN history : /\ h = Len(history) \/ ~ Less(Power(m.decay, Len(history) - h), MinDecay)
                            /\ \E i \in DOMAIN posteriors : Positive(Times(posteriors[i], history[h][i]))}

Estimate(m, posteriors, history, samples) ==
    LET n == Total(LAMBDA h : Power(m.decay, Len(history) - h), samples)
    IN  IF samples = {} THEN posteriors
        ELSE [i \in DOMAIN posteriors |->
                Over(Total(LAMBDA h : Times(Power(m.decay, Len(history) - h),
                                            Shares(m, posteriors, history[h])[i]), samples), n)]

\* computePosteriors().
Posteriors(m, posteriors, history) ==
    LET iter[k \in 0 .. m.iters] ==
            IF k = 0 THEN posteriors
            ELSE Estimate(m, iter[k - 1], history, Samples(m, iter[k - 1], history))
    IN  iter[m.iters]

WithPosteriors(m, s) == [s EXCEPT !.posteriors = Posteriors(m, @, s.history)]

\* The likelihoods of a word, and at the end of a sentence the sentence kept or dropped.
Remembered(m, s, w, probs) ==
    LET more == Append(s.history, probs)
    IN  WithPosteriors(m,
          IF w # SentEnd THEN [s EXCEPT !.history = more]
          ELSE IF s.accumulating THEN [s EXCEPT !.history = more, !.kept = Len(more)]
          ELSE [s EXCEPT !.history = SubSeq(more, 1, s.kept)])

AskAdaptiveWith(m, s, w, probs) ==
    [s |-> IF s.on THEN Remembered(m, s, w, [i \in DOMAIN probs |-> IF m.llscale = 0 /\ Positive(probs[i])
                                                                      THEN One ELSE probs[i]])
           ELSE s,
     p |-> Total(LAMBDA i : Times(s.posteriors[i], probs[i]), DOMAIN probs)]

AskAdaptive(m, s, w, c) == AskAdaptiveWith(m, s, w, [i \in DOMAIN m.tables |-> NgramProb(m.tables[i], w, c)])

-----------------------------------------------------------------------------
\* Models that sum over hidden states: a call with the next context, and one that is promised to
\* be for the context of the last call (wordProbRecompute).

AskHiddenIn(s, c, r) == [s |-> [s EXCEPT !.dp = r.r, !.asked = c], p |-> Conditional(r)]
AskHidden(m, s, w, c) == AskHiddenIn(s, c, PrefixProb(m, s.dp, w, c))
AskHiddenAgain(m, s, w) == AskHiddenIn(s, s.asked, LastWord(m, s.dp, w, s.asked))

RECURSIVE Ask(_, _, _, _)

\* wordProb() or, `again', wordProbRecompute().
AskOnce(m, s, w, c, again) ==
    IF again /\ m.kind \in Hidden THEN AskHiddenAgain(m, s, w) ELSE Ask(m, s, w, c)

\* The models below, one after the other: `then' takes what was gathered and the next index.
FromLeft(then(_, _), first, subs) == FoldLeft(then, first, [i \in DOMAIN subs |-> i])

NextAsked(acc, i, r) == [subs |-> [acc.subs EXCEPT ![i] = r.s], ps |-> Append(acc.ps, r.p)]

AllAgain(m, subs, w, c) ==
    FromLeft(LAMBDA acc, i : NextAsked(acc, i, AskOnce(m.subs[i], acc.subs[i], w, c, TRUE)), [subs |-> subs, ps |-> <<>>], subs)

Multiplied(ps) == FoldLeft(Times, One, ps)

\* LM::contextProb: the probability of the last words as such, <s> being given that of </s>.
ContextWordProb(acc, r, w) ==
    [s |-> r.s, p |-> IF r.p # Zero \/ w \notin {SentStart, Unknown} THEN Times(acc.p, r.p) ELSE acc.p]

ContextProb(m, s, c, most) ==
    LET used == SubSeq(c, 1, IF most < Len(c) THEN most ELSE Len(c))
        Word(i) == IF i = Len(used) /\ used[i] = SentStart THEN SentEnd ELSE used[i]
        from == FoldLeft(LAMBDA acc, j :
                            ContextWordProb(acc, Ask(m, acc.s, Word(Len(used) + 1 - j),
                                                     SubSeq(used, Len(used) + 2 - j, Len(used))),
                                            Word(Len(used) + 1 - j)),
                         [s |-> Running(s, FALSE), p |-> One], [j \in DOMAIN used |-> j])
    IN  IF used = <<>> THEN [s |-> s, p |-> One] ELSE [from EXCEPT !.s = Running(@, s.on)]

-----------------------------------------------------------------------------
\* Linear mixtures.

NoWeights(q) == \A i \in DOMAIN q : q[i] = Zero

\* findPriors(): those of the longest known context, unless they are all zero.
PriorsOf(m, c) ==
    LET known == {k \in 0 .. (IF Len(c) < m.clength THEN Len(c) ELSE m.clength) :
                     SubSeq(c, 1, k) \in DOMAIN m.contextPriors}
    IN  IF known = {} THEN m.priors
        ELSE IF NoWeights(m.contextPriors[SubSeq(c, 1, Max(known))]) THEN m.priors
        ELSE m.contextPriors[SubSeq(c, 1, Max(known))]

\* A component's probability and then, with a likelihood scale, that of the context.
NextMixed(acc, i, r, k, prior) ==
    [subs |-> [acc.subs EXCEPT ![i] = k.s], ps |-> Append(acc.ps, r.p), weights |-> Append(acc.weights, Times(prior, k.p))]

WithContext(m, r, c, clength, llscale) ==
    IF llscale = 0 THEN [s |-> r.s, p |-> One] ELSE ContextProb(m, r.s, c, clength)

\* The mistake of taking the weights' sum for one.
Averaged_SumTaken(s, acc, priors) ==
    [s |-> [s EXCEPT !.subs = acc.subs],
     p |-> Total(LAMBDA i : Times(acc.weights[i], acc.ps[i]), DOMAIN acc.weights)]

Averaged(s, acc, priors) ==
    LET weights == IF NoWeights(acc.weights) THEN priors ELSE acc.weights
    IN  [s |-> [s EXCEPT !.subs = acc.subs],
         p |-> Over(Total(LAMBDA i : Times(weights[i], acc.ps[i]), DOMAIN weights),
                    Total(LAMBDA i : weights[i], DOMAIN weights))]

AskBayes(m, s, w, c, priors) ==
    Averaged(s, FromLeft(LAMBDA acc, i :
                             LET r == Ask(m.subs[i], acc.subs[i], w, c)
                             IN  NextMixed(acc, i, r, WithContext(m.subs[i], r, c, m.clength, m.llscale), priors[i]),
                         [subs |-> s.subs, ps |-> <<>>, weights |-> <<>>], s.subs), priors)

-----------------------------------------------------------------------------
\* Normalised products.  Their denominators are kept, for the context that is used; one that is
\* one is not trusted.

Quotient(p, q) == IF p = Zero THEN Zero ELSE Over(p, q)
Kept_Denominator(s, used) == used \in DOMAIN s.denoms /\ s.denoms[used] # One

\* The numerator of a log-linear mixture: no component is asked after one that gives zero.
Numerators(m, subs, w, c) ==
    FromLeft(LAMBDA acc, i : IF acc.ps # <<>> /\ Last(acc.ps) = Zero THEN acc
                             ELSE NextAsked(acc, i, Ask(m.subs[i], acc.subs[i], w, c)),
             [subs |-> subs, ps |-> <<>>], subs)

\* The sum of the products over all words, outside sequential processing.
SummedWord(acc, r) == [subs |-> r.subs, sum |-> Plus(acc.sum, Multiplied(r.ps))]
Summed(m, subs, c) ==
    FoldSet(LAMBDA w, acc : SummedWord(acc, AllAgain(m, acc.subs, w, c)),
            [subs |-> [i \in DOMAIN subs |-> Running(subs[i], FALSE)], sum |-> Zero], WordsOf(m))

Normalised(s, used, num, d) ==
    [s |-> [s EXCEPT !.subs = [i \in DOMAIN d.subs |-> Running(d.subs[i], num.subs[i].on)],
                     !.denoms = (used :> d.sum) @@ @],
     p |-> Quotient(Multiplied(num.ps), d.sum)]

AskLoglinear(m, s, used, num, c) ==
    IF Kept_Denominator(s, used)
      THEN [s |-> [s EXCEPT !.subs = num.subs], p |-> Quotient(Multiplied(num.ps), s.denoms[used])]
      ELSE Normalised(s, used, num, Summed(m, num.subs, c))

-----------------------------------------------------------------------------
\* Unigram marginals: probabilities scaled by what adaptation does to those of the words by
\* themselves.  The unadapted ones are the base model's own or those of another model.

ScaleOf(adapted, base) == IF base = Zero \/ adapted = Zero THEN Zero ELSE Over(adapted, base)

WithAlpha(acc, w, adapted, r) == [sub |-> r.s, alphas |-> (w :> ScaleOf(adapted, r.p)) @@ acc.alphas]

\* computeAlphas(), at the first call.
Alphas(m, s) ==
    FoldSet(LAMBDA w, acc :
                WithAlpha(acc, w, NgramProb(m.adapted, w, <<>>),
                          IF m.marginals # <<>> THEN [s |-> acc.sub, p |-> NgramProb(m.marginals, w, <<>>)]
                          ELSE Ask(m.subs[1], acc.sub, w, <<>>)),
            [sub |-> Running(s.subs[1], FALSE), alphas |-> <<>>], Vocabulary)

WithAlphas(m, s) ==
    IF s.alphas # <<>> THEN s
    ELSE LET a == Alphas(m, s)
         IN  [s EXCEPT !.alphas = a.alphas, !.subs = <<Running(a.sub, s.subs[1].on)>>]

AlphaOf(s, w) == IF w \in DOMAIN s.alphas THEN s.alphas[w] ELSE Zero

SummedScaled(acc, r, alpha) == [sub |-> r.s, sum |-> Plus(acc.sum, Times(r.p, alpha))]

SumScaled(m, s, sub, used) ==
    FoldSet(LAMBDA w, acc : SummedScaled(acc, AskOnce(m.subs[1], acc.sub, w, used, TRUE), AlphaOf(s, w)),
            [sub |-> Running(sub, FALSE), sum |-> Zero], WordsOf(m))

Scaled(m, s, used, alpha, r, sub, sum) ==
    [s |-> [s EXCEPT !.subs = <<sub>>, !.denoms = (used :> sum) @@ @],
     p |-> Quotient(IF m.ratios THEN alpha ELSE Times(r.p, alpha), sum)]

\* r is the answer of the base model.
AskMarginals(m, s, w, used, r) ==
    IF Kept_Denominator(s, used) THEN Scaled(m, s, used, AlphaOf(s, w), r, r.s, s.denoms[used])
    ELSE LET d == SumScaled(m, s, r.s, used)
         IN  Scaled(m, s, used, AlphaOf(s, w), r, Running(d.sub, s.subs[1].on), d.sum)

AskMarginalsFrom(m, s, w, used) == AskMarginals(m, s, w, used, Ask(m.subs[1], s.subs[1], w, used))

-----------------------------------------------------------------------------
\* wordProb().
Ask(m, s, w, c) ==
    CASE m.kind = "ngram"     -> [s |-> s, p |-> NgramProb(m.prob, w, c)]
      [] m.kind \in Hidden    -> AskHidden(m, s, w, c)
      [] m.kind = "cache"     -> AskCache(s, w)
      [] m.kind = "dynamic"   -> AskDynamic(s, w, c)
      [] m.kind = "adaptmix"  -> AskAdaptive(m, s, w, c)
      [] m.kind = "bayes"     -> AskBayes(m, s, w, c, PriorsOf(m, c))
      [] m.kind = "loglinear" -> AskLoglinear(m, s, SubSeq(c, 1, ContextUsed(m, c)), Numerators(m, s.subs, w, c), c)
      [] m.kind = "marginals" -> AskMarginalsFrom(m, WithAlphas(m, s), w, SubSeq(c, 1, ContextUsed(m, c)))

-----------------------------------------------------------------------------
(***************************************************************************)
(* Scoring with any language model: sentences (LM::sentenceProb), N-gram   *)
(* counts (countsProb), single questions, and the lines of a text that     *)
(* change the model (setState), as lm/src/ngram.cc reads them.             *)
(*                                                                         *)
(* A sentence may be scored quietly, with the probability of each word,    *)
(* with the sum of all words' probabilities before each word, or with the  *)
(* rank of each word after it.  A second copy of the model sees the same   *)
(* text always quietly.                                                    *)
(***************************************************************************)

CONSTANTS Setups,     \* models
          Sentences,  \* sentences scored
          Counts,     \* count files: from N-grams, first word first, to counts
          Lines,      \* lines for setState()
          Contexts,   \* contexts asked about
          MaxSteps    \* bound on the steps of a run

VARIABLES model,   \* the model
          state,   \* what changes in it
          quiet,   \* the same, of the copy
          said,    \* the words scored in sequence
          totals,  \* what the last step reported
          expected,\* what it reported of the copy
          steps    \* steps taken

vars == <<model, state, quiet, said, totals, expected, steps>>

-----------------------------------------------------------------------------
Modes == {"quiet", "words", "sums", "ranks"}

NoStats == [prob |-> One, sentences |-> 0, words |-> 0, oovs |-> 0, zeros |-> 0]

\* A word with its probability, `n' times.
Counted(stats, w, p, n) ==
    [stats EXCEPT !.prob = IF p = Zero THEN @ ELSE Times(@, Power(p, n)),
                  !.oovs = IF p = Zero /\ w = Unknown THEN @ + n ELSE @,
                  !.zeros = IF p = Zero /\ w # Unknown THEN @ + n ELSE @]

\* A question: the word and its context, in sequential processing or not, and whether the context
\* is promised to be that of the question before.  The answers to a sequence of them.
Question(w, c, on, again) == [w |-> w, c |-> c, on |-> on, again |-> again]

NextAnswer(acc, r) == [s |-> r.s, ps |-> Append(acc.ps, r.p)]
Answers(m, s, questions) ==
    LET r == FoldLeft(LAMBDA acc, q : NextAnswer(acc, AskOnce(m, Running(acc.s, q.on), q.w, q.c, q.again)),
                      [s |-> s, ps |-> <<>>], questions)
    IN  [r EXCEPT !.s = Running(@, s.on)]

\* wordProbSum() and updateRanks(): all words in a context, outside sequential processing.
AllWords(m, c) ==
    LET all == SetToSeq(WordsOf(m)) IN [i \in DOMAIN all |-> Question(all[i], c, FALSE, i > 1)]

\* A word of a text, with what is printed about it: sums before a word of a sentence but after
\* one of a count file, ranks after it.
OneWord(m, w, c, before, after) ==
    (IF before THEN AllWords(m, c) ELSE <<>>) \o <<Question(w, c, TRUE, FALSE)>>
    \o (IF after THEN AllWords(m, c) ELSE <<>>)

\* prepareSentence(): backwards, with </s> and <s>.
Prepared(words) == <<SentEnd>> \o Reverse(words) \o <<SentStart>>

WholeSentence(stats, words) == [stats EXCEPT !.sentences = @ + 1, !.words = @ + words]

\* LM::sentenceProb.
OfSentence(m, back, mode) ==
    FlattenSeq([j \in 1 .. Len(back) - 1 |->
        LET i == Len(back) - j IN OneWord(m, back[i], Beyond(back, i), mode = "sums", mode = "ranks")])

\* The text among the questions, each word counted as often as `times' says.
Texts(questions) == SelectSeq([i \in DOMAIN questions |-> <<questions[i], i>>], LAMBDA q : q[1].on)
Summary(questions, ps, times) ==
    FoldLeft(LAMBDA stats, j : Counted(stats, Texts(questions)[j][1].w, ps[Texts(questions)[j][2]], times[j]),
             NoStats, [j \in DOMAIN Texts(questions) |-> j])

\* The models with hidden states have one of their own, that goes through the sentence once.
InOneGo(s, back, r) ==
    [s |-> [s EXCEPT !.dp = r.r, !.asked = Tail(back)],
     stats |-> WholeSentence([NoStats EXCEPT !.prob = r.p, !.oovs = r.r.oovs, !.zeros = r.r.zeros], Len(back) - 2)]

WordByWord(questions, r, words) ==
    [s |-> r.s, stats |-> WholeSentence(Summary(questions, r.ps, [i \in 1 .. words + 1 |-> 1]), words)]

SentenceProb(m, s, back, mode, questions) ==
    IF m.kind \in Hidden /\ mode = "quiet" THEN InOneGo(s, back, PrefixProb(m, Nothing, Head(back), Tail(back)))
    ELSE WordByWord(questions, Answers(m, s, questions), Len(back) - 2)

\* countsProb(): the N-grams by length; their last words count as words or, </s>, as sentences.
Enumerated(counts) == SetToSortSeq({g \in DOMAIN counts : counts[g] > 0}, LAMBDA g, h : Len(g) < Len(h))

OfCounts(m, grams, mode) ==
    FlattenSeq([i \in DOMAIN grams |->
        OneWord(m, Last(grams[i]), Tail(Reverse(grams[i])), FALSE, mode \in {"sums", "ranks"})])

CountsProb(grams, counts, questions, r) ==
    LET Number(S) == FoldSet(LAMBDA g, n : n + counts[g], 0, S)
        ends == {g \in DOMAIN counts : Last(g) = SentEnd}
    IN  [s |-> r.s,
         stats |-> [Summary(questions, r.ps, [i \in DOMAIN grams |-> counts[grams[i]]])
                      EXCEPT !.sentences = Number(ends), !.words = Number(DOMAIN counts \ ends)]]

\* A sentence that setState() scores for an adaptive mixture.
Added(m, s, back) ==
    FoldLeft(LAMBDA acc, j : AskAdaptive(m, acc, back[Len(back) - j], Beyond(back, Len(back) - j)).s,
             [s EXCEPT !.accumulating = TRUE, !.on = TRUE], [j \in 1 .. Len(back) - 1 |-> j])

\* The same for a model in several places: each line goes to all of them.
RECURSIVE LineRead(_, _, _)
LineRead(m, s, line) ==
    CASE m.kind = "dynamic" -> Loaded(s, line.name)
      [] m.kind = "adaptmix" ->
           (CASE line.name = "RESET"        -> [s EXCEPT !.posteriors = m.priors, !.history = <<>>, !.kept = 0]
              [] line.name = "ACCUMULATE"   -> [s EXCEPT !.accumulating = TRUE]
              [] line.name = "NOACCUMULATE" -> [s EXCEPT !.accumulating = FALSE]
              [] line.name = "ADD"          ->
                   [Added(m, s, Prepared(line.words)) EXCEPT !.accumulating = s.accumulating, !.on = s.on]
              [] OTHER                      -> s)
      [] m.kind \in Mixed \cup {"marginals"} ->
           [s EXCEPT !.subs = [i \in DOMAIN s.subs |-> LineRead(m.subs[i], s.subs[i], line)]]
      [] OTHER -> s

-----------------------------------------------------------------------------
Init ==
    /\ model \in Setups
    /\ state = Pristine(model)
    /\ quiet = Pristine(model)
    /\ said = <<>>
    /\ totals = NoStats
    /\ expected = NoStats
    /\ steps = 0

Step == steps < MaxSteps /\ steps' = steps + 1 /\ UNCHANGED model

\* The model and the copy, with their own ways of doing the same.
Both == {"model", "copy"}
StateOf(k) == IF k = "model" THEN state ELSE quiet
Report(r) == state' = r["model"].s /\ totals' = r["model"].stats /\ quiet' = r["copy"].s /\ expected' = r["copy"].stats

Score(words, mode) ==
    /\ Step
    /\ \E r \in {[k \in Both |-> LET own == IF k = "model" THEN mode ELSE "quiet"
                                IN  SentenceProb(model, StateOf(k), Prepared(words), own,
                                                 OfSentence(model, Prepared(words), own))]} : Report(r)
    /\ said' = said \o Append(words, SentEnd)

ScoreCounts(counts, grams, mode) ==
    /\ Step
    /\ \E questions \in {[k \in Both |-> OfCounts(model, grams, IF k = "model" THEN mode ELSE "quiet")]} :
       \E r \in {[k \in Both |-> CountsProb(grams, counts, questions[k], Answers(model, StateOf(k), questions[k]))]} :
          Report(r)
    /\ said' = said \o [i \in DOMAIN grams |-> Last(grams[i])]

SetState(line) ==
    /\ Step
    /\ \E r \in {[k \in Both |-> LineRead(model, StateOf(k), line)]} : state' = r["model"] /\ quiet' = r["copy"]
    /\ UNCHANGED <<said, totals, expected>>

\* Questions between sentences: the probability of a context, and a word drawn in it.
AskContext(c) ==
    /\ Step
    /\ state' = ContextProb(model, state, c, Len(c)).s
    /\ UNCHANGED <<quiet, said, totals, expected>>

AskSum(c) ==
    /\ Step
    /\ state' = Answers(model, state, AllWords(model, c)).s
    /\ UNCHANGED <<quiet, said, totals, expected>>

Next ==
    \/ \E words \in Sentences, mode \in Modes : Score(words, mode)
    \/ \E counts \in Counts, mode \in {"quiet", "sums"} : ScoreCounts(counts, Enumerated(counts), mode)
    \/ \E line \in Lines : SetState(line)
    \/ \E c \in Contexts : AskContext(c) \/ AskSum(c)

Spec == Init /\ [][Next]_vars

-----------------------------------------------------------------------------
(* Properties. *)

\* What the parts are made of.
TypeOK ==
    /\ model \in Setups
    /\ ~ state.on /\ ~ quiet.on
    /\ said \in Seq(STRING)
    /\ \A r \in {totals, expected} : ~ Negative(r.prob) /\ r.oovs + r.zeros <= r.words + r.sentences
    /\ steps \in 0 .. MaxSteps

\* The caches in a model, with what changes in them.
RECURSIVE CachesIn(_, _)
CachesIn(m, s) ==
    IF m.kind = "cache" THEN {s}
    ELSE IF "subs" \in DOMAIN s THEN UNION {CachesIn(m.subs[i], s.subs[i]) : i \in DOMAIN s.subs}
    ELSE {}

\* The cache holds exactly the last words of the text, each counted as often as it is there:
\* nothing that was only asked for sums, ranks, denominators or contexts (CacheLM.cc:68).
HistoryKept ==
    \A s \in CachesIn(model, state) :
        LET words == SelectSeq(said, LAMBDA w : w # Unknown)
            last == SubSeq(words, Len(words) - Min({Len(words), Len(s.ring)}) + 1, Len(words))
        IN  /\ s.total = Len(last)
            /\ \A i \in DOMAIN last : s.ring[((s.end + i - 1 - Len(last) + Len(s.ring)) % Len(s.ring)) + 1] = last[i]
            /\ \A w \in DOMAIN s.counts : s.counts[w] = Cardinality({i \in DOMAIN last : last[i] = w})

\* Whatever is printed on the way, the text gets the same probability, the same numbers of words
\* out of the vocabulary and without probability; so does a sentence scored in one go by a model
\* with hidden states, as the product of its words (-debug 0 to 3).  Not so where DFNgram starts
\* anew after an unknown word, as it says itself (DFNgram.cc:533).
PrintingChangesNothing == (model.kind = "df" /\ totals.oovs > 0) \/ totals = expected

\* Questions about a text, for sums, ranks or traces, change neither the history nor the figures.
AskingChangesNothing == HistoryKept /\ PrintingChangesNothing

RECURSIVE Adapts(_)
Adapts(m) ==
    \/ m.kind \in {"cache", "dynamic", "adaptmix"}
    \/ "subs" \in DOMAIN m /\ \E i \in DOMAIN m.subs : Adapts(m.subs[i])

\* A model that does not adapt answers as if it were new, whatever it was asked before: the parts
\* of trellises and the denominators it keeps are right for the context at hand.
AnswersAreAsNew ==
    ~ Adapts(model) =>
        \A c \in Contexts : \A w \in Vocabulary :
            \E ps \in {[s \in {state, Pristine(model)} |-> Ask(model, s, w, c).p]} :
                Cardinality({ps[s] : s \in DOMAIN ps}) = 1

RECURSIVE Knows(_, _)
Knows(m, s) ==
    /\ m.kind # "df" /\ (m.kind = "cache" => s.total > 0) /\ (m.kind = "dynamic" => s.loaded # NoWord)
    /\ "subs" \in DOMAIN m => \A i \in DOMAIN m.subs : Knows(m.subs[i], s.subs[i])

\* In every context the words' probabilities add up to one, whatever came before.
SumsToOne == Knows(model, state) => \A c \in Contexts : \E ps \in {Answers(model, state, AllWords(model, c)).ps} :
        Total(LAMBDA i : ps[i], DOMAIN ps) = One

\* LoglinearMix.cc:113, "Use wordProbRecompute() here since the context stays the same": the
\* denominators a log-linear mixture keeps are the sums for their own contexts.
ContextStaysTheSame ==
    model.kind = "loglinear" =>
        \A c \in DOMAIN state.denoms :
            state.denoms[c] = Total(LAMBDA w : Multiplied([i \in DOMAIN model.subs |->
                                        Ask(model.subs[i], Pristine(model.subs[i]), w, c).p]), WordsOf(model))
=============================================================================
