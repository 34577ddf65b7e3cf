----------------------------- MODULE MCScoring ------------------------------
(* Small models of every kind over the words a and b, stacks of them, and   *)
(* taggers.                                                                *)
EXTENDS Scoring, TLC

P(n, d) == <<n, d>>
H == <<1, 2>>
Q == <<1, 4>>

\* Bigram models.
T1 == (<<>> :> ("a" :> H @@ "b" :> Q @@ "</s>" :> Q))
      @@ (<<"<s>">> :> ("a" :> H @@ "b" :> Q @@ "</s>" :> Q))
      @@ (<<"a">> :> ("a" :> Q @@ "b" :> Q @@ "</s>" :> H))
T2 == (<<>> :> ("a" :> Q @@ "b" :> H @@ "</s>" :> Q)) @@ (<<"b">> :> ("a" :> H @@ "</s>" :> H))

Ngram(t) == [kind |-> "ngram", prob |-> t]

\* Class C is b, or b followed by a.
Def(words) == [class |-> "C", words |-> words, p |-> H]
ClassModel ==
    [kind |-> "class", defs |-> {Def(<<"b">>), Def(<<"b", "a">>)},
     prob |-> (<<>> :> ("a" :> Q @@ "C" :> H @@ "</s>" :> Q)) @@ (<<"<s>">> :> ("a" :> H @@ "C" :> Q @@ "</s>" :> Q))
              @@ (<<"C">> :> ("a" :> Q @@ "C" :> Q @@ "</s>" :> H))]

Event(o, d, r, i) == [delete |-> d, repeat |-> r, insert |-> i, observed |-> FALSE, omit |-> o]
\* An event that stays in the context, one that is left out, one that stands for another word, and
\* one that repeats a word.
HiddenModel ==
    [kind |-> "hidden",
     events |-> (NoEvent :> Event(TRUE, 0, 0, NoWord)) @@ ("@E" :> Event(FALSE, 0, 0, NoWord))
                @@ ("@O" :> Event(TRUE, 0, 0, NoWord)) @@ ("@I" :> Event(FALSE, 0, 0, "<s>"))
                @@ ("@R" :> Event(FALSE, 0, 1, NoWord)),
     prob |-> (<<>> :> ("a" :> H @@ "b" :> Q @@ "</s>" :> Q))
              @@ (<<"<s>">> :> ("a" :> H @@ "b" :> Q @@ "</s>" :> Q))
              @@ (<<"a">> :> ("b" :> Q @@ "</s>" :> Q @@ "@E" :> Q @@ "@R" :> Q))
              @@ (<<"b">> :> ("a" :> Q @@ "</s>" :> H @@ "@I" :> Q))
              @@ (<<"@E">> :> ("a" :> H @@ "b" :> Q @@ "</s>" :> Q))]

\* Disfluencies after a, and of two words.
DFModel ==
    [kind |-> "df",
     prob |-> (<<>> :> ("a" :> H @@ "b" :> Q @@ "</s>" :> Q))
              @@ (<<"<s>">> :> ("a" :> H @@ "b" :> Q @@ "</s>" :> Q))
              @@ (<<"a">> :> ("b" :> Q @@ "</s>" :> Q @@ "@SDEL" :> Q @@ "@REP1" :> Q))
              @@ (<<"b">> :> ("a" :> Q @@ "</s>" :> H @@ "@DEL1" :> Q))
              @@ (<<"b", "a">> :> ("a" :> Q @@ "</s>" :> Q @@ "@REP2" :> Q @@ "@DEL2" :> Q))]

HMMModel ==
    [kind |-> "hmm", models |-> ("S" :> T1 @@ "T" :> T2),
     trans |-> ("INITIAL" :> ("S" :> H @@ "T" :> Q @@ "FINAL" :> Q)) @@ ("S" :> ("T" :> H @@ "FINAL" :> H))
               @@ ("T" :> ("FINAL" :> One)) @@ ("FINAL" :> <<>>)]

Bayes(l, r, q) == [kind |-> "bayes", subs |-> <<l, r>>, priors |-> <<q, Minus(One, q)>>, contextPriors |-> <<>>,
                   clength |-> 0, llscale |-> 0]
Cache(n) == [kind |-> "cache", length |-> n]
Dynamic == [kind |-> "dynamic"]
\* Two unigram models; only the last word weighs, so that the fractions stay small.
U1 == (<<>> :> ("a" :> H @@ "b" :> Q @@ "</s>" :> Q))
U2 == (<<>> :> ("a" :> Q @@ "b" :> H @@ "</s>" :> Q))
Adaptive == [kind |-> "adaptmix", tables |-> <<U1, U2>>, priors |-> <<H, H>>, decay |-> Zero, llscale |-> 1, iters |-> 1]

Cached      == Bayes(Ngram(T1), Cache(2), H)
CachedClass == Bayes(Bayes(ClassModel, Cache(2), H), Dynamic, H)
\* Weights that depend on how probable the components find the context.
Weighted    == [Bayes(HMMModel, Ngram(T2), H) EXCEPT !.clength = 1, !.llscale = 1]
ByContext   == [Bayes(HiddenModel, Ngram(T2), H) EXCEPT !.clength = 1,
                  !.contextPriors = (<<>> :> <<Zero, Zero>>) @@ (<<"a">> :> <<Q, P(3, 4)>>)]
Loglinear   == [kind |-> "loglinear", subs |-> <<ClassModel, Ngram(T2)>>]
TwoClasses  == [kind |-> "loglinear", subs |-> <<ClassModel, [ClassModel EXCEPT !.defs = {[Def(<<"b">>) EXCEPT !.p = One]}]>>]
Marginals(m, t) == [kind |-> "marginals", subs |-> <<m>>, adapted |-> T2, marginals |-> t, ratios |-> FALSE]

MCVocabulary == {"a", "b", "</s>"}
MCFiles == ("d" :> T2)
MCSetups == {ClassModel, HiddenModel, DFModel, HMMModel, Cached, CachedClass, Adaptive, Weighted, ByContext,
             Loglinear, Marginals(Weighted, T1), Marginals(Loglinear, <<>>), Bayes(Adaptive, Dynamic, Q)}
LoglinearSetups == {TwoClasses}
MCSentences == {<<>>, <<"b", "a">>, <<"a", "a">>, <<"a", "<unk>">>}
MCCounts == {(<<"a">> :> 1) @@ (<<"a", "b">> :> 2) @@ (<<"b", "</s>">> :> 1)}
Line(name, words) == [name |-> name, words |-> words]
MCLines == {Line("RESET", <<>>), Line("NOACCUMULATE", <<>>), Line("ACCUMULATE", <<>>), Line("d", <<>>),
            Line("ADD", <<"b">>)}
MCContexts == {<<>>, <<"a">>, <<"a", "b", "<s>">>, <<"b", "a">>}

-----------------------------------------------------------------------------
\* Tags A and B of the words x, y and z.
Tags3 == (<<>> :> ("A" :> H @@ "B" :> Q @@ "</s>" :> Q)) @@ (<<"<s>">> :> ("A" :> H @@ "B" :> H))
         @@ (<<"A">> :> ("A" :> Q @@ "B" :> H @@ "</s>" :> Q)) @@ (<<"A", "B">> :> ("A" :> P(3, 4) @@ "</s>" :> Q))
         @@ (<<"B">> :> ("A" :> H @@ "B" :> Q @@ "</s>" :> H))
\* Sentences and events over the words a and b.
Spoken3 == (<<>> :> ("a" :> H @@ "b" :> Q @@ "</s>" :> Q @@ "E" :> Q))
           @@ (<<"<s>">> :> ("a" :> H @@ "b" :> Q)) @@ (<<"a">> :> ("a" :> Q @@ "b" :> H @@ "</s>" :> Q @@ "E" :> H))
           @@ (<<"E">> :> ("a" :> H @@ "b" :> Q @@ "</s>" :> H)) @@ (<<"E", "a">> :> ("b" :> H))
           @@ (<<"b">> :> ("a" :> Q @@ "</s>" :> H @@ "E" :> Q))
To(t, p) == [to |-> t, p |-> p]
MapLine(w, entries) == [kind |-> "map", from |-> w, entries |-> entries]
ClassLine(w, t) == [kind |-> "classes", from |-> w, entries |-> <<t>>]
WordsLine(ws) == [kind |-> "words", words |-> ws]
EscapedLine == [kind |-> "escape", words |-> <<>>]

XYMap == <<MapLine("x", <<To("B", One)>>), MapLine("x", <<To("A", H), To("B", H)>>),
           MapLine("y", <<To("B", H), To("A", Q)>>), MapLine("<unk>", <<To("A", Q), To("<unk>", Q)>>)>>
XYText == <<WordsLine(<<"x", "y">>), EscapedLine, WordsLine(<<"<s>", "y", "u", "</s>">>)>>
Disambig ==
    [program |-> "disambig", prob |-> Tags3, mapLines |-> XYMap, text |-> XYText, textMap |-> FALSE, continuous |-> FALSE,
     events |-> {}, n |-> 2, fb |-> FALSE, fwOnly |-> FALSE, posteriors |-> FALSE, counts |-> FALSE, scale |-> FALSE,
     lmw |-> 1, mapw |-> 1, beam |-> Zero, noEOS |-> FALSE, unk |-> TRUE, unkProb |-> P(1, 64), bias |-> One]
TextMap == <<MapLine("<s>", <<To("<s>", One)>>), MapLine("x", <<To("A", Q), To("B", H)>>), MapLine("x", <<To("A", One)>>),
             MapLine("</s>", <<To("</s>", One)>>), EscapedLine, MapLine("y", <<To("A", H)>>), MapLine("z", <<>>)>>
OfEvents == [Disambig EXCEPT !.program = "hidden-ngram", !.prob = Spoken3, !.mapLines = <<>>, !.events = {"E", NoEvent},
               !.text = <<WordsLine(<<"<s>", "a", "b", "</s>">>), WordsLine(<<"a", "u", "b">>)>>]
OfBoundaries == [Disambig EXCEPT !.program = "segment", !.prob = Spoken3, !.mapLines = <<>>, !.n = 1,
                   !.text = <<WordsLine(<<"a", "b", "u", "b">>), WordsLine(<<"b">>)>>]
MCCommands ==
    {[Disambig EXCEPT !.counts = TRUE], [Disambig EXCEPT !.n = 5, !.scale = TRUE, !.lmw = 2],
     [Disambig EXCEPT !.fb = TRUE, !.posteriors = TRUE, !.counts = TRUE, !.mapw = 0],
     [Disambig EXCEPT !.fwOnly = TRUE], [Disambig EXCEPT !.posteriors = TRUE, !.beam = Q],
     [Disambig EXCEPT !.beam = H, !.n = 3, !.mapLines = <<ClassLine("x", To("A", H)), ClassLine("x", To("B", Q)), ClassLine("y", To("B", One))>>],
     [Disambig EXCEPT !.continuous = TRUE],
     [Disambig EXCEPT !.textMap = TRUE, !.mapLines = <<>>, !.text = TextMap, !.n = 3, !.counts = TRUE],
     OfEvents, [OfEvents EXCEPT !.n = 4, !.continuous = TRUE], [OfEvents EXCEPT !.fb = TRUE, !.counts = TRUE],
     [OfEvents EXCEPT !.counts = TRUE], OfBoundaries, [OfBoundaries EXCEPT !.posteriors = TRUE], [OfBoundaries EXCEPT !.posteriors = TRUE, !.continuous = TRUE]}
MCIndexOrder == <<"none", "<unk>", "<s>", "</s>", NoEvent, "A", "B", "a", "b", "E", "NOS", "S">>

-----------------------------------------------------------------------------
CONSTANTS Commands, IndexOrder

VARIABLES cmd, map, lines, words, trellis, at, stage, report, counts

T == INSTANCE Tagging

tagger == <<cmd, map, lines, words, trellis, at, stage, report, counts>>

\* Programs that score or programs that tag: the others have nothing to do.
NoCommand == [program |-> "none"]
NoTagger  == cmd = NoCommand /\ map = <<>> /\ lines = <<>> /\ words = <<>> /\ trellis = <<>> /\ at = 0
             /\ stage = "idle" /\ report = T!Silent /\ counts = <<>>
NoScorer  == model = Ngram(T1) /\ state = Pristine(model) /\ quiet = Pristine(model) /\ said = <<>>
             /\ totals = NoStats /\ expected = NoStats /\ steps = MaxSteps

AllInit == (Init /\ NoTagger) \/ (T!TInit /\ NoScorer)
Scores  == Next /\ UNCHANGED tagger
Tags    == cmd # NoCommand /\ T!TNext /\ UNCHANGED vars
AllSpec == AllInit /\ [][Scores \/ Tags]_<<vars, tagger>>

\* What a tagger reports is what all sequences of tags say, and its counts and maps are right
\* (disambig.cc, hidden-ngram.cc, segment.cc).
TaggersRight == cmd # NoCommand => T!TTypeOK /\ T!TaggedExactly /\ T!EventsCounted /\ T!MapReadsBack
=============================================================================
