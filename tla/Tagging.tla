------------------------------ MODULE Tagging ------------------------------
(***************************************************************************)
(* Taggers: disambig.cc finds tags for the words of a text, hidden-ngram.cc*)
(* events between them and segment.cc the boundaries of sentences.  They   *)
(* fill the trellis of Trellis.cc with a slice for each word, and report   *)
(* the best paths (Viterbi, N-best), or go back through it for the         *)
(* probability of each tag at each position (forward-backward).            *)
(*                                                                         *)
(* A state of the trellis is a context, nearest first: tags; words and     *)
(* events, after NoEvent where there was none; or Boundary and Inside.     *)
(* The N-gram model is a table as in HiddenModels; weights of scores       *)
(* (-lmw, -mapw) are whole numbers.  Words of a line are read as tokens:   *)
(* that a tag may look like a number (VocabMap.cc:115) is left out.        *)
(***************************************************************************)
EXTENDS HiddenModels

LOCAL INSTANCE TLC
LOCAL INSTANCE SequencesExt
LOCAL INSTANCE FiniteSetsExt
LOCAL INSTANCE Functions

CONSTANTS Commands,    \* command lines with the files they name
          IndexOrder   \* the words in the order of their indices

VARIABLES cmd,      \* the command line
          map,      \* from words, or in a text-map from positions, to tags and their probabilities
          lines,    \* lines not yet read, of the map and then of the text
          words,    \* the sentence at hand
          trellis,  \* slices of nodes
          at,       \* the slice with the last backward probabilities
          stage,
          report,   \* what was said of the last sentence
          counts    \* of tags for words, or of N-grams of words and events

tagging == <<cmd, map, lines, words, trellis, at, stage, report, counts>>

PseudoZero == <<1, 64>>   \* 10^-100 in the code

-----------------------------------------------------------------------------
\* Maps between vocabularies (VocabMap.cc).
NewVocabMap == [w \in {SentStart, SentEnd, Unknown} |-> (w :> One)]

Put(m, w, t, p) == (w :> ((t :> p) @@ (IF w \in DOMAIN m THEN m[w] ELSE <<>>))) @@ m
PutAll(m, w, entries) == FoldLeft(LAMBDA n, e : Put(n, w, e.to, e.p), m, entries)

\* A later line for a word replaces the earlier one; one of a class adds to what is there.
ReadMapLine(m, l) == PutAll((l.from :> <<>>) @@ m, l.from, l.entries)
ReadClassLine(m, l) == Put(m, l.from, l.entries[1].to, l.entries[1].p)

WrittenMap(m) ==
    LET Line(w) == [kind |-> "map", from |-> w,
                    entries |-> LET ts == SetToSeq(DOMAIN m[w]) IN [i \in DOMAIN ts |-> [to |-> ts[i], p |-> m[w][ts[i]]]]]
        ws == SetToSeq(DOMAIN m)
    IN  [i \in DOMAIN ws |-> Line(ws[i])]

-----------------------------------------------------------------------------
(* Transitions. *)

Ngram(w, c) == NgramProb(cmd.prob, w, c)
Unigram(w) == Ngram(w, <<>>)
Scaled(p, n) == IF n = 0 THEN One ELSE IF n = 1 THEN p ELSE Times(p, p)

\* What the model uses of a context, and a word of it at least.
KeepOne(c) == SubSeq(c, 1, IF UsedLength(cmd.prob, c) > 0 THEN UsedLength(cmd.prob, c) ELSE 1)

\* Tags of the i-th word; without a text-map the events are the same everywhere.
Mappings(i) ==
    LET w == CASE cmd.textMap                  -> i
               [] cmd.program = "disambig"     -> words[i]
               [] cmd.program = "hidden-ngram" -> NoWord
    IN  IF cmd.program = "segment" THEN <<>> ELSE IF w \in DOMAIN map THEN map[w] ELSE <<>>

\* A path is made of what the model says and what the map does.
Weight(ofModel, ofMap) == Times(Scaled(ofModel, cmd.lmw), Scaled(ofMap, cmd.mapw))

\* With -scale the map has P(tag | word).
Local(i, t) == IF cmd.scale /\ Unigram(t) # Zero THEN Over(Mappings(i)[t], Unigram(t)) ELSE Mappings(i)[t]
OfTag(t, c) == IF Ngram(t, c) = Zero /\ Unigram(t) = Zero THEN PseudoZero ELSE Ngram(t, c)
TagSteps(i, s) ==
    {[from |-> s, to |-> KeepOne(<<t>> \o s), p |-> Weight(OfTag(t, s), Local(i, t))] : t \in DOMAIN Mappings(i)}

\* Mutant: that there was no event stays in the context.
Spoken_Kept(s) == s

\* After a word comes an event; that there is none is no part of later contexts.
Spoken(s) == IF s # <<>> /\ Head(s) = NoEvent THEN Tail(s) ELSE s
OfWord(i, c) == IF i = 1 THEN One ELSE IF Ngram(words[i], c) = Zero THEN cmd.unkProb ELSE Ngram(words[i], c)
OfEvent(e, c) == IF e = NoEvent THEN One ELSE Ngram(e, c)
EventSteps(i, s) ==
    LET c == <<words[i]>> \o Spoken(s)
    IN  {[from |-> s, to |-> IF e = NoEvent THEN <<NoEvent>> \o KeepOne(c) ELSE KeepOne(<<e>> \o c),
          p |-> Weight(Times(OfWord(i, Spoken(s)), OfEvent(e, c)), Mappings(i)[e])] : e \in DOMAIN Mappings(i)}

\* Before a word there is a boundary or not; a boundary hides all but one word before it.
Boundary == <<"S">>
Inside   == <<"NOS">>
AtStart  == <<SentStart>>
NotZero(w, p) == IF Unigram(w) = Zero THEN PseudoZero ELSE p
Before(i, s) ==
    IF s = Boundary THEN <<words[i - 1], SentStart>>
    ELSE [j \in 1 .. (IF i > 3 THEN 3 ELSE i - 1) |-> words[i - j]]
SegmentSteps(i, s) ==
    LET c == Before(i, s)
        biased == IF s = Boundary THEN cmd.bias ELSE One
        goesOn == NotZero(words[i], Ngram(words[i], c))
        starts == Times(Ngram(SentEnd, c), NotZero(words[i], Ngram(words[i], AtStart)))
    IN  {[from |-> s, to |-> Inside, p |-> Times(goesOn, biased)],
         [from |-> s, to |-> Boundary, p |-> Times(starts, biased)]}

\* The steps into the k-th slice; in hidden-ngram the first one is before all words.
StepsInto(k, states) ==
    UNION {CASE cmd.program = "disambig"     -> TagSteps(k, s)
             [] cmd.program = "hidden-ngram" -> EventSteps(k - 1, s)
             [] cmd.program = "segment"      -> SegmentSteps(k, s) : s \in states}

Slices == IF cmd.program = "hidden-ngram" THEN Len(words) + 1 ELSE Len(words)

-----------------------------------------------------------------------------
(* The trellis.  A node has its forward and backward probability, that of  *)
(* the best way on from it, and the N best ways to it: each the score, the *)
(* state before and which of its ways; a list is filled up with NoHyp.     *)

NoState == <<NoWord>>
NoHyp == [score |-> Zero, prev |-> NoState, which |-> 1]
NoHyps == [n \in 1 .. cmd.n |-> NoHyp]

Index(w) == CHOOSE i \in DOMAIN IndexOrder : IndexOrder[i] = w

\* SArray_compareKey(): no state is the lowest of contexts, but the highest of segment's states.
Above(c, d) ==
    IF NoState \in {c, d} THEN c # d /\ (IF cmd.program = "segment" THEN c ELSE d) = NoState
    ELSE \E k \in DOMAIN c :
            /\ \A j \in 1 .. k - 1 : j \in DOMAIN d /\ c[j] = d[j]
            /\ k \in DOMAIN d => Index(c[k]) > Index(d[k])

Ranked(h, g) == Less(g.score, h.score) \/ (h.score = g.score /\ Above(h.prev, g.prev))

\* Mutant: a new way only replaces the last one.
Inserted_Last(hyps, g) == IF Ranked(hyps[cmd.n], g) THEN hyps ELSE [hyps EXCEPT ![cmd.n] = g]

\* Before the first that does not rank higher; the last one goes.
Inserted(hyps, g) ==
    LET i == Min({k \in 1 .. cmd.n + 1 : k <= cmd.n => ~ Ranked(hyps[k], g)})
    IN  SubSeq(InsertAt(hyps, i, g), 1, cmd.n)
Listed(hyps) == FoldLeft(Inserted, NoHyps, hyps)

\* All ways through a state, with a step of some probability after it.
Ways(slice, s, p) ==
    [n \in 1 .. cmd.n |-> [score |-> Times(slice[s].hyps[n].score, p), prev |-> s, which |-> n]]

OnlyNode(p) == [p |-> p, back |-> Zero, backMax |-> Zero, hyps |-> [NoHyps EXCEPT ![1].score = p]]

Forward(slice) == [s \in DOMAIN slice |-> slice[s].p]

NodesAfter(slice, steps, ps) ==
    [t \in DOMAIN ps |->
        LET into == SetToSeq({m \in steps : m.to = t})
        IN  [p |-> ps[t], back |-> Zero, backMax |-> Zero,
             hyps |-> Listed(FlattenSeq([i \in DOMAIN into |-> Ways(slice, into[i].from, into[i].p)]))]]
SliceAfter(slice, steps) == NodesAfter(slice, steps, Updated(Forward(slice), steps))

\* States far less probable than the best one are taken out (-prune).
Pruned(slice) ==
    IF cmd.beam = Zero THEN slice
    ELSE Restrict(slice, {s \in DOMAIN slice : \A t \in DOMAIN slice : ~ Less(slice[s].p, Times(slice[t].p, cmd.beam))})

\* The first slice: tags with what the map says, no weights applied, or before the first word a
\* boundary or none.
FirstTags(tags) == [s \in {<<t>> : t \in DOMAIN tags} |-> OnlyNode(tags[s[1]])]
FirstOfSegment(w) ==
    LET starts == Times(Unigram(SentEnd), NotZero(w, Ngram(w, AtStart)))
        inside == Minus(NotZero(w, Unigram(w)), starts)
    IN  (Boundary :> OnlyNode(Times(starts, cmd.bias))) @@ (Inside :> OnlyNode(IF Negative(inside) THEN Zero ELSE inside))
FirstSlice(ws, m) ==
    CASE cmd.program = "hidden-ngram" -> (<<>> :> OnlyNode(One))
      [] cmd.program = "disambig"     -> FirstTags(IF cmd.textMap THEN m[1] ELSE IF ws[1] \in DOMAIN m THEN m[ws[1]] ELSE <<>>)
      [] cmd.program = "segment"      -> FirstOfSegment(ws[1])

\* nbest_viterbi(): the n-th best path of all that end in the last slice, <<>> if there is none.
BestOfAll ==
    LET last == Last(trellis)
        ends == SetToSeq(DOMAIN last)
    IN  Listed(FlattenSeq([i \in DOMAIN ends |-> Ways(last, ends[i], One)]))
Traced(end) ==
    LET way[k \in 1 .. Len(trellis)] ==
            IF k = Len(trellis) THEN end
            ELSE LET later == way[k + 1]
                 IN  IF later.prev = NoState THEN NoHyp ELSE trellis[k + 1][later.prev].hyps[later.which]
        states == [k \in 1 .. Len(trellis) |-> way[k].prev]
    IN  IF NoState \in Range(states) THEN <<>> ELSE states

\* Mutant: the best way back is taken for the sum of all.
BackOf_Best(slice, next, steps) ==
    [s \in DOMAIN slice |->
        LET ways == {Times(next[m.to].backMax, m.p) : m \in {x \in steps : x.from = s /\ x.to \in DOMAIN next}}
            best == IF ways = {} THEN Zero ELSE CHOOSE p \in ways : \A q \in ways : ~ Less(p, q)
        IN  [slice[s] EXCEPT !.back = best, !.backMax = best]]

\* updateBack() for every step out of the states of a slice.
BackOf(slice, next, steps) ==
    [s \in DOMAIN slice |->
        LET out == {m \in steps : m.from = s /\ m.to \in DOMAIN next}
            ways == {Times(next[m.to].backMax, m.p) : m \in out}
        IN  [slice[s] EXCEPT !.back = Total(LAMBDA m : Times(next[m.to].back, m.p), out),
                             !.backMax = IF ways = {} THEN Zero ELSE CHOOSE p \in ways : \A q \in ways : ~ Less(p, q)]]

-----------------------------------------------------------------------------
(* What is said of a sentence. *)

Silent == [kind |-> "nothing", hyps |-> <<>>, shares |-> <<>>, total |-> Zero]

\* The first slice of hidden-ngram stands before all words.
Position(i) == IF cmd.program = "hidden-ngram" THEN i + 1 ELSE i

Tags(states) == [i \in DOMAIN words |-> Head(states[Position(i)])]

\* disambiguateSentence() by Viterbi, and viterbi().  It ends with the first way that leads nowhere.
Hypotheses(ends) ==
    LET paths == [n \in DOMAIN ends |-> Traced(ends[n])]
        found == Min({n \in 1 .. cmd.n + 1 : n <= cmd.n => paths[n] = <<>>}) - 1
    IN  [n \in 1 .. found |-> [tags |-> Tags(paths[n]), score |-> ends[n].score]]

\* How much a state counts: its forward probability alone (-fw-only), that of all paths through
\* it (-fb), or of the best one.
Counting(node) ==
    IF cmd.fwOnly THEN node.p
    ELSE IF cmd.fb \/ cmd.program = "segment" THEN Times(node.p, node.back)
    ELSE Times(node.hyps[1].score, node.backMax)
StateShares(slice) == [s \in DOMAIN slice |-> Counting(slice[s])]

\* Where nothing is possible the logs of 0/0 are not a number; the shares are zero here.
Divided(all, total) == IF total = Zero THEN [s \in DOMAIN all |-> Zero] ELSE [s \in DOMAIN all |-> Over(all[s], total)]
Normal(all) == Divided(all, SumLogP(all))
OfSymbols(states) == [t \in {Head(s) : s \in DOMAIN states} |->
                         Total(LAMBDA s : states[s], {s \in DOMAIN states : Head(s) = t})]

\* One for each position, up to the first without states.
Shares ==
    LET lost == {i \in DOMAIN words : DOMAIN trellis[Position(i)] = {}}
        last == IF lost = {} THEN Len(words) ELSE Min(lost) - 1
    IN  [i \in 1 .. last |-> OfSymbols(Normal(StateShares(trellis[Position(i)])))]

\* segment -posteriors puts a boundary where its share is more than a half.
Cuts(shares) == [i \in DOMAIN shares |-> IF Less(<<1, 2>>, shares[i]["S"]) THEN "S" ELSE "NOS"]

-----------------------------------------------------------------------------
(* Counts. *)

Add(c, x, p) == (x :> Plus(p, IF x \in DOMAIN c THEN c[x] ELSE Zero)) @@ c
AddAll(c, added) == FoldLeft(LAMBDA n, a : Add(n, a[1], a[2]), c, added)

\* disambig -write-counts: the best hypothesis if there are all, or every tag that is possible: not
\* as often as it is probable, but once, and 10 times with -posteriors (disambig.cc:527).
CountedBest(hyps) ==
    IF Len(hyps) < cmd.n THEN <<>>
    ELSE [i \in DOMAIN words |-> <<<<words[i], hyps[1].tags[i]>>, One>>]
CountedTags(shares) ==
    FlattenSeq([i \in DOMAIN shares |->
        LET ts == SetToSeq(DOMAIN shares[i])
        IN  [j \in DOMAIN ts |-> <<<<words[i], ts[j]>>, <<IF cmd.posteriors THEN 10 ELSE 1, 1>>>>]])

\* The word before a context, if the context begins with an event.
PrevWord(pos, c) ==
    LET i == FoldLeft(LAMBDA k, x : IF k > 0 /\ words[k] = x THEN k - 1 ELSE k, pos, c)
    IN  IF i > 0 /\ c # <<>> /\ (i < Len(words) => Last(c) # words[i + 1]) THEN words[i] ELSE NoWord

Endings(g) == {SubSeq(g, i, Len(g)) : i \in DOMAIN g}

\* Mutant: words without an event after them are counted as contexts, too.
Counted_Again(next, prev, c) ==
    LET old == Reverse(Spoken(c))
    IN  Endings((IF prev = NoWord THEN <<>> ELSE <<prev>>) \o old) \cup
        (IF next = NoWord THEN {} ELSE Endings(Append(old, next)))

\* incrementCounts(): the context, from the word before it, unless it ends without an event; and
\* the word after it.
CountedGrams(next, prev, c) ==
    LET old == Reverse(Spoken(c))
    IN  (IF Spoken(c) # c THEN {} ELSE Endings((IF prev = NoWord THEN <<>> ELSE <<prev>>) \o old)) \cup
        (IF next = NoWord THEN {} ELSE Endings(Append(old, next)))

GramsAt(i, states) ==
    LET next == IF i < Len(words) THEN words[i + 1] ELSE NoWord
        Grams(s) == SetToSeq(CountedGrams(next, PrevWord(i, s), s))
        each == SetToSeq(DOMAIN states)
    IN  FlattenSeq([j \in DOMAIN each |-> [g \in DOMAIN Grams(each[j]) |-> <<Grams(each[j])[g], states[each[j]]>>]])
CountedEvents ==
    <<<<<<words[1]>>, One>>>> \o FlattenSeq([i \in DOMAIN words |-> GramsAt(i, Normal(StateShares(trellis[i + 1])))])

-----------------------------------------------------------------------------
(* The programs. *)

NoMap(c) == IF c.program = "hidden-ngram" THEN (NoWord :> [e \in c.events |-> One]) ELSE NewVocabMap

TInit ==
    /\ cmd \in Commands
    /\ map = (IF cmd.textMap THEN <<>> ELSE NoMap(cmd))
    /\ lines = cmd.mapLines
    /\ words = <<>> /\ trellis = <<>> /\ at = 0
    /\ stage = "map"
    /\ report = Silent
    /\ counts = <<>>

\* -map and -classes.
ReadMap ==
    /\ stage = "map" /\ lines # <<>>
    /\ map' = IF Head(lines).kind = "map" THEN ReadMapLine(map, Head(lines)) ELSE ReadClassLine(map, Head(lines))
    /\ lines' = Tail(lines)
    /\ UNCHANGED <<cmd, words, trellis, at, stage, report, counts>>

OpenText ==
    /\ stage = "map" /\ lines = <<>>
    /\ stage' = "text" /\ lines' = cmd.text
    /\ UNCHANGED <<cmd, map, words, trellis, at, report, counts>>

Known(w) ==
    LET vocabulary == IF cmd.program = "disambig" THEN DOMAIN map ELSE Range(IndexOrder)
    IN  IF w \in vocabulary \/ ~ cmd.unk THEN w ELSE Unknown
AllKnown(ws) == [i \in DOMAIN ws |-> Known(ws[i])]

\* <s> and </s>, in disambig only, where they are not there.
Framed(ws) ==
    IF cmd.program # "disambig" \/ cmd.continuous THEN ws
    ELSE (IF ws[1] = SentStart THEN <<>> ELSE <<SentStart>>) \o ws \o
         (IF cmd.noEOS \/ Last(ws) = SentEnd THEN <<>> ELSE <<SentEnd>>)

Prime(ws, m) ==
    /\ words' = ws /\ map' = m
    /\ trellis' = <<FirstSlice(ws, m)>>
    /\ stage' = "forward"
    /\ UNCHANGED <<cmd, at, report, counts>>

\* Lines that are escaped go to the output as they are.
Escaped ==
    /\ stage = "text" /\ lines # <<>> /\ Head(lines).kind = "escape" /\ ~ cmd.continuous
    /\ lines' = Tail(lines)
    /\ UNCHANGED <<cmd, map, words, trellis, at, stage, report, counts>>

Sentence ==
    /\ stage = "text" /\ lines # <<>> /\ Head(lines).kind = "words" /\ ~ cmd.continuous
    /\ lines' = Tail(lines)
    /\ Prime(Framed(AllKnown(Head(lines).words)), map)

AsOneText(ls) == FlattenSeq([i \in DOMAIN ls |-> IF ls[i].kind = "escape" THEN <<>> ELSE ls[i].words])
WholeText ==
    /\ stage = "text" /\ lines # <<>> /\ cmd.continuous
    /\ lines' = <<>>
    /\ AsOneText(lines) # <<>> /\ Prime(AllKnown(AsOneText(lines)), map)

\* A text-map: lines up to </s>, or to one that is escaped and goes to the output later.
UpToEnd(ls) ==
    LET ends == {k \in DOMAIN ls : ls[k].kind = "escape" \/ ls[k].from = SentEnd}
    IN  IF ends = {} THEN Len(ls) ELSE Min(ends)
PositionMap(ls) == [i \in DOMAIN ls |-> PutAll(i :> <<>>, i, ls[i].entries)[i]]
Mapped ==
    /\ stage = "text" /\ lines # <<>> /\ Head(lines).kind = "map"
    /\ lines' = SubSeq(lines, UpToEnd(lines) + 1, Len(lines))
    /\ \E ls \in {SelectSeq(SubSeq(lines, 1, UpToEnd(lines)), LAMBDA l : l.kind = "map")} :
          Prime([i \in DOMAIN ls |-> ls[i].from], PositionMap(ls))

Advance(steps) == trellis' = Append(trellis, Pruned(SliceAfter(Last(trellis), steps)))
ForwardStep ==
    /\ stage = "forward" /\ Len(trellis) < Slices
    /\ Advance(StepsInto(Len(trellis) + 1, DOMAIN Last(trellis)))
    /\ UNCHANGED <<cmd, map, lines, words, at, stage, report, counts>>

GoesBack == cmd.fb \/ cmd.fwOnly \/ cmd.posteriors \/ (cmd.program = "hidden-ngram" /\ cmd.counts)

\* By Viterbi.
TellBest ==
    /\ stage = "forward" /\ Len(trellis) = Slices /\ ~ GoesBack
    /\ \E hyps \in {Hypotheses(BestOfAll)} :
          /\ report' = [Silent EXCEPT !.kind = IF hyps = <<>> THEN "failed" ELSE "best", !.hyps = hyps]
          /\ counts' = IF cmd.counts THEN AddAll(counts, CountedBest(hyps)) ELSE counts
    /\ stage' = "told"
    /\ UNCHANGED <<cmd, map, lines, words, trellis, at>>

\* initBack() and setBackProb(); segment leaves it out for a sentence of one word (segment.cc:193).
TurnBack ==
    /\ stage = "forward" /\ Len(trellis) = Slices /\ GoesBack
    /\ at' = Slices /\ stage' = "backward"
    /\ trellis' = IF cmd.program = "segment" /\ Slices = 1 THEN trellis
                  ELSE [trellis EXCEPT ![Slices] = [s \in DOMAIN @ |-> [@[s] EXCEPT !.back = One, !.backMax = One]]]
    /\ UNCHANGED <<cmd, map, lines, words, report, counts>>

BackStep ==
    /\ stage = "backward" /\ at > 1
    /\ trellis' = [trellis EXCEPT ![at - 1] = BackOf(@, trellis[at], StepsInto(at, DOMAIN @))]
    /\ at' = at - 1
    /\ UNCHANGED <<cmd, map, lines, words, stage, report, counts>>

Tell(shares) ==
    /\ report' = CASE Len(shares) < Len(words)  -> [Silent EXCEPT !.kind = "failed"]
                   [] cmd.program = "segment"  -> [Silent EXCEPT !.kind = "cuts", !.shares = shares,
                                                     !.hyps = <<[tags |-> Cuts(shares), score |-> Zero]>>]
                   [] OTHER -> [Silent EXCEPT !.kind = "shares", !.shares = shares,
                                                     !.total = SumLogP(Forward(Last(trellis)))]
    /\ counts' = CASE ~ cmd.counts                    -> counts
                   [] cmd.program = "disambig"     -> AddAll(counts, CountedTags(shares))
                   [] cmd.program = "hidden-ngram" -> AddAll(counts, CountedEvents)
TellShares ==
    /\ stage = "backward" /\ at = 1
    /\ \E shares \in {Shares} : Tell(shares)
    /\ stage' = "told" /\ at' = 0
    /\ UNCHANGED <<cmd, map, lines, words, trellis>>

NextSentence ==
    /\ stage = "told"
    /\ stage' = "text" /\ trellis' = <<>> /\ words' = <<>> /\ report' = Silent
    /\ map' = IF cmd.textMap THEN <<>> ELSE map
    /\ UNCHANGED <<cmd, lines, at, counts>>

TNext == \/ ReadMap \/ OpenText \/ Escaped \/ Sentence \/ WholeText \/ Mapped
         \/ ForwardStep \/ TellBest \/ TurnBack \/ BackStep \/ TellShares \/ NextSentence

-----------------------------------------------------------------------------
(* Properties. *)

TTypeOK ==
    /\ cmd \in Commands
    /\ stage \in {"map", "text", "forward", "backward", "told"}
    /\ Len(trellis) <= Slices /\ at \in 0 .. Len(trellis)
    /\ \A k \in DOMAIN trellis : \A s \in DOMAIN trellis[k] : Len(trellis[k][s].hyps) = cmd.n
    /\ \A x \in DOMAIN counts : Positive(counts[x]) \/ counts[x] = Zero

\* All sequences of tags, each predicted from all that is before it.
TagsAt(i) == IF cmd.program = "segment" THEN {"S", "NOS"} ELSE DOMAIN Mappings(i)
Sequences ==
    LET upTo[i \in 0 .. Len(words)] ==
            IF i = 0 THEN {<<>>} ELSE {Append(q, t) : q \in upTo[i - 1], t \in TagsAt(i)}
    IN  upTo[Len(words)]

\* Words and tags before the i-th word, nearest first.
WordsAndEvents(q, i) ==
    Reverse(FlattenSeq([j \in 1 .. i - 1 |-> IF q[j] = NoEvent THEN <<words[j]>> ELSE <<words[j], q[j]>>]))
SinceBoundary(q, i) ==
    LET cuts == {j \in 1 .. i - 1 : q[j] = "S"}
    IN  IF cuts = {} THEN Reverse(SubSeq(words, 1, i - 1))
        ELSE Reverse(SubSeq(words, Max(cuts), i - 1)) \o <<SentStart>>

Predicted(q, i) ==
    CASE cmd.program = "disambig" ->
           IF i = 1 THEN Mappings(1)[q[1]]
           ELSE Weight(OfTag(q[i], Reverse(SubSeq(q, 1, i - 1))), Local(i, q[i]))
      [] cmd.program = "hidden-ngram" ->
           LET c == WordsAndEvents(q, i)
           IN  Weight(Times(OfWord(i, c), OfEvent(q[i], <<words[i]>> \o c)), Mappings(i)[q[i]])
      [] cmd.program = "segment" ->
           IF i = 1 THEN FirstSlice(words, map)[<<q[1]>>].p
           ELSE LET c == SinceBoundary(q, i)
                IN  IF q[i] = "NOS" THEN NotZero(words[i], Ngram(words[i], c))
                    ELSE Times(Ngram(SentEnd, c), NotZero(words[i], Ngram(words[i], AtStart)))
Score(q, n) == FoldLeft(LAMBDA p, i : Times(p, Predicted(q, i)), One, [i \in 1 .. n |-> i])

\* The hypotheses are sequences with their scores, best first, and there is no better one.  Where
\* there are not as many as asked for the list goes on with copies of probability zero.
BestFound(scores) ==
    LET h == report.hyps
        real == {n \in DOMAIN h : Positive(h[n].score)}
        possible == {q \in DOMAIN scores : Positive(scores[q])}
    IN  /\ \A n \in real : h[n].tags \in possible /\ h[n].score = scores[h[n].tags]
        /\ \A n, o \in real : n < o => h[n].tags # h[o].tags /\ ~ Less(h[n].score, h[o].score)
        /\ cmd.beam = Zero =>
             /\ Cardinality(real) = Min({cmd.n, Cardinality(possible)})
             /\ \A n \in real : \A q \in possible \ {h[o].tags : o \in real} : ~ Less(h[n].score, scores[q])

\* By forward-backward, each tag has the share of the sequences with it; by the forward
\* probabilities alone, the share of sequences that end with it.
SharesAreSums(scores) ==
    cmd.fb \/ cmd.fwOnly \/ cmd.program = "segment" =>
        \A i \in DOMAIN report.shares :
            \E ps \in {IF cmd.fwOnly THEN [q \in {SubSeq(r, 1, i) : r \in DOMAIN scores} |-> Score(q, i)] ELSE scores} :
                \A t \in TagsAt(i) :
                    report.shares[i][t] = Over(Total(LAMBDA q : ps[q], {q \in DOMAIN ps : q[i] = t}), SumLogP(ps))
SumIsTotal(scores) == report.kind = "shares" /\ cmd.beam = Zero => report.total = SumLogP(scores)

\* What a tagger says of a sentence is what all sequences of tags say (Trellis.cc:174, 323).
Exact(scores) ==
    /\ report.kind = "failed" => \A q \in DOMAIN scores : scores[q] = Zero
    /\ report.kind = "best" => BestFound(scores)
    /\ report.kind \in {"shares", "cuts"} /\ cmd.beam = Zero /\ (report.kind = "cuts" => Len(words) > 1) =>
         SharesAreSums(scores) /\ SumIsTotal(scores)
TaggedExactly == stage = "told" => Exact([q \in Sequences |-> Score(q, Len(words))])

\* Counts of hidden events: every word is counted as often as it was read, every event and word as
\* often as it came after something (hidden-ngram.cc:159).
ReadSoFar ==
    FlattenSeq([i \in 1 .. Len(cmd.text) - Len(lines) |-> cmd.text[i].words])
CountOf(g) == IF g \in DOMAIN counts THEN counts[g] ELSE Zero
After(x) == Total(CountOf, {g \in DOMAIN counts : Len(g) = 2 /\ g[2] = x})
EventsCounted ==
    cmd.program = "hidden-ngram" /\ cmd.counts /\ ~ cmd.textMap /\ stage \in {"text", "told"} =>
        /\ \A w \in Range(IndexOrder) \ cmd.events :
              LET n == Cardinality({i \in DOMAIN ReadSoFar : Known(ReadSoFar[i]) = w})
                  first == Cardinality({i \in 1 .. Len(cmd.text) - Len(lines) : Known(cmd.text[i].words[1]) = w})
              IN  CountOf(<<w>>) = <<n, 1>> /\ After(w) = <<n - first, 1>>
        /\ \A e \in cmd.events : CountOf(<<e>>) = After(e)

\* A map that is written reads back, whatever was said of a word before.
MapReadsBack ==
    stage = "text" /\ cmd.program = "disambig" /\ ~ cmd.textMap =>
        FoldLeft(ReadMapLine, NewVocabMap, WrittenMap(map)) = map
=============================================================================
