----------------------------- MODULE NBestTool -----------------------------
(***************************************************************************)
(* lm/src/NBest.cc: lists of hypotheses that a recogniser found for one    *)
(* utterance, their files, scores and posterior probabilities.  Scores are *)
(* logarithms to the base 2 and integers; posteriors are what the code     *)
(* divides by their sum, One.  A file is a magic line, or none, and a line *)
(* for each hypothesis.                                                    *)
(*   lm/src/nbest-lattice.cc and the rescoring of lm/src/ngram.cc: an      *)
(* N-best list is read and aligned, one hypothesis after the other, in a   *)
(* mesh (-use-mesh) or a lattice, from which words are then chosen; or     *)
(* words are chosen from the list alone; or the list gets new scores.      *)
(***************************************************************************)
EXTENDS Integers, Sequences, SequencesExt, FiniteSets, FiniteSetsExt, Functions

CONSTANTS
    Files,          \* N-best lists
    Settings,       \* command lines
    Meshes,         \* word meshes to be merged with (-lattice-files)
    Reference,      \* the words of the reference
    Suppressed,     \* words not to be chosen
    PrimePosterior, \* what a string that primes the alignment counts
    Parts,          \* the parts of words that are multiwords
    Noise,          \* pauses and noises
    LMScore,        \* what a language model says of words, and how many it counts
    Penalty, Distance, WordOrder

M == INSTANCE WordMesh
L == INSTANCE WordLattice

\* The alignment of word strings is the one meshes have, with all words equally far apart.
A == INSTANCE WordMesh WITH Penalty <- [w \in {} |-> 0], Distance <- [w \in {} |-> 0], WordOrder <- <<>>

NoInfo == [known |-> FALSE, words |-> <<>>]

Hypothesis(ac, lm, num, total, words, info) ==
    [ac |-> ac, lm |-> lm, num |-> num, total |-> total, words |-> words, info |-> info,
     rank |-> 0, post |-> 0, errors |-> 0]

OwnLine(ac, lm, num, words) == [kind |-> "own", ac |-> ac, lm |-> lm, num |-> num, words |-> words]
BytelogLine(score, words)   == [kind |-> "1", score |-> score, words |-> words]
TokenLine(score, tokens)    == [kind |-> "2", score |-> score, tokens |-> tokens]
Token(w, st, et, ac, lm, state) ==
    [word |-> w, st |-> st, et |-> et, ac |-> ac, lm |-> lm, state |-> state]

\* The words among the tokens: phones lie within the word before them, and states can be told by name.
WordTokens(tokens) ==
    FoldLeft(LAMBDA r, t : IF (r = <<>> \/ t.st > Last(r).et) /\ ~ t.state THEN Append(r, t) ELSE r, <<>>, tokens)

Words(tokens) == [k \in DOMAIN tokens |-> tokens[k].word]
FrameLength == 1

\* Mutant: the last frame of a word is not counted.
Infos_NoFrame(tokens) ==
    [k \in DOMAIN tokens |-> [word |-> tokens[k].word, start |-> tokens[k].st, ac |-> tokens[k].ac, lm |-> tokens[k].lm,
                              duration |-> tokens[k].et - tokens[k].st]]

\* What is kept of a word: its times and scores.
Infos(tokens) ==
    [k \in DOMAIN tokens |-> [word |-> tokens[k].word, start |-> tokens[k].st, ac |-> tokens[k].ac, lm |-> tokens[k].lm,
                              duration |-> tokens[k].et - tokens[k].st + FrameLength]]

\* NBestHyp::parse() of a line of each kind.  Words of the third kind have their times, if wanted.
ParseTokens(line, backtrace) ==
    LET Of(kept) == Hypothesis(A!Sum([k \in DOMAIN kept |-> kept[k].ac]), A!Sum([k \in DOMAIN kept |-> kept[k].lm]),
                               Len(kept), line.score, Words(kept),
                               [known |-> backtrace, words |-> IF backtrace THEN Infos(kept) ELSE <<>>])
    IN  Of(WordTokens(line.tokens))
ParseLine(line, backtrace) ==
    CASE line.kind = "own" -> Hypothesis(line.ac, line.lm, line.num, line.ac, line.words, NoInfo)
      [] line.kind = "1" -> Hypothesis(line.score, 0, Len(line.words), line.score, line.words, NoInfo)
      [] line.kind = "2" -> ParseTokens(line, backtrace)

\* Multiwords are split, unless times are read, and the offset in effect is taken off.
Split(words) == FlattenSeq([k \in DOMAIN words |-> Parts[words[k]]])
Parse(line, list) ==
    LET Of(h) == [h EXCEPT !.ac = @ - list.offset, !.total = @ - list.offset,
                           !.words = IF list.multi /\ ~ list.backtrace THEN Split(@) ELSE @]
    IN  Of(ParseLine(line, list.backtrace))

\* The format of the first line is that of all; without a magic line a score in parentheses tells.
Fits(line, magic) == line.kind = magic \/ (magic = "none" /\ line.kind # "2")

EmptyList(multi, backtrace) == [hyps |-> <<>>, offset |-> 0, multi |-> multi, backtrace |-> backtrace]
ReadList(list, file, maxSize) ==
    LET n == IF maxSize = 0 \/ Len(file.lines) < maxSize THEN Len(file.lines) ELSE maxSize
    IN  [ok |-> \A k \in 1 .. n : Fits(file.lines[k], file.magic),
         list |-> [list EXCEPT !.hyps = [k \in 1 .. n |-> [Parse(file.lines[k], list) EXCEPT !.rank = k - 1]]]]

\* NBestHyp::write().  The format with times is announced whenever times were wanted, and used for the
\* hypotheses that have them.
WriteHyp(h, decipher, offset) ==
    IF ~ decipher THEN OwnLine(h.ac + offset, h.lm, h.num, h.words)
    ELSE IF ~ h.info.known THEN BytelogLine(h.total + offset, h.words)
    ELSE TokenLine(h.total + offset,
                   [k \in DOMAIN h.info.words |->
                        LET i == h.info.words[k]
                        IN  Token(i.word, i.start, i.start + i.duration - FrameLength, i.ac, i.lm, FALSE)])
WriteList(list, decipher) ==
    [magic |-> IF ~ decipher THEN "none" ELSE IF list.backtrace THEN "2" ELSE "1",
     lines |-> [k \in DOMAIN list.hyps |-> WriteHyp(list.hyps[k], decipher, list.offset)]]

-----------------------------------------------------------------------------
Updated(list, New(_)) == [list EXCEPT !.hyps = [k \in DOMAIN @ |-> New(@[k])]]

ReweightHyps(list, w) ==
    Updated(list, LAMBDA h : [h EXCEPT !.total = w.am * h.ac + w.lm * h.lm + w.wt * h.num])

\* The model's score takes the place of the recogniser's, which decipherFix() takes off the total.
RescoreHyps(list, w) ==
    Updated(list, LAMBDA h : [h EXCEPT !.lm = w.lm * LMScore[h.words].score, !.num = LMScore[h.words].num,
                                       !.total = h.ac + w.lm * LMScore[h.words].score + w.wt * LMScore[h.words].num])
DecipherFix(list, w) ==
    Updated(list, LAMBDA h : [h EXCEPT !.lm = w.lm * LMScore[h.words].score, !.num = LMScore[h.words].num,
                                       !.ac = h.total - w.lm * LMScore[h.words].score - w.wt * Len(h.words)])

\* Best first; those as good stay in order.
SortHyps(list) ==
    LET After(s, h) == Cardinality({k \in DOMAIN s : s[k].total >= h.total}) + 1
    IN  [list EXCEPT !.hyps = FoldLeft(LAMBDA s, h : InsertAt(s, After(s, h), h), <<>>, @)]

\* What posteriors are made from; the aggregate score if there is no weight.
PosteriorScore(h, w) ==
    (IF w.am = 0 /\ w.lm = 0 /\ w.wt = 0 THEN h.total ELSE w.am * h.ac + w.lm * h.lm + w.wt * h.num) \div w.scale
ComputePosteriors(list, w) ==
    LET With(least) == Updated(list, LAMBDA h : [h EXCEPT !.post = 2 ^ (PosteriorScore(h, w) - least)])
    IN  IF list.hyps = <<>> THEN list
        ELSE With(Min({PosteriorScore(list.hyps[k], w) : k \in DOMAIN list.hyps}))
One(list) == A!Sum([k \in DOMAIN list.hyps |-> list.hyps[k].post])

RemoveNoise(list) ==
    Updated(list, LAMBDA h : [h EXCEPT !.words = SelectSeq(@, LAMBDA w : w \notin Noise),
                                       !.info.words = SelectSeq(@, LAMBDA i : i.word \notin Noise)])

\* Acoustic scores less the greatest of them, and back.
AcousticNorm(list) ==
    LET Less(max) == [Updated(list, LAMBDA h : [h EXCEPT !.ac = @ - max, !.total = @ - max]) EXCEPT !.offset = max]
    IN  IF list.hyps = <<>> THEN [list EXCEPT !.offset = 0]
        ELSE Less(Max({list.hyps[k].ac : k \in DOMAIN list.hyps}))
AcousticDenorm(list) ==
    [Updated(list, LAMBDA h : [h EXCEPT !.ac = @ + list.offset, !.total = @ - list.offset]) EXCEPT !.offset = 0]

-----------------------------------------------------------------------------
\* Errors of the first of the best hypotheses, counted as if the reference were to be turned into it:
\* the words it lacks are insertions.
NBestErrors(list, words) == [k \in DOMAIN list.hyps |-> A!WordError(list.hyps[k].words, words)]
NBestWordError(list, words) ==
    LET Best(errs) == FoldLeft(LAMBDA b, e : IF e.total < b.total THEN e ELSE b, errs[1], errs)
    IN  IF list.hyps = <<>>
        THEN [list |-> list, best |-> [sub |-> 0, ins |-> 0, del |-> Len(words), total |-> Len(words)]]
        ELSE [list |-> [list EXCEPT !.hyps = [k \in DOMAIN @ |->
                           [@[k] EXCEPT !.errors = NBestErrors(list, words)[k].total]]],
              best |-> Best(NBestErrors(list, words))]

\* All but a part of the posterior has been seen; prune is a fraction.
Enough(mass, one, prune) == prune[1] > 0 /\ mass * prune[2] > one * (prune[2] - prune[1])

\* The posterior-weighted errors of a hypothesis, until it is worse than the best before or enough was seen.
ExpectedError(list, i, best, prune) ==
    FoldLeft(LAMBDA r, j :
                IF r.done THEN r
                ELSE LET h == list.hyps[j]
                         error == IF i = j THEN r.error
                                  ELSE r.error + h.post * A!WordError(list.hyps[i].words, h.words).total
                     IN  [error |-> error, mass |-> r.mass + h.post,
                          done |-> (i > 1 /\ error > best) \/ Enough(r.mass + h.post, One(list), prune)],
             [error |-> 0, mass |-> 0, done |-> FALSE], [j \in DOMAIN list.hyps |-> j]).error

\* The first of the hypotheses with the least expected error.
HowManyOf(list, maxRescore) ==
    IF maxRescore > 0 /\ maxRescore < Len(list.hyps) THEN maxRescore ELSE Len(list.hyps)
MinimizeListError(list, maxRescore, prune) ==
    LET Try(b, i, error) == IF i = 1 \/ error < b.error THEN [words |-> list.hyps[i].words, error |-> error] ELSE b
    IN  FoldLeft(LAMBDA b, i : Try(b, i, ExpectedError(list, i, b.error, prune)),
                 [words |-> <<>>, error |-> 0], [i \in 1 .. HowManyOf(list, maxRescore) |-> i])

-----------------------------------------------------------------------------
(* The tools.                                                              *)

VARIABLES
    opt,     \* the command line
    stage,   \* what comes next
    list,    \* the N-best list
    lat,     \* the mesh or lattice
    next,    \* the hypothesis to align
    mass,    \* posterior of those aligned
    prime,   \* words the alignment was primed with
    best,    \* words chosen and their expected error
    errors,  \* of the list or the lattice, against the reference
    written  \* the list and the mesh or lattice as written, and the lattice written from

vars == <<opt, stage, list, lat, next, mass, prime, best, errors, written>>

None == [done |-> FALSE]

Init ==
    /\ opt \in Settings
    /\ stage = "read" /\ list = EmptyList(opt.multi, opt.backtrace)
    /\ lat = IF opt.mesh THEN M!EmptyMesh ELSE L!EmptyLattice
    /\ next = 1 /\ mass = 0 /\ prime = None /\ best = None /\ errors = None /\ written = None

\* MultiAlign: both have these.
LatIsEmpty(l) == IF opt.mesh THEN M!IsEmpty(l) ELSE L!IsEmpty(l)
Aligned(l, words, post, id) ==
    IF opt.mesh THEN M!AlignWhole(l, M!Hyp(words, post, id)) ELSE L!AlignWords(l, words, post).l
Added(l, words, post, id) ==
    IF opt.mesh THEN Aligned(l, words, post, id) ELSE L!AddWords(l, words, post)

Go(from, to) == stage = from /\ stage' = to

\* Other meshes are merged with this one first.
MergeMesh ==
    \E m \in Meshes, weight \in {1, 2} :
        /\ stage = "read" /\ opt.merging /\ M!IsEmpty(lat) /\ stage' = "read"
        /\ lat' = M!AlignAlignment(lat, m, weight)
        /\ UNCHANGED <<opt, list, next, mass, prime, best, errors, written>>

\* Without a list only the lattice is looked at; a bad line ends the program.
Read ==
    \E f \in Files :
        LET r == ReadList(list, f, 0)
        IN  /\ stage = "read" /\ stage' = IF r.ok THEN opt.mode ELSE "stopped"
            /\ list' = IF opt.keepNoise \/ opt.mode \in {"rescore", "norm"} \/ ~ r.ok THEN r.list ELSE RemoveNoise(r.list)
            /\ UNCHANGED <<opt, lat, next, mass, prime, best, errors, written>>
ReadNone ==
    /\ Go("read", "error") /\ ~ LatIsEmpty(lat)
    /\ UNCHANGED <<opt, list, lat, next, mass, prime, best, errors, written>>

NBestError ==
    /\ Go("nbest error", "write")
    /\ LET r == NBestWordError(list, Reference)
       IN  list' = r.list /\ errors' = [done |-> TRUE, of |-> r.best]
    /\ UNCHANGED <<opt, lat, next, mass, prime, best, written>>

\* ngram -nbest: a recogniser's score is replaced.
RescoreNBest ==
    \E fix \in BOOLEAN :
        /\ Go("rescore", "write") /\ list.hyps # <<>>
        /\ LET fixed == IF fix THEN DecipherFix(list, opt.weights) ELSE list
               scored == RescoreHyps(fixed, opt.weights)
           IN  list' = IF opt.reorder THEN SortHyps(scored) ELSE scored
        /\ UNCHANGED <<opt, lat, next, mass, prime, best, errors, written>>

\* testNBest: the acoustic scores less the greatest of them, and back again or not.
NormAcoustics ==
    \E undo \in BOOLEAN :
        /\ Go("norm", "write")
        /\ list' = IF undo THEN AcousticDenorm(AcousticNorm(list)) ELSE AcousticNorm(list)
        /\ UNCHANGED <<opt, lat, next, mass, prime, best, errors, written>>

Weighted == opt.weights.lm # 0 \/ opt.weights.wt # 0
Ordered(l) ==
    IF ~ opt.reorder THEN l
    ELSE SortHyps(IF Weighted THEN ReweightHyps(l, [opt.weights EXCEPT !.am = 1]) ELSE l)

\* -wer: words of the list that have the least expected error.
WordErrorRescore ==
    /\ Go("wer", "write")
    /\ list' = ComputePosteriors(Ordered(list), opt.weights)
    /\ best' = [done |-> TRUE, choice |-> MinimizeListError(list', opt.maxRescore, opt.prune)]
    /\ UNCHANGED <<opt, lat, next, mass, prime, errors, written>>

Rank ==
    /\ Go("align", "prime")
    /\ list' = ComputePosteriors(Ordered(list), opt.weights)
    /\ UNCHANGED <<opt, lat, next, mass, prime, best, errors, written>>

\* Only words that are there prime: those of the best hypothesis, the reference, or the words of the
\* list with the least expected error.
HowMany == HowManyOf(list, opt.maxRescore)
Priming == opt.prime # "none" /\ ~ opt.noMerge /\ LatIsEmpty(lat)
FirstBest(l) ==
    CHOOSE i \in 1 .. HowMany : /\ \A j \in 1 .. HowMany : l.hyps[j].total <= l.hyps[i].total
                                /\ \A j \in 1 .. i - 1 : l.hyps[j].total < l.hyps[i].total
PrimeWords(l) ==
    CASE opt.prime = "best" -> l.hyps[FirstBest(l)].words
      [] opt.prime = "refs" -> Reference
      [] opt.prime = "wer" -> MinimizeListError(l, opt.maxRescore, opt.prune).words
Prime ==
    /\ Go("prime", "add") /\ Priming /\ (opt.prime = "best" => list.hyps # <<>>)
    /\ list' = IF opt.prime = "best" THEN ReweightHyps(list, [opt.weights EXCEPT !.am = 1]) ELSE list
    /\ prime' = [done |-> TRUE, words |-> PrimeWords(list')]
    /\ lat' = Added(lat, prime'.words, PrimePosterior, -1)
    /\ UNCHANGED <<opt, next, mass, best, errors, written>>
NoPrime ==
    /\ Go("prime", "add") /\ (Priming => opt.prime = "best" /\ list.hyps = <<>>)
    /\ UNCHANGED <<opt, list, lat, next, mass, prime, best, errors, written>>

\* Hypotheses one by one, until enough of the posterior has been seen.
Incorporate ==
    /\ stage = "add" /\ next <= HowMany
    /\ LET h == list.hyps[next]
           id == IF opt.record THEN h.rank ELSE -1
       IN  /\ lat' = IF opt.noMerge \/ LatIsEmpty(lat) THEN Added(lat, h.words, h.post, id)
                     ELSE Aligned(lat, h.words, h.post, id)
           /\ mass' = mass + h.post
    /\ next' = next + 1
    /\ stage' = IF Enough(mass', One(list), opt.prune) THEN "unprime" ELSE "add"
    /\ UNCHANGED <<opt, list, prime, best, errors, written>>

\* "Remove posterior mass due to priming".
Unprime ==
    /\ (stage = "unprime" \/ (stage = "add" /\ next > HowMany)) /\ stage' = "choose"
    /\ lat' = IF prime.done THEN Added(lat, prime.words, - PrimePosterior, -1) ELSE lat
    /\ UNCHANGED <<opt, list, next, mass, prime, best, errors, written>>

Choice(l) ==
    IF opt.mesh THEN [lat |-> l, best |-> M!MinimizeMeshError(l, opt.bias, Suppressed)]
    ELSE LET r == L!MinimizeWordError(l, Suppressed) IN [lat |-> r.l, best |-> r.best]
Choose ==
    /\ Go("choose", "error") /\ ~ opt.dump /\ (opt.mesh \/ ~ LatIsEmpty(lat))
    /\ LET r == Choice(lat)
       IN  lat' = r.lat /\ best' = [done |-> TRUE, choice |-> [words |-> r.best.words, error |-> r.best.sub + r.best.ins + r.best.del]]
    /\ UNCHANGED <<opt, list, next, mass, prime, errors, written>>

\* -dump-posteriors: every hypothesis is aligned again, with no posterior, for the posteriors of its words.
RECURSIVE Realigned(_, _)
Realigned(l, k) == IF k > HowMany THEN l ELSE Realigned(Aligned(l, list.hyps[k].words, 0, -1), k + 1)
DumpPosteriors ==
    /\ Go("choose", "error") /\ opt.dump
    /\ lat' = Realigned(lat, 1)
    /\ UNCHANGED <<opt, list, next, mass, prime, best, errors, written>>

\* -lattice-error, then the reference is recorded.
LatticeError ==
    /\ Go("error", "write") /\ (opt.mesh \/ ~ LatIsEmpty(lat) \/ ~ opt.reference)
    /\ errors' = [done |-> TRUE, of |-> IF opt.mesh THEN M!MeshWordError(lat, Reference)
                                        ELSE L!LatticeWordError(lat, Reference)]
    /\ lat' = IF ~ opt.reference THEN lat
              ELSE IF opt.mesh THEN M!AlignReference(lat, Reference) ELSE Aligned(lat, Reference, 0, -1)
    /\ UNCHANGED <<opt, list, next, mass, prime, best, written>>

\* An assertion fails where words are to be taken from, or put into, a lattice whose end is not reached.
Abort ==
    /\ ~ opt.mesh /\ LatIsEmpty(lat)
    /\ \/ Go("choose", "stopped") /\ ~ opt.dump
       \/ Go("error", "stopped") /\ opt.reference
    /\ UNCHANGED <<opt, list, lat, next, mass, prime, best, errors, written>>

\* What was written, read back.
Write ==
    /\ Go("write", "done")
    /\ written' = [done |-> TRUE, list |-> WriteList(list, opt.decipher),
                   lat |-> IF opt.mesh THEN M!ReadMesh(M!MeshLines(lat)) ELSE L!ReadLattice(L!LatticeLines(lat))]
    /\ UNCHANGED <<opt, list, lat, next, mass, prime, best, errors>>

Next == \/ MergeMesh \/ Read \/ ReadNone \/ NBestError \/ NormAcoustics \/ RescoreNBest \/ WordErrorRescore \/ Rank \/ Prime \/ NoPrime
        \/ Incorporate \/ Unprime \/ Choose \/ DumpPosteriors \/ LatticeError \/ Abort \/ Write

Spec == Init /\ [][Next]_vars

=============================================================================
