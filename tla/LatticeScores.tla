--------------------------- MODULE LatticeScores ---------------------------
(***************************************************************************)
(* lattice/src/Lattice.cc, LatticeNBest.cc, LatticeDecode.cc: what is      *)
(* computed from a lattice along its sorted nodes: forward and backward    *)
(* sums, posteriors, pruning by them, the best path, the path nearest to a *)
(* reference, the N best paths and the best paths under another model.     *)
(***************************************************************************)
EXTENDS Lattice, TLC

\* The meshes that lattices are aligned to, where all words are equally far apart.
W == INSTANCE WordMesh WITH Penalty <- [w \in {} |-> 0], Distance <- [w \in {} |-> 0], WordOrder <- <<>>

\* The elements of a set one by one, and in an order.
Listed(S) == FoldSet(LAMBDA x, q : Append(q, x), <<>>, S)
InOrder(S, Before(_, _)) == SortSeq(Listed(S), Before)

\* LogP_PseudoZero stands for a weight of zero where sums are computed.
PseudoZero == 1
Weight(w) == IF w = 0 THEN PseudoZero ELSE w

SumOf(f) == FoldFunction(+, 0, f)
Best(S)  == Max(S \cup {0})

\* A final node that the search from the initial node does not find, or finds first, fails them all.
FinalFound(l) == l.final \in Range(Tail(SortNodes(l)))
UpTo(order, n) == SubSeq(order, 1, SelectInSeq(order, LAMBDA m : m = n))

\* Mutant: the last node before the final one is left out.
BeforeFinal_LateStart(l) == Reverse(SubSeq(UpTo(SortNodes(l), l.final), 1, Len(UpTo(SortNodes(l), l.final)) - 2))

BeforeFinal(l) == Tail(Reverse(UpTo(SortNodes(l), l.final)))

AllZero(l) == [n \in 0 .. l.maxIndex - 1 |-> 0]

Forward(l) ==
    FoldLeft(LAMBDA p, n : [p EXCEPT ![n] = SumOf([m \in DOMAIN l.in[n] |-> p[m] * Weight(l.in[n][m].w)])],
             [AllZero(l) EXCEPT ![l.initial] = One], Tail(SortNodes(l)))
Backward(l) ==
    FoldLeft(LAMBDA p, n : [p EXCEPT ![n] = SumOf([m \in DOMAIN l.out[n] |-> p[m] * Weight(l.out[n][m].w)])],
             [AllZero(l) EXCEPT ![l.final] = One], BeforeFinal(l))

\* The same with the best path in place of the sum of all.
ForwardBest(l) ==
    FoldLeft(LAMBDA p, n : [p EXCEPT ![n] = Best({p[m] * Weight(l.in[n][m].w) : m \in DOMAIN l.in[n]})],
             [AllZero(l) EXCEPT ![l.initial] = One], Tail(SortNodes(l)))
BackwardBest(l) ==
    FoldLeft(LAMBDA p, n : [p EXCEPT ![n] = Best({p[m] * Weight(l.out[n][m].w) : m \in DOMAIN l.out[n]})],
             [AllZero(l) EXCEPT ![l.final] = One], BeforeFinal(l))

\* Not normalized; 0 for nodes that are not reached.
Posteriors(l) ==
    LET ahead == Forward(l)
        back  == Backward(l)
    IN  [n \in Nodes(l) |-> IF FinalFound(l) /\ n \in Range(SortNodes(l)) THEN ahead[n] * back[n] ELSE 0]

\* The best, over all paths, of the least posterior on the path.
MaxMinPosterior(l, posterior) ==
    LET reach == FoldLeft(LAMBDA p, n : [p EXCEPT ![n] = Min({posterior[n], Best({p[m] : m \in DOMAIN l.in[n]})})],
                          [AllZero(l) EXCEPT ![l.initial] = posterior[l.initial]], Tail(SortNodes(l)))
    IN  IF FinalFound(l) THEN reach[l.final] ELSE 0

\* writePosteriors(): of the transitions, not divided by the total.
TransPosterior(l, a, b) == Forward(l)[a] * l.out[a][b].w * Backward(l)[b]

-----------------------------------------------------------------------------
GetDuration(l, duration) ==
    IF NoTime \notin {l.time[l.initial], l.time[l.final]}
    THEN l.time[l.final] - l.time[l.initial] ELSE duration

RealNodes(l) == {n \in Nodes(l) : l.word[n] \notin {Null, SentStart, SentEnd}}

\* Mutant: nodes as good as the threshold go too.
Below_OrEqual(p, best, t) == p * t[2] <= t[1] * best

\* Counts are compared with these, fractions of the best path's least posterior.
Below(p, best, t) == p * t[2] < t[1] * best

\* One round of prunePosteriors(): nodes below the threshold go, or, with none given, the least
\* posterior becomes the threshold.
PruneRound(l, posterior, best, threshold) ==
    IF threshold[1] > 0
    THEN FoldLeft(RemoveNode, l, Ascending({n \in Nodes(l) : Below(posterior[n], best, threshold)}))
    ELSE l
FirstThreshold(l, posterior, best, threshold) ==
    IF threshold[1] > 0 THEN threshold
    ELSE <<Min({best} \cup {posterior[n] : n \in {m \in Nodes(l) : posterior[m] > 0}}), best>>

\* Raised by a constant factor, 10^(1/10) in the code.
Raised(t) == <<2 * t[1], t[2]>>

\* limits: density is the most real nodes per unit of time and nodes the most real nodes, 0 for no
\* limit.  When the duration is unknown the number of real nodes is never set: whatever the
\* variable held, held, is compared with the limit.
OverLimit(l, limits, held) ==
    LET time == GetDuration(l, limits.duration)
        real == IF time = 0 THEN held ELSE Cardinality(RealNodes(l))
    IN  \/ limits.density > 0 /\ time > 0 /\ real > limits.density * time
        \/ limits.nodes > 0 /\ real > limits.nodes

RECURSIVE Prune(_, _, _, _, _, _)
Prune(l, kept, threshold, limits, fast, held) ==
    LET Pruned(cut) == IF fast THEN RemoveUselessNodes(cut) ELSE cut
        Again(pruned, t) == Prune(pruned, kept, t, limits, fast, held)
        Unless(pruned, t, raised) ==
            IF Nodes(pruned) # Nodes(l) THEN Again(pruned, t)
            ELSE IF limits.density > 0 /\ GetDuration(pruned, limits.duration) = 0 THEN [ok |-> TRUE, l |-> pruned]
            ELSE IF OverLimit(pruned, limits, held) /\ raised[1] <= raised[2] THEN Again(pruned, raised)
            ELSE [ok |-> TRUE, l |-> pruned]
        With(posterior, best) ==
            LET next == FirstThreshold(l, posterior, best, threshold)
            IN  IF best = 0 THEN [ok |-> FALSE, l |-> l]
                ELSE Unless(Pruned(PruneRound(l, posterior, best, threshold)), next, Raised(next))
        Round(posterior) == With(posterior, IF fast THEN kept.best ELSE MaxMinPosterior(l, posterior))
    IN  Round(IF fast THEN kept.posterior ELSE Posteriors(l))

PrunePosteriors(l, threshold, limits, fast, held) ==
    LET Kept(posterior) == [posterior |-> posterior, best |-> MaxMinPosterior(l, posterior)]
    IN  Prune(l, Kept(Posteriors(l)), threshold, limits, fast, held)

-----------------------------------------------------------------------------
\* The first of the best predecessors of every node, NoNode where no path has a weight.
Viterbi(l) ==
    FoldLeft(LAMBDA v, n :
                LET score == [m \in DOMAIN l.in[n] |-> v.prob[m] * l.in[n][m].w]
                    top   == Best({score[m] : m \in DOMAIN score})
                    at    == {m \in DOMAIN score : score[m] = top}
                IN  [prob |-> [v.prob EXCEPT ![n] = top],
                     pred |-> [v.pred EXCEPT ![n] = IF top = 0 THEN NoNode ELSE Min(at)]],
             [prob |-> [AllZero(l) EXCEPT ![l.initial] = One],
              pred |-> [n \in 0 .. l.maxIndex - 1 |-> NoNode]], Tail(SortNodes(l)))

\* ... and of the best successors, from the last of the sorted nodes but one.
ViterbiBack(l) ==
    FoldLeft(LAMBDA v, n :
                LET score == [m \in DOMAIN l.out[n] |-> v.prob[m] * l.out[n][m].w]
                    top   == Best({score[m] : m \in DOMAIN score})
                    at    == {m \in DOMAIN score : score[m] = top}
                IN  [prob |-> [v.prob EXCEPT ![n] = top],
                     next |-> [v.next EXCEPT ![n] = IF top = 0 THEN NoNode ELSE Min(at)]],
             [prob |-> [AllZero(l) EXCEPT ![l.final] = One],
              next |-> [n \in 0 .. l.maxIndex - 1 |-> NoNode]], Tail(SortedBack(l)))

RECURSIVE Backtrace(_, _, _)
Backtrace(l, pred, n) ==
    IF n = NoNode THEN <<>>
    ELSE Append(Backtrace(l, pred, pred[n]), n)

Heard(l, path, ignore) ==
    SelectSeq([i \in DOMAIN path |-> l.word[path[i]]], LAMBDA w : ~ Ignored(w) /\ w \notin ignore)

\* The words of the best path and its weight; none if they do not fit or there is no path.
BestWords(l, maxWords, ignore) ==
    LET v == Viterbi(l)
        words == Heard(l, Backtrace(l, v.pred, l.final), ignore)
    IN  IF ~ FinalFound(l) \/ Len(words) > maxWords THEN [words |-> <<>>, prob |-> 0]
        ELSE [words |-> words, prob |-> v.prob[l.final]]

\* Width first, along transitions or against them.
RECURSIVE Reached(_, _, _)
Reached(l, S, backwards) ==
    LET T == S \cup UNION {IF backwards THEN DOMAIN l.in[n] ELSE DOMAIN l.out[n] : n \in S \cap Nodes(l)}
    IN  IF T = S THEN S ELSE Reached(l, T, backwards)
AreConnected(l, a, b, backwards) == b \in Reached(l, {a}, backwards)

-----------------------------------------------------------------------------
\* Errors are weighed against each other when words are aligned.
SUB_COST == 4
INS_COST == 3
DEL_COST == 3

Silent(w, ignore) == Ignored(w) \/ w \in ignore
Cost(e) == SUB_COST * e.sub + INS_COST * e.ins + DEL_COST * e.del
NoErrors == [sub |-> 0, ins |-> 0, del |-> 0]

\* Mutant: the last way to a node stays.
Improve_Last(row, n, e) == Put(row, n, e)

\* A chart row has the errors so far of the nodes that were reached; the first best way to a node stays.
Improve(row, n, e) ==
    IF n \in DOMAIN row /\ Cost(row[n]) <= Cost(e) THEN row
    ELSE Put(row, n, e)

\* Nodes that no word of the reference matches, any number in a row.
Inserted(l, row, ignore) ==
    FoldLeft(LAMBDA r, n :
                IF n \notin DOMAIN r THEN r
                ELSE FoldLeft(LAMBDA q, m :
                                 Improve(q, m, [q[n] EXCEPT !.ins = @ + IF Silent(l.word[m], ignore) THEN 0 ELSE 1]),
                              r, Ascending(DOMAIN l.out[n])),
             row, SortNodes(l))

\* The next word of the reference is left out, or stands against a node.
Aligned(l, row, w, ignore) ==
    FoldLeft(LAMBDA r, n :
                IF n \notin DOMAIN row THEN r
                ELSE FoldLeft(LAMBDA q, m :
                                 LET v == IF l.word[m] = SentEnd THEN Null ELSE l.word[m]
                                 IN  Improve(q, m, [row[n] EXCEPT !.sub = @ + IF v = w THEN 0 ELSE 1]),
                              Improve(r, n, [row[n] EXCEPT !.del = @ + IF Silent(w, ignore) THEN 0 ELSE 1]),
                              Ascending(DOMAIN l.out[n])),
             [n \in {} |-> NoErrors], SortNodes(l))

\* The end of the reference is one more word, that only the end of a path matches.
LatticeWER(l, words, ignore) ==
    LET first == Inserted(l, [n \in {l.initial} |-> NoErrors], ignore)
        last  == FoldLeft(LAMBDA row, w : Inserted(l, Aligned(l, row, w, ignore), ignore),
                          first, Append(words, Null))
    IN  IF l.final \in DOMAIN last THEN last[l.final]
        ELSE [sub |-> 0, ins |-> 0, del |-> Len(words)]

-----------------------------------------------------------------------------
(* The N best sequences of words (LatticeNBest.cc). *)

\* What tells hypotheses apart: their words, multiwords in parts if they are to be split.
Feature(l, path, ignore, split) ==
    LET words == Heard(l, path, ignore)
    IN  IF split THEN FlattenSeq([i \in DOMAIN words |-> Parts[words[i]]]) ELSE words

\* The ways on from a node, the best first.
Successors(l, back) ==
    [n \in Nodes(l) |->
        LET ahead == [m \in DOMAIN l.out[n] |-> l.out[n][m].w * back[m]]
        IN  InOrder(DOMAIN ahead, LAMBDA a, b : ahead[a] > ahead[b] \/ (ahead[a] = ahead[b] /\ a < b))]

\* A partial path, its weight and that of the best way to complete it by the next successor to try.
\* Words are counted where there is information about times.
NBestHyp(score, forward, path, next, count) ==
    [score |-> score, forward |-> forward, path |-> path, next |-> next, count |-> count]

Higher(g, h) == g.score > h.score \/ (g.score = h.score /\ g.count > h.count)

\* Mutant: the queue makes room by dropping the best.
Pushed_DropBest(queue, h, maxHyps) ==
    (IF maxHyps > 0 /\ Cardinality(queue) >= maxHyps
     THEN queue \ {CHOOSE g \in queue : \A f \in queue : ~ Higher(f, g)} ELSE queue) \cup {h}

Pushed(queue, h, maxHyps) ==
    (IF maxHyps > 0 /\ Cardinality(queue) >= maxHyps
     THEN queue \ {CHOOSE g \in queue : \A f \in queue : ~ Higher(g, f)} ELSE queue) \cup {h}

SiblingAfter(l, succs, h) == h.next < Len(succs[Last(h.path)])

\* The path goes on to the next successor, and may later go to the one after it.
Expanded(l, back, succs, ignore, queue, h, maxHyps) ==
    LET at == Last(h.path)
        Along(i) == h.forward * l.out[at][succs[at][i]].w
        to == succs[at][h.next]
        counted == l.time[at] # NoTime /\ ~ Silent(l.word[at], ignore) /\ l.word[at] \notin {SentStart, SentEnd}
        child == NBestHyp(Along(h.next) * back[to], Along(h.next), Append(h.path, to), 1,
                          h.count + IF counted THEN 1 ELSE 0)
        longer == IF h.next <= Len(succs[at]) THEN Pushed(queue, child, maxHyps) ELSE queue
        sibling == [h EXCEPT !.score = Along(h.next + 1) * back[succs[at][h.next + 1]], !.next = @ + 1]
    IN  IF SiblingAfter(l, succs, h) THEN Pushed(longer, sibling, maxHyps) ELSE longer

\* opts: the most hypotheses to put out and to hold, how often one may be put out, the words to
\* ignore and whether multiwords count as their parts.
RECURSIVE NBestSearch(_, _, _, _, _, _)
NBestSearch(l, back, succs, opts, queue, found) ==
    LET Times(feature) == 1 + Len(SelectSeq(found.all, LAMBDA f : f = feature))
        Shown(feature) == Times(feature) = 1 \/ Times(feature) <= opts.duplicates
        Saying(h, feature) == [all  |-> Append(found.all, feature),
                               hyps |-> IF Shown(feature) THEN Append(found.hyps, [words |-> feature, prob |-> h.forward])
                                        ELSE found.hyps]
        Goes(rest, h) ==
            IF Last(h.path) = l.final
            THEN NBestSearch(l, back, succs, opts, rest, Saying(h, Feature(l, h.path, opts.ignore, opts.split)))
            ELSE NBestSearch(l, back, succs, opts, Expanded(l, back, succs, opts.ignore, rest, h, opts.maxHyps), found)
        From(top) == Goes(queue \ {top}, top)
    IN  IF queue = {} \/ Len(found.hyps) >= opts.N THEN found.hyps
        ELSE From(CHOOSE h \in queue : \A g \in queue : ~ Higher(g, h))

ComputeNBest(l, opts) ==
    LET Search(back) == NBestSearch(l, back, Successors(l, back), opts, {NBestHyp(One, One, <<l.initial>>, 1, 0)},
                                    [all |-> <<>>, hyps |-> <<>>])
    IN  IF ~ FinalFound(l) THEN <<>> ELSE Search(BackwardBest(l))

\* The other method keeps the N best sequences at every node.  A table has the weight and the path
\* of the best way to say a sequence; the first of equally good ones stays.
NoHyps == [s \in {} |-> [prob |-> One, path |-> <<>>]]

\* Mutant: any further way takes the place of the first.
AddHyp_Last(table, s, h) == Put(table, s, h)

AddHyp(table, s, h) == IF s \in DOMAIN table /\ h.prob <= table[s].prob THEN table ELSE Put(table, s, h)

\* The N best of a table, in order.
Top(table, N) ==
    LET sorted == InOrder(DOMAIN table, LAMBDA s, t : table[s].prob > table[t].prob)
    IN  SubSeq(sorted, 1, Min({N, Len(sorted)}))

\* Words said at a node; multiwords always hang together as parts once they are split.
SaidAt(l, n, opts) ==
    IF Silent(l.word[n], opts.ignore) \/ l.word[n] \in {SentStart, SentEnd} THEN <<>>
    ELSE IF opts.split THEN Parts[l.word[n]] ELSE <<l.word[n]>>

\* The nodes up to the final one have a position.  A predecessor that has none is taken for the
\* initial node, as long as the sequences of that are still there.
AddHyps(l, n, w, hyps, opts, table) ==
    FoldLeft(LAMBDA t, s : AddHyp(t, s \o SaidAt(l, n, opts),
                                  [prob |-> hyps[s].prob * w, path |-> Append(hyps[s].path, n)]),
             table, Top(hyps, opts.N))

Position(upTo, n) == SelectInSeq(upTo, LAMBDA m : m = n)
Sources(l, upTo, tables, n) ==
    LET lastUse == Max({Position(upTo, m) : m \in DOMAIN l.out[l.initial]})
    IN  [m \in {k \in DOMAIN l.in[n] : k \in DOMAIN tables \/ (Position(upTo, k) = 0 /\ Position(upTo, n) <= lastUse)} |->
            IF m \in DOMAIN tables THEN m ELSE l.initial]

\* Only the best of a node's sequences go on.
HypsAt(l, opts, upTo, tables, n) ==
    LET From(sources) == FoldLeft(LAMBDA t, m : AddHyps(l, n, l.in[n][m].w, tables[sources[m]], opts, t),
                                  NoHyps, Ascending(DOMAIN sources))
        Kept(t) == [s \in Range(Top(t, opts.N)) |-> t[s]]
    IN  Put(tables, n, Kept(From(Sources(l, upTo, tables, n))))

ComputeNBestViterbi(l, opts) ==
    LET first == [n \in {l.initial} |-> [s \in {<<>>} |-> [prob |-> One, path |-> <<l.initial>>]]]
        Tables(upTo) == FoldLeft(LAMBDA ts, n : HypsAt(l, opts, upTo, ts, n), first, Tail(upTo))
        Out(table, sorted) == [i \in DOMAIN sorted |-> [words |-> sorted[i], prob |-> table[sorted[i]].prob]]
        Sorted(table) == Out(table, Top(table, opts.N))
    IN  IF FinalFound(l) THEN Sorted(Tables(UpTo(SortNodes(l), l.final))[l.final]) ELSE <<>>

-----------------------------------------------------------------------------
(* Decoding with a language model (LatticeDecode.cc), whose probabilities weigh as they are. *)

MAX_LM_ORDER == 10
Wide == -1   \* a beam that only impossible paths fall out of

\* Paths to a node are told apart by the context they leave for the model.  The best of those
\* with one context stays; for N best ones, links to all predecessors are kept.
DecodePath(prob, prev, links) == [prob |-> prob, prev |-> prev, links |-> links]
NoPrev == <<>>

\* Contexts are compared as far as the shorter one goes.
SameContext(c, d) == \A i \in 1 .. Min({Len(c), Len(d)}) : c[i] = d[i]

ContextAfter(w, c, order) ==
    IF Ignored(w) THEN c ELSE SubSeq(<<w>> \o c, 1, Min({order - 1, Len(c) + 1}))

\* The best weight from a node to the end; where the lattice has no score of a model of its own
\* (information about times but no language score), words count with their unigrams.
ToEnd(l, model) ==
    LET Unigram(n) == IF model /\ ~ Ignored(l.word[n]) /\ l.time[n] # NoTime THEN WordProb(l.word[n], <<>>) ELSE One
    IN  FoldLeft(LAMBDA p, n : [p EXCEPT ![n] = Best({p[m] * l.out[n][m].w * Unigram(m) : m \in DOMAIN l.out[n]})],
                 [AllZero(l) EXCEPT ![l.final] = One], BeforeFinal(l))

InBeam(p, best, beam) ==
    IF beam = 0 THEN TRUE ELSE IF beam = Wide THEN p > 0 \/ best = 0 ELSE p * beam >= best

\* Joins a path with that of its context.
MergePath(table, c, p, nbest) ==
    LET same == {d \in DOMAIN table : SameContext(c, d)}
        k == CHOOSE d \in same : TRUE
        old == table[k]
        links == IF nbest THEN p.links \o old.links ELSE old.links
    IN  IF same = {} THEN Put(table, c, p)
        ELSE [table EXCEPT ![k] = IF old.prob < p.prob THEN [p EXCEPT !.links = links] ELSE [old EXCEPT !.links = links]]

\* st: the paths of every node, those of the node at hand, and how many were ever made.
\* opts: whether there is a model, its order, beam, least probability of a word, the most paths
\* and links of a path (0 for no limit), and whether the links are wanted.
Arrive(l, n, m, c, w, ahead, opts, st) ==
    LET p == st.paths[m][c]
        word == l.word[n]
        step == w * IF opts.model /\ ~ Ignored(word) THEN Max({opts.floor, WordProb(word, c)}) ELSE One
        new == DecodePath(p.prob * step, <<m, c>>, IF opts.nbest THEN <<[prev |-> <<m, c>>, diff |-> step]>> ELSE <<>>)
    IN  IF ~ st.ok \/ ~ InBeam(new.prob * ahead[n], ahead[l.initial], opts.beam) THEN st
        ELSE IF opts.maxPaths > 0 /\ st.made + 1 > opts.maxPaths THEN [st EXCEPT !.ok = FALSE]
        ELSE [st EXCEPT !.made = @ + 1,
                        !.here = MergePath(@, ContextAfter(word, c, opts.order), new, opts.nbest)]

\* Only the best of too many links stay.
TruncLinks(paths, p, fanIn) ==
    LET Prob(k) == paths[k.prev[1]][k.prev[2]].prob * k.diff
        sorted == InOrder(DOMAIN p.links, LAMBDA i, j : Prob(p.links[i]) > Prob(p.links[j]))
    IN  IF fanIn = 0 \/ Len(p.links) <= fanIn THEN p
        ELSE [p EXCEPT !.links = [i \in 1 .. fanIn |-> p.links[sorted[i]]]]

DecodeNode(l, ahead, opts, st, n) ==
    LET Along(s, m) == FoldLeft(LAMBDA t, c : Arrive(l, n, m, c, l.in[n][m].w, ahead, opts, t), s, Listed(DOMAIN s.paths[m]))
        With(all) == IF ~ all.ok THEN all
                     ELSE [all EXCEPT !.paths = Put(@, n, [c \in DOMAIN all.here |-> TruncLinks(st.paths, all.here[c], opts.fanIn)])]
    IN  With(FoldLeft(Along, [st EXCEPT !.here = NoHyps], Ascending(DOMAIN l.in[n] \cap DOMAIN st.paths)))

\* decode(): the paths of the nodes up to the final one, none of it if there were too many.
Decode(l, opts) ==
    LET context == IF opts.order > 1 /\ l.word[l.initial] # Null THEN <<l.word[l.initial]>> ELSE <<>>
        start == [ok |-> TRUE, made |-> 1, here |-> NoHyps,
                  paths |-> [n \in {l.initial} |-> [c \in {context} |-> DecodePath(One, NoPrev, <<>>)]]]
        With(ahead) == FoldLeft(LAMBDA st, n : DecodeNode(l, ahead, opts, st, n), start, Tail(UpTo(SortNodes(l), l.final)))
        Done(st) == IF st.ok THEN st.paths ELSE [n \in {l.final} |-> NoHyps]
    IN  Done(With(IF opts.beam = 0 THEN AllZero(l) ELSE ToEnd(l, opts.model)))

\* Without a model one context is enough.
DecodeOptions(opts, nbest) ==
    [opts EXCEPT !.order = IF opts.order <= 1 \/ ~ opts.model THEN 1 ELSE opts.order,
                 !.nbest = nbest, !.fanIn = IF nbest THEN @ ELSE 0,
                 !.floor = IF nbest THEN 0 ELSE @,
                 !.beam = IF nbest /\ @ = 0 THEN Wide ELSE @]

BestContext(paths, n) == CHOOSE c \in DOMAIN paths[n] : \A d \in DOMAIN paths[n] : paths[n][d].prob <= paths[n][c].prob

RECURSIVE TraceDecoded(_, _)
TraceDecoded(paths, k) ==
    IF k = NoPrev THEN <<>> ELSE Append(TraceDecoded(paths, paths[k[1]][k[2]].prev), k[1])

\* The words, sentence tags too, of the best path.  The trace stops when there is no room for words;
\* then all nodes must have been seen.
Decode1Best(l, opts, maxWords, ignore) ==
    LET Fits(trace, words) == Len(words) < maxWords \/ (Len(words) = maxWords /\ ~ Silent(l.word[trace[1]], ignore))
        Answer(trace, words, prob) ==
            IF Fits(trace, words) THEN [words |-> words, prob |-> prob] ELSE [words |-> <<>>, prob |-> 0]
        Traced(trace, prob) == Answer(trace, Heard(l, trace, ignore), prob)
        From(paths, c) == Traced(TraceDecoded(paths, <<l.final, c>>), paths[l.final][c].prob)
        Among(paths) == IF paths[l.final] = NoHyps THEN [words |-> <<>>, prob |-> 0] ELSE From(paths, BestContext(paths, l.final))
        With(o) == IF o.order > MAX_LM_ORDER THEN [words |-> <<>>, prob |-> One]
                   ELSE IF FinalFound(l) THEN Among(Decode(l, o)) ELSE [words |-> <<>>, prob |-> 0]
    IN  With(DecodeOptions(opts, FALSE))

-----------------------------------------------------------------------------
\* The N best: from the paths of the final node back along the links.  A hypothesis has the path
\* object it has come to, the weight from there on and what tells it apart: its words from the last to
\* the first, where the parts of a multiword, once it is split, are in their own order.  A path object
\* is come to again with the same words only with a better weight.
BackHyp(at, prob, bwd, path, feature) == [at |-> at, prob |-> prob, bwd |-> bwd, path |-> path, feature |-> feature]
Likelier(g, h) == g.prob > h.prob \/ (g.prob = h.prob /\ Len(g.path) > Len(h.path))

Improves(seen, k, prob) == k \notin DOMAIN seen \/ prob > seen[k]

FollowLink(l, paths, opts, best, h, st, k) ==
    LET prob == paths[k.prev[1]][k.prev[2]].prob * k.diff * h.bwd
        w == l.word[k.prev[1]]
        feature == IF Silent(w, opts.ignore) THEN h.feature ELSE h.feature \o IF opts.split THEN Parts[w] ELSE <<w>>
        key == <<k.prev, feature>>
    IN  IF prob = 0 \/ (opts.beam # 0 /\ prob * opts.beam <= best) \/ ~ Improves(st.seen, key, prob) THEN st
        ELSE [st EXCEPT !.seen = Put(@, key, prob),
                        !.queue = Append(@, BackHyp(k.prev, prob, h.bwd * k.diff, <<k.prev[1]>> \o h.path, feature))]

RECURSIVE BackSearch(_, _, _, _, _, _)
BackSearch(l, paths, opts, best, st, found) ==
    LET Goes(rest, h) ==
            IF paths[h.at[1]][h.at[2]].prev = NoPrev
            THEN BackSearch(l, paths, opts, best, rest, Append(found, [words |-> Heard(l, h.path, opts.ignore), prob |-> h.prob]))
            ELSE BackSearch(l, paths, opts, best,
                            FoldLeft(LAMBDA s, k : FollowLink(l, paths, opts, best, h, s, k), rest, paths[h.at[1]][h.at[2]].links),
                            found)
        top == CHOOSE i \in DOMAIN st.queue : \A j \in DOMAIN st.queue : ~ Likelier(st.queue[j], st.queue[i])
    IN  IF st.queue = <<>> \/ Len(found) >= opts.N THEN found
        ELSE Goes([st EXCEPT !.queue = RemoveAt(@, top)], st.queue[top])

DecodeNBest(l, opts) ==
    LET Start(paths, finals) ==
            [queue |-> [i \in DOMAIN finals |-> BackHyp(<<l.final, finals[i]>>, paths[l.final][finals[i]].prob, One, <<l.final>>, <<>>)],
             seen |-> [k \in {} |-> 0]]
        Among(paths) == IF paths[l.final] = NoHyps THEN <<>>
                        ELSE BackSearch(l, paths, opts, paths[l.final][BestContext(paths, l.final)].prob,
                                        Start(paths, Listed(DOMAIN paths[l.final])), <<>>)
        With(o) == IF o.order > MAX_LM_ORDER \/ ~ FinalFound(l) THEN <<>> ELSE Among(Decode(l, o))
    IN  With(DecodeOptions(opts, TRUE))

-----------------------------------------------------------------------------
\* findBestPath(): the best path that says the words, of at most maxNodes nodes, by depth-first search.
\* s.records has the weight a node was first come to with so many words matched; a worse one is given up.
RECURSIVE PathFinder(_, _, _, _, _, _, _)
PathFinder(l, path, words, matched, prob, maxNodes, s) ==
    LET n == Last(path)
        key == <<matched, n>>
        now == IF key \in DOMAIN s.records THEN s ELSE [s EXCEPT !.records = Put(@, key, prob)]
        Next(k) == IF k < Len(words) THEN words[k + 1] ELSE Null
        next == IF Next(matched) = l.word[n] /\ l.word[n] # Null THEN matched + 1 ELSE matched
        passes == {m \in DOMAIN l.out[n] : l.word[m] = Next(next) \/ Ignored(l.word[m]) \/ l.word[m] \in {SentStart, SentEnd}}
        sorted == InOrder(passes, LAMBDA a, b : l.out[n][a].w > l.out[n][b].w
                                                     \/ (l.out[n][a].w = l.out[n][b].w /\ a < b))
    IN  IF Len(path) > maxNodes \/ (key \in DOMAIN s.records /\ prob <= s.records[key]) THEN s
        ELSE IF n = l.final
        THEN IF matched = Len(words) /\ prob > now.prob THEN [now EXCEPT !.path = path, !.prob = prob] ELSE now
        ELSE FoldLeft(LAMBDA r, m : PathFinder(l, Append(path, m), words, next, prob * l.out[n][m].w, maxNodes, r),
                      now, sorted)

FindBestPath(l, words, maxNodes) ==
    PathFinder(l, <<l.initial>>, words, 0, One, maxNodes, [path |-> <<>>, prob |-> 0, records |-> [k \in {} |-> 0]])

\* The words given by name: a word that the vocabulary has not, or nothing to say, has no path.  From a
\* pause on the words are not looked at, as the same word is read over and over until none are left.
FindBestPathOfText(l, words, known, maxNodes) ==
    LET end == SelectInSeq(words, LAMBDA w : w \notin known \/ Ignored(w))
        said == IF end = 0 THEN words ELSE SubSeq(words, 1, end - 1)
    IN  IF said = <<>> \/ (end > 0 /\ words[end] \notin known) THEN [path |-> <<>>, prob |-> 0]
        ELSE LET r == FindBestPath(l, said, maxNodes) IN [path |-> r.path, prob |-> r.prob]

-----------------------------------------------------------------------------
(* Expected counts of N-grams (LatticeNgrams.cc, LatticeIndex.cc), not divided by the total. *)

\* A word and its times, NoTime if not known.  In tables, N-grams with times are told apart by their
\* words, where they start and where they end.
Item(word, start, end) == [word |-> word, start |-> start, end |-> end]
WordsOf(ngram) == [i \in DOMAIN ngram |-> ngram[i].word]
NgramKey(ngram) == IF ngram = <<>> THEN <<>> ELSE <<WordsOf(ngram), ngram[1].start, Last(ngram).end>>

\* The longest gap between words whose times are known.
MaxInternalPause(ngram) ==
    Best({ngram[i].start - ngram[i - 1].end : i \in {j \in 2 .. Len(ngram) :
              NoTime \notin {ngram[j].start, ngram[j].end, ngram[j - 1].start, ngram[j - 1].end}}})

\* rint(): to the nearest multiple, and from halfway to an even one.
Rounded(t, tolerance) ==
    LET q == t \div tolerance
        r == t % tolerance
    IN  IF t = NoTime \/ tolerance = 0 THEN t
        ELSE tolerance * IF 2 * r > tolerance \/ (2 * r = tolerance /\ q % 2 = 1) THEN q + 1 ELSE q

AddCount(counts, key, c) == Put(counts, key, c + IF key \in DOMAIN counts THEN counts[key] ELSE 0)

\* opts: the order, and for an index of times the longest pause (0 for any) and the tolerance.
Accumulate(counts, ngram, c, opts) ==
    IF ~ opts.timed THEN AddCount(counts, WordsOf(ngram), c)
    ELSE IF opts.maxPause > 0 /\ MaxInternalPause(ngram) > opts.maxPause THEN counts
    ELSE AddCount(counts, <<WordsOf(ngram), Rounded(ngram[1].start, opts.tolerance), Rounded(Last(ngram).end, opts.tolerance)>>, c)

\* Of several contexts with one key, the times of the first stay.
AddContext(table, ngram, p) ==
    LET key == NgramKey(ngram)
    IN  IF key \in DOMAIN table THEN [table EXCEPT ![key].prob = @ + p] ELSE Put(table, key, [ngram |-> ngram, prob |-> p])

\* Mutant: the context is not extended while it is short of words.
ContextOf_Shortened(context, item, order) == Tail(Append(context, item))

ContextOf(context, item, order) ==
    IF Len(context) < order - 1 THEN Append(context, item) ELSE Tail(Append(context, item))

\* From a node in one context to a successor.  The place for the next word is used for one successor
\* after the other: times that one does not have are those of the one before.
CountAlong(l, n, context, back, opts, st, m) ==
    LET word == l.word[m]
        timed == opts.timed /\ NoTime \notin {l.time[n], l.time[m]}
        item == Item(word, IF timed THEN l.time[n] ELSE st.item.start, IF timed THEN l.time[m] ELSE st.item.end)
        p == context.prob * l.out[n][m].w
        Table(next) == AddContext(IF m \in DOMAIN st.table THEN st.table[m] ELSE [k \in {} |-> 0], next, p)
        Counted(ngram, c) == FoldLeft(LAMBDA t, i : Accumulate(t, SubSeq(ngram, i, Len(ngram)), c, opts),
                                      st.counts, [i \in DOMAIN ngram |-> i])
    IN  IF Ignored(word) THEN [st EXCEPT !.table = Put(@, m, Table(context.ngram))]
        ELSE [item |-> item, table |-> Put(st.table, m, Table(ContextOf(context.ngram, item, opts.order))),
              counts |-> Counted(Append(context.ngram, item), Min({p * back[m], back[l.initial]}))]

\* countNgramsAtNode(), in all contexts of a node; lattices with loops aside.
CountNgramsAtNode(l, n, back, opts, st) ==
    LET From(s, key) == FoldLeft(LAMBDA t, m : CountAlong(l, n, st.table[n][key], back, opts, t, m),
                                 [s EXCEPT !.item = Item(Null, NoTime, NoTime)], Ascending(DOMAIN l.out[n]))
    IN  IF n \in DOMAIN st.table THEN FoldLeft(From, st, Listed(DOMAIN st.table[n])) ELSE st

\* Each sentence has one <s>, that is counted without times.
CountNgrams(l, opts) ==
    LET first == IF opts.order = 1 THEN <<>> ELSE <<IF opts.timed THEN Item(SentStart, 0, 0) ELSE Item(SentStart, NoTime, NoTime)>>
        table == [n \in {l.initial} |-> [k \in {NgramKey(first)} |-> [ngram |-> first, prob |-> One]]]
        Primed(total) == IF opts.timed THEN [k \in {} |-> 0] ELSE [k \in {<<SentStart>>} |-> total]
        From(back) == FoldLeft(LAMBDA st, n : CountNgramsAtNode(l, n, back, opts, st),
                               [item |-> Item(Null, NoTime, NoTime), table |-> table, counts |-> Primed(back[l.initial])],
                               SortNodes(l))
    IN  From(Backward(l)).counts

\* indexNgrams(): those above a count, 0 for all; of keywords (if there are any) only those.
IndexNgrams(l, opts, minCount, keywords) ==
    LET Listing(counts) == Restrict(counts, {k \in DOMAIN counts : (minCount = 0 \/ counts[k] > minCount)
                                                                   /\ (keywords = {} \/ k[1][1] \in keywords)})
    IN  Listing(CountNgrams(l, opts))

-----------------------------------------------------------------------------
(* The lattice as a model (LatticeLM.cc): words have the weight of the best path to them. *)

\* The words the columns are for, the first <s> or Null, and the weights of nodes that they end in; the
\* last column is for the word asked for.
NoLM == [saved |-> <<>>, columns |-> <<>>]

Column(l, column, word) ==
    FoldLeft(LAMBDA c, n :
                FoldLeft(LAMBDA d, f : IF l.word[f[1]] # word THEN d
                                       ELSE Put(d, f[1], Max({column[n] * f[2]} \cup {d[m] : m \in {f[1]} \cap DOMAIN d})),
                         c, Follow(l, n, One, [seen |-> [m \in {} |-> 0], found |-> <<>>]).found),
             [n \in {} |-> 0], Listed(DOMAIN column))

ColumnMax(column) == Best(Range(column))

\* Mutant: columns are kept without a look at the words they are for.
SharedPrefix_Length(saved, words) == Min({Len(words), Len(saved) - 1})

\* How many words the last context and this one begin with alike.
SharedPrefix(saved, words) ==
    Max({k \in 0 .. Min({Len(words), Len(saved) - 1}) : \A i \in 1 .. k : saved[i + 1] = words[i]})

\* context has the last word first; <s> stands for the beginning, which may be left out.
PrefixProb(l, lm, word, context) ==
    LET all == Reverse(context)
        tagged == all # <<>> /\ all[1] = SentStart
        first == IF tagged THEN SentStart ELSE Null
        words == IF tagged THEN Tail(all) ELSE all
        kept == IF Len(context) > 1 /\ lm.saved # <<>> /\ lm.saved[1] = first
                THEN SubSeq(lm.columns, 1, SharedPrefix(lm.saved, words) + 1)
                ELSE <<[n \in {l.initial} |-> One]>>
        Filled(old) == FoldLeft(LAMBDA q, w : Append(q, Column(l, Last(q), w)), old,
                                SubSeq(words, Len(old), Len(words)) \o <<word>>)
    IN  [saved |-> <<first>> \o words, columns |-> Filled(kept)]

\* Another word after the same context.
PrefixProbAgain(l, lm, word) ==
    LET old == Front(lm.columns) IN [lm EXCEPT !.columns = Append(old, Column(l, Last(old), word))]

\* The probability of the word asked for, as a fraction.
PrefixRatio(lm) ==
    LET p == ColumnMax(Last(lm.columns))
    IN  IF p = 0 THEN <<0, 1>> ELSE <<p, ColumnMax(lm.columns[Len(lm.columns) - 1])>>

\* The columns are made anew.  Words that follow none of the nodes with what is before them are counted.
Supported(l, column, word) ==
    \E n \in DOMAIN column :
        \E f \in Range(Follow(l, n, One, [seen |-> [m \in {} |-> 0], found |-> <<>>]).found) : l.word[f[1]] = word /\ f[2] # 0
SentenceProb(l, words) ==
    LET lm == PrefixProb(l, NoLM, SentEnd, Reverse(<<SentStart>> \o words))
    IN  [lm |-> lm, prob |-> ColumnMax(Last(lm.columns)),
         zeroProbs |-> Cardinality({i \in DOMAIN words : ~ Supported(l, lm.columns[i], words[i])})]

-----------------------------------------------------------------------------
(* All words of a lattice in one mesh (LatticeAlign.cc). *)

\* The nodes along best transitions up to one that is aligned already, that one too, or NoNode at the end.
RECURSIVE FindFirstAligned(_, _, _)
FindFirstAligned(n, step, aligned) ==
    IF step[n] = NoNode \/ step[n] \in aligned THEN <<step[n]>>
    ELSE <<step[n]>> \o FindFirstAligned(step[n], step, aligned)

\* The words of a path with their posteriors and those of the transitions on to the next word, and
\* the weight since the last one: it goes on to count where there was none before.
NoPath == [nodes |-> <<>>, words |-> <<>>, post |-> <<>>, trans |-> <<>>, last |-> NoNode, lastWord |-> NoNode, prob |-> One]

\* What stands for the ends of the lattice has no posterior.  Scores: the posteriors of the
\* nodes and the sums from both ends.
AddNodeToPath(l, noise, scores, st, n) ==
    LET prob == st.prob * IF st.last = NoNode THEN One ELSE l.out[st.last][n].w
        between == IF st.lastWord = NoNode THEN 0 ELSE scores.ahead[st.lastWord] * prob * scores.back[n]
        Added(node, word, post, trans) ==
            [st EXCEPT !.nodes = Append(@, node), !.words = Append(@, word), !.post = Append(@, post), !.trans = Append(trans, post)]
    IN  IF n = NoNode THEN Added(NoNode, Null, 0, st.trans)
        ELSE IF Silent(l.word[n], noise) THEN [st EXCEPT !.last = n, !.prob = prob]
        ELSE [Added(n, l.word[n], scores.posterior[n],
                    IF st.trans = <<>> THEN <<>> ELSE Append(Front(st.trans), between))
              EXCEPT !.last = n, !.lastWord = n, !.prob = IF st.lastWord = NoNode THEN prob ELSE One]

\* The path through a node of which its other end nodes are aligned; entered by the transition after the first of these.
HypOf(path, score) ==
    LET Part(q) == SubSeq(q, 2, Len(q) - 1)
    IN  [words |-> Part(path.words), post |-> Part(path.post), trans |-> Part(path.trans),
         enter |-> path.trans[1], score |-> score, id |-> W!NoHyp]

\* The nodes between are in their columns now.
Mapped(st, nodes, r) ==
    [st EXCEPT !.mesh = r.m, !.todo = @ \ Range(nodes),
               !.aligned = [n \in Range(nodes) |-> r.columns[SelectInSeq(nodes, LAMBDA m : m = n)]] @@ @]

\* A node whose path does not fit between its ends is left out.
AlignNode(l, noise, scores, st, n) ==
    LET Path(ns) == FoldLeft(LAMBDA q, m : AddNodeToPath(l, noise, scores, q, m), NoPath, ns)
        Placed(m) == IF m = NoNode THEN W!NoAlign ELSE st.aligned[m]
        With(nodes, r) == IF r.ok THEN Mapped(st, SubSeq(nodes, 2, Len(nodes) - 1), r)
                          ELSE [st EXCEPT !.todo = @ \ {n}, !.failed = @ \cup {n}]
        Along(path) == With(path.nodes, W!AlignWords(st.mesh, HypOf(path, scores.posterior[n]),
                                                     Placed(path.nodes[1]), Placed(Last(path.nodes))))
    IN  Along(Path(Reverse(FindFirstAligned(n, scores.pred, DOMAIN st.aligned))
                   \o <<n>> \o FindFirstAligned(n, scores.next, DOMAIN st.aligned)))

RECURSIVE AlignNodes(_, _, _, _)
AlignNodes(l, noise, scores, st) ==
    LET best == CHOOSE n \in st.todo : \A m \in st.todo : scores.posterior[m] < scores.posterior[n]
                                                        \/ (scores.posterior[m] = scores.posterior[n] /\ n <= m)
    IN  IF st.todo = {} THEN [st EXCEPT !.mesh = W!NormalizeDeletes(@)]
        ELSE AlignNodes(l, noise, scores, AlignNode(l, noise, scores, st, best))

AlignLattice(l, noise) ==
    LET start == [mesh |-> W!EmptyMesh, aligned |-> [n \in {} |-> 0], failed |-> {}, todo |-> {n \in Nodes(l) : ~ Silent(l.word[n], noise)}]
        With(posterior) ==
            AlignNodes(l, noise, [posterior |-> posterior, ahead |-> Forward(l), back |-> Backward(l),
                                  pred |-> Viterbi(l).pred, next |-> ViterbiBack(l).next], start)
    IN  IF FinalFound(l) THEN With(Posteriors(l)) ELSE [start EXCEPT !.todo = {}]
=============================================================================
