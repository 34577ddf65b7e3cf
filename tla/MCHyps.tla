------------------------------- MODULE MCHyps -------------------------------
(***************************************************************************)
(* N-best lists of a few short hypotheses: aligned in meshes and lattices, *)
(* chosen from, scored and rescored; and what all of that must have kept.  *)
(***************************************************************************)
EXTENDS NBestTool, FiniteSetsExt, SequencesExt, Functions, TLC

Pause == "-pau-"
MCWordOrder == <<"*DELETE*", "a", "b", "c", "d", Pause, "a_b">>
MCNoise == {Pause}
MCParts == [w \in {"a", "b", "c", "d", "a_b", Pause} |-> IF w = "a_b" THEN <<"a", "b">> ELSE <<w>>]

-----------------------------------------------------------------------------
(* Lists: every three of some strings, and a few in each of the formats. *)

Strings == {<<"a", "b">>, <<"c", "b">>, <<"a">>, <<"b", "d", "a">>, <<"c", "d">>, <<>>}
Plain(scores, words) ==
    [magic |-> "none", lines |-> [k \in DOMAIN words |-> OwnLine(scores[k], 1, Len(words[k]), words[k])]]
Three == {Plain(<<2, 1, 1>>, s) : s \in [1 .. 3 -> Strings]}
Five  == {Plain(<<0, 1, 1, 2, 0>>, <<<<"a", "b">>, <<"c", "d">>, <<"b", "d", "a">>, <<"c", "b", "d">>, <<"d", "b">>>>)}

Bytelog  == {[magic |-> m, lines |-> <<BytelogLine(1, <<"a_b", Pause>>), BytelogLine(2, <<"c", "d">>)>>] : m \in {"1", "none"}}
Tokens   == {[magic |-> "2", lines |-> <<
                TokenLine(5, <<Token("a", 0, 4, 1, 1, FALSE), Token("ph", 0, 2, 9, 9, FALSE), Token("ph", 4, 4, 9, 9, FALSE),
                                 Token("s-1", 5, 5, 9, 9, TRUE), Token(Pause, 5, 6, 1, 0, FALSE), Token("b", 7, 9, 1, 1, FALSE)>>),
                TokenLine(4, <<Token("c", 0, 3, 1, 0, FALSE)>>)>>]}
Mixed    == {[magic |-> "1", lines |-> <<BytelogLine(1, <<"a">>), OwnLine(1, 1, 1, <<"b">>)>>], Plain(<<>>, <<>>)}
MCFiles  == Three \cup Five \cup Bytelog \cup Tokens \cup Mixed

\* Command lines: one option at a time changed from these, for meshes and for lattices.
Default == [mesh |-> TRUE, mode |-> "align", merging |-> FALSE, multi |-> FALSE, backtrace |-> FALSE,
            keepNoise |-> FALSE, reorder |-> TRUE, noMerge |-> FALSE, record |-> TRUE, prime |-> "none",
            prune |-> <<0, 1>>, maxRescore |-> 0, dump |-> FALSE, bias |-> 1, reference |-> TRUE,
            decipher |-> FALSE, weights |-> [am |-> 1, lm |-> 0, wt |-> 0, scale |-> 1]]
MCSettings ==
    {Default, [Default EXCEPT !.merging = TRUE, !.record = FALSE], [Default EXCEPT !.dump = TRUE, !.prime = "best"],
     [Default EXCEPT !.prime = "refs", !.weights.wt = 1, !.weights.scale = 2], [Default EXCEPT !.prime = "wer", !.reorder = FALSE],
     [Default EXCEPT !.mesh = FALSE], [Default EXCEPT !.mesh = FALSE, !.noMerge = TRUE],
     [Default EXCEPT !.mesh = FALSE, !.prune = <<1, 4>>, !.dump = TRUE], [Default EXCEPT !.mesh = FALSE, !.maxRescore = 2],
     [Default EXCEPT !.mode = "wer", !.decipher = TRUE], [Default EXCEPT !.mode = "nbest error", !.multi = TRUE],
     [Default EXCEPT !.mode = "rescore", !.weights.wt = 1, !.weights.lm = 2], [Default EXCEPT !.mode = "nbest error", !.backtrace = TRUE, !.decipher = TRUE],
     [Default EXCEPT !.mode = "norm"], [Default EXCEPT !.keepNoise = TRUE, !.backtrace = TRUE, !.decipher = TRUE]}

MCReference == <<"a", "d">>
MCSuppressed == {}
MCMeshes == {M!AlignWhole(M!AlignWhole(M!EmptyMesh, M!Hyp(<<"a", "b">>, 2, -1)), M!Hyp(<<"d", "b", "c">>, 1, -1))}
MCPenalty == [w \in {} |-> 0]
MCDistance == [w \in {} |-> 0]
MCLMScore == [s \in Strings \cup {<<"c", "b", "d">>, <<"d", "b">>, <<"a_b", Pause>>, <<"a", Pause, "b">>, <<"c">>} |->
                [score |-> Len(s), num |-> Len(s)]]

-----------------------------------------------------------------------------
(* What an alignment is. *)

Incorporated == 1 .. next - 1
Building == opt.mode = "align" /\ stage \notin {"read", "stopped", "align", "prime"}
Merging == opt.merging /\ ~ M!IsEmpty(lat)
Primed == IF prime.done /\ stage \in {"add", "unprime"} THEN PrimePosterior ELSE 0

\* In a mesh every position has all of the posterior, each hypothesis has one word or none in every
\* position, and from left to right these are its words.  (Without merging other meshes first.)
WordsOf(c, id) == SelectSeq(MCWordOrder, LAMBDA w : w \in DOMAIN c.hyps /\ Contains(c.hyps[w], id))
Row(m, id) == FlattenSeq([i \in DOMAIN m.order |-> WordsOf(m.col[m.order[i]], id)])
MeshHolds(m) ==
    /\ ToSet(m.order) = DOMAIN m.col /\ Len(m.order) = Len(m.col)
    /\ ~ opt.merging => m.total = mass + Primed
    /\ \A a \in DOMAIN m.col :
          /\ FoldSet(LAMBDA w, p : p + m.col[a].prob[w], 0, DOMAIN m.col[a].prob) = m.total
          /\ m.col[a].post = m.total /\ m.col[a].trans = m.total
          /\ \A w \in DOMAIN m.col[a].prob : m.col[a].prob[w] >= 0
    /\ opt.record => \A k \in Incorporated :
          /\ Len(Row(m, list.hyps[k].rank)) = Len(m.order)
          /\ SelectSeq(Row(m, list.hyps[k].rank), LAMBDA w : w # M!Delete) = list.hyps[k].words

\* In a lattice each hypothesis is a path, what enters a node leaves it, and what does not go through the
\* nodes of a class passes it.
RECURSIVE SaysFrom(_, _, _)
SaysFrom(l, n, words) ==
    \E k \in DOMAIN l.node[n].succs :
        LET m == l.node[n].succs[k].to
        IN  IF m = L!Final THEN words = <<>>
            ELSE words # <<>> /\ l.node[m].word = Head(words) /\ SaysFrom(l, m, Tail(words))
Says(l, words) == SaysFrom(l, L!Initial, words)
AllArcs(l) == L!Arcs(l, DOMAIN l.node)
ClassesHold(l) ==
    LET s == L!SortAligned(l)
        runs == L!Runs(s.l, s.order)
        Before(i) == UNION {ToSet(runs[j]) : j \in 1 .. i - 1}
        After(i) == UNION {ToSet(runs[j]) : j \in i + 1 .. Len(runs)}
    IN  \A i \in DOMAIN runs :
            L!Scores(s.l, runs[i]) + L!Mass({a \in L!Arcs(s.l, Before(i)) : a.to \in After(i)}) = mass
LatticeHolds(l) ==
    /\ l.node[L!Initial].score = mass /\ l.node[L!Final].score = mass
    /\ \A n \in DOMAIN l.node : /\ n # L!Initial => l.node[n].score = L!Mass({a \in AllArcs(l) : a.to = n})
                                /\ n # L!Final => l.node[n].score = L!Mass(L!Arcs(l, {n}))
    /\ \A k \in Incorporated : Says(l, list.hyps[k].words)
    /\ ClassesHold(l)

\* However many hypotheses have been aligned, in whatever order, each can be read off the alignment and
\* all positions have the same posterior (WordMesh.cc and WordLattice.cc, alignWords()).
AlignmentHolds == Building => IF opt.mesh THEN MeshHolds(lat) ELSE LatticeHolds(lat)

-----------------------------------------------------------------------------
(* What is chosen, and what is reported. *)

\* Errors weighed as the code does, and their plain number, in the cheapest alignment with the fewest.
Edit(u, v) ==
    LET d[i \in 0 .. Len(u), j \in 0 .. Len(v)] ==
            IF i = 0 THEN M!INS_COST * j ELSE IF j = 0 THEN M!DEL_COST * i
            ELSE Min({d[i - 1, j] + M!DEL_COST, d[i, j - 1] + M!INS_COST,
                      d[i - 1, j - 1] + IF u[i] = v[j] THEN 0 ELSE M!SUB_COST})
    IN  d[Len(u), Len(v)]
Weighed(e) == M!SUB_COST * e.sub + M!INS_COST * e.ins + M!DEL_COST * e.del
Expected(words, K) == M!Sum([k \in K |-> list.hyps[k].post * M!WordError(words, list.hyps[k].words).total])

\* The error reported with words that are chosen position by position is no less than what the hypotheses
\* have against them; the words chosen from the list have the least of all (WordMesh.cc, WordLattice.cc
\* and NBest.cc, minimizeWordError()).
ErrorsAreExpected ==
    best.done /\ ~ opt.merging /\ list.hyps # <<>> =>
        IF opt.mode = "align" THEN best.choice.error >= Expected(best.choice.words, Incorporated)
        ELSE best.choice.error = Min({Expected(list.hyps[i].words, DOMAIN list.hyps) : i \in DOMAIN list.hyps})

\* The strings in a mesh, and those of a lattice.
RECURSIVE Spelt(_, _)
Spelt(m, i) ==
    IF i > Len(m.order) THEN {<<>>}
    ELSE LET c == m.col[m.order[i]]
             rest == Spelt(m, i + 1)
         IN  {<<w>> \o s : w \in DOMAIN c.prob \ {M!Delete}, s \in rest} \cup IF M!ProbIn(c, M!Delete) > 0 THEN rest ELSE {}
RECURSIVE PathsFrom(_, _)
PathsFrom(l, n) ==
    IF n = L!Final THEN {<<>>}
    ELSE UNION {{(IF l.node[a.to].word = L!Null THEN <<>> ELSE <<l.node[a.to].word>>) \o s : s \in PathsFrom(l, a.to)} :
                    a \in L!Arcs(l, {n})}

\* No string in the mesh or lattice has fewer errors than are reported of it; nor has any hypothesis
\* (wordError() of WordMesh.cc, WordLattice.cc and WordAlign.cc).
ErrorIsLeast ==
    /\ Building /\ stage = "error" =>
          LET reported == IF opt.mesh THEN M!MeshWordError(lat, Reference) ELSE L!LatticeWordError(lat, Reference)
          IN  Weighed(reported) = Min({Edit(Reference, s) : s \in IF LatIsEmpty(lat) THEN {<<>>} ELSE IF opt.mesh THEN Spelt(lat, 1)
                                                              ELSE PathsFrom(lat, L!Initial)})
    /\ opt.mode = "nbest error" /\ errors.done /\ list.hyps # <<>> =>
          \A k \in DOMAIN list.hyps :
              /\ Weighed(M!WordError(list.hyps[k].words, Reference)) = Edit(list.hyps[k].words, Reference)
              /\ errors.of.total <= list.hyps[k].errors

\* What is reported as an error is one: of the words chosen against the hypotheses, and of the mesh, lattice
\* or list against a reference.
ErrorsReported == ErrorsAreExpected /\ ErrorIsLeast

\* Files tell all there is, but for the identifiers of columns and what the reference is called in a mesh,
\* and the number of classes of a lattice.
Told(m) == [total |-> m.total, all |-> m.all \ {M!RefID},
            col |-> [i \in DOMAIN m.order |-> LET c == m.col[m.order[i]]
                                              IN  [c EXCEPT !.hyps = [w \in {v \in DOMAIN @ : @[v] # <<>>} |-> ToSet(@[w])]]]]
Informed == \A k \in DOMAIN list.hyps : list.hyps[k].info.known
ReadAgain == ReadList([EmptyList(FALSE, opt.backtrace) EXCEPT !.offset = list.offset], written.list, 0)
Same(h, k) == /\ h.words = k.words /\ h.info = k.info
              /\ IF opt.decipher THEN h.total = k.total ELSE h.ac = k.ac /\ h.lm = k.lm /\ h.num = k.num

\* A list or alignment that was written is read again as it was, and words keep in step with their times
\* (write() and read() of NBest.cc, WordMesh.cc and WordLattice.cc).
FilesReadBack ==
    /\ stage # "read" => \A k \in DOMAIN list.hyps :
          LET h == list.hyps[k] IN h.info.known => [i \in DOMAIN h.info.words |-> h.info.words[i].word] = h.words
    /\ written.done =>
          /\ IF opt.mesh THEN Told(written.lat) = Told(lat) ELSE written.lat.node = lat.node
          /\ (opt.decipher /\ opt.backtrace => Informed) =>
                /\ ReadAgain.ok /\ Len(ReadAgain.list.hyps) = Len(list.hyps)
                /\ \A k \in DOMAIN list.hyps : Same(ReadAgain.list.hyps[k], list.hyps[k])
=============================================================================
