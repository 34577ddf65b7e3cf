----------------------------- MODULE MCLattice -----------------------------
(***************************************************************************)
(* Lattices as lattice-tool puts them through a few of its operations, one *)
(* after the other, and what each operation must leave as it was: what can *)
(* be said along the paths of the lattice and with what weight.            *)
(***************************************************************************)
EXTENDS LatticeTool, TLC

MCParts == [w \in {"a", "b", "c", "x", "y", "a_b", SentStart, SentEnd, Pause} |->
            IF w = "a_b" THEN <<"a", "b">> ELSE <<w>>]

\* A model that has all words but the multiword, and some bigrams and trigrams.
MCModel ==
    [prob |-> (<<"a">> :> 2) @@ (<<"b">> :> 3) @@ (<<"c">> :> 2) @@ (<<"x">> :> 1) @@ (<<"y">> :> 3) @@ (<<SentEnd>> :> 1)
              @@ (<<"b", "a">> :> 5) @@ (<<SentEnd, "b">> :> 2) @@ (<<"a", "x">> :> 3) @@ (<<"a", "y">> :> 5) @@ (<<"a", SentStart>> :> 4)
              @@ (<<"b", "a", "x">> :> 7) @@ (<<"c", "a", "x">> :> 11)
              @@ (<<"b", "a", "y">> :> 13) @@ (<<"b", "a", SentStart>> :> 3),
     bow |-> (<<>> :> 1) @@ (<<"a">> :> 2) @@ (<<"b">> :> 1) @@ (<<"x">> :> 1) @@ (<<"y">> :> 2) @@ (<<SentStart>> :> 3)
             @@ (<<"a", "x">> :> 2) @@ (<<"a", "y">> :> 3) @@ (<<"a", SentStart>> :> 1)]

-----------------------------------------------------------------------------
\* Files of one or two definitions, all with the empty word on both ends.
File(labels, final, links) == <<P!Definition("top", labels, 0, final, links)>>

Diamond   == File(<<Null, "a", "b", Null>>, 3, <<<<0, 1, 2>>, <<0, 2, 3>>, <<1, 3, 1>>, <<2, 3, 2>>, <<1, 2, 1>>>>)
PauseLoop == File(<<Null, "a", Pause, "b", Null>>, 4,
                  <<<<0, 1, 2>>, <<1, 2, 3>>, <<2, 2, 1>>, <<2, 3, 1>>, <<1, 3, 2>>, <<3, 4, 1>>>>)
NullPause == File(<<Null, "a", Null, Pause, "b", Null>>, 5,
                  <<<<0, 1, 1>>, <<1, 2, 1>>, <<2, 3, 2>>, <<2, 4, 3>>, <<3, 4, 1>>, <<4, 5, 1>>>>)
Multiword == File(<<Null, "a_b", "a", "b", Null>>, 4,
                  <<<<0, 1, 2>>, <<0, 2, 3>>, <<2, 3, 1>>, <<1, 3, 1>>, <<3, 4, 1>>, <<1, 4, 2>>>>)
DeadEnds  == File(<<Null, "a", "b", "a", Null, "b">>, 4, <<<<0, 1, 3>>, <<1, 4, 2>>, <<0, 2, 1>>, <<3, 4, 1>>, <<1, 5, 1>>>>)
Doubled   == File(<<Null, "a", "a", "b", "b", Null>>, 5,
                  <<<<0, 1, 1>>, <<0, 2, 2>>, <<1, 3, 3>>, <<1, 4, 1>>, <<2, 4, 2>>, <<3, 5, 1>>, <<4, 5, 3>>, <<2, 5, 1>>>>)
Histories == File(<<Null, "x", "y", "a", "b", "c", Null>>, 6,
                  <<<<0, 1, 1>>, <<0, 2, 1>>, <<0, 3, 1>>, <<1, 3, 1>>, <<2, 3, 1>>, <<3, 4, 1>>, <<3, 5, 1>>,
                    <<4, 6, 1>>, <<5, 6, 1>>, <<3, 6, 1>>>>)
WordLoop  == File(<<Null, "x", "a", "b", Null>>, 4, <<<<0, 1, 1>>, <<0, 2, 1>>, <<1, 2, 1>>, <<2, 2, 1>>, <<2, 3, 1>>, <<2, 4, 1>>, <<3, 4, 1>>>>)
Nested    == <<P!Definition("top", <<Null, "part", "b", "part", Null>>, 0, 4,
                            <<<<0, 1, 2>>, <<1, 2, 1>>, <<2, 3, 3>>, <<3, 4, 1>>, <<0, 4, 1>>>>),
               P!Definition("part", <<Null, "a", Pause, Null>>, 0, 3, <<<<0, 1, 1>>, <<1, 3, 2>>, <<0, 2, 1>>, <<2, 3, 1>>>>)>>

\* HTK files: links with scores, a penalty before its base, a multiword with phones; words and
\* scores on nodes, no ends named; a backward lattice with a node the file does not list.
Log2(s) == P!Number(2, s)
OnLinks ==
    <<P!Header("wdpenalty", Log2(2)), P!Header("base", 2), P!Header("acoustic", 2), P!Header("xscore1", 1), P!Header("pron", 2),
      P!Header("start", 0), P!Header("end", 3), P!Header("nodes", 4),
      P!Node(0, "time" :> 0), P!Node(1, "time" :> 1), P!Node(2, "time" :> 3), P!Node(3, "time" :> 4),
      P!HTKLink(0, 1, ("word" :> "a") @@ ("acoustic" :> Log2(2)) @@ ("language" :> Log2(3))),
      P!HTKLink(0, 2, ("word" :> "a_b") @@ ("acoustic" :> Log2(3)) @@ ("div" :> <<<<"p", 1>>, <<"q", 1>>, <<"r", 1>>>>)),
      P!HTKLink(1, 2, ("word" :> "b") @@ ("pron" :> Log2(2)) @@ ("xscore1" :> Log2(2)) @@ ("div" :> <<<<"q", 2>>>>)),
      P!HTKLink(2, 3, ("word" :> P!NullWord) @@ ("acoustic" :> Log2(2)))>>
OnNodes ==
    <<P!Header("base", 2), P!Header("nodes", 5),
      P!Node(0, "time" :> 0), P!Node(1, ("time" :> 1) @@ ("word" :> "a") @@ ("acoustic" :> Log2(2))),
      P!Node(2, ("time" :> 1) @@ ("word" :> "b") @@ ("acoustic" :> Log2(3))),
      P!Node(3, ("time" :> 2) @@ ("word" :> "c") @@ ("acoustic" :> Log2(1))), P!Node(4, ("time" :> 2) @@ ("word" :> SentEnd)),
      P!HTKLink(0, 1, "language" :> Log2(2)), P!HTKLink(0, 2, ("word" :> "x") @@ ("acoustic" :> Log2(5))),
      P!HTKLink(1, 3, P!NoInfo), P!HTKLink(2, 3, "ngram" :> Log2(3)), P!HTKLink(3, 4, P!NoInfo)>>
Backward ==
    <<P!Header("base", 0), P!Header("dir", "b"), P!Header("nodes", 3), P!Header("end", 2),
      P!Node(0, ("time" :> 2) @@ ("word" :> "b") @@ ("acoustic" :> P!Number(0, 2))), P!Node(1, "word" :> "a"),
      P!HTKLink(0, 1, P!NoInfo), P!HTKLink(0, 3, P!NoInfo), P!HTKLink(3, 2, "word" :> "a"), P!HTKLink(1, 2, P!NoInfo)>>
Given(fields) == [fields |-> fields, wordsOnNodes |-> FALSE, scoresOnNodes |-> FALSE]
ReadHTK(f, fields, nulls) == P!ReadHTK(P!DefaultHeader, f, Given(fields), nulls)
MCHTKLattices == {ReadHTK(OnLinks, P!NoInfo, nulls) : nulls \in BOOLEAN} \cup {ReadHTK(OnNodes, P!NoInfo, FALSE)}
                 \cup {ReadHTK(Backward, ("wdpenalty" :> P!Number(10, 3)), TRUE)}
MCDictionary == {[word |-> "b", phones |-> <<"q">>, prob |-> 3], [word |-> "a_b", phones |-> <<"p">>, prob |-> 2]}
MCPronunciations == "a_b" :> <<<<"p", "|", "r">>, <<"p", "q", "|", "r">>>>

Timed(l) == [l EXCEPT !.time = [n \in DOMAIN @ |-> IF n = l.final THEN 3 ELSE IF n = l.initial THEN 0 ELSE 1]]
Read(f) == P!ReadPFSGs(f, TRUE).l
Mesh == CreateFromMesh(<<("a" :> 2) @@ (Null :> 1), ("b" :> 3) @@ ("a" :> 1)>>)

MCLattices == {Read(f) : f \in {Diamond, PauseLoop, NullPause, Multiword, DeadEnds, Doubled, Histories, WordLoop, Nested}}
            \cup {Timed(Read(Diamond)), Mesh}
MCThresholds == {<<0, 1>>, <<1, 2>>}
MCLimits == {[density |-> d, nodes |-> n, duration |-> d] : d \in {0, 1}, n \in {0, 2}}
MCReferences == {<<"a", "b">>, <<"c">>}
MCStray == {{}, {"pause"}}
MCOthers == {Read(PauseLoop), Timed(Read(Diamond))}

-----------------------------------------------------------------------------
(* What a lattice says. *)

\* The words of two nodes may repeat each other, a node only itself.
RECURSIVE PathsFrom(_, _, _)
PathsFrom(l, n, seen) ==
    IF n = l.final THEN {<<n>>}
    ELSE UNION {{<<n>> \o p : p \in PathsFrom(l, m, seen \cup {n})} : m \in DOMAIN l.out[n] \ (seen \cup {n})}
Paths(l) == PathsFrom(l, l.initial, {})

RECURSIVE Ahead(_, _)
Ahead(l, N) == LET T == N \cup UNION {DOMAIN l.out[n] \ {n} : n \in N} IN IF T = N THEN N ELSE Ahead(l, T)
Acyclic(l) == \A n \in Nodes(l) : n \notin Ahead(l, DOMAIN l.out[n] \ {n})

\* The words on a path between its ends, multiwords in parts; and the pauses too.
Said(l, p) == SelectSeq([i \in 1 .. Len(p) - 2 |-> l.word[p[i + 1]]], LAMBDA w : w # Null)
Heard(l, p) == SelectSeq(Said(l, p), LAMBDA w : w # Pause)
Words(l, p) == FlattenSeq([i \in DOMAIN Heard(l, p) |-> MCParts[Heard(l, p)[i]]])
PathWeight(l, p) == FoldLeft(LAMBDA w, i : w * l.out[p[i]][p[i + 1]].w, 1, [i \in 1 .. Len(p) - 1 |-> i])

\* All that can be said, with the weight of the best path.
Speech(l) ==
    LET said == {Words(l, p) : p \in Paths(l)}
    IN  [s \in said |-> Max({PathWeight(l, p) : p \in {q \in Paths(l) : Words(l, q) = s}})]

\* The same with the pauses, several in a row as one.
Pauses(l) ==
    {FoldLeft(LAMBDA q, w : IF w = Pause /\ q # <<>> /\ Last(q) = Pause THEN q ELSE Append(q, w), <<>>, Said(l, p)) :
        p \in Paths(l)}

\* The weights of the walks from a node that say the words; loops count where they say something.
RECURSIVE Walks(_, _, _)
Walks(l, n, words) ==
    LET silent == {m \in DOMAIN l.out[n] \ {n, l.final} : l.word[m] \in {Null, Pause}}
        saying == {m \in DOMAIN l.out[n] \ {l.final} : words # <<>> /\ l.word[m] = Head(words)}
    IN  UNION {{l.out[n][m].w * w : w \in Walks(l, m, words)} : m \in silent}
        \cup UNION {{l.out[n][m].w * w : w \in Walks(l, m, Tail(words))} : m \in saying}
        \cup IF words = <<>> /\ l.final \in DOMAIN l.out[n] THEN {l.out[n][l.final].w} ELSE {}
Weights(l, words) == Walks(l, l.initial, words)

\* The same without weights, for lattices that merging has made cyclic.
RECURSIVE Closed(_, _)
Closed(l, N) ==
    LET T == N \cup {m \in UNION {DOMAIN l.out[n] : n \in N} : l.word[m] \in {Null, Pause} /\ m # l.final}
    IN  IF T = N THEN N ELSE Closed(l, T)
Accepts(l, words) ==
    LET ends == FoldLeft(LAMBDA N, w : Closed(l, {m \in UNION {DOMAIN l.out[n] : n \in N} : l.word[m] = w /\ m # l.final}),
                         Closed(l, {l.initial}), words)
    IN  \E n \in ends : l.final \in DOMAIN l.out[n]

\* What is heard along the paths; where a word has a loop, all short sequences.
Looped(l) == \E n \in Nodes(l) : n \in DOMAIN l.out[n] /\ l.word[n] # Pause
Samples(l) ==
    IF Looped(l) THEN {s \in UNION {[1 .. k -> {"a", "b", "x"}] : k \in 1 .. 4} : Accepts(l, s)}
    ELSE {Heard(l, p) : p \in Paths(l)}

-----------------------------------------------------------------------------
(* What has to hold. *)

\* The weight a model gives to words, looking back as far as it can or one word.
Score(words, depth) ==
    LET all == words \o <<SentEnd>>
        history == [i \in DOMAIN all |-> Reverse(<<SentStart>> \o SubSeq(words, 1, i - 1))]
    IN  FoldLeft(LAMBDA w, i : w * WordProb(all[i], SubSeq(history[i], 1, Min({depth, i}))), 1, [i \in DOMAIN all |-> i])

BestOf(f, g) == [s \in DOMAIN f \cup DOMAIN g |->
                    Max({f[t] : t \in {s} \cap DOMAIN f} \cup {g[t] : t \in {s} \cap DOMAIN g})]
Joined(f, g) ==
    LET both == {<<s, t>> : s \in DOMAIN f, t \in DOMAIN g}
    IN  [u \in {st[1] \o st[2] : st \in both} |->
            Max({f[st[1]] * g[st[2]] : st \in {v \in both : v[1] \o v[2] = u}})]

\* The two copies of every transition agree, whatever was done (Lattice.cc, every operation).
GraphConsistent == last.ok => Consistent(lat)

\* expandNodeToLM() does not come back to the copies of a node that its own loop adds.
General == {"model", "compact model", "no backoff"}
LoopLost(op, l) == op.name \in General /\ Looped(l)

\* What an operation may do to the word sequences and weights of a lattice: nothing, when it only
\* removes nodes, puts pauses back or splits words; new sequences when it merges nodes; of two
\* lattices, either or both.
Kept(op, l, k) ==
    LET before == Speech(l)
        after  == Speech(k)
    IN  CASE op.name \in {"split", "nulls", "pauses", "recover", "insert", "write"} -> after = before
          [] op.name = "split by phones" -> after = before
          [] op.name \in {"pack", "add"} -> DOMAIN after = DOMAIN before
          [] op.name \in {"approx", "collapse"} -> \A p \in Paths(l) : Accepts(k, Heard(l, p))
          [] op.name = "words" -> after = BestOf(before, (op.words :> 2))
          [] op.name = "or" -> after = BestOf(before, Speech(op.other))
          [] op.name = "cat" -> after = Joined(before, Speech(op.other))
          [] op.name \in {"replace", "trigram", "compact trigram", "model", "compact model", "no backoff"} ->
                op.ok /\ ~ LoopLost(op, l) => IF Looped(l) THEN Samples(k) = Samples(l) ELSE DOMAIN after = DOMAIN before
          [] OTHER -> TRUE

\* Pauses that were taken out for the model are put back where they were (lattices with empty
\* nodes aside), unless a flag that was never set says otherwise (Lattice.cc:2417).
Inner(l) == {l.word[n] : n \in Nodes(l) \ {l.initial, l.final}}
PausesBack ==
    last.name # "no backoff" /\ last'.name = "recover" /\ last.stray = {} /\ Null \notin Inner(origin) /\ ~ Looped(origin)
       => Pauses(lat') = Pauses(origin)

\* Read back from an HTK file, a lattice has the weights it had if it had no scores, and those that
\* its scores and the header give if it had; words keep what is known of them.  A node that is written
\* as a link gets its time from the node after it, whose scores are lost if it has any.
Reweighed(l, h) ==
    [l EXCEPT !.out = [n \in DOMAIN @ |-> [m \in DOMAIN @[n] |->
        P!Trans(P!HTKWeight(h.header, P!InfoAt(h.info, m)), {})]]]
Track(l, h, p) ==
    LET said == SelectSeq(SubSeq(p, 2, Len(p) - 1), LAMBDA n : l.word[n] # Null)
    IN  [i \in DOMAIN said |-> <<l.word[said[i]], l.time[said[i]], P!InfoAt(h.info, said[i])>>]
Lossless(l, h) ==
    \A n \in Nodes(l) : P!AllowAsTrans(l, n) => \A m \in DOMAIN l.out[n] :
        l.time[m] = l.time[n] /\ DOMAIN P!InfoAt(h.info, m) \cap P!ScoreFields = {}
HTKKept ==
    last'.name = "write HTK on nodes" \/ (last'.name = "write HTK" /\ Lossless(lat, htk)) =>
        /\ last'.ok
        /\ IF Looped(lat) THEN \A s \in Samples(lat) \cup Samples(lat') : Weights(lat', s) = Weights(lat, s)
           ELSE IF DOMAIN htk.info = {} THEN Speech(lat') = Speech(lat)
           ELSE /\ Speech(lat') = Speech(Reweighed(lat, htk))
                /\ {Track(lat', htk', p) : p \in Paths(lat')} = {Track(lat, htk, p) : p \in Paths(lat)}

\* However nodes are pruned, a path is left, and nothing new can be said.
PathLeft ==
    last'.name = "prune" /\ last'.ok => Paths(lat') # {} /\ Paths(lat') \subseteq Paths(lat)

\* What can be said is kept by every operation, and so are the pauses in it; pruning keeps some of it.
SpeechKept == [][Kept(last', lat, lat') /\ PausesBack /\ HTKKept /\ PathLeft]_vars

\* After a model is applied, words weigh along every path what the model gives them in their full
\* history, or after the one word before (replaceWeights).  The compact lattices also have paths
\* that back off needlessly; one of their paths has the right weight.  The trigram algorithms weigh
\* the transitions around the nodes between the ends, and leave one from end to end as it is.
Trigram == {"trigram", "compact trigram"}
Expanded == last.ok /\ last.name \in {"trigram", "compact trigram", "model", "compact model", "replace"}
ScoresAreModels ==
    Expanded /\ ~ LoopLost(last, origin) => \A s \in Samples(origin) \ (IF last.name \in Trigram THEN {<<>>} ELSE {}) :
        CASE last.name = "replace" -> Weights(lat, s) = {Score(s, 1)}
          [] last.name \in {"compact trigram", "compact model"} -> Score(s, LMOrder) \in Weights(lat, s)
          [] OTHER -> Weights(lat, s) = {Score(s, LMOrder)}

\* Sums and maxima along sorted nodes are those over all paths: of every node, of the best path and
\* of the path whose least posterior is greatest.
Through(n) == {p \in Paths(lat) : n \in Range(p)}
PseudoWeight(p) == FoldLeft(LAMBDA w, i : w * S!Weight(lat.out[p[i]][p[i + 1]].w), 1, [i \in 1 .. Len(p) - 1 |-> i])
Total(Q, W(_)) == FoldSet(LAMBDA p, w : w + W(p), 0, Q)
PosteriorsArePathSums ==
    last.ok /\ Sorted(lat) =>
        LET posterior == S!Posteriors(lat)
            best == S!BestWords(lat, 9, {})
            order == SortNodes(lat)
            weights == {PathWeight(lat, p) : p \in Paths(lat)}
        IN  /\ \A n \in Nodes(lat) : posterior[n] = Total(Through(n), PseudoWeight)
            /\ S!MaxMinPosterior(lat, posterior) = Max({0} \cup {Min({posterior[n] : n \in Range(p)}) : p \in Paths(lat)})
            /\ best.prob = Max({0} \cup weights)
            /\ best.prob > 0 => \E p \in Paths(lat) : PathWeight(lat, p) = best.prob /\ S!Heard(lat, p, {}) = best.words
            /\ Last(order) = lat.final =>
                 \A n \in Range(order) : S!Viterbi(lat).prob[n] * S!ViterbiBack(lat).prob[n]
                                         = Max({0} \cup {PathWeight(lat, p) : p \in Through(n)})

\* No path has fewer weighted errors than latticeWER() reports.
Distance(u, v) ==
    LET d[i \in 0 .. Len(u), j \in 0 .. Len(v)] ==
            IF i = 0 THEN S!INS_COST * j ELSE IF j = 0 THEN S!DEL_COST * i
            ELSE Min({d[i - 1, j] + S!DEL_COST, d[i, j - 1] + S!INS_COST,
                      d[i - 1, j - 1] + IF u[i] = v[j] THEN 0 ELSE S!SUB_COST})
    IN  d[Len(u), Len(v)]
ErrorIsLeast ==
    last.ok /\ Sorted(lat) /\ ~ Looped(lat) => \A words \in References :
        S!Cost(S!LatticeWER(lat, words, {})) =
            Min({S!DEL_COST * Len(words) : x \in {y \in {1} : Paths(lat) = {}}}
                \cup {Distance(words, Heard(lat, p)) : p \in Paths(lat)})

\* Every node is on some path, and no path comes back to one.
Trim == Acyclic(lat) /\ Sorted(lat) /\ \A n \in Nodes(lat) : n \notin DOMAIN lat.out[n] /\ Through(n) # {}
Plain == last.ok /\ given <= 1 /\ origin = NoLattice

\* Hypotheses come best first, each no better than the best path that says it; those better than
\* the last are all there with the weight of their best path.
TopOf(hyps, best, N) ==
    /\ \A i \in 1 .. Len(hyps) - 1 : hyps[i].prob >= hyps[i + 1].prob
    /\ \A i \in DOMAIN hyps : hyps[i].words \in DOMAIN best /\ hyps[i].prob <= best[hyps[i].words]
    /\ \A s \in DOMAIN best : (Len(hyps) < N \/ best[s] > Last(hyps).prob) =>
            \E i \in DOMAIN hyps : hyps[i].words = s /\ hyps[i].prob = best[s]
Once(hyps) == \A i, j \in DOMAIN hyps : i # j => hyps[i].words # hyps[j].words

\* What is said by each path, and the best weight to say it.
BestSaid(said, weight) ==
    [s \in Range(said) |-> Max({weight[p] : p \in {q \in DOMAIN said : said[q] = s}})]

\* The weight of a path under the model with contexts as long as its order allows.
Modelled(p, order, floor) ==
    FoldLeft(LAMBDA st, i :
                LET w == lat.word[p[i]]
                    depth == IF order >= LMOrder THEN Len(st.c) ELSE Min({order - 1, Len(st.c)})
                IN  IF Ignored(w) THEN st
                    ELSE [w |-> st.w * Max({floor, WordProb(w, SubSeq(st.c, 1, depth))}), c |-> <<w>> \o st.c],
             [w |-> PathWeight(lat, p), c |-> <<SentStart>>], [i \in 1 .. Len(p) - 1 |-> i + 1]).w

NBestAreBest ==
    LET paths == Paths(lat)
        weight == [p \in paths |-> PathWeight(lat, p)]
        Opts(N, split, duplicates, maxHyps) ==
            [N |-> N, split |-> split, duplicates |-> duplicates, maxHyps |-> maxHyps, ignore |-> {}]
        Holds(best, spoken) ==
            /\ \A o \in {Opts(N, split, 0, 0) : N \in {1, 2, 9}, split \in BOOLEAN}
                       \cup {Opts(1, FALSE, 0, 2), Opts(9, FALSE, 2, 0)} :
                  \A hyps \in {S!ComputeNBest(lat, o)} : TopOf(hyps, best[o.split], o.N) /\ (o.duplicates = 0 => Once(hyps))
            /\ \A N \in {1, 2, 9} : TopOf(S!ComputeNBestViterbi(lat, Opts(N, FALSE, 0, 0)), spoken, N)
            /\ \A s \in DOMAIN spoken : S!FindBestPath(lat, s, Cardinality(Nodes(lat))).prob = spoken[s]
    IN  Holds([split \in BOOLEAN |-> BestSaid([p \in paths |-> S!Feature(lat, p, {}, split)], weight)],
              BestSaid([p \in paths |-> SelectSeq(Said(lat, p), LAMBDA w : w # Pause)], weight))

DecodedIsBest ==
    LET paths == Paths(lat)
        Opts(model, order, beam) == [model |-> model, order |-> order, beam |-> beam, floor |-> 1, maxPaths |-> 0,
                                     fanIn |-> 0, nbest |-> FALSE, N |-> 9, split |-> FALSE, ignore |-> {}]
        Best(weight) == LET likely == {p \in paths : weight[p] > 0}
                        IN  BestSaid([p \in likely |-> S!Heard(lat, p, {})], weight)
        Weigh(o, floor) == [p \in paths |-> IF o.model THEN Modelled(p, o.order, floor) ELSE PathWeight(lat, p)]
        Finds(one, best) == one.words \in DOMAIN best /\ one.prob = best[one.words] /\ \A s \in DOMAIN best : best[s] <= one.prob
    IN  /\ \A o \in {Opts(FALSE, 1, beam) : beam \in {0, 1, 2}} \cup {Opts(TRUE, order, 0) : order \in 1 .. 4} :
              Finds(S!Decode1Best(lat, o, 9, {}), Best(Weigh(o, 1)))
        /\ TopOf(S!DecodeNBest(lat, Opts(TRUE, LMOrder, 0)), Best(Weigh(Opts(TRUE, LMOrder, 0), 0)), 9)

\* The words said along a path with their times, after <s>.
Items(p) ==
    LET said == SelectSeq([i \in 1 .. Len(p) - 1 |-> i + 1], LAMBDA i : ~ Ignored(lat.word[p[i]]))
    IN  <<S!Item(SentStart, 0, 0)>>
        \o [k \in DOMAIN said |-> S!Item(lat.word[p[said[k]]], lat.time[p[said[k] - 1]], lat.time[p[said[k]]])]

\* The multiple nearest to a time, an even one if two are.
Nearest(t, tolerance) ==
    IF tolerance = 0 THEN t
    ELSE CHOOSE u \in {k * tolerance : k \in 0 .. t} :
            \A v \in {k * tolerance : k \in 0 .. t + 1} : LET d == IF t > u THEN t - u ELSE u - t
                                                              e == IF t > v THEN t - v ELSE v - t
                                                          IN  d < e \/ (d = e /\ (u = v \/ (u \div tolerance) % 2 = 0))

\* Every N-gram counts on every path as often as it is said there.  With times that is so for
\* trigrams unless contexts agree in their words, start and end and differ in between: they are one
\* context with the times of the first, which its last words then have.
CountsArePathSums ==
    LET paths == Paths(lat)
        items == [p \in paths |-> Items(p)]
        weight == [p \in paths |-> PathWeight(lat, p)]
        Opts(order, timed, tolerance) == [order |-> order, timed |-> timed, maxPause |-> 0, tolerance |-> tolerance]
        Ngram(o) == {x \in UNION {{<<p, i, k>> : i, k \in DOMAIN items[p]} : p \in paths} : x[3] - x[2] \in 0 .. o.order - 1}
        Key(o, x) == LET said == SubSeq(items[x[1]], x[2], x[3])
                     IN  IF o.timed THEN <<S!WordsOf(said), Nearest(said[1].start, o.tolerance), Nearest(Last(said).end, o.tolerance)>>
                         ELSE S!WordsOf(said)
        Sums(key) == [k \in Range(key) |-> FoldSet(LAMBDA x, c : c + weight[x[1]], 0, {y \in DOMAIN key : key[y] = k})]
        Expected(o) == Sums([x \in {y \in Ngram(o) : ~ o.timed \/ y[3] > 1} |-> Key(o, x)])
        timed == \A n \in Nodes(lat) : lat.time[n] # NoTime
        pairs == UNION {{SubSeq(items[p], i, i + 1) : i \in 1 .. Len(items[p]) - 1} : p \in paths}
        apart == \A x, y \in pairs : S!NgramKey(x) = S!NgramKey(y) => x = y
        timedOrders == IF ~ timed THEN {} ELSE IF apart THEN 1 .. 3 ELSE 1 .. 2
    IN  \A o \in {Opts(order, FALSE, 0) : order \in 1 .. 3} \cup {Opts(order, TRUE, t) : order \in timedOrders, t \in {0, 2}} :
            S!CountNgrams(lat, o) = Expected(o)

\* Whatever the lattice was asked before as a model, a word has the weight of the best way to say it
\* and what is before it, relative to that of what is before it.
LatticeIsModel ==
    LET starts == UNION {{SubSeq(p, 1, k) : k \in 1 .. Len(p)} : p \in Paths(lat)}
        Said1(p) == SelectSeq([i \in 1 .. Len(p) - 1 |-> lat.word[p[i + 1]]], LAMBDA w : ~ Ignored(w))
        best == BestSaid([p \in {q \in starts : Len(q) = 1 \/ ~ Ignored(lat.word[Last(q)])} |-> Said1(p)],
                         [p \in starts |-> PathWeight(lat, p)])
        At(words) == IF words \in DOMAIN best THEN best[words] ELSE 0
        Ratio(words, w) == IF At(Append(words, w)) = 0 THEN <<0, 1>> ELSE <<At(Append(words, w)), At(words)>>
        contexts == DOMAIN best \cup {Append(words, "c") : words \in DOMAIN best}
        Asked(lm, words, tag) == S!PrefixProb(lat, lm, "b", Reverse(tag \o words))
        Sound(lm, words) ==
            /\ S!PrefixRatio(lm) = Ratio(words, "b")
            /\ \A w \in {"a", SentEnd} : S!PrefixRatio(S!PrefixProbAgain(lat, lm, w)) = Ratio(words, w)
    IN  /\ \A before \in contexts, tag \in {<<SentStart>>, <<>>} : \A lm \in {Asked(S!NoLM, before, tag)} :
              \A words \in contexts : Sound(Asked(lm, words, <<SentStart>>), words)
        /\ \A words \in contexts : \A r \in {S!SentenceProb(lat, words)} :
              r.prob = At(Append(words, SentEnd)) /\ (r.zeroProbs = 0 <=> words \in DOMAIN best)

\* Aligned to a mesh, every word node is in one column, unless it was left out with a warning, and after
\* the word before it on its best path or before the one after it; a column has for each word the
\* posteriors of its nodes, and what they leave of the total, if anything, for none.
MeshIsLattice ==
    LET posterior == S!Posteriors(lat)
        total == posterior[lat.initial]
        spoken == {n \in Nodes(lat) : ~ Ignored(lat.word[n])}
        Place(m, a) == SelectInSeq(m.order, LAMBDA x : x = a)
        Mass(N) == FoldSet(LAMBDA n, x : x + posterior[n], 0, N)
        Before(m, at, n, k) == {n, k} \subseteq DOMAIN at => Place(m, at[n]) < Place(m, at[k])
        Beside(n, step) == Last(S!FindFirstAligned(n, step, spoken))
        Aligned(m, at, failed) ==
            /\ spoken = DOMAIN at \cup failed
            /\ \A n \in DOMAIN at : \/ Before(m, at, Beside(n, S!Viterbi(lat).pred), n)
                                    \/ Before(m, at, n, Beside(n, S!ViterbiBack(lat).next))
            /\ m.total = total
            /\ \A a \in DOMAIN m.col :
                  LET there == {n \in DOMAIN at : at[n] = a}
                      word == [w \in {lat.word[n] : n \in there} |-> Mass({n \in there : lat.word[n] = w})]
                  IN  m.col[a].prob = IF Mass(there) >= total THEN word ELSE word @@ (S!W!Delete :> total - Mass(there))
    IN  \A r \in {S!AlignLattice(lat, {})} : Aligned(r.mesh, r.aligned, r.failed)

DecodingIsBest == Plain /\ Trim /\ lat.word[lat.initial] = SentStart =>
    NBestAreBest /\ DecodedIsBest /\ CountsArePathSums /\ MeshIsLattice /\ (given = 0 => LatticeIsModel)

\* What the searches through a lattice find is what its paths have (computeNBest, computeNBestViterbi,
\* decode1Best, decodeNBest, findBestPath, latticeWER): of a reference the least errors, of hypotheses
\* the best, whatever is pruned on the way.
DecodingIsExact == ErrorIsLeast /\ DecodingIsBest
=============================================================================
