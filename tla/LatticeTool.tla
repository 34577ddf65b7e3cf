---------------------------- MODULE LatticeTool ----------------------------
(***************************************************************************)
(* lattice/src/lattice-tool.cc, processLattice(): what the program does to *)
(* one lattice.  The steps come in a fixed order, each if its option is    *)
(* given; a step that fails ends the processing.  The lattice may be       *)
(* queried, with what LatticeScores defines, at any time and is not        *)
(* changed by it.                                                          *)
(***************************************************************************)
EXTENDS Lattice

CONSTANTS
    Lattices,   \* the lattices that are read
    HTKLattices, \* those read from HTK files, with the header and what is known of their nodes
    Dictionary, Pronunciations, \* -dictionary and -multiword-dictionary
    Others,     \* those given as second operand of -operation
    Thresholds, \* -posterior-prune, as fractions
    Limits,     \* -density-prune, -nodes-prune and the duration to assume
    MaxNodes,   \* -max-nodes, 0 for no limit
    References, \* transcripts, for -add-refs
    Stray,      \* what a flag that was never set may hold
    MaxOps,     \* bound: options given
    MaxSize     \* bound: nodes of a lattice to which one option was applied already

P == INSTANCE LatticeFiles
S == INSTANCE LatticeScores

VARIABLES
    lat,     \* the lattice
    stage,   \* the step that was done last
    last,    \* what it did
    origin,  \* the lattice before a model was applied to it
    htk,     \* the HTK header, and what is known of the nodes of a lattice from such a file
    paused,  \* pauses: still "in", taken "out" to be put back (recoverPauses), or not wanted, "never"
    given    \* options given so far

vars == <<lat, stage, last, origin, htk, paused, given>>
kept == <<origin, htk, paused>>

Op(name) == [name |-> name, other |-> NoLattice, gap |-> 0, words |-> <<>>,
             stray |-> {}, ok |-> TRUE]

NoHTK == [header |-> P!DefaultHeader, info |-> [n \in {} |-> P!NoInfo]]

Init == /\ \/ lat \in Lattices /\ htk = NoHTK
           \/ \E r \in HTKLattices : lat = r.l /\ htk = [header |-> r.header, info |-> r.info]
        /\ stage = 0 /\ last = Op("read") /\ origin = NoLattice /\ paused = "in" /\ given = 0

\* The sorted nodes are in topological order.
Sorted(l) ==
    LET order == SortNodes(l)
    IN  \A i, j \in DOMAIN order : i > j => order[j] \notin DOMAIN l.out[order[i]]

Ready == /\ given < MaxOps /\ (given = 0 \/ Cardinality(Nodes(lat)) <= MaxSize)
         /\ last.ok /\ Sorted(lat)

Step(k, op, l) ==
    /\ Ready /\ stage <= k
    /\ stage' = k + 1 /\ last' = op /\ given' = given + 1 /\ lat' = l

\* What is known of the nodes is followed only as long as no node was made by another step.
Followed == DOMAIN htk.info = {} \/ last.name \in {"read", "pronounced", "split by phones"}

ScorePronunciations ==
    /\ DOMAIN htk.info # {} /\ Followed
    /\ Step(0, Op("pronounced"), lat)
    /\ htk' = [htk EXCEPT !.info = P!ScorePronunciations(@, Dictionary)]
    /\ UNCHANGED <<origin, paused>>

SplitByPhones ==
    /\ DOMAIN htk.info # {} /\ Followed
    /\ LET r == P!SplitHTKMultiwordNodes(lat, htk.info, Pronunciations)
       IN  Step(1, Op("split by phones"), r.l) /\ htk' = [htk EXCEPT !.info = r.info]
    /\ UNCHANGED <<origin, paused>>

SplitMultiwords == Step(1, Op("split"), SplitMultiwordNodes(lat)) /\ UNCHANGED kept

PrunePosteriors ==
    \E t \in Thresholds, limits \in Limits, fast \in BOOLEAN, held \in {0, 9} :
        LET r == S!PrunePosteriors(lat, t, limits, fast, held)
        IN  /\ Ready
            /\ (t[1] > 0 \/ limits.density > 0 \/ limits.nodes > 0)
            /\ \E k \in {2, 6} : Step(k, [Op("prune") EXCEPT !.ok = r.ok], r.l)
            /\ UNCHANGED kept

AddReference ==
    \E words \in References, pauses \in BOOLEAN :
        Step(3, [Op("words") EXCEPT !.words = words], AddWords(lat, words, 2, pauses)) /\ UNCHANGED kept

NoNulls == Step(4, Op("nulls"), RemoveAllXNodes(lat, Null)) /\ UNCHANGED kept

\* -reduce, with an overlap ratio of 0 or not; also before the model is applied and at the end.
Reduced(l) ==
    {[name |-> "pack", l |-> SimplePackBigramLattice(l, iters, FALSE)] : iters \in {0, 2}}
    \cup {[name |-> "approx", l |-> ApproxRedBigramLattice(l, iters, base, <<n, 4>>)] :
            iters \in {0, 2}, base \in {0, 1}, n \in {2, 4}}
Reduce ==
    /\ Ready
    /\ \E r \in Reduced(lat) : \E k \in {5, 10} : Step(k, Op(r.name), r.l)
    /\ UNCHANGED kept

\* With -reduce-before-pruning the weights of transitions that become one are added.
ReduceAdding == \E iters \in {0, 2} :
    Step(5, Op("add"), SimplePackBigramLattice(lat, iters, TRUE)) /\ UNCHANGED kept

NoPause == Step(7, Op("pauses"), RemoveAllXNodes(lat, Pause)) /\ paused' = "never" /\ UNCHANGED <<origin, htk>>

\* Every word has a proper predecessor before the older algorithms see the lattice.
Prepared(l) == RemoveAllXNodes(RemoveAllXNodes(l, Pause), Null)

ApplyLM(name, r, prepared, stray) ==
    /\ Step(8, [Op(name) EXCEPT !.ok = r.ok, !.stray = stray], r.l)
    /\ origin' = lat /\ UNCHANGED htk
    /\ paused' = IF prepared /\ paused = "in" THEN "out" ELSE paused

ReplaceLM == ApplyLM("replace", [ok |-> TRUE, l |-> ReplaceWeights(Prepared(lat))], TRUE, {})
TrigramLM == \E stray \in Stray, max \in MaxNodes :
    ApplyLM("trigram", ExpandToTrigram(Prepared(lat), max, stray), TRUE, stray)
CompactTrigramLM == \E stray \in Stray, max \in MaxNodes :
    ApplyLM("compact trigram", ExpandToCompactTrigram(Prepared(lat), max, stray), TRUE, stray)

\* Any model; the lattice is prepared only with -compact-pause or -no-pause.
GeneralLM ==
    \E compact, noBOW, prepared \in BOOLEAN, max \in MaxNodes :
        ApplyLM(IF noBOW THEN "no backoff" ELSE IF compact THEN "compact model" ELSE "model",
                ExpandToLM(IF prepared THEN Prepared(lat) ELSE lat,
                             [compact |-> compact, noBOW |-> noBOW, maxNodes |-> max]), prepared, {})

\* Pauses are put back where they were, or inserted everywhere.
PauseBack ==
    \E compact, loop, all \in BOOLEAN :
        /\ (paused = "out" \/ all)
        /\ Step(9, Op(IF all THEN "insert" ELSE "recover"),
                IF compact THEN RecoverCompactPauses(lat, loop, all) ELSE RecoverPauses(lat, loop, all))
        /\ UNCHANGED kept

Collapse == Step(12, Op("collapse"), CollapseSameWordNodes(lat, {})) /\ UNCHANGED kept

Or == \E l \in Others :
    Step(13, [Op("or") EXCEPT !.other = l], LatticeOr(lat, l)) /\ UNCHANGED kept
Cat == \E l \in Others, gap \in {0, 2} :
    Step(13, [Op("cat") EXCEPT !.other = l, !.gap = gap], LatticeCat(lat, l, gap)) /\ UNCHANGED kept

\* Written out and read again.
WriteRead ==
    \E compact, tags \in BOOLEAN :
        LET d == IF compact THEN P!WriteCompactPFSG(lat, "top", tags) ELSE P!WritePFSG(lat, "top", tags)
        IN  Step(14, Op("write"), P!ReadPFSGs(<<d>>, TRUE).l) /\ UNCHANGED kept

\* The weights of a lattice become the score of the model that was applied to it, or acoustic
\* ones; those of a lattice read with scores are not written, since the scores are.
Mapping == IF origin # NoLattice THEN "language" ELSE IF DOMAIN htk.info = {} THEN "acoustic" ELSE "none"
NothingGiven == [fields |-> P!NoInfo, wordsOnNodes |-> FALSE, scoresOnNodes |-> FALSE]
WriteReadHTK ==
    \E words, scores, nulls \in BOOLEAN :
        LET h == [htk.header EXCEPT !.wordsOnNodes = words, !.scoresOnNodes = scores]
            r == P!ReadHTK(P!DefaultHeader, P!WriteHTK(lat, htk.info, h, Mapping, FALSE), NothingGiven, nulls)
        IN  /\ Followed
            /\ Step(14, [Op(IF words \/ scores THEN "write HTK on nodes" ELSE "write HTK") EXCEPT !.ok = r.ok], r.l)
            /\ htk' = [header |-> r.header, info |-> r.info]
            /\ UNCHANGED <<origin, paused>>

Next == \/ ScorePronunciations \/ SplitByPhones \/ WriteReadHTK
        \/ SplitMultiwords \/ PrunePosteriors \/ AddReference \/ NoNulls \/ Reduce \/ ReduceAdding
        \/ NoPause \/ ReplaceLM \/ TrigramLM \/ CompactTrigramLM \/ GeneralLM \/ PauseBack
        \/ Collapse \/ Or \/ Cat \/ WriteRead

Spec == Init /\ [][Next]_vars

=============================================================================
