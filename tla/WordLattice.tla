---------------------------- MODULE WordLattice ----------------------------
(***************************************************************************)
(* lm/src/WordLattice.cc: word strings aligned to each other in a lattice. *)
(* A node has a word, the posterior of the strings through it and a class; *)
(* nodes of a class stand for the same position.  Successors are kept in   *)
(* the order in which they were added.                                     *)
(*                                                                         *)
(* Nodes and classes are numbered from 1, those of the code from 0.  The   *)
(* ends are nodes 1 and 2, in classes 1 and 2.  Probabilities are integers.*)
(***************************************************************************)
EXTENDS Integers, Sequences, SequencesExt, FiniteSets, FiniteSetsExt, Functions

\* The alignment of word strings is the one meshes have, with all words equally far apart.
LOCAL A == INSTANCE WordMesh WITH Penalty <- [w \in {} |-> 0], Distance <- [w \in {} |-> 0], WordOrder <- <<>>

Null    == "NULL"
Initial == 1
Final   == 2

LAT_SUB_COST == 2
LAT_DEL_COST == 3
LAT_INS_COST == 3
LAT_ARC_COST == 1

NewNode(w, score, class) == [word |-> w, score |-> score, align |-> class, succs |-> <<>>]

EmptyLattice == [node |-> <<NewNode(Null, 0, 1), NewNode(Null, 0, 2)>>, numAligns |-> 2]
IsEmpty(l) == Len(l.node) = 2 /\ l.node[Initial].succs = <<>>

ArcAt(l, from, to) == SelectInSeq(l.node[from].succs, LAMBDA a : a.to = to)
HasArc(l, from, to) == ArcAt(l, from, to) # 0

\* Mutant: an arc that is there already stays as it is.
AddArc_Once(l, from, to, p) ==
    IF HasArc(l, from, to) THEN l
    ELSE [l EXCEPT !.node[from].succs = Append(@, [to |-> to, p |-> p])]

\* An arc, or more of the one that is there.
AddArc(l, from, to, p) ==
    IF HasArc(l, from, to) THEN [l EXCEPT !.node[from].succs[ArcAt(l, from, to)].p = @ + p]
    ELSE [l EXCEPT !.node[from].succs = Append(@, [to |-> to, p |-> p])]

AddNode(l, w, score, class) ==
    [node |-> Append(l.node, NewNode(w, score, class)),
     numAligns |-> IF class > l.numAligns THEN class ELSE l.numAligns]

\* A path of new nodes, each in a class of its own.
AddWords(l, words, score) ==
    LET Then(r, w) == LET new == Len(r.l.node) + 1
                      IN  [l |-> AddArc(AddNode(r.l, w, score, r.l.numAligns + 1), r.prev, new, score), prev |-> new]
        Ended(r) == [AddArc(r.l, r.prev, Final, score) EXCEPT !.node[Final].score = @ + score]
    IN  Ended(FoldLeft(Then, [l |-> [l EXCEPT !.node[Initial].score = @ + score], prev |-> Initial], words))

-----------------------------------------------------------------------------
\* sortNodes(), from the first node of a graph given by the successors of each.
SortFrom(succs) ==
    LET nodes == DOMAIN succs
        Over(s, n) == [s EXCEPT !.order = <<n>> \o @]
        visit[at \in [seen : SUBSET nodes, order : Seq(nodes)] \X nodes] ==
            IF at[2] \in at[1].seen THEN at[1]
            ELSE Over(FoldLeft(LAMBDA s, m : visit[<<s, m>>], [at[1] EXCEPT !.seen = @ \cup {at[2]}], succs[at[2]]), at[2])
    IN  visit[<<[seen |-> {}, order |-> <<>>], Initial>>].order

SortNodes(l) == SortFrom([n \in DOMAIN l.node |-> [k \in DOMAIN l.node[n].succs |-> l.node[n].succs[k].to]])

\* The classes that follow a class, and its nodes, in order.
NodesOf(l, class) == SelectSeq([n \in DOMAIN l.node |-> n], LAMBDA n : l.node[n].align = class)
ClassSuccs(l) ==
    LET next(n) == [k \in DOMAIN l.node[n].succs |-> l.node[l.node[n].succs[k].to].align]
        all(c) == FlattenSeq([k \in DOMAIN NodesOf(l, c) |-> next(NodesOf(l, c)[k])])
    IN  [c \in 1 .. l.numAligns |->
            FoldLeft(LAMBDA s, d : IF Contains(s, d) THEN s ELSE Append(s, d), <<>>, all(c))]

\* Whether a class in the order is merged into the class before: no arc leads from one to the other.
Joins(succs, order, k) == k > 1 /\ ~ Contains(succs[order[k - 1]], order[k])

\* sortAlignedNodes(): nodes sorted so that those of a class stand together.  Classes next to each other
\* that no arc connects become one.
SortAligned(l) ==
    LET Into(class, n, m) == [m EXCEPT !.node[n].align = class]
        Class(s, succs, order, k) ==
            LET joins == Joins(succs, order, k)
                nodes == NodesOf(l, order[k])
            IN  [order |-> s.order \o nodes, last |-> IF joins THEN s.last ELSE order[k],
                 l |-> IF joins THEN FoldLeft(LAMBDA m, n : Into(s.last, n, m), s.l, nodes) ELSE s.l]
        All(succs, order) ==
            FoldLeft(LAMBDA s, k : Class(s, succs, order, k), [order |-> <<>>, last |-> Initial, l |-> l],
                     [k \in DOMAIN order |-> k])
        Over(succs) == All(succs, SortFrom(succs))
    IN  Over(ClassSuccs(l))

-----------------------------------------------------------------------------
\* Charts: a row has the cheapest way to each node that was reached with so many words.
Improve(row, n, e) ==
    IF n \in DOMAIN row /\ row[n].cost <= e.cost THEN row
    ELSE [m \in DOMAIN row \cup {n} |-> IF m = n THEN e ELSE row[m]]

Way(cost, pred, err) == [cost |-> cost, pred |-> pred, err |-> err]

\* Nodes without a word of the string, any number of them in a row.
Inserted(l, order, row, costs) ==
    LET Along(r, n) == FoldLeft(LAMBDA q, a : Improve(q, a.to, Way(q[n].cost + costs.ins, n, "ins")), r, l.node[n].succs)
    IN  FoldLeft(LAMBDA r, n : IF n \in DOMAIN r THEN Along(r, n) ELSE r, row, order)

\* A word without a node; at the next node; or at a later node with the same word that has no arc yet
\* and is of another class.
Deleted(r, n, cost, costs) == Improve(r, n, Way(cost + costs.del, n, "del"))
Met(l, r, n, cost, w, costs) ==
    FoldLeft(LAMBDA q, a : IF l.node[a.to].word = w THEN Improve(q, a.to, Way(cost, n, "none"))
                           ELSE Improve(q, a.to, Way(cost + costs.sub, n, "sub")), r, l.node[n].succs)
Jumped(l, order, k, r, cost, w, costs) ==
    FoldLeft(LAMBDA q, m : IF l.node[m].word = w /\ w # Null /\ l.node[m].align # l.node[order[k]].align
                           THEN Improve(q, m, Way(cost + costs.arc, order[k], "arc")) ELSE q,
             r, SubSeq(order, k + 1, Len(order)))
WordRow(l, order, row, w, costs) ==
    LET From(r, k, n) == Met(l, Deleted(r, n, row[n].cost, costs), n, row[n].cost, w, costs)
        Step(r, k) == IF order[k] \notin DOMAIN row THEN r
                      ELSE IF costs.arc = 0 THEN From(r, k, order[k])
                      ELSE Jumped(l, order, k, From(r, k, order[k]), row[order[k]].cost, w, costs)
    IN  FoldLeft(Step, [n \in {} |-> Way(0, 0, "none")], [k \in DOMAIN order |-> k])

\* The end is one more word, that of the last node.
Rows(l, order, words, costs) ==
    FoldLeft(LAMBDA rows, w : Append(rows, Inserted(l, order, WordRow(l, order, Last(rows), w, costs), costs)),
             <<Inserted(l, order, [n \in {Initial} |-> Way(0, Initial, "none")], costs)>>, Append(words, Null))

-----------------------------------------------------------------------------
\* alignWords(): from the end, nodes and arcs that are missing are made, the others gain the score.
Skipped(row, n) ==
    LET skip[m \in DOMAIN row] == IF row[m].err = "ins" THEN skip[row[m].pred] ELSE m IN skip[n]

\* A new node takes the class of the one it replaces, or a new one.
Placed(l, at, err, w, score) ==
    AddNode(l, w, score, IF err = "sub" THEN l.node[at].align ELSE l.numAligns + 1)
Linked(l, this, last, score) == IF this # Final /\ this # last THEN AddArc(l, this, last, score) ELSE l

BackStep(r, rows, words, i, score) ==
    LET Here(n, e) ==
            IF e.err \in {"del", "sub"}
            THEN [this |-> Len(r.l.node) + 1, l |-> Placed(r.l, n, e.err, words[i - 1], score)]
            ELSE [this |-> n, l |-> [r.l EXCEPT !.node[n].score = @ + score]]
        After(h, e) == [l |-> Linked(h.l, h.this, r.last, score), best |-> e.pred, last |-> h.this,
                        scores |-> <<h.l.node[h.this].score>> \o r.scores]
        At(n) == After(Here(n, rows[i][n]), rows[i][n])
    IN  At(Skipped(rows[i], r.best))

Costs == [sub |-> LAT_SUB_COST, del |-> LAT_DEL_COST, ins |-> LAT_INS_COST, arc |-> LAT_ARC_COST]

\* The lattice, and the posterior of each word's node.
AlignWords(l, words, score) ==
    LET n == Len(words) + 2
        Back(s, rows) == FoldLeft(LAMBDA r, k : BackStep(r, rows, words, n + 1 - k, score),
                                  [l |-> s.l, best |-> Final, last |-> 0, scores |-> <<>>], [k \in 1 .. n |-> k])
        Sorted(s) == Back(s, Rows(s.l, s.order, words, Costs))
        Result(r) == [l |-> r.l, probs |-> SubSeq(r.scores, 2, n - 1)]
    IN  Result(Sorted(SortAligned(l)))

-----------------------------------------------------------------------------
\* minimizeWordError().  Classes are taken in order.  An arc is pending from the class it leaves to the
\* one it enters; the classes between are deleted by the strings along it.
Runs(l, order) ==
    FoldLeft(LAMBDA runs, n : IF runs # <<>> /\ l.node[Last(runs)[1]].align = l.node[n].align
                              THEN Append(Front(runs), Append(Last(runs), n)) ELSE Append(runs, <<n>>),
             <<>>, order)
Arcs(l, N) == UNION {{[from |-> n, to |-> l.node[n].succs[k].to, p |-> l.node[n].succs[k].p] :
                        k \in DOMAIN l.node[n].succs} : n \in N}
Mass(arcs) == FoldSet(LAMBDA a, p : p + a.p, 0, arcs)
Scores(l, run) == A!Sum([k \in DOMAIN run |-> l.node[run[k]].score])

\* The first of the most probable words, unless none is more so than none at all.
BestOf(l, run, none, suppressed) ==
    FoldLeft(LAMBDA b, n : IF l.node[n].word \notin suppressed /\ l.node[n].score > b.p
                           THEN [word |-> l.node[n].word, p |-> l.node[n].score] ELSE b,
             [word |-> Null, p |-> none], run)

\* The arcs that pass the class.
Passing(pending, run) == {a \in pending : a.to \notin ToSet(run)}

ClassStep(r, l, run, suppressed) ==
    LET With(passing, best, sum) ==
            LET counted ==
                    IF run[1] \in {Initial, Final} THEN r
                    ELSE IF best.word = Null THEN [r EXCEPT !.del = @ + sum]
                    ELSE [r EXCEPT !.words = Append(@, best.word),
                                   !.ins = @ + Mass(passing), !.sub = @ + sum - best.p]
            IN  [counted EXCEPT !.pending = passing \cup Arcs(l, ToSet(run))]
        Within(passing) == With(passing, BestOf(l, run, Mass(passing), suppressed), Scores(l, run))
    IN  Within(Passing(r.pending, run))

\* The words most probable by class, and the errors to be expected of them.  The classes that sorting
\* merges stay merged.  The search for the best path below the return is never reached: the flag for it
\* is joined to the others, not looked for among them.
MinimizeWordError(l, suppressed) ==
    LET Over(s) == [l |-> s.l,
                    best |-> FoldLeft(LAMBDA r, run : ClassStep(r, s.l, run, suppressed),
                                      [words |-> <<>>, sub |-> 0, ins |-> 0, del |-> 0, pending |-> {}],
                                      Runs(s.l, s.order))]
    IN  Over(SortAligned(l))

\* wordError(): the errors of the best path.
ErrorCosts == [sub |-> A!SUB_COST, del |-> A!DEL_COST, ins |-> A!INS_COST, arc |-> 0]
Traced(rows, last) ==
    LET trace[at \in (1 .. Len(rows)) \X (UNION {DOMAIN rows[k] : k \in DOMAIN rows})] ==
            IF at = <<1, Initial>> THEN <<>>
            ELSE LET e == rows[at[1]][at[2]]
                 IN  <<e.err>> \o trace[<<IF e.err = "ins" THEN at[1] ELSE at[1] - 1, e.pred>>]
    IN  trace[<<Len(rows), last>>]
LatticeWordError(l, words) ==
    LET Counts(errs) == [sub |-> A!Count(errs, LAMBDA e : e = "sub"), ins |-> A!Count(errs, LAMBDA e : e = "ins"),
                         del |-> A!Count(errs, LAMBDA e : e = "del")]
        Of(rows) == IF Final \notin DOMAIN Last(rows) THEN [sub |-> 0, ins |-> 0, del |-> Len(words)]
                    ELSE Counts(Traced(rows, Final))
    IN  Of(Rows(l, SortNodes(l), words, ErrorCosts))

-----------------------------------------------------------------------------
\* Files, of version 2 and of version 1, which has neither classes nor the probabilities of arcs.
NodeLines(l) == [n \in DOMAIN l.node |-> [key |-> "node", n |-> n, data |-> l.node[n]]]
LatticeLines(l) == <<[key |-> "initial", n |-> Initial], [key |-> "final", n |-> Final]>> \o NodeLines(l)

\* How many classes there are is not read back.
ReadNode(l, line) == [l EXCEPT !.node = [n \in 1 .. (IF line.n > Len(@) THEN line.n ELSE Len(@)) |->
                                            IF n = line.n THEN line.data ELSE @[n]]]
ReadLattice(lines) ==
    FoldLeft(ReadNode, EmptyLattice, SelectSeq(lines, LAMBDA line : line.key = "node"))

=============================================================================
