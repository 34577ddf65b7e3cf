------------------------------ MODULE WordMesh ------------------------------
(***************************************************************************)
(* lm/src/WordMesh.cc: word strings aligned to each other in columns.  A   *)
(* column has the posterior probability of each word at its position, the  *)
(* absent word *DELETE* among them, and the identifiers of the hypotheses  *)
(* that have it.  Columns are numbered as they are made; their order is    *)
(* kept apart.  The alignment of two word strings of lm/src/WordAlign.cc,  *)
(* whose charts meshes fill with costs of their own, comes first.          *)
(*                                                                         *)
(* A mesh is a record: col, the columns, order, their numbers from left to *)
(* right, total, the posterior of all strings, and all, the identifiers.   *)
(* Probabilities are integers.                                             *)
(***************************************************************************)
EXTENDS Integers, Sequences, SequencesExt, FiniteSets, FiniteSetsExt, Functions

CONSTANTS
    Penalty,  \* VocabDistance: what a word costs where there is none, or NoDistance
    Distance, \* and one word instead of another
    WordOrder \* the words, *DELETE* among them, in the order of their indices

-----------------------------------------------------------------------------
(* WordAlign.cc: the cheapest way to turn one sequence into another by     *)
(* substitutions, deletions and insertions, found in a chart filled row by *)
(* row and traced back from its end.                                       *)
SUB_COST == 4
INS_COST == 3
DEL_COST == 3

Sum(seq) == FoldLeft(+, 0, seq)

\* Mutant: an insertion cheaper than a deletion is taken.
Cheapest_Insert(sub, del, ins) ==
    IF ins < del THEN [cost |-> ins, op |-> "ins"]
    ELSE IF del < sub THEN [cost |-> del, op |-> "del"]
    ELSE [cost |-> sub, op |-> "sub"]

\* A substitution unless a deletion is cheaper, and either unless an insertion is.
Cheapest(sub, del, ins) ==
    IF ins < del /\ ins < sub THEN [cost |-> ins, op |-> "ins"]
    ELSE IF del < sub THEN [cost |-> del, op |-> "del"]
    ELSE [cost |-> sub, op |-> "sub"]

\* costs.sub[i][j] of the i-th against the j-th, costs.del[i], and costs.ins[i + 1][j] after the i-th.
\* A row has one entry more than there are to insert.
FirstRow(costs, m) ==
    FoldLeft(LAMBDA row, j : Append(row, [cost |-> row[j].cost + costs.ins[1][j], op |-> "ins"]),
             <<[cost |-> 0, op |-> "sub"]>>, [j \in 1 .. m |-> j])
NextRow(costs, above, i, m) ==
    FoldLeft(LAMBDA row, j : Append(row, Cheapest(above[j].cost + costs.sub[i][j],
                                                  above[j + 1].cost + costs.del[i],
                                                  row[j].cost + costs.ins[i + 1][j])),
             <<[cost |-> above[1].cost + costs.del[i], op |-> "del"]>>, [j \in 1 .. m |-> j])
Chart(costs, n, m) ==
    FoldLeft(LAMBDA rows, i : Append(rows, NextRow(costs, rows[i], i, m)),
             <<FirstRow(costs, m)>>, [i \in 1 .. n |-> i])

\* The steps, last one first.
Backtrace(chart, n, m) ==
    LET Before(i, j, op) == <<IF op = "ins" THEN i ELSE i - 1, IF op = "del" THEN j ELSE j - 1>>
        trace[at \in (0 .. n) \X (0 .. m)] ==
            IF at = <<0, 0>> THEN <<>>
            ELSE LET op == chart[at[1] + 1][at[2] + 1].op
                 IN  <<[op |-> op, i |-> at[1], j |-> at[2]]>> \o trace[Before(at[1], at[2], op)]
    IN  trace[<<n, m>>]

Cheapest2(costs, n, m) ==
    LET chart == Chart(costs, n, m)
    IN  [cost |-> chart[n + 1][m + 1].cost, steps |-> Backtrace(chart, n, m)]

WordCosts(ref, hyp) ==
    [sub |-> [i \in DOMAIN ref |-> [j \in DOMAIN hyp |-> IF ref[i] = hyp[j] THEN 0 ELSE SUB_COST]],
     del |-> [i \in DOMAIN ref |-> DEL_COST],
     ins |-> [i \in 1 .. Len(ref) + 1 |-> [j \in DOMAIN hyp |-> INS_COST]]]

Count(steps, Op(_)) == Len(SelectSeq(steps, Op))

\* The alignment, a step for each word of either, in order, and the number of errors of each kind.
WordError(ref, hyp) ==
    LET steps == Reverse(Cheapest2(WordCosts(ref, hyp), Len(ref), Len(hyp)).steps)
        kinds == [k \in DOMAIN steps |->
                     IF steps[k].op = "sub" /\ ref[steps[k].i] = hyp[steps[k].j] THEN "corr" ELSE steps[k].op]
        sub == Count(kinds, LAMBDA o : o = "sub")
        ins == Count(kinds, LAMBDA o : o = "ins")
        del == Count(kinds, LAMBDA o : o = "del")
    IN  [sub |-> sub, ins |-> ins, del |-> del, total |-> sub + ins + del, alignment |-> kinds]

-----------------------------------------------------------------------------
Delete     == "*DELETE*"
NoDistance == [w \in {} |-> 0]
NoHyp      == -1    \* no identifier is recorded
RefID      == -2    \* MultiAlign.h: that of the reference
NoAlign    == 0     \* stands for a numAligns that is no column's: the end of the mesh

EmptyMesh == [col |-> <<>>, order |-> <<>>, total |-> 0, all |-> {}]
IsEmpty(m) == m.col = <<>>

NoProbs == [w \in {} |-> 0]
NoHyps  == [w \in {} |-> <<>>]
ProbIn(c, w) == IF w \in DOMAIN c.prob THEN c.prob[w] ELSE 0

Adding(f, w, p)  == [v \in DOMAIN f \cup {w} |-> (IF v \in DOMAIN f THEN f[v] ELSE 0) + IF v = w THEN p ELSE 0]
Setting(f, w, p) == [v \in DOMAIN f \cup {w} |-> IF v = w THEN p ELSE f[v]]
Listing(f, w, ids) ==
    IF ids = <<>> THEN f
    ELSE [v \in DOMAIN f \cup {w} |-> (IF v \in DOMAIN f THEN f[v] ELSE <<>>) \o IF v = w THEN ids ELSE <<>>]

IDs(id) == IF id = NoHyp THEN <<>> ELSE <<id>>
Sorted(ids) == SetToSortSeq(ids, <)

-----------------------------------------------------------------------------
\* alignError(): what it costs, weighed with posteriors, to put a word where there is none ...
InsertError(post, w) ==
    IF w = Delete THEN 0 ELSE IF Penalty = NoDistance THEN post ELSE post * Penalty[w]

\* ... to leave out a column ...
DeleteError(c) ==
    IF Penalty = NoDistance THEN c.post - ProbIn(c, Delete)
    ELSE FoldSet(LAMBDA v, e : e + c.prob[v] * Penalty[v], 0, DOMAIN c.prob \ {Delete})

\* ... to put a word into a column ...
SubError(c, w) ==
    IF w = Delete THEN DeleteError(c)
    ELSE IF Penalty = NoDistance THEN c.post - ProbIn(c, w)
    ELSE FoldSet(LAMBDA v, e : e + c.prob[v] * IF v = Delete THEN Penalty[w] ELSE Distance[v][w],
                 0, DOMAIN c.prob)

\* ... and all of another column's words, unless one of them has all of its posterior.
Weighed(c, Error(_)) ==
    IF \E w \in DOMAIN c.prob : c.prob[w] = c.post
    THEN LET w == CHOOSE v \in DOMAIN c.prob : c.prob[v] = c.post IN c.post * Error(w)
    ELSE FoldSet(LAMBDA w, e : e + c.prob[w] * Error(w), 0, DOMAIN c.prob)
InsertColumnError(post, c) == Weighed(c, LAMBDA w : InsertError(post, w))
SubColumnError(c, d)       == Weighed(d, LAMBDA w : SubError(c, w))

-----------------------------------------------------------------------------
\* A hypothesis is words with the posteriors of each and of the transition after it, 0 for the score of
\* the whole, and that of the transition into its first word.
Hyp(words, score, id) ==
    [words |-> words, post |-> [i \in DOMAIN words |-> 0], trans |-> [i \in DOMAIN words |-> 0],
     enter |-> 0, score |-> score, id |-> id]

WordPosterior(h, j)  == IF j > 0 /\ h.post[j] # 0 THEN h.post[j] ELSE h.score
TransPosterior(h, j) ==
    IF j > 0 THEN IF h.trans[j] # 0 THEN h.trans[j] ELSE h.score
    ELSE IF h.enter # 0 THEN h.enter ELSE h.score

Position(m, a, otherwise) == IF a \in DOMAIN m.col THEN SelectInSeq(m.order, LAMBDA x : x = a) ELSE otherwise

\* The positions after column a and before column b.
Span(m, a, b) == [after |-> Position(m, a, 0), before |-> Position(m, b, Len(m.order) + 1)]

WordChartCosts(m, h, span) ==
    LET n == span.before - span.after - 1
        col == [i \in 1 .. n |-> m.col[m.order[span.after + i]]]
    IN  [sub |-> [i \in 1 .. n |-> [j \in DOMAIN h.words |-> SubError(col[i], h.words[j])]],
         del |-> [i \in 1 .. n |-> DeleteError(col[i])],
         ins |-> [i \in 1 .. n + 1 |-> [j \in DOMAIN h.words |->
                     InsertError(IF i = 1 THEN m.total ELSE col[i - 1].trans, h.words[j])]]]

Entered(c, w, post, trans, ids) ==
    [c EXCEPT !.prob = Adding(@, w, post), !.post = @ + post, !.trans = @ + trans, !.hyps = Listing(@, w, ids)]

\* A column after position at.  What went from the columns before to those behind it passes it by.
NewColumn(m, at) ==
    LET null == IF at > 0 THEN m.col[m.order[at]].trans ELSE m.total
        c == [prob |-> IF null = 0 THEN NoProbs ELSE Setting(NoProbs, Delete, null),
              hyps |-> Listing(NoHyps, Delete, Sorted(m.all)), post |-> null, trans |-> null]
    IN  [m EXCEPT !.col = Append(@, c), !.order = InsertAt(@, at + 1, Len(m.col) + 1)]

\* One step of the alignment, from the right.
AlignStep(r, step, h, span) ==
    LET a == r.m.order[span.after + step.i]
        ids == IDs(h.id)
        w == h.words[step.j]
        trans == TransPosterior(h, step.j)
        new == Len(r.m.col) + 1
        wide == NewColumn(r.m, span.after + step.i)
    IN  CASE step.op = "sub" ->
               LET c == Entered(r.m.col[a], w, WordPosterior(h, step.j), trans, ids)
               IN  [m |-> [r.m EXCEPT !.col[a] = c],
                    columns |-> [r.columns EXCEPT ![step.j] = a], probs |-> [r.probs EXCEPT ![step.j] = c.prob[w]]]
          [] step.op = "del" ->
               [r EXCEPT !.m.col[a] = Entered(@, Delete, trans, trans, ids)]
          [] step.op = "ins" ->
               [m |-> [wide EXCEPT !.col[new] =
                         [@ EXCEPT !.prob = Setting(@, w, WordPosterior(h, step.j)), !.hyps = Listing(@, w, ids),
                                   !.post = @ + WordPosterior(h, step.j), !.trans = @ + trans]],
                columns |-> [r.columns EXCEPT ![step.j] = new],
                probs |-> [r.probs EXCEPT ![step.j] = WordPosterior(h, step.j)]]

\* alignWords(): between columns a and b, if they are in this order.  Also the column of each word and its
\* posterior there.  The total grows only with a string that spans the mesh.
AlignWords(m, h, a, b) ==
    LET span == Span(m, a, b)
        n == span.before - span.after - 1
        steps == Cheapest2(WordChartCosts(m, h, span), n, Len(h.words)).steps
        none == [j \in DOMAIN h.words |-> 0]
        r == FoldLeft(LAMBDA q, step : AlignStep(q, step, h, span),
                      [m |-> m, columns |-> none, probs |-> none], steps)
        entered == IF span.after = 0 THEN r.m
                   ELSE [r.m EXCEPT !.col[r.m.order[span.after]].trans = @ + TransPosterior(h, 0)]
    IN  IF n < 0 THEN [ok |-> FALSE, m |-> m, columns |-> none, probs |-> none]
        ELSE [ok |-> TRUE, columns |-> r.columns, probs |-> r.probs,
              m |-> [entered EXCEPT !.all = @ \cup ToSet(IDs(h.id)),
                                    !.total = @ + IF n = Len(m.order) THEN h.score ELSE 0]]

AlignWhole(m, h) == AlignWords(m, h, NoAlign, NoAlign).m
AlignReference(m, words) == AlignWhole(m, Hyp(words, 0, RefID))

\* Strings that were aligned in parts leave posteriors out: *DELETE* has what the words of a column lack
\* of the total.
NormalizeDeletes(m) ==
    LET Absent(c) == m.total - FoldSet(LAMBDA w, p : p + c.prob[w], 0, DOMAIN c.prob \ {Delete})
        Filled(prob, absent) == IF absent > 0 THEN Setting(prob, Delete, absent) ELSE Restrict(prob, DOMAIN prob \ {Delete})
    IN  [m EXCEPT !.col = [a \in DOMAIN @ |->
            [@[a] EXCEPT !.prob = Filled(@, Absent(m.col[a])), !.post = m.total, !.trans = m.total]]]

-----------------------------------------------------------------------------
\* Two meshes, column by column; the words of the other are scaled by score.
ColumnChartCosts(m, o) ==
    LET col == [i \in DOMAIN m.order |-> m.col[m.order[i]]]
        other == [j \in DOMAIN o.order |-> o.col[o.order[j]]]
    IN  [sub |-> [i \in DOMAIN col |-> [j \in DOMAIN other |-> SubColumnError(col[i], other[j])]],
         del |-> [i \in DOMAIN col |-> DeleteError(col[i])],
         ins |-> [i \in 1 .. Len(col) + 1 |-> [j \in DOMAIN other |->
                     InsertColumnError(IF i = 1 THEN m.total ELSE col[i - 1].trans, other[j])]]]

Poured(c, d, score) ==
    [prob |-> [w \in DOMAIN c.prob \cup DOMAIN d.prob |-> ProbIn(c, w) + score * ProbIn(d, w)],
     hyps |-> [w \in DOMAIN c.hyps \cup (DOMAIN d.hyps \cap DOMAIN d.prob) |->
                  (IF w \in DOMAIN c.hyps THEN c.hyps[w] ELSE <<>>)
                  \o IF w \in DOMAIN d.hyps \cap DOMAIN d.prob THEN d.hyps[w] ELSE <<>>],
     post |-> c.post + score * d.post, trans |-> c.trans + score * d.trans]

MergeStep(m, step, o, score) ==
    LET a == m.order[step.i]
        d == o.col[o.order[step.j]]
        wide == NewColumn(m, step.i)
    IN  CASE step.op = "sub" -> [m EXCEPT !.col[a] = Poured(@, d, score)]
          [] step.op = "del" -> [m EXCEPT !.col[a] =
                Entered(@, Delete, score * o.total, score * o.total, Sorted(o.all))]
          [] step.op = "ins" -> [wide EXCEPT !.col[Len(m.col) + 1] = Poured(@, d, score)]

ColumnSteps(m, o) == Cheapest2(ColumnChartCosts(m, o), Len(m.order), Len(o.order)).steps

AlignAlignment(m, o, score) ==
    LET r == FoldLeft(LAMBDA q, step : MergeStep(q, step, o, score), m, ColumnSteps(m, o))
    IN  [r EXCEPT !.all = @ \cup o.all, !.total = @ + score * o.total]

-----------------------------------------------------------------------------
\* Errors of the best string in the mesh: any word of a column is there, a column may be absent if
\* *DELETE* has a posterior in it.
ErrorCosts(m, words) ==
    LET col == [i \in DOMAIN m.order |-> m.col[m.order[i]]]
    IN  [sub |-> [i \in DOMAIN col |-> [j \in DOMAIN words |->
                     IF words[j] \in DOMAIN col[i].prob THEN 0 ELSE SUB_COST]],
         del |-> [i \in DOMAIN col |-> IF ProbIn(col[i], Delete) > 0 THEN 0 ELSE DEL_COST],
         ins |-> [i \in 1 .. Len(col) + 1 |-> [j \in DOMAIN words |-> INS_COST]]]
MeshWordError(m, words) ==
    LET costs == ErrorCosts(m, words)
        steps == Cheapest2(costs, Len(m.order), Len(words)).steps
        sub == Count(steps, LAMBDA s : s.op = "sub" /\ costs.sub[s.i][s.j] > 0)
        ins == Count(steps, LAMBDA s : s.op = "ins")
        del == Count(steps, LAMBDA s : s.op = "del" /\ costs.del[s.i] > 0)
    IN  [sub |-> sub, ins |-> ins, del |-> del, total |-> sub + ins + del]

\* The most probable word of each column, the first of several in the vocabulary, and how much of the other
\* words is inserted, substituted or deleted by that.  *DELETE* counts bias times.
BestOfColumn(c, bias, suppressed) ==
    LET prob == [w \in DOMAIN c.prob |-> c.prob[w] * IF w = Delete THEN bias ELSE 1]
        words == SelectSeq(WordOrder, LAMBDA w : w \in DOMAIN prob \ suppressed)
    IN  FoldLeft(LAMBDA best, w : IF best = <<>> \/ prob[w] > prob[best[1]] THEN <<w>> ELSE best, <<>>, words)

\* Mutant: words left out cost nothing.
MinimizeStep_NoDeletes(r, c, total, bias, suppressed) ==
    LET best == BestOfColumn(c, bias, suppressed)
        absent == bias * ProbIn(c, Delete)
    IN  IF best = <<>> \/ best[1] = Delete THEN r
        ELSE [r EXCEPT !.words = Append(@, best[1]), !.probs = Append(@, c.prob[best[1]]),
                       !.ins = @ + absent, !.sub = @ + total - absent - c.prob[best[1]]]

\* What the choice of a column adds.
MinimizeStep(r, c, total, bias, suppressed) ==
    LET best == BestOfColumn(c, bias, suppressed)
        absent == bias * ProbIn(c, Delete)
    IN  IF best = <<>> THEN r
        ELSE IF best[1] = Delete THEN [r EXCEPT !.del = @ + total - absent]
        ELSE [r EXCEPT !.words = Append(@, best[1]), !.probs = Append(@, c.prob[best[1]]),
                       !.ins = @ + absent, !.sub = @ + total - absent - c.prob[best[1]]]
MinimizeMeshError(m, bias, suppressed) ==
    FoldLeft(LAMBDA r, a : MinimizeStep(r, m.col[a], m.total, bias, suppressed),
             [words |-> <<>>, probs |-> <<>>, sub |-> 0, ins |-> 0, del |-> 0], m.order)

-----------------------------------------------------------------------------
\* A file has lines for what is not as usual: positions are numbered from left to right, posteriors left
\* out when they are the total, and the reference's identifier is written as its word.
ReferenceOf(c) == {w \in DOMAIN c.prob : w \in DOMAIN c.hyps /\ Contains(c.hyps[w], RefID)}

ColumnLines(m, i) ==
    LET c == m.col[m.order[i]]
        ref == ReferenceOf(c)
        listed == [w \in DOMAIN c.hyps |-> SelectSeq(c.hyps[w], LAMBDA id : id # RefID)]
        words == SelectSeq(WordOrder, LAMBDA w : w \in DOMAIN c.hyps /\ Len(c.hyps[w]) > IF w \in ref THEN 1 ELSE 0)
    IN  <<[key |-> "align", i |-> i, prob |-> c.prob]>>
        \o (IF c.post = m.total THEN <<>> ELSE <<[key |-> "posterior", i |-> i, p |-> c.post]>>)
        \o (IF c.trans = m.total THEN <<>> ELSE <<[key |-> "transposterior", i |-> i, p |-> c.trans]>>)
        \o SetToSeq({[key |-> "reference", i |-> i, word |-> w] : w \in ref})
        \o [k \in DOMAIN words |-> [key |-> "hyps", i |-> i, word |-> words[k], ids |-> listed[words[k]]]]
MeshLines(m) ==
    <<[key |-> "numaligns", n |-> Len(m.order)], [key |-> "total", p |-> m.total]>>
    \o FlattenSeq([i \in DOMAIN m.order |-> ColumnLines(m, i)])

ReadLine(m, line) ==
    CASE line.key = "numaligns" -> [m EXCEPT !.order = [i \in 1 .. line.n |-> i], !.col = [i \in 1 .. line.n |->
                                       [prob |-> NoProbs, hyps |-> NoHyps, post |-> m.total, trans |-> m.total]]]
      [] line.key = "total" -> [m EXCEPT !.total = line.p,
                                         !.col = [a \in DOMAIN @ |-> [@[a] EXCEPT !.post = line.p, !.trans = line.p]]]
      [] line.key = "align" -> [m EXCEPT !.col[line.i].prob = line.prob]
      [] line.key = "posterior" -> [m EXCEPT !.col[line.i].post = line.p]
      [] line.key = "transposterior" -> [m EXCEPT !.col[line.i].trans = line.p]
      [] line.key = "reference" -> [m EXCEPT !.col[line.i].hyps = Listing(@, line.word, <<RefID>>)]
      [] line.key = "hyps" -> [m EXCEPT !.col[line.i].hyps = Listing(@, line.word, line.ids),
                                        !.all = @ \cup ToSet(line.ids)]

\* Into a mesh that is empty, with a total of 1; a position without words is absent with the total.
ReadMesh(lines) ==
    LET m == FoldLeft(ReadLine, [EmptyMesh EXCEPT !.total = 1], lines)
    IN  [m EXCEPT !.col = [a \in DOMAIN @ |->
            [@[a] EXCEPT !.prob = IF DOMAIN @ = {} THEN Setting(@, Delete, m.total) ELSE @]]]

=============================================================================
