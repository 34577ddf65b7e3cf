------------------------------ MODULE Lattice ------------------------------
(***************************************************************************)
(* lattice/src/Lattice.cc, LatticeReduce.cc: the nodes and transitions of  *)
(* a word lattice and the operations that rebuild one: removing nodes,     *)
(* putting pauses back, joining lattices, splitting multiwords, merging    *)
(* nodes, reading and writing.  Nodes and transitions are visited in the   *)
(* order of their indices.                                                 *)
(*                                                                         *)
(* A transition is stored twice, with its source and with its target, and  *)
(* the two copies are changed one after the other.  A lattice is a record: *)
(* the words, times and two transition tables of its nodes, its initial    *)
(* and final node and the index after the largest it ever used.  Weights   *)
(* are log probabilities in the code, natural numbers here: combining two  *)
(* multiplies them, One is the weight of the empty path and 0 that of an   *)
(* impossible one.                                                         *)
(***************************************************************************)
EXTENDS Naturals, Integers, Sequences, SequencesExt, FiniteSetsExt

CONSTANTS
    Pause,              \* vocab.pauseIndex()
    SentStart, SentEnd, \* vocab.ssIndex(), vocab.seIndex()
    Parts,              \* the words a multiword is made of, <<w>> for any other word
    Model, LMOrder      \* a backoff N-gram model and the length of its N-grams

NoNode == -1
NoTime == -1       \* no HTKWordInfo, or one whose time is not defined
One    == 1
Null   == "NULL"   \* Vocab_None, written NullNodeName

Nodes(l) == DOMAIN l.word

Put(f, k, v) == [x \in DOMAIN f \cup {k} |-> IF x = k THEN v ELSE f[x]]
Without(f, k) == [x \in DOMAIN f \ {k} |-> f[x]]

Trans(w, flags) == [w |-> w, flags |-> flags]

NoLattice == [word |-> [n \in {} |-> Null], time |-> [n \in {} |-> NoTime],
              out |-> [n \in {} |-> {}], in |-> [n \in {} |-> {}],
              initial |-> NoNode, final |-> NoNode, maxIndex |-> 0]

NoTransitions == [n \in {} |-> Trans(One, {})]

\* insertNode() under an index, and dupNode(), which takes the next one.  A node that is
\* there keeps its transitions.
InsertTimedNode(l, n, w, time) ==
    [l EXCEPT !.word = Put(@, n, w), !.time = Put(@, n, time),
              !.out = Put(@, n, IF n \in Nodes(l) THEN l.out[n] ELSE NoTransitions),
              !.in  = Put(@, n, IF n \in Nodes(l) THEN l.in[n] ELSE NoTransitions),
              !.maxIndex = IF @ <= n THEN n + 1 ELSE @]
InsertNode(l, n, w) == InsertTimedNode(l, n, w, NoTime)
DupNode(l, w) == InsertNode(l, l.maxIndex, w)

\* Every transition of the node is taken from the node at its other end.
RemoveNode(l, n) ==
    IF n \notin Nodes(l) THEN l
    ELSE [l EXCEPT
            !.word = Without(@, n), !.time = Without(@, n),
            !.out = [m \in DOMAIN @ \ {n} |-> IF m \in DOMAIN l.in[n] THEN Without(@[m], n) ELSE @[m]],
            !.in  = [m \in DOMAIN @ \ {n} |-> IF m \in DOMAIN l.out[n] THEN Without(@[m], n) ELSE @[m]],
            !.initial = IF @ = n THEN NoNode ELSE @,
            !.final = IF @ = n THEN NoNode ELSE @]

Union(v, w) == IF v > w THEN v ELSE w

\* What a transition becomes when t is added to it: the better weight or the sum, and
\* a direct connection unless a pause was on it before.
Merged(old, t, maxAdd) ==
    Trans(IF maxAdd THEN old.w + t.w ELSE Union(old.w, t.w),
          old.flags \cup t.flags \cup (IF "pause" \in old.flags THEN {} ELSE {"direct"}))

\* Mutant: the copy with the source is not the merged one.
InsertTrans_InOnly(l, a, b, t, maxAdd) ==
    LET new == IF a \in DOMAIN l.in[b] THEN Merged(l.in[b][a], t, maxAdd) ELSE t
    IN  [l EXCEPT !.in[b] = Put(@, a, new), !.out[a] = Put(@, b, t)]

InsertTrans(l, a, b, t, maxAdd) ==
    LET new == IF a \in DOMAIN l.in[b] THEN Merged(l.in[b][a], t, maxAdd) ELSE t
    IN  [l EXCEPT !.in[b] = Put(@, a, new), !.out[a] = Put(@, b, new)]

\* insertTrans() as nearly every caller uses it.
Link(l, a, b, t) == InsertTrans(l, a, b, t, FALSE)

SetWeightTrans(l, a, b, w) ==
    [l EXCEPT !.in[b] = Put(@, a, Trans(w, @[a].flags)), !.out[a] = Put(@, b, Trans(w, @[b].flags))]

RemoveTrans(l, a, b) ==
    IF a \notin Nodes(l) THEN l
    ELSE IF b \notin DOMAIN l.out[a] THEN l
    ELSE IF b \notin Nodes(l) THEN [l EXCEPT !.out[a] = Without(@, b)]
    ELSE [l EXCEPT !.out[a] = Without(@, b), !.in[b] = Without(@, a)]

MarkTrans(l, a, b, flag) ==
    [l EXCEPT !.in[b] = Put(@, a, Trans(@[a].w, @[a].flags \cup {flag})),
              !.out[a] = Put(@, b, Trans(@[b].w, @[b].flags \cup {flag}))]

ClearMarkOnAllTrans(l, flag) ==
    LET Cleared(ts) == [m \in DOMAIN ts |-> Trans(ts[m].w, ts[m].flags \ {flag})]
    IN  [l EXCEPT !.out = [n \in DOMAIN @ |-> Cleared(@[n])],
                  !.in  = [n \in DOMAIN @ |-> Cleared(@[n])]]

-----------------------------------------------------------------------------
\* The two copies of every transition agree and lead to nodes of the lattice, initial
\* and final are nodes or NoNode, and the next index is free: what every algorithm
\* on lattices takes for granted.  The mark "reserved" is for the source's copy only.
Consistent(l) ==
    /\ DOMAIN l.time = Nodes(l) /\ DOMAIN l.out = Nodes(l) /\ DOMAIN l.in = Nodes(l)
    /\ \A a \in Nodes(l) : \A b \in DOMAIN l.out[a] :
            /\ b \in Nodes(l) /\ a \in DOMAIN l.in[b]
            /\ l.in[b][a].w = l.out[a][b].w
            /\ l.in[b][a].flags \ {"reserved"} = l.out[a][b].flags \ {"reserved"}
    /\ \A b \in Nodes(l) : \A a \in DOMAIN l.in[b] : a \in Nodes(l) /\ b \in DOMAIN l.out[a]
    /\ {l.initial, l.final} \subseteq Nodes(l) \cup {NoNode}
    /\ \A n \in Nodes(l) : n < l.maxIndex

-----------------------------------------------------------------------------
Ascending(S) == SelectSeq([i \in 1 .. Max(S \cup {0}) + 1 |-> i - 1], LAMBDA n : n \in S)

\* Model.prob has a weight for every explicit N-gram, the word before its context, nearest word
\* first; Model.bow one for every context and each of its beginnings.
Known(c) ==
    LET most == Min({LMOrder - 1, Len(c)})
    IN  Max({d \in 0 .. most : SubSeq(c, 1, d) \in DOMAIN Model.bow})

\* contextBOW(): of giving up the words of a context from a length on.
ContextBOW(c, length) ==
    FoldLeft(LAMBDA w, i : w * Model.bow[SubSeq(c, 1, i)], One,
             [j \in 1 .. Max({Known(c) - length, 0}) |-> length + j])

\* The lengths of the contexts in which the word is explicit.
Explicit(w, c) == {d \in 0 .. Known(c) : <<w>> \o SubSeq(c, 1, d) \in DOMAIN Model.prob}
WordProb(w, c) ==
    LET d == Max(Explicit(w, c))
    IN  IF Explicit(w, c) = {} THEN 0 ELSE Model.prob[<<w>> \o SubSeq(c, 1, d)] * ContextBOW(c, d)

\* contextID(): how much of the context the model uses for the word, or for any word.
ContextLength(w, c) == IF w = Null THEN Known(c) ELSE Max(Explicit(w, c) \cup {0})

\* ignoreWord(), with the words ignored by default.
Ignored(w) == w \in {Null, Pause}

\* The nodes in topological order, as a depth-first search from the initial node leaves them.
RECURSIVE Visit(_, _, _)
Visit(l, n, visit) ==
    IF n \in visit.seen THEN visit
    ELSE LET below == FoldLeft(LAMBDA v, m : Visit(l, m, v),
                               [visit EXCEPT !.seen = @ \cup {n}], Ascending(DOMAIN l.out[n]))
         IN  [below EXCEPT !.done = Append(@, n)]
SortedBack(l) == Visit(l, l.initial, [seen |-> {}, done |-> <<>>]).done
SortNodes(l) == Reverse(SortedBack(l))

-----------------------------------------------------------------------------
\* The weight of going around a loop any number of times; a loop of weight One counts once.
DetectSelfLoop(l, n) == IF n \notin DOMAIN l.out[n] THEN One ELSE l.out[n][n].w

\* Mutant: the weight of the second transition is lost.
JointWeight_First(l, n, s, t) == s.w * DetectSelfLoop(l, n)

JointWeight(l, n, s, t) == s.w * t.w * DetectSelfLoop(l, n)

\* Joins every transition into the node with every one out of it.
JoinAcross(l, x, n) ==
    LET Joint(a, b) ==
            LET s == l.in[n][a]
                t == l.out[n][b]
                both == (s.flags \cup t.flags) \ {"direct"}
            IN  Trans(JointWeight(l, n, s, t),
                      both \cup (IF x = Pause THEN {"pause"} ELSE {})
                           \cup (IF x = Null /\ "direct" \in s.flags \cap t.flags THEN {"direct"} ELSE {}))
    IN  FoldLeft(LAMBDA k, a :
                    FoldLeft(LAMBDA j, b : Link(j, a, b, Joint(a, b)),
                             k, Ascending(DOMAIN l.out[n] \ {n})),
                 l, Ascending(DOMAIN l.in[n] \ {n}))

RemoveAllXNodes(l, x) ==
    FoldLeft(LAMBDA k, n : IF n \in {k.initial, k.final} \/ k.word[n] # x THEN k
                           ELSE RemoveNode(JoinAcross(k, x, n), n),
             l, Ascending(Nodes(l)))

\* Whether a pause goes on the transition: everywhere, or where one was taken out.
PauseOn(l, n, m, all) ==
    \/ all /\ ~ Ignored(l.word[n]) /\ l.word[m] # Pause
    \/ "pause" \in l.out[n][m].flags

\* Mutant: a transition that was there all along goes with the one the pause was on.
KeepDirect_All(l, n, m, all) == all /\ ~ Ignored(l.word[n])

\* The transition stays beside the pause if there was one without a pause.
KeepDirect(l, n, m, all) == (all /\ ~ Ignored(l.word[n])) \/ "direct" \in l.out[n][m].flags

RecoverPause(l, n, loop, all) ==
    FoldLeft(LAMBDA k, m :
                LET p == k.maxIndex
                    t == l.out[n][m]
                    u == Trans(One, {})
                    i == Link(Link(DupNode(k, Pause), p, m, u), n, p, Trans(t.w, {}))
                    j == IF loop THEN Link(i, p, p, u) ELSE i
                IN  IF KeepDirect(l, n, m, all) THEN j ELSE RemoveTrans(j, n, m),
             l, Ascending({m \in DOMAIN l.out[n] : PauseOn(l, n, m, all)}))

\* One pause node for all transitions out of a node.
RecoverCompactPause(l, n, loop, all) ==
    LET p == l.maxIndex
        u == Trans(One, {})
        paused == {m \in DOMAIN l.out[n] : PauseOn(l, n, m, all)}
        linked == FoldLeft(LAMBDA k, m :
                              LET j == Link(k, p, m, Trans(l.out[n][m].w, {}))
                              IN  IF KeepDirect(l, n, m, all) THEN j ELSE RemoveTrans(j, n, m),
                           DupNode(l, Pause), Ascending(paused))
        joined == Link(linked, n, p, u)
    IN  IF paused = {} THEN l
        ELSE IF loop THEN Link(joined, p, p, u) ELSE joined

RecoverPauses(l, loop, all) ==
    FoldLeft(LAMBDA k, n : RecoverPause(k, n, loop, all), l, SortNodes(l))
RecoverCompactPauses(l, loop, all) ==
    FoldLeft(LAMBDA k, n : RecoverCompactPause(k, n, loop, all), l, SortNodes(l))

\* Nodes that lie on no path from the initial to the final node, found along the sorted nodes.
Useless(l) ==
    LET order == SortNodes(l)
        end   == CHOOSE i \in DOMAIN order : order[i] = l.final
        ahead == FoldLeft(LAMBDA S, n : IF DOMAIN l.in[n] \cap S # {} THEN S \cup {n} ELSE S,
                          {l.initial}, Tail(order))
        back  == FoldLeft(LAMBDA S, n : IF DOMAIN l.out[n] \cap S # {} THEN S \cup {n} ELSE S,
                          {l.final}, Reverse(SubSeq(order, 1, end - 1)))
    IN  Nodes(l) \ (ahead \cap back)
RemoveUselessNodes(l) ==
    IF l.final \notin Range(Tail(SortNodes(l))) THEN l
    ELSE FoldLeft(RemoveNode, l, Ascending(Useless(l)))

\* A multiword that the model does not know becomes a chain of its parts; the first keeps the node.
SplitMultiwordNode(l, n) ==
    LET parts == IF Ignored(l.word[n]) THEN <<l.word[n]>> ELSE Parts[l.word[n]]
        last  == l.maxIndex + Len(parts) - 2
        first == [l EXCEPT !.word[n] = parts[1]]
        chain == FoldLeft(LAMBDA k, i :
                             LET j == InsertTimedNode(k, k.maxIndex, parts[i], l.time[n])
                             IN  IF i = 2 THEN j
                                 ELSE Link(j, k.maxIndex - 1, k.maxIndex, Trans(One, {})),
                          first, [i \in 1 .. Len(parts) - 1 |-> i + 1])
        moved == FoldLeft(LAMBDA k, m : RemoveTrans(Link(k, last, m, l.out[n][m]), n, m),
                          chain, Ascending(DOMAIN l.out[n]))
    IN  IF Len(parts) < 2 \/ WordProb(l.word[n], <<>>) > 0 THEN l
        ELSE Link(moved, n, l.maxIndex, Trans(One, {}))
SplitMultiwordNodes(l) == FoldLeft(SplitMultiwordNode, l, SortNodes(l))

\* Weights from a model, for words after the word before them, whatever was before.
ReplaceWeights(l) ==
    LET WordAt(n) == IF n = l.initial THEN SentStart ELSE l.word[n]
        WordTo(n) == IF n = l.final THEN SentEnd ELSE l.word[n]
        New(a, b) == IF Ignored(WordTo(b)) THEN One ELSE WordProb(WordTo(b), <<WordAt(a)>>)
    IN  FoldLeft(LAMBDA k, a : FoldLeft(LAMBDA j, b : SetWeightTrans(j, a, b, New(a, b)),
                                        k, Ascending(DOMAIN l.out[a])),
                 l, Ascending(Nodes(l)))

AddWords(l, words, weight, pauses) ==
    LET To(k, n, w) == \* the next node after n, with weight w, and the pause before it
            LET p == k.maxIndex
                j == Link(DupNode(Link(k, n.last, n.next, Trans(w, {})), Pause), n.last, p, Trans(w, {}))
            IN  IF pauses THEN Link(j, p, n.next, Trans(One, {}))
                ELSE Link(k, n.last, n.next, Trans(w, {}))
        step == FoldLeft(LAMBDA s, word :
                            LET m == s.l.maxIndex
                            IN  [l |-> To(DupNode(s.l, word), [last |-> s.last, next |-> m], s.w),
                                 last |-> m, w |-> One],
                         [l |-> l, last |-> l.initial, w |-> weight], words)
    IN  To(step.l, [last |-> step.last, next |-> l.final], step.w)

-----------------------------------------------------------------------------
\* Puts a copy of lattice s in the place of node n, its nodes after those there are.
ImplantLattice(l, n, s, addTime) ==
    LET base == l.maxIndex
        Shifted(ts) == [m \in {base + k : k \in DOMAIN ts} |-> ts[m - base]]
        copied == FoldLeft(LAMBDA k, m :
                              LET t == s.time[m]
                                  j == InsertTimedNode(k, base + m,
                                                       IF m \in {s.initial, s.final} THEN Null ELSE s.word[m],
                                                       IF t = NoTime THEN t ELSE t + addTime)
                              IN  [j EXCEPT !.in[base + m] = Shifted(s.in[m]),
                                            !.out[base + m] = Shifted(s.out[m])],
                           l, Ascending(Nodes(s)))
        entered == FoldLeft(LAMBDA k, m : Link(k, m, base + s.initial, l.in[n][m]),
                            copied, Ascending(DOMAIN l.in[n]))
        left == FoldLeft(LAMBDA k, m : Link(k, base + s.final, m, entered.out[n][m]),
                         entered, Ascending(DOMAIN entered.out[n]))
    IN  [RemoveNode(left, n) EXCEPT !.maxIndex = base + s.maxIndex]

\* Time of the node that two lattices share, when both have one.
EarlierTime(s, t) == IF s = NoTime \/ (t # NoTime /\ s > t) THEN t ELSE s
LaterTime(s, t)   == IF s = NoTime \/ (t # NoTime /\ s < t) THEN t ELSE s

\* Nodes without words from 1 to 0, linked one to the next.
Frame(path, startTime, endTime) ==
    LET nodes == FoldLeft(LAMBDA k, n : InsertNode(k, n, Null), NoLattice, Ascending(Range(path)))
        timed == [nodes EXCEPT !.time[1] = startTime, !.time[0] = endTime, !.initial = 1, !.final = 0]
    IN  FoldLeft(LAMBDA k, i : Link(k, path[i], path[i + 1], Trans(One, {})),
                 timed, [i \in 1 .. Len(path) - 1 |-> i])

LatticeOr(s, t) ==
    LET start == EarlierTime(s.time[s.initial], t.time[t.initial])
        end   == LaterTime(s.time[s.final], t.time[t.final])
        both  == InsertNode(Frame(<<1, 2, 0>>, start, end), 3, Null)
        joint == Link(Link(both, 1, 3, Trans(One, {})), 3, 0, Trans(One, {}))
    IN  ImplantLattice(ImplantLattice(joint, 2, s, 0), 3, t, 0)

\* Between the two a pause as long as interSegmentTime, if that is not 0.
LatticeCat(s, t, interSegmentTime) ==
    LET end1  == IF s.time[s.final] = NoTime THEN 0 ELSE s.time[s.final]
        end   == IF t.time[t.final] = NoTime THEN NoTime
                 ELSE t.time[t.final] + interSegmentTime + end1
        start == s.time[s.initial]
        pause == Frame(<<1, 2, 3, 4, 0>>, start, end)
        timed == [pause EXCEPT !.word[3] = Pause, !.time[3] = end1]
    IN  IF interSegmentTime # 0
        THEN ImplantLattice(ImplantLattice(timed, 2, s, 0), 4, t, end1 + interSegmentTime)
        ELSE ImplantLattice(ImplantLattice(Frame(<<1, 2, 3, 0>>, start, end), 2, s, end1), 3, t, end1)

\* A column of alternatives per position, each between two nodes without words.
\* columns: a sequence of functions from words, or Null for the deleted word, to weights.
CreateFromMesh(columns) ==
    LET Column(l, from, c) ==
            LET to == l.maxIndex
                words == SetToSeq(DOMAIN c)
            IN  FoldLeft(LAMBDA k, i :
                            LET n == k.maxIndex
                            IN  Link(Link(DupNode(k, words[i]), from, n, Trans(c[words[i]], {})),
                                     n, to, Trans(One, {})),
                         DupNode(l, Null), [i \in 1 .. Len(words) |-> i])
        built == FoldLeft(LAMBDA s, c : [l |-> Column(s.l, s.from, c), from |-> s.l.maxIndex],
                          [l |-> [DupNode(NoLattice, Null) EXCEPT !.initial = 0], from |-> 0], columns)
        words == UNION {DOMAIN columns[i] : i \in DOMAIN columns}
        start == IF SentStart \in words THEN built.l ELSE [built.l EXCEPT !.word[0] = SentStart]
    IN  [IF SentEnd \in words THEN start ELSE [start EXCEPT !.word[built.from] = SentEnd]
         EXCEPT !.final = built.from]

-----------------------------------------------------------------------------
(* LatticeReduce.cc: making a lattice smaller by merging nodes with the    *)
(* same word, those with the same neighbours (exact packing) or with       *)
(* enough of them in common (approximate reduction).                       *)

\* A node takes over the transitions into another, and those out of it.
Entered(l, i, j, maxAdd) ==
    FoldLeft(LAMBDA k, m : InsertTrans(k, m, i, l.in[j][m], maxAdd), l, Ascending(DOMAIN l.in[j]))
Exited(l, i, j, maxAdd) ==
    FoldLeft(LAMBDA k, m : InsertTrans(k, i, m, l.out[j][m], maxAdd), l, Ascending(DOMAIN l.out[j]))
MergeNodes(l, i, j, maxAdd) ==
    IF i = j THEN l ELSE RemoveNode(Exited(Entered(l, i, j, maxAdd), i, j, maxAdd), j)

\* The nodes linked to a node on one side.
Near(l, n, side) == IF side = "before" THEN DOMAIN l.in[n] ELSE DOMAIN l.out[n]
Other(side) == IF side = "before" THEN "after" ELSE "before"

\* Merges those of the nodes that have the same word and the same neighbours on one side,
\* the later into the earlier.
PackAll(l, candidates, side, maxAdd) ==
    FoldLeft(LAMBDA k, i :
                IF i \notin Nodes(k) THEN k
                ELSE FoldLeft(LAMBDA kk, j :
                                 IF j > i /\ j \in Nodes(kk) /\ l.word[i] = l.word[j] /\ Near(kk, i, side) = Near(kk, j, side)
                                 THEN MergeNodes(kk, i, j, maxAdd) ELSE kk,
                              k, Ascending(candidates)),
             l, Ascending(candidates))

PackNodeF(l, n, maxAdd) ==
    IF n \notin Nodes(l) THEN l ELSE PackAll(l, Near(l, n, "after"), "before", maxAdd)
PackNodeB(l, n, maxAdd) ==
    IF n \notin Nodes(l) THEN l ELSE PackAll(l, Near(l, n, "before"), "after", maxAdd)

PackedBack(l, maxAdd) == FoldLeft(LAMBDA k, n : PackNodeB(k, n, maxAdd), l, SortedBack(l))
PackedForth(l, maxAdd) == FoldLeft(LAMBDA k, n : PackNodeF(k, n, maxAdd), l, SortNodes(l))

\* With no number of iterations one pass backwards; otherwise there and back until nothing changes.
RECURSIVE Packing(_, _, _)
Packing(l, iters, maxAdd) ==
    LET Settled(k) == IF iters = 0 \/ Cardinality(Nodes(k)) = Cardinality(Nodes(l)) THEN k
                      ELSE Packing(k, iters - 1, maxAdd)
    IN  Settled(PackedForth(PackedBack(l, maxAdd), maxAdd))
SimplePackBigramLattice(l, iters, maxAdd) ==
    IF iters = 0 THEN PackedBack(l, maxAdd) ELSE Packing(l, iters - 1, maxAdd)

-----------------------------------------------------------------------------
\* Approximate reduction.  ratio is a fraction <<n, d>>; base says which of the nodes has to
\* be covered: 0 the one with fewer neighbours, 1 the one with more.
Overlap(m, n, base, ratio) ==
    LET size == IF (base = 0 /\ m < n) \/ (base = 1 /\ m > n) THEN m ELSE n
    IN  Max({(2 * size * ratio[1] + ratio[2]) \div (2 * ratio[2]), 1})

\* Goes through the neighbours of j until enough are shared or too many are not.
EnoughShared(mine, theirs, overlap) ==
    LET least == Min({Cardinality(mine), Cardinality(theirs)})
        walk  == FoldLeft(LAMBDA s, m : IF s.done THEN s
                                        ELSE IF m \in mine
                                        THEN [s EXCEPT !.need = @ - 1, !.done = s.need = 1]
                                        ELSE [s EXCEPT !.spare = @ - 1, !.done = s.spare = 0],
                          [need |-> overlap, spare |-> least - overlap, done |-> FALSE], Ascending(theirs))
    IN  overlap <= least /\ walk.spare >= 0

Matches(l, i, j, side, base, ratio) ==
    /\ l.word[i] = l.word[j]
    /\ LET mine == Near(l, i, side)
           theirs == Near(l, j, side)
       IN  EnoughShared(mine, theirs, Overlap(Cardinality(mine), Cardinality(theirs), base, ratio))

\* No loop of one transition comes of merging the two.
Apart(l, i, j) == j \notin DOMAIN l.in[i] /\ j \notin DOMAIN l.out[i]

\* Node list[i] takes in every later node of the list that matches; the list's last node fills
\* the place of one that is gone.
RECURSIVE Absorb(_, _, _, _, _, _)
Absorb(s, i, j, side, base, ratio) ==
    IF j > Len(s.list) THEN s
    ELSE LET a == s.list[i]
             b == s.list[j]
         IN  IF Apart(s.l, a, b) /\ Matches(s.l, a, b, side, base, ratio)
             THEN Absorb([s EXCEPT !.l = MergeNodes(@, a, b, FALSE), !.merged = TRUE,
                                   !.list = Front([s.list EXCEPT ![j] = Last(s.list)])],
                         i, j, side, base, ratio)
             ELSE Absorb(s, i, j + 1, side, base, ratio)

\* Neighbours of a node that took in another have to be looked at again.
ApproxRedNode(s, n, from, base, ratio) ==
    LET Looked(t, i) ==
            LET Taken(u) == IF u.merged THEN [u EXCEPT !.marked = @ \ Near(u.l, u.list[i], Other(from))] ELSE u
            IN  IF i >= Len(t.list) THEN t
                ELSE Taken(Absorb([t EXCEPT !.merged = FALSE], i, i + 1, Other(from), base, ratio))
        Over(list) == FoldLeft(Looked, [l |-> s.l, list |-> list, merged |-> FALSE, marked |-> s.marked],
                               [i \in 1 .. Len(list) |-> i])
        Done(t) == [l |-> t.l, marked |-> t.marked \cup {n},
                    queue |-> FoldLeft(LAMBDA q, m : IF q # <<>> /\ Last(q) = m THEN q ELSE Append(q, m),
                                       s.queue, Ascending(Near(t.l, n, from)))]
    IN  Done(Over(Ascending(Near(s.l, n, from))))

\* Width first from one end of the lattice to the other.
RECURSIVE ApproxPass(_, _, _, _, _)
ApproxPass(s, end, from, base, ratio) ==
    IF s.queue = <<>> THEN s.l
    ELSE LET n == Head(s.queue)
             rest == [s EXCEPT !.queue = Tail(@)]
         IN  IF n = end \/ n \notin Nodes(s.l) \/ n \in s.marked
             THEN ApproxPass(rest, end, from, base, ratio)
             ELSE ApproxPass(ApproxRedNode(rest, n, from, base, ratio), end, from, base, ratio)

Started(l, n) == [l |-> l, queue |-> <<n>>, marked |-> {}]
ApproxBack(l, base, ratio)  == ApproxPass(Started(l, l.final), l.initial, "before", base, ratio)
ApproxForth(l, base, ratio) == ApproxPass(Started(l, l.initial), l.final, "after", base, ratio)

RECURSIVE ApproxRedBigramLattice(_, _, _, _)
ApproxRedBigramLattice(l, iters, base, ratio) ==
    LET Settled(k) == IF iters = 1 \/ Cardinality(Nodes(k)) = Cardinality(Nodes(l)) THEN k
                      ELSE ApproxRedBigramLattice(k, iters - 1, base, ratio)
        Forth(back) == IF iters = 0 THEN back ELSE Settled(ApproxForth(back, base, ratio))
    IN  Forth(ApproxBack(l, base, ratio))

\* All nodes with the same word become one.
CollapseSameWordNodes(l, exceptions) ==
    FoldLeft(LAMBDA k, n :
                LET same == {m \in Nodes(k) : m < n /\ k.word[m] = l.word[n]}
                IN  IF Ignored(l.word[n]) \/ l.word[n] \in exceptions \/ same = {} THEN k
                    ELSE MergeNodes(k, Min(same), n, FALSE),
             l, Ascending(Nodes(l)))

-----------------------------------------------------------------------------
(***************************************************************************)
(* lattice/src/LatticeExpand.cc: giving every path of a lattice its weight *)
(* from a language model.  Nodes are duplicated until each has one history *)
(* as far as the model looks back.  There is an older algorithm for        *)
(* trigrams, on lattices without empty and pause nodes, one for any model, *)
(* and a compact variant of both that shares nodes where the model backs   *)
(* off.                                                                    *)
(***************************************************************************)

\* The old algorithm shares the duplicates of a node.  packs: for each word before the node, the
\* duplicate it uses, where it leads and with what weight; last: the word whose entry was made last.
NoPacks == [mids |-> [w \in {} |-> [mid |-> NoNode, to |-> NoNode, w |-> One]], last |-> <<>>]

\* The last duplicate serves another word as well if it leads the same way with the same weight.
Shared(packs, p) ==
    /\ p.fromWord \notin DOMAIN packs.mids /\ packs.last # <<>>
    /\ LET q == packs.mids[packs.last[1]] IN q.to = p.to /\ q.w = p.out.w

\* p: nodes from and to, fromWord, the word of the duplicate, transitions in and out of it.  Between
\* the nodes of a loop no second transition out is made.
PackNodes(s, p, loop) ==
    LET packs == IF ~ Shared(s.packs, p) THEN s.packs
                 ELSE [mids |-> Put(s.packs.mids, p.fromWord,
                                    [mid |-> s.packs.mids[s.packs.last[1]].mid, to |-> p.to, w |-> p.out.w]),
                       last |-> <<p.fromWord>>]
        new == s.l.maxIndex
        mid == packs.mids[p.fromWord].mid
        entered == Link(s.l, p.from, mid, p.in)
    IN  IF p.fromWord \in DOMAIN packs.mids
        THEN [l |-> IF loop \/ p.to \in DOMAIN entered.out[mid] THEN entered
                    ELSE Link(entered, mid, p.to, p.out),
              packs |-> packs]
        ELSE [l |-> Link(Link(DupNode(s.l, p.word), p.from, new, p.in), new, p.to, p.out),
              packs |-> [mids |-> Put(packs.mids, p.fromWord, [mid |-> new, to |-> p.to, w |-> p.out.w]),
                         last |-> <<p.fromWord>>]]

\* A history ends at the first word that is none.
Context(w, v) == IF v = Null THEN <<w>> ELSE <<w, v>>

\* A loop on a word: a first copy of the node leads to another one with the loop, post, which is made
\* when the first of the node's successors needs it.  f: the flags on the way in and out, and those of the
\* transition between the two, which are never set.
ExpandSelfLoop(st, n, from, to, f) ==
    LET a == st.l.word[n]
        c == st.l.word[to]
        deep == ContextLength(Null, <<a, a>>) > 1
        tri == WordProb(c, <<a, a>>)
        bi == WordProb(c, <<a>>)
        new == st.post = NoNode
        post == IF new THEN st.l.maxIndex ELSE st.post
        looped == IF new THEN Link(DupNode(st.l, a), post, post, Trans(WordProb(a, <<a, a>>), st.l.out[n][n].flags))
                  ELSE st.l
        joined == IF post \in DOMAIN looped.in[to] THEN looped
                  ELSE Link(looped, post, to, Trans(IF deep THEN tri ELSE bi, f.out))
        fw == st.l.word[from]
        packed == PackNodes([l |-> joined, packs |-> st.loops],
                            [from |-> from, fromWord |-> fw, to |-> post, word |-> a,
                             in |-> Trans(WordProb(a, Context(fw, Null)), f.in),
                             out |-> Trans(WordProb(a, Context(a, fw)) * (IF deep THEN 1 ELSE tri \div bi), f.stray)],
                            TRUE)
    IN  [st EXCEPT !.l = packed.l, !.loops = packed.packs, !.post = post]

Expanding(l) == [l |-> l, packs |-> NoPacks, loops |-> NoPacks, post |-> NoNode, ok |-> TRUE,
                 bow |-> FALSE, inBOW |-> FALSE, left |-> 0]
Flags(l, n, from, to, stray) == [in |-> l.in[n][from].flags, out |-> l.out[n][to].flags, stray |-> stray]
HasLoop(l, n) == n \in DOMAIN l.in[n]

\* The node's transition in, with the weight it has before it is expanded.
InTrans(l, n, from) ==
    IF from = l.initial THEN Trans(WordProb(l.word[n], Context(l.word[from], Null)), l.in[n][from].flags)
    ELSE l.in[n][from]

\* A duplicate for the words before and after; gives up when there are too many nodes.
Tripled(st, n, from, to, w, maxNodes) ==
    LET packed == PackNodes([l |-> st.l, packs |-> st.packs],
                            [from |-> from, fromWord |-> st.l.word[from], to |-> to, word |-> st.l.word[n],
                             in |-> InTrans(st.l, n, from), out |-> Trans(w, st.l.out[n][to].flags)], FALSE)
    IN  [st EXCEPT !.l = packed.l, !.packs = packed.packs,
                   !.ok = maxNodes = 0 \/ Cardinality(Nodes(packed.l)) <= maxNodes]

LoopedToo(st, l, n, from, to, stray) ==
    IF st.ok /\ HasLoop(l, n) THEN ExpandSelfLoop(st, n, from, to, Flags(l, n, from, to, stray)) ELSE st

ExpandNodeToTrigram(l, n, maxNodes, stray) ==
    LET a == l.word[n]
        Tri(st, from, to) ==
            IF ~ st.ok THEN st
            ELSE LoopedToo(Tripled(st, n, from, to, WordProb(l.word[to], Context(a, l.word[from])), maxNodes),
                           l, n, from, to, stray)
        done == FoldLeft(LAMBDA s, from : FoldLeft(LAMBDA t, to : Tri(t, from, to),
                                                   s, Ascending(DOMAIN l.out[n] \ {n})),
                         Expanding(l), Ascending(DOMAIN l.in[n] \ {n}))
        Result(st) == [l |-> IF st.ok THEN RemoveNode(RemoveTrans(st.l, n, n), n) ELSE st.l, ok |-> st.ok]
    IN  Result(done)

Expandable(l) == SelectSeq(SortNodes(l), LAMBDA n : n \notin {l.initial, l.final})

ExpandToTrigram(l, maxNodes, stray) ==
    FoldLeft(LAMBDA r, n : IF r.ok THEN ExpandNodeToTrigram(r.l, n, maxNodes, stray) ELSE r,
             [l |-> l, ok |-> TRUE], Expandable(l))

-----------------------------------------------------------------------------
\* The compact variant duplicates for explicit trigrams only; the node itself stays for the others,
\* and the weights of backing off go on the transitions into it.
Reserved(l, n, to) == [l EXCEPT !.out[n][to].flags = @ \cup {"reserved"}]

\* What becomes of one pair of neighbours.
ExpandPair(st, n, from, to, maxNodes, stray) ==
    LET l == st.l
        g == <<l.word[to]>> \o Context(l.word[n], l.word[from])
        unused == st.left = 1 /\ "reserved" \notin l.out[n][to].flags
        Unlinked(t) == IF unused THEN [t EXCEPT !.l = RemoveTrans(@, n, to)] ELSE t
    IN  IF ~ st.ok \/ to \notin DOMAIN l.out[n] THEN st
        ELSE LoopedToo(IF g \notin DOMAIN Model.prob THEN [st EXCEPT !.l = Reserved(l, n, to), !.bow = TRUE]
                       ELSE Unlinked(Tripled(st, n, from, to, Model.prob[g], maxNodes)),
                       l, n, from, to, stray)

\* Only the copy of the weight that is with the node is changed for transitions from the initial node.
Weighed(l, n, from) == [l EXCEPT !.in[n][from] = InTrans(l, n, from)]

\* The transition is taken to give up the context, if that is ever needed.
BackedOff(st, n, from, w) ==
    IF ~ st.ok THEN st
    ELSE IF st.bow THEN [st EXCEPT !.l = SetWeightTrans(@, from, n, w), !.inBOW = TRUE, !.left = @ - 1]
    ELSE [st EXCEPT !.l = RemoveTrans(@, from, n), !.left = @ - 1]

ExpandFrom(st, n, from, maxNodes, stray) ==
    LET weighed == [st EXCEPT !.l = Weighed(@, n, from), !.bow = FALSE]
        in == weighed.l.in[n][from].w
        done == FoldLeft(LAMBDA s, to : ExpandPair(s, n, from, to, maxNodes, stray),
                         weighed, Ascending(DOMAIN st.l.out[n] \ {n}))
        c == Context(st.l.word[n], st.l.word[from])
        bow == IF c \in DOMAIN Model.bow THEN Model.bow[c] ELSE One
    IN  BackedOff(done, n, from, in * bow)

ExpandNodeToCompactTrigram(l, n, maxNodes, stray) ==
    LET done == FoldLeft(LAMBDA st, from : IF st.ok THEN ExpandFrom(st, n, from, maxNodes, stray) ELSE st,
                         [Expanding(l) EXCEPT !.left = Cardinality(DOMAIN l.in[n])],
                         Ascending(DOMAIN l.in[n] \ {n}))
        Backed(k) == FoldLeft(LAMBDA m, to : SetWeightTrans(m, n, to, WordProb(l.word[to], <<l.word[n]>>)),
                              k, Ascending(DOMAIN k.out[n]))
        Finished(st) == IF ~ st.ok THEN st.l
                        ELSE IF st.inBOW THEN Backed(RemoveTrans(st.l, n, n)) ELSE RemoveNode(st.l, n)
        Result(st) == [l |-> Finished(st), ok |-> st.ok]
    IN  Result(done)

ExpandToCompactTrigram(l, maxNodes, stray) ==
    FoldLeft(LAMBDA r, n : IF r.ok THEN ExpandNodeToCompactTrigram(r.l, n, maxNodes, stray) ELSE r,
             [l |-> l, ok |-> TRUE], Expandable(l))

-----------------------------------------------------------------------------
\* The nodes that follow a node once empty and pause nodes are passed over, with the weight of the
\* way; a node is returned to when a better way is found.  s.seen: the best weights so far.
RECURSIVE Follow(_, _, _, _)
Follow(l, n, weight, s) ==
    FoldLeft(LAMBDA r, m :
                LET w == weight * l.out[n][m].w
                    seen == [r EXCEPT !.seen = Put(@, m, w)]
                IN  IF m \in DOMAIN r.seen /\ r.seen[m] >= w THEN r
                    ELSE IF Ignored(l.word[m]) THEN Follow(l, m, w, seen)
                    ELSE [seen EXCEPT !.found = Append(@, <<m, w>>)],
             s, Ascending(DOMAIN l.out[n]))
Followers(l, n) ==
    LET found == Follow(l, n, One, [seen |-> [m \in {} |-> 0], found |-> <<>>]).found
    IN  [i \in DOMAIN found |-> found[i][1]]

NonEvent(w) == w = SentStart

\* The word is predicted from the context of the node before it, and is the next context's nearest word.
Predicted(w, c) == IF Ignored(w) \/ NonEvent(w) THEN One ELSE WordProb(w, c)
Extended(w, c) == IF Ignored(w) THEN c ELSE <<w>> \o c

\* st: the lattice, and for every old node its copies by context.  t: the copy a transition leaves from
\* and the old transition's end and flags.
NoCopies == [c \in {} |-> NoNode]
CopiesOf(st, n) == IF n \in DOMAIN st.copies THEN st.copies[n] ELSE NoCopies

\* Mutant: the weight of giving up the context's end is left out.
ExpandAddTransition_NoBOW(st, t, context, length, prob, opts) ==
    LET c == SubSeq(context, 1, length)
        known == c \in DOMAIN CopiesOf(st, t.to)
        new == IF known THEN st.copies[t.to][c] ELSE st.l.maxIndex
        l == IF known THEN st.l ELSE InsertTimedNode(st.l, new, st.l.word[t.to], st.l.time[t.to])
        copied == [st EXCEPT !.l = l, !.copies = Put(@, t.to, Put(CopiesOf(st, t.to), c, new))]
    IN  IF ~ st.ok THEN st
        ELSE IF ~ known /\ opts.maxNodes > 0 /\ Cardinality(Nodes(l)) > opts.maxNodes
        THEN [copied EXCEPT !.ok = FALSE]
        ELSE [copied EXCEPT !.l = Link(@, t.from, new, Trans(prob, t.flags))]

ExpandAddTransition(st, t, context, length, prob, opts) ==
    LET c == SubSeq(context, 1, length)
        known == c \in DOMAIN CopiesOf(st, t.to)
        new == IF known THEN st.copies[t.to][c] ELSE st.l.maxIndex
        l == IF known THEN st.l ELSE InsertTimedNode(st.l, new, st.l.word[t.to], st.l.time[t.to])
        copied == [st EXCEPT !.l = l, !.copies = Put(@, t.to, Put(CopiesOf(st, t.to), c, new))]
        ended == context # <<>> /\ context[1] = SentEnd
        bow == IF opts.noBOW \/ ended THEN One ELSE ContextBOW(context, length)
    IN  IF ~ st.ok THEN st
        ELSE IF ~ known /\ opts.maxNodes > 0 /\ Cardinality(Nodes(l)) > opts.maxNodes
        THEN [copied EXCEPT !.ok = FALSE]
        ELSE [copied EXCEPT !.l = Link(@, t.from, new, Trans(prob * bow, t.flags))]

\* The longest context that one of the words after the node is predicted from; an ignored word
\* stands for any.
Wanted(l, n) ==
    {IF Ignored(l.word[m]) THEN Null ELSE l.word[m] : m \in Range(Followers(l, n))}

ExpandToLMFrom(st, n, c, opts) ==
    FoldLeft(LAMBDA s, m :
                LET w == st.l.word[m]
                    context == Extended(w, c)
                    length == Max({0} \cup {ContextLength(v, context) : v \in Wanted(s.l, m)})
                IN  ExpandAddTransition(s, [from |-> st.copies[n][c], to |-> m, flags |-> st.l.out[n][m].flags],
                                        context, length, Predicted(w, c), opts),
             st, Ascending(DOMAIN st.l.out[n]))

\* The compact variant makes a copy for each context length in use, but follows a transition only
\* from the copy that has the length this word is predicted from.
Used(st, n, m, c) ==
    LET length == ContextLength(st.l.word[m], c)
    IN  IF length = 0 /\ ~ Ignored(st.l.word[n]) THEN 1 ELSE length
Leads(st, n, m, c) ==
    \/ Ignored(st.l.word[m])
    \/ c # <<>> /\ c[1] = SentStart
    \/ Used(st, n, m, c) = Len(c)

\* In the order of the nodes that follow, no length twice in a row.
Lengths(st, m, context) ==
    LET next == Followers(st.l, m)
        Length(v) == IF Ignored(v) THEN 0 ELSE ContextLength(v, context)
        AtLeast(k) == IF k = 0 /\ ~ Ignored(st.l.word[m]) THEN 1 ELSE k
        all == [i \in DOMAIN next |-> AtLeast(Length(st.l.word[next[i]]))]
    IN  FoldLeft(LAMBDA q, k : IF q # <<>> /\ Last(q) = k THEN q ELSE Append(q, k), <<>>, all)
        \o IF m = st.l.final THEN <<0>> ELSE <<>>

ExpandToCompactLMFrom(st, n, c, opts) ==
    FoldLeft(LAMBDA s, m :
                LET w == st.l.word[m]
                    t == [from |-> st.copies[n][c], to |-> m, flags |-> st.l.out[n][m].flags]
                IN  IF ~ Leads(st, n, m, c) THEN s
                    ELSE FoldLeft(LAMBDA r, k : ExpandAddTransition(r, t, Extended(w, c), k, Predicted(w, c), opts),
                                  s, Lengths(s, m, Extended(w, c))),
             st, Ascending(DOMAIN st.l.out[n]))

\* All copies of a node, and then the old node goes.
ExpandNodeToLM(st, n, opts) ==
    LET done == FoldLeft(LAMBDA s, c : IF opts.compact THEN ExpandToCompactLMFrom(s, n, c, opts)
                                       ELSE ExpandToLMFrom(s, n, c, opts),
                         st, SetToSeq(DOMAIN CopiesOf(st, n)))
        Left(s) == IF ~ s.ok THEN s
                   ELSE [s EXCEPT !.l = RemoveNode(@, n), !.copies = [m \in DOMAIN @ \ {n} |-> @[m]]]
    IN  Left(done)

ExpandToLM(l, opts) ==
    LET first == l.maxIndex
        Copy(k, n) == InsertTimedNode(k, k.maxIndex, l.word[n], l.time[n])
        start == [l |-> Copy(Copy(l, l.initial), l.final), ok |-> TRUE,
                  copies |-> [n \in {l.initial, l.final} |->
                                IF n = l.initial THEN [c \in {<<SentStart>>} |-> first]
                                ELSE [c \in {<<>>} |-> first + 1]]]
        done == FoldLeft(LAMBDA st, n : IF ~ st.ok THEN st
                                        ELSE IF n = l.final THEN [st EXCEPT !.l = RemoveNode(@, n)]
                                        ELSE ExpandNodeToLM(st, n, opts),
                         start, SortNodes(l))
        Result(st) == [ok |-> st.ok, l |-> IF st.ok THEN [st.l EXCEPT !.initial = first, !.final = first + 1] ELSE st.l]
    IN  Result(done)
=============================================================================
