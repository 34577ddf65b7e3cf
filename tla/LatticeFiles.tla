---------------------------- MODULE LatticeFiles ----------------------------
(***************************************************************************)
(* lattice/src/Lattice.cc, HTKLattice.cc: reading and writing lattices.    *)
(*                                                                         *)
(* As probabilistic finite-state grammars (pfsg-format): a file is a       *)
(* sequence of definitions; a node of one may carry the name of another,   *)
(* which is put in its place.                                              *)
(*                                                                         *)
(* In the HTK standard lattice format: words and scores are on links, or   *)
(* on the nodes where links end or start.  A link becomes a node of the    *)
(* lattice, between nodes without words for those of the file.             *)
(***************************************************************************)
EXTENDS Lattice, TLC

\* A definition: the labels of its nodes from 0 on, initial and final node, transitions.
Definition(name, labels, initial, final, links) ==
    [name |-> name, labels |-> labels, initial |-> initial, final |-> final, links |-> links]

Result(ok, l) == [ok |-> ok, l |-> l]

\* readPFSG(): the lattice so far is removed; a mistake in the file leaves what was read before it.
\* Only the first definition an object ever reads gets sentence tags on its ends ("top").
ReadPFSG(d, top) ==
    LET N == Len(d.labels)
        nodes == FoldLeft(LAMBDA k, i : InsertNode(k, i - 1, d.labels[i]), NoLattice, [i \in 1 .. N |-> i])
        ends == [nodes EXCEPT !.initial = d.initial, !.final = d.final]
        tagged == IF top THEN [ends EXCEPT !.word[d.initial] = SentStart, !.word[d.final] = SentEnd] ELSE ends
        bad == {i \in DOMAIN d.links : {d.links[i][1], d.links[i][2]} \cap (0 .. N - 1)
                                        # {d.links[i][1], d.links[i][2]}}
        good == IF bad = {} THEN d.links ELSE SubSeq(d.links, 1, Min(bad) - 1)
        linked == FoldLeft(LAMBDA k, t :
                              LET new == Trans(t[3], {})
                              IN  [k EXCEPT !.out[t[1]] = Put(@, t[2], new), !.in[t[2]] = Put(@, t[1], new)],
                           tagged, good)
    IN  IF d.initial \notin 0 .. N - 1 THEN Result(FALSE, nodes)
        ELSE IF d.final \notin 0 .. N - 1 THEN Result(FALSE, [nodes EXCEPT !.initial = d.initial])
        ELSE Result(bad = {}, linked)

\* The copies of a definition, one for each node that has its name, after the nodes there are.
CopyBase(l, d, k) == l.maxIndex + k * Len(d.labels)
CopiedNodes(l, d, copies) ==
    FoldLeft(LAMBDA k, i : FoldLeft(LAMBDA kk, c : InsertNode(kk, CopyBase(l, d, c - 1) + i - 1, d.labels[i]),
                                    k, [c \in 1 .. copies |-> c]),
             l, [i \in DOMAIN d.labels |-> i])
Copies(l, d, copies) ==
    FoldLeft(LAMBDA k, t : FoldLeft(LAMBDA kk, c : LET base == CopyBase(l, d, c - 1)
                                                   IN  Link(kk, base + t[1], base + t[2], Trans(t[3], {})),
                                    k, [c \in 1 .. copies |-> c]),
             CopiedNodes(l, d, copies), d.links)

\* Puts the copy whose ends are given in the place of a node.
Substitute(l, n, first, last) ==
    LET entered == FoldLeft(LAMBDA k, m : [k EXCEPT !.in[first] = Put(@, m, l.in[n][m]),
                                                    !.out[m] = Put(@, first, l.in[n][m])],
                            l, Ascending(DOMAIN l.in[n]))
        left == FoldLeft(LAMBDA k, m : [k EXCEPT !.out[last] = Put(@, m, entered.out[n][m]),
                                                 !.in[m] = Put(@, last, entered.out[n][m])],
                         entered, Ascending(DOMAIN entered.out[n]))
    IN  RemoveNode(left, n)

\* One more definition of readPFSGs().  That a node it names is undefined is noticed by looking
\* for it in the last copy; with no copies, that is wherever the unsigned difference points.
Include(r, d) ==
    LET l == r.l
        N == Len(d.labels)
        named == {n \in Nodes(l) : l.word[n] = d.name}
        copies == Cardinality(named)
        copied == CopiedNodes(l, d, copies)
        LastCopy(n) == CopyBase(l, d, copies - 1) + n
        done == FoldLeft(LAMBDA s, n :
                            [l |-> Substitute(s.l, n, s.base + d.initial, s.base + d.final), base |-> s.base + N],
                         [l |-> Copies(l, d, copies), base |-> l.maxIndex], Ascending(named))
    IN  IF {LastCopy(d.initial), LastCopy(d.final)} \cap Nodes(copied) # {LastCopy(d.initial), LastCopy(d.final)}
        THEN Result(FALSE, [copied EXCEPT !.maxIndex = l.maxIndex])
        ELSE Result(TRUE, [done.l EXCEPT !.maxIndex = l.maxIndex + copies * N])

ReadPFSGs(file, top) ==
    FoldLeft(LAMBDA r, d : IF r.ok THEN Include(r, d) ELSE r, ReadPFSG(file[1], top), Tail(file))

-----------------------------------------------------------------------------
\* The lines of the transitions, for nodes renamed by Id.
Links(l, Id) ==
    FoldLeft(LAMBDA s, a :
                s \o LET to == Ascending(DOMAIN l.out[a])
                     IN  [i \in DOMAIN to |-> <<Id[a], Id[to[i]], l.out[a][to[i]].w>>],
             <<>>, Ascending(Nodes(l)))

Label(l, n, printSentTags) ==
    IF n \notin Nodes(l) \/ (~ printSentTags /\ n \in {l.initial, l.final}) THEN Null ELSE l.word[n]

\* Every index has a label, those of removed nodes the empty one.
WritePFSG(l, name, printSentTags) ==
    Definition(name, [i \in 1 .. l.maxIndex |-> Label(l, i - 1, printSentTags)],
               l.initial, l.final, Links(l, [n \in Nodes(l) |-> n]))

\* Only the nodes there are, renumbered.
WriteCompactPFSG(l, name, printSentTags) ==
    LET nodes == Ascending(Nodes(l))
        Id == [n \in Nodes(l) |-> CHOOSE i \in 0 .. Len(nodes) - 1 : nodes[i + 1] = n]
    IN  Definition(name, [i \in DOMAIN nodes |-> Label(l, nodes[i], printSentTags)],
                   Id[l.initial], Id[l.final], Links(l, Id))

-----------------------------------------------------------------------------
(* The HTK format. *)

\* Scores of a word and what else is kept with it.  xscore1 stands for nine of its kind, var
\* for what is copied as it is.  The time is on nodes only.
ScoreFields == {"acoustic", "ngram", "language", "pron", "duration", "xscore1"}
LinkFields  == ScoreFields \cup {"word", "var", "div"}
NodeFields  == (LinkFields \ {"ngram", "language"}) \cup {"time"}
NoInfo      == [f \in {} |-> 0]

Undefined == -1
HTKWord   == "***HTK_Node***"
NullWord  == "!NULL"

\* A score as a number with its logarithm's base, 0 for one that is no logarithm.  Read in
\* another base it is another score.
Number(base, score) == [base |-> base, score |-> score]
GetHTKScore(v, base) ==
    IF v.base = base \/ v.score = 0 \/ (v.score = 1 /\ v.base > 0 /\ base > 0) THEN v.score
    ELSE IF v.score = 1 THEN 0 ELSE v.score + 1

NaturalBase == 1 \* stands for e

\* HTKHeader, as it is before anything is read.
DefaultHeader ==
    [logbase |-> 10, wdpenalty |-> One, wordsOnNodes |-> FALSE, scoresOnNodes |-> FALSE,
     scale |-> [f \in ScoreFields |-> IF f \in {"duration", "xscore1"} THEN 0 ELSE 1]]

\* What the user gives instead of what the file says: scales, the penalty and the base to write in.
SetHTKHeader(h, given) ==
    LET base == IF "logbase" \in DOMAIN given.fields THEN given.fields["logbase"] ELSE h.logbase
    IN  [h EXCEPT !.logbase = base,
                  !.wdpenalty = IF "wdpenalty" \in DOMAIN given.fields
                                THEN GetHTKScore(given.fields["wdpenalty"], base) ELSE @,
                  !.scale = [f \in ScoreFields |-> IF f \in DOMAIN given.fields THEN given.fields[f] ELSE @[f]],
                  !.wordsOnNodes = given.wordsOnNodes, !.scoresOnNodes = given.scoresOnNodes]

\* Lines of a file.
Header(field, value) == [key |-> "header", field |-> field, value |-> value]
Node(n, info)        == [key |-> "I", node |-> n, info |-> info]
HTKLink(from, to, info) == [key |-> "J", from |-> from, to |-> to, info |-> info]

\* The fields of a line; sentence tags are no words.
FileInfo(info, base) ==
    [f \in DOMAIN info |-> IF f \in ScoreFields THEN GetHTKScore(info[f], base)
                           ELSE IF f = "word" /\ info[f] \in {NullWord, SentStart, SentEnd} THEN Null
                           ELSE info[f]]

WordOf(info) == IF "word" \in DOMAIN info THEN info["word"] ELSE Null
TimeOf(info) == IF "time" \in DOMAIN info THEN info["time"] ELSE NoTime
Untimed(info) == [f \in DOMAIN info \ {"time"} |-> info[f]]
NodeInfo(s, n) == IF n \in DOMAIN s.nodeInfo THEN s.nodeInfo[n] ELSE NoInfo

\* Mutant: the word is all that is taken from the node.
Filled_WordOnly(link, node) ==
    [f \in DOMAIN link \cup {"word"} |-> IF f = "word" /\ WordOf(link) = Null THEN WordOf(node) ELSE link[f]]

\* What a link does not say is taken from the node it ends in, or starts from.
Filled(link, node) ==
    [f \in DOMAIN link \cup DOMAIN node \cup {"word"} |->
        IF f = "word" THEN IF WordOf(link) # Null THEN WordOf(link) ELSE WordOf(node)
        ELSE IF f \in DOMAIN link THEN link[f] ELSE node[f]]

Power(x, n) == FoldLeft(LAMBDA y, i : y * x, One, [i \in 1 .. n |-> i])
HTKWeight(h, info) ==
    FoldSet(LAMBDA f, w : w * Power(info[f], h.scale[f]),
            IF Ignored(WordOf(info)) THEN One ELSE h.wdpenalty,
            {f \in DOMAIN info \cap ScoreFields : h.scale[f] # 0})

\* The lattice node for a node of the file, a new one if the file has not named it yet.
EndNode(s, n) ==
    IF n \in DOMAIN s.nodeMap \cup {Undefined} THEN s
    ELSE [s EXCEPT !.l = DupNode(@, Null), !.nodeMap = Put(@, n, s.l.maxIndex)]

LinkedHTK(s, line, new, info, time) ==
    [s EXCEPT !.l = Link(Link(InsertTimedNode(@, new, WordOf(info), time), s.nodeMap[line.from], new, Trans(HTKWeight(s.header, info), {})),
                         new, s.nodeMap[line.to], Trans(One, {})),
              !.info = Put(@, new, info)]
ReadLink(s, line) ==
    LET node == CASE s.dir = "f" -> NodeInfo(s, line.to) [] s.dir = "b" -> NodeInfo(s, line.from) [] OTHER -> NoInfo
        Ended(ends) == IF ~ DOMAIN line.info \subseteq LinkFields \/ Undefined \in {line.from, line.to} THEN [ends EXCEPT !.ok = FALSE]
                       ELSE LinkedHTK(ends, line, ends.l.maxIndex, Filled(FileInfo(line.info, s.base), Untimed(node)), TimeOf(node))
    IN  Ended(EndNode(EndNode(s, line.from), line.to))

\* Every line of a node makes a new one.
ReadNode(s, line, dummy) ==
    LET read == FileInfo(line.info, s.base)
        old  == NodeInfo(s, line.node)
        info == [f \in DOMAIN read \cup DOMAIN old |-> IF f \in DOMAIN read THEN read[f] ELSE old[f]]
        new  == s.l.maxIndex
    IN  IF ~ DOMAIN line.info \subseteq NodeFields THEN [s EXCEPT !.l = DupNode(@, dummy), !.ok = FALSE]
        ELSE [s EXCEPT !.l = InsertTimedNode(@, new, dummy, TimeOf(info)),
                       !.info = IF "time" \in DOMAIN info THEN Put(@, new, NoInfo) ELSE @,
                       !.nodeMap = Put(@, line.node, new), !.nodeInfo = Put(@, line.node, info)]

\* A penalty that came before the base is read again.
ReadHeader(s, line, given) ==
    LET free == line.field \notin DOMAIN given.fields
        Penalty(v, base) == IF free /\ "wdpenalty" \notin DOMAIN given.fields THEN GetHTKScore(v, base) ELSE s.header.wdpenalty
    IN  CASE line.field = "base" ->
                [s EXCEPT !.base = line.value,
                          !.header.wdpenalty = IF s.penalty = <<>> THEN @ ELSE Penalty(s.penalty[1], line.value)]
          [] line.field = "wdpenalty" ->
                [s EXCEPT !.header.wdpenalty = Penalty(line.value, s.base), !.penalty = IF free THEN <<line.value>> ELSE @]
          [] line.field \in ScoreFields -> IF free THEN [s EXCEPT !.header.scale[line.field] = line.value] ELSE s
          [] line.field = "dir" -> [s EXCEPT !.dir = line.value]
          [] line.field = "start" -> [s EXCEPT !.initial = line.value]
          [] line.field = "end" -> [s EXCEPT !.final = line.value]
          [] line.field = "nodes" -> [s EXCEPT !.nodes = line.value]
          [] OTHER -> s

ReadLine(s, line, given, dummy) ==
    CASE ~ s.ok -> s
      [] s.ok /\ line.key = "J" -> ReadLink(s, line)
      [] s.ok /\ line.key = "I" -> ReadNode(s, line, dummy)
      [] OTHER -> ReadHeader(s, line, given)

\* The node the file names as an end, or one that no transition enters (leaves), in a file that
\* has its nodes before its links.
HTKEnd(s, named, open) ==
    IF named = Undefined THEN IF open = {} THEN NoNode ELSE Min(open)
    ELSE IF named \in DOMAIN s.nodeMap THEN s.nodeMap[named] ELSE NoNode

\* The end gets its sentence tag and all that is known of the node of the file.
NodeOf(s, n) == NodeInfo(s, CHOOSE k \in DOMAIN s.nodeMap : s.nodeMap[k] = n)
TagEnd(s, n, tag, node) ==
    [s EXCEPT !.l.word[n] = tag, !.l.time[n] = TimeOf(node), !.info = Put(@, n, Untimed(node))]
InitialSet(s, n) ==
    IF n = NoNode THEN [s EXCEPT !.ok = FALSE] ELSE TagEnd([s EXCEPT !.l.initial = n], n, SentStart, NodeOf(s, n))
FinalSet(s, n) ==
    IF n = NoNode THEN [s EXCEPT !.ok = FALSE] ELSE TagEnd([s EXCEPT !.l.final = n], n, SentEnd, NodeOf(s, n))

Open(ts) == {n \in DOMAIN ts : DOMAIN ts[n] = {}}
InitialFound(s) ==
    IF ~ s.ok \/ s.nodes = 0 THEN [s EXCEPT !.ok = FALSE] ELSE InitialSet(s, HTKEnd(s, s.initial, Open(s.l.in)))
FinalFound(s) == IF ~ s.ok THEN s ELSE FinalSet(s, HTKEnd(s, s.final, Open(s.l.out)))

HTKResult(ok, l, header, info) == [ok |-> ok, l |-> l, header |-> header, info |-> [n \in DOMAIN info \cap Nodes(l) |-> info[n]]]
Cleared(s, useNullNodes) ==
    HTKResult(s.ok, IF s.ok /\ ~ useNullNodes THEN RemoveAllXNodes(s.l, HTKWord) ELSE s.l, s.header, s.info)

\* readHTK() into a lattice with header h.
ReadLines(start, file, given, dummy) == FoldLeft(LAMBDA s, line : ReadLine(s, line, given, dummy), start, file)
ReadHTK(h, file, given, useNullNodes) ==
    LET start == [l |-> NoLattice, info |-> [n \in {} |-> NoInfo], nodeMap |-> [n \in {} |-> 0], nodeInfo |-> [n \in {} |-> NoInfo],
                  header |-> SetHTKHeader(h, given), base |-> NaturalBase, dir |-> "f", penalty |-> <<>>,
                  initial |-> Undefined, final |-> Undefined, nodes |-> 0, ok |-> TRUE]
    IN  Cleared(FinalFound(InitialFound(ReadLines(start, file, given, IF useNullNodes THEN Null ELSE HTKWord))), useNullNodes)

\* allowAsTrans(): a node between two others without words (or an end) is no more than a link,
\* unless the one after it is one already.
RECURSIVE AllowAsTrans(_, _)
AllowAsTrans(l, n) ==
    LET Silent(m, end) == l.word[m] = Null \/ m = end
    IN  /\ Cardinality(DOMAIN l.in[n]) = 1 /\ Cardinality(DOMAIN l.out[n]) = 1
        /\ \A m \in DOMAIN l.out[n] : Silent(m, l.final) /\ ~ AllowAsTrans(l, m)
        /\ \A m \in DOMAIN l.in[n] : Silent(m, l.initial)

InfoAt(info, n) == IF n \in DOMAIN info THEN info[n] ELSE NoInfo

\* What is written of a word: its scores but the one that the transition's weight is mapped to.
Written(h, info, fields, mapping) ==
    [f \in (DOMAIN info \cap fields) \ {mapping} |-> IF f \in ScoreFields THEN Number(h.logbase, info[f]) ELSE info[f]]
OnNodes(h) == (IF h.wordsOnNodes THEN {"var", "div"} ELSE {}) \cup (IF h.scoresOnNodes THEN ScoreFields \ {"ngram", "language"} ELSE {})

\* Of an end that is not to be printed, or a node without a word, the empty word.
WordField(l, n, printSentTags) ==
    [f \in {"word"} |-> IF l.word[n] = Null \/ (~ printSentTags /\ l.word[n] \in {SentStart, SentEnd}) THEN NullWord ELSE l.word[n]]
TimeField(l, n) == [f \in (IF l.time[n] = NoTime THEN {} ELSE {"time"}) |-> l.time[n]]

\* Mutant: of a node that is written as a link, the weight before it is lost.
MappedWeight_Out(l, n, m, asTrans) == IF m \in asTrans THEN l.out[m][Min(DOMAIN l.out[m])].w ELSE l.out[n][m].w

\* The weight of the link into a node, with the one out of it if the node is written as a link.
MappedWeight(l, n, m, asTrans) ==
    l.out[n][m].w * IF m \in asTrans THEN l.out[m][Min(DOMAIN l.out[m])].w ELSE One

HeaderLines(h) ==
    <<Header("base", h.logbase), Header("dir", "f")>>
    \o SetToSeq({Header(f, h.scale[f]) : f \in {g \in ScoreFields : h.scale[g] # DefaultHeader.scale[g]}})
    \o (IF h.wdpenalty # One THEN <<Header("wdpenalty", Number(h.logbase, h.wdpenalty))>> ELSE <<>>)

NodeLine(l, n, id, info, h, mapping, printSentTags) ==
    Node(id, (IF h.wordsOnNodes THEN WordField(l, n, printSentTags) ELSE NoInfo)
             @@ TimeField(l, n) @@ Written(h, InfoAt(info, n), OnNodes(h), mapping))

LinkLine(l, n, m, Id, asTrans, info, h, mapping, printSentTags) ==
    HTKLink(Id[n], Id[IF m \in asTrans THEN Min(DOMAIN l.out[m]) ELSE m],
            (IF h.wordsOnNodes THEN NoInfo ELSE WordField(l, m, printSentTags))
            @@ Written(h, InfoAt(info, m), LinkFields \ (OnNodes(h) \cup {"word"}), mapping)
            @@ [f \in {mapping} \ {"none"} |-> Number(h.logbase, MappedWeight(l, n, m, asTrans))])

\* A node that is written as a link comes in its own turn.
LinksWritten(l, n, asTrans) ==
    LET to == Ascending(DOMAIN l.out[n] \ asTrans)
    IN  IF n \in asTrans THEN <<<<Min(DOMAIN l.in[n]), n>>>> ELSE [i \in DOMAIN to |-> <<n, to[i]>>]

Ids(nodes) == [n \in Range(nodes) |-> CHOOSE i \in 0 .. Len(nodes) - 1 : nodes[i + 1] = n]
HTKEnds(l, Id) ==
    LET EndLine(field, n) == IF n = NoNode THEN <<>> ELSE <<Header(field, IF n \in DOMAIN Id THEN Id[n] ELSE 0)>>
    IN  EndLine("start", l.initial) \o EndLine("end", l.final)

HTKLines(l, info, h, mapping, printSentTags, asTrans, nodes, Id) ==
    LET links == FlattenSeq([i \in 1 .. Cardinality(Nodes(l)) |-> LinksWritten(l, Ascending(Nodes(l))[i], asTrans)])
    IN  HeaderLines(h) \o HTKEnds(l, Id) \o <<Header("nodes", Len(nodes))>>
        \o [i \in DOMAIN nodes |-> NodeLine(l, nodes[i], i - 1, info, h, mapping, printSentTags)]
        \o FoldLeft(LAMBDA s, t : Append(s, LinkLine(l, t[1], t[2], Id, asTrans, info, h, mapping, printSentTags)), <<>>, links)

\* writeHTK() without posteriors; mapping is the score that transition weights become, or "none".
WriteHTK(l, info, h, mapping, printSentTags) ==
    LET AsLinks(asTrans, nodes) == HTKLines(l, info, h, mapping, printSentTags, asTrans, nodes, Ids(nodes))
        Plan(asTrans) == AsLinks(asTrans, Ascending(Nodes(l) \ asTrans))
    IN  Plan(IF h.wordsOnNodes \/ h.scoresOnNodes THEN {} ELSE {n \in Nodes(l) : AllowAsTrans(l, n)})

-----------------------------------------------------------------------------
(* Pronunciations, which HTK lattices have as phones with durations ("div"). *)

Phones(div) == [i \in DOMAIN div |-> div[i][1]]

\* scorePronunciations(): dictionary has a weight for words and phones, 0 for what it does not have.
ScorePronunciations(info, dictionary) ==
    LET Has(w, phones) == \E d \in dictionary : d.word = w /\ d.phones = phones
        Prob(w, phones) == (CHOOSE d \in dictionary : d.word = w /\ d.phones = phones).prob
        Pron(i) == IF WordOf(i) = Null THEN 0
                   ELSE IF Has(WordOf(i), Phones(i["div"])) THEN Prob(WordOf(i), Phones(i["div"])) ELSE One
    IN  [n \in DOMAIN info |-> IF "div" \in DOMAIN info[n]
                               THEN [f \in DOMAIN info[n] \cup {"pron"} |-> IF f = "pron" THEN Pron(info[n]) ELSE info[n][f]]
                               ELSE info[n]]

\* The phones with which the words of a multiword end, if it is pronounced that way: pron has "|"
\* between its words.  All phones must be there, not all of pron.
Boundaries(pron, phones) ==
    LET At(i, x) == i <= Len(pron) /\ pron[i] = x
        step == FoldLeft(LAMBDA s, m :
                            IF ~ s.ok \/ ~ At(s.at, phones[m]) THEN [s EXCEPT !.ok = FALSE]
                            ELSE IF At(s.at + 1, "|") THEN [s EXCEPT !.at = @ + 2, !.ends = Append(@, m)]
                            ELSE [s EXCEPT !.at = @ + 1],
                         [ok |-> TRUE, at |-> 1, ends |-> <<>>], [m \in DOMAIN phones |-> m])
    IN  IF step.ok THEN <<Append(step.ends, Len(phones))>> ELSE <<>>

Duration(div, from, to) == FoldLeft(LAMBDA t, i : t + div[i][2], 0, [i \in 1 .. to - from + 1 |-> from + i - 1])

\* The parts of a multiword: the word, its phones and the time it ends.
PartsAlong(words, div, ends, start) ==
    [i \in 1 .. Min({Len(words), Len(ends)}) |->
        [word |-> words[i], div |-> SubSeq(div, IF i = 1 THEN 1 ELSE ends[i - 1] + 1, ends[i]),
         time |-> start + Duration(div, 1, ends[i])]]

Renamed(info, part) == [f \in DOMAIN info \cup {"word"} |-> CASE f = "word" -> part.word [] f = "div" -> part.div [] OTHER -> info[f]]

\* A later part: a node without a word, and one with it and the weight One for every score there is.
AddPart(s, part, before, start, scores) ==
    LET w == s.l.maxIndex
        l == InsertTimedNode(InsertTimedNode(s.l, w, part.word, part.time), w + 1, Null, start)
    IN  [l |-> Link(IF before = {} THEN l ELSE Link(l, Min(before), w + 1, Trans(One, {})), w + 1, w, Trans(One, {})),
         info |-> Put(Put(s.info, w, Renamed([f \in scores \cup {"div"} |-> One], part)), w + 1, NoInfo)]
AddParts(s, parts, scores) ==
    FoldLeft(LAMBDA t, i : AddPart(t, parts[i], IF i = 2 THEN {} ELSE {t.l.maxIndex - 2}, parts[i - 1].time, scores),
             s, [i \in 1 .. Len(parts) - 1 |-> i + 1])

\* The first part keeps the node with its scores, the others follow it.  Of the old transitions out
\* of the node only the last goes.
MoveAfter(s, n, after, first) ==
    LET moved == FoldLeft(LAMBDA l, m : Link(l, l.maxIndex - 2, m, after[m]), s.l, Ascending(DOMAIN after))
    IN  [s EXCEPT !.l = RemoveTrans(Link(moved, n, first, Trans(One, {})), n, Max(DOMAIN after))]
SplitAlong(s, n, parts) ==
    LET split == [s EXCEPT !.l.word[n] = parts[1].word, !.l.time[n] = parts[1].time, !.info[n] = Renamed(@, parts[1])]
    IN  MoveAfter(AddParts(split, parts, DOMAIN s.info[n] \cap {"acoustic", "language", "ngram", "pron"}),
                  n, s.l.out[n], s.l.maxIndex + 1)

\* splitHTKMultiwordNodes(): a multiword whose phones are those of one of its pronunciations.
Pronounced(prons, phones) ==
    SelectSeq([i \in DOMAIN prons |-> Boundaries(prons[i], phones)], LAMBDA e : e # <<>>)
SplitHTKMultiwordNode(s, n, prons) ==
    LET w == s.l.word[n]
        from == Min(DOMAIN s.l.in[n])
        div == s.info[n]["div"]
        Found(ends) == IF ends = <<>> THEN s ELSE SplitAlong(s, n, PartsAlong(Parts[w], div, ends[1][1], s.l.time[from]))
    IN  IF w \in {Null, SentStart, SentEnd} \/ Len(Parts[w]) = 1 \/ DOMAIN s.l.in[n] = {} THEN s
        ELSE IF from \notin DOMAIN s.info \/ "div" \notin DOMAIN s.info[n] \/ w \notin DOMAIN prons THEN s
        ELSE Found(Pronounced(prons[w], Phones(div)))

SplitHTKMultiwordNodes(l, info, prons) ==
    FoldLeft(LAMBDA s, n : SplitHTKMultiwordNode(s, n, prons), [l |-> l, info |-> info], SortNodes(l))
=============================================================================
