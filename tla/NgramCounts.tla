----------------------------- MODULE NgramCounts -----------------------------
(***************************************************************************)
(* lm/src/NgramStats.cc: N-gram counts in a trie keyed by words, and what  *)
(* ngram-count does with them: count text, read and write count files in   *)
(* text and binary format, sum, prune and reset.  Words stand for their    *)
(* vocabulary indices; vocab is the set of words that have one.  The last  *)
(* part estimates discounts from the counts, one order after the other.    *)
(***************************************************************************)
EXTENDS Integers, Sequences, FiniteSets, SequencesExt, TLC, Discounting

(* dstruct/src/Trie.cc: a tree whose nodes are keyed by sequences and hold *)
(* a data item each.  A trie is a function on the prefix-closed set of its *)
(* nodes' key sequences; <<>> is the root, which always exists.  The table *)
(* of children inside a node (LHash or SArray) is a dictionary: see Map.   *)

LOCAL M == INSTANCE FiniteSetsExt

Root == <<>>

\* Trie(): data starts out zero-initialized.
NewTrie(zero) == [g \in {Root} |-> zero]

IsTrie(t) == Root \in DOMAIN t /\ \A g \in DOMAIN t \ {Root} : Front(g) \in DOMAIN t

Nodes(t, level) == {g \in DOMAIN t : Len(g) = level}

ChildrenOf(t, node) == {g \in Nodes(t, Len(node) + 1) : Front(g) = node}

ChildKeys(t, node) == {Last(g) : g \in ChildrenOf(t, node)}

NumEntries(t, node) == IF node \in DOMAIN t THEN Cardinality(ChildrenOf(t, node)) ELSE 0

\* findPrefixTrie(): how many of the keys lead to a node.
PrefixDepth(t, keys) == M!Max({d \in 0 .. Len(keys) : SubSeq(keys, 1, d) \in DOMAIN t})

\* insertTrie(): the nodes on the way are made, too; new ones are zero.
InsertTrie(t, keys, zero) ==
    [g \in DOMAIN t \cup Prefixes(keys) |-> IF g \in DOMAIN t THEN t[g] ELSE zero]

\* *insert(keys) += x
AddAt(t, keys, x) == [InsertTrie(t, keys, 0) EXCEPT ![keys] = @ + x]

Below(t, node) == {g \in DOMAIN t : IsPrefix(node, g)}

\* removeTrie(): the node goes with everything below it; the root stays.
RemoveTrie(t, keys) ==
    IF keys = Root THEN t ELSE [g \in DOMAIN t \ Below(t, keys) |-> t[g]]

-----------------------------------------------------------------------------
(* TrieIter2: iteration over the nodes of one level, a stack of iterators  *)
(* over children.  left[d] holds the keys that the d-th iterator has still *)
(* to deliver; it saved them when it was created, on entering keys[1..d-1]. *)

NewIter(t, level) ==
    [level |-> level, keys |-> <<>>, left |-> <<ChildKeys(t, Root)>>, done |-> level = 0]

\* An iterator skips what was removed since it saved its keys.
Pending(t, prefix, left) == {k \in left : Append(prefix, k) \in DOMAIN t}

\* next(): deliver at the level asked for, otherwise go on with an iterator
\* over the children; drop an iterator that is exhausted.
RECURSIVE IterNext(_, _)
IterNext(t, iter) ==
    LET d      == Len(iter.left)
        prefix == SubSeq(iter.keys, 1, d - 1)
        todo   == Pending(t, prefix, iter.left[d])
        key    == CHOOSE k \in todo : TRUE
        taken  == [iter EXCEPT !.keys = Append(prefix, key), !.left[d] = todo \ {key}]
    IN  CASE todo # {} /\ d = iter.level -> taken
          [] todo # {} /\ d < iter.level ->
                IterNext(t, [taken EXCEPT !.left = Append(@, ChildKeys(t, taken.keys))])
          [] todo = {} /\ d = 1 -> [iter EXCEPT !.done = TRUE]
          [] todo = {} /\ d > 1 -> IterNext(t, [iter EXCEPT !.left = Front(@)])

-----------------------------------------------------------------------------
(* Binary count files: the encoding of integers of lm/src/Counts.cc, in    *)
(* one, two or four 16-bit units, and the nested layout of count tries of  *)
(* lm/src/NgramStats.cc, where every subtrie is preceded by its length so  *)
(* that readers can skip it.  A file is a sequence of units; its offsets   *)
(* are in bytes, two to a unit.  Words are numbers in a file.              *)

CONSTANT ShortBits    \* bits of a unit (16 in the code)

ASSUME ShortBitsAssumption == ShortBits \in Nat /\ ShortBits >= 2

Unit       == 2 ^ ShortBits
IsLong     == 2 ^ (ShortBits - 1)               \* isLongBit
IsLongLong == 2 ^ (2 * ShortBits - 2)           \* isLongLongBit
IsTooLong  == 2 ^ (4 * ShortBits - 2)           \* isTooLongBit

\* An int as two units, high one first, with the flag of a long count.
TwoUnits(n) == <<IsLong + n \div Unit, n % Unit>>

EncodeCount_NoFlagRoom(count, minBytes) ==
    IF minBytes <= 2 /\ count < IsLong THEN <<count>>
    ELSE IF minBytes <= 4 /\ count < 2 * IsLongLong THEN TwoUnits(count)
    ELSE TwoUnits(IsLongLong + count \div (Unit * Unit))
             \o <<(count % (Unit * Unit)) \div Unit, count % Unit>>

\* writeBinaryCount(): in minBytes or more; <<>> when the count is too large.
EncodeCount(count, minBytes) ==
    IF minBytes <= 2 /\ count < IsLong THEN <<count>>
    ELSE IF minBytes <= 4 /\ count < IsLongLong THEN TwoUnits(count)
    ELSE IF count < IsTooLong
    THEN TwoUnits(IsLongLong + count \div (Unit * Unit))
             \o <<(count % (Unit * Unit)) \div Unit, count % Unit>>
    ELSE <<>>

\* readBinaryCount() at a place in a file: the count and the bytes it took.
DecodeCount(file, offset) ==
    LET u == file[offset \div 2 + 1]
        v == file[offset \div 2 + 2]
        l == (u % IsLong) * Unit + v
    IN  IF u < IsLong THEN [count |-> u, bytes |-> 2]
        ELSE IF l < IsLongLong THEN [count |-> l, bytes |-> 4]
        ELSE [count |-> (l % IsLongLong) * Unit * Unit
                        + file[offset \div 2 + 3] * Unit + file[offset \div 2 + 4],
              bytes |-> 8]

Bytes(units) == 2 * Len(units)

\* The guess of the space that the length of a subtrie will need.
OffsetBytes(subtrieDepth) == IF subtrieDepth = 0 THEN 2 ELSE IF subtrieDepth <= 3 THEN 4 ELSE 8

\* Children are written in the order of their numbers.
SortedKeys(t, node, index) ==
    SetToSortSeq(ChildKeys(t, node), LAMBDA v, w : index[v] < index[w])

\* writeBinaryNode(): nothing below the order of the file.  When the length
\* does not fit into the space left for it, everything is written again.
RECURSIVE EncodeNode(_, _, _, _, _, _)
EncodeNode(t, node, order, maxOrder, index, offsetBytes) ==
    LET level == Len(node) + 1
        keys  == SortedKeys(t, node, index)
        entry(k) ==
            LET child == Append(node, k)
            IN  EncodeCount(index[k], 0)
                \o EncodeCount(IF order > 0 /\ level < order THEN 0 ELSE t[child], 0)
                \o (IF level + 1 > maxOrder THEN <<>>
                    ELSE EncodeNode(t, child, order, maxOrder, index,
                                    OffsetBytes(maxOrder - (level + 1))))
        body   == FlattenSeq([i \in DOMAIN keys |-> entry(keys[i])])
        length == EncodeCount(offsetBytes + Bytes(body), offsetBytes)
    IN  IF Bytes(length) > offsetBytes
        THEN EncodeNode(t, node, order, maxOrder, index, Bytes(length))
        ELSE length \o body

\* The count data of writeBinary(); order 0 stands for all of them.
EncodeTrie(t, order, trieOrder, index) ==
    LET maxOrder == IF order > 0 THEN order ELSE trieOrder
    IN  EncodeNode(t, Root, order, maxOrder, index, OffsetBytes(maxOrder - 1))

-----------------------------------------------------------------------------
(* readBinaryNode().  words maps the numbers of the file to words, skip    *)
(* stands for words that are not wanted.  The result is the trie and the   *)
(* offset after what was read, or failure.                                 *)

NoOffset == -1

RECURSIVE DecodeNode(_, _, _, _, _)
RECURSIVE DecodeEntries(_, _, _, _, _)

DecodeNode(rd, st, node, order, maxOrder) ==
    IF maxOrder = 0 \/ st.offset = NoOffset THEN st
    ELSE LET length == DecodeCount(rd.file, st.offset)
             end    == st.offset + length.count
         IN  IF order = 0 THEN [st EXCEPT !.offset = end]
             ELSE DecodeEntries(rd, [st EXCEPT !.offset = @ + length.bytes], node,
                                [order |-> order, max |-> maxOrder], end)

\* The children of a node, until the end of the subtrie; a child that is not
\* wanted is skipped, with what is below it.
DecodeEntries(rd, st, node, left, end) ==
    IF st.offset = NoOffset THEN st
    ELSE IF st.offset >= end
    THEN IF st.offset = end THEN st ELSE [st EXCEPT !.offset = NoOffset]
    ELSE LET number == DecodeCount(rd.file, st.offset)
             count  == DecodeCount(rd.file, st.offset + number.bytes)
             after  == st.offset + number.bytes + count.bytes
         IN  IF number.count \notin DOMAIN rd.words THEN [st EXCEPT !.offset = NoOffset]
             ELSE LET w      == rd.words[number.count]
                      child  == Append(node, w)
                      wanted == w # rd.skip /\ (rd.intersect => child \in DOMAIN st.t)
                      next   == IF wanted
                                THEN DecodeNode(rd, [t |-> AddAt(st.t, child, count.count),
                                                     offset |-> after],
                                                child, left.order - 1, left.max - 1)
                                ELSE DecodeNode(rd, [st EXCEPT !.offset = after], node, 0,
                                                left.max - 1)
                  IN  DecodeEntries(rd, next, node, left, end)

\* readBinary(): counts are added to the trie, up to the order asked for.
DecodeTrie(t, rd, order, maxOrder) ==
    DecodeNode(rd, [t |-> t, offset |-> 0], Root, order, maxOrder).t

-----------------------------------------------------------------------------
(* Counts.                                                                 *)

CONSTANTS
    SentStart, SentEnd, Unknown,
    BaseVocab,            \* the words in the vocabulary at the start
    StopWords,            \* the stop words of StopNgramStats
    Index,                \* the numbers of words in binary files
    Collation,            \* the places of words in sorted text
    Directories,          \* count directories: by order, sequences of sorted files
    Kinds,                \* "plain" for NgramStats, "stop" for StopNgramStats
    Texts,                \* sentences to count
    Factors,              \* their weights
    Files,                \* count files to read: sequences of lines
    Minimums,             \* minimum counts: functions on the orders
    MaxOps                \* bound: operations on one object

ASSUME BoundAssumption == MaxOps \in Nat

ASSUME WordsAssumption ==
    /\ BaseVocab \subseteq Words /\ {SentStart, SentEnd, Unknown} \subseteq BaseVocab
    /\ \A n \in DOMAIN MetaTag : n \in Nat \ {0} /\ MetaTag[n] \notin Words
    /\ Index \in [Words -> Nat] /\ IsInjective(Index)
    \* A metatag prefix, when there is one, gives a tag for every count.
    /\ \A min \in Minimums : DOMAIN MetaTag = {} \/ \A n \in 1 .. Order :
          \A c \in 1 .. min[n] - 1 : c \in DOMAIN MetaTag

VARIABLES
    kind,         \* the class of the object
    openVocab,    \* words are added as needed
    intersect,    \* reading adds to N-grams that are there, and no others
    stats,        \* words, sentences and words not in the vocabulary counted
    text,         \* the sentences counted, with their weights
    pure,         \* nothing was done but counting sentences
    ops           \* operations so far

vars == <<kind, counts, vocab, openVocab, intersect, stats, text, pure, ops>>

NoText == [s \in {} |-> 0]

Line(words, count) == [words |-> words, count |-> count]
Malformed == [words |-> <<>>, count |-> 0]

-----------------------------------------------------------------------------
(* Counting text.                                                          *)

\* addWords(), or getIndices() with the unknown word for what is not there.
Indices(words) == [i \in DOMAIN words |->
                     IF openVocab \/ words[i] \in vocab \cup Tags THEN words[i] ELSE Unknown]

NumOOVs(words) ==
    IF openVocab THEN 0
    ELSE Cardinality({i \in DOMAIN words : Indices(words)[i] = Unknown})

\* addWords()
Extended(words) == IF openVocab THEN vocab \cup (words \ Tags) ELSE vocab

\* The sentence tags are added unless they are there.
WithTags(s) ==
    LET start == IF s # <<>> /\ Head(s) = SentStart THEN s ELSE <<SentStart>> \o s
    IN  IF s # <<>> /\ Last(s) = SentEnd THEN start ELSE Append(start, SentEnd)

Min2(i, j) == IF i < j THEN i ELSE j

\* incrementCounts(): the N-grams that start here, from minOrder on; the nodes
\* above them are made, and count nothing.
IncrementCounts(t, s, minOrder, factor) ==
    FoldLeft(LAMBDA u, n : AddAt(u, SubSeq(s, 1, n), IF n >= minOrder THEN factor ELSE 0),
             t, [n \in 1 .. Min2(Order, Len(s)) |-> n])

Counted_DropsLast(t, s, factor) ==
    FoldLeft(LAMBDA u, i : IncrementCounts(u, SubSeq(s, i, Len(s)), 1, factor),
             t, [i \in 1 .. Len(s) - 1 |-> i])

\* countSentence(): every N-gram of the sentence.
Counted(t, s, factor) ==
    FoldLeft(LAMBDA u, i : IncrementCounts(u, SubSeq(s, i, Len(s)), 1, factor),
             t, [i \in DOMAIN s |-> i])

\* The sentence tags are not words.
NumWords(s) == Len(s) - (IF Head(s) = SentStart THEN 1 ELSE 0)
                      - (IF Last(s) = SentEnd THEN 1 ELSE 0)

\* StopNgramStats: the context of a word holds no stop words.
StopContext(s, i) == SelectSeq(SubSeq(s, 1, i - 1), LAMBDA w : w \notin StopWords)

StopGram(s, i) ==
    LET g == Append(StopContext(s, i), s[i])
    IN  IF Len(g) >= Order THEN SubSeq(g, Len(g) - Order + 1, Len(g)) ELSE g

StopCounted(t, s, factor) ==
    FoldLeft(LAMBDA u, i : FoldLeft(LAMBDA v, g : AddAt(v, g, factor), u,
                                    [d \in 1 .. Len(StopGram(s, i)) |->
                                        SubSeq(StopGram(s, i), d, Len(StopGram(s, i)))]),
             t, [i \in DOMAIN s |-> i])

-----------------------------------------------------------------------------
(* Count files in text format.                                             *)

\* readNgram(): the first line that cannot be parsed ends the file.
Lines(file) ==
    LET bad == {i \in DOMAIN file : file[i] = Malformed}
    IN  IF bad = {} THEN file ELSE SubSeq(file, 1, (CHOOSE i \in bad : \A j \in bad : i <= j) - 1)

\* A line that read() enters: short enough and, with limitVocab, of known words.
Accepted(line, order, limitVocab) ==
    /\ Len(line.words) <= order
    /\ limitVocab => Range(line.words) \subseteq vocab \cup Tags

FileWords(file, order, limitVocab) ==
    UNION {Range(Lines(file)[i].words) :
             i \in {j \in DOMAIN Lines(file) : Accepted(Lines(file)[j], order, limitVocab)}}

\* *find(words) += count or *insert(words) += count
Entered(t, words, count) ==
    IF intersect /\ words \notin DOMAIN t THEN t ELSE AddAt(t, words, count)

ReadText(t, file, order, limitVocab) ==
    FoldLeft(LAMBDA u, line : Entered(u, Indices(line.words), line.count), t,
             SelectSeq(Lines(file), LAMBDA line : Accepted(line, order, limitVocab)))

\* The order of words in sorted text, and Vocab::ngramsInRange(): whether words of
\* the vocabulary may make an N-gram from start on and before end; Open is no bound.
Open == <<"no bound">>

RECURSIVE NgramsInRange(_, _)
NgramsInRange(start, end) ==
    \/ start = <<>> \/ end = <<>>
    \/ LET starts == start \notin {<<>>, Open} /\ Head(start) \in vocab
           ends   == end \notin {<<>>, Open} /\ Head(end) \in vocab
       IN  IF starts /\ ends /\ Head(start) = Head(end) THEN NgramsInRange(Tail(start), Tail(end))
           ELSE \/ starts /\ NgramsInRange(Tail(start), Open)
                \/ ends /\ NgramsInRange(Open, Tail(end))
                \/ \E w \in vocab : /\ (start = Open \/ Collation[Head(start)] < Collation[w])
                                   /\ (end = Open \/ Collation[w] < Collation[Head(end)])

\* readGoogle(): the sorted N-grams of every order are cut into files; an index
\* has the first N-gram of each, by which files are left out that hold none of
\* the wanted words.
GoogleWanted(files, limitVocab) ==
    SelectSeq([k \in DOMAIN files |-> k],
              LAMBDA k : limitVocab =>
                 NgramsInRange(files[k][1].words,
                               IF k = Len(files) THEN Open ELSE files[k + 1][1].words))

GoogleFiles(dir, limitVocab) ==
    FlattenSeq([n \in DOMAIN dir |->
        IF n = 1 THEN FlattenSeq(dir[n])
        ELSE FlattenSeq([k \in DOMAIN GoogleWanted(dir[n], limitVocab) |->
                           dir[n][GoogleWanted(dir[n], limitVocab)[k]]])])

\* addCounts(): the meta-counts of a prefix go into the trie.
AddMeta(t, prefix, meta) ==
    IF intersect /\ prefix \notin DOMAIN t THEN t
    ELSE FoldSet(LAMBDA tag, u : AddAt(u, Append(prefix, tag), meta[tag]),
                 InsertTrie(t, prefix, 0), DOMAIN meta)

\* The state of readMinCounts() per order: meta-counts, whether there were
\* counts worth keeping, and the prefix they belong to.
NoMeta == [x \in {} |-> 0]
Fresh(prefix) == [meta |-> NoMeta, have |-> FALSE, prefix |-> prefix]

Bump(f, x) == [y \in DOMAIN f \cup {x} |-> (IF y \in DOMAIN f THEN f[y] ELSE 0)
                                           + (IF y = x THEN 1 ELSE 0)]

\* Below the minimum a count is dropped, unless a metatag stands for it.
Worth(line, min) ==
    line.count >= min[Len(line.words)] \/ line.count \in DOMAIN MetaTag

Flushed_Always(st, n) == AddMeta(st.t, st.level[n].prefix, st.level[n].meta)

\* Meta-counts are kept only where real counts were.
Flushed(st, n) ==
    IF st.level[n].have THEN AddMeta(st.t, st.level[n].prefix, st.level[n].meta) ELSE st.t

\* One line of readMinCounts().
MinLine(st, line, min) ==
    LET n      == Len(line.words)
        g      == Indices(line.words)
        prefix == Front(g)
        same   == prefix = st.level[n].prefix
        lev    == IF same THEN st.level[n] ELSE Fresh(prefix)
        u      == IF same THEN st.t ELSE Flushed(st, n)
    IN  IF line.count < min[n]
        THEN [st EXCEPT !.t = u, !.level[n] = [lev EXCEPT !.meta = Bump(@, MetaTag[line.count])]]
        ELSE [st EXCEPT !.t = Entered(u, g, line.count), !.level[n] = [lev EXCEPT !.have = TRUE]]

ReadMinCounts(t, file, order, min, limitVocab) ==
    LET kept == SelectSeq(Lines(file), LAMBDA line : /\ Accepted(line, order, limitVocab)
                                                     /\ Worth(line, min))
        last == FoldLeft(LAMBDA st, line : MinLine(st, line, min),
                         [t |-> t, level |-> [n \in 1 .. order |-> Fresh(<<>>)]], kept)
    IN  FoldLeft(LAMBDA st, n : [st EXCEPT !.t = Flushed(st, n)], last,
                 [n \in 1 .. order |-> order + 1 - n]).t

\* writeNode(): the N-grams of one order, or of all (0), parents first.
RECURSIVE WrittenNode(_, _, _)
WrittenNode(t, node, order) ==
    LET child(k) == Append(node, k)
        here(k)  == IF order \in {0, Len(node) + 1} THEN <<Line(child(k), t[child(k)])>> ELSE <<>>
        below(k) == IF order = 0 \/ Len(node) + 1 < order THEN WrittenNode(t, child(k), order)
                    ELSE <<>>
    IN  FlattenSeq([i \in DOMAIN SetToSeq(ChildKeys(t, node)) |->
                      LET k == SetToSeq(ChildKeys(t, node))[i] IN here(k) \o below(k)])

Write(t, order) == WrittenNode(t, Root, order)

-----------------------------------------------------------------------------
(* sumCounts(), pruneCounts(), setCounts().                                *)

RECURSIVE SumNode(_, _, _)
SumNode(t, node, order) ==
    IF Len(node) + 1 > order \/ ChildrenOf(t, node) = {} THEN t
    ELSE LET u == FoldSet(LAMBDA g, v : SumNode(v, g, order), t, ChildrenOf(t, node))
         IN  [u EXCEPT ![node] = FoldSet(LAMBDA g, x : x + u[g], 0, ChildrenOf(t, node))]

\* One level of pruneCounts(): the iterator goes on over the trie it removes from.
RECURSIVE PruneLevel(_, _, _)
PruneLevel(t, iter, min) ==
    LET it == IterNext(t, iter)
    IN  IF it.done THEN t
        ELSE PruneLevel(IF t[it.keys] < min THEN RemoveTrie(t, it.keys) ELSE t, it, min)

PruneCounts(t, min) ==
    FoldLeft(LAMBDA u, n : PruneLevel(u, NewIter(u, n), min), t, [n \in 1 .. Order |-> n])

SetCounts(t, x) == [g \in DOMAIN t |-> IF Len(g) \in 1 .. Order THEN x ELSE t[g]]
-----------------------------------------------------------------------------
(* ngram-merge: the files are sorted; the least N-grams of all files are   *)
(* added up and written, and their files advance.                          *)

\* Vocab::compare() of word sequences, by the numbers of the words.
Before(g, h) ==
    \/ IsStrictPrefix(g, h)
    \/ \E d \in 1 .. Min2(Len(g), Len(h)) :
          /\ SubSeq(g, 1, d - 1) = SubSeq(h, 1, d - 1)
          /\ Index[g[d]] < Index[h[d]]

FindNext(files) ==
    {i \in DOMAIN files : /\ files[i] # <<>>
                          /\ \A j \in DOMAIN files : files[j] # <<>> =>
                                ~Before(Head(files[j]).words, Head(files[i]).words)}

RECURSIVE MergeCounts(_)
MergeCounts(files) ==
    LET next == FindNext(files)
        gram == Head(files[CHOOSE i \in next : TRUE]).words
    IN  IF next = {} THEN <<>>
        ELSE <<Line(gram, FoldSet(LAMBDA i, x : x + Head(files[i]).count, 0, next))>>
             \o MergeCounts([i \in DOMAIN files |-> IF i \in next THEN Tail(files[i]) ELSE files[i]])

-----------------------------------------------------------------------------
Init ==
    /\ kind \in Kinds
    /\ counts = NewTrie(0)
    /\ vocab = BaseVocab
    /\ openVocab \in BOOLEAN
    /\ intersect = FALSE
    /\ stats = [words |-> 0, sentences |-> 0, oovs |-> 0]
    /\ text = NoText
    /\ pure = TRUE
    /\ ops = 0

Op == ops < MaxOps /\ ops' = ops + 1

CountSentence(words, factor) ==
    LET s == WithTags(Indices(words))
    IN  /\ Op
        /\ counts' = IF kind = "stop" THEN StopCounted(counts, s, factor)
                     ELSE Counted(counts, s, factor)
        /\ vocab' = Extended(Range(words))
        /\ stats' = [words |-> stats.words + NumWords(s), sentences |-> stats.sentences + 1,
                     oovs |-> stats.oovs + NumOOVs(words)]
        /\ text' = [t \in DOMAIN text \cup {s} |->
                      (IF t \in DOMAIN text THEN text[t] ELSE 0) + (IF t = s THEN factor ELSE 0)]
        /\ UNCHANGED <<kind, openVocab, intersect, pure>>

\* What is not text leaves the other statistics alone.
Changed(t, words) ==
    /\ Op
    /\ counts' = t
    /\ vocab' = Extended(words)
    /\ pure' = FALSE
    /\ UNCHANGED <<kind, openVocab, stats, text>>

Read(file, limitVocab) ==
    /\ Changed(ReadText(counts, file, Order, limitVocab), FileWords(file, Order, limitVocab))
    /\ UNCHANGED intersect

ReadGoogle(dir, limitVocab) ==
    /\ Changed(ReadText(counts, GoogleFiles(dir, limitVocab), Order, limitVocab),
               FileWords(GoogleFiles(dir, limitVocab), Order, limitVocab))
    /\ UNCHANGED intersect

\* ngram-count -intersect
Intersect(file) ==
    /\ ~intersect
    /\ Changed(SetCounts(ReadText(counts, file, Order, FALSE), 0), FileWords(file, Order, FALSE))
    /\ intersect' = TRUE

MinWords(file, min) ==
    UNION {Range(Lines(file)[i].words) :
             i \in {j \in DOMAIN Lines(file) : /\ Accepted(Lines(file)[j], Order, FALSE)
                                               /\ Worth(Lines(file)[j], min)}}

ReadMin(file, min) ==
    /\ Changed(ReadMinCounts(counts, file, Order, min, FALSE), MinWords(file, min))
    /\ UNCHANGED intersect

Sum    == Changed(SumNode(counts, Root, Order), {}) /\ UNCHANGED intersect
Prune(min) == Changed(PruneCounts(counts, min), {}) /\ UNCHANGED intersect

Next ==
    \/ \E words \in Texts, factor \in Factors : CountSentence(words, factor)
    \/ \E file \in Files :
          \/ \E limitVocab \in BOOLEAN : Read(file, limitVocab)
          \/ Intersect(file)
          \/ \E min \in Minimums : ReadMin(file, min)
    \/ \E dir \in Directories, limitVocab \in BOOLEAN : ReadGoogle(dir, limitVocab)
    \/ Sum
    \/ \E min \in 1 .. 2 : Prune(min)

Spec == Init /\ [][Next]_vars

-----------------------------------------------------------------------------
\* Where N-gram g stands in sentence s: for StopNgramStats, its last word there
\* and the others the nearest words before it that are no stop words.
Occurrences(g, s) ==
    LET ends  == {i \in DOMAIN s : s[i] = Last(g)}
        near(i) == IF kind = "stop" THEN SelectSeq(SubSeq(s, 1, i - 1), LAMBDA w : w \notin StopWords)
                   ELSE SubSeq(s, 1, i - 1)
    IN  {i \in ends : IsSuffix(Front(g), near(i))}

\* Counting sentences one by one, in any order and with any weights, gives every
\* N-gram up to the order the weighted number of its occurrences, and no others
\* are entered; words and sentences are counted without the sentence tags
\* (countSentence() and incrementCounts(), StopNgramStats::countSentence()).
CountsMatchText ==
    pure =>
      /\ \A g \in DOMAIN counts \ {Root} :
            /\ Len(g) <= Order
            /\ counts[g] = FoldSet(LAMBDA s, x : x + text[s] * Cardinality(Occurrences(g, s)),
                                   0, DOMAIN text)
            /\ kind = "plain" => counts[g] > 0
      /\ \A s \in DOMAIN text : \A i \in DOMAIN s : <<s[i]>> \in DOMAIN counts

\* The words of the file that stand for what DecodeTrie reads.
Reader(file, skipped) ==
    [file |-> file, skip |-> "skip", intersect |-> FALSE,
     words |-> [n \in Range(Index) |->
                  LET w == CHOOSE v \in Words : Index[v] = n IN IF w \in skipped THEN "skip" ELSE w]]

UpTo(order) == [g \in {h \in DOMAIN counts : Len(h) <= order} |->
                  IF g = Root THEN 0 ELSE counts[g]]

NoMetaCounts == \A g \in DOMAIN counts : Range(g) \cap Tags = {}

\* Text and binary files hold the same counts: reading either one back gives the
\* trie that was written, up to the order asked for by the writer or the reader,
\* without the subtries of unwanted words (write(), writeBinary(), read(),
\* readBinary(); the binary layout depends on lengths written before they are known).
ReadsBack ==
    NoMetaCounts =>
      /\ FoldLeft(LAMBDA u, l : AddAt(u, l.words, l.count), NewTrie(0), Write(counts, 0)) = UpTo(Order)
      /\ \A order \in 0 .. Order :
            DecodeTrie(NewTrie(0), Reader(EncodeTrie(UpTo(Order), order, Order, Index), {}),
                       Order, IF order = 0 THEN Order ELSE order)
              = IF order = 0 THEN UpTo(Order)
                ELSE [g \in DOMAIN UpTo(order) |-> IF Len(g) < order THEN 0 ELSE counts[g]]
      /\ \A order \in 1 .. Order : \A w \in Words :
            LET whole == EncodeTrie(UpTo(Order), 0, Order, Index)
            IN  DecodeTrie(NewTrie(0), Reader(whole, {w}), order, Order)
                  = [g \in {h \in DOMAIN UpTo(order) : w \notin Range(h)} |-> UpTo(order)[g]]

\* Merging the sorted dump of the counts with another sorted file adds the counts
\* of the file, each N-gram on one line (ngram-merge).
Dump == SortSeq(Write(counts, 0), LAMBDA k, l : Before(k.words, l.words))

MergeAdds ==
    NoMetaCounts =>
      \A file \in Files :
        LET sorted == SortSeq(Lines(file), LAMBDA k, l : Before(k.words, l.words))
            merged == MergeCounts(<<Dump, sorted>>)
            enter(t, lines) == FoldLeft(LAMBDA u, l : AddAt(u, l.words, l.count), t, lines)
        IN  /\ enter(NewTrie(0), merged) = enter(enter(NewTrie(0), Dump), sorted)
            /\ \A i, j \in DOMAIN merged : merged[i].words = merged[j].words => i = j

\* What reading with minimum counts must add for a file in the order of a trie
\* traversal: N-grams at or above their minimum, and for a prefix that has any of
\* them the number of N-grams below it, by count, under the metatags.
Kept(file, min) == SelectSeq(Lines(file), LAMBDA l : Len(l.words) <= Order)

MinReference(file, min) ==
    LET lines == Kept(file, min)
        gram(i) == Indices(lines[i].words)
        real  == {i \in DOMAIN lines : lines[i].count >= min[Len(lines[i].words)]}
        live(i) == \E j \in real : Len(gram(j)) = Len(gram(i)) /\ Front(gram(j)) = Front(gram(i))
        meta  == {i \in DOMAIN lines \ real : lines[i].count \in DOMAIN MetaTag /\ live(i)}
        enter(t, g, x) == IF intersect /\ (IF Last(g) \in Tags THEN Front(g) ELSE g) \notin DOMAIN t
                          THEN t ELSE AddAt(t, g, x)
        u == FoldLeft(LAMBDA t, i : IF i \in real THEN enter(t, gram(i), lines[i].count) ELSE t,
                      counts, [i \in DOMAIN lines |-> i])
    IN  FoldLeft(LAMBDA t, i : IF i \in meta
                               THEN enter(t, Append(Front(gram(i)), MetaTag[lines[i].count]), 1) ELSE t,
                 u, [i \in DOMAIN lines |-> i])

\* readMinCounts(), which sees the file once and holds back the metacounts of one
\* prefix per order, keeps what a reader of the whole file would.
MinCountsKept ==
    [][\A file \in Files, min \in Minimums :
          ReadMin(file, min) => counts' = MinReference(file, min)]_vars

\* Files that are left out because of their index hold nothing that is wanted:
\* what is read with them and without them is the same (readGoogle(),
\* Vocab::ngramsInRange()).
GoogleComplete ==
    [][\A dir \in Directories :
          ReadGoogle(dir, TRUE) => counts' = ReadText(counts, GoogleFiles(dir, FALSE), Order, TRUE)]_vars

\* pruneCounts() removes N-grams of every length while it iterates over the trie;
\* what stays is exactly what is frequent enough together with all its prefixes.
PruneExact ==
    [][\A min \in 1 .. 2 : Prune(min) =>
          counts' = [g \in {h \in DOMAIN counts : \A d \in 1 .. Len(h) :
                              counts[SubSeq(h, 1, d)] >= min} |-> counts[g]]]_vars

-----------------------------------------------------------------------------
(* ngram-count: counts are gathered, and then discounted (see Discounting). *)

toolVars == <<vars, stage, discounts, original>>

ToolInit == Init /\ stage = 0 /\ discounts = <<>> /\ original = <<>>

Counting == stage = 0 /\ Next /\ UNCHANGED <<stage, discounts, original>>

Discounted == Discount /\ UNCHANGED <<kind, openVocab, intersect, stats, text, pure, ops>>

ToolNext == Counting \/ Discounted

ToolSpec == ToolInit /\ [][ToolNext]_toolVars

-----------------------------------------------------------------------------
\* The words that follow a context, and how often.
FollowersOf(c) == {w \in Words \ NonEvents : Append(c, w) \in DOMAIN counts /\ counts[Append(c, w)] > 0}

FollowerTotal(c) == FoldSet(LAMBDA w, x : x + counts[Append(c, w)], 0, FollowersOf(c))

\* What is left of the counts after c, as a share of their total.
Left(c, d) ==
    LET total == FollowerTotal(c)
        observed == Cardinality(FollowersOf(c))
    IN  D!Total(LAMBDA w : D!Over(D!Times(D!Retained(d, counts[Append(c, w)], total, observed),
                                          <<counts[Append(c, w)], 1>>), <<total, 1>>),
                FollowersOf(c))

SeenAtLeast(c, n) == Cardinality({w \in FollowersOf(c) : counts[Append(c, w)] >= n})

\* What discounting takes away is what it gives to the words that were not seen: the
\* weight of the shorter N-grams with the methods that interpolate, the added counts
\* of unseen words with AddSmooth, and, over a whole order, the number of N-grams
\* seen once with Good-Turing unless a coefficient was out of range (Katz).  A
\* context never keeps more than all of its mass.
MassConserved ==
    stage = ForModel + 1 =>
      /\ \A c \in {g \in DOMAIN counts : Len(g) < Order /\ FollowersOf(g) # {}} :
           LET d == discounts[Len(c) + 1]
               total == FollowerTotal(c)
               lower == D!InterpolationWeight(d, total, [n \in 1 .. 3 |-> SeenAtLeast(c, n)])
           IN  /\ d.method \in {"KneserNey", "ModKneserNey", "Const", "WittenBell"} /\ d.mincount <= 1 =>
                    D!Plus(Left(c, d), lower) = D!One
               /\ d.method = "AddSmooth" /\ d.mincount <= 1 =>
                    D!Plus(Left(c, d), D!Over(D!Times(<<Events - SeenAtLeast(c, 1), 1>>, d.delta),
                                              D!Plus(<<total, 1>>, D!Times(<<Events, 1>>, d.delta))))
                      = D!One
               /\ d.method = "Natural" => D!Positive(Left(c, d)) /\ ~D!Less(D!One, Left(c, d))
      /\ \A i \in 1 .. Order :
           LET d == discounts[i]
               n(c) == D!CountOfCounts(original, i, c)
               taken(c) == D!Times(<<c * n(c), 1>>, D!Minus(D!One, d.coeffs[c]))
           IN  /\ d.method = "GoodTuring" /\ ~d.fromFile /\ d.maxcount > 0
               /\ \A c \in 1 .. d.maxcount : n(c) > 0 /\ d.coeffs[c] # D!One
               => D!Total(taken, 1 .. d.maxcount) = <<n(1), 1>>
=============================================================================
