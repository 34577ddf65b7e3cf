# SRILM in TLA+

Models of SRILM, the SRI language modeling toolkit, written from the C++ in
`dstruct/src`, `lm/src`, `lattice/src` and `flm/src`, with the TLC runs that check
them and the TLAPS proofs that extend some of the results to every size.
`PROJECT.json` lists the components, the runs, the source lines behind each
definition (a helper whose lines are among those of the definition that uses it has
no entry of its own), the hazards of the code and the properties that cover them.

To check a module: `tlc -workers 2 -config MCVocab.cfg MCVocab`. To check its
proofs: `tlapm Vocab_proofs.tla`.

## 1. The system

SRILM is a set of C++ class libraries and the tools built from them. Almost all
of it is sequential: a tool reads counts, text, models or lattices, computes, and
writes. Three things are not: the LM server (processes and sockets), the
per-thread allocator, and the callers' freedom to interleave calls on one object
(iterators, caches, models asked while they adapt, vocabulary changes while models
are keyed by its indices).

| Part | State | Operations | What makes it correct |
|---|---|---|---|
| Block allocator (`BlockMalloc.cc`) | per thread: lists of blocks and of free chunks by size | allocate, free, give everything back | a chunk has one owner; nothing is used after it was given back |
| Hash table (`LHash.cc`), sorted array (`SArray.cc`) | table of keys and values; an iterator's position | find, insert, remove, clear, assign, iterate | a map; a search always ends; iterators deliver each entry once |
| Interval heap (`IntervalHeap.cc`) | array of intervals | push, pop at both ends | a double-ended priority queue that loses nothing |
| Tries (`Trie.cc`) | nodes keyed by a word | insert, find, remove, iterate by level | prefix-closed; iteration survives removal of the current node |
| Counts in 16 bits (`XCount.cc`) | a shared table of large counts and its free list | assign, add, copy, destroy | a count keeps its value; entries are shared by nobody |
| Vocabulary (`Vocab.cc`) | strings to indices, indices to strings, aliases, non-events, metatags, special words | add, look up, alias, remove, (un)declare non-events, index maps of files | both directions in step; an index keeps its meaning |
| N-gram counts (`NgramStats.cc`, `ngram-count.cc`) | trie of counts | count text, read, merge, prune, sum, write | sums of counts; filters drop what they say; what is written reads back |
| Discounting (`Discount.cc`) | parameters per order | estimate from counts of counts, discount a count, modify lower orders | nothing is given away twice; consistent with the counts it modifies |
| Backoff N-gram model (`NgramLM.cc`) | trie of contexts with weights and probabilities | estimate, compute weights, mix, prune, rescore, read, write, answer | a distribution after every operation; can be written; context IDs are sound |
| LM base class (`LM.cc`) | the running flag, totals | score sentences, counts, files | scores do not depend on what was asked or printed on the way |
| Mixtures and adaptive LMs | component models, history, posterior weights, denominators | answer, adapt, set state | distributions; the state changes once per word |
| Class, hidden-event, disfluency and HMM models | an N-gram model and the trellis of the last call | answer, extending the trellis kept | as a model with a new trellis |
| Taggers (`disambig.cc`, `hidden-ngram.cc`, `segment.cc`, `Trellis.cc`) | a map from words to tags, a trellis | best, N best, posteriors, expected counts | what is reported is what all sequences of tags say |
| LM server (`LM::probServer`) | listening socket, count of children; per connection a protocol version | accept, fork, reap, greet, answer | limits hold, everybody is served, answers are right |
| Remote LM (`LMClient.cc`) | connection, three caches | connect, ask, answer from a cache | indistinguishable from a local LM |
| N-best lists (`NBest.cc`), meshes (`WordMesh.cc`), word lattices (`WordLattice.cc`), `nbest-lattice.cc` | hypotheses with scores; positions or nodes with posteriors | read, weigh, align, choose, report errors, write | every hypothesis accounted for; chosen words have least expected error |
| Lattices (`lattice/src`, `lattice-tool.cc`) | graph, each transition stored twice, scores | reduce, expand, prune, search, count, align, read, write | the set of paths and their weights |
| Factored LMs (`flm/src`) | backoff graph over factors, counts and probabilities per node, weights kept | count, estimate, write, read, answer | distributions; answers independent of earlier questions |
| Maximum-entropy models, `nbest-optimize`, Bleu | vectors of floats | numeric search | out of a model checker's reach |
| Files, options (`misc/src`), scripts (`utils/src`) | | | pure I/O |

How they interact: containers allocate from the block allocator of the calling
thread; the vocabulary, the counts and the models are built from LHash or SArray
(a compile-time choice), so all of them inherit the iterators' rules; counts and
models hold vocabulary indices and nothing else, so a change of an index's
meaning silently corrupts them; the estimator reads a count trie and calls the
model it is building for lower-order estimates; `ngram-count` lets the discounts
change the counts they are estimated from, order by order; mixtures and adaptive
models are stacked on each other and all see the same words once; hidden models
keep the trellis of the last call and go on from a common prefix; `LMClient`
stands for any LM in any tool and trusts the replies' order; lattice expansion and
`LMClient` merge histories on the strength of `contextID`; lattices are made from
and turned into meshes; factored models are written by one process and read,
together with the counts, by another.

What is hard: calls in an order nobody tested (removals with aliases, iterators
under removals, pruning after mixing, one option of `lattice-tool` after another);
state overwritten while it is needed (mixing in place, weights recomputed level by
level, counts replaced by continuation counts); two copies of one thing (the ends
of a transition, the times beside the words of a hypothesis); what is kept from
one question to the next (trellises, denominators, caches, backoff weights); the
ends of ranges (full index range, zero-byte requests, zero numerators, zero
counts, empty lists); processes that end at any moment, messages cut anywhere. The
hazards with their lines are in `PROJECT.json`.

## 2. The modules

| Module | Models | Kind |
|---|---|---|
| `Allocator` | what callers expect of an allocator | abstract |
| `BlockMalloc` | `BlockMalloc.cc` | implements `Allocator` |
| `Map` | a dictionary with iterators (`Map.h`) | abstract |
| `LHash`, `SArray` | `LHash.cc`, `SArray.cc` | implement `Map` |
| `PriorityQueue` | a double-ended priority queue | abstract |
| `IntervalHeap` | `IntervalHeap.cc` | implements `PriorityQueue` |
| `XCount` | `XCount.cc` | detailed |
| `Vocab` | `Vocab.cc` | detailed |
| `Rational` | exact fractions for log probabilities; a division by zero gives `<<1, 0>>`, zero by zero the not-a-number `<<0, 0>>` | operators |
| `Discounts` | `Discount.cc` | operators |
| `Discounting` | `ngram-count.cc` from the counts to the discounts, and what `Ngram::estimate` prepares | detailed |
| `NgramCounts` | `Trie.cc`, `NgramStats.cc`, `Counts.cc`, as `ngram-count.cc` calls them, with `Discounting` | detailed; composition |
| `NgramLM` | `NgramLM.cc`, as `ngram-count` and `ngram` call it | detailed |
| `HiddenModels` | `ClassNgram.cc`, `HiddenNgram.cc`, `DFNgram.cc`, `HMMofNgrams.cc`, `Trellis.cc` | operators |
| `Scoring` | `CacheLM.cc`, `DynamicLM.cc`, `AdaptiveMix.cc`, `BayesMix.cc`, `LoglinearMix.cc`, `AdaptiveMarginals.cc`, and `LM.cc` over stacks of these and of `HiddenModels` | composition |
| `Tagging` | `disambig.cc`, `hidden-ngram.cc`, `segment.cc`, `VocabMap.cc` | detailed |
| `ProbServer` | `LM::probServer` and the line protocol of `RemoteLM.h` | detailed |
| `LMService` | an LM as its users see it | abstract |
| `LMClient` | `LMClient.cc` with `ProbServer` | composition; implements `LMService` |
| `Lattice` | `Lattice.cc`, `LatticeReduce.cc`, `LatticeExpand.cc`: the graph and what rebuilds it | operators |
| `LatticeScores` | `LatticeNBest.cc`, `LatticeDecode.cc`, `LatticeNgrams.cc`, `LatticeIndex.cc`, `LatticeAlign.cc`, `LatticeLM.cc`, the sums and searches of `Lattice.cc` | operators |
| `LatticeFiles` | PFSG files (`Lattice.cc`), HTK files (`HTKLattice.cc`) | operators |
| `LatticeTool` | `lattice-tool.cc`: the steps of `processLattice` | composition |
| `WordMesh` | `WordMesh.cc`, `WordAlign.cc` | operators |
| `WordLattice` | `WordLattice.cc` | operators |
| `NBestTool` | `NBest.cc`, `nbest-lattice.cc`, the rescoring of `ngram.cc` | composition |
| `FNgramLM` | `FNgramSpecs.cc`, `FactoredVocab.cc`, `FNgramStats.cc`, `FDiscount.cc`, `FNgramLM.cc`, `fngram-count.cc`, `fngram.cc` | composition |
| `Loops` | | lemmas: least elements, loops as recursive functions |
| `BlockMalloc_proofs`, `Containers_proofs` (`LHash` and `IntervalHeap`), `SArray_proofs`, `Counts_proofs` (`Discounting` and `XCount`), `Vocab_proofs`, `LMClient_proofs` (with those about `ProbServer`), `NgramLM_proofs` | | theorems |

Each `MC` module EXTENDS one of these (`MCContainers`, with the containers and the
allocator, and `MCScoring` bring several together, each behavior being one of the
machines) and defines the small sets that its configurations name, and for lattices,
hypotheses and taggers what the results are compared with: enumerations of all paths,
alignments or sequences of tags.

**BlockMalloc.** `mallocHeap` is malloc's view of blocks, `mallocList` and `freeLists`
are the thread-local arrays of the same names, `held` is what the program has.
`MallocLarge`, `MallocCached` and `MallocBlock` are the three paths through
`BM_malloc`; `Free` and `FreeThread` are `BM_free` and `BM_freeThread`. Freed
memory that is touched sets `fault`. A build without thread-local storage is
`NoTLS`: one thread, and TLSW_FREE does nothing. What the callers may do is a
parameter: `HandOver` (free another thread's chunk), `Exiting` (threads that call
`BM_freeThread`, which they do when they hold nothing).

**LHash, SArray.** `body` is the body pointer and what it points to, with junk
where the code leaves memory uninitialised. The iterators keep saved keys or
positions as the code does; `Left` is what an iterator has still to deliver, and is
what it maps to in `Map`. The searches of `SArray` and, in `LHash`, the rehashing of a
table (`Rehashed`) and the loop of a removal (`Closed`, a `Visit` per slot) are
functions of the number of rounds of the code's loop, so that they can be reasoned
about. A search along a probe chain is the least number of collisions at which it
stops (`Probe`, `Locate`). Tables have no more slots than the hash code tells apart
(`SizeAssumption`), which `alloc` asserts of `LHash_maxBitLimit` (`LHash.cc:130`);
`HashShift` is 30 in the code. Hash codes are the code's expression over keys chosen
to collide at the end of the table; `minHashBits` is lowered from 3 to 2 and the
growth factor raised from 1.1 to 2 so that the mode switch and a growth by
several slots occur among four keys. Callers keep to the documented rules: nothing
is inserted during an iteration and only the current entry is removed.

**IntervalHeap.** `size` and `heap` are the members. `Climb` is the loop of `push`
and `Sink` that of `pop_min` and `pop_max`, each with the end of the interval it is
about as a parameter, and each a function of the number of rounds. Elements are
distinct pointers whose ranks may tie.

**XCount.** `object` holds the bits of each count, `table`, `refs` and `freeList` the
static table; `meant` is a history variable, the number each object should have.

**Vocab.** The record `vocab` holds the data members; operations are operators on
the record (`Added`, `Dropped`, `Aliased`...) and actions that apply them, so that
index-map files and proofs use the same definitions. `fault` is the null pointer
that reaches `strcmp`. Nothing is asked of the callers: a word with an alias may be
removed, and the range may be full.

**NgramCounts, Discounting, Discounts.** `counts` is the trie, a function on a
prefix-closed set of N-grams; iteration by level (`TrieIter2`) is a fold that keeps
the keys each stacked iterator saved, so that removals under it have the code's
effect. One action per option of `ngram-count` that touches counts: sentences with
weights, count files, Google-style directories, minimum counts with metacounts,
intersection, sums, pruning. `text` and `pure` remember what was counted, for the
properties. Discounting then takes one step per order: a discount is estimated,
from a file or from counts of counts, after `prepareCounts` where it comes first,
and the model's estimation prepares what is still to be prepared. `Discounting` is a
module of its own, in which gathering is any step to the counts of finitely many
N-grams (`Gather`); that `NgramCounts` leaves such counts is part of `CountsRight`.

**NgramLM.** `lm.prob` maps explicit N-grams to probabilities and `lm.bow` the
context nodes to weights; both are keyed nearest word first, as the trie is.
The module's assumptions say what the code sees to: counts are not negative, no
discount coefficient is (`Discount.cc` rejects or resets those that are out of range),
`-lambda` and `-minbackoff` are at most one, and N-grams of one word are never pruned
(`ngram(1)`: the minimum of `-minprune` is 2).
Probabilities are exact fractions. Each method is an operator on a model, and the
loops over levels are recursive functions in the code's order of levels. The
estimator is whole: the discount formulas, interpolation, the two kinds of retry,
weights per level, `fixupProbs`. What an operation needs of the outside is a
parameter: corpora, discounts, mixture weights. Which N-grams fall below
`-prune`'s perplexity threshold is left open (any set of up to `MaxPruned`).

**HiddenModels, Scoring.** A model is a tree of records as `ngram.cc`
stacks the objects, and what changes in it a tree of the same shape. Every answer is
a pair of a probability and the state after it, so that questions that disturb the
state are seen to do so. `Scoring` keeps two copies: `state` is asked as the debug
level demands (sums, ranks, traces), `quiet` only for the probabilities. A trellis
kept in a hidden model is the words it was computed for and its slices.

**Tagging.** The three programs share the trellis and differ in its nodes; a command
line is a record. Reading the map or the events, the text line by line (or as one
with `-continuous`), the forward steps, the report of the best sequences, the
backward steps and the report of posteriors and counts are actions.

**ProbServer, LMClient.** A stream is a sequence of tokens, so that a message can be
cut between any two of them. `server` is the main process's place in its loop,
`handler[c]` the process behind a connection, `backlog` the listen queue; with
`MaxClients = 1` the main process is the handler. Sleeping five seconds is a
stutter. A client may vanish and a child be killed at any time, a send to a vanished
client fails or not (the kernel may not know yet), accept and fork may fail. What
the served model computes is left open: the answer to a query is the query itself,
so that an answer is right exactly when it answers its own question. `LMClient`
replaces the environment of `ProbServer` by the real client.

**Lattice, LatticeScores, LatticeFiles, LatticeTool.** A lattice has
both copies of each transition, which the operators change one after the other as
the code does. Weights multiply, as probabilities do; the few places where sums of
logarithms matter use small integers. `LatticeTool` has one action per option, in the
order of `processLattice`; `origin` is the lattice before the model was applied.
What only looks at a lattice is an operator, asked of every reachable lattice.

**WordMesh, WordLattice, NBestTool.** Posteriors are integers out of the sum
over the list. A mesh is a sequence of columns with the order in which they are
visited; a word lattice is nodes, links and alignment positions. `NBestTool` has the
stages of `nbest-lattice` as actions: read, rescore, rank, prime, align hypothesis
by hypothesis until enough mass is in, take the priming out, choose, compare with a
reference, write.

**FNgramLM.** A specification is built into a backoff graph with the
code's checks (what it rejects ends the program). A context is a function from the
parents of a node to words. Two processes run one after the other: `fngram-count`
counts, writes counts, estimates and writes models; `fngram` reads counts and models
and scores. The backoff weight that a question stores in the model is `Kept`.

## 3. The runs

Bounds are in the `.cfg` files; the ones that matter are named here.

| Run | Question | Bounds and why they are enough |
|---|---|---|
| `containers` | probe chains, exact count, a free slot, packed and sorted arrays, deletions seen (`TablesSound`); both tables implement `Map` and the heap `PriorityQueue`; large counts kept; of the allocator, one owner per chunk, nothing used after it was freed, chunks inside blocks and disjoint (refinement of `Allocator`), threads that leave | one container, or the allocator, per behavior; four keys that collide in 1, 2, 4 and 8 slots and wrap around; one iterator; seven elements in four nodes with two pairs of ties; three counts and a temporary in a table of four, counts of two sizes; two threads that free what they allocated, two blocks of 4 words, chunks of 1 and 2 words, requests of 0 (wraps), 8 and 9 bytes: every path, both roundings, refill and exit in every order |
| `counts` | counts are the text's and files read back in every format (`CountsRight`), merging adds, filters drop exactly what they say, continuation counts, conservation of mass | order 3, two kinds of counts, four sentences (with markers inside, empty, with an unknown word), three files (one cut off), a directory of files in which ranges must be skipped, seven ways of discounting; two operations before discounting |
| `lattice` | both ends of transitions agree; what can be said stays, or some of it when nodes are pruned; models weigh paths as they should; posteriors, pruning, errors, decoding, N-best lists, N-gram counts and meshes are those of the paths; files read back | nine PFSG lattices (pauses, loops, multiwords, dead ends, duplicates, nesting), one with times, one from a mesh, four from HTK files; any two options, the second on lattices of up to five nodes; a trigram model with different backoff weights |
| `hyps` | every hypothesis can be read off an alignment, positions have the same mass, chosen words have least expected error, reported errors are true, lists, meshes and lattices read back | every triple of six strings (one empty, one repeated), a list of five, a list in each format; fifteen command lines |
| `scoring` | printing and asking change nothing; reused trellises and denominators answer as new ones; words sum to one; taggers report what all sequences say | thirteen stacks of models, four sentences, counts, five `setState` lines, four contexts, any two steps; fifteen command lines of the taggers |
| `loglinear` | a denominator is for the context at hand | a log-linear mixture of two class models; violated |
| `vocab` | maps in step both ways, tags only on defined words, stability of indices, index maps of files | range for the four special words and two more, so that it fills up; two spellings, a good and a malformed metatag; every call in every order |
| `probserver` | limit and count of children; connections move on: everyone is greeted, children end | three clients (the least that makes one wait) for two places; two of them send, killed children and failing calls |
| `lmclient` | replies, from the server or a cache, are what the server makes of the call's own arguments (`AnswersAsServed`); refinement of `LMService`, with its calls that return | eleven calls that the caches must tell apart: probabilities, context IDs with and without a word, weights, each with contexts that are empty, shorter and longer than the order; killed children |
| `remoteids` | every reply is what the model computes for the call's arguments | the same calls without caches; violated by a context ID for a word |
| `ngram` | distribution, writable, read back at each order, context IDs, mass for unseen words, mixing, low pruning | words a, b, `<s>`, `</s>`, trigrams; five corpora, one of them a count file whose trie holds N-grams with counts of zero, three settings that cover each discounting method, interpolation and mincounts; an estimate and two operations, so every pair of operations on every estimated model. More would exceed the 32-bit integers TLC computes the fractions with (it reports that) |
| `flm` | estimates sum to one, another process answers the same whatever was asked before | twelve specifications: each way to choose and combine nodes, constraints, weights, Kneser-Ney up the graph, a parent in the future, two models at once; two lines to count and two to score |

Where `CHECK_DEADLOCK FALSE` stands, the system may stop: the program died of a null
string, all clients have gone or the server was stopped, the options or operations
were done.

**Fairness** is assumed only for processes and sockets. The main process and each
child are weakly fair in the steps they can take: the operating system schedules
them, `accept` and `recv` wake when there is something to deliver, and the end of
a connection is delivered by TCP. Accept and fork failures and kills are not fair.
In `ProbServer!Spec` clients need not connect or send, but close in the end, which
is what the limit needs in order to be lifted; in `LMClient` a client that waits
for a reply keeps receiving, and need not call, connect or leave.

### Disagreements met

The run `loglinear` is expected to end in a violation: a comment in
`LoglinearMix.cc` (line 110) says that the context stays the same for the words it
sums over, but a component after one that gives the word no probability was not
asked for this context and answers for an earlier one. The sum is then kept.

So is the run `remoteids`. `RemoteLM.h` (line 24) says that the request of a context ID
for a word is "C2 context word". The server counts the `C2` among the words of the
line and so takes the terminator behind the last index for the word (`LM.cc:1295`):
the word stays in the context, and every context ID that a client asks for with a
word is that of no word after the context that the word makes longer. What tools
that merge histories by context IDs make of it depends on the model.
`AnswersAsServed` states what the client can rely on beside this.

Other places where the code does less than its documentation or comments say, or
depends on its callers, are no runs of their own. The models have the code's
behaviour; the properties are stated so that they hold beside it.

N-gram models and the vocabulary:

- `NgramLM.cc:1733`: a pointer is tested instead of the count, so the zero counts of
  a count trie, "artifacts", count as observed words. Where they are all that is
  missing after a context there is no retry, and the words not seen may be left
  without probability; `UnseenWordsGetMass` has this as its exception
  (`ZerosTakenAsSeen`), and one of the run's corpora has such counts.
- `NgramLM.cc:2544`: `pruneLowProbs` stops when a pass prunes nothing, but that pass
  still changes the weights; N-grams below their backed-off estimates can stay.
  `LowProbsPruned` is about models that come with recomputed weights.
- Kneser-Ney metacounts ignore the value of `*count` (`Discount.cc:372`, `560`).
- With parameters from a file for one order (`-kn1 FILE -lm`) and estimated ones for the
  next, the lower order is changed last, from counts that are changed already
  (`ngram-count.cc:627`, `NgramLM.cc:1684`; `Discount.cc:455` tests them). If the counts are
  complete this makes no difference, since a changed count is positive if the old one
  was; if longer N-grams were cut off, N-grams are missed. The run has files from some
  order upwards; `ContinuationCountsRight` has this as its hypothesis.
- `Vocab`: a `-vocab-aliases` file whose lines chain removes a word that an earlier
  alias names, and the next line for that alias passes a null string to `strcmp`
  (`fault`); a word added to a full range is found as index 0 from then on, the
  exception of `RoundTrip`; `getIndex` of a metatag extends the vocabulary.
- `readMinCounts` takes no notice of `limitVocab`, and `read` stops without a
  message at a line it cannot parse.

The server and its client:

- With `-server-maxclients 1` a client that leaves before a reply is sent ends the
  server (`LM.cc:1337`), which should "continue accepting connections" (man/man1/ngram.1).
- A request that `recv` delivers in two pieces is answered as two (`Splits`), after
  which replies and requests are out of step; run and theorems about the client take
  requests in one piece. `LMClient` with caches starts with the null pointer as
  context ID of the empty context, whatever the server's is (`NullID`), so that this
  may be the answer to a call with the empty context (`MadeUp`).

Scoring and taggers:

- A sentence scored in one go does not count a last word of probability zero;
  `DFNgram` loses the words before an unknown one (`DFNgram.cc:533`, which says so).
- `HiddenNgram`'s deletion event overwrites the context of the word itself, so that
  sums differ from one with it; `AdaptiveMarginals` and `LoglinearMix` over a model
  that adapts keep denominators of its earlier state.
- `countsProb` asks for sums after the probability and `sentenceProb` before it; the
  `setState` lines of `AdaptiveMix` and `DynamicLM` both get every line.
- `disambig`: the N-best lists of a trellis are padded with blank hypotheses that are
  passed on (`Trellis.cc:174`), so `-nbest` prints sequences of probability zero
  when there are fewer; with `-fb` "expected counts" (man/man1/disambig.1) are the
  exponential of the posterior, so that each possible tag counts 1
  (`disambig.cc:524`); `-write-vocab1` and `-write-vocab2` are swapped
  (`disambig.cc:1062`).
- `segment`: the bias is applied twice at the first position and never at the last;
  a one-word sentence never gets a boundary from posteriors (`segment.cc:189`).

Lattices and hypotheses:

- The mark of a direct connection, which `recoverPause` puts back beside a pause, is
  only set where one transition joins another (`Lattice.cc:588`); a direct way
  through an empty node has no mark, and is lost when the empty node is removed
  before the pause is put back (2417).
- The older trigram algorithm leaves a transition from the initial to the final node
  its old weight, reads a flag that is never set for loops (`LatticeExpand.cc:460`;
  the model takes its value from `Stray`), and where two words share a duplicated
  node because it leads the same way with the same weight (149), further
  transitions out of it have the weight of the word that came first (190) and not
  p(v | u, w) of the comment at 735. The run's lattices have no such equal weights.
- `decodeNBest` takes no notice of its floor (`LatticeDecode.cc:996`), its hypotheses
  are not unique (the comment at 1038 says so), and contexts are compared as
  prefixes; `computeNBest` with one hypothesis drops the better of two.
- `alignLattice` does not reset the probability to the last word
  (`LatticeAlign.cc:84`), so that two nodes of a path can share a position; N-gram
  contexts that differ in their times are merged from order 3 on
  (`LatticeNgrams.cc:132`).
- HTK files: a header is copied without its log base and flags; a repeated node line
  loses the links before it; nodes written as links lose the scores behind them; the
  final node takes over all scores of the end node, so that a second round doubles
  them; splitting by pronunciations drops all but the last transition.
- `NBestList::wordError` swaps reference and hypothesis (`NBest.cc:1520`), so that
  insertions are reported as deletions; `acousticDenorm`, which should restore the
  scores (1493), subtracts from the total what it should add (1502);
  `WordLattice::read` does not restore the number of alignments; the test for the
  "no viterbi" option is always true (`WordLattice.cc:977`), so the search for the
  path of least error below it never runs.

Factored models:

- `<s>` and `</s>` get each other's names in a factored vocabulary's special words
  (`FNgramSpecs.cc:1357`); the norms by sums of cardinalities and of their logarithms
  are swapped (406), and the latter mixes natural and decimal logarithms
  (1806, 1818); `combine wmean` swallows the next option (1133-1172).
- `insertTrieNodeSubCtx` always reports that the node was there, and
  `removeBOWSubCtx` never advances.
- `computeBOWs` (2057) gives a context with numerator 0 the weight one, so that its
  sum exceeds one, and contexts without mass a weight that depends on the number of
  children; `Normalized` excludes contexts that are saturated.
- Kneser-Ney counts of N-grams that begin with `<s>` get the new count on top of the
  old one (`FDiscount.cc:255`-`324`); counts written after discounting are modified twice
  when read unless `-kn-counts-modified` is given.

Containers, found in the first models:

- `BM_freeThread` twice, as README-THREADS asks of a thread that uses both
  libraries: in a `NO_TLS` build (`NoTLS = TRUE`) `TLSW_FREE` does nothing, and
  the second call frees every block again (`fault`).
- Two `SArray` iterators at once (`Iters` with two members): the mark of a deletion is
  one bit of the array, which the start and each step of any iterator clear. If the
  current entry of one is removed and then another is started, the first passes over
  the entry that moved into its place. The run has one iterator.
- A full table of large counts (`XCount.cc:50`): the chain of free entries ends with
  entry 0 pointing to itself, and the assertion that the table is not empty compares
  with another end mark and never fails, so that entry 0 is given out to several
  counts (`MaxInline = 2` shows it against `CountsKept`). The increment of a 16-bit
  count (`NgramStats.cc:159`) wraps without a test; `NgramCounts` has no widths.

## 4. What is proved

The theorems hold for every value of the constants that satisfies the modules'
assumptions and the hypotheses named below. Each rests on an inductive
invariant, shown by a lemma per action. The allocator, the hash table, the sorted
array and the heap are shown to implement their abstract specifications, and the
remote model the safety part of its own.

**Loops.** What a loop computes is not an operator that calls itself but a
function of the number of rounds, `s[r \in 0 .. n]`. `LeastElement` gives induction on
sets of numbers; from it follow that such functions exist and are unique
(`RoundsExist`, `RoundsUnique`) and how a loop rests once its test fails. The loop
invariants of the proofs below are sets of rounds that contain 0 and with each
round the next (`StepsExist` is for loops whose round needs its number).
`RecursionDefines` shows, by `MeasureInduction`, that a recursive definition whose
body looks only at smaller arguments has a function that satisfies it.

**BlockMalloc_proofs** (hypothesis `Disciplined`: no thread leaves if chunks change
hands or there is no thread-local storage; the run has no chunks that change hands,
so that only the theorems cover them). `SingleOwner` alone is not inductive: a
chunk freshly carved could already be on a list, if the block malloc() delivered
were one the lists still name. `IInv` therefore says to which thread's blocks each
chunk on a list or in use belongs (`ListHome`, `HeldHome`), that these blocks are
live (`BlocksLive`) and belong to one thread (`BlocksApart`). Carving takes an
unused block, hence one that no chunk names; leaving frees only blocks whose
chunks are on the lists that are dropped. `ChunksHaveOneOwner` and
`NoFreedMemoryUsed` follow. For `BlockMallocAllocates`, the refinement of
`Allocator`, `CInv` adds that a block was carved for one class, and that each of its
chunks is within it at a multiple of that class's size: chunks of a block are then
disjoint, and what is given out is as large as was asked for, after both roundings.

**Containers_proofs, LHash** (nothing but the module's assumptions: no two keys with one rank,
keys that fit in a table). The inductive invariant is `Inv`: the body is a `Table`, and
the iterators hold distinct keys, of which those still to come are in the table. A
`Table` has each key once (`Unique`); in a hashed one every slot on the way from a
key's hash index to its place is in use (`Linked`) and one slot is free, in a small
one the used slots are the first; and `n` counts them. From `Unique` and `Linked` a
search ends where the key is, or at the free slot where it belongs (`UsedLocated`,
`AbsentLocated`), and putting an entry there keeps both (`PutOrdered`), so that
rehashing does (`RehashedMoved`). A removal breaks `Linked`: while its loop runs, all
that holds is that no way leads over the hole except to entries the loop has still to
look at (`Hole`). A visited entry that the search does not find has its way over the
hole, so it moves into it and leaves a hole further on (`HoleMoves`); otherwise it
stays (`HoleStays`); and at the first free slot, which lies ahead because there was
one before the removal (`FreeAhead`), the hole hides nothing any more (`HoleEnds`).
`TablesStayOrdered` states the four invariants of the run. For `HashIsMap`, the
refinement of `Map`, each action is followed with its effect on the contents
(`MapStep`): growing, moving and copying change none, and the next key of an
iterator, sorted or not, is one it has not delivered.

**SArray_proofs** (hypothesis `OrderAssumption`: a strict total order on keys). The
invariant is `BodyInv`, the filled part of the array is in strictly increasing order
and within its allocation, and for each iterator `Ready`: its position, the entries
it counted and the deletion it has still to notice agree with the array. The binary
search ends at the one place where a key is or belongs (`ArrayStaysPacked` follows),
and a removal moves exactly the entries behind it. `DeletionsAreSeen` and the
refinement `ArrayIsMap` also need `OneIterator`: the mark of a deletion is one bit of
the array, so that two iterators take it from each other (section 3). The run has
one iterator for the same reason.

**Containers_proofs, IntervalHeap** (nothing but the module's assumptions). `HeapInv`: the
elements are those put in, none twice; each interval is within its parent's; an odd
last node is a point. `Climbing` and `Sinking` are the invariants of the two loops,
with one node at which the order may be disturbed. `IntervalsNested` and, since an
interval that contains all others starts at the root, `HeapIsQueue` follow.

**Counts_proofs, Discounting** (hypothesis `FilesUpwards`: counts read are not changed
yet, and where parameters of Kneser-Ney smoothing come from a file, so do those above,
the highest order excepted). `ContinuationCounts` speaks of the end only. The
invariant says for every step which orders are changed by now: `counts` is
`ChangedIn(ChangedBefore(stage))`, a function of the original counts alone, and each
discount's mark is whether its own order is among them. One order more is right as
long as the next one is not changed (`PreparedIs`), since the N-grams one word longer
are then the original ones, as many with a given end as there are words before it
(`CountedBefore`, by a bijection). Estimating goes upwards, so the next order is still
as it was; what is left for the model's estimation are the orders with files, by the
hypothesis followed by such orders or by the highest, and an induction over them shows
that the recursive definition of the loop is `ChangedIn` (`PreparedForModelIs`). What
estimation computes is not looked at, only that it changes nothing but parameters.

**Counts_proofs, XCount** (hypothesis `Roomy`: fewer counts than `maxXCountTableIndex`). The
free entries are a chain without repetitions from `freeList` to the end mark, all
others have as many references as there are counts that name them (`HeapOK`); a
count is then what it was made to be, also when assigning to it frees its own entry
(`CountsAlwaysKept`). Without `Roomy` it does not hold: the code does not notice that
the table is full, and counts come to share an entry (section 3).

**NgramLM_proofs** (nothing but the module's assumptions, so any finite vocabulary, any
order, corpora, discounts and options). The inductive invariant is `Inv`: the model is
in `Models`, and once there was an estimate it is `Writable`. `Models` are the tries
that the walks of `wordProbBO` and `contextID` need, closed under prefixes and with the
context of each N-gram as a node, and with no negative number in them (`ModelKept`;
`TypeCorrect` is the part the code can be asked about). Each operation has a lemma,
and it needs one for each of its loops over orders. Two are not obvious. `fixupProbs`
inserts probabilities while going up the orders, and it is by their beginnings and
ends that what it inserts has its contexts, too (`EndsCovered`, `AddedCovered`).
`pruneProbs` and `pruneLowProbs` take nodes away with the N-grams, which is sound
because only nodes without N-grams and without longer nodes go (`WithoutModel`,
`EmptiedModel`). That no weight is negative does not need the sums to be right:
`BOWPartsType` shows for any two sums that the numerator, after the branches of
`computeBOW` for rounding and minimum masses, is not, or that the weight is made zero.
The arithmetic is proved, from Euclid's algorithm as a recursive function on pairs
(`GcdIs`) to the folds over sums and products (`FoldDefines`, `FoldStays`).
- `ContextIDSufficesAlways`: the walk down the trie ends at one depth only
  (`DepthUnique`), from all of the history and from the part `contextID` names alike
  (`WholeWalk`), and two walks that meet the same nodes and N-grams give the same
  answer (`SameAnswers`). The second half cuts the product of weights in two
  (`ContextOfWordSuffices`).
- `ReadsBackAlways`: after each section of the file the model that `read` builds has the
  N-grams and nodes of the one written up to that length, with their probabilities and
  weights (`ReadUpTo`, by induction over the sections, `ReadRoundReads`). This is where
  `Writable` is needed: the weight of a context stands on the line of its own N-gram.
  Only the weight of the empty context is not in the file, and a walk from `n - 1`
  words multiplies neither it nor the weights that a model of order `n` has no nodes
  for (`ReadPredicts`).

**Vocab_proofs** (nothing but the module's assumptions). `IInv` adds to the types that
the maps agree in both directions: on defined indices, and on strings that are no
aliases, with the exception of strings that came when the range was full. Each
operator on a vocabulary has its own lemma, since constructor, `-map-unk` and actions
share them. `TypeCorrect`, `MapsInStep` and `IndicesStable` (an action property:
removed indices are never given out again, because `nextIndex` only grows and cells
are only cleared) follow. `IndexMapsReadBack`: a file
written from one vocabulary and read into another takes each index to its own word.
It needs `Marked`, that non-events, metatags and special words only name words that
are there and that words are stored as the vocabulary spells them; that reading
never fills the range, since a file has no more lines than the vocabulary it was
written from; and an induction over the lines.

**LMClient_proofs**. The first part is about `ProbServer` alone and uses no assumption
of `LMClient`. `ChildrenAlwaysCounted` needs that a queued client has no process yet
(`Queued`) and that the main process serves nobody beside children (`Alone`);
`LimitKept` needs `Room`: between the test of the limit and `accept` the count can only
fall. Children are counted as cardinalities of sets, so the assumption that `Clients` is
finite is used. `RepliesAsServed` is about client and server together: every reply a
call returns is what the server makes of the arguments of this call (`AnswersAsServed`),
for context IDs with a word those of the server's own reading of the request (section
3). Its invariant `CInv` says, for every state of a client's connection, what the two
streams hold: the banner, one request, or one reply, and that the handler is at the
place in its loop that goes with it (`ConnectionsInStep`); and that the caches hold what
the server answers to the calls they are for, or the null pointer they start out with.
Of the calls the hypothesis `Protocol` only asks that weights are for lengths up to
three, since numerals are tokens: with and without a word, with any context, for any
order of the client and its caches. It excludes what the protocol itself does not
survive: words that look like a newline or a missing word, and a request that `recv`
delivers in two pieces (`Splits`, a disagreement listed above).

**Only model-checked**: liveness, hence `ImplementsService` (its safety part is
`RepliesAsServed`) and `ConnectionsMoveOn`, since ENABLED is out of the prover's
reach; of `NgramLM`, what says that sums of fractions come out right (`Normalized`,
`UnseenWordsGetMass`, `MixIsMixture`, whose N-grams `computeBOWs` may scale, and
`LowProbsPruned`, which needs that recomputing weights twice changes nothing): sums
are folds in an arbitrary order, and that they do not depend on it is an induction
over sets of terms with fractions in lowest terms that the provers do not carry;
everything whose meaning is a sum or a maximum over paths, alignments, tags or words
(counting from text, scoring, lattices, meshes, factored models), which are RECURSIVE
operators that the prover does not take; and the two violations.

## 5. What is not modelled

`PROJECT.json` lists every component with its reason. In the modelled ones:

- Everywhere: floating point (weights are exact fractions or integers, so that drift
  and the tolerances for it are not seen), text parsing and formatting, statistics
  and debugging output, memory accounting.
- `NgramLM`: metatags and `<unk>` as a word, `limitVocab`, codebooks, `trustTotals`,
  class N-grams, binary files.
- `Scoring`: random generation, the ranks of `updateRanks` as numbers, entropies,
  open vocabularies, exponents other than zero and one, lists of mixture files,
  `HMMofNgrams::setState` reading a file again. Adaptive mixtures are checked with
  full decay and one iteration.
- `Tagging`: `segment-nbest`, `anti-ngram`, the output of `-keep-unk`, the empty
  N-gram that `hidden-ngram` counts after no event, models other than N-grams.
- `ProbServer`: the Windows variant; request lines longer than the buffer.
- Lattices: separate scales for the scores of HTK lattices in decoding, posteriors
  and quoting in HTK files, reading dictionaries, time limits and density options.
- N-best lists and meshes: times and phones of mesh words, distances between words
  other than equality in the runs, `NBestSet`, Bleu, `nbest-optimize`.
- Factored models: geometric means and norms by a sum of logarithms (irrational),
  metatags, parameter files of discounts, files per node, `ProductNgram`.
- `Vocab`: the helpers on arrays of words, which keep no state.

Maximum-entropy training, `nbest-optimize` and other numeric searches move vectors of
floats towards an optimum; nothing of that survives an abstraction small enough for
TLC. `zlib` is third-party code.

## 6. Plan

Done, in this order: containers and allocator, vocabulary, server and client, the
N-gram model; then counting and discounting, lattices, N-best lists and meshes,
factored models, mixtures, hidden models and taggers. Left, in order of what matters
most to users of the toolkit:

1. The rest of `NgramLM`: metatags, `<unk>`, `limitVocab`, `trustTotals`, binary files,
   the mixture of many models at once.
2. `NBestSet`, `ngram-merge`'s merging of sorted files, `ngram-class`'s bookkeeping of
   class bigrams during merging.
3. `SkipNgram` and `NgramCountLM` (estimation by expectation-maximisation keeps
   counts that must agree with the posteriors); `ClassNgram::expand`.
4. Proofs: that sums of fractions do not depend on their order, and with it
   `Normalized`; `GraphConsistent` for the
   operators of `Lattice` that insert and remove single nodes and transitions.
