-------------------------- MODULE BlockMalloc_proofs --------------------------
(***************************************************************************)
(* Proofs about BlockMalloc, for any number of threads, blocks, sizes and  *)
(* chunk classes: if threads call BM_freeThread only where the lists are   *)
(* thread-local and chunks are freed by the thread that allocated them,    *)
(* every chunk has one owner, no freed memory is used, and BM_malloc and   *)
(* BM_free implement Allocator.                                            *)
(***************************************************************************)
EXTENDS BlockMalloc, SequenceTheorems, FiniteSetTheorems, TLAPS

\* The uses of the allocator the theorems are about: BM_freeThread is called only
\* in a build with thread-local lists, and if no chunk changes hands.
Disciplined == NoTLS \/ HandOver => Exiting = {}

-----------------------------------------------------------------------------
(* Helpers: sizes, chunks and blocks. *)

\* A managed request falls into one of the chunk classes.
LEMMA ManagedClass ==
    ASSUME NEW n \in Sizes, Managed(n)
    PROVE  NWords(n) \in Classes
<1>1. n - 1 \in Int /\ SizeRange \in Nat \ {0} /\ WordSize \in Nat \ {0}
  BY WordsAssumption
<1>2. (n - 1) % SizeRange \in Nat
  BY <1>1
<1>3. ((n - 1) % SizeRange) \div WordSize \in Nat
  BY <1>1, <1>2
<1> QED BY <1>3, WordsAssumption DEF Managed, NWords, Classes

\* A block is carved into at least one chunk, all different, all of that block.
LEMMA ChunksFact ==
    ASSUME NEW b \in Blocks, NEW w \in Classes
    PROVE  /\ Chunks(b, w) \in Seq(Chunk)
           /\ Chunks(b, w) # <<>>
           /\ \A i \in DOMAIN Chunks(b, w) : Chunks(b, w)[i].blk = b
           /\ \A i, j \in DOMAIN Chunks(b, w) :
                 Chunks(b, w)[i] = Chunks(b, w)[j] => i = j
<1>1. w \in Nat \ {0} /\ w <= BlkSize /\ BlkSize \in Nat /\ w \in 0 .. MaxWords - 1
  BY WordsAssumption DEF Classes
<1>2. NChunks(w) \in Nat /\ NChunks(w) >= 1
  BY <1>1 DEF NChunks
<1>3. \A i \in 1 .. NChunks(w) : [blk |-> b, w |-> w, i |-> i - 1] \in Chunk
  BY <1>1, <1>2 DEF Chunk
<1>4. Chunks(b, w) \in [1 .. NChunks(w) -> Chunk]
  BY <1>3 DEF Chunks
<1>5. Chunks(b, w) \in Seq(Chunk) /\ Len(Chunks(b, w)) = NChunks(w)
  BY <1>2, <1>4
<1>6. Chunks(b, w) # <<>>
  BY <1>2, <1>5
<1>7. DOMAIN Chunks(b, w) = 1 .. NChunks(w)
  BY DEF Chunks
<1>8. \A i \in 1 .. NChunks(w) : Chunks(b, w)[i].blk = b /\ Chunks(b, w)[i].i = i - 1
  BY DEF Chunks
<1> QED BY <1>2, <1>5, <1>6, <1>7, <1>8

LEMMA BlocksOfType ==
    ASSUME MallocTypeOK, NEW t \in Threads
    PROVE  BlocksOf(t) \subseteq Blocks
<1> SUFFICES ASSUME NEW w \in Classes, NEW i \in DOMAIN mallocList[t][w]
             PROVE  mallocList[t][w][i] \in Blocks
  BY DEF BlocksOf, ToSet
<1>1. mallocList[t][w] \in Seq(Blocks)
  BY DEF MallocTypeOK
<1> QED BY <1>1

\* The elements of the tail of a sequence.
LEMMA TailSeq ==
    ASSUME NEW S, NEW q \in Seq(S), q # <<>>
    PROVE  \A i \in DOMAIN Tail(q) : /\ i \in Nat \ {0} /\ i + 1 \in DOMAIN q
                                    /\ Tail(q)[i] = q[i + 1]
<1>1. Len(q) \in Nat \ {0} /\ DOMAIN q = 1 .. Len(q)
  OBVIOUS
<1>2. DOMAIN Tail(q) = 1 .. Len(q) - 1 /\ \A i \in 1 .. Len(q) - 1 : Tail(q)[i] = q[i + 1]
  BY <1>1
<1> QED BY <1>1, <1>2

\* The elements of a sequence after a push at its front.
LEMMA PushSeq ==
    ASSUME NEW S, NEW q \in Seq(S), NEW e \in S
    PROVE  /\ <<e>> \o q \in Seq(S)
           /\ 1 \in DOMAIN (<<e>> \o q) /\ (<<e>> \o q)[1] = e
           /\ \A i \in DOMAIN q : i + 1 \in DOMAIN (<<e>> \o q) /\ (<<e>> \o q)[i + 1] = q[i]
           /\ \A i \in DOMAIN (<<e>> \o q) :
                 /\ i \in Nat \ {0}
                 /\ i # 1 => i - 1 \in DOMAIN q /\ (<<e>> \o q)[i] = q[i - 1]
<1> DEFINE p == <<e>> \o q
<1>1. <<e>> \in Seq(S) /\ Len(<<e>>) = 1 /\ <<e>>[1] = e
  OBVIOUS
<1>2. /\ p \in Seq(S) /\ Len(p) = 1 + Len(q)
      /\ \A i \in 1 .. 1 + Len(q) : p[i] = IF i <= 1 THEN <<e>>[i] ELSE q[i - 1]
  BY <1>1, ConcatProperties
<1>3. Len(q) \in Nat /\ DOMAIN q = 1 .. Len(q) /\ DOMAIN p = 1 .. 1 + Len(q)
  BY <1>2
<1> HIDE DEF p
<1>4. 1 \in DOMAIN p /\ p[1] = e
  BY <1>1, <1>2, <1>3
<1>5. \A i \in DOMAIN q : i + 1 \in DOMAIN p /\ p[i + 1] = q[i]
  BY <1>2, <1>3
<1>6. \A i \in DOMAIN p : i \in Nat \ {0} /\ (i # 1 => i - 1 \in DOMAIN q /\ p[i] = q[i - 1])
  BY <1>2, <1>3
<1> QED BY <1>2, <1>4, <1>5, <1>6 DEF p

LEMMA PushToSet ==
    ASSUME NEW S, NEW q \in Seq(S), NEW e \in S
    PROVE  ToSet(<<e>> \o q) = {e} \cup ToSet(q)
<1> DEFINE p == <<e>> \o q
<1>1. /\ 1 \in DOMAIN p /\ p[1] = e
      /\ \A i \in DOMAIN q : i + 1 \in DOMAIN p /\ p[i + 1] = q[i]
      /\ \A i \in DOMAIN p : i # 1 => i - 1 \in DOMAIN q /\ p[i] = q[i - 1]
  BY PushSeq
<1> HIDE DEF p
<1>2. ASSUME NEW i \in DOMAIN p PROVE p[i] \in {e} \cup {q[j] : j \in DOMAIN q}
  BY <1>1
<1>3. \A i \in DOMAIN q : q[i] \in {p[j] : j \in DOMAIN p}
  BY <1>1
<1>4. e \in {p[j] : j \in DOMAIN p}
  BY <1>1
<1>5. {p[j] : j \in DOMAIN p} = {e} \cup {q[j] : j \in DOMAIN q}
  BY <1>2, <1>3, <1>4
<1> QED BY <1>5 DEF ToSet, p

\* Pushing a block on a list of thread t adds it to the blocks of t only.
LEMMA PushBlock ==
    ASSUME MallocTypeOK, NEW t \in Threads, NEW w \in Classes, NEW b \in Blocks,
           mallocList' = [mallocList EXCEPT ![t][w] = <<b>> \o @]
    PROVE  \A u \in Threads : BlocksOf(u)' = IF u = t THEN BlocksOf(u) \cup {b} ELSE BlocksOf(u)
<1>1. mallocList \in [Threads -> [Classes -> Seq(Blocks)]]
  BY DEF MallocTypeOK
<1>2. \A u \in Threads, v \in Classes :
        mallocList'[u][v] = IF u = t /\ v = w THEN <<b>> \o mallocList[t][w] ELSE mallocList[u][v]
  BY <1>1
<1>3. ToSet(<<b>> \o mallocList[t][w]) = {b} \cup ToSet(mallocList[t][w])
  BY <1>1, PushToSet
<1>4. ASSUME NEW u \in Threads, u # t PROVE BlocksOf(u)' = BlocksOf(u)
  BY <1>2, <1>4 DEF BlocksOf
<1>5. BlocksOf(t)' = BlocksOf(t) \cup {b}
  <2>1. \A v \in Classes : ToSet(mallocList'[t][v]) =
            IF v = w THEN {b} \cup ToSet(mallocList[t][w]) ELSE ToSet(mallocList[t][v])
    <3> TAKE v \in Classes
    <3>1. CASE v = w
      <4>1. mallocList'[t][v] = <<b>> \o mallocList[t][w]
        BY <1>2, <3>1
      <4> QED BY <1>3, <3>1, <4>1
    <3>2. CASE v # w
      <4>1. mallocList'[t][v] = mallocList[t][v]
        BY <1>2, <3>2
      <4> QED BY <3>2, <4>1
    <3> QED BY <3>1, <3>2
  <2> QED BY <2>1 DEF BlocksOf
<1> QED BY <1>4, <1>5

LEMMA SlotType ==
    ASSUME MallocTypeOK, NEW s \in Slots
    PROVE  /\ s[1] \in Threads /\ s[2] \in Classes /\ s = <<s[1], s[2]>>
           /\ List(s) \in Seq(Chunk)
<1>1. PICK t \in Threads, w \in Classes : s = <<t, w>>
  BY DEF Slots
<1> QED BY <1>1 DEF List, MallocTypeOK

\* A chunk on a list, or a managed one in use, lies in a live block.
LEMMA BackedLive ==
    ASSUME BlocksLive, NEW t \in Threads, NEW b, Backed(t, b)
    PROVE  mallocHeap[b] = "live"
BY DEF Backed, BlocksLive

\* The block of a chunk in use is live.
LEMMA HeldLive ==
    ASSUME IInv, NEW h \in held
    PROVE  /\ h.by \in Threads /\ h.size \in Sizes
           /\ h.chunk \in Chunk /\ h.chunk.blk \in Blocks
           /\ mallocHeap[h.chunk.blk] = "live"
<1>1. h.by \in Threads /\ h.size \in Sizes /\ h.chunk \in Chunk /\ h.chunk.blk \in Blocks
  BY DEF IInv, MallocTypeOK, Chunk
<1>2. CASE Managed(h.size)
  BY <1>1, <1>2, BackedLive DEF IInv, HeldHome
<1>3. CASE ~Managed(h.size)
  BY <1>1, <1>3 DEF IInv, HeldHome, LiveChunk
<1> QED BY <1>1, <1>2, <1>3

\* The block of a chunk on a free list is live.
LEMMA ListLive ==
    ASSUME IInv, NEW s \in Slots, NEW i \in DOMAIN List(s)
    PROVE  mallocHeap[List(s)[i].blk] = "live"
<1>1. s[1] \in Threads
  BY SlotType DEF IInv
<1>2. Backed(s[1], List(s)[i].blk)
  BY DEF IInv, ListHome
<1> QED BY <1>1, <1>2, BackedLive DEF IInv

-----------------------------------------------------------------------------
(* Each action preserves the inductive invariant. *)

LEMMA LargeStep ==
    ASSUME IInv, NEW t \in Threads, NEW n \in Sizes, MallocLarge(t, n)
    PROVE  IInv'
<1>1. PICK b \in Blocks :
        /\ mallocHeap[b] = "unused"
        /\ mallocHeap' = [mallocHeap EXCEPT ![b] = "live"]
        /\ Hold(t, [blk |-> b, w |-> 0, i |-> 0], n)
  BY DEF MallocLarge
<1> DEFINE c == [blk |-> b, w |-> 0, i |-> 0]
           g == [chunk |-> c, size |-> n, by |-> t]
<1>2. held' = held \cup {g} /\ UNCHANGED <<mallocList, freeLists, fault>> /\ ~Managed(n)
  BY <1>1 DEF Hold, MallocLarge
<1>3. \A u \in Threads : BlocksOf(u)' = BlocksOf(u)
  BY <1>2 DEF BlocksOf
<1>4. \A u \in Threads : b \notin BlocksOf(u)
  BY <1>1 DEF IInv, BlocksLive
<1>5. \A x \in Blocks : mallocHeap[x] = "live" => mallocHeap'[x] = "live"
  BY <1>1 DEF IInv, MallocTypeOK
<1>6. \A h \in held : mallocHeap[h.chunk.blk] = "live" /\ h.chunk.blk \in Blocks
  BY HeldLive
<1>7. MallocTypeOK'
  <2>1. 0 \in 0 .. MaxWords - 1
    BY WordsAssumption
  <2>2. g \in [chunk : Chunk, size : Sizes, by : Threads]
    BY <2>1 DEF Chunk
  <2> QED BY <1>1, <1>2, <2>2 DEF IInv, MallocTypeOK
<1>8. \A s \in Slots : \A i \in DOMAIN List(s) : List(s)[i].blk # b
  BY <1>1, ListLive
<1>9. SingleOwner'
  <2>1. \A s \in Slots : List(s)' = List(s)
    BY <1>2 DEF List
  <2>2. \A h \in held : h.chunk # c
    BY <1>1, <1>6
  <2> QED BY <1>2, <1>8, <2>1, <2>2 DEF IInv, SingleOwner
<1>10. NoUseAfterFree'
  BY <1>2 DEF IInv, NoUseAfterFree
<1>11. BlocksLive'
  BY <1>3, <1>5, BlocksOfType DEF IInv, BlocksLive
<1>12. BlocksApart'
  BY <1>3 DEF IInv, BlocksApart
<1>13. ListHome'
  BY <1>2, <1>3 DEF IInv, ListHome, List, Backed
<1>14. HeldHome'
  <2> SUFFICES ASSUME NEW h \in held'
               PROVE  IF Managed(h.size)
                        THEN Backed(h.by, h.chunk.blk)'
                        ELSE /\ h.chunk = [blk |-> h.chunk.blk, w |-> 0, i |-> 0]
                             /\ LiveChunk(h.chunk)'
                             /\ \A u \in Threads : h.chunk.blk \notin BlocksOf(u)'
    BY DEF HeldHome
  <2>1. CASE h = g
    <3>1. LiveChunk(c)'
      BY <1>1 DEF IInv, MallocTypeOK, LiveChunk
    <3> QED BY <1>2, <1>3, <1>4, <2>1, <3>1
  <2>2. CASE h \in held
    BY <1>3, <1>5, <1>6, <2>2 DEF IInv, HeldHome, Backed, LiveChunk
  <2> QED BY <1>2, <2>1, <2>2
<1> QED BY <1>7, <1>9, <1>10, <1>11, <1>12, <1>13, <1>14 DEF IInv

LEMMA CachedStep ==
    ASSUME IInv, NEW t \in Threads, NEW n \in Sizes, MallocCached(t, n)
    PROVE  IInv'
<1> DEFINE w == NWords(n)
           z == <<t, w>>
           c == Head(freeLists[t][w])
           g == [chunk |-> c, size |-> n, by |-> t]
<1>1. w \in Classes /\ z \in Slots /\ List(z) = freeLists[t][w]
  BY ManagedClass DEF MallocCached, Slots, List
<1> HIDE DEF w
<1>2. /\ Managed(n)
      /\ List(z) # <<>>
      /\ freeLists' = [freeLists EXCEPT ![t][w] = Tail(@)]
      /\ held' = held \cup {g}
      /\ fault' = (fault \/ ~LiveChunk(c))
      /\ UNCHANGED <<mallocHeap, mallocList>>
  BY <1>1 DEF MallocCached, PopChunk, Hold, w
<1>3. List(z) \in Seq(Chunk) /\ 1 \in DOMAIN List(z) /\ c = List(z)[1] /\ c \in Chunk
  BY <1>1, <1>2, SlotType DEF IInv
<1>4. \A u \in Threads : BlocksOf(u)' = BlocksOf(u)
  BY <1>2 DEF BlocksOf
<1>5. /\ \A s \in Slots : s # z => List(s)' = List(s)
      /\ List(z)' = Tail(List(z))
  <2>1. freeLists \in [Threads -> [Classes -> Seq(Chunk)]]
    BY DEF IInv, MallocTypeOK
  <2> QED BY <1>1, <1>2, <2>1 DEF List, Slots
<1>6. \A i \in DOMAIN List(z)' : i + 1 \in DOMAIN List(z) /\ List(z)'[i] = List(z)[i + 1] /\ i \in Nat \ {0}
  BY <1>2, <1>3, <1>5, TailSeq
<1>7. \A s \in Slots : \A i \in DOMAIN List(s)' :
        \E j \in DOMAIN List(s) : /\ List(s)'[i] = List(s)[j]
                                  /\ s = z => j = i + 1 /\ i \in Nat \ {0}
                                  /\ s # z => j = i
  BY <1>5, <1>6
<1>8. MallocTypeOK'
  <2>1. Tail(List(z)) \in Seq(Chunk)
    BY <1>2, <1>3
  <2>2. g \in [chunk : Chunk, size : Sizes, by : Threads]
    BY <1>3
  <2>3. LiveChunk(c)
    BY <1>1, <1>3, ListLive DEF LiveChunk
  <2> QED BY <1>1, <1>2, <2>1, <2>2, <2>3 DEF IInv, MallocTypeOK
<1>9. SingleOwner'
  <2>1. ASSUME NEW r \in Slots, NEW s \in Slots,
               NEW i \in DOMAIN List(r)', NEW j \in DOMAIN List(s)', List(r)'[i] = List(s)'[j]
        PROVE  r = s /\ i = j
    <3>1. PICK k \in DOMAIN List(r) : /\ List(r)'[i] = List(r)[k]
                                      /\ r = z => k = i + 1 /\ i \in Nat \ {0}
                                      /\ r # z => k = i
      BY <1>7
    <3>2. PICK l \in DOMAIN List(s) : /\ List(s)'[j] = List(s)[l]
                                      /\ s = z => l = j + 1 /\ j \in Nat \ {0}
                                      /\ s # z => l = j
      BY <1>7
    <3>3. List(r)[k] = List(s)[l]
      BY <2>1, <3>1, <3>2
    <3>4. r = s /\ k = l
      BY <3>3 DEF IInv, SingleOwner
    <3> QED BY <3>1, <3>2, <3>4
  <2>2. ASSUME NEW s \in Slots, NEW h \in held', NEW i \in DOMAIN List(s)'
        PROVE  List(s)'[i] # h.chunk
    <3>1. PICK j \in DOMAIN List(s) : /\ List(s)'[i] = List(s)[j]
                                      /\ s = z => j = i + 1 /\ i \in Nat \ {0}
      BY <1>7
    <3>2. CASE h \in held
      BY <3>1, <3>2 DEF IInv, SingleOwner
    <3>3. CASE h = g
      <4>1. ~(s = z /\ j = 1)
        BY <3>1
      <4>2. List(s)[j] # List(z)[1]
        BY <1>1, <1>3, <4>1 DEF IInv, SingleOwner
      <4> QED BY <1>3, <3>1, <3>3, <4>2
    <3> QED BY <1>2, <3>2, <3>3
  <2>3. ASSUME NEW h \in held', NEW f \in held', h.chunk = f.chunk
        PROVE  h = f
    <3>1. \A x \in held : x.chunk # c
      BY <1>1, <1>3 DEF IInv, SingleOwner
    <3>2. g.chunk = c
      OBVIOUS
    <3> HIDE DEF g
    <3> QED BY <1>2, <2>3, <3>1, <3>2 DEF IInv, SingleOwner
  <2> QED BY <2>1, <2>2, <2>3 DEF SingleOwner
<1>10. NoUseAfterFree'
  BY <1>1, <1>2, <1>3, ListLive DEF IInv, NoUseAfterFree, LiveChunk
<1>11. BlocksLive'
  BY <1>2, <1>4 DEF IInv, BlocksLive
<1>12. BlocksApart'
  BY <1>4 DEF IInv, BlocksApart
<1>13. ListHome'
  BY <1>4, <1>7 DEF IInv, ListHome, Backed
<1>14. HeldHome'
  <2>1. Backed(t, c.blk)
    BY <1>1, <1>3 DEF IInv, ListHome
  <2> SUFFICES ASSUME NEW h \in held'
               PROVE  IF Managed(h.size)
                        THEN Backed(h.by, h.chunk.blk)
                        ELSE /\ h.chunk = [blk |-> h.chunk.blk, w |-> 0, i |-> 0]
                             /\ LiveChunk(h.chunk)
                             /\ \A u \in Threads : h.chunk.blk \notin BlocksOf(u)
    BY <1>2, <1>4 DEF HeldHome, Backed, LiveChunk
  <2>2. CASE h = g
    BY <1>2, <2>1, <2>2
  <2>3. CASE h \in held
    BY <2>3 DEF IInv, HeldHome
  <2> QED BY <1>2, <2>2, <2>3
<1> QED BY <1>8, <1>9, <1>10, <1>11, <1>12, <1>13, <1>14 DEF IInv

LEMMA BlockStep ==
    ASSUME IInv, NEW t \in Threads, NEW n \in Sizes, MallocBlock(t, n)
    PROVE  IInv'
<1> DEFINE w == NWords(n)
           z == <<t, w>>
<1>1. w \in Classes /\ z \in Slots /\ List(z) = freeLists[t][w]
  BY ManagedClass DEF MallocBlock, Slots, List
<1> HIDE DEF w
<1>2. PICK b \in Blocks :
        /\ mallocHeap[b] = "unused"
        /\ mallocHeap' = [mallocHeap EXCEPT ![b] = "live"]
        /\ mallocList' = [mallocList EXCEPT ![t][w] = <<b>> \o @]
        /\ freeLists' = [freeLists EXCEPT ![t][w] = Tail(Chunks(b, w))]
        /\ Hold(t, Head(Chunks(b, w)), n)
  BY DEF MallocBlock, w
<1> DEFINE q == Chunks(b, w)
           c == Head(q)
           g == [chunk |-> c, size |-> n, by |-> t]
<1>3. Managed(n) /\ List(z) = <<>> /\ held' = held \cup {g} /\ fault' = fault
  BY <1>1, <1>2 DEF MallocBlock, Hold, w
<1>4. /\ q \in Seq(Chunk) /\ q # <<>>
      /\ \A i \in DOMAIN q : q[i].blk = b
      /\ \A i, j \in DOMAIN q : q[i] = q[j] => i = j
  BY <1>1, ChunksFact
<1> HIDE DEF q
<1>5. c = q[1] /\ 1 \in DOMAIN q /\ c \in Chunk /\ c.blk = b /\ Tail(q) \in Seq(Chunk)
  BY <1>4
<1>6. \A u \in Threads : BlocksOf(u)' = IF u = t THEN BlocksOf(u) \cup {b} ELSE BlocksOf(u)
  BY <1>1, <1>2, PushBlock DEF IInv
<1>7. /\ \A s \in Slots : s # z => List(s)' = List(s)
      /\ List(z)' = Tail(q)
  <2>1. freeLists \in [Threads -> [Classes -> Seq(Chunk)]]
    BY DEF IInv, MallocTypeOK
  <2> QED BY <1>1, <1>2, <2>1 DEF List, Slots, q
<1>8. \A i \in DOMAIN List(z)' : /\ i \in Nat \ {0} /\ i + 1 \in DOMAIN q
                                 /\ List(z)'[i] = q[i + 1] /\ List(z)'[i].blk = b
  <2>1. \A i \in DOMAIN Tail(q) : /\ i \in Nat \ {0} /\ i + 1 \in DOMAIN q
                                 /\ Tail(q)[i] = q[i + 1]
    BY <1>4, TailSeq
  <2> SUFFICES ASSUME NEW i \in DOMAIN List(z)'
               PROVE  /\ i \in Nat \ {0} /\ i + 1 \in DOMAIN q
                      /\ List(z)'[i] = q[i + 1] /\ List(z)'[i].blk = b
    OBVIOUS
  <2>2. i \in DOMAIN Tail(q) /\ List(z)'[i] = Tail(q)[i]
    BY <1>7
  <2>3. i \in Nat \ {0} /\ i + 1 \in DOMAIN q /\ List(z)'[i] = q[i + 1]
    BY <2>1, <2>2
  <2> QED BY <1>4, <2>3
<1>9. /\ \A s \in Slots : \A i \in DOMAIN List(s) : List(s)[i].blk # b
      /\ \A h \in held : h.chunk.blk # b /\ h.chunk.blk \in Blocks
  BY <1>2, ListLive, HeldLive
<1>10. \A x \in Blocks : mallocHeap[x] = "live" => mallocHeap'[x] = "live"
  BY <1>2 DEF IInv, MallocTypeOK
<1>11. \A u \in Threads : b \notin BlocksOf(u)
  BY <1>2 DEF IInv, BlocksLive
<1>12. MallocTypeOK'
  <2>1. g \in [chunk : Chunk, size : Sizes, by : Threads]
    BY <1>5
  <2>2. mallocList' \in [Threads -> [Classes -> Seq(Blocks)]]
    BY <1>1, <1>2 DEF IInv, MallocTypeOK
  <2>3. freeLists' \in [Threads -> [Classes -> Seq(Chunk)]]
    BY <1>1, <1>2, <1>5 DEF IInv, MallocTypeOK, q
  <2> QED BY <1>2, <1>3, <2>1, <2>2, <2>3 DEF IInv, MallocTypeOK
<1>13. SingleOwner'
  <2>1. ASSUME NEW r \in Slots, NEW s \in Slots,
               NEW i \in DOMAIN List(r)', NEW j \in DOMAIN List(s)', List(r)'[i] = List(s)'[j]
        PROVE  r = s /\ i = j
    <3>1. CASE r = z /\ s = z
      BY <1>4, <1>8, <2>1, <3>1
    <3>2. CASE r # z /\ s # z
      BY <1>7, <2>1, <3>2 DEF IInv, SingleOwner
    <3>3. CASE r = z /\ s # z
      BY <1>7, <1>8, <1>9, <2>1, <3>3
    <3>4. CASE r # z /\ s = z
      BY <1>7, <1>8, <1>9, <2>1, <3>4
    <3> QED BY <3>1, <3>2, <3>3, <3>4
  <2>2. ASSUME NEW s \in Slots, NEW h \in held', NEW i \in DOMAIN List(s)'
        PROVE  List(s)'[i] # h.chunk
    <3>1. CASE s # z /\ h \in held
      BY <1>7, <3>1 DEF IInv, SingleOwner
    <3>2. CASE s # z /\ h = g
      BY <1>5, <1>7, <1>9, <3>2
    <3>3. CASE s = z /\ h \in held
      BY <1>8, <1>9, <3>3
    <3>4. CASE s = z /\ h = g
      BY <1>4, <1>5, <1>8, <3>4
    <3> QED BY <1>3, <3>1, <3>2, <3>3, <3>4
  <2>3. ASSUME NEW h \in held', NEW f \in held', h.chunk = f.chunk
        PROVE  h = f
    <3>1. g.chunk.blk = b
      BY <1>5
    <3> HIDE DEF g
    <3> QED BY <1>3, <1>9, <2>3, <3>1 DEF IInv, SingleOwner
  <2> QED BY <2>1, <2>2, <2>3 DEF SingleOwner
<1>14. NoUseAfterFree'
  BY <1>3 DEF IInv, NoUseAfterFree
<1>15. BlocksLive'
  <2> SUFFICES ASSUME NEW u \in Threads, NEW x \in BlocksOf(u)' PROVE mallocHeap'[x] = "live"
    BY DEF BlocksLive
  <2>1. CASE x = b
    BY <1>2, <2>1 DEF IInv, MallocTypeOK
  <2>2. CASE x \in BlocksOf(u)
    BY <1>10, <2>2, BlocksOfType DEF IInv, BlocksLive
  <2> QED BY <1>6, <2>1, <2>2
<1>16. BlocksApart'
  BY <1>6, <1>11 DEF IInv, BlocksApart
<1>17. \A u \in Threads, x \in Blocks : Backed(u, x) => Backed(u, x)'
  BY <1>6 DEF Backed
<1>18. Backed(t, b)'
  BY <1>6 DEF Backed
<1>19. ListHome'
  <2> SUFFICES ASSUME NEW s \in Slots, NEW i \in DOMAIN List(s)'
               PROVE  \E o \in Threads : /\ HandOver \/ o = s[1]
                                         /\ List(s)'[i].blk \in BlocksOf(o)'
    BY DEF ListHome, Backed
  <2>1. CASE s = z
    BY <1>8, <1>18, <2>1 DEF Backed
  <2>2. CASE s # z
    <3>1. List(s)'[i] = List(s)[i] /\ i \in DOMAIN List(s)
      BY <1>7, <2>2
    <3>2. Backed(s[1], List(s)[i].blk)
      BY <3>1 DEF IInv, ListHome
    <3> QED BY <1>6, <3>1, <3>2 DEF Backed
  <2> QED BY <2>1, <2>2
<1>20. HeldHome'
  <2> SUFFICES ASSUME NEW h \in held'
               PROVE  IF Managed(h.size)
                        THEN Backed(h.by, h.chunk.blk)'
                        ELSE /\ h.chunk = [blk |-> h.chunk.blk, w |-> 0, i |-> 0]
                             /\ LiveChunk(h.chunk)'
                             /\ \A u \in Threads : h.chunk.blk \notin BlocksOf(u)'
    BY DEF HeldHome
  <2>1. CASE h = g
    BY <1>3, <1>5, <1>18, <2>1
  <2>2. CASE h \in held
    <3>1. h.chunk.blk \in Blocks /\ h.by \in Threads /\ h.chunk.blk # b
      BY <1>9, <2>2, HeldLive
    <3>2. CASE Managed(h.size)
      BY <1>17, <2>2, <3>1, <3>2 DEF IInv, HeldHome
    <3>3. CASE ~Managed(h.size)
      BY <1>6, <1>10, <2>2, <3>1, <3>3 DEF IInv, HeldHome, LiveChunk
    <3> QED BY <3>2, <3>3
  <2> QED BY <1>3, <2>1, <2>2
<1> QED BY <1>12, <1>13, <1>14, <1>15, <1>16, <1>19, <1>20 DEF IInv

LEMMA FreeStep ==
    ASSUME IInv, NEW t \in Threads, NEW h \in held, HandOver \/ h.by = t, Free(t, h)
    PROVE  IInv'
<1> DEFINE w == NWords(h.size)
           z == <<t, w>>
           c == h.chunk
<1>1. /\ held' = held \ {h} /\ mallocList' = mallocList
      /\ fault' = (fault \/ ~LiveChunk(h.chunk))
      /\ Managed(h.size) => PushChunk(t, w, c) /\ mallocHeap' = mallocHeap
      /\ ~Managed(h.size) => mallocHeap' = [mallocHeap EXCEPT ![c.blk] = "freed"] /\ freeLists' = freeLists
  BY DEF Free
<1>2. \A u \in Threads : BlocksOf(u)' = BlocksOf(u)
  BY <1>1 DEF BlocksOf
<1>3. /\ h.by \in Threads /\ h.size \in Sizes /\ c \in Chunk /\ c.blk \in Blocks
      /\ mallocHeap[c.blk] = "live"
  BY HeldLive
<1>4. NoUseAfterFree'
  BY <1>1, <1>3 DEF IInv, NoUseAfterFree, LiveChunk
<1>5. BlocksApart'
  BY <1>2 DEF IInv, BlocksApart
<1>6. CASE Managed(h.size)
  <2>1. w \in Classes /\ z \in Slots /\ List(z) = freeLists[t][w]
    BY <1>3, <1>6, ManagedClass DEF Slots, List
  <2>2. freeLists' = [freeLists EXCEPT ![t][w] = <<c>> \o @] /\ mallocHeap' = mallocHeap
    BY <1>1, <1>6 DEF PushChunk
  <2> HIDE DEF w
  <2>3. freeLists \in [Threads -> [Classes -> Seq(Chunk)]]
    BY DEF IInv, MallocTypeOK
  <2> DEFINE q == List(z)
  <2>4. q \in Seq(Chunk)
    BY <2>1, <2>3
  <2>5. /\ \A s \in Slots : s # z => List(s)' = List(s)
        /\ List(z)' = <<c>> \o q
    BY <2>1, <2>2, <2>3 DEF List, Slots
  <2>6. /\ <<c>> \o q \in Seq(Chunk)
        /\ (<<c>> \o q)[1] = c
        /\ \A i \in DOMAIN (<<c>> \o q) :
             /\ i \in Nat \ {0}
             /\ i # 1 => i - 1 \in DOMAIN q /\ (<<c>> \o q)[i] = q[i - 1]
    BY <1>3, <2>4, PushSeq
  <2> HIDE DEF q
  <2>7. \A i \in DOMAIN List(z)' :
          /\ i \in Nat \ {0}
          /\ i = 1 => List(z)'[i] = c
          /\ i # 1 => i - 1 \in DOMAIN List(z) /\ List(z)'[i] = List(z)[i - 1]
    BY <2>5, <2>6 DEF q
  <2>8. \A s \in Slots : \A i \in DOMAIN List(s) : List(s)[i] # c
    BY DEF IInv, SingleOwner
  <2>9. MallocTypeOK'
    <3>1. freeLists' \in [Threads -> [Classes -> Seq(Chunk)]]
      BY <2>1, <2>2, <2>3, <2>6 DEF q
    <3> QED BY <1>1, <1>4, <2>2, <3>1 DEF IInv, MallocTypeOK, NoUseAfterFree
  <2>10. SingleOwner'
    <3>1. ASSUME NEW r \in Slots, NEW s \in Slots,
                 NEW i \in DOMAIN List(r)', NEW j \in DOMAIN List(s)', List(r)'[i] = List(s)'[j]
          PROVE  r = s /\ i = j
      <4>1. CASE r # z /\ s # z
        BY <2>5, <3>1, <4>1 DEF IInv, SingleOwner
      <4>2. CASE r = z /\ s # z
        <5>1. List(s)' = List(s)
          BY <2>5, <4>2
        <5>2. i # 1
          BY <2>7, <2>8, <3>1, <4>2, <5>1
        <5>3. i - 1 \in DOMAIN List(z) /\ List(z)[i - 1] = List(s)[j]
          BY <2>7, <3>1, <4>2, <5>1, <5>2
        <5> QED BY <2>1, <4>2, <5>1, <5>3 DEF IInv, SingleOwner
      <4>3. CASE r # z /\ s = z
        <5>1. List(r)' = List(r)
          BY <2>5, <4>3
        <5>2. j # 1
          BY <2>7, <2>8, <3>1, <4>3, <5>1
        <5>3. j - 1 \in DOMAIN List(z) /\ List(z)[j - 1] = List(r)[i]
          BY <2>7, <3>1, <4>3, <5>1, <5>2
        <5> QED BY <2>1, <4>3, <5>1, <5>3 DEF IInv, SingleOwner
      <4>4. CASE r = z /\ s = z
        <5>1. CASE i = 1 /\ j = 1
          BY <4>4, <5>1
        <5>2. CASE i = 1 /\ j # 1
          BY <2>1, <2>7, <2>8, <3>1, <4>4, <5>2
        <5>3. CASE i # 1 /\ j = 1
          BY <2>1, <2>7, <2>8, <3>1, <4>4, <5>3
        <5>4. CASE i # 1 /\ j # 1
          <6>1. List(z)[i - 1] = List(z)[j - 1] /\ i - 1 \in DOMAIN List(z) /\ j - 1 \in DOMAIN List(z)
            BY <2>7, <3>1, <4>4, <5>4
          <6>2. i - 1 = j - 1
            BY <2>1, <6>1 DEF IInv, SingleOwner
          <6> QED BY <2>7, <4>4, <6>2
        <5> QED BY <5>1, <5>2, <5>3, <5>4
      <4> QED BY <4>1, <4>2, <4>3, <4>4
    <3>2. ASSUME NEW s \in Slots, NEW f \in held', NEW i \in DOMAIN List(s)'
          PROVE  List(s)'[i] # f.chunk
      <4>1. f \in held /\ f.chunk # c
        BY <1>1 DEF IInv, SingleOwner
      <4>2. CASE s # z
        BY <2>5, <4>1, <4>2 DEF IInv, SingleOwner
      <4>3. CASE s = z /\ i = 1
        BY <2>7, <4>1, <4>3
      <4>4. CASE s = z /\ i # 1
        BY <2>1, <2>7, <4>1, <4>4 DEF IInv, SingleOwner
      <4> QED BY <4>2, <4>3, <4>4
    <3>3. \A f, g \in held' : f.chunk = g.chunk => f = g
      BY <1>1 DEF IInv, SingleOwner
    <3> QED BY <3>1, <3>2, <3>3 DEF SingleOwner
  <2>11. BlocksLive'
    BY <1>2, <2>2 DEF IInv, BlocksLive
  <2>12. Backed(t, c.blk)
    BY <1>6 DEF IInv, HeldHome, Backed
  <2>13. ListHome'
    <3> SUFFICES ASSUME NEW s \in Slots, NEW i \in DOMAIN List(s)'
                 PROVE  \E o \in Threads : /\ HandOver \/ o = s[1]
                                           /\ List(s)'[i].blk \in BlocksOf(o)
      BY <1>2 DEF ListHome, Backed
    <3>1. CASE s # z
      BY <2>5, <3>1 DEF IInv, ListHome, Backed
    <3>2. CASE s = z /\ i = 1
      BY <2>7, <2>12, <3>2 DEF Backed
    <3>3. CASE s = z /\ i # 1
      BY <2>1, <2>7, <3>3 DEF IInv, ListHome, Backed
    <3> QED BY <3>1, <3>2, <3>3
  <2>14. HeldHome'
    <3> SUFFICES ASSUME NEW f \in held'
                 PROVE  IF Managed(f.size)
                        THEN Backed(f.by, f.chunk.blk)'
                        ELSE /\ f.chunk = [blk |-> f.chunk.blk, w |-> 0, i |-> 0]
                             /\ LiveChunk(f.chunk)'
                             /\ \A u \in Threads : f.chunk.blk \notin BlocksOf(u)'
      BY DEF HeldHome
    <3>1. f \in held
      BY <1>1
    <3>2. CASE Managed(f.size)
      <4>1. Backed(f.by, f.chunk.blk)
        BY <3>1, <3>2 DEF IInv, HeldHome
      <4> QED BY <1>2, <3>2, <4>1 DEF Backed
    <3>3. CASE ~Managed(f.size)
      <4>1. /\ f.chunk = [blk |-> f.chunk.blk, w |-> 0, i |-> 0]
            /\ LiveChunk(f.chunk)
            /\ \A u \in Threads : f.chunk.blk \notin BlocksOf(u)
        BY <3>1, <3>3 DEF IInv, HeldHome
      <4> QED BY <1>2, <2>2, <3>3, <4>1 DEF LiveChunk
    <3> QED BY <3>2, <3>3
  <2> QED BY <1>4, <1>5, <2>9, <2>10, <2>11, <2>13, <2>14 DEF IInv
<1>7. CASE ~Managed(h.size)
  <2>1. mallocHeap' = [mallocHeap EXCEPT ![c.blk] = "freed"] /\ freeLists' = freeLists
    BY <1>1, <1>7
  <2>2. \A u \in Threads : c.blk \notin BlocksOf(u)
    BY <1>7 DEF IInv, HeldHome
  <2>3. \A x \in Blocks : x # c.blk => mallocHeap'[x] = mallocHeap[x]
    BY <1>3, <2>1 DEF IInv, MallocTypeOK
  <2>4. MallocTypeOK'
    BY <1>1, <1>3, <1>4, <2>1 DEF IInv, MallocTypeOK, NoUseAfterFree
  <2>5. SingleOwner'
    BY <1>1, <2>1 DEF IInv, SingleOwner, List
  <2>6. BlocksLive'
    BY <1>2, <2>2, <2>3, BlocksOfType DEF IInv, BlocksLive
  <2>7. ListHome'
    BY <1>2, <2>1 DEF IInv, ListHome, Backed, List
  <2>8. HeldHome'
    <3> SUFFICES ASSUME NEW f \in held'
                 PROVE  IF Managed(f.size)
                          THEN Backed(f.by, f.chunk.blk)
                          ELSE /\ f.chunk = [blk |-> f.chunk.blk, w |-> 0, i |-> 0]
                               /\ LiveChunk(f.chunk)'
                               /\ \A u \in Threads : f.chunk.blk \notin BlocksOf(u)
      BY <1>2 DEF HeldHome, Backed
    <3>1. f \in held /\ f # h
      BY <1>1
    <3>2. CASE Managed(f.size)
      BY <3>1, <3>2 DEF IInv, HeldHome
    <3>3. CASE ~Managed(f.size)
      <4>1. f.chunk = [blk |-> f.chunk.blk, w |-> 0, i |-> 0]
        BY <3>1, <3>3 DEF IInv, HeldHome
      <4>2. c = [blk |-> c.blk, w |-> 0, i |-> 0]
        BY <1>7 DEF IInv, HeldHome
      <4>3. f.chunk.blk # c.blk
        BY <3>1, <4>1, <4>2 DEF IInv, SingleOwner
      <4>4. f.chunk.blk \in Blocks
        BY <3>1, HeldLive
      <4> QED BY <2>3, <3>1, <3>3, <4>1, <4>3, <4>4 DEF IInv, HeldHome, LiveChunk
    <3> QED BY <3>2, <3>3
  <2> QED BY <1>4, <1>5, <2>4, <2>5, <2>6, <2>7, <2>8 DEF IInv
<1> QED BY <1>6, <1>7

LEMMA ExitStep ==
    ASSUME IInv, ~NoTLS, ~HandOver, NEW t \in Threads, Returned(t), FreeThread(t)
    PROVE  IInv'
<1>1. /\ mallocHeap' = [b \in Blocks |-> IF b \in BlocksOf(t) THEN "freed" ELSE mallocHeap[b]]
      /\ fault' = (fault \/ \E b \in BlocksOf(t) : mallocHeap[b] # "live")
      /\ mallocList' = [mallocList EXCEPT ![t] = [w \in Classes |-> <<>>]]
      /\ freeLists' = [freeLists EXCEPT ![t] = [w \in Classes |-> <<>>]]
      /\ held' = held
  BY DEF FreeThread, DropLists
<1>2. /\ mallocList \in [Threads -> [Classes -> Seq(Blocks)]]
      /\ freeLists \in [Threads -> [Classes -> Seq(Chunk)]]
  BY DEF IInv, MallocTypeOK
<1>3. \A u \in Threads : BlocksOf(u)' = IF u = t THEN {} ELSE BlocksOf(u)
  <2> TAKE u \in Threads
  <2>1. CASE u = t
    <3>1. \A w \in Classes : mallocList'[u][w] = <<>>
      BY <1>1, <1>2, <2>1
    <3>2. \A w \in Classes : ToSet(mallocList'[u][w]) = {}
      BY <3>1 DEF ToSet
    <3> QED BY <2>1, <3>2 DEF BlocksOf
  <2>2. CASE u # t
    BY <1>1, <1>2, <2>2 DEF BlocksOf
  <2> QED BY <2>1, <2>2
<1>4. \A s \in Slots : List(s)' = IF s[1] = t THEN <<>> ELSE List(s)
  BY <1>1, <1>2, SlotType DEF List, IInv
<1>5. \A x \in Blocks : x \notin BlocksOf(t) => mallocHeap'[x] = mallocHeap[x]
  BY <1>1
<1>6. \A h \in held : h.by \in Threads /\ h.by # t /\ h.chunk.blk \in Blocks
  BY HeldLive DEF Returned
<1>7. MallocTypeOK'
  <2>1. <<>> \in Seq(Blocks) /\ <<>> \in Seq(Chunk)
    OBVIOUS
  <2>2. fault' \in BOOLEAN
    BY <1>1 DEF IInv, MallocTypeOK
  <2>3. mallocHeap' \in [Blocks -> {"unused", "live", "freed"}]
    BY <1>1 DEF IInv, MallocTypeOK
  <2> QED BY <1>1, <1>2, <2>1, <2>2, <2>3 DEF IInv, MallocTypeOK
<1>8. SingleOwner'
  BY <1>1, <1>4 DEF IInv, SingleOwner
<1>9. NoUseAfterFree'
  BY <1>1 DEF IInv, NoUseAfterFree, BlocksLive
<1>10. BlocksLive'
  <2> SUFFICES ASSUME NEW u \in Threads, NEW x \in BlocksOf(u)' PROVE mallocHeap'[x] = "live"
    BY DEF BlocksLive
  <2>1. u # t /\ x \in BlocksOf(u)
    BY <1>3
  <2>2. x \notin BlocksOf(t) /\ x \in Blocks
    BY <2>1, BlocksOfType DEF IInv, BlocksApart
  <2> QED BY <1>5, <2>1, <2>2 DEF IInv, BlocksLive
<1>11. BlocksApart'
  BY <1>3 DEF IInv, BlocksApart
<1>12. ListHome'
  <2> SUFFICES ASSUME NEW s \in Slots, NEW i \in DOMAIN List(s)'
               PROVE  \E o \in Threads : /\ HandOver \/ o = s[1]
                                         /\ List(s)'[i].blk \in BlocksOf(o)'
    BY DEF ListHome, Backed
  <2>1. s[1] # t /\ List(s)' = List(s)
    BY <1>4
  <2>2. Backed(s[1], List(s)[i].blk)
    BY <2>1 DEF IInv, ListHome
  <2> QED BY <1>3, <2>1, <2>2 DEF Backed
<1>13. HeldHome'
  <2> SUFFICES ASSUME NEW h \in held
               PROVE  IF Managed(h.size)
                        THEN Backed(h.by, h.chunk.blk)'
                        ELSE /\ h.chunk = [blk |-> h.chunk.blk, w |-> 0, i |-> 0]
                             /\ LiveChunk(h.chunk)'
                             /\ \A u \in Threads : h.chunk.blk \notin BlocksOf(u)'
    BY <1>1 DEF HeldHome
  <2>1. CASE Managed(h.size)
    BY <1>3, <1>6, <2>1 DEF IInv, HeldHome, Backed
  <2>2. CASE ~Managed(h.size)
    BY <1>3, <1>5, <1>6, <2>2 DEF IInv, HeldHome, LiveChunk
  <2> QED BY <2>1, <2>2
<1> QED BY <1>7, <1>8, <1>9, <1>10, <1>11, <1>12, <1>13 DEF IInv

-----------------------------------------------------------------------------

LEMMA InitIInv == MallocInit => IInv
<1> SUFFICES ASSUME MallocInit PROVE IInv
  OBVIOUS
<1>1. \A t \in Threads, w \in Classes : mallocList[t][w] = <<>> /\ freeLists[t][w] = <<>>
  BY DEF MallocInit
<1>2. \A t \in Threads : BlocksOf(t) = {}
  BY <1>1 DEF BlocksOf, ToSet
<1>3. \A s \in Slots : List(s) = <<>>
  BY <1>1 DEF Slots, List
<1>4. MallocTypeOK
  <2>1. <<>> \in Seq(Blocks) /\ <<>> \in Seq(Chunk)
    OBVIOUS
  <2>2. mallocHeap \in [Blocks -> {"unused", "live", "freed"}] /\ held = {} /\ fault \in BOOLEAN
    BY DEF MallocInit
  <2>3. mallocList \in [Threads -> [Classes -> Seq(Blocks)]]
    BY <2>1 DEF MallocInit
  <2>4. freeLists \in [Threads -> [Classes -> Seq(Chunk)]]
    BY <2>1 DEF MallocInit
  <2> QED BY <2>2, <2>3, <2>4 DEF MallocTypeOK
<1> QED BY <1>2, <1>3, <1>4 DEF MallocInit, IInv, SingleOwner, NoUseAfterFree, BlocksLive,
           BlocksApart, ListHome, HeldHome

LEMMA NextIInv ==
    ASSUME Disciplined, IInv, [MallocNext]_mallocVars
    PROVE  IInv'
<1>1. CASE UNCHANGED mallocVars
  <2>1. /\ mallocHeap' = mallocHeap /\ mallocList' = mallocList /\ freeLists' = freeLists
        /\ held' = held /\ fault' = fault
    BY <1>1 DEF mallocVars
  <2>2. /\ \A t \in Threads : BlocksOf(t)' = BlocksOf(t)
        /\ \A s \in Slots : List(s)' = List(s)
    BY <2>1 DEF BlocksOf, List
  <2>3. MallocTypeOK' /\ SingleOwner' /\ NoUseAfterFree'
    BY <2>1, <2>2 DEF IInv, MallocTypeOK, SingleOwner, NoUseAfterFree
  <2>4. BlocksLive' /\ BlocksApart'
    BY <2>1, <2>2 DEF IInv, BlocksLive, BlocksApart
  <2>5. ListHome' /\ HeldHome'
    BY <2>1, <2>2 DEF IInv, ListHome, HeldHome, Backed, LiveChunk
  <2> QED BY <2>3, <2>4, <2>5 DEF IInv
<1>2. CASE MallocNext
  <2>1. PICK t \in Threads :
          \/ \E n \in Sizes : MallocLarge(t, n)
          \/ \E n \in Sizes : MallocCached(t, n)
          \/ \E n \in Sizes : MallocBlock(t, n)
          \/ \E h \in held : (HandOver \/ h.by = t) /\ Free(t, h)
          \/ t \in Exiting /\ Returned(t) /\ FreeThread(t)
    BY <1>2 DEF MallocNext
  <2>2. CASE \E n \in Sizes : MallocLarge(t, n)
    BY <2>2, LargeStep
  <2>3. CASE \E n \in Sizes : MallocCached(t, n)
    BY <2>3, CachedStep
  <2>4. CASE \E n \in Sizes : MallocBlock(t, n)
    BY <2>4, BlockStep
  <2>5. CASE \E h \in held : (HandOver \/ h.by = t) /\ Free(t, h)
    BY <2>5, FreeStep
  <2>6. CASE t \in Exiting /\ Returned(t) /\ FreeThread(t)
    BY <2>6, ExitStep DEF Disciplined
  <2> QED BY <2>1, <2>2, <2>3, <2>4, <2>5, <2>6
<1> QED BY <1>1, <1>2

(* The ownership invariant of the allocator: every chunk lies in a live block *)
(* that one thread answers for, and on at most one list.                      *)
THEOREM Invariance == ASSUME Disciplined PROVE MallocSpec => []IInv
<1>1. MallocInit => IInv
  BY InitIInv
<1>2. IInv /\ [MallocNext]_mallocVars => IInv'
  BY NextIInv
<1> QED BY <1>1, <1>2, PTL DEF MallocSpec

(* BM_malloc and BM_free never put a chunk in two places, whichever threads *)
(* allocate and free.                                                       *)
THEOREM ChunksHaveOneOwner == ASSUME Disciplined PROVE MallocSpec => []SingleOwner
<1>1. IInv => SingleOwner
  BY DEF IInv
<1> QED BY <1>1, Invariance, PTL

(* No freed memory is read, written or freed again, BM_freeThread included. *)
THEOREM NoFreedMemoryUsed == ASSUME Disciplined PROVE MallocSpec => []NoUseAfterFree
<1>1. IInv => NoUseAfterFree
  BY DEF IInv
<1> QED BY <1>1, Invariance, PTL

-----------------------------------------------------------------------------
(* Arithmetic of words and chunks. *)

\* Whole chunks fit into what they were carved from.
LEMMA DivFits ==
    ASSUME NEW n \in Nat, NEW w \in Nat \ {0}
    PROVE  n \div w \in Nat /\ (n \div w) * w <= n /\ n < (n \div w + 1) * w
OBVIOUS

\* A word of chunk i lies before the words of chunk k > i.
LEMMA WordsApart ==
    ASSUME NEW w \in Nat \ {0}, NEW i \in Nat, NEW k \in Nat,
           NEW j \in 0 .. w - 1, NEW l \in 0 .. w - 1, i * w + j = k * w + l
    PROVE  i = k
<1>1. \A x, y \in Nat : x < y => x * w + w <= y * w
  <2> TAKE x, y \in Nat
  <2> HAVE x < y
  <2>1. PICK z \in Nat : y = x + 1 + z
    <3>1. y - x - 1 \in Nat
      OBVIOUS
    <3> QED BY <3>1
  <2>2. y * w = x * w + w + z * w /\ z * w \in Nat
    BY <2>1
  <2> QED BY <2>2
<1>2. i * w \in Nat /\ k * w \in Nat
  OBVIOUS
<1>3. ~(i < k)
  BY <1>1, <1>2
<1>4. ~(k < i)
  BY <1>1, <1>2
<1> QED BY <1>3, <1>4

\* The words of an interval of offsets of a block.
LEMMA WordsCount ==
    ASSUME NEW b, NEW m \in Nat, NEW k \in Nat
    PROVE  Cardinality(Words(b, k, m)) = m
<1> DEFINE T == Words(b, k, m)
           f == [j \in 0 .. m - 1 |-> <<b, k + j>>]
<1>1. f \in Bijection(0 .. m - 1, T)
  <2>1. f \in [0 .. m - 1 -> T] /\ DOMAIN f = 0 .. m - 1
    BY DEF Words
  <2>2. \A x, y \in 0 .. m - 1 : f[x] = f[y] => x = y
    OBVIOUS
  <2>3. \A e \in T : \E x \in 0 .. m - 1 : f[x] = e
    BY DEF Words
  <2> HIDE DEF f, T
  <2> QED BY <2>1, <2>2, <2>3 DEF Bijection, Injection, Surjection, IsInjective
<1>2. IsFiniteSet(0 .. m - 1) /\ Cardinality(0 .. m - 1) = m
  BY FS_Interval
<1> HIDE DEF f, T
<1>3. ExistsBijection(0 .. m - 1, T)
  BY <1>1 DEF ExistsBijection
<1>4. Cardinality(T) = m
  BY <1>2, <1>3, FS_Bijection
<1> QED BY <1>4 DEF T

\* (size - 1) / WORD_SIZE + 1 words hold size bytes, and a managed size is not 0.
LEMMA WordsSuffice ==
    ASSUME NEW n \in Sizes
    PROVE  /\ Managed(n) => NWords(n) * WordSize >= n
           /\ LargeWords(n) \in Nat
           /\ LargeWords(n) * WordSize >= n
<1>1. n \in 0 .. SizeRange - 1 /\ WordSize \in Nat \ {0} /\ SizeRange \in Nat /\ MaxWords \in Nat
  BY WordsAssumption
<1>2. /\ (n + WordSize - 1) \div WordSize \in Nat
      /\ ((n + WordSize - 1) \div WordSize) * WordSize >= n
  <2>1. n + WordSize - 1 \in Nat
    BY <1>1
  <2> DEFINE d == (n + WordSize - 1) \div WordSize
  <2>2. d \in Nat /\ n + WordSize - 1 < (d + 1) * WordSize
    BY <1>1, <2>1, DivFits
  <2> HIDE DEF d
  <2>3. (d + 1) * WordSize = d * WordSize + WordSize /\ d * WordSize \in Nat
    BY <1>1, <2>2
  <2>4. d * WordSize >= n
    BY <1>1, <2>2, <2>3
  <2> QED BY <2>2, <2>4 DEF d
<1>3. ASSUME Managed(n)
      PROVE  NWords(n) * WordSize >= n
  <2>1. CASE n = 0
    <3>1. NWords(n) \in Nat
      BY <1>3, ManagedClass DEF Classes
    <3>2. NWords(n) * WordSize \in Nat
      BY <1>1, <3>1
    <3> QED BY <1>1, <2>1, <3>2
  <2>2. CASE n # 0
    <3>1. n - 1 \in 0 .. SizeRange - 1 /\ SizeRange \in Nat \ {0}
      BY <1>1, <2>2
    <3>2. (n - 1) % SizeRange = n - 1
      BY <3>1
    <3> DEFINE d == (n - 1) \div WordSize
    <3>3. d \in Nat /\ n - 1 < (d + 1) * WordSize
      BY <1>1, <3>1, DivFits
    <3>4. NWords(n) = d + 1
      BY <3>2 DEF NWords
    <3> HIDE DEF d
    <3>5. (d + 1) * WordSize \in Nat
      BY <1>1, <3>3
    <3> QED BY <1>1, <3>3, <3>4, <3>5
  <2> QED BY <2>1, <2>2
<1> QED BY <1>2, <1>3 DEF LargeWords

-----------------------------------------------------------------------------
(* The chunks in circulation stay in their class, within their block. *)

\* Chunks of N are new; any other one a list or the program has was there before.
LEMMA CInvKept ==
    ASSUME CInv, NEW N,
           \A c \in N : c.i < NChunks(c.w),
           \A c, d \in N : c.w = d.w,
           \A c \in N, d \in Carved : c.blk # d.blk,
           \A s \in Slots : \A c \in ToSet(List(s))' :
              c \in ToSet(List(s)) \/ (c \in Carved \cup N /\ c.w = s[2]),
           \A h \in held' :
              h \in held \/ (Managed(h.size) => /\ h.chunk \in Carved \cup N
                                               /\ h.chunk.w = NWords(h.size))
    PROVE  CInv'
<1>1. Carved' \subseteq Carved \cup N
  <2> SUFFICES ASSUME NEW c \in Carved' PROVE c \in Carved \cup N
    OBVIOUS
  <2>1. CASE \E s \in Slots : c \in ToSet(List(s))'
    <3>1. PICK s \in Slots : c \in ToSet(List(s))'
      BY <2>1
    <3>2. c \in ToSet(List(s)) => c \in Carved
      BY DEF Carved
    <3> QED BY <3>1, <3>2
  <2>2. CASE \E h \in held' : Managed(h.size) /\ c = h.chunk
    BY <2>2 DEF Carved
  <2> QED BY <2>1, <2>2 DEF Carved
<1>2. ClassKept'
  <2>1. ASSUME NEW s \in Slots, NEW c \in ToSet(List(s))' PROVE c.w = s[2]
    BY DEF CInv, ClassKept
  <2>2. ASSUME NEW h \in held', Managed(h.size) PROVE h.chunk.w = NWords(h.size)
    BY <2>2 DEF CInv, ClassKept
  <2> QED BY <2>1, <2>2 DEF ClassKept
<1>3. WithinBlock'
  BY <1>1 DEF CInv, WithinBlock
<1>4. OneClass'
  BY <1>1 DEF CInv, OneClass
<1> QED BY <1>2, <1>3, <1>4 DEF CInv

\* The chunks of a new block.
LEMMA ChunksClass ==
    ASSUME NEW b \in Blocks, NEW w \in Classes, NEW c \in ToSet(Chunks(b, w))
    PROVE  c.blk = b /\ c.w = w /\ c.i < NChunks(c.w)
<1>1. w \in Nat \ {0} /\ BlkSize \in Nat
  BY WordsAssumption DEF Classes
<1>2. NChunks(w) \in Nat
  BY <1>1 DEF NChunks
<1>3. PICK i \in 1 .. NChunks(w) : c = [blk |-> b, w |-> w, i |-> i - 1]
  BY DEF Chunks, ToSet
<1> QED BY <1>2, <1>3

LEMMA NextCInv ==
    ASSUME Disciplined, IInv, CInv, [MallocNext]_mallocVars
    PROVE  CInv'
<1>1. \A s \in Slots : s[1] \in Threads /\ s[2] \in Classes /\ List(s) \in Seq(Chunk)
  BY SlotType DEF IInv
<1>2. /\ freeLists \in [Threads -> [Classes -> Seq(Chunk)]]
      /\ \A s \in Slots : \A c \in ToSet(List(s)) : c \in Carved
      /\ \A h \in held : Managed(h.size) => h.chunk \in Carved
  BY DEF IInv, MallocTypeOK, Carved
<1>3. ASSUME \A s \in Slots : \A c \in ToSet(List(s))' : c \in ToSet(List(s)) \/ (c \in Carved /\ c.w = s[2]),
             \A h \in held' :
                h \in held \/ (Managed(h.size) => h.chunk \in Carved /\ h.chunk.w = NWords(h.size))
      PROVE  CInv'
  <2> DEFINE N == {}
  <2>1. Carved \cup N = Carved
    OBVIOUS
  <2>2. \A c \in N : FALSE
    OBVIOUS
  <2> HIDE DEF N
  <2> QED BY <1>3, <2>1, <2>2, CInvKept
<1>4. CASE UNCHANGED mallocVars
  <2>1. held' = held /\ \A s \in Slots : List(s)' = List(s)
    BY <1>4 DEF mallocVars, List
  <2> QED BY <1>3, <2>1
<1>5. ASSUME NEW t \in Threads, NEW n \in Sizes, MallocLarge(t, n)
      PROVE  CInv'
  <2>1. PICK c : held' = held \cup {[chunk |-> c, size |-> n, by |-> t]}
    BY <1>5 DEF MallocLarge, Hold
  <2>2. ~Managed(n) /\ \A s \in Slots : List(s)' = List(s)
    BY <1>5 DEF MallocLarge, List
  <2> QED BY <1>3, <2>1, <2>2
<1>6. ASSUME NEW t \in Threads, NEW n \in Sizes, MallocCached(t, n)
      PROVE  CInv'
  <2> DEFINE w == NWords(n)
             z == <<t, w>>
             c == Head(List(z))
  <2>1. /\ Managed(n) /\ List(z) = freeLists[t][w] /\ List(z) # <<>>
        /\ freeLists' = [freeLists EXCEPT ![t][w] = Tail(@)]
        /\ held' = held \cup {[chunk |-> c, size |-> n, by |-> t]}
    BY <1>6 DEF MallocCached, List, PopChunk, Hold
  <2>2. z \in Slots /\ z[2] = w /\ w \in Classes
    BY <2>1, ManagedClass DEF Slots
  <2> HIDE DEF w
  <2>3. /\ \A s \in Slots : s # z => List(s)' = List(s)
        /\ List(z)' = Tail(List(z))
    BY <1>2, <2>1, <2>2 DEF List, Slots
  <2>4. c \in ToSet(List(z)) /\ \A d \in ToSet(Tail(List(z))) : d \in ToSet(List(z))
    BY <1>1, <2>1, <2>2 DEF ToSet
  <2>5. c \in Carved /\ c.w = w
    BY <1>2, <2>2, <2>4 DEF CInv, ClassKept
  <2>6. \A s \in Slots : \A d \in ToSet(List(s))' : d \in ToSet(List(s))
    BY <2>3, <2>4
  <2> HIDE DEF z, c
  <2>7. \A h \in held' : h \in held \/ (h.chunk \in Carved /\ h.chunk.w = NWords(h.size))
    BY <2>1, <2>5 DEF w
  <2> QED BY <1>3, <2>6, <2>7
<1>7. ASSUME NEW t \in Threads, NEW n \in Sizes, MallocBlock(t, n)
      PROVE  CInv'
  <2> DEFINE w == NWords(n)
             z == <<t, w>>
  <2>1. PICK b \in Blocks :
          /\ mallocHeap[b] = "unused"
          /\ freeLists' = [freeLists EXCEPT ![t][w] = Tail(Chunks(b, w))]
          /\ held' = held \cup {[chunk |-> Head(Chunks(b, w)), size |-> n, by |-> t]}
    BY <1>7 DEF MallocBlock, Hold
  <2> DEFINE q == Chunks(b, w)
             N == ToSet(q)
  <2>2. z \in Slots /\ z[2] = w /\ w \in Classes
    BY <1>7, ManagedClass DEF Slots, MallocBlock
  <2> HIDE DEF w
  <2>3. /\ \A s \in Slots : s # z => List(s)' = List(s)
        /\ List(z)' = Tail(q)
    BY <1>2, <2>1, <2>2 DEF List, Slots
  <2>4. q \in Seq(Chunk) /\ q # <<>>
    BY <2>2, ChunksFact
  <2>5. \A c \in N : c.blk = b /\ c.w = w /\ c.i < NChunks(c.w)
    BY <2>2, ChunksClass
  <2> HIDE DEF q
  <2>6. Head(q) \in N /\ \A d \in ToSet(Tail(q)) : d \in N
    BY <2>4 DEF ToSet
  <2>7. \A c \in Carved : c.blk # b
    <3> SUFFICES ASSUME NEW c \in Carved PROVE mallocHeap[c.blk] = "live"
      BY <2>1
    <3>1. CASE \E s \in Slots : c \in ToSet(List(s))
      BY <3>1, ListLive DEF ToSet
    <3>2. CASE \E h \in held : c = h.chunk
      BY <3>2, HeldLive
    <3> QED BY <3>1, <3>2 DEF Carved
  <2>8. \A s \in Slots : \A c \in ToSet(List(s))' : c \in ToSet(List(s)) \/ (c \in N /\ c.w = s[2])
    BY <2>2, <2>3, <2>5, <2>6
  <2>9. \A h \in held' : h \in held \/ (h.chunk \in N /\ h.chunk.w = NWords(h.size))
    BY <2>1, <2>5, <2>6 DEF w, q
  <2> HIDE DEF N
  <2> QED BY <2>5, <2>7, <2>8, <2>9, CInvKept
<1>8. ASSUME NEW t \in Threads, NEW h \in held, Free(t, h)
      PROVE  CInv'
  <2>1. held' = held \ {h}
    BY <1>8 DEF Free
  <2>2. CASE Managed(h.size)
    <3> DEFINE w == NWords(h.size)
               z == <<t, w>>
    <3>1. freeLists' = [freeLists EXCEPT ![t][w] = <<h.chunk>> \o @]
      BY <1>8, <2>2 DEF Free, PushChunk
    <3>2. z \in Slots /\ z[2] = w /\ w \in Classes /\ h.chunk \in Chunk
      BY <2>2, ManagedClass, HeldLive DEF Slots
    <3>3. h.chunk \in Carved /\ h.chunk.w = w
      BY <1>2, <2>2 DEF CInv, ClassKept
    <3> HIDE DEF w
    <3>4. /\ \A s \in Slots : s # z => List(s)' = List(s)
          /\ List(z)' = <<h.chunk>> \o List(z)
      BY <1>2, <3>1, <3>2 DEF List, Slots
    <3> DEFINE q == List(z)
    <3>5. q \in Seq(Chunk)
      BY <1>1, <3>2
    <3> HIDE DEF q
    <3>6. \A d \in ToSet(<<h.chunk>> \o q) : d = h.chunk \/ d \in ToSet(q)
      BY <3>2, <3>5, PushSeq DEF ToSet
    <3>7. \A s \in Slots : \A c \in ToSet(List(s))' :
             c \in ToSet(List(s)) \/ (c \in Carved /\ c.w = s[2])
      BY <3>2, <3>3, <3>4, <3>6 DEF q
    <3> QED BY <1>3, <2>1, <3>7
  <2>3. CASE ~Managed(h.size)
    BY <1>3, <1>8, <2>1, <2>3 DEF Free, List
  <2> QED BY <2>2, <2>3
<1>9. ASSUME NEW t \in Threads, FreeThread(t)
      PROVE  CInv'
  <2>1. /\ held' = held
        /\ freeLists' = freeLists \/ freeLists' = [freeLists EXCEPT ![t] = [w \in Classes |-> <<>>]]
    BY <1>9 DEF FreeThread, DropLists
  <2>2. \A s \in Slots : List(s)' = <<>> \/ List(s)' = List(s)
    BY <1>1, <1>2, <2>1 DEF List
  <2>3. ToSet(<<>>) = {}
    BY DEF ToSet
  <2> QED BY <1>3, <2>1, <2>2, <2>3
<1> QED BY <1>4, <1>5, <1>6, <1>7, <1>8, <1>9 DEF MallocNext

LEMMA InitCInv == MallocInit => CInv
<1> SUFFICES ASSUME MallocInit PROVE CInv
  OBVIOUS
<1>1. \A s \in Slots : List(s) = <<>>
  BY DEF MallocInit, Slots, List
<1>2. \A s \in Slots : ToSet(List(s)) = {}
  BY <1>1 DEF ToSet
<1>3. Carved = {}
  BY <1>2 DEF Carved, MallocInit
<1> QED BY <1>2, <1>3 DEF CInv, ClassKept, WithinBlock, OneClass, MallocInit

(* Every managed chunk has the size of its class and lies inside its block, *)
(* and the chunks of a block are all of one class.                          *)
THEOREM ChunksKeepTheirClass == ASSUME Disciplined PROVE MallocSpec => [](IInv /\ CInv)
<1>1. MallocInit => IInv /\ CInv
  BY InitIInv, InitCInv
<1>2. IInv /\ CInv /\ [MallocNext]_mallocVars => (IInv /\ CInv)'
  BY NextIInv, NextCInv
<1> QED BY <1>1, <1>2, PTL DEF MallocSpec

-----------------------------------------------------------------------------
(* What the invariants say of the memory the program holds. *)

\* The shape of a chunk in use.
LEMMA HeldShape ==
    ASSUME IInv, CInv, NEW h \in held
    PROVE  /\ h.size \in Sizes /\ h.chunk.blk \in Blocks
           /\ Managed(h.size) => /\ h.chunk \in Carved
                                 /\ h.chunk.w = NWords(h.size) /\ h.chunk.w \in Classes
                                 /\ h.chunk.w \in Nat \ {0}
                                 /\ NChunks(h.chunk.w) \in Nat
                                 /\ h.chunk.i \in 0 .. NChunks(h.chunk.w) - 1
<1>1. h.size \in Sizes /\ h.chunk.blk \in Blocks /\ h.chunk \in Chunk
  BY HeldLive
<1>2. ASSUME Managed(h.size)
      PROVE  /\ h.chunk \in Carved
             /\ h.chunk.w = NWords(h.size) /\ h.chunk.w \in Classes
             /\ h.chunk.w \in Nat \ {0} /\ NChunks(h.chunk.w) \in Nat
             /\ h.chunk.i \in 0 .. NChunks(h.chunk.w) - 1
  <2>1. h.chunk \in Carved
    BY <1>2 DEF Carved
  <2>2. h.chunk.w = NWords(h.size) /\ h.chunk.w \in Classes
    BY <1>1, <1>2, ManagedClass DEF CInv, ClassKept
  <2>3. h.chunk.w \in Nat \ {0} /\ NChunks(h.chunk.w) \in Nat
    BY <2>2, WordsAssumption DEF Classes, NChunks
  <2>4. h.chunk.i < NChunks(h.chunk.w) /\ h.chunk.i \in Nat
    BY <1>1, <2>1 DEF CInv, WithinBlock, Chunk
  <2> QED BY <2>1, <2>2, <2>3, <2>4
<1> QED BY <1>1, <1>2

\* An allocation is one of the regions malloc() or a block provides.
HeldFits ==
    \A h \in held : /\ h.size \in Sizes
                    /\ Extent(h) \in Regions
                    /\ Cardinality(Extent(h)) * WordSize >= h.size

HeldApart == \A g, h \in held : g # h => Extent(g) \cap Extent(h) = {}

LEMMA Fits == IInv /\ CInv => HeldFits
<1> SUFFICES ASSUME IInv, CInv, NEW h \in held
             PROVE  /\ h.size \in Sizes
                    /\ Extent(h) \in Regions
                    /\ Cardinality(Extent(h)) * WordSize >= h.size
  BY DEF HeldFits
<1> DEFINE b == h.chunk.blk
           w == h.chunk.w
           i == h.chunk.i
           n == h.size
<1>1. n \in Sizes /\ b \in Blocks
  BY HeldShape
<1>2. CASE Managed(n)
  <2>1. w = NWords(n) /\ w \in Classes /\ w \in Nat \ {0} /\ NChunks(w) \in Nat /\ i \in 0 .. NChunks(w) - 1
    BY <1>2, HeldShape
  <2>2. Extent(h) = Words(b, i * w, w)
    BY <1>2 DEF Extent
  <2> HIDE DEF w, i, b, n
  <2>3. Extent(h) \in Regions
    <3> DEFINE R == {Words(b, x * w, w) : x \in 0 .. NChunks(w) - 1}
    <3>1. Extent(h) \in R
      BY <2>1, <2>2
    <3>2. R \in {{Words(bb, x * ww, ww) : x \in 0 .. NChunks(ww) - 1} : bb \in Blocks, ww \in Classes}
      BY <1>1, <2>1
    <3> HIDE DEF R
    <3> QED BY <3>1, <3>2 DEF Regions
  <2>4. i * w \in Nat
    BY <2>1
  <2>5. Cardinality(Extent(h)) = w
    BY <2>1, <2>2, <2>4, WordsCount
  <2>6. w * WordSize >= n
    BY <1>1, <1>2, <2>1, WordsSuffice
  <2> QED BY <1>1, <2>3, <2>5, <2>6 DEF n
<1>3. CASE ~Managed(n)
  <2>1. LargeWords(n) \in Nat /\ LargeWords(n) * WordSize >= n
    BY <1>1, WordsSuffice
  <2>2. Extent(h) = Words(b, 0, LargeWords(n))
    BY <1>3 DEF Extent
  <2>3. Extent(h) \in Regions
    BY <1>1, <1>3, <2>2 DEF Regions
  <2>4. Cardinality(Extent(h)) = LargeWords(n)
    BY <2>1, <2>2, WordsCount
  <2> QED BY <1>1, <2>1, <2>3, <2>4
<1> QED BY <1>2, <1>3

\* Each chunk lies in its block.
LEMMA Inside == IInv /\ CInv => InsideBlock
<1> SUFFICES ASSUME IInv, CInv, NEW h \in held, Managed(h.size),
                    NEW e \in Extent(h)
             PROVE  e \in BlockWords(h.chunk.blk)
  BY DEF InsideBlock
<1> DEFINE b == h.chunk.blk
           w == h.chunk.w
           i == h.chunk.i
<1>1. w \in Nat \ {0} /\ NChunks(w) \in Nat /\ i \in 0 .. NChunks(w) - 1
  BY HeldShape
<1>2. PICK j \in 0 .. w - 1 : e = <<b, i * w + j>>
  BY DEF Extent, Words
<1> HIDE DEF w, i, b
<1>3. BlkSize \in Nat /\ NChunks(w) * w <= BlkSize
  BY <1>1, WordsAssumption, DivFits DEF NChunks
<1>4. PICK d \in Nat : NChunks(w) = i + 1 + d
  <2>1. NChunks(w) - i - 1 \in Nat
    BY <1>1
  <2> QED BY <1>1, <2>1
<1>5. NChunks(w) * w = i * w + w + d * w /\ d * w \in Nat /\ i * w \in Nat
  BY <1>1, <1>4
<1>6. i * w + j \in 0 .. BlkSize - 1
  BY <1>1, <1>2, <1>3, <1>5
<1> QED BY <1>2, <1>6 DEF BlockWords, Words, b

\* Two chunks in use share no word.
LEMMA Apart == IInv /\ CInv => HeldApart
<1> SUFFICES ASSUME IInv, CInv, NEW g \in held, NEW h \in held, g # h,
                    NEW e \in Extent(g), e \in Extent(h)
             PROVE  FALSE
  BY DEF HeldApart
<1>1. g.chunk # h.chunk
  BY DEF IInv, SingleOwner
<1>2. g.chunk.blk \in Blocks /\ h.chunk.blk \in Blocks /\ g.chunk \in Chunk /\ h.chunk \in Chunk
  BY HeldLive
<1>3. \A f \in held : e \in Extent(f) => e[1] = f.chunk.blk
  BY DEF Extent, Words
<1>4. g.chunk.blk = h.chunk.blk
  BY <1>3
<1>5. CASE Managed(g.size) /\ Managed(h.size)
  <2> DEFINE w == g.chunk.w
  <2>1. h.chunk.w = w
    BY <1>4, <1>5, HeldShape DEF CInv, OneClass
  <2>2. w \in Nat \ {0} /\ g.chunk.i \in Nat /\ h.chunk.i \in Nat
    BY <1>5, <2>1, HeldShape
  <2>3. PICK j \in 0 .. w - 1 : e = <<g.chunk.blk, g.chunk.i * w + j>>
    BY <1>5 DEF Extent, Words
  <2>4. PICK l \in 0 .. w - 1 : e = <<h.chunk.blk, h.chunk.i * w + l>>
    BY <1>5, <2>1 DEF Extent, Words
  <2> HIDE DEF w
  <2>5. g.chunk.i * w + j = h.chunk.i * w + l
    BY <2>3, <2>4
  <2>6. g.chunk.i = h.chunk.i
    BY <2>2, <2>5, WordsApart
  <2> QED BY <1>1, <1>2, <1>4, <2>1, <2>6 DEF Chunk, w
<1>6. CASE ~Managed(g.size) /\ ~Managed(h.size)
  <2>1. g.chunk = [blk |-> g.chunk.blk, w |-> 0, i |-> 0] /\ h.chunk = [blk |-> h.chunk.blk, w |-> 0, i |-> 0]
    BY <1>6 DEF IInv, HeldHome
  <2> QED BY <1>1, <1>4, <2>1
<1>7. \A f \in held : Managed(f.size) => \E o \in Threads : f.chunk.blk \in BlocksOf(o)
  BY DEF IInv, HeldHome, Backed
<1>8. \A f \in held : ~Managed(f.size) => \A o \in Threads : f.chunk.blk \notin BlocksOf(o)
  BY DEF IInv, HeldHome
<1> QED BY <1>4, <1>5, <1>6, <1>7, <1>8

-----------------------------------------------------------------------------

\* Every step of BM_malloc and BM_free is one of the allocator, or changes nothing.
LEMMA NextAllocates ==
    ASSUME [MallocNext]_mallocVars, HeldFits', HeldApart'
    PROVE  [Memory!Next]_Allocated
<1> DEFINE Of(h) == [words |-> Extent(h), size |-> h.size]
<1>1. Allocated = {Of(h) : h \in held} /\ Allocated' = {Of(h) : h \in held'}
  BY DEF Allocated
<1>2. ASSUME NEW t \in Threads, NEW n \in Sizes, NEW c, Hold(t, c, n)
      PROVE  [Memory!Next]_Allocated
  <2> DEFINE g == [chunk |-> c, size |-> n, by |-> t]
  <2>1. held' = held \cup {g} /\ g.size = n
    BY <1>2 DEF Hold
  <2> HIDE DEF g
  <2>2. CASE g \in held
    BY <1>1, <2>1, <2>2
  <2>3. CASE g \notin held
    <3>1. Extent(g) \in Regions /\ Cardinality(Extent(g)) * WordSize >= n
      BY <2>1 DEF HeldFits
    <3>2. \A h \in held : Extent(h) \cap Extent(g) = {}
      BY <2>1, <2>3 DEF HeldApart
    <3>3. \A a \in Allocated : a.words \cap Extent(g) = {}
      BY <1>1, <3>2
    <3>4. Allocated' = Allocated \cup {[words |-> Extent(g), size |-> n]}
      BY <1>1, <2>1
    <3>5. Memory!Obtain(Extent(g), n)
      BY <3>1, <3>3, <3>4 DEF Memory!Obtain, Memory!Cardinality, Cardinality
    <3> QED BY <3>1, <3>5 DEF Memory!Next
  <2> QED BY <2>2, <2>3
<1>3. ASSUME NEW h \in held, held' = held \ {h}
      PROVE  [Memory!Next]_Allocated
  <2>1. CASE \E f \in held' : Of(f) = Of(h)
    BY <1>1, <1>3, <2>1
  <2>2. CASE ~ \E f \in held' : Of(f) = Of(h)
    <3>1. Of(h) \in Allocated /\ Allocated' = Allocated \ {Of(h)}
      BY <1>1, <1>3, <2>2
    <3> QED BY <3>1 DEF Memory!Next, Memory!Release
  <2> QED BY <2>1, <2>2
<1>4. ASSUME held' = held
      PROVE  [Memory!Next]_Allocated
  BY <1>1, <1>4
<1>5. CASE UNCHANGED mallocVars
  BY <1>4, <1>5 DEF mallocVars
<1>6. ASSUME NEW t \in Threads, NEW n \in Sizes,
             MallocLarge(t, n) \/ MallocCached(t, n) \/ MallocBlock(t, n)
      PROVE  \E c : Hold(t, c, n)
  BY <1>6 DEF MallocLarge, MallocCached, MallocBlock
<1>7. ASSUME NEW t \in Threads, NEW h \in held, Free(t, h)
      PROVE  held' = held \ {h}
  BY <1>7 DEF Free
<1>8. ASSUME NEW t \in Threads, FreeThread(t)
      PROVE  held' = held
  BY <1>8 DEF FreeThread
<1> QED BY <1>2, <1>3, <1>4, <1>5, <1>6, <1>7, <1>8 DEF MallocNext

(* BM_malloc and BM_free are an allocator: every allocation is large enough,   *)
(* inside its block, and shares no word with another one, whatever the threads *)
(* do.                                                                         *)
THEOREM BlockMallocAllocates == ASSUME Disciplined PROVE MallocSpec => Allocates
<1>1. MallocInit => Memory!Init
  BY DEF MallocInit, Memory!Init, Allocated
<1>2. HeldFits' /\ HeldApart' /\ [MallocNext]_mallocVars => [Memory!Next]_Allocated
  BY NextAllocates
<1> QED BY <1>1, <1>2, ChunksKeepTheirClass, Fits, Apart, Inside, PTL
    DEF MallocSpec, Memory!Spec, Allocates

===============================================================================
