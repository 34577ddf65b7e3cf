----------------------------- MODULE BlockMalloc -----------------------------
(***************************************************************************)
(* dstruct/src/BlockMalloc.cc: the caching allocator behind LHash, SArray  *)
(* and the key copies.  Small requests are served from per-thread free     *)
(* lists, one per size in words, which are refilled by carving a block     *)
(* obtained from malloc(); large ones go to malloc() and free() directly.  *)
(* BM_freeThread returns all blocks of a thread to the system.             *)
(*                                                                         *)
(* The lists are thread-local (TLSW_ARRAY).  In a NO_TLS build they are    *)
(* plain statics, and TLSW_FREE expands to nothing.                        *)
(***************************************************************************)
EXTENDS Integers, Sequences, FiniteSets, SequencesExt

CONSTANTS
    Threads,      \* threads that call the allocator
    Blocks,       \* the blocks malloc() can deliver (bounds the run)
    Sizes,        \* request sizes in bytes
    WordSize,     \* WORD_SIZE
    BlkSize,      \* BLOCK_MALLOC_BLKSIZE, in words
    MaxWords,     \* BLOCK_MALLOC_MAXWORDS
    SizeRange,    \* size_t holds 0 .. SizeRange - 1
    NoTLS,        \* compiled with -DNO_TLS
    HandOver,     \* may a chunk be freed by another thread than its allocator
    Exiting       \* threads that call BM_freeThread

ASSUME WordsAssumption ==
    /\ WordSize \in Nat \ {0} /\ MaxWords \in Nat \ {0} /\ BlkSize \in Nat
    /\ MaxWords <= BlkSize + 1
    /\ SizeRange \in Nat /\ WordSize * (MaxWords + 1) < SizeRange
    /\ Sizes \subseteq 0 .. SizeRange - 1

ASSUME ModeAssumption ==
    /\ NoTLS \in BOOLEAN /\ HandOver \in BOOLEAN
    /\ Exiting \subseteq Threads
    /\ NoTLS => \A s, t \in Threads : s = t

VARIABLES
    mallocHeap,   \* malloc()'s view of each block: "unused", "live" or "freed"
    mallocList,   \* mallocList[t][w]: blocks carved by thread t into w-word chunks
    freeLists,    \* freeLists[t][w]: the free w-word chunks of thread t
    held,         \* chunks in use by the program
    fault         \* freed memory was freed again, read or written

mallocVars == <<mallocHeap, mallocList, freeLists, held, fault>>

Classes == 1 .. MaxWords - 1

NWords_RoundsDown(size) == IF size = 0 THEN SizeRange ELSE size \div WordSize

\* ((size-1) / WORD_SIZE + 1) in size_t arithmetic: a request of 0 bytes wraps.
NWords(size) == ((size - 1) % SizeRange) \div WordSize + 1

Managed(size) == NWords(size) < MaxWords

NChunks(w) == BlkSize \div w

\* Chunk i of block b, carved for class w; a large request is chunk 0 of class 0.
Chunk == [blk : Blocks, w : 0 .. MaxWords - 1, i : Nat]

Chunks(b, w) == [i \in 1 .. NChunks(w) |-> [blk |-> b, w |-> w, i |-> i - 1]]

LiveChunk(c) == mallocHeap[c.blk] = "live"

-----------------------------------------------------------------------------

MallocInit ==
    /\ mallocHeap = [b \in Blocks |-> "unused"]
    /\ mallocList = [t \in Threads |-> [w \in Classes |-> <<>>]]
    /\ freeLists = [t \in Threads |-> [w \in Classes |-> <<>>]]
    /\ held = {}
    /\ fault = FALSE

PopChunk_Forgotten(t, w) == UNCHANGED freeLists

PopChunk(t, w) == freeLists' = [freeLists EXCEPT ![t][w] = Tail(@)]

PushChunk(t, w, c) == freeLists' = [freeLists EXCEPT ![t][w] = <<c>> \o @]

Hold(t, c, n) == held' = held \cup {[chunk |-> c, size |-> n, by |-> t]}

\* BM_malloc of a size above the managed ones: plain malloc().
MallocLarge(t, n) ==
    /\ ~Managed(n)
    /\ \E b \in Blocks :
         /\ mallocHeap[b] = "unused"
         /\ mallocHeap' = [mallocHeap EXCEPT ![b] = "live"]
         /\ Hold(t, [blk |-> b, w |-> 0, i |-> 0], n)
    /\ UNCHANGED <<mallocList, freeLists, fault>>

\* BM_malloc with a free chunk of the right class at hand.
MallocCached(t, n) ==
    LET w == NWords(n) IN
    /\ Managed(n)
    /\ freeLists[t][w] # <<>>
    /\ LET c == Head(freeLists[t][w]) IN
         /\ PopChunk(t, w)
         /\ Hold(t, c, n)
         /\ fault' = (fault \/ ~LiveChunk(c))
    /\ UNCHANGED <<mallocHeap, mallocList>>

\* BM_malloc that first carves a new block into chunks, lowest address first.
MallocBlock(t, n) ==
    LET w == NWords(n) IN
    /\ Managed(n)
    /\ freeLists[t][w] = <<>>
    /\ \E b \in Blocks :
         /\ mallocHeap[b] = "unused"
         /\ mallocHeap' = [mallocHeap EXCEPT ![b] = "live"]
         /\ mallocList' = [mallocList EXCEPT ![t][w] = <<b>> \o @]
         /\ freeLists' = [freeLists EXCEPT ![t][w] = Tail(Chunks(b, w))]
         /\ Hold(t, Head(Chunks(b, w)), n)
    /\ UNCHANGED fault

\* BM_free: the caller passes the size it allocated the chunk with.
Free(t, h) ==
    LET w == NWords(h.size) IN
    /\ held' = held \ {h}
    /\ fault' = (fault \/ ~LiveChunk(h.chunk))
    /\ IF Managed(h.size)
         THEN /\ PushChunk(t, w, h.chunk)
              /\ UNCHANGED mallocHeap
         ELSE /\ mallocHeap' = [mallocHeap EXCEPT ![h.chunk.blk] = "freed"]
              /\ UNCHANGED freeLists
    /\ UNCHANGED mallocList

BlocksOf(t) == UNION {ToSet(mallocList[t][w]) : w \in Classes}

DropLists_KeepFree(t) ==
    /\ mallocList' = [mallocList EXCEPT ![t] = [w \in Classes |-> <<>>]]
    /\ UNCHANGED freeLists

\* TLSW_FREE releases the thread's lists; it expands to nothing for statics.
DropLists(t) ==
    IF NoTLS
      THEN UNCHANGED <<mallocList, freeLists>>
      ELSE /\ mallocList' = [mallocList EXCEPT ![t] = [w \in Classes |-> <<>>]]
           /\ freeLists' = [freeLists EXCEPT ![t] = [w \in Classes |-> <<>>]]

\* BM_freeThread
FreeThread(t) ==
    /\ mallocHeap' = [b \in Blocks |-> IF b \in BlocksOf(t) THEN "freed" ELSE mallocHeap[b]]
    /\ fault' = (fault \/ \E b \in BlocksOf(t) : mallocHeap[b] # "live")
    /\ DropLists(t)
    /\ UNCHANGED held

\* A thread returns the chunks it holds before it calls BM_freeThread.
Returned(t) == \A h \in held : h.by # t

MallocNext ==
    \E t \in Threads :
        \/ \E n \in Sizes : MallocLarge(t, n)
        \/ \E n \in Sizes : MallocCached(t, n)
        \/ \E n \in Sizes : MallocBlock(t, n)
        \/ \E h \in held : (HandOver \/ h.by = t) /\ Free(t, h)
        \/ t \in Exiting /\ Returned(t) /\ FreeThread(t)

MallocSpec == MallocInit /\ [][MallocNext]_mallocVars

-----------------------------------------------------------------------------

MallocTypeOK ==
    /\ mallocHeap \in [Blocks -> {"unused", "live", "freed"}]
    /\ mallocList \in [Threads -> [Classes -> Seq(Blocks)]]
    /\ freeLists \in [Threads -> [Classes -> Seq(Chunk)]]
    /\ held \subseteq [chunk : Chunk, size : Sizes, by : Threads]
    /\ fault \in BOOLEAN

Slots == {<<t, w>> : t \in Threads, w \in Classes}

List(s) == freeLists[s[1]][s[2]]

(* A chunk is in one place at a time: it is not on two free lists, not twice *)
(* on one, and not on a list while the program uses it (BM_malloc and BM_free *)
(* move a chunk between a list and the program, whichever threads call them). *)
SingleOwner ==
    /\ \A r, s \in Slots : \A i \in DOMAIN List(r), j \in DOMAIN List(s) :
         List(r)[i] = List(s)[j] => r = s /\ i = j
    /\ \A s \in Slots, h \in held : \A i \in DOMAIN List(s) : List(s)[i] # h.chunk
    /\ \A g, h \in held : g.chunk = h.chunk => g = h

(* No memory is touched after it went back to the system, and none is given *)
(* back twice (the frees of BM_freeThread against the lists that point into *)
(* the freed blocks).                                                       *)
NoUseAfterFree == ~fault

\* m words of block b, from word k on.
Words(b, k, m) == {<<b, k + j>> : j \in 0 .. m - 1}

\* A large request of n bytes in words.
LargeWords(n) == (n + WordSize - 1) \div WordSize

\* The words of memory a chunk of the program occupies.
Extent(h) ==
    IF Managed(h.size) THEN Words(h.chunk.blk, h.chunk.i * h.chunk.w, h.chunk.w)
                       ELSE Words(h.chunk.blk, 0, LargeWords(h.size))

BlockWords(b) == Words(b, 0, BlkSize)

Regions ==
    (UNION {{Words(b, i * w, w) : i \in 0 .. NChunks(w) - 1} : b \in Blocks, w \in Classes})
    \cup {Words(b, 0, LargeWords(n)) : b \in Blocks, n \in {m \in Sizes : ~Managed(m)}}

Allocated == {[words |-> Extent(h), size |-> h.size] : h \in held}

Memory == INSTANCE Allocator WITH allocated <- Allocated

(* A managed chunk lies inside its block, so that its last word is memory that *)
(* malloc() delivered (nchunks * nwords words were requested).                *)
InsideBlock == \A h \in held : Managed(h.size) => Extent(h) \subseteq BlockWords(h.chunk.blk)

(* BM_malloc and BM_free keep the promise of an allocator: each allocation is *)
(* large enough, inside its block and shares no word with another live one.   *)
Allocates == []InsideBlock /\ Memory!Spec

-----------------------------------------------------------------------------
(* The inductive invariant behind SingleOwner and NoUseAfterFree: which thread *)
(* answers for the block of each chunk.                                        *)

BlocksLive == \A t \in Threads : \A b \in BlocksOf(t) : mallocHeap[b] = "live"

BlocksApart == \A t, u \in Threads : t # u => BlocksOf(t) \cap BlocksOf(u) = {}

\* Without HandOver, blk is a block of thread t; with it, of some thread.
Backed(t, blk) == \E o \in Threads : (HandOver \/ o = t) /\ blk \in BlocksOf(o)

ListHome == \A s \in Slots : \A i \in DOMAIN List(s) : Backed(s[1], List(s)[i].blk)

HeldHome ==
    \A h \in held :
        IF Managed(h.size)
          THEN Backed(h.by, h.chunk.blk)
          ELSE /\ h.chunk = [blk |-> h.chunk.blk, w |-> 0, i |-> 0]
               /\ LiveChunk(h.chunk)
               /\ \A t \in Threads : h.chunk.blk \notin BlocksOf(t)

IInv ==
    /\ MallocTypeOK
    /\ SingleOwner
    /\ NoUseAfterFree
    /\ BlocksLive
    /\ BlocksApart
    /\ ListHome
    /\ HeldHome

(* What makes the chunks of the program lie apart: a chunk stays in the class *)
(* it was carved for, within its block, and a block has chunks of one class.  *)

\* The managed chunks, wherever they are.
Carved ==
    (UNION {ToSet(List(s)) : s \in Slots})
    \cup {h.chunk : h \in {g \in held : Managed(g.size)}}

ClassKept ==
    /\ \A s \in Slots : \A c \in ToSet(List(s)) : c.w = s[2]
    /\ \A h \in held : Managed(h.size) => h.chunk.w = NWords(h.size)

WithinBlock == \A c \in Carved : c.i < NChunks(c.w)

OneClass == \A c, d \in Carved : c.blk = d.blk => c.w = d.w

CInv == ClassKept /\ WithinBlock /\ OneClass

\* Threads and blocks that are the same to every property.
Symmetry == Permutations(Threads) \cup Permutations(Blocks)
===============================================================================
