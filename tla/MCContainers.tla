---------------------------- MODULE MCContainers ----------------------------
(***************************************************************************)
(* The containers and their allocator, one in each behavior: a hash table, *)
(* a sorted array, an interval heap, the shared table of large counts, and *)
(* the block allocator.                                                    *)
(*   LHash: hashing from 4 slots on (minHashBits 2); four keys pass        *)
(* through tables of 1, 2, 4 and 8 slots.  The hash codes collide in the   *)
(* last slots, so that searches wrap around.                               *)
(*   SArray: growSize is 2 instead of 1.1, so that a body grows by two     *)
(* slots at once, as it does with 1.1 from 20 entries on.                  *)
(*   IntervalHeap: seven elements in up to four nodes, two pairs of ties.  *)
(*   XCount: three counts and a temporary in a table of four.              *)
(*   BlockMalloc: two threads, 8-byte words, blocks of 4 words; chunks of  *)
(* one and two words are managed, other requests are taken from malloc().  *)
(* Every thread frees what it allocated, before BM_freeThread.             *)
(***************************************************************************)
EXTENDS LHash, XCount, IntervalHeap, BlockMalloc

CONSTANTS ka, kb, kc, kd, it1,
          Order, GrowNum, GrowDen   \* SArray

VARIABLES
    which,                          \* the container of this behavior
    abody, aiter, aactive, ares     \* the array

Arr == INSTANCE SArray WITH body <- abody, iter <- aiter, active <- aactive, res <- ares

ASSUME Arr!OrderAssumption

MCKeys == {ka, kb, kc, kd}

\* The three bits below bit 4 are the slot among 8, the upper two that among 4.
Top(k) == CASE k = ka -> 7 [] k = kb -> 6 [] k = kc -> 0 [] k = kd -> 7

MCRawHash == [k \in Keys |-> Top(k) * 2 + 1]
MCRank == [k \in Keys |-> CASE k = ka -> 3 [] k = kb -> 1 [] k = kc -> 4 [] k = kd -> 2]

MCItems == 1 .. 7
\* 1 .. 7 have the ranks 0, 1, 1, 2, 3, 3, 4.
MCItemRank == [x \in MCItems |-> x - 1 - (IF x > 2 THEN 1 ELSE 0) - (IF x > 5 THEN 1 ELSE 0)]

avars == <<abody, aiter, aactive, ares>>
all   == <<which, vars, avars, hvars, xvars, mallocVars>>

AllInit ==
    /\ which \in {"hash", "array", "heap", "counts", "malloc"}
    /\ Init /\ Arr!Init /\ HeapInit /\ XInit /\ MallocInit

HashNext   == which = "hash" /\ Next /\ UNCHANGED <<which, avars, hvars, xvars, mallocVars>>
ArrayNext  == which = "array" /\ Arr!Next /\ UNCHANGED <<which, vars, hvars, xvars, mallocVars>>
QueueNext  == which = "heap" /\ HeapNext /\ UNCHANGED <<which, vars, avars, xvars, mallocVars>>
CountNext  == which = "counts" /\ XNext /\ UNCHANGED <<which, vars, avars, hvars, mallocVars>>
MemoryNext == which = "malloc" /\ MallocNext /\ UNCHANGED <<which, vars, avars, hvars, xvars>>

AllNext == HashNext \/ ArrayNext \/ QueueNext \/ CountNext \/ MemoryNext

AllSpec == AllInit /\ [][AllNext]_all

-----------------------------------------------------------------------------
\* The tables are as searches and iterators need them: probe chains are unbroken, the count of entries is
\* exact and a free slot ends every search (LHash::locate); the array is packed and sorted and its iterators
\* notice deletions (SArray::locate, SArrayIter::next); each interval of the heap is inside that of its parent
\* (IntervalHeap::push, pop_min, pop_max).
TablesSound ==
    /\ TypeOK /\ ProbeInvariant /\ CountExact /\ RoomLeft
    /\ Arr!TypeOK /\ Arr!Packed /\ Arr!IteratorSeesDeletions
    /\ IntervalProperty

\* The sorted array is a dictionary, too: its searches find the values last assigned, and
\* an iterator delivers each entry once although entries are removed under it (SArray.cc).
ArrayImplementsMap == Arr!ImplementsMap
=============================================================================
