------------------------------ MODULE Allocator ------------------------------
(***************************************************************************)
(* What the containers of dstruct/src expect of BM_malloc and BM_free: an  *)
(* allocation hands out words of memory that belong to no other live       *)
(* allocation and are enough for the requested number of bytes.  A failed  *)
(* BM_malloc (NULL) changes nothing and is a stuttering step here.         *)
(***************************************************************************)
EXTENDS Naturals, FiniteSets

CONSTANTS
    Regions,    \* the sets of word addresses an allocation may consist of
    Sizes,      \* the request sizes, in bytes
    WordSize    \* bytes per word

VARIABLE
    allocated   \* the live allocations: a set of [words, size]

Init == allocated = {}

Obtain(ws, n) ==
    /\ Cardinality(ws) * WordSize >= n
    /\ \A a \in allocated : a.words \cap ws = {}
    /\ allocated' = allocated \cup {[words |-> ws, size |-> n]}

Release(a) == allocated' = allocated \ {a}

Next == \/ \E ws \in Regions, n \in Sizes : Obtain(ws, n)
        \/ \E a \in allocated : Release(a)

Spec == Init /\ [][Next]_allocated
===============================================================================
