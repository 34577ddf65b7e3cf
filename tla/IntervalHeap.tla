----------------------------- MODULE IntervalHeap -----------------------------
(***************************************************************************)
(* dstruct/src/IntervalHeap.cc: a heap of intervals.  Node i holds a left  *)
(* and a right element; the left ends form a min-heap, the right ends a    *)
(* max-heap.  With an odd number of elements the last node holds one       *)
(* element twice.  The elements are pointers to hypotheses, so that losing *)
(* or doubling one is a leak or a dangling pointer, not only a wrong order.*)
(*                                                                         *)
(* The code for the two ends is the same but for the direction of the      *)
(* comparisons, so that the end is a parameter here.                       *)
(***************************************************************************)
EXTENDS Integers, FiniteSets

CONSTANTS
    Items,        \* the elements that can be pushed
    ItemRank,     \* ItemRank[x]: what less, greater and equal compare
    NoItem,       \* an array element that was not assigned
    MaxNodes      \* bounds the run: nodes of the array

ASSUME HeapAssumption ==
    /\ ItemRank \in [Items -> Int]
    /\ NoItem \notin Items
    /\ MaxNodes \in Nat \ {0}

VARIABLES
    size,         \* CurrentSize
    heap,         \* heap[i] = [left, right]
    shown         \* the element top_min() or top_max() showed before the pop

hvars == <<size, heap, shown>>

Nodes == 1 .. MaxNodes
Ends == {"left", "right"}

Other(e) == IF e = "left" THEN "right" ELSE "left"

LastNode(n) == (n \div 2) + (n % 2)
Parent(i) == i \div 2

\* less() at left ends, greater() at right ends; and the same or equal().
Beyond(e, x, y) == IF e = "left" THEN ItemRank[x] < ItemRank[y] ELSE ItemRank[x] > ItemRank[y]
Outside(e, x, y) == IF e = "left" THEN ItemRank[x] <= ItemRank[y] ELSE ItemRank[x] >= ItemRank[y]

\* The elements in the heap; the twin of an odd last element counts once.
Held ==
    {heap[i]["left"] : i \in 1 .. LastNode(size)} \cup {heap[i]["right"] : i \in 1 .. size \div 2}

-----------------------------------------------------------------------------
\* An element on its way stands at s.at in s.heap.

Exchanged(h, i, e, j, f) == [h EXCEPT ![i][e] = h[j][f], ![j][f] = h[i][e]]

\* One round of the loop of push(): the parent's end comes down.
Climb(s, e) ==
    LET parent == Parent(s.at)
    IN  IF s.at # 1 /\ Outside(e, s.heap[s.at][e], s.heap[parent][e])
        THEN [heap |-> Exchanged(s.heap, s.at, e, parent, e), at |-> parent]
        ELSE s

\* The loop ends after as many rounds as there are nodes, or before.
Climbed(h, last, e) ==
    LET s[r \in 0 .. last] == IF r = 0 THEN [heap |-> h, at |-> last] ELSE Climb(s[r - 1], e)
    IN  s[last].heap

\* The end at which x is inserted.
EndFor_Parent(x) == IF Outside("left", x, heap[Parent(LastNode(size) + 1)]["left"]) THEN "left" ELSE "right"

EndFor(x) ==
    IF \/ size % 2 = 1 /\ Beyond("left", x, heap[LastNode(size)]["left"])
       \/ size % 2 = 0 /\ Outside("left", x, heap[Parent(LastNode(size) + 1)]["left"])
    THEN "left" ELSE "right"

Pushed(x) ==
    LET last == LastNode(size + 1)
        e == EndFor(x)
        h == Climbed([heap EXCEPT ![last][e] = x], last, e)
    IN  IF size = 0 THEN [heap EXCEPT ![1] = [f \in Ends |-> x]]
        ELSE IF size % 2 = 0 THEN [h EXCEPT ![last][Other(e)] = h[last][e]]
        ELSE h

\* The child to compare with.
Child(s, e, last) ==
    LET c == 2 * s.at
    IN  IF c < last /\ Beyond(e, s.heap[c + 1][e], s.heap[c][e]) THEN c + 1 ELSE c

\* One round of the loop of pop_min() and pop_max(): the element keeps inside
\* the interval it passes.
Sink(s, e, last) ==
    LET child == Child(s, e, last)
        h == Exchanged(s.heap, s.at, e, child, e)
    IN  IF 2 * s.at > last \/ Outside(e, s.heap[s.at][e], s.heap[child][e]) THEN s
        ELSE IF Beyond(e, h[child][Other(e)], h[child][e])
        THEN [heap |-> Exchanged(h, child, "left", child, "right"), at |-> child]
        ELSE [heap |-> h, at |-> child]

Sunk(h, last, e) ==
    LET s[r \in 0 .. last] == IF r = 0 THEN [heap |-> h, at |-> 1] ELSE Sink(s[r - 1], e, last)
    IN  s[last].heap

\* What is left without the first element at end e: the last one takes its place.
Popped(e) ==
    LET last == LastNode(size)
        y == IF size % 2 = 1 THEN heap[last]["left"] ELSE heap[last][e]
        h == IF size % 2 = 1 THEN heap ELSE [heap EXCEPT ![last][e] = heap[last][Other(e)]]
    IN  IF size - 1 > 1 THEN Sunk([h EXCEPT ![1][e] = y], LastNode(size - 1), e) ELSE h

-----------------------------------------------------------------------------

HeapInit ==
    /\ size = 0
    /\ heap = [i \in Nodes |-> [e \in Ends |-> NoItem]]
    /\ shown = NoItem

\* Array grows by itself; MaxNodes bounds the run.
Push(x) ==
    /\ x \notin Held
    /\ LastNode(size + 1) <= MaxNodes
    /\ heap' = Pushed(x)
    /\ size' = size + 1
    /\ shown' = NoItem

\* top_min() followed by pop_min(), or top_max() by pop_max().
Pop(e) ==
    /\ size > 0
    /\ shown' = heap[1][e]
    /\ heap' = Popped(e)
    /\ size' = size - 1

HeapNext == (\E e \in Ends : Pop(e)) \/ (\E x \in Items : Push(x))

HeapSpec == HeapInit /\ [][HeapNext]_hvars

-----------------------------------------------------------------------------

(* Every element is in the heap once, and below its parents: each interval is *)
(* inside the interval of its parent, and an odd last node is a single point. *)
(* The swaps of pop_min() and pop_max() are what keeps left ends below right  *)
(* ones when the moved element leaves the interval it passes.                 *)
IntervalProperty ==
    /\ Cardinality(Held) = size
    /\ \A i \in 1 .. LastNode(size) :
         /\ Outside("left", heap[i]["left"], heap[i]["right"])
         /\ i > 1 => \A e \in Ends : Outside(e, heap[Parent(i)][e], heap[i][e])
    /\ size % 2 = 1 => heap[LastNode(size)]["left"] = heap[LastNode(size)]["right"]

Queue == INSTANCE PriorityQueue WITH Rank <- ItemRank, queue <- Held, res <- shown

(* Whatever is pushed and popped in between, both ends show the best and the  *)
(* worst of the elements that are there, and popping removes just that one.   *)
ImplementsQueue == Queue!Spec
===============================================================================
