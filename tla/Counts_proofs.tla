---------------------------- MODULE Counts_proofs ----------------------------
(***************************************************************************)
(* Proofs about counts: what discounting makes of them (Discounting), and  *)
(* the counts that move between a word and a shared table (XCount).        *)
(***************************************************************************)
EXTENDS Discounting, XCount, Loops, FunctionTheorems, FiniteSetTheorems, TLAPS

-----------------------------------------------------------------------------
(***************************************************************************)
(* Proofs about Discounting, for any counts, any order and any discounts:  *)
(* whatever order is changed when, Kneser-Ney smoothing ends with the      *)
(* number of words that come before an N-gram in the counts as they were.  *)
(***************************************************************************)

\* The options the theorem is about: the counts read are not modified yet (no
\* -kn-counts-modified), and where the parameters of an order come from a file, so
\* do those of the orders above it that use Kneser-Ney smoothing, except for the
\* highest.  Parameters from a file leave an order unchanged until the model is
\* built, when the counts of the next order, if they were changed to estimate its
\* parameters, are no longer those of the text.
FilesUpwards ==
    \A choice \in Discountings : \A i \in 1 .. Order :
        D!IsKN(choice[i]) =>
            /\ ~choice[i].modified
            /\ choice[i].fromFile /\ i + 1 < Order /\ D!IsKN(choice[i + 1]) => choice[i + 1].fromFile

\* What of a discount object the proof looks at.
IsObject(d) ==
    /\ d = [x \in DOMAIN d |-> d[x]]
    /\ {"method", "fromFile"} \subseteq DOMAIN d
    /\ d.method \in {"KneserNey", "ModKneserNey", "GoodTuring", "Const", "Natural",
                     "AddSmooth", "WittenBell", "none"}
    /\ d.fromFile \in BOOLEAN
    /\ D!IsKN(d) => "modified" \in DOMAIN d /\ d.modified \in BOOLEAN

\* Two objects that differ in parameters only.
Alike(d, e) ==
    /\ d.method = e.method /\ d.fromFile = e.fromFile
    /\ D!IsKN(d) => d.modified = e.modified

\* The objects of the options are objects.
LEMMA ObjectsAre ==
    ASSUME NEW d \in DiscountObjects
    PROVE  IsObject(d)
BY DEF DiscountObjects, IsObject, D!IsKN

\* Estimating changes an object's parameters, or fails.
LEMMA EstimateAlike ==
    ASSUME NEW d, IsObject(d), NEW t, NEW i, NEW events,
           NEW e, e = D!Estimate(t, i, Order, d, events), e # D!Failed
    PROVE  IsObject(e) /\ Alike(e, d)
<1>k. d = [x \in DOMAIN d |-> d[x]] /\ {"method", "fromFile"} \subseteq DOMAIN d
  BY DEF IsObject
<1>1. ASSUME NEW x, NEW y, x \notin {"method", "fromFile", "modified"}, e = [d EXCEPT ![x] = y]
      PROVE  IsObject(e) /\ Alike(e, d)
  <2>1. DOMAIN e = DOMAIN d /\ e = [z \in DOMAIN e |-> e[z]]
    BY <1>1
  <2>2. e.method = d.method /\ e.fromFile = d.fromFile
    BY <1>1, <1>k
  <2>3. "modified" \in DOMAIN d => e.modified = d.modified
    BY <1>1
  <2>4. D!IsKN(e) <=> D!IsKN(d)
    BY <2>2 DEF D!IsKN
  <2> QED
    BY <2>1, <2>2, <2>3, <2>4 DEF IsObject, Alike
<1>2. CASE d.method = "GoodTuring"
  <2> DEFINE n == [c \in 0 .. d.maxcount + 1 |-> D!CountOfCounts(t, i, c)]
             max == D!LoweredMax(n, d.maxcount)
             c1 == [c \in 1 .. max |-> D!GoodTuringCoefficient(n, max, c)]
  <2>1. e = [d EXCEPT !.maxcount = max, !.coeffs = c1]
    BY <1>2 DEF D!Estimate, D!EstimatedGT, D!IsKN
  <2> HIDE DEF max, c1
  <2>2. DOMAIN e = DOMAIN d /\ e = [z \in DOMAIN e |-> e[z]]
    BY <2>1
  <2>3. e.method = d.method /\ e.fromFile = d.fromFile
    BY <2>1, <1>k
  <2>4. ~D!IsKN(e) /\ ~D!IsKN(d)
    BY <1>2, <2>3 DEF D!IsKN
  <2> QED
    BY <2>2, <2>3, <2>4 DEF IsObject, Alike
<1>3. CASE d.method \in {"Natural", "AddSmooth"}
  <2>1. e = [d EXCEPT !.vocabSize = events]
    BY <1>3 DEF D!Estimate, D!IsKN
  <2> QED
    BY <1>1, <2>1
<1>4. CASE D!IsKN(d)
  <2> DEFINE u == IF D!IsKN(d) /\ ~d.atEnd THEN D!PreparedBy(d, t, i, Order) ELSE t
  <2>1. e = D!EstimatedConstants(u, i, d)
    BY <1>4 DEF D!Estimate, D!IsKN
  <2> HIDE DEF u
  <2>2. \E y : e = [d EXCEPT !.ds = y]
    BY <2>1 DEF D!EstimatedConstants
  <2> QED
    BY <1>1, <2>2
<1>5. CASE d.method \in {"Const", "WittenBell", "none"}
  <2>1. e = d
    BY <1>5 DEF D!Estimate, D!IsKN
  <2> QED
    BY <2>1 DEF Alike
<1> QED
  BY <1>2, <1>3, <1>4, <1>5 DEF IsObject, D!IsKN

\* prepareCounts leaves its mark below the highest order.
LEMMA AfterPrepareIs ==
    ASSUME NEW d, IsObject(d), NEW i
    PROVE  LET e == D!AfterPrepare(d, i, Order)
           IN  /\ IsObject(e) /\ e.method = d.method /\ e.fromFile = d.fromFile
               /\ D!IsKN(d) => (e.modified <=> i < Order \/ d.modified)
<1> DEFINE e == D!AfterPrepare(d, i, Order)
<1>k. d = [x \in DOMAIN d |-> d[x]] /\ {"method", "fromFile"} \subseteq DOMAIN d
  BY DEF IsObject
<1>1. CASE D!IsKN(d) /\ i < Order
  <2>1. e = [d EXCEPT !.modified = TRUE]
    BY <1>1 DEF D!AfterPrepare
  <2>2. DOMAIN e = DOMAIN d /\ e = [z \in DOMAIN e |-> e[z]]
    BY <2>1
  <2>3. e.method = d.method /\ e.fromFile = d.fromFile
    BY <2>1, <1>k
  <2>4. "modified" \in DOMAIN d
    BY <1>1 DEF IsObject
  <2>5. e.modified = TRUE
    BY <2>1, <2>4
  <2> HIDE DEF e
  <2>6. IsObject(e)
    BY <1>1, <2>2, <2>3, <2>4, <2>5 DEF IsObject, D!IsKN
  <2> QED
    BY <1>1, <2>3, <2>5, <2>6 DEF e
<1>2. CASE ~(D!IsKN(d) /\ i < Order)
  <2>1. e = d
    BY <1>2 DEF D!AfterPrepare
  <2>2. D!IsKN(d) => d.modified \in BOOLEAN
    BY DEF IsObject
  <2> QED
    BY <1>2, <2>1, <2>2
<1> QED
  BY <1>1, <1>2

-----------------------------------------------------------------------------
(* What prepareCounts computes. *)

\* The cardinality in Discounts is that of finite sets.
LEMMA SameCardinality ==
    ASSUME NEW S
    PROVE  D!Cardinality(S) = Cardinality(S)
BY DEF D!Cardinality, Cardinality

\* The words before g in the counts as they were, and how many they are.
WordsBefore(g) ==
    {w \in Words \cup Tags : <<w>> \o g \in DOMAIN original /\ original[<<w>> \o g] > 0}

Continued(g) == Cardinality(WordsBefore(g))

\* The N-grams that prepareCounts counts for g.
Longer(t, i, g) == {h \in D!NgramsOfOrder(t, i + 1) : Tail(h) = g /\ t[h] > 0}

\* They and the words before g go together.
LEMMA CountedBefore ==
    ASSUME IsCounts(original), NEW t, DOMAIN t = DOMAIN original,
           NEW i \in Nat, \A h \in DOMAIN t : Len(h) = i + 1 => t[h] = original[h],
           NEW g \in Seq(Words \cup Tags), Len(g) = i
    PROVE  D!Cardinality(Longer(t, i, g)) = Continued(g)
<1> DEFINE H == Longer(t, i, g)
           W == WordsBefore(g)
           f == [h \in H |-> h[1]]
<1>1. H = {h \in DOMAIN original : Len(h) = i + 1 /\ Tail(h) = g /\ original[h] > 0}
  BY DEF Longer, D!NgramsOfOrder
<1>2. ASSUME NEW h \in H
      PROVE  h[1] \in W /\ h = <<h[1]>> \o g
  <2>1. h \in Seq(Words \cup Tags) /\ Len(h) = i + 1 /\ Tail(h) = g
    BY <1>1 DEF IsCounts
  <2>2. h[1] \in Words \cup Tags
    BY <2>1
  <2>3. h = <<h[1]>> \o Tail(h)
    BY <2>1
  <2> QED
    BY <1>1, <2>1, <2>2, <2>3 DEF WordsBefore
<1>3. ASSUME NEW w \in W
      PROVE  <<w>> \o g \in H /\ (<<w>> \o g)[1] = w
  <2>1. w \in Words \cup Tags /\ <<w>> \o g \in DOMAIN original /\ original[<<w>> \o g] > 0
    BY DEF WordsBefore
  <2>2. Len(<<w>> \o g) = i + 1 /\ Tail(<<w>> \o g) = g /\ (<<w>> \o g)[1] = w
    BY <2>1
  <2> QED
    BY <1>1, <2>1, <2>2
<1> HIDE DEF H, W
<1>4. f \in Bijection(H, W)
  <2>1. f \in [H -> W]
    BY <1>2
  <2>2. \A a, b \in H : f[a] = f[b] => a = b
    BY <1>2
  <2>3. \A w \in W : \E h \in H : f[h] = w
    BY <1>3
  <2> QED
    BY <2>1, <2>2, <2>3, Fun_IsBij
<1>5. IsFiniteSet(H)
  <2>1. H \subseteq DOMAIN original /\ IsFiniteSet(DOMAIN original)
    BY <1>1 DEF IsCounts
  <2> QED
    BY <2>1, FS_Subset
<1>6. Cardinality(W) = Cardinality(H)
  <2>1. ExistsBijection(H, W)
    BY <1>4 DEF ExistsBijection
  <2> QED
    BY <1>5, <2>1, FS_Bijection
<1> QED
  BY <1>6, SameCardinality DEF H, W, Continued

\* The counts when the orders in a set are changed and the others are not.
ChangedIn(S) ==
    [g \in DOMAIN original |->
        IF Len(g) \in S /\ g[1] \notin NonEvents THEN Continued(g) ELSE original[g]]

\* Preparing one more order, as long as the next is not changed.
LEMMA PreparedIs ==
    ASSUME IsCounts(original), NEW S \in SUBSET (1 .. Order - 1), NEW i \in 1 .. Order, i \notin S,
           i + 1 \notin S
    PROVE  D!Prepared(ChangedIn(S), i, Order) = ChangedIn(IF i < Order THEN S \cup {i} ELSE S)
<1> DEFINE t == ChangedIn(S)
<1>1. DOMAIN t = DOMAIN original /\ i \in Nat /\ Order \in Nat
  BY OrderAssumption DEF ChangedIn
<1>2. \A h \in DOMAIN t : Len(h) = i + 1 => t[h] = original[h]
  BY <1>1 DEF ChangedIn
<1>3. CASE i < Order
  <2>1. ASSUME NEW g \in DOMAIN original, Len(g) = i
        PROVE  D!Cardinality(Longer(t, i, g)) = Continued(g)
    <3>1. g \in Seq(Words \cup Tags)
      BY DEF IsCounts
    <3> HIDE DEF t
    <3> QED
      BY <1>1, <1>2, <2>1, <3>1, CountedBefore
  <2>2. D!Prepared(t, i, Order) =
          [g \in DOMAIN t |->
            IF Len(g) # i \/ g[1] \in NonEvents THEN t[g]
            ELSE D!Cardinality(Longer(t, i, g))]
    BY <1>3, <1>1 DEF D!Prepared, Longer
  <2>3. \A g \in DOMAIN original :
          D!Prepared(t, i, Order)[g] = IF Len(g) \in S \cup {i} /\ g[1] \notin NonEvents
                                       THEN Continued(g) ELSE original[g]
    <3> SUFFICES ASSUME NEW g \in DOMAIN original
                 PROVE  D!Prepared(t, i, Order)[g] = IF Len(g) \in S \cup {i} /\ g[1] \notin NonEvents
                                                     THEN Continued(g) ELSE original[g]
      OBVIOUS
    <3>1. t[g] = IF Len(g) \in S /\ g[1] \notin NonEvents THEN Continued(g) ELSE original[g]
      BY DEF ChangedIn
    <3> HIDE DEF t
    <3>2. CASE Len(g) # i \/ g[1] \in NonEvents
      <4>1. D!Prepared(t, i, Order)[g] = t[g]
        BY <1>1, <2>2, <3>2
      <4> QED
        BY <3>1, <3>2, <4>1
    <3>3. CASE Len(g) = i /\ g[1] \notin NonEvents
      <4>1. D!Prepared(t, i, Order)[g] = Continued(g)
        BY <1>1, <2>1, <2>2, <3>3
      <4> QED
        BY <3>3, <4>1
    <3> QED
      BY <3>2, <3>3
  <2>4. D!Prepared(t, i, Order) = [g \in DOMAIN original |-> D!Prepared(t, i, Order)[g]]
    <3> HIDE DEF t
    <3> QED
      BY <1>1, <2>2
  <2> QED
    BY <1>3, <2>3, <2>4 DEF ChangedIn
<1>4. CASE ~(i < Order)
  BY <1>1, <1>4 DEF D!Prepared
<1> QED
  BY <1>3, <1>4

-----------------------------------------------------------------------------
(* The invariant. *)

\* Discounts of all orders; where one with parameters from a file is followed by
\* one that changes counts, the parameters of that one are from a file, too.
DiscountsSound ==
    /\ discounts = [i \in 1 .. Order |-> discounts[i]]
    /\ \A i \in 1 .. Order : IsObject(discounts[i])
    /\ \A i \in 1 .. Order :
         D!IsKN(discounts[i]) /\ discounts[i].fromFile /\ i + 1 < Order /\ D!IsKN(discounts[i + 1])
           => discounts[i + 1].fromFile

\* The orders that estimating the discounts below one changes.
ChangedBefore(k) ==
    {j \in 1 .. Order - 1 : j < k /\ D!IsKN(discounts[j]) /\ ~discounts[j].fromFile}

\* The discounts know whether the counts are changed.
Marked ==
    \A i \in 1 .. Order :
      D!IsKN(discounts[i]) => (discounts[i].modified <=> i \in ChangedBefore(stage))

Estimating ==
    IsCounts(original) /\ DiscountsSound /\ Marked /\ counts = ChangedIn(ChangedBefore(stage))

\* All orders but the highest are changed by Kneser-Ney smoothing.
Estimated ==
    IsCounts(original) /\ counts = ChangedIn({j \in 1 .. Order - 1 : D!IsKN(discounts[j])})

DiscountingInvariant ==
    /\ stage \in 0 .. Exited
    /\ stage = 0 => IsCounts(counts)
    /\ stage \in 1 .. ForModel => Estimating
    /\ stage = ForModel + 1 => Estimated

\* Before the first discount no order is changed.
LEMMA ChoosePreserves ==
    ASSUME FilesUpwards, DiscountingInvariant, NEW choice \in Discountings, Choose(choice)
    PROVE  DiscountingInvariant'
<1>1. /\ stage = 0 /\ stage' = 1 /\ discounts' = choice /\ original' = counts /\ counts' = counts
      /\ IsCounts(counts)
  BY DEF Choose, DiscountingInvariant
<1>2. choice \in [1 .. Order -> DiscountObjects] /\ Order \in Nat \ {0}
  BY DiscountingsAssumption, OrderAssumption
<1>3. IsCounts(original)'
  BY <1>1 DEF IsCounts
<1>4. DiscountsSound'
  <2>1. \A i \in 1 .. Order : IsObject(choice[i])
    BY <1>2, ObjectsAre
  <2>2. \A i \in 1 .. Order :
          D!IsKN(choice[i]) /\ choice[i].fromFile /\ i + 1 < Order /\ D!IsKN(choice[i + 1])
            => choice[i + 1].fromFile
    BY DEF FilesUpwards
  <2>3. choice = [i \in 1 .. Order |-> choice[i]]
    BY <1>2
  <2> QED
    BY <1>1, <2>1, <2>2, <2>3 DEF DiscountsSound
<1>5. ChangedBefore(stage)' = {}
  BY <1>1, <1>2 DEF ChangedBefore
<1>6. Marked'
  <2>1. \A i \in 1 .. Order : D!IsKN(choice[i]) => ~choice[i].modified
    BY DEF FilesUpwards
  <2>2. \A i \in 1 .. Order : D!IsKN(choice[i]) => choice[i].modified \in BOOLEAN
    BY <1>2, ObjectsAre DEF IsObject
  <2> QED
    BY <1>1, <1>5, <2>1, <2>2 DEF Marked
<1>7. (counts = ChangedIn(ChangedBefore(stage)))'
  <2>1. counts = [g \in DOMAIN counts |-> counts[g]]
    BY <1>1 DEF IsCounts
  <2>2. counts' = [g \in DOMAIN original' |-> original'[g]]
    BY <1>1, <2>1
  <2>3. ChangedIn({})' = [g \in DOMAIN original' |-> original'[g]]
    BY DEF ChangedIn
  <2> QED
    BY <1>5, <2>2, <2>3 DEF ChangedIn
<1>8. Estimating'
  BY <1>3, <1>4, <1>6, <1>7 DEF Estimating
<1> QED
  BY <1>1, <1>2, <1>8 DEF DiscountingInvariant, Exited, ForModel

\* Of one discount only its parameters and its mark change.
LEMMA OneDiscountChanges ==
    ASSUME DiscountsSound, NEW k \in 1 .. Order, NEW f, IsObject(f),
           f.method = discounts[k].method, f.fromFile = discounts[k].fromFile,
           discounts' = [discounts EXCEPT ![k] = f]
    PROVE  /\ DiscountsSound' /\ discounts'[k] = f
           /\ \A i \in 1 .. Order : i # k => discounts'[i] = discounts[i]
           /\ \A n : ChangedBefore(n)' = ChangedBefore(n)
<1>1. \A i \in 1 .. Order : discounts'[i] = IF i = k THEN f ELSE discounts[i]
  BY DEF DiscountsSound
<1>2. \A i \in 1 .. Order : /\ D!IsKN(discounts'[i]) <=> D!IsKN(discounts[i])
                            /\ discounts'[i].fromFile = discounts[i].fromFile
  BY <1>1 DEF D!IsKN
<1>3. \A i \in 1 .. Order : IsObject(discounts'[i])
  BY <1>1 DEF DiscountsSound
<1>4. discounts' = [i \in 1 .. Order |-> discounts'[i]]
  BY DEF DiscountsSound
<1>5. \A i \in 1 .. Order :
        D!IsKN(discounts'[i]) /\ discounts'[i].fromFile /\ i + 1 < Order /\ D!IsKN(discounts'[i + 1])
          => discounts'[i + 1].fromFile
  BY <1>2, OrderAssumption DEF DiscountsSound
<1>6. \A n : ChangedBefore(n)' = ChangedBefore(n)
  BY <1>2, OrderAssumption DEF ChangedBefore
<1> QED
  BY <1>1, <1>3, <1>4, <1>5, <1>6 DEF DiscountsSound

\* An order's discount is estimated: if that changes its counts, then before those of
\* any order above it.
LEMMA DiscountOrderPreserves ==
    ASSUME DiscountingInvariant, DiscountOrder
    PROVE  DiscountingInvariant'
<1> DEFINE d == discounts[stage]
           e == D!Estimate(counts, stage, Order, d, Events)
<1>1. /\ stage \in 1 .. Order /\ Estimating /\ original' = original
      /\ IsObject(d) /\ Order \in Nat \ {0}
  BY OrderAssumption DEF DiscountOrder, DiscountingInvariant, ForModel, Estimating, DiscountsSound
<1>2. IsCounts(original)'
  BY <1>1 DEF Estimating, IsCounts
<1>b. d.fromFile \in BOOLEAN /\ (D!IsKN(d) => d.modified \in BOOLEAN)
  BY <1>1 DEF IsObject
<1>s. stage \notin ChangedBefore(stage) /\ stage + 1 \notin ChangedBefore(stage)
  BY <1>1 DEF ChangedBefore
<1>o. \A n : ChangedBefore(n) \in SUBSET (1 .. Order - 1)
  BY DEF ChangedBefore
<1>n. ChangedBefore(stage + 1) = IF D!IsKN(d) /\ ~d.fromFile /\ stage < Order
                                 THEN ChangedBefore(stage) \cup {stage}
                                 ELSE ChangedBefore(stage)
  <2> DEFINE A == ChangedBefore(stage + 1)
             B == ChangedBefore(stage)
  <2>1. \A j \in 1 .. Order - 1 :
          j \in A <=> j \in B \/ (j = stage /\ D!IsKN(d) /\ ~d.fromFile)
    BY <1>1 DEF ChangedBefore
  <2>2. A \in SUBSET (1 .. Order - 1) /\ B \in SUBSET (1 .. Order - 1)
    BY <1>o
  <2>3. stage \in 1 .. Order - 1 <=> stage < Order
    BY <1>1
  <2> HIDE DEF A, B, d
  <2>4. A = IF D!IsKN(d) /\ ~d.fromFile /\ stage < Order THEN B \cup {stage} ELSE B
    BY <2>1, <2>2, <2>3
  <2> QED
    BY <2>4 DEF A, B
<1>3. CASE d.fromFile
  <2>1. stage' = stage + 1 /\ counts' = counts /\ discounts' = discounts
    BY <1>3 DEF DiscountOrder
  <2>2. ChangedBefore(stage + 1) = ChangedBefore(stage)
    BY <1>3, <1>n
  <2>3. (ChangedBefore(stage))' = ChangedBefore(stage)
    BY <2>1, <2>2 DEF ChangedBefore
  <2>4. DiscountsSound'
    BY <1>1, <2>1 DEF Estimating, DiscountsSound
  <2>5. Marked'
    BY <1>1, <2>1, <2>3 DEF Estimating, Marked
  <2>6. (counts = ChangedIn(ChangedBefore(stage)))'
    BY <1>1, <2>1, <2>3 DEF Estimating, ChangedIn, Continued, WordsBefore
  <2>7. Estimating'
    BY <1>2, <2>4, <2>5, <2>6 DEF Estimating
  <2> QED
    BY <1>1, <2>1, <2>7 DEF DiscountingInvariant, ForModel, Exited
<1>4. CASE ~d.fromFile /\ e = D!Failed
  <2>1. stage' = Exited
    BY <1>4 DEF DiscountOrder
  <2> QED
    BY <1>1, <2>1 DEF DiscountingInvariant, ForModel, Exited
<1>5. CASE ~d.fromFile /\ e # D!Failed
  <2> DEFINE f == D!AfterPrepare(e, stage, Order)
  <2>1. /\ stage' = stage + 1
        /\ counts' = D!PreparedBy(d, counts, stage, Order)
        /\ discounts' = [discounts EXCEPT ![stage] = f]
    BY <1>5 DEF DiscountOrder
  <2>2. IsObject(e) /\ Alike(e, d)
    <3> HIDE DEF d
    <3> QED
      BY <1>1, <1>5, EstimateAlike
  <2>3. /\ IsObject(f) /\ f.method = d.method /\ f.fromFile = d.fromFile
        /\ D!IsKN(d) => (f.modified <=> stage < Order \/ d.modified)
    <3> HIDE DEF d, e
    <3>1. /\ IsObject(f) /\ f.method = e.method /\ f.fromFile = e.fromFile
          /\ D!IsKN(e) => (f.modified <=> stage < Order \/ e.modified)
      BY <1>1, <2>2, AfterPrepareIs
    <3> QED
      BY <2>2, <3>1 DEF Alike, D!IsKN
  <2> HIDE DEF e, f
  <2>4. /\ DiscountsSound' /\ discounts'[stage] = f
        /\ \A i \in 1 .. Order : i # stage => discounts'[i] = discounts[i]
        /\ \A n : ChangedBefore(n)' = ChangedBefore(n)
    BY <1>1, <2>1, <2>3, OneDiscountChanges DEF Estimating
  <2>5. (ChangedBefore(stage))' = ChangedBefore(stage + 1)
    BY <2>1, <2>4
  <2>6. D!IsKN(d) => ~d.modified
    BY <1>1, <1>s, <1>b DEF Estimating, Marked
  <2>7. Marked'
    <3> SUFFICES ASSUME NEW i \in 1 .. Order, D!IsKN(discounts'[i])
                 PROVE  discounts'[i].modified <=> i \in ChangedBefore(stage + 1)
      BY <2>5 DEF Marked
    <3>1. CASE i = stage
      <4>1. D!IsKN(d)
        BY <2>3, <2>4, <3>1 DEF D!IsKN
      <4> QED
        BY <1>1, <1>5, <1>n, <1>o, <1>s, <2>3, <2>4, <2>6, <3>1, <4>1
    <3>2. CASE i # stage
      <4>1. D!IsKN(discounts[i]) /\ discounts'[i].modified = discounts[i].modified
        BY <2>4, <3>2
      <4>2. discounts[i].modified <=> i \in ChangedBefore(stage)
        BY <1>1, <4>1 DEF Estimating, Marked
      <4>3. i \in ChangedBefore(stage + 1) <=> i \in ChangedBefore(stage)
        BY <1>n, <1>o, <3>2
      <4> QED
        BY <4>1, <4>2, <4>3
    <3> QED
      BY <3>1, <3>2
  <2>8. counts' = ChangedIn(ChangedBefore(stage + 1))
    <3>1. counts = ChangedIn(ChangedBefore(stage)) /\ IsCounts(original)
      BY <1>1 DEF Estimating
    <3>2. CASE D!IsKN(d)
      <4>1. counts' = D!Prepared(ChangedIn(ChangedBefore(stage)), stage, Order)
        BY <2>1, <2>6, <3>1, <3>2 DEF D!PreparedBy
      <4>2. counts' = ChangedIn(IF stage < Order THEN ChangedBefore(stage) \cup {stage}
                                ELSE ChangedBefore(stage))
        BY <1>1, <1>s, <1>o, <3>1, <4>1, PreparedIs
      <4>3. ChangedBefore(stage + 1) = IF stage < Order THEN ChangedBefore(stage) \cup {stage}
                                       ELSE ChangedBefore(stage)
        BY <1>1, <1>5, <1>n, <3>2
      <4> QED
        BY <4>2, <4>3
    <3>3. CASE ~D!IsKN(d)
      <4>1. counts' = counts
        BY <2>1, <3>3 DEF D!PreparedBy
      <4>2. ChangedBefore(stage + 1) = ChangedBefore(stage)
        BY <1>n, <1>o, <3>3
      <4> QED
        BY <3>1, <4>1, <4>2
    <3> QED
      BY <3>2, <3>3
  <2>9. (counts = ChangedIn(ChangedBefore(stage)))'
    BY <1>1, <2>5, <2>8 DEF ChangedIn, Continued, WordsBefore
  <2>10. Estimating'
    BY <1>2, <2>4, <2>7, <2>9 DEF Estimating
  <2> QED
    BY <1>1, <2>1, <2>10 DEF DiscountingInvariant, ForModel, Exited
<1> QED
  BY <1>b, <1>3, <1>4, <1>5

\* When the model is built, the orders that are still to be changed are changed from
\* the lowest to the highest: those up to k are.
ChangedUpTo(k) ==
    {j \in 1 .. Order - 1 : D!IsKN(discounts[j]) /\ (discounts[j].fromFile => j <= k)}

\* One order prepared, or left alone.
PreparedFor(t, i) ==
    IF D!NoDiscounting(discounts[i]) THEN t ELSE D!PreparedBy(discounts[i], t, i, Order)

LEMMA OneMoreForModel ==
    ASSUME Estimating, stage = ForModel, NEW k \in 1 .. Order
    PROVE  PreparedFor(ChangedIn(ChangedUpTo(k - 1)), k) = ChangedIn(ChangedUpTo(k))
<1> DEFINE d == discounts[k]
           A == ChangedUpTo(k)
           B == ChangedUpTo(k - 1)
<1>1. IsObject(d) /\ Order \in Nat \ {0} /\ IsCounts(original) /\ k \in Nat
  BY OrderAssumption DEF Estimating, DiscountsSound
<1>b. d.fromFile \in BOOLEAN /\ (D!IsKN(d) => d.modified \in BOOLEAN)
  BY <1>1 DEF IsObject
<1>2. A \in SUBSET (1 .. Order - 1) /\ B \in SUBSET (1 .. Order - 1)
  BY DEF ChangedUpTo
<1>3. \A j \in 1 .. Order - 1 : j \in A <=> j \in B \/ (j = k /\ D!IsKN(d))
  BY <1>b, <1>1 DEF ChangedUpTo
<1>4. D!IsKN(d) => (d.modified <=> k < Order /\ ~d.fromFile)
  BY <1>1 DEF Estimating, Marked, ChangedBefore, ForModel
<1>5. CASE D!IsKN(d) /\ ~d.modified
  <2>1. PreparedFor(ChangedIn(B), k) = D!Prepared(ChangedIn(B), k, Order)
    <3>1. ~D!NoDiscounting(d)
      BY <1>5 DEF D!IsKN, D!NoDiscounting
    <3> QED
      BY <1>5, <3>1 DEF PreparedFor, D!PreparedBy
  <2>2. k \notin B /\ k + 1 \notin B
    <3>1. k = Order \/ d.fromFile
      BY <1>1, <1>4, <1>5
    <3>2. k + 1 < Order /\ D!IsKN(discounts[k + 1]) /\ d.fromFile => discounts[k + 1].fromFile
      BY <1>5 DEF Estimating, DiscountsSound
    <3> QED
      BY <1>1, <3>1, <3>2 DEF ChangedUpTo
  <2>3. A = IF k < Order THEN B \cup {k} ELSE B
    <3>1. k \in 1 .. Order - 1 <=> k < Order
      BY <1>1
    <3> HIDE DEF A, B, d
    <3> QED
      BY <1>2, <1>3, <1>5, <3>1
  <2> HIDE DEF A, B, d
  <2>4. D!Prepared(ChangedIn(B), k, Order) = ChangedIn(IF k < Order THEN B \cup {k} ELSE B)
    BY <1>1, <1>2, <2>2, PreparedIs
  <2> QED
    BY <2>1, <2>3, <2>4 DEF A, B
<1>6. CASE ~D!IsKN(d) \/ d.modified
  <2>1. \A t : PreparedFor(t, k) = t
    BY <1>6 DEF PreparedFor, D!PreparedBy
  <2>2. A = B
    <3>1. D!IsKN(d) /\ k < Order => k \in B
      BY <1>1, <1>4, <1>6 DEF ChangedUpTo
    <3>2. k \in 1 .. Order - 1 => k < Order
      BY <1>1
    <3>3. \A j \in 1 .. Order - 1 : j \in A <=> j \in B
      BY <1>3, <3>1, <3>2
    <3> HIDE DEF A, B, d
    <3> QED
      BY <1>2, <3>3
  <2> HIDE DEF A, B, d
  <2>3. PreparedFor(ChangedIn(B), k) = ChangedIn(A)
    BY <2>1, <2>2
  <2> QED
    BY <2>3 DEF A, B
<1> QED
  BY <1>b, <1>5, <1>6

\* The recursive definition of what is prepared order by order.
IsUpTo(u) ==
    u = [i \in 0 .. Order |->
           IF i = 0 THEN counts
           ELSE IF D!NoDiscounting(discounts[i]) THEN u[i - 1]
           ELSE D!PreparedBy(discounts[i], u[i - 1], i, Order)]

LEMMA PreparedForModelIs ==
    ASSUME Estimating, stage = ForModel
    PROVE  PreparedForModel = ChangedIn({j \in 1 .. Order - 1 : D!IsKN(discounts[j])})
<1> DEFINE s == [i \in 0 .. Order |-> ChangedIn(ChangedUpTo(i))]
           u == CHOOSE v : IsUpTo(v)
           T == {i \in 0 .. Order : u[i] = ChangedIn(ChangedUpTo(i))}
<1>o. Order \in Nat \ {0}
  BY OrderAssumption
<1>1. counts = ChangedIn(ChangedUpTo(0))
  <2>1. ChangedBefore(stage) = ChangedUpTo(0)
    <3>1. \A i \in 1 .. Order : discounts[i].fromFile \in BOOLEAN
      BY DEF Estimating, DiscountsSound, IsObject
    <3> QED
      BY <1>o, <3>1 DEF ChangedBefore, ChangedUpTo, ForModel
  <2> QED
    BY <2>1 DEF Estimating
<1>2. \A i \in 1 .. Order : ChangedIn(ChangedUpTo(i)) = PreparedFor(ChangedIn(ChangedUpTo(i - 1)), i)
  BY OneMoreForModel
<1>3. IsUpTo(s)
  <2>1. \A i \in 0 .. Order :
          s[i] = IF i = 0 THEN counts
                 ELSE IF D!NoDiscounting(discounts[i]) THEN s[i - 1]
                 ELSE D!PreparedBy(discounts[i], s[i - 1], i, Order)
    <3> SUFFICES ASSUME NEW i \in 0 .. Order, i # 0
                 PROVE  s[i] = IF D!NoDiscounting(discounts[i]) THEN s[i - 1]
                               ELSE D!PreparedBy(discounts[i], s[i - 1], i, Order)
      BY <1>1, <1>o
    <3>1. i \in 1 .. Order /\ i - 1 \in 0 .. Order
      BY <1>o
    <3>2. s[i] = PreparedFor(s[i - 1], i)
      BY <1>2, <3>1
    <3> QED
      BY <3>2 DEF PreparedFor
  <2> QED
    BY <2>1 DEF IsUpTo
<1> HIDE DEF s
<1>4. IsUpTo(u)
  BY <1>3
<1>n. \A i \in 1 .. Order : u[i] = PreparedFor(u[i - 1], i)
  <2> HIDE DEF u
  <2> SUFFICES ASSUME NEW i \in 1 .. Order
               PROVE  u[i] = PreparedFor(u[i - 1], i)
    OBVIOUS
  <2>1. i \in 0 .. Order /\ i # 0
    BY <1>o
  <2> DEFINE b(j) == IF j = 0 THEN counts
                     ELSE IF D!NoDiscounting(discounts[j]) THEN u[j - 1]
                     ELSE D!PreparedBy(discounts[j], u[j - 1], j, Order)
  <2>2. u = [j \in 0 .. Order |-> b(j)]
    BY <1>4 DEF IsUpTo
  <2>3. u[i] = b(i)
    <3> HIDE DEF b
    <3> QED
      BY <2>1, <2>2
  <2> QED
    BY <2>1, <2>3 DEF PreparedFor
<1>u. PreparedForModel = u[Order]
  BY DEF PreparedForModel, IsUpTo
<1> HIDE DEF u
<1>5. 0 \in T
  BY <1>1, <1>4, <1>o DEF IsUpTo
<1>6. ASSUME NEW i \in 0 .. Order - 1, i \in T
      PROVE  i + 1 \in T
  <2>1. i + 1 \in 1 .. Order /\ i + 1 # 0 /\ (i + 1) - 1 = i
    BY <1>o
  <2>2. u[i + 1] = PreparedFor(u[i], i + 1)
    BY <1>n, <2>1
  <2>3. ChangedIn(ChangedUpTo(i + 1)) = PreparedFor(ChangedIn(ChangedUpTo(i)), i + 1)
    BY <1>2, <2>1
  <2> QED
    BY <1>6, <1>o, <2>1, <2>2, <2>3
<1>7. Order \in T
  <2>1. 0 .. Order \subseteq T
    <3>1. T \in SUBSET Nat
      BY <1>o
    <3> HIDE DEF T
    <3> QED
      BY <1>o, <1>5, <1>6, <3>1, UpTo
  <2> QED
    BY <1>o, <2>1
<1>8. ChangedUpTo(Order) = {j \in 1 .. Order - 1 : D!IsKN(discounts[j])}
  BY <1>o DEF ChangedUpTo
<1> QED
  BY <1>u, <1>7, <1>8

LEMMA PrepareForModelPreserves ==
    ASSUME DiscountingInvariant, PrepareForModel
    PROVE  DiscountingInvariant'
<1>1. /\ stage = ForModel /\ stage' = ForModel + 1 /\ original' = original
      /\ Estimating /\ Order \in Nat \ {0}
      /\ discounts' = [i \in 1 .. Order |-> D!AfterPrepare(discounts[i], i, Order)]
  BY OrderAssumption DEF PrepareForModel, DiscountingInvariant, ForModel
<1>2. counts' = ChangedIn({j \in 1 .. Order - 1 : D!IsKN(discounts[j])})
  BY <1>1, PreparedForModelIs DEF PrepareForModel
<1>3. \A i \in 1 .. Order : D!IsKN(discounts'[i]) <=> D!IsKN(discounts[i])
  <2> SUFFICES ASSUME NEW i \in 1 .. Order
               PROVE  D!IsKN(discounts'[i]) <=> D!IsKN(discounts[i])
    OBVIOUS
  <2>1. IsObject(discounts[i])
    BY <1>1 DEF Estimating, DiscountsSound
  <2>2. D!AfterPrepare(discounts[i], i, Order).method = discounts[i].method
    BY <2>1, AfterPrepareIs
  <2> QED
    BY <1>1, <2>2 DEF D!IsKN
<1>4. {j \in 1 .. Order - 1 : D!IsKN(discounts[j])}' = {j \in 1 .. Order - 1 : D!IsKN(discounts[j])}
  BY <1>1, <1>3
<1>5. Estimated'
  BY <1>1, <1>2, <1>4 DEF Estimated, Estimating, IsCounts, ChangedIn, Continued, WordsBefore
<1> QED
  BY <1>1, <1>5 DEF DiscountingInvariant, ForModel, Exited

-----------------------------------------------------------------------------
\* Kneser-Ney smoothing ends with the number of words that come before an N-gram in
\* the counts as they were, and leaves all other counts alone, whichever orders were
\* estimated with it, before or after they were changed, or read from a file.
THEOREM ContinuationCountsRight ==
    ASSUME FilesUpwards
    PROVE  DiscountingSpec => []ContinuationCounts
<1>1. DiscountingInit => DiscountingInvariant
  BY OrderAssumption DEF DiscountingInit, DiscountingInvariant, ForModel, Exited
<1>2. DiscountingInvariant /\ [Gather \/ Discount]_discountVars => DiscountingInvariant'
  <2> SUFFICES ASSUME DiscountingInvariant, [Gather \/ Discount]_discountVars
               PROVE  DiscountingInvariant'
    OBVIOUS
  <2>1. CASE Gather
    BY <2>1, OrderAssumption DEF Gather, DiscountingInvariant, ForModel, Exited
  <2>2. CASE Discount
    BY <2>2, ChoosePreserves, DiscountOrderPreserves, PrepareForModelPreserves DEF Discount
  <2>3. CASE UNCHANGED discountVars
    <3>1. counts' = counts /\ stage' = stage /\ discounts' = discounts /\ original' = original
      BY <2>3 DEF discountVars
    <3>2. (\A t : IsCounts(t)' = IsCounts(t)) /\ (\A S : ChangedIn(S)' = ChangedIn(S))
      BY <3>1 DEF IsCounts, ChangedIn, Continued, WordsBefore
    <3>3. DiscountsSound' <=> DiscountsSound
      BY <3>1 DEF DiscountsSound
    <3>4. ChangedBefore(stage)' = ChangedBefore(stage)
      BY <3>1 DEF ChangedBefore
    <3>5. Marked' <=> Marked
      BY <3>1, <3>4 DEF Marked
    <3>6. Estimating' <=> Estimating
      BY <3>1, <3>2, <3>3, <3>4, <3>5 DEF Estimating
    <3>7. Estimated' <=> Estimated
      BY <3>1, <3>2 DEF Estimated
    <3> QED
      BY <3>1, <3>2, <3>6, <3>7 DEF DiscountingInvariant
  <2> QED
    BY <2>1, <2>2, <2>3
<1>3. DiscountingInvariant => ContinuationCounts
  <2> SUFFICES ASSUME Estimated, NEW g \in DOMAIN counts \ {<<>>}
               PROVE  LET d == discounts[Len(g)]
                      IN  counts[g] = IF Len(g) < Order /\ D!IsKN(d) /\ g[1] \notin NonEvents
                                      THEN Continued(g) ELSE original[g]
    BY DEF DiscountingInvariant, ContinuationCounts, Continued, WordsBefore
  <2>1. DOMAIN counts = DOMAIN original /\ g \in Seq(Words \cup Tags) /\ Order \in Nat
    BY OrderAssumption DEF Estimated, ChangedIn, IsCounts
  <2>2. Len(g) \in Nat \ {0}
    BY <2>1
  <2> DEFINE S == {j \in 1 .. Order - 1 : D!IsKN(discounts[j])}
  <2>3. Len(g) \in S <=> Len(g) < Order /\ D!IsKN(discounts[Len(g)])
    BY <2>1, <2>2
  <2>4. counts = ChangedIn(S)
    BY DEF Estimated
  <2> HIDE DEF S
  <2>5. counts[g] = IF Len(g) \in S /\ g[1] \notin NonEvents THEN Continued(g) ELSE original[g]
    BY <2>1, <2>4 DEF ChangedIn
  <2> QED
    BY <2>3, <2>5
<1> QED
  BY <1>1, <1>2, <1>3, PTL DEF DiscountingSpec

-----------------------------------------------------------------------------
(***************************************************************************)
(* Proofs about XCount, for any size of the table and any amounts: as long *)
(* as fewer counts are alive than the table has entries, every count keeps *)
(* its value and every entry knows how many counts refer to it.            *)
(***************************************************************************)

XSpec == XInit /\ [][XNext]_xvars

\* The sizes the theorems are about. The list of free entries has no mark for its
\* end (the first one is chained to itself), so the last entry must never be needed
\* twice; the code has no test for it.
Roomy ==
    /\ MaxInline \in Nat \ {0}
    /\ Amounts \subseteq Nat
    /\ IsFiniteSet(Objects) /\ Cardinality(Objects) < MaxInline

-----------------------------------------------------------------------------
(* The table on its own: what its operations do to the references. *)

Bits == {[indirect |-> FALSE, count |-> n] : n \in Nat} \cup {[indirect |-> TRUE, count |-> i] : i \in Entries}

HeapType == [table : [Entries -> Int], refs : [Entries -> Nat], free : Int, ready : BOOLEAN]

FreeEntries(h) == {i \in Entries : h.refs[i] = 0}

\* f lists the free entries of h in the order in which they are chained.
Chain(h, f, k) ==
    /\ k \in Nat /\ f \in [1 .. k -> Entries]
    /\ \A i, j \in 1 .. k : f[i] = f[j] => i = j
    /\ \A e \in Entries : h.refs[e] = 0 <=> \E j \in 1 .. k : f[j] = e
    /\ k > 0 => h.free = f[1]
    /\ \A j \in 1 .. k - 1 : h.table[f[j]] = f[j + 1]

Chained(h) == \E k \in Nat : \E f \in [1 .. k -> Entries] : Chain(h, f, k)

HeapOK(h) ==
    /\ h \in HeapType
    /\ IF h.ready THEN Chained(h) ELSE \A i \in Entries : h.refs[i] = 0

\* How often bits refer to entry i.
Uses(bits, i) == IF bits.indirect /\ bits.count = i THEN 1 ELSE 0

\* Before the first use the table is chained up.
LEMMA ReadyOK ==
    ASSUME Roomy, NEW h, HeapOK(h)
    PROVE  /\ Ready(h) \in HeapType /\ Ready(h).ready /\ Chained(Ready(h))
           /\ Ready(h).refs = h.refs
           /\ \A i \in Entries : h.refs[i] > 0 => Ready(h).table[i] = h.table[i]
<1>1. CASE h.ready
  BY <1>1 DEF Ready, HeapOK
<1>2. CASE ~h.ready
  <2> DEFINE r == Ready(h)
             f == [j \in 1 .. MaxInline |-> MaxInline - j]
  <2>1. /\ h.table \in [Entries -> Int] /\ h.refs \in [Entries -> Nat] /\ h.free \in Int
        /\ h = [table |-> h.table, refs |-> h.refs, free |-> h.free, ready |-> h.ready]
    BY DEF HeapOK, HeapType
  <2>2. r = [table |-> [i \in Entries |-> IF i = 0 THEN h.free ELSE i - 1],
             refs |-> h.refs, free |-> MaxInline - 1, ready |-> TRUE]
    BY <1>2, <2>1 DEF Ready
  <2>3. MaxInline \in Nat \ {0} /\ Entries = 0 .. MaxInline - 1
    BY DEF Roomy, Entries
  <2> HIDE DEF r
  <2>4. r \in HeapType
    BY <2>1, <2>2, <2>3 DEF HeapType
  <2>5. \A i \in Entries : r.refs[i] = 0
    BY <1>2, <2>2 DEF HeapOK
  <2>6. f \in [1 .. MaxInline -> Entries]
    BY <2>3
  <2>7. Chain(r, f, MaxInline)
    <3>1. \A e \in Entries : \E j \in 1 .. MaxInline : f[j] = e
      <4> TAKE e \in Entries
      <4>1. MaxInline - e \in 1 .. MaxInline /\ f[MaxInline - e] = e
        BY <2>3
      <4> QED BY <4>1
    <3>2. \A j \in 1 .. MaxInline - 1 : r.table[f[j]] = f[j + 1]
      BY <2>2, <2>3
    <3>3. r.free = f[1]
      BY <2>2, <2>3
    <3>4. \A i, j \in 1 .. MaxInline : f[i] = f[j] => i = j
      BY <2>3
    <3> HIDE DEF f
    <3> QED BY <2>3, <2>5, <2>6, <3>1, <3>2, <3>3, <3>4 DEF Chain
  <2> HIDE DEF f
  <2>8. Chained(r)
    BY <2>3, <2>6, <2>7 DEF Chained
  <2> QED BY <2>2, <2>4, <2>5, <2>8 DEF r
<1> QED BY <1>1, <1>2

\* getXCountTableIndex() takes a free entry, if there is one.
LEMMA TakenOK ==
    ASSUME Roomy, NEW h, HeapOK(h), NEW v \in Nat, FreeEntries(h) # {}
    PROVE  LET e == Ready(h).free
               t == Taken(h, v)
           IN  /\ e \in Entries /\ h.refs[e] = 0
               /\ HeapOK(t) /\ t.ready /\ t.table[e] = v
               /\ t.refs = [h.refs EXCEPT ![e] = 1]
               /\ \A i \in Entries : h.refs[i] > 0 => t.table[i] = h.table[i]
<1> DEFINE r == Ready(h)
           e == r.free
           t == Taken(h, v)
<1>1. /\ r \in HeapType /\ r.ready /\ Chained(r) /\ r.refs = h.refs
      /\ \A i \in Entries : h.refs[i] > 0 => r.table[i] = h.table[i]
  BY ReadyOK
<1> HIDE DEF r
<1>2. PICK k \in Nat : \E f \in [1 .. k -> Entries] : Chain(r, f, k)
  BY <1>1 DEF Chained
<1>2f. PICK f \in [1 .. k -> Entries] : Chain(r, f, k)
  BY <1>2
<1>3. k > 0 /\ e = f[1] /\ e \in Entries /\ r.refs[e] = 0
  BY <1>1, <1>2f DEF Chain, FreeEntries
<1>4. /\ r.table \in [Entries -> Int] /\ r.refs \in [Entries -> Nat] /\ r.free \in Int
      /\ r = [table |-> r.table, refs |-> r.refs, free |-> r.free, ready |-> r.ready]
  BY <1>1 DEF HeapType
<1>5. t = [table |-> [r.table EXCEPT ![e] = v], refs |-> [r.refs EXCEPT ![e] = 1],
           free |-> r.table[e], ready |-> r.ready]
  <2>1. t = [r EXCEPT !.free = r.table[e], !.refs[e] = 1, !.table[e] = v]
    BY DEF Taken, r
  <2> HIDE DEF t, e
  <2> QED BY <1>4, <2>1
<1> HIDE DEF t, e
<1>6. t \in HeapType
  BY <1>1, <1>3, <1>4, <1>5 DEF HeapType
<1>7. Chained(t)
  <2> DEFINE g == [j \in 1 .. k - 1 |-> f[j + 1]]
  <2>1. k - 1 \in Nat /\ g \in [1 .. k - 1 -> Entries]
    BY <1>3
  <2>2. \A i, j \in 1 .. k - 1 : g[i] = g[j] => i = j
    BY <1>2f, <1>3 DEF Chain
  <2>3. \A j \in 1 .. k - 1 : g[j] # e /\ g[j] = f[j + 1]
    BY <1>2f, <1>3 DEF Chain
  <2>4. ASSUME NEW x \in Entries
        PROVE  t.refs[x] = 0 <=> \E j \in 1 .. k - 1 : g[j] = x
    <3>1. CASE x = e
      BY <1>4, <1>5, <2>3, <3>1
    <3>2. CASE x # e /\ r.refs[x] = 0
      <4>1. PICK j \in 1 .. k : f[j] = x
        BY <1>2f, <3>2 DEF Chain
      <4>2. j # 1 /\ j - 1 \in 1 .. k - 1 /\ g[j - 1] = x
        BY <1>3, <3>2, <4>1
      <4> QED BY <1>4, <1>5, <3>2, <4>2
    <3>3. CASE x # e /\ r.refs[x] # 0
      BY <1>2f, <1>4, <1>5, <2>3, <3>3 DEF Chain
    <3> QED BY <3>1, <3>2, <3>3
  <2>5. k - 1 > 0 => t.free = g[1]
    <3> HAVE k - 1 > 0
    <3>1. 1 \in 1 .. k - 1 /\ r.table[f[1]] = f[1 + 1] /\ g[1] = f[1 + 1]
      BY <1>2f DEF Chain
    <3> QED BY <1>3, <1>5, <3>1
  <2>6. \A j \in 1 .. (k - 1) - 1 : t.table[g[j]] = g[j + 1]
    <3> TAKE j \in 1 .. (k - 1) - 1
    <3>1. j \in 1 .. k - 1 /\ j + 1 \in 1 .. k - 1
      OBVIOUS
    <3>2. g[j] = f[j + 1] /\ g[j + 1] = f[(j + 1) + 1] /\ g[j] # e /\ g[j] \in Entries
      BY <2>1, <2>3, <3>1
    <3>3. r.table[f[j + 1]] = f[(j + 1) + 1]
      BY <1>2f, <3>1 DEF Chain
    <3> QED BY <1>4, <1>5, <3>2, <3>3
  <2> HIDE DEF g
  <2>7. Chain(t, g, k - 1)
    BY <2>1, <2>2, <2>4, <2>5, <2>6 DEF Chain
  <2> QED BY <2>1, <2>7 DEF Chained
<1>8. /\ t.refs = [h.refs EXCEPT ![e] = 1]
      /\ t.table[e] = v /\ t.ready /\ h.refs[e] = 0
      /\ \A i \in Entries : h.refs[i] > 0 => t.table[i] = h.table[i]
  BY <1>1, <1>3, <1>4, <1>5
<1>9. HeapOK(t)
  BY <1>6, <1>7, <1>8 DEF HeapOK
<1> QED BY <1>3, <1>8, <1>9 DEF t, e, r

\* freeXCountTableIndex() gives up one reference, and the entry with the last one.
LEMMA DroppedOK ==
    ASSUME NEW h, HeapOK(h), NEW e \in Entries, h.refs[e] > 0
    PROVE  LET d == Dropped(h, e)
           IN  /\ HeapOK(d) /\ d.ready
               /\ d.refs = [h.refs EXCEPT ![e] = @ - 1]
               /\ \A i \in Entries : d.refs[i] > 0 => d.table[i] = h.table[i]
<1> DEFINE d == Dropped(h, e)
<1>1. /\ h.table \in [Entries -> Int] /\ h.refs \in [Entries -> Nat] /\ h.free \in Int
      /\ h = [table |-> h.table, refs |-> h.refs, free |-> h.free, ready |-> h.ready]
  BY DEF HeapOK, HeapType
<1>2. h.ready /\ Chained(h)
  BY DEF HeapOK
<1>3. PICK k \in Nat : \E f \in [1 .. k -> Entries] : Chain(h, f, k)
  BY <1>2 DEF Chained
<1>3f. PICK f \in [1 .. k -> Entries] : Chain(h, f, k)
  BY <1>3
<1>4. CASE h.refs[e] = 1
  <2>1. d = [table |-> [h.table EXCEPT ![e] = h.free], refs |-> [h.refs EXCEPT ![e] = 0],
             free |-> e, ready |-> TRUE]
    BY <1>1, <1>2, <1>4 DEF Dropped
  <2> HIDE DEF d
  <2>2. d \in HeapType
    <3>1. e \in Int
      BY DEF Entries
    <3> QED BY <1>1, <2>1, <3>1 DEF HeapType
  <2> DEFINE g == [j \in 1 .. k + 1 |-> IF j = 1 THEN e ELSE f[j - 1]]
  <2>3. k + 1 \in Nat /\ g \in [1 .. k + 1 -> Entries] /\ g[1] = e /\ \A j \in 1 .. k : g[j + 1] = f[j]
    OBVIOUS
  <2>4. \A j \in 1 .. k : f[j] # e
    BY <1>3f, <1>4 DEF Chain
  <2>5. \A i \in 1 .. k + 1 : i = 1 \/ (i - 1 \in 1 .. k /\ g[i] = f[i - 1])
    BY <2>3
  <2> HIDE DEF g
  <2>6. \A i, j \in 1 .. k + 1 : g[i] = g[j] => i = j
    BY <1>3f, <2>3, <2>4, <2>5 DEF Chain
  <2>7. ASSUME NEW x \in Entries
        PROVE  d.refs[x] = 0 <=> \E j \in 1 .. k + 1 : g[j] = x
    <3>1. CASE x = e
      <4>1. d.refs[e] = 0 /\ 1 \in 1 .. k + 1
        BY <1>1, <2>1
      <4> QED BY <2>3, <3>1, <4>1
    <3>2. CASE x # e /\ h.refs[x] = 0
      <4>1. PICK j \in 1 .. k : f[j] = x
        BY <1>3f, <3>2 DEF Chain
      <4>2. j + 1 \in 1 .. k + 1 /\ g[j + 1] = x
        BY <2>3, <4>1
      <4> QED BY <1>1, <2>1, <3>2, <4>2
    <3>3. CASE x # e /\ h.refs[x] # 0
      BY <1>1, <1>3f, <2>1, <2>3, <2>5, <3>3 DEF Chain
    <3> QED BY <3>1, <3>2, <3>3
  <2>8. \A j \in 1 .. (k + 1) - 1 : d.table[g[j]] = g[j + 1]
    <3> TAKE j \in 1 .. (k + 1) - 1
    <3>1. CASE j = 1
      <4>1. k > 0 /\ h.free = f[1] /\ g[j + 1] = f[1]
        BY <1>3f, <2>3, <3>1 DEF Chain
      <4> QED BY <1>1, <2>1, <2>3, <3>1, <4>1
    <3>2. CASE j # 1
      <4>1. j - 1 \in 1 .. k - 1 /\ g[j] = f[j - 1] /\ g[j + 1] = f[j]
        BY <2>3, <2>5, <3>2
      <4>2. h.table[f[j - 1]] = f[(j - 1) + 1] /\ f[j - 1] # e /\ f[j - 1] \in Entries
        BY <1>3f, <2>4, <4>1 DEF Chain
      <4> QED BY <1>1, <2>1, <4>1, <4>2
    <3> QED BY <3>1, <3>2
  <2>9. Chain(d, g, k + 1)
    BY <2>1, <2>3, <2>6, <2>7, <2>8 DEF Chain
  <2>10. HeapOK(d)
    BY <2>1, <2>2, <2>3, <2>9 DEF HeapOK, Chained
  <2> QED BY <1>1, <1>4, <2>1, <2>10 DEF d
<1>5. CASE h.refs[e] # 1
  <2>1. d = [table |-> h.table, refs |-> [h.refs EXCEPT ![e] = @ - 1], free |-> h.free, ready |-> TRUE]
    BY <1>1, <1>2, <1>5 DEF Dropped
  <2> HIDE DEF d
  <2>2. d \in HeapType
    BY <1>1, <2>1 DEF HeapType
  <2>3. \A x \in Entries : d.refs[x] = 0 <=> h.refs[x] = 0
    BY <1>1, <1>5, <2>1
  <2>4. Chain(d, f, k)
    BY <1>3f, <2>1, <2>3 DEF Chain
  <2>5. HeapOK(d)
    BY <2>1, <2>2, <2>4 DEF HeapOK, Chained
  <2> QED BY <2>1, <2>5 DEF d
<1> QED BY <1>4, <1>5

\* A copy adds a reference to an entry that has some.
LEMMA SharedOK ==
    ASSUME NEW h, HeapOK(h), NEW b \in Bits, b.indirect => h.refs[b.count] > 0
    PROVE  LET s == Shared(h, b)
           IN  /\ HeapOK(s) /\ s.table = h.table /\ (h.ready => s.ready)
               /\ \A i \in Entries : s.refs[i] = h.refs[i] + Uses(b, i)
<1>1. CASE ~b.indirect
  BY <1>1 DEF Shared, Uses, HeapOK, HeapType
<1>2. CASE b.indirect
  <2> DEFINE e == b.count
             s == Shared(h, b)
  <2>1. e \in Entries /\ h.refs[e] > 0
    BY <1>2 DEF Bits
  <2>2. /\ h.table \in [Entries -> Int] /\ h.refs \in [Entries -> Nat] /\ h.free \in Int
        /\ h = [table |-> h.table, refs |-> h.refs, free |-> h.free, ready |-> h.ready]
    BY DEF HeapOK, HeapType
  <2>3. h.ready /\ Chained(h)
    BY <2>1 DEF HeapOK
  <2>4. PICK k \in Nat : \E f \in [1 .. k -> Entries] : Chain(h, f, k)
    BY <2>3 DEF Chained
  <2>4f. PICK f \in [1 .. k -> Entries] : Chain(h, f, k)
    BY <2>4
  <2>5. s = [table |-> h.table, refs |-> [h.refs EXCEPT ![e] = @ + 1], free |-> h.free, ready |-> TRUE]
    BY <1>2, <2>2, <2>3 DEF Shared
  <2> HIDE DEF s
  <2>6. s \in HeapType
    BY <2>1, <2>2, <2>5 DEF HeapType
  <2>7. \A x \in Entries : s.refs[x] = 0 <=> h.refs[x] = 0
    BY <2>1, <2>2, <2>5
  <2>8. Chain(s, f, k)
    BY <2>4f, <2>5, <2>7 DEF Chain
  <2>9. HeapOK(s)
    BY <2>5, <2>6, <2>8 DEF HeapOK, Chained
  <2>10. \A i \in Entries : s.refs[i] = h.refs[i] + Uses(b, i)
    BY <1>2, <2>1, <2>2, <2>5 DEF Uses
  <2> QED BY <2>5, <2>9, <2>10 DEF s
<1> QED BY <1>1, <1>2

LEMMA ReleasedOK ==
    ASSUME NEW h, HeapOK(h), NEW b \in Bits, b.indirect => h.refs[b.count] > 0
    PROVE  LET d == Released(h, b)
           IN  /\ HeapOK(d) /\ (h.ready => d.ready)
               /\ \A i \in Entries : d.refs[i] = h.refs[i] - Uses(b, i)
               /\ \A i \in Entries : d.refs[i] > 0 => d.table[i] = h.table[i]
<1>1. h.refs \in [Entries -> Nat]
  BY DEF HeapOK, HeapType
<1>2. CASE ~b.indirect
  BY <1>1, <1>2 DEF Released, Uses
<1>3. CASE b.indirect
  <2>1. b.count \in Entries
    BY <1>3 DEF Bits
  <2> DEFINE d == Dropped(h, b.count)
  <2>2. /\ HeapOK(d) /\ d.ready
        /\ d.refs = [h.refs EXCEPT ![b.count] = @ - 1]
        /\ \A i \in Entries : d.refs[i] > 0 => d.table[i] = h.table[i]
    BY <1>3, <2>1, DroppedOK
  <2>3. Released(h, b) = d
    BY <1>3 DEF Released
  <2> HIDE DEF d
  <2> QED BY <1>1, <1>3, <2>1, <2>2, <2>3 DEF Uses
<1> QED BY <1>2, <1>3

-----------------------------------------------------------------------------
(* The objects and the table. *)

\* Every object is a value or a reference, the entries are in order, and the
\* counts are right.
IInv ==
    /\ object \in [Objects -> Bits \cup {Gone}]
    /\ meant \in [Objects -> Nat]
    /\ HeapOK(Heap)
    /\ CountsKept

LEMMA GoneIsNot == Gone \notin Bits /\ \A i \in Entries : Uses(Gone, i) = 0
<1>1. ~Gone.indirect /\ Gone.count = -1
  BY DEF Gone
<1>2. \A b \in Bits : b.indirect \/ b.count \in Nat
  BY DEF Bits
<1> QED BY <1>1, <1>2 DEF Uses

LEMMA HeapFields ==
    /\ Heap.table = table /\ Heap.refs = refs /\ Heap.free = freeList /\ Heap.ready = initialized
BY DEF Heap

\* When object x changes, so does the number of references to its old and new entry.
LEMMA UsersStep ==
    ASSUME Roomy, object \in [Objects -> Bits \cup {Gone}],
           NEW x \in Objects, NEW new \in Bits \cup {Gone},
           object' = [object EXCEPT ![x] = new], NEW i \in Entries
    PROVE  /\ IsFiniteSet(Users(i)) /\ Cardinality(Users(i)) \in Nat
           /\ Cardinality(Users(i) \ {x}) = Cardinality(Users(i)) - Uses(object[x], i)
           /\ Cardinality(Users(i)') = Cardinality(Users(i)) - Uses(object[x], i) + Uses(new, i)
<1> DEFINE U == Users(i)
           V == U \ {x}
<1>1. U \subseteq Objects
  BY DEF Users, Live
<1>2. IsFiniteSet(U) /\ Cardinality(U) \in Nat
  BY <1>1, FS_Subset, FS_CardinalityType DEF Roomy
<1>3. x \in U <=> object[x] # Gone /\ object[x].indirect /\ object[x].count = i
  BY DEF Users, Live
<1>4. Uses(object[x], i) = IF x \in U THEN 1 ELSE 0
  BY <1>3, GoneIsNot DEF Uses
<1>5. IsFiniteSet(V) /\ Cardinality(V) = Cardinality(U) - Uses(object[x], i) /\ Cardinality(V) \in Nat
  <2>1. IsFiniteSet(V) /\ Cardinality(V) = IF x \in U THEN Cardinality(U) - 1 ELSE Cardinality(U)
    BY <1>2, FS_RemoveElement
  <2>2. Cardinality(V) \in Nat
    BY <2>1, FS_CardinalityType
  <2> HIDE DEF U, V
  <2> QED BY <1>2, <1>4, <2>1, <2>2
<1>6. Users(i)' = IF Uses(new, i) = 1 THEN V \cup {x} ELSE V
  <2>1. Users(i)' = {y \in Objects : object'[y] # Gone /\ object'[y].indirect /\ object'[y].count = i}
    BY DEF Users, Live
  <2>2. object'[x] = new /\ \A y \in Objects : y # x => object'[y] = object[y]
    OBVIOUS
  <2>3. Uses(new, i) = 1 <=> new # Gone /\ new.indirect /\ new.count = i
    BY GoneIsNot DEF Uses
  <2>4. U = {y \in Objects : object[y] # Gone /\ object[y].indirect /\ object[y].count = i}
    BY DEF Users, Live
  <2> HIDE DEF U
  <2> QED BY <2>1, <2>2, <2>3, <2>4
<1>7. Uses(new, i) \in {0, 1}
  BY DEF Uses
<1> HIDE DEF U
<1>8. Cardinality(V \cup {x}) = Cardinality(V) + 1
  BY <1>5, FS_AddElement
<1> HIDE DEF V
<1>9. Cardinality(Users(i)') = Cardinality(V) + Uses(new, i)
  BY <1>5, <1>6, <1>7, <1>8
<1> QED BY <1>2, <1>5, <1>9 DEF U, V

\* If fewer objects are alive than there are entries, one is free.
LEMMA EntryFree ==
    ASSUME Roomy, IInv
    PROVE  FreeEntries(Heap) # {}
<1> SUFFICES ASSUME FreeEntries(Heap) = {} PROVE FALSE
  OBVIOUS
<1>1. \A i \in Entries : refs[i] # 0
  BY HeapFields DEF FreeEntries
<1>2. \A i \in Entries : Users(i) # {}
  BY <1>1, FS_EmptySet DEF IInv, CountsKept
<1> DEFINE f == [i \in Entries |-> CHOOSE x \in Objects : x \in Users(i)]
<1>3. \A i \in Entries : f[i] \in Objects /\ f[i] \in Users(i)
  BY <1>2 DEF Users, Live
<1>4. f \in [Entries -> Objects]
  BY <1>3
<1> HIDE DEF f
<1>5. \A i, j \in Entries : f[i] = f[j] => i = j
  BY <1>3 DEF Users
<1>6. f \in Injection(Entries, Objects)
  BY <1>4, <1>5 DEF Injection, IsInjective
<1>7. Cardinality(Entries) <= Cardinality(Objects)
  BY <1>6, FS_Injection DEF Roomy
<1>8. Cardinality(Entries) = MaxInline
  BY FS_Interval DEF Entries, Roomy
<1>9. Cardinality(Objects) \in Nat
  BY FS_CardinalityType DEF Roomy
<1> QED BY <1>7, <1>8, <1>9 DEF Roomy

\* One object changes, and the table with it.
LEMMA ObjectStep ==
    ASSUME Roomy, IInv, NEW x \in Objects, NEW new \in Bits \cup {Gone}, NEW h,
           HeapOK(h), Become(h),
           object' = [object EXCEPT ![x] = new],
           meant' \in [Objects -> Nat], \A y \in Objects \ {x} : meant'[y] = meant[y],
           \A i \in Entries : h.refs[i] = refs[i] - Uses(object[x], i) + Uses(new, i),
           \A i \in Entries : refs[i] - Uses(object[x], i) > 0 => h.table[i] = table[i],
           new # Gone => ValueOf(h, new) = meant'[x]
    PROVE  IInv'
<1>1. object \in [Objects -> Bits \cup {Gone}] /\ object' \in [Objects -> Bits \cup {Gone}]
  BY DEF IInv
<1>2. h = [table |-> table', refs |-> refs', free |-> freeList', ready |-> initialized']
  BY DEF Become, HeapOK, HeapType
<1>3. Heap' = h
  BY <1>2 DEF Heap
<1>4. \A i \in Entries : refs'[i] = Cardinality(Users(i)')
  <2> TAKE i \in Entries
  <2>1. refs[i] = Cardinality(Users(i))
    BY DEF IInv, CountsKept
  <2>2. refs'[i] = refs[i] - Uses(object[x], i) + Uses(new, i)
    BY DEF Become
  <2>3. Cardinality(Users(i)') = Cardinality(Users(i)) - Uses(object[x], i) + Uses(new, i)
    BY <1>1, UsersStep
  <2> QED BY <2>1, <2>2, <2>3
<1>5. ASSUME NEW y \in Objects, object'[y] # Gone
      PROVE  ValueOf(h, object'[y]) = meant'[y]
  <2>1. CASE y = x
    BY <1>1, <1>5, <2>1
  <2>2. CASE y # x
    <3>1. object'[y] = object[y] /\ meant'[y] = meant[y] /\ y \in Live
      BY <1>1, <1>5, <2>2 DEF Live
    <3>2. ValueOf(Heap, object[y]) = meant[y]
      BY <3>1 DEF IInv, CountsKept
    <3>3. CASE object[y].indirect
      <4> DEFINE i == object[y].count
      <4>1. i \in Entries /\ y \in Users(i) \ {x}
        BY <1>1, <2>2, <3>1, <3>3 DEF Users, Live, Bits
      <4> HIDE DEF i
      <4>2. refs[i] = Cardinality(Users(i))
        BY <4>1 DEF IInv, CountsKept
      <4>3. /\ IsFiniteSet(Users(i))
            /\ Cardinality(Users(i) \ {x}) = refs[i] - Uses(object[x], i)
        BY <1>1, <4>1, <4>2, UsersStep
      <4>4. /\ IsFiniteSet(Users(i) \ {x}) /\ Cardinality(Users(i) \ {x}) # 0
            /\ Cardinality(Users(i) \ {x}) \in Nat
        BY <4>1, <4>3, FS_RemoveElement, FS_EmptySet, FS_CardinalityType
      <4>5. h.table[i] = table[i]
        BY <4>1, <4>3, <4>4
      <4> QED BY <3>1, <3>2, <3>3, <4>5 DEF ValueOf, Heap, i
    <3>4. CASE ~object[y].indirect
      BY <3>1, <3>2, <3>4 DEF ValueOf
    <3> QED BY <3>3, <3>4
  <2> QED BY <2>1, <2>2
<1>6. CountsKept'
  BY <1>3, <1>4, <1>5 DEF CountsKept, Live
<1> QED BY <1>1, <1>3, <1>6 DEF IInv

-----------------------------------------------------------------------------
(* The operations. *)

\* Making a count: its bits, and the table with one more reference for them.
LEMMA MadeOK ==
    ASSUME Roomy, IInv, NEW v \in Nat
    PROVE  LET m == Made(Heap, v)
           IN  /\ m.bits \in Bits /\ HeapOK(m.heap) /\ (initialized => m.heap.ready)
               /\ ValueOf(m.heap, m.bits) = v
               /\ m.bits.indirect => refs[m.bits.count] = 0
               /\ \A i \in Entries : m.heap.refs[i] = refs[i] + Uses(m.bits, i)
               /\ \A i \in Entries : refs[i] > 0 => m.heap.table[i] = table[i]
<1>1. HeapOK(Heap) /\ refs \in [Entries -> Nat]
  BY HeapFields DEF IInv, HeapOK, HeapType
<1>2. CASE v <= MaxInline
  <2> DEFINE b == [indirect |-> FALSE, count |-> v]
  <2>1. Made(Heap, v) = [heap |-> Heap, bits |-> b]
    BY <1>2 DEF Made
  <2>2. b \in Bits
    BY DEF Bits
  <2>3. \A i \in Entries : refs[i] \in Nat /\ Uses(b, i) = 0
    BY <1>1 DEF Uses
  <2>4. ValueOf(Heap, b) = v /\ ~b.indirect
    BY DEF ValueOf
  <2> HIDE DEF b
  <2>5. Made(Heap, v).heap = Heap /\ Made(Heap, v).bits = b
    BY <2>1
  <2> QED BY <1>1, <2>2, <2>3, <2>4, <2>5, HeapFields
<1>3. CASE ~(v <= MaxInline)
  <2> DEFINE e == Ready(Heap).free
             t == Taken(Heap, v)
             b == [indirect |-> TRUE, count |-> e]
  <2>1. Made(Heap, v) = [heap |-> t, bits |-> b]
    BY <1>3 DEF Made
  <2>2. /\ e \in Entries /\ refs[e] = 0
        /\ HeapOK(t) /\ t.ready /\ t.table[e] = v
        /\ t.refs = [refs EXCEPT ![e] = 1]
        /\ \A i \in Entries : refs[i] > 0 => t.table[i] = table[i]
    <3>1. FreeEntries(Heap) # {}
      BY EntryFree
    <3>2. /\ e \in Entries /\ Heap.refs[e] = 0
          /\ HeapOK(t) /\ t.ready /\ t.table[e] = v
          /\ t.refs = [Heap.refs EXCEPT ![e] = 1]
          /\ \A i \in Entries : Heap.refs[i] > 0 => t.table[i] = Heap.table[i]
      BY <1>1, <3>1, TakenOK
    <3> HIDE DEF e, t
    <3> QED BY <3>2, HeapFields
  <2> HIDE DEF e, t
  <2>3. b \in Bits
    BY <2>2 DEF Bits
  <2>4. \A i \in Entries : t.refs[i] = refs[i] + Uses(b, i)
    BY <1>1, <2>2 DEF Uses
  <2>5. ValueOf(t, b) = v /\ b.indirect /\ b.count = e
    BY <2>2 DEF ValueOf
  <2> HIDE DEF b
  <2>6. Made(Heap, v).heap = t /\ Made(Heap, v).bits = b
    BY <2>1
  <2> QED BY <2>2, <2>3, <2>4, <2>5, <2>6
<1> QED BY <1>2, <1>3

\* An object's entry has a reference, the object's own at least.
LEMMA OwnReference ==
    ASSUME Roomy, IInv, NEW x \in Live
    PROVE  /\ x \in Objects /\ object[x] \in Bits
           /\ object[x].indirect => object[x].count \in Entries /\ refs[object[x].count] > 0
<1>1. x \in Objects /\ object[x] \in Bits
  BY DEF Live, IInv
<1>2. ASSUME object[x].indirect
      PROVE  object[x].count \in Entries /\ refs[object[x].count] > 0
  <2> DEFINE i == object[x].count
  <2>1. i \in Entries /\ x \in Users(i)
    BY <1>1, <1>2 DEF Bits, Users
  <2>2. refs[i] = Cardinality(Users(i)) /\ Users(i) # {}
    BY <2>1 DEF IInv, CountsKept
  <2>3. IsFiniteSet(Users(i))
    <3>1. Users(i) \subseteq Objects
      BY DEF Users, Live
    <3> QED BY <3>1, FS_Subset DEF Roomy
  <2>4. Cardinality(Users(i)) \in Nat /\ Cardinality(Users(i)) # 0
    BY <2>2, <2>3, FS_EmptySet, FS_CardinalityType
  <2> QED BY <2>1, <2>2, <2>4
<1> QED BY <1>1, <1>2

LEMMA MakeStep ==
    ASSUME Roomy, IInv, NEW x \in Objects, NEW v \in Amounts, Make(x, v)
    PROVE  IInv'
<1> DEFINE m == Made(Heap, v)
<1>1. v \in Nat
  BY DEF Roomy
<1>2. /\ m.bits \in Bits /\ HeapOK(m.heap)
      /\ ValueOf(m.heap, m.bits) = v
      /\ \A i \in Entries : m.heap.refs[i] = refs[i] + Uses(m.bits, i)
      /\ \A i \in Entries : refs[i] > 0 => m.heap.table[i] = table[i]
  BY <1>1, MadeOK
<1>3. /\ object[x] = Gone /\ Become(m.heap)
      /\ object' = [object EXCEPT ![x] = m.bits]
      /\ meant' = [meant EXCEPT ![x] = v]
  BY DEF Make
<1> HIDE DEF m
<1>4. refs \in [Entries -> Nat] /\ \A i \in Entries : Uses(object[x], i) = 0
  BY <1>3, GoneIsNot, HeapFields DEF IInv, HeapOK, HeapType
<1>5. meant' \in [Objects -> Nat] /\ meant'[x] = v /\ \A y \in Objects \ {x} : meant'[y] = meant[y]
  BY <1>1, <1>3 DEF IInv
<1>6. \A i \in Entries : m.heap.refs[i] = refs[i] - Uses(object[x], i) + Uses(m.bits, i)
  BY <1>2, <1>4
<1>7. \A i \in Entries : refs[i] - Uses(object[x], i) > 0 => m.heap.table[i] = table[i]
  BY <1>2, <1>4
<1> QED BY <1>2, <1>3, <1>5, <1>6, <1>7, ObjectStep

LEMMA CopyStep ==
    ASSUME Roomy, IInv, NEW x \in Objects, NEW y \in Objects, CopyFrom(x, y)
    PROVE  IInv'
<1> DEFINE s == Shared(Heap, object[y])
<1>1. /\ object[x] = Gone /\ y \in Live /\ Become(s)
      /\ object' = [object EXCEPT ![x] = object[y]]
      /\ meant' = [meant EXCEPT ![x] = meant[y]]
  BY DEF CopyFrom
<1>2. object[y] \in Bits /\ (object[y].indirect => Heap.refs[object[y].count] > 0)
  BY <1>1, OwnReference, HeapFields
<1>3. /\ HeapOK(s) /\ s.table = table
      /\ \A i \in Entries : s.refs[i] = refs[i] + Uses(object[y], i)
  BY <1>2, SharedOK, HeapFields DEF IInv
<1> HIDE DEF s
<1>4. refs \in [Entries -> Nat] /\ \A i \in Entries : Uses(object[x], i) = 0
  BY <1>1, GoneIsNot, HeapFields DEF IInv, HeapOK, HeapType
<1>5. /\ meant' \in [Objects -> Nat] /\ meant'[x] = meant[y]
      /\ \A z \in Objects \ {x} : meant'[z] = meant[z]
  BY <1>1 DEF IInv
<1>6. ValueOf(s, object[y]) = meant[y]
  BY <1>1, <1>3, HeapFields DEF IInv, CountsKept, ValueOf
<1>7. \A i \in Entries : s.refs[i] = refs[i] - Uses(object[x], i) + Uses(object[y], i)
  BY <1>3, <1>4
<1> QED BY <1>1, <1>2, <1>3, <1>5, <1>6, <1>7, ObjectStep

LEMMA DestroyStep ==
    ASSUME Roomy, IInv, NEW x \in Objects, Destroy(x)
    PROVE  IInv'
<1> DEFINE d == Released(Heap, object[x])
<1>1. /\ x \in Live /\ Become(d) /\ meant' = meant
      /\ object' = [object EXCEPT ![x] = Gone]
  BY DEF Destroy
<1>2. object[x] \in Bits /\ (object[x].indirect => Heap.refs[object[x].count] > 0)
  BY <1>1, OwnReference, HeapFields
<1>3. /\ HeapOK(d)
      /\ \A i \in Entries : d.refs[i] = refs[i] - Uses(object[x], i)
      /\ \A i \in Entries : d.refs[i] > 0 => d.table[i] = table[i]
  BY <1>2, ReleasedOK, HeapFields DEF IInv
<1> HIDE DEF d
<1>4. \A i \in Entries : refs[i] \in Nat /\ Uses(object[x], i) \in Nat /\ Uses(Gone, i) = 0
  BY HeapFields, GoneIsNot DEF IInv, HeapOK, HeapType, Uses
<1>5. meant' \in [Objects -> Nat] /\ \A z \in Objects \ {x} : meant'[z] = meant[z]
  BY <1>1 DEF IInv
<1>6. \A i \in Entries : d.refs[i] = refs[i] - Uses(object[x], i) + Uses(Gone, i)
  BY <1>3, <1>4
<1>7. \A i \in Entries : refs[i] - Uses(object[x], i) > 0 => d.table[i] = table[i]
  BY <1>3
<1>8. Gone \in Bits \cup {Gone}
  OBVIOUS
<1> QED BY <1>1, <1>3, <1>5, <1>6, <1>7, <1>8, ObjectStep

LEMMA AssignStep ==
    ASSUME Roomy, IInv, NEW x \in Objects, NEW y \in Objects, AssignCount(x, y)
    PROVE  IInv'
<1>1. /\ x \in Live /\ y \in Live
      /\ object' = [object EXCEPT ![x] = object[y]]
      /\ meant' = [meant EXCEPT ![x] = meant[y]]
  BY DEF AssignCount
<1>2. /\ object[x] \in Bits /\ (object[x].indirect => object[x].count \in Entries /\ Heap.refs[object[x].count] > 0)
      /\ object[y] \in Bits /\ (object[y].indirect => object[y].count \in Entries /\ Heap.refs[object[y].count] > 0)
  BY <1>1, OwnReference, HeapFields
<1>3. /\ meant' \in [Objects -> Nat] /\ meant'[x] = meant[y]
      /\ \A z \in Objects \ {x} : meant'[z] = meant[z]
  BY <1>1 DEF IInv
<1>4. \A i \in Entries : refs[i] \in Nat /\ \A b : Uses(b, i) \in {0, 1}
  BY HeapFields DEF IInv, HeapOK, HeapType, Uses
<1>5. ValueOf(Heap, object[y]) = meant[y]
  BY <1>1 DEF IInv, CountsKept
<1>6. CASE x = y
  <2>1. Become(Heap)
    BY <1>6 DEF AssignCount, Become, Heap
  <2>2. \A i \in Entries : Heap.refs[i] = refs[i] - Uses(object[x], i) + Uses(object[y], i)
    BY <1>4, <1>6, HeapFields
  <2>3. HeapOK(Heap)
    BY DEF IInv
  <2>4. \A i \in Entries : refs[i] - Uses(object[x], i) > 0 => Heap.table[i] = table[i]
    BY HeapFields
  <2>5. object[y] \in Bits \cup {Gone} /\ ValueOf(Heap, object[y]) = meant'[x]
    BY <1>2, <1>3, <1>5
  <2> QED BY <1>1, <1>3, <2>1, <2>2, <2>3, <2>4, <2>5, ObjectStep
<1>7. CASE x # y
  <2> DEFINE d == Released(Heap, object[x])
             s == Shared(d, object[y])
  <2>1. Become(s)
    BY <1>7 DEF AssignCount
  <2>2. /\ HeapOK(d)
        /\ \A i \in Entries : d.refs[i] = refs[i] - Uses(object[x], i)
        /\ \A i \in Entries : d.refs[i] > 0 => d.table[i] = table[i]
    BY <1>2, ReleasedOK, HeapFields DEF IInv
  <2> HIDE DEF d
  <2>3. object[y].indirect => d.refs[object[y].count] > 0
    <3> HAVE object[y].indirect
    <3> DEFINE i == object[y].count
    <3>1. i \in Entries /\ y \in Users(i) \ {x}
      BY <1>1, <1>2, <1>7 DEF Users
    <3> HIDE DEF i
    <3>2. Users(i) \subseteq Objects /\ IsFiniteSet(Objects)
      BY DEF Users, Live, Roomy
    <3>3. IsFiniteSet(Users(i)) /\ Cardinality(Users(i)) \in Nat
      BY <3>2, FS_Subset, FS_CardinalityType
    <3>4. Cardinality(Users(i) \ {x}) = Cardinality(Users(i)) - Uses(object[x], i)
      <4>1. Uses(object[x], i) = IF x \in Users(i) THEN 1 ELSE 0
        BY <1>1 DEF Uses, Users
      <4>2. Cardinality(Users(i) \ {x}) = IF x \in Users(i) THEN Cardinality(Users(i)) - 1
                                          ELSE Cardinality(Users(i))
        BY <3>3, FS_RemoveElement
      <4> QED BY <3>3, <4>1, <4>2
    <3>5. /\ IsFiniteSet(Users(i) \ {x}) /\ Cardinality(Users(i) \ {x}) # 0
          /\ Cardinality(Users(i) \ {x}) \in Nat
      BY <3>1, <3>3, FS_RemoveElement, FS_EmptySet, FS_CardinalityType
    <3>6. refs[i] = Cardinality(Users(i))
      BY <3>1 DEF IInv, CountsKept
    <3> QED BY <2>2, <3>1, <3>4, <3>5, <3>6 DEF i
  <2>4. /\ HeapOK(s) /\ s.table = d.table
        /\ \A i \in Entries : s.refs[i] = d.refs[i] + Uses(object[y], i)
    BY <1>2, <2>2, <2>3, SharedOK
  <2> HIDE DEF s
  <2>5. \A i \in Entries : s.refs[i] = refs[i] - Uses(object[x], i) + Uses(object[y], i)
    BY <2>2, <2>4
  <2>6. \A i \in Entries : refs[i] - Uses(object[x], i) > 0 => s.table[i] = table[i]
    BY <2>2, <2>4
  <2>7. ValueOf(s, object[y]) = meant[y]
    BY <1>2, <1>5, <2>2, <2>3, <2>4, HeapFields DEF ValueOf
  <2>8. object[y] \in Bits \cup {Gone} /\ ValueOf(s, object[y]) = meant'[x]
    BY <1>2, <1>3, <2>7
  <2>9. HeapOK(s)
    BY <2>4
  <2> QED BY <1>1, <1>3, <2>1, <2>5, <2>6, <2>8, <2>9, ObjectStep
<1> QED BY <1>6, <1>7

LEMMA IncrementStep ==
    ASSUME Roomy, IInv, NEW x \in Objects, NEW a \in Amounts, Increment(x, a)
    PROVE  IInv'
<1> DEFINE old == object[x]
           v == ValueOf(Heap, old) + a
           sum == Made(Heap, v)
           b == sum.bits
           h1 == Released(sum.heap, old)
           h2 == Shared(h1, b)
           h3 == Released(h2, b)
<1>1. /\ x \in Live /\ Become(h3)
      /\ object' = [object EXCEPT ![x] = b]
      /\ meant' = [meant EXCEPT ![x] = @ + a]
  BY DEF Increment
<1>2. old \in Bits /\ (old.indirect => old.count \in Entries /\ refs[old.count] > 0)
  BY <1>1, OwnReference
<1>3. ValueOf(Heap, old) = meant[x] /\ meant[x] \in Nat /\ a \in Nat
  BY <1>1 DEF IInv, CountsKept, Roomy
<1>4. v \in Nat /\ v = meant[x] + a
  BY <1>3
<1> HIDE DEF v
<1>5. /\ b \in Bits /\ HeapOK(sum.heap)
      /\ ValueOf(sum.heap, b) = v
      /\ b.indirect => refs[b.count] = 0
      /\ \A i \in Entries : sum.heap.refs[i] = refs[i] + Uses(b, i)
      /\ \A i \in Entries : refs[i] > 0 => sum.heap.table[i] = table[i]
  BY <1>4, MadeOK
<1>6. \A i \in Entries : refs[i] \in Nat /\ \A c : Uses(c, i) \in {0, 1}
  BY HeapFields DEF IInv, HeapOK, HeapType, Uses
<1>7. b.indirect => b.count \in Entries /\ Uses(b, b.count) = 1
  BY <1>5 DEF Bits, Uses
<1> HIDE DEF sum
<1>8. old.indirect => sum.heap.refs[old.count] > 0
  BY <1>2, <1>5, <1>6
<1>9. /\ HeapOK(h1)
      /\ \A i \in Entries : h1.refs[i] = sum.heap.refs[i] - Uses(old, i)
      /\ \A i \in Entries : h1.refs[i] > 0 => h1.table[i] = sum.heap.table[i]
  BY <1>2, <1>5, <1>8, ReleasedOK
<1> HIDE DEF h1
<1>10. b.indirect => Uses(old, b.count) = 0
  BY <1>2, <1>5 DEF Uses
<1>11. b.indirect => h1.refs[b.count] = 1
  BY <1>5, <1>6, <1>7, <1>9, <1>10
<1>12. /\ HeapOK(h2) /\ h2.table = h1.table
       /\ \A i \in Entries : h2.refs[i] = h1.refs[i] + Uses(b, i)
  BY <1>5, <1>9, <1>11, SharedOK
<1> HIDE DEF h2
<1>13. b.indirect => h2.refs[b.count] = 2
  BY <1>7, <1>11, <1>12
<1>14. /\ HeapOK(h3)
       /\ \A i \in Entries : h3.refs[i] = h2.refs[i] - Uses(b, i)
       /\ \A i \in Entries : h3.refs[i] > 0 => h3.table[i] = h2.table[i]
  BY <1>5, <1>12, <1>13, ReleasedOK
<1> HIDE DEF h3
<1>15. \A i \in Entries : h3.refs[i] = refs[i] - Uses(old, i) + Uses(b, i)
  BY <1>5, <1>6, <1>9, <1>12, <1>14
<1>16. \A i \in Entries : refs[i] - Uses(old, i) > 0 => h3.table[i] = table[i]
  <2> TAKE i \in Entries
  <2> HAVE refs[i] - Uses(old, i) > 0
  <2>1. refs[i] > 0 /\ h1.refs[i] > 0 /\ h3.refs[i] > 0
    BY <1>5, <1>6, <1>9, <1>15
  <2> QED BY <1>5, <1>9, <1>12, <1>14, <2>1
<1>17. ValueOf(h3, b) = v
  <2>1. CASE ~b.indirect
    BY <1>5, <2>1 DEF ValueOf
  <2>2. CASE b.indirect
    <3>1. h3.refs[b.count] > 0 /\ h1.refs[b.count] > 0
      BY <1>6, <1>7, <1>11, <1>13, <1>14, <2>2
    <3>2. h3.table[b.count] = sum.heap.table[b.count]
      BY <1>7, <1>9, <1>12, <1>14, <2>2, <3>1
    <3> QED BY <1>5, <2>2, <3>2 DEF ValueOf
  <2> QED BY <2>1, <2>2
<1>18. /\ meant' \in [Objects -> Nat] /\ meant'[x] = v
       /\ \A z \in Objects \ {x} : meant'[z] = meant[z]
  BY <1>1, <1>3, <1>4 DEF IInv
<1>19. b \in Bits \cup {Gone} /\ ValueOf(h3, b) = meant'[x]
  BY <1>5, <1>17, <1>18
<1> HIDE DEF b
<1>20. x \in Objects /\ HeapOK(h3) /\ Become(h3) /\ object' = [object EXCEPT ![x] = b]
  BY <1>1, <1>14
<1> QED BY <1>15, <1>16, <1>18, <1>19, <1>20, ObjectStep

-----------------------------------------------------------------------------

LEMMA InitIInv == ASSUME Roomy, XInit PROVE IInv
<1>1. \A x \in Objects : object[x] = Gone
  BY DEF XInit
<1>2. Live = {} /\ \A i \in Entries : Users(i) = {}
  BY <1>1 DEF Live, Users
<1>3. CountsKept
  BY <1>2, FS_EmptySet DEF CountsKept, XInit
<1>4. HeapOK(Heap)
  <2>1. /\ table \in [Entries -> Int] /\ refs \in [Entries -> Nat] /\ freeList \in Int
        /\ initialized = FALSE /\ \A i \in Entries : refs[i] = 0
    BY DEF XInit
  <2>2. Heap \in HeapType
    BY <2>1 DEF Heap, HeapType
  <2> QED BY <2>1, <2>2, HeapFields DEF HeapOK
<1> QED BY <1>3, <1>4 DEF IInv, XInit

LEMMA NextIInv == ASSUME Roomy, IInv, [XNext]_xvars PROVE IInv'
<1>1. CASE UNCHANGED xvars
  BY <1>1 DEF xvars, IInv, CountsKept, Live, Users, Heap
<1>2. CASE XNext
  BY <1>2, MakeStep, CopyStep, AssignStep, DestroyStep, IncrementStep DEF XNext
<1> QED BY <1>1, <1>2

(* While fewer counts are alive than the table has entries, every count has   *)
(* the value it was made and incremented to, however counts share entries and *)
(* release them, and no entry is given to two values (XCount.cc).             *)
THEOREM CountsAlwaysKept == ASSUME Roomy PROVE XSpec => []CountsKept
<1>1. XInit => IInv
  BY InitIInv
<1>2. IInv /\ [XNext]_xvars => IInv'
  BY NextIInv
<1>3. IInv => CountsKept
  BY DEF IInv
<1> QED BY <1>1, <1>2, <1>3, PTL DEF XSpec
=============================================================================
