---------------------------- MODULE Vocab_proofs ----------------------------
(***************************************************************************)
(* Proofs about Vocab for every set of strings and every index range: the  *)
(* two maps stay in step, an index never changes its word, and the index    *)
(* maps of files are read back.                                            *)
(***************************************************************************)
EXTENDS Vocab, WellFoundedInduction, TLAPS

\* The functions from a part of D to R.
Partial(D, R) == UNION {[C -> R] : C \in SUBSET D}

Vocabularies ==
    [byName : Partial(Names, Indices \cup {0}),
     byIndex : [Indices -> Names \cup {NoName}],
     nextIndex : Start .. End,
     nonEvents : SUBSET Indices,
     metaTags : Partial(Indices, Nat),
     special : [{"unk", "ss", "se", "pause"} -> Indices \cup {0, None}],
     toLower : BOOLEAN,
     metaTag : BOOLEAN]

(* Adding an entry to a map keeps its type.                                  *)
LEMMA BindType ==
    ASSUME NEW D, NEW R, NEW f \in Partial(D, R), NEW x \in D, NEW y \in R
    PROVE  Bind(f, x, y) \in Partial(D, R)
<1>1. PICK C \in SUBSET D : f \in [C -> R]
  BY DEF Partial
<1>2. Bind(f, x, y) \in [C \cup {x} -> R]
  BY <1>1 DEF Bind
<1> QED
  BY <1>2 DEF Partial

(* So does removing one.                                                     *)
LEMMA UnbindType ==
    ASSUME NEW D, NEW R, NEW f \in Partial(D, R), NEW x
    PROVE  Unbind(f, x) \in Partial(D, R)
<1>1. PICK C \in SUBSET D : f \in [C -> R]
  BY DEF Partial
<1>2. Unbind(f, x) \in [C \ {x} -> R]
  BY <1>1 DEF Unbind
<1> QED
  BY <1>2 DEF Partial

(* What remove() of a defined index leaves of each field.                    *)
LEMMA DroppedFields ==
    ASSUME NEW v \in Vocabularies, NEW i
    PROVE  LET w == Dropped(v, i)
           IN  /\ w \in Vocabularies
               /\ w.byName = Unbind(v.byName, v.byIndex[i])
               /\ w.byIndex = [v.byIndex EXCEPT ![i] = NoName]
               /\ w.nextIndex = v.nextIndex
               /\ w.toLower = v.toLower
<1>1. Unbind(v.byName, v.byIndex[i]) \in Partial(Names, Indices \cup {0})
  BY UnbindType DEF Vocabularies
<1>2. Unbind(v.metaTags, i) \in Partial(Indices, Nat)
  BY UnbindType DEF Vocabularies
<1>3. [s \in DOMAIN v.special |-> IF v.special[s] = i THEN None ELSE v.special[s]]
         \in [{"unk", "ss", "se", "pause"} -> Indices \cup {0, None}]
  BY DEF Vocabularies
<1>4. [v.byIndex EXCEPT ![i] = NoName] \in [Indices -> Names \cup {NoName}]
  BY DEF Vocabularies
<1>5. v.nonEvents \ {i} \in SUBSET Indices
  BY DEF Vocabularies
<1>6. Dropped(v, i) \in Vocabularies
  BY <1>1, <1>2, <1>3, <1>4, <1>5 DEF Dropped, Vocabularies
<1> QED
  BY <1>6 DEF Dropped, Vocabularies

Inv(v) == v \in Vocabularies /\ RoundTrips(v)

(* The string an operation looks up is a string.                             *)
LEMMA KeyType ==
    ASSUME NEW v \in Vocabularies, NEW n \in Names
    PROVE  Key(v, n) \in Names /\ Key(v, n) # NoName
BY NamesAssumption DEF Key, Vocabularies

(* addWord() of a new string when there is room.                             *)
LEMMA AssignedFields ==
    ASSUME NEW v \in Vocabularies, NEW n \in Names, ~Full(v)
    PROVE  LET w == Assigned(v, n, v.nextIndex)
           IN  /\ v.nextIndex \in Indices
               /\ w \in Vocabularies
               /\ w.byName = Bind(v.byName, n, v.nextIndex)
               /\ w.byIndex = [v.byIndex EXCEPT ![v.nextIndex] = n]
               /\ w.nextIndex = v.nextIndex + 1
               /\ w.toLower = v.toLower
<1> DEFINE i == v.nextIndex
<1>1. i \in Indices /\ i + 1 \in Start .. End
  BY RangeAssumption DEF Vocabularies, Full, Indices
<1>2. Bind(v.byName, n, i) \in Partial(Names, Indices \cup {0})
  BY <1>1, BindType DEF Vocabularies
<1>3. (IF Interned(v, n) THEN Bind(v.metaTags, i, MetaType[n]) ELSE v.metaTags) \in Partial(Indices, Nat)
  <2>1. CASE Interned(v, n)
    <3>1. MetaType[n] \in Nat
      BY <2>1, NamesAssumption DEF Interned
    <3> QED
      BY <1>1, <2>1, <3>1, BindType DEF Vocabularies
  <2>2. CASE ~Interned(v, n)
    BY <2>2 DEF Vocabularies
  <2> QED
    BY <2>1, <2>2
<1>4. [v.byIndex EXCEPT ![i] = n] \in [Indices -> Names \cup {NoName}]
  BY DEF Vocabularies
<1>5. Assigned(v, n, i) \in Vocabularies
  BY <1>1, <1>2, <1>3, <1>4 DEF Assigned, Vocabularies
<1> QED
  BY <1>1, <1>5 DEF Assigned, Vocabularies

LEMMA AssignedInv ==
    ASSUME NEW v, Inv(v), NEW n \in Names, ~Known(v, n), ~Full(v)
    PROVE  Inv(Assigned(v, n, v.nextIndex))
<1> DEFINE w == Assigned(v, n, v.nextIndex)
<1>1. /\ v.nextIndex \in Indices
      /\ w \in Vocabularies
      /\ w.byName = Bind(v.byName, n, v.nextIndex)
      /\ w.byIndex = [v.byIndex EXCEPT ![v.nextIndex] = n]
      /\ w.nextIndex = v.nextIndex + 1
  BY AssignedFields DEF Inv
<1>2. v.byIndex \in [Indices -> Names \cup {NoName}] /\ Indices \subseteq Nat
  BY RangeAssumption DEF Inv, Vocabularies, Indices
<1>3. RoundTrips(w)
  <2> HIDE DEF w
  <2> SUFFICES ASSUME NEW j \in Indices, w.byIndex[j] # NoName
               PROVE  j < w.nextIndex /\ Known(w, w.byIndex[j]) /\ w.byName[w.byIndex[j]] = j
    BY DEF RoundTrips
  <2>1. CASE j = v.nextIndex
    BY <1>1, <1>2, <2>1 DEF Bind, Known
  <2>2. CASE j # v.nextIndex
    <3>1. v.byIndex[j] # NoName /\ w.byIndex[j] = v.byIndex[j]
      BY <1>1, <1>2, <2>2
    <3>2. j < v.nextIndex /\ Known(v, v.byIndex[j]) /\ v.byName[v.byIndex[j]] = j
      BY <3>1 DEF Inv, RoundTrips
    <3>3. w.byIndex[j] # n /\ w.byIndex[j] \in DOMAIN v.byName
      BY <3>1, <3>2 DEF Known
    <3>4. Known(w, w.byIndex[j]) /\ w.byName[w.byIndex[j]] = v.byName[w.byIndex[j]]
      BY <1>1, <3>3 DEF Bind, Known
    <3>5. j < w.nextIndex
      BY <1>1, <3>2, RangeAssumption DEF Indices
    <3> QED
      BY <3>1, <3>2, <3>4, <3>5
  <2> QED
    BY <2>1, <2>2
<1> QED
  BY <1>1, <1>3 DEF Inv

(* addWord() keeps the maps in step, also when the range is full.            *)
LEMMA AddedInv ==
    ASSUME NEW v, Inv(v), NEW name \in Names
    PROVE  /\ Inv(Added(v, name))
           /\ Added(v, name).toLower = v.toLower
           /\ Added(v, name).nextIndex \in {v.nextIndex, v.nextIndex + 1}
           /\ \A j \in Indices : j < v.nextIndex => Added(v, name).byIndex[j] = v.byIndex[j]
<1> DEFINE n == Key(v, name)
<1>1. n \in Names
  BY KeyType DEF Inv
<1>2. CASE Known(v, n)
  BY <1>2 DEF Added
<1>3. CASE ~Known(v, n) /\ Full(v)
  <2> DEFINE w == Added(v, name)
  <2>1. Bind(v.byName, n, 0) \in Partial(Names, Indices \cup {0})
    BY <1>1, BindType DEF Inv, Vocabularies
  <2>2. w = [v EXCEPT !.byName = Bind(v.byName, n, 0)]
    BY <1>3 DEF Added
  <2>3. /\ w \in Vocabularies /\ w.byName = Bind(v.byName, n, 0)
        /\ w.byIndex = v.byIndex /\ w.nextIndex = v.nextIndex /\ w.toLower = v.toLower
    BY <2>1, <2>2 DEF Inv, Vocabularies
  <2>4. RoundTrips(w)
    BY <1>3, <2>3 DEF Bind, Known, Inv, RoundTrips
  <2> QED
    BY <2>3, <2>4 DEF Inv
<1>4. CASE ~Known(v, n) /\ ~Full(v)
  <2> DEFINE w == Added(v, name)
  <2>1. Inv(w)
    BY <1>1, <1>4, AssignedInv DEF Added
  <2>2. /\ w.byIndex = [v.byIndex EXCEPT ![v.nextIndex] = n] /\ w.nextIndex = v.nextIndex + 1
        /\ w.toLower = v.toLower /\ v.nextIndex \in Indices
    BY <1>1, <1>4, AssignedFields DEF Added, Inv
  <2> HIDE DEF w, n
  <2>3. \A j \in Indices : j < v.nextIndex => w.byIndex[j] = v.byIndex[j]
    BY <2>2, RangeAssumption DEF Inv, Vocabularies, Indices
  <2> QED
    BY <2>1, <2>2, <2>3 DEF w
<1> QED
  BY <1>2, <1>3, <1>4

LEMMA DroppedInv ==
    ASSUME NEW v, Inv(v), NEW i \in Indices, v.byIndex[i] # NoName
    PROVE  Inv(Dropped(v, i))
<1> DEFINE w == Dropped(v, i)
<1>1. /\ w \in Vocabularies
      /\ w.byName = Unbind(v.byName, v.byIndex[i])
      /\ w.byIndex = [v.byIndex EXCEPT ![i] = NoName]
      /\ w.nextIndex = v.nextIndex
  BY DroppedFields DEF Inv
<1>2. v.byIndex \in [Indices -> Names \cup {NoName}]
  BY DEF Inv, Vocabularies
<1>3. v.byName[v.byIndex[i]] = i
  BY DEF Inv, RoundTrips
<1>4. RoundTrips(w)
  <2> HIDE DEF w
  <2> SUFFICES ASSUME NEW j \in Indices, w.byIndex[j] # NoName
               PROVE  j < w.nextIndex /\ Known(w, w.byIndex[j]) /\ w.byName[w.byIndex[j]] = j
    BY DEF RoundTrips
  <2>1. j # i /\ w.byIndex[j] = v.byIndex[j]
    BY <1>1, <1>2
  <2>2. j < v.nextIndex /\ Known(v, v.byIndex[j]) /\ v.byName[v.byIndex[j]] = j
    BY <2>1 DEF Inv, RoundTrips
  <2> QED
    BY <1>1, <1>3, <2>1, <2>2 DEF Unbind, Known
<1> QED
  BY <1>1, <1>4 DEF Inv

(* A string that is its index's word: the index is in range.                 *)
LEMMA OwnName ==
    ASSUME NEW v, Inv(v), NEW n, n # NoName, GetWord(v, v.byName[n]) = n
    PROVE  v.byName[n] \in Indices /\ v.byIndex[v.byName[n]] = n
BY RangeAssumption DEF Inv, Vocabularies, GetWord, Indices

(* remove(name) keeps the maps in step, for a word and for an alias, and     *)
(* name is free afterwards.                                                  *)
LEMMA RemovedInv ==
    ASSUME NEW v, Inv(v), NEW name \in Names
    PROVE  /\ Inv(Removed(v, name))
           /\ ~Known(Removed(v, name), Key(v, name))
           /\ Removed(v, name).nextIndex = v.nextIndex
           /\ \A j \in Indices :
                 /\ Removed(v, name).byIndex[j] \in {v.byIndex[j], NoName}
                 /\ v.byIndex[j] # Key(v, name) => Removed(v, name).byIndex[j] = v.byIndex[j]
<1> DEFINE n == Key(v, name)
<1>1. n \in Names /\ n # NoName
  BY KeyType DEF Inv
<1>2. CASE ~Known(v, n)
  BY <1>2 DEF Removed
<1>3. CASE Known(v, n) /\ GetWord(v, v.byName[n]) = n
  <2> DEFINE i == v.byName[n]
  <2>1. i \in Indices /\ v.byIndex[i] = n
    BY <1>1, <1>3, OwnName
  <2>2. Removed(v, name) = Dropped(v, i)
    BY <1>3 DEF Removed
  <2> HIDE DEF i
  <2>3. /\ Dropped(v, i).byName = Unbind(v.byName, v.byIndex[i])
        /\ Dropped(v, i).byIndex = [v.byIndex EXCEPT ![i] = NoName]
        /\ Dropped(v, i).nextIndex = v.nextIndex
    BY DroppedFields DEF Inv
  <2>4. ~Known(Dropped(v, i), n)
    BY <2>1, <2>3 DEF Known, Unbind
  <2>5. Inv(Dropped(v, i))
    BY <1>1, <2>1, DroppedInv
  <2>6. \A j \in Indices : /\ Dropped(v, i).byIndex[j] \in {v.byIndex[j], NoName}
                            /\ v.byIndex[j] # n => Dropped(v, i).byIndex[j] = v.byIndex[j]
    BY <2>1, <2>3 DEF Inv, Vocabularies
  <2> QED
    BY <2>2, <2>3, <2>4, <2>5, <2>6
<1>4. CASE Known(v, n) /\ GetWord(v, v.byName[n]) # n
  <2> DEFINE w == Removed(v, name)
  <2>1. w = [v EXCEPT !.byName = Unbind(v.byName, n)]
    BY <1>4 DEF Removed
  <2>2. Unbind(v.byName, n) \in Partial(Names, Indices \cup {0})
    BY UnbindType DEF Inv, Vocabularies
  <2>3. /\ w \in Vocabularies /\ w.byName = Unbind(v.byName, n)
        /\ w.byIndex = v.byIndex /\ w.nextIndex = v.nextIndex
    BY <2>1, <2>2 DEF Inv, Vocabularies
  <2>4. \A j \in Indices : v.byIndex[j] # NoName => v.byIndex[j] # n
    BY <1>4 DEF GetWord, Inv, Vocabularies, RoundTrips, Indices
  <2>5. RoundTrips(w)
    BY <2>3, <2>4 DEF Unbind, Known, Inv, RoundTrips
  <2>6. ~Known(w, n)
    BY <2>3 DEF Unbind, Known
  <2> QED
    BY <2>3, <2>5, <2>6 DEF Inv
<1> QED
  BY <1>2, <1>3, <1>4

-----------------------------------------------------------------------------

(* Every string has a word, unless it is in A its own: as long as there is   *)
(* room and no alias.                                                        *)
ResolvesBut(v, A) ==
    \A n \in DOMAIN v.byName :
        /\ v.byName[n] \in Indices
        /\ v.byIndex[v.byName[n]] # NoName
        /\ n \notin A => v.byIndex[v.byName[n]] = n

(* addWord() adds no string without a word while there is room.              *)
LEMMA AddedResolves ==
    ASSUME NEW v, Inv(v), NEW A, ResolvesBut(v, A), NEW name \in Names,
           Known(v, Key(v, name)) \/ ~Full(v)
    PROVE  ResolvesBut(Added(v, name), A)
<1> DEFINE n == Key(v, name)
           w == Added(v, name)
<1>1. n \in Names /\ n # NoName
  BY KeyType DEF Inv
<1>2. CASE Known(v, n)
  BY <1>2 DEF Added
<1>3. CASE ~Known(v, n)
  <2>1. /\ w.byName = Bind(v.byName, n, v.nextIndex)
        /\ w.byIndex = [v.byIndex EXCEPT ![v.nextIndex] = n] /\ v.nextIndex \in Indices
    BY <1>1, <1>3, AssignedFields DEF Added, Inv
  <2> HIDE DEF w, n
  <2>2. v.byIndex \in [Indices -> Names \cup {NoName}]
    BY DEF Inv, Vocabularies
  <2>3. \A m \in DOMAIN v.byName : v.byName[m] # v.nextIndex
    <3>1. \A j \in Indices : v.byIndex[j] # NoName => j < v.nextIndex
      BY DEF Inv, RoundTrips
    <3>2. ~(v.nextIndex < v.nextIndex)
      BY <2>1, RangeAssumption DEF Indices
    <3> QED
      BY <3>1, <3>2 DEF ResolvesBut
  <2> SUFFICES ASSUME NEW m \in DOMAIN w.byName
               PROVE  /\ w.byName[m] \in Indices /\ w.byIndex[w.byName[m]] # NoName
                      /\ m \notin A => w.byIndex[w.byName[m]] = m
    BY DEF ResolvesBut, w
  <2>4. CASE m = n
    BY <1>1, <2>1, <2>2, <2>4 DEF Bind
  <2>5. CASE m # n
    <3>1. m \in DOMAIN v.byName /\ w.byName[m] = v.byName[m]
      BY <2>1, <2>5 DEF Bind
    <3>2. w.byIndex[v.byName[m]] = v.byIndex[v.byName[m]]
      BY <2>1, <2>2, <2>3, <3>1 DEF ResolvesBut
    <3> QED
      BY <3>1, <3>2 DEF ResolvesBut
  <2> QED
    BY <2>4, <2>5
<1> QED
  BY <1>2, <1>3

(* addWord() gives a string its own index, or 0 when the range is full.     *)
LEMMA AddedOwn ==
    ASSUME NEW v, Inv(v), OwnNames(v), NEW name \in Names
    PROVE  OwnNames(Added(v, name))
<1> DEFINE n == Key(v, name)
           w == Added(v, name)
<1>1. n \in Names /\ n # NoName
  BY KeyType DEF Inv
<1>2. CASE Known(v, n)
  BY <1>2 DEF Added
<1>3. CASE ~Known(v, n) /\ Full(v)
  <2>1. w = [v EXCEPT !.byName = Bind(v.byName, n, 0)]
    BY <1>3 DEF Added
  <2>2. w.byName = Bind(v.byName, n, 0) /\ w.byIndex = v.byIndex /\ Full(w)
    BY <1>3, <2>1 DEF Inv, Vocabularies, Full
  <2> HIDE DEF w, n
  <2> QED
    BY <2>2 DEF Bind, OwnNames, w
<1>4. CASE ~Known(v, n) /\ ~Full(v)
  <2>1. /\ w.byName = Bind(v.byName, n, v.nextIndex)
        /\ w.byIndex = [v.byIndex EXCEPT ![v.nextIndex] = n] /\ v.nextIndex \in Indices
    BY <1>1, <1>4, AssignedFields DEF Added, Inv
  <2>2. /\ v.byIndex \in [Indices -> Names \cup {NoName}]
        /\ DOMAIN v.byName \subseteq Names /\ NoName \notin Names
    BY NamesAssumption DEF Inv, Vocabularies, Partial
  <2>3. v.byIndex[v.nextIndex] = NoName
    <3>1. \A j \in Indices : v.byIndex[j] # NoName => j < v.nextIndex
      BY DEF Inv, RoundTrips
    <3>2. ~(v.nextIndex < v.nextIndex)
      BY <2>1, RangeAssumption DEF Indices
    <3> QED
      BY <2>1, <3>1, <3>2
  <2> HIDE DEF w, n
  <2> SUFFICES ASSUME NEW m \in DOMAIN w.byName \ AliasNames
               PROVE  w.byName[m] \in Indices /\ w.byIndex[w.byName[m]] = m
    BY DEF OwnNames, w
  <2>4. CASE m = n
    BY <2>1, <2>2, <2>4 DEF Bind
  <2>5. CASE m # n
    <3>1. m \in DOMAIN v.byName /\ w.byName[m] = v.byName[m]
      BY <2>1, <2>5 DEF Bind
    <3>2. v.byName[m] \in Indices /\ v.byIndex[v.byName[m]] = m
      BY <1>4, <3>1 DEF OwnNames
    <3> QED
      BY <2>1, <2>2, <2>3, <3>1, <3>2
  <2> QED
    BY <2>4, <2>5
<1> QED
  BY <1>2, <1>3, <1>4

(* remove() of a word takes its own string, and no other has its index.      *)
LEMMA DroppedOwn ==
    ASSUME NEW v, Inv(v), OwnNames(v), NEW i \in Indices, v.byIndex[i] # NoName
    PROVE  OwnNames(Dropped(v, i))
<1> DEFINE w == Dropped(v, i)
<1>1. /\ w.byName = Unbind(v.byName, v.byIndex[i]) /\ w.byIndex = [v.byIndex EXCEPT ![i] = NoName]
      /\ w.nextIndex = v.nextIndex
  BY DroppedFields DEF Inv
<1>2. v.byIndex \in [Indices -> Names \cup {NoName}]
  BY DEF Inv, Vocabularies
<1> HIDE DEF w
<1>3. \A m \in DOMAIN w.byName : /\ m \in DOMAIN v.byName /\ m # v.byIndex[i]
                                 /\ w.byName[m] = v.byName[m]
  BY <1>1 DEF Unbind
<1> QED
  BY <1>1, <1>2, <1>3 DEF OwnNames, Full, w

LEMMA RemovedOwn ==
    ASSUME NEW v, Inv(v), OwnNames(v), NEW name \in Names
    PROVE  OwnNames(Removed(v, name))
<1> DEFINE n == Key(v, name)
<1>1. n \in Names /\ n # NoName
  BY KeyType DEF Inv
<1>2. CASE ~Known(v, n)
  BY <1>2 DEF Removed
<1>3. CASE Known(v, n) /\ GetWord(v, v.byName[n]) = n
  <2>1. v.byName[n] \in Indices /\ v.byIndex[v.byName[n]] = n
    BY <1>1, <1>3, OwnName
  <2>2. OwnNames(Dropped(v, v.byName[n]))
    BY <1>1, <2>1, DroppedOwn
  <2> QED
    BY <1>3, <2>2 DEF Removed
<1>4. CASE Known(v, n) /\ GetWord(v, v.byName[n]) # n
  <2> DEFINE w == Removed(v, name)
  <2>1. w = [v EXCEPT !.byName = Unbind(v.byName, n)]
    BY <1>4 DEF Removed
  <2>2. w.byName = Unbind(v.byName, n) /\ w.byIndex = v.byIndex /\ w.nextIndex = v.nextIndex
    BY <2>1 DEF Inv, Vocabularies
  <2> HIDE DEF w, n
  <2> QED
    BY <2>2 DEF Unbind, OwnNames, Full, w
<1> QED
  BY <1>2, <1>3, <1>4

(* addWordAlias() of an index with another name.                             *)
LEMMA AliasedInv ==
    ASSUME NEW v, Inv(v), NEW i \in Indices, NEW name \in Names,
           v.byIndex[i] # NoName, v.byIndex[i] # Key(v, name)
    PROVE  /\ Inv(Aliased(v, i, name))
           /\ Aliased(v, i, name).nextIndex = v.nextIndex
           /\ \A j \in Indices : Aliased(v, i, name).byIndex[j] \in {v.byIndex[j], NoName}
           /\ OwnNames(v) /\ Key(v, name) \in AliasNames => OwnNames(Aliased(v, i, name))
<1> DEFINE n == Key(v, name)
           u == Removed(v, n)
           w == Aliased(v, i, name)
<1>1. n \in Names /\ Key(v, n) = n
  BY KeyType, NamesAssumption DEF Key, Inv
<1>2. /\ Inv(u) /\ ~Known(u, n) /\ u.nextIndex = v.nextIndex
      /\ \A j \in Indices : u.byIndex[j] \in {v.byIndex[j], NoName}
      /\ u.byIndex[i] = v.byIndex[i]
  BY <1>1, RemovedInv
<1>3. w = [u EXCEPT !.byName = Bind(u.byName, n, i)]
  BY DEF Aliased
<1> HIDE DEF u
<1>4. Bind(u.byName, n, i) \in Partial(Names, Indices \cup {0})
  BY <1>1, <1>2, BindType DEF Inv, Vocabularies
<1>5. /\ w \in Vocabularies /\ w.byName = Bind(u.byName, n, i)
      /\ w.byIndex = u.byIndex /\ w.nextIndex = u.nextIndex
  BY <1>2, <1>3, <1>4 DEF Inv, Vocabularies
<1> HIDE DEF w, n
<1>6. RoundTrips(w)
  BY <1>2, <1>5 DEF Bind, Known, Inv, RoundTrips
<1>7. OwnNames(v) => OwnNames(u)
  BY <1>1, RemovedOwn DEF u
<1>8. OwnNames(u) /\ n \in AliasNames => OwnNames(w)
  BY <1>5 DEF Bind, OwnNames, Full
<1> QED
  BY <1>2, <1>5, <1>6, <1>7, <1>8 DEF Inv, u, w, n

-----------------------------------------------------------------------------

(* The two maps of a vocabulary are in step.                                 *)
Good(v) == Inv(v) /\ OwnNames(v)

LEMMA EmptyGood == Good(Empty) /\ Empty.nextIndex = Start /\ Empty.toLower = FALSE
<1>1. [n \in {} |-> 0] \in Partial(Names, Indices \cup {0})
  <2>1. [n \in {} |-> 0] \in [{} -> Indices \cup {0}]
    OBVIOUS
  <2> QED
    BY <2>1 DEF Partial
<1>2. [n \in {} |-> 0] \in Partial(Indices, Nat)
  <2>1. [n \in {} |-> 0] \in [{} -> Nat]
    OBVIOUS
  <2> QED
    BY <2>1 DEF Partial
<1>3. Empty \in Vocabularies
  BY <1>1, <1>2, RangeAssumption DEF Empty, Vocabularies
<1>4. \A j \in Indices : Empty.byIndex[j] = NoName
  BY DEF Empty
<1>5. DOMAIN Empty.byName = {}
  BY DEF Empty
<1> QED
  BY <1>3, <1>4, <1>5 DEF Good, Inv, RoundTrips, OwnNames, Empty

LEMMA AddedGood ==
    ASSUME NEW v, Good(v), NEW name \in Names
    PROVE  Good(Added(v, name))
BY AddedInv, AddedOwn DEF Good

LEMMA DroppedGood ==
    ASSUME NEW v, Good(v), NEW i \in Indices, v.byIndex[i] # NoName
    PROVE  Good(Dropped(v, i))
BY DroppedInv, DroppedOwn DEF Good

(* Fields other than the two maps do not matter.                             *)
LEMMA SameMaps ==
    ASSUME NEW v, Good(v), NEW w \in Vocabularies,
           w.byName = v.byName, w.byIndex = v.byIndex, w.nextIndex = v.nextIndex
    PROVE  Good(w)
BY DEF Good, Inv, RoundTrips, Known, OwnNames, Full

(* The constructor leaves four words under their own names.                  *)
LEMMA ConstructedGood ==
    /\ Good(Constructed) /\ ResolvesBut(Constructed, {})
    /\ Constructed.nextIndex <= Start + 4
    /\ Constructed.byIndex[Start] # NoName
    /\ Constructed.special["unk"] = Start
<1> DEFINE Built(v, n) == /\ Inv(v) /\ ResolvesBut(v, {})
                          /\ v.nextIndex \in Start .. Start + n
                          /\ v.toLower = FALSE
<1>1. ASSUME NEW v, NEW n \in 0 .. 3, Built(v, n), NEW name \in Names
      PROVE  /\ Built(Added(v, name), n + 1)
             /\ \A j \in Indices : j < v.nextIndex => Added(v, name).byIndex[j] = v.byIndex[j]
  <2>1. ~Full(v)
    BY <1>1, RangeAssumption DEF Full
  <2>2. ResolvesBut(Added(v, name), {})
    BY <1>1, <2>1, AddedResolves
  <2>3. /\ Inv(Added(v, name)) /\ Added(v, name).toLower = v.toLower
        /\ Added(v, name).nextIndex \in {v.nextIndex, v.nextIndex + 1}
        /\ \A j \in Indices : j < v.nextIndex => Added(v, name).byIndex[j] = v.byIndex[j]
    BY <1>1, AddedInv
  <2>4. Added(v, name).nextIndex \in Start .. Start + (n + 1)
    BY <1>1, <2>3, RangeAssumption
  <2> QED
    BY <1>1, <2>2, <2>3, <2>4
<1> DEFINE v1 == Added(Empty, Unknown)
           v2 == Added(v1, SentStart)
           v3 == Added(v2, SentEnd)
           v4 == Added(v3, Pause)
<1>2. Built(Empty, 0)
  BY EmptyGood, RangeAssumption DEF Good, ResolvesBut, Empty
<1>3. v1.byIndex[Start] = Unknown /\ v1.nextIndex = Start + 1
  <2>1. Key(Empty, Unknown) = Unknown /\ ~Known(Empty, Unknown) /\ ~Full(Empty) /\ Empty.nextIndex = Start
    BY RangeAssumption DEF Empty, Key, Known, Full
  <2>2. v1 = Assigned(Empty, Unknown, Empty.nextIndex)
    BY <2>1 DEF Added
  <2>3. /\ v1.byIndex = [Empty.byIndex EXCEPT ![Start] = Unknown]
        /\ v1.nextIndex = Start + 1 /\ Start \in Indices
    BY <1>2, <2>1, <2>2, AssignedFields, RangeAssumption DEF Inv
  <2> QED
    BY <2>3 DEF Empty
<1> HIDE DEF v1, v2, v3, v4, Built
<1>4. Start \in Indices
  BY RangeAssumption DEF Indices
<1>5. Built(v1, 1)
  BY <1>1, <1>2, RangeAssumption DEF v1
<1>6. Built(v2, 2) /\ v2.byIndex[Start] = Unknown /\ v2.nextIndex > Start
  <2>1. Start < v1.nextIndex
    BY <1>3, RangeAssumption
  <2>2. Built(v2, 2) /\ v2.byIndex[Start] = Unknown
    BY <1>1, <1>3, <1>4, <1>5, <2>1, RangeAssumption DEF v2
  <2>3. v2.nextIndex \in {v1.nextIndex, v1.nextIndex + 1}
    BY <1>5, AddedInv, RangeAssumption DEF v2, Built
  <2> QED
    BY <1>3, <2>2, <2>3, RangeAssumption
<1>7. Built(v3, 3) /\ v3.byIndex[Start] = Unknown /\ v3.nextIndex > Start
  <2>2. Built(v3, 3) /\ v3.byIndex[Start] = Unknown
    BY <1>1, <1>4, <1>6, RangeAssumption DEF v3
  <2>3. v3.nextIndex \in {v2.nextIndex, v2.nextIndex + 1}
    BY <1>6, AddedInv, RangeAssumption DEF v3, Built
  <2>4. v2.nextIndex \in Nat
    BY <1>6, RangeAssumption DEF Built
  <2> QED
    BY <1>6, <2>2, <2>3, <2>4, RangeAssumption
<1>8. Built(v4, 4) /\ v4.byIndex[Start] = Unknown
  BY <1>1, <1>4, <1>7, RangeAssumption DEF v4
<1>9. /\ [unk |-> Start, ss |-> Start + 1, se |-> Start + 2, pause |-> Start + 3]
            \in [{"unk", "ss", "se", "pause"} -> Indices \cup {0, None}]
      /\ {Start + 1, Start + 3} \in SUBSET Indices
  BY RangeAssumption DEF Indices
<1> DEFINE c == [v4 EXCEPT !.special = [unk |-> Start, ss |-> Start + 1, se |-> Start + 2, pause |-> Start + 3],
                           !.nonEvents = {Start + 1, Start + 3}]
<1>10. /\ c \in Vocabularies /\ c.byName = v4.byName /\ c.byIndex = v4.byIndex
       /\ c.nextIndex = v4.nextIndex /\ c.special["unk"] = Start
  BY <1>8, <1>9 DEF Vocabularies, Built, Inv
<1>11. Constructed = c
  BY DEF Constructed, v1, v2, v3, v4
<1> HIDE DEF c
<1>12. ResolvesBut(c, {}) /\ OwnNames(c) /\ RoundTrips(c)
  BY <1>8, <1>10 DEF Built, Inv, RoundTrips, Known, ResolvesBut, OwnNames
<1> QED
  BY <1>8, <1>10, <1>11, <1>12, RangeAssumption, NamesAssumption DEF Good, Inv, Built

(* Option -map-unk keeps the maps in step.                                   *)
LEMMA MapUnknownGood ==
    ASSUME NEW v \in Vocabularies, v.byName = Constructed.byName, v.byIndex = Constructed.byIndex,
           v.nextIndex = Constructed.nextIndex, v.special = Constructed.special,
           NEW name \in Names
    PROVE  Good(MapUnknown(v, name))
<1> DEFINE rest == Dropped(v, Start)
           u == Added(rest, name)
<1>1. Good(v) /\ v.byIndex[Start] # NoName /\ v.special["unk"] = Start /\ Start \in Indices
  BY ConstructedGood, SameMaps, RangeAssumption DEF Indices
<1>5. Good(rest)
  BY <1>1, DroppedGood
<1>6. ~Full(rest)
  <2>1. rest.nextIndex = v.nextIndex
    BY <1>1, DroppedFields
  <2> QED
    BY <2>1, ConstructedGood, RangeAssumption DEF Full, Vocabularies
<1>7. Good(u)
  BY <1>5, AddedGood
<1>8. AddedIndex(rest, name) \in Indices \cup {0, None}
  <2>1. Key(rest, name) \in Names /\ rest \in Vocabularies
    BY <1>5, KeyType DEF Good, Inv
  <2>2. \A m \in DOMAIN rest.byName : rest.byName[m] \in Indices \cup {0}
    BY <2>1 DEF Vocabularies, Partial
  <2>3. ~Full(rest) => rest.nextIndex \in Indices
    BY <2>1, RangeAssumption DEF Vocabularies, Full, Indices
  <2> QED
    BY <1>6, <2>2, <2>3 DEF AddedIndex, Known
<1> DEFINE w == [u EXCEPT !.special = [@ EXCEPT !["unk"] = AddedIndex(rest, name)]]
<1>9. MapUnknown(v, name) = w
  BY <1>1 DEF MapUnknown
<1> HIDE DEF u, rest
<1>10. /\ w \in Vocabularies /\ w.byName = u.byName /\ w.byIndex = u.byIndex
       /\ w.nextIndex = u.nextIndex
  BY <1>7, <1>8 DEF Good, Inv, Vocabularies
<1> HIDE DEF w
<1> QED
  BY <1>7, <1>9, <1>10, SameMaps

-----------------------------------------------------------------------------

(* The inductive invariant.                                                  *)
IInv == Good(vocab) /\ fault \in BOOLEAN

LEMMA InitIInv == Init => IInv
<1> SUFFICES ASSUME Init PROVE IInv
  OBVIOUS
<1>1. PICK lower \in BOOLEAN, meta \in BOOLEAN :
          LET v == [Constructed EXCEPT !.toLower = lower]
          IN  \/ vocab = [v EXCEPT !.metaTag = meta]
              \/ \E n \in WordArgs : vocab = [MapUnknown(v, n) EXCEPT !.metaTag = meta]
  BY DEF Init
<1> DEFINE v == [Constructed EXCEPT !.toLower = lower]
<1>2. /\ v \in Vocabularies /\ v.byName = Constructed.byName /\ v.byIndex = Constructed.byIndex
      /\ v.nextIndex = Constructed.nextIndex /\ v.special = Constructed.special
  BY ConstructedGood DEF Good, Inv, Vocabularies
<1>3. ASSUME NEW u, Good(u), vocab = [u EXCEPT !.metaTag = meta]
      PROVE  Good(vocab)
  <2>1. /\ vocab \in Vocabularies /\ vocab.byName = u.byName /\ vocab.byIndex = u.byIndex
        /\ vocab.nextIndex = u.nextIndex
    BY <1>3 DEF Good, Inv, Vocabularies
  <2> QED
    BY <1>3, <2>1, SameMaps
<1>4. Good(v) /\ \A n \in WordArgs : Good(MapUnknown(v, n))
  BY <1>2, ConstructedGood, SameMaps, MapUnknownGood, NamesAssumption
<1>5. Good(vocab)
  BY <1>1, <1>3, <1>4
<1> QED
  BY <1>5 DEF Init, IInv

(* Every call keeps the invariant, and no index changes its word.            *)
Stable ==
    /\ vocab'.nextIndex >= vocab.nextIndex
    /\ \A i \in Start .. vocab.nextIndex - 1 : vocab'.byIndex[i] \in {vocab.byIndex[i], NoName}

LEMMA StepIInv == IInv /\ [Next]_vars => IInv' /\ Stable
<1> SUFFICES ASSUME IInv, [Next]_vars PROVE IInv' /\ Stable
  OBVIOUS
<1>1. /\ vocab \in Vocabularies /\ Inv(vocab) /\ vocab.nextIndex \in Start .. End
      /\ Start .. vocab.nextIndex - 1 \subseteq Indices
  BY RangeAssumption DEF IInv, Good, Inv, Vocabularies, Indices
<1>2. ASSUME NEW w, Good(w), vocab' = w, w.nextIndex \in {vocab.nextIndex, vocab.nextIndex + 1},
             fault' \in BOOLEAN,
             \A j \in Indices : j < vocab.nextIndex => w.byIndex[j] \in {vocab.byIndex[j], NoName}
      PROVE  IInv' /\ Stable
  <2>1. Good(vocab)'
    BY <1>2 DEF Good, Inv, RoundTrips, Known, OwnNames, Full
  <2>2. \A j \in Start .. vocab.nextIndex - 1 : j \in Indices /\ j < vocab.nextIndex
    BY <1>1, RangeAssumption DEF Indices
  <2> QED
    BY <1>1, <1>2, <2>1, <2>2, RangeAssumption DEF IInv, Stable
<1>3. ASSUME UNCHANGED vocab, fault' \in BOOLEAN
      PROVE  IInv' /\ Stable
  BY <1>1, <1>2, <1>3 DEF IInv
<1>4. ASSUME NEW n \in Names, vocab' = Added(vocab, n), UNCHANGED fault
      PROVE  IInv' /\ Stable
  BY <1>1, <1>2, <1>4, AddedGood, AddedInv DEF IInv
<1>5. ASSUME NEW i \in Indices, vocab.byIndex[i] # NoName,
             vocab' = Dropped(vocab, i), UNCHANGED fault
      PROVE  IInv' /\ Stable
  <2>1. Good(Dropped(vocab, i))
    BY <1>5, DroppedGood DEF IInv
  <2>2. /\ Dropped(vocab, i).nextIndex = vocab.nextIndex
        /\ Dropped(vocab, i).byIndex = [vocab.byIndex EXCEPT ![i] = NoName]
    BY <1>1, DroppedFields
  <2> QED
    BY <1>1, <1>2, <1>5, <2>1, <2>2 DEF IInv, Vocabularies
<1>6. ASSUME NEW n \in WordArgs, AddWord(n)
      PROVE  IInv' /\ Stable
  BY <1>4, <1>6, NamesAssumption DEF AddWord
<1>7. ASSUME NEW n \in WordArgs, GetIndex(n)
      PROVE  IInv' /\ Stable
  BY <1>3, <1>4, <1>7, NamesAssumption DEF GetIndex, IInv
<1>8. ASSUME NEW i \in Start .. vocab.nextIndex - 1, NEW name \in AliasNames, AddWordAlias(i, name)
      PROVE  IInv' /\ Stable
  <2> DEFINE n == Key(vocab, name)
             proceeds == vocab.byIndex[i] # NoName /\ n # vocab.byIndex[i]
  <2>1. i \in Indices /\ name \in Names /\ n \in Names /\ n \in AliasNames /\ Key(vocab, n) = n
    BY <1>1, <1>8, NamesAssumption, KeyType DEF Key, Vocabularies
  <2>2. fault' = (proceeds /\ RemoveFaults(vocab, n)) /\ fault' \in BOOLEAN
    BY <1>8 DEF AddWordAlias
  <2>4. CASE proceeds /\ ~fault'
    <3>1. /\ Inv(Aliased(vocab, i, name)) /\ Aliased(vocab, i, name).nextIndex = vocab.nextIndex
          /\ \A j \in Indices : Aliased(vocab, i, name).byIndex[j] \in {vocab.byIndex[j], NoName}
          /\ OwnNames(Aliased(vocab, i, name))
      BY <1>1, <2>1, <2>4, AliasedInv DEF IInv, Good
    <3>2. vocab' = Aliased(vocab, i, name)
      BY <1>8, <2>4 DEF AddWordAlias
    <3> QED
      BY <1>2, <2>2, <3>1, <3>2 DEF Good
  <2>5. CASE ~(proceeds /\ ~fault')
    <3>1. UNCHANGED vocab
      BY <1>8, <2>5 DEF AddWordAlias
    <3> QED
      BY <1>3, <2>2, <3>1
  <2> QED
    BY <2>4, <2>5
<1>9. ASSUME NEW name \in RemoveArgs \cap Names, RemoveName(name)
      PROVE  IInv' /\ Stable
  <2> DEFINE n == Key(vocab, name)
  <2>1. fault' = RemoveFaults(vocab, name) /\ n \in Names
    BY <1>1, <1>9, KeyType DEF RemoveName
  <2>2. fault' \in BOOLEAN
    BY <2>1 DEF RemoveFaults, Known
  <2>3. CASE fault'
    BY <1>3, <1>9, <2>2, <2>3 DEF RemoveName
  <2>4. CASE ~fault'
    <3>1. /\ Inv(Removed(vocab, name)) /\ Removed(vocab, name).nextIndex = vocab.nextIndex
          /\ \A j \in Indices : Removed(vocab, name).byIndex[j] \in {vocab.byIndex[j], NoName}
      BY <1>1, <1>9, RemovedInv
    <3>2. OwnNames(Removed(vocab, name))
      BY <1>1, <1>9, RemovedOwn DEF IInv, Good
    <3>3. vocab' = Removed(vocab, name)
      BY <1>9, <2>4 DEF RemoveName
    <3> QED
      BY <1>2, <2>2, <3>1, <3>2, <3>3 DEF Good
  <2> QED
    BY <2>3, <2>4
<1>10. ASSUME NEW i \in Indices \cap RemoveArgs, RemoveIndex(i)
       PROVE  IInv' /\ Stable
  <2>1. i \in Defined(vocab) => vocab.byIndex[i] # NoName
    BY DEF Defined, GetWord
  <2> QED
    BY <1>3, <1>5, <1>10, <2>1 DEF RemoveIndex, IInv
<1>11. ASSUME NEW E \in SUBSET Indices, vocab' = [vocab EXCEPT !.nonEvents = E], UNCHANGED fault
       PROVE  IInv' /\ Stable
  <2> DEFINE w == [vocab EXCEPT !.nonEvents = E]
  <2>1. /\ w \in Vocabularies /\ w.byName = vocab.byName /\ w.byIndex = vocab.byIndex
        /\ w.nextIndex = vocab.nextIndex
    BY <1>1 DEF Vocabularies
  <2>2. Good(w)
    BY <2>1, SameMaps DEF IInv
  <2> QED
    BY <1>2, <1>11, <2>1, <2>2 DEF IInv
<1>12. ASSUME NEW i \in Indices, AddNonEvent(i)
       PROVE  IInv' /\ Stable
  <2>1. vocab.nonEvents \cup {i} \in SUBSET Indices
    BY <1>1, <1>12 DEF Vocabularies
  <2> QED
    BY <1>3, <1>11, <1>12, <2>1 DEF AddNonEvent, IInv
<1>13. ASSUME NEW i \in Indices, RemoveNonEvent(i)
       PROVE  IInv' /\ Stable
  <2>1. vocab.nonEvents \ {i} \in SUBSET Indices
    BY <1>1, <1>13 DEF Vocabularies
  <2> QED
    BY <1>3, <1>11, <1>13, <2>1 DEF RemoveNonEvent, IInv
<1>14. CASE UNCHANGED vars
  BY <1>3, <1>14 DEF vars, IInv
<1> QED
  BY <1>6, <1>7, <1>8, <1>9, <1>10, <1>12, <1>13, <1>14 DEF Next

(* In every reachable state the invariant holds.                             *)
THEOREM Invariance == Spec => []IInv
<1>1. IInv /\ [Next]_vars => IInv'
  BY StepIInv
<1> QED
  BY <1>1, InitIInv, PTL DEF Spec

(* Each field of the vocabulary keeps its type, whatever is called.          *)
THEOREM TypeCorrect == Spec => []TypeOK
<1>1. IInv => TypeOK
  BY DEF IInv, Good, Inv, TypeOK, VocabType, Vocabularies, Partial
<1> QED
  BY <1>1, Invariance, PTL

(* From an index to its word and back is the identity, and so it is from a   *)
(* string that is no alias, unless it came when the range was full (addWord, *)
(* addWordAlias and both remove()s).                                         *)
THEOREM MapsInStep == Spec => []RoundTrip
<1>1. IInv => RoundTrip
  BY DEF IInv, Good, Inv, RoundTrip
<1> QED
  BY <1>1, Invariance, PTL

(* No call makes an index stand for another word.                            *)
THEOREM IndicesStable == Spec => IndexStable
<1>1. IInv /\ [Next]_vars => [Stable]_vars
  BY StepIInv
<1>2. Spec => [][Stable]_vars
  BY <1>1, Invariance, PTL DEF Spec
<1> QED
  BY <1>2 DEF IndexStable, Stable

-----------------------------------------------------------------------------
(* The tags, and the index maps of files. *)

(* Every set of natural numbers that is not empty has a least element.      *)
LEMMA LeastElement ==
    ASSUME NEW T \in SUBSET Nat, T # {}
    PROVE  \E x \in T : \A y \in T : x <= y
<1> DEFINE R == OpToRel(<, Nat)
<1>1. IsWellFoundedOn(R, Nat)
  BY NatLessThanWellFounded
<1>2. PICK x \in T : \A y \in T : ~(<<y, x>> \in R)
  <2> HIDE DEF R
  <2> QED
    BY <1>1, WFMin
<1>3. \A y \in T : ~(y < x)
  BY <1>2 DEF OpToRel
<1> HIDE DEF R
<1> QED
  BY <1>3, SMT

(* Induction over a range, with the set of the numbers that are good.       *)
LEMMA RangeInduction ==
    ASSUME NEW a \in Nat, NEW b \in Nat, NEW T \in SUBSET Nat, a <= b, a \in T,
           \A i \in a .. b - 1 : i \in T => i + 1 \in T
    PROVE  a .. b \subseteq T
<1> DEFINE Bad == (a .. b) \ T
<1>1. SUFFICES ASSUME Bad # {} PROVE FALSE
  OBVIOUS
<1>2. Bad \in SUBSET Nat
  OBVIOUS
<1>3. PICK x \in Bad : \A y \in Bad : x <= y
  <2> HIDE DEF Bad
  <2> QED
    BY <1>1, <1>2, LeastElement
<1>4. x \in a .. b /\ x \notin T /\ x # a
  BY <1>3
<1>5. x - 1 \in a .. b - 1 /\ x - 1 \notin Bad
  <2>1. x \in Int /\ a < x
    BY <1>4
  <2>2. \A y \in Bad : x <= y
    BY <1>3
  <2> HIDE DEF Bad
  <2>3. ~(x <= x - 1)
    BY <2>1
  <2>4. x - 1 \notin Bad
    BY <2>2, <2>3
  <2> QED
    BY <1>4, <2>1, <2>4
<1>6. x - 1 \in T
  BY <1>5
<1> QED
  BY <1>4, <1>5, <1>6

(* readIndexMap() goes through the lines one by one.                         *)
LEMMA ReadByLines ==
    ASSUME NEW v, NEW file
    PROVE  \E read :
              /\ read[Start] = [vocab |-> v, map |-> [j \in {} |-> 0]]
              /\ \A i \in Start .. End - 1 :
                    read[i + 1] = IF i \in DOMAIN file THEN ReadLine(read[i], i, file[i]) ELSE read[i]
              /\ ReadIndexMap(v, file) = read[End]
<1> DEFINE Empty0 == [vocab |-> v, map |-> [j \in {} |-> 0]]
           After(r, i) == IF i \in DOMAIN file THEN ReadLine(r, i, file[i]) ELSE r
           Follows(g, k) == /\ DOMAIN g = Start .. k /\ g[Start] = Empty0
                            /\ \A i \in Start .. k - 1 : g[i + 1] = After(g[i], i)
           T == {k \in Start .. End : \E g : g = [i \in Start .. k |-> g[i]] /\ Follows(g, k)}
<1>1. Start \in Nat /\ End \in Nat /\ Start <= End
  BY RangeAssumption
<1> HIDE DEF Empty0, After
<1>2. Start \in T
  <2> DEFINE g == [i \in Start .. Start |-> Empty0]
  <2>1. g = [i \in Start .. Start |-> g[i]] /\ Follows(g, Start)
    BY <1>1
  <2> HIDE DEF Follows, g
  <2> QED
    BY <1>1, <2>1
<1>3. ASSUME NEW k \in Start .. End - 1, k \in T
      PROVE  k + 1 \in T
  <2>1. PICK g : Follows(g, k)
    BY <1>3
  <2> DEFINE h == [i \in Start .. k + 1 |-> IF i = k + 1 THEN After(g[k], k) ELSE g[i]]
  <2>2. h = [i \in Start .. k + 1 |-> h[i]]
    OBVIOUS
  <2>3. DOMAIN h = Start .. k + 1 /\ h[Start] = Empty0
    BY <1>1, <1>3, <2>1
  <2>4. ASSUME NEW i \in Start .. k
        PROVE  h[i + 1] = After(h[i], i)
    <3>1. i \in Start .. k + 1 /\ i + 1 \in Start .. k + 1 /\ i # k + 1 /\ h[i] = g[i]
      BY <1>1, <1>3
    <3> QED
      BY <1>1, <1>3, <2>1, <2>4, <3>1
  <2>5. Start .. (k + 1) - 1 = Start .. k
    BY <1>1, <1>3
  <2> HIDE DEF h
  <2>6. Follows(h, k + 1)
    BY <2>3, <2>4, <2>5
  <2> HIDE DEF Follows
  <2>7. k + 1 \in Start .. End
    BY <1>1, <1>3
  <2> QED
    BY <2>2, <2>6, <2>7
<1>4. End \in T
  <2>1. T \in SUBSET Nat
    BY <1>1
  <2> HIDE DEF T
  <2>2. \A i \in Start .. End - 1 : i \in T => i + 1 \in T
    BY <1>3
  <2>3. Start .. End \subseteq T
    BY <1>1, <1>2, <2>1, <2>2, RangeInduction
  <2> QED
    BY <1>1, <2>3
<1> DEFINE Body(g) == [i \in Start .. End |->
                          IF i = Start THEN Empty0
                          ELSE IF i - 1 \in DOMAIN file THEN ReadLine(g[i - 1], i - 1, file[i - 1])
                          ELSE g[i - 1]]
<1>5. \E g : g = Body(g)
  <2>1. PICK g : g = [i \in Start .. End |-> g[i]] /\ Follows(g, End)
    BY <1>4
  <2>2. ASSUME NEW i \in Start .. End
        PROVE  g[i] = Body(g)[i]
    <3>1. CASE i = Start
      BY <2>1, <3>1
    <3>2. CASE i # Start
      <4>1. i - 1 \in Start .. End - 1 /\ (i - 1) + 1 = i
        BY <1>1, <3>2
      <4>2. g[i] = After(g[i - 1], i - 1)
        BY <2>1, <4>1
      <4> QED
        BY <3>2, <4>2 DEF After
    <3> QED
      BY <3>1, <3>2
  <2>3. g = Body(g)
    BY <2>1, <2>2
  <2> HIDE DEF Body
  <2> QED
    BY <2>3
<1> DEFINE read == CHOOSE g : g = Body(g)
<1>6. read = Body(read)
  <2> HIDE DEF Body
  <2> QED
    BY <1>5
<1>7. ReadIndexMap(v, file) = read[End]
  BY DEF ReadIndexMap, Empty0
<1> HIDE DEF read
<1>8. read[Start] = Empty0
  BY <1>1, <1>6
<1>9. \A i \in Start .. End - 1 : read[i + 1] = After(read[i], i)
  <2> TAKE i \in Start .. End - 1
  <2>1. i + 1 \in Start .. End /\ i + 1 # Start /\ (i + 1) - 1 = i
    BY <1>1
  <2> QED
    BY <1>6, <2>1 DEF After
<1> QED
  BY <1>7, <1>8, <1>9 DEF After, Empty0

Specials == {Unknown, SentStart, SentEnd, Pause}

\* The indices that have a word.
Named(v) == {i \in Indices : v.byIndex[i] # NoName}

\* What hangs beside the maps is about words that are there.
TagsNamed(v) ==
    /\ v.nonEvents \subseteq Named(v)
    /\ \A i \in DOMAIN v.metaTags :
          /\ i \in Named(v)
          /\ v.byIndex[i] \in DOMAIN MetaType /\ v.metaTags[i] = MetaType[v.byIndex[i]]
    /\ \A s \in DOMAIN v.special : v.special[s] \in Named(v) \cup {None}

\* The lowest indices are those of the special words, and nobody else's.
Placed(v) ==
    /\ v.nextIndex >= Start + 4
    /\ \A i \in Named(v) : i < Start + 4 => v.byIndex[i] \in Specials

\* mapToLower leaves the words as they are.
Lowered(v) == v.toLower => \A i \in Named(v) : Lower[v.byIndex[i]] = v.byIndex[i]

Marked(v) == TagsNamed(v) /\ Placed(v) /\ Lowered(v)

(* For getWord() an index is defined if it has a word.                       *)
LEMMA NamedDefined ==
    ASSUME NEW v, Inv(v)
    PROVE  /\ Defined(v) = Named(v)
           /\ \A i \in Named(v) : i < v.nextIndex /\ GetWord(v, i) = v.byIndex[i]
BY RangeAssumption DEF Inv, Vocabularies, RoundTrips, Named, Defined, GetWord, Indices

(* The strings are of no matter.                                             *)
LEMMA SameMarks ==
    ASSUME NEW v, Marked(v), NEW w,
           w.byIndex = v.byIndex, w.nextIndex = v.nextIndex, w.nonEvents = v.nonEvents,
           w.metaTags = v.metaTags, w.special = v.special, w.toLower = v.toLower
    PROVE  Marked(w)
BY DEF Marked, TagsNamed, Placed, Lowered, Named

(* A new word: its index had none before.                                    *)
LEMMA AssignedMarked ==
    ASSUME NEW v, Inv(v), Marked(v), NEW n \in Names, ~Full(v), v.toLower => Lower[n] = n
    PROVE  Marked(Assigned(v, n, v.nextIndex))
<1> DEFINE x == v.nextIndex
           w == Assigned(v, n, x)
<1>1. /\ x \in Indices /\ w.byIndex = [v.byIndex EXCEPT ![x] = n]
      /\ w.nextIndex = x + 1 /\ w.toLower = v.toLower
  BY AssignedFields DEF Inv
<1>2. /\ w.nonEvents = v.nonEvents /\ w.special = v.special
      /\ w.metaTags = IF Interned(v, n) THEN Bind(v.metaTags, x, MetaType[n]) ELSE v.metaTags
  BY DEF Assigned, Inv, Vocabularies
<1>3. v.byIndex \in [Indices -> Names \cup {NoName}] /\ Indices \subseteq Nat /\ NoName \notin Names
  BY RangeAssumption, NamesAssumption DEF Inv, Vocabularies, Indices
<1>4. \A i \in Named(v) : i < x
  BY NamedDefined
<1> HIDE DEF w, x
<1>5. \A i \in Named(v) : i # x /\ i \in Named(w) /\ w.byIndex[i] = v.byIndex[i]
  BY <1>1, <1>3, <1>4 DEF Named
<1>6. x \in Named(w) /\ w.byIndex[x] = n
  BY <1>1, <1>3 DEF Named
<1>7. Named(w) = Named(v) \cup {x}
  BY <1>1, <1>3, <1>5, <1>6 DEF Named
<1>8. TagsNamed(w)
  <2>1. w.nonEvents \subseteq Named(w) /\ \A s \in DOMAIN w.special : w.special[s] \in Named(w) \cup {None}
    BY <1>2, <1>7 DEF Marked, TagsNamed
  <2>2. ASSUME NEW i \in DOMAIN w.metaTags
        PROVE  /\ i \in Named(w) /\ w.byIndex[i] \in DOMAIN MetaType
               /\ w.metaTags[i] = MetaType[w.byIndex[i]]
    <3>1. CASE i \in DOMAIN v.metaTags
      <4>1. /\ i \in Named(v) /\ v.byIndex[i] \in DOMAIN MetaType
            /\ v.metaTags[i] = MetaType[v.byIndex[i]]
        BY <3>1 DEF Marked, TagsNamed
      <4>2. i # x /\ i \in Named(w) /\ w.byIndex[i] = v.byIndex[i]
        BY <1>5, <4>1
      <4>3. w.metaTags[i] = v.metaTags[i]
        BY <1>2, <3>1, <4>2 DEF Bind
      <4> QED
        BY <4>1, <4>2, <4>3
    <3>2. CASE i \notin DOMAIN v.metaTags
      <4>1. Interned(v, n) /\ i = x
        BY <1>2, <2>2, <3>2 DEF Bind
      <4>2. w.metaTags[i] = MetaType[n]
        BY <1>2, <4>1 DEF Bind
      <4> QED
        BY <1>6, <4>1, <4>2 DEF Interned
    <3> QED
      BY <3>1, <3>2
  <2> QED
    BY <2>1, <2>2 DEF TagsNamed
<1>9. Placed(w)
  <2>1. x >= Start + 4 /\ x \in Nat
    BY <1>1, <1>3 DEF Marked, Placed, x
  <2>2. w.nextIndex >= Start + 4 /\ ~(x < Start + 4)
    BY <1>1, <2>1, RangeAssumption
  <2> QED
    BY <1>5, <1>7, <2>2 DEF Marked, Placed
<1>10. Lowered(w)
  BY <1>1, <1>5, <1>6, <1>7 DEF Marked, Lowered
<1> QED
  BY <1>8, <1>9, <1>10 DEF Marked, w, x

(* mapToLower leaves what it returns as it is.                               *)
LEMMA LowerKey ==
    ASSUME NEW v \in Vocabularies, NEW name \in Names
    PROVE  v.toLower => Lower[Key(v, name)] = Key(v, name)
BY NamesAssumption DEF Key, Vocabularies

(* The operations keep the tags in order.                                    *)
LEMMA AddedMarked ==
    ASSUME NEW v, Inv(v), Marked(v), NEW name \in Names
    PROVE  Marked(Added(v, name))
<1> DEFINE n == Key(v, name)
<1>1. n \in Names /\ (v.toLower => Lower[n] = n)
  BY KeyType, LowerKey DEF Inv
<1>2. CASE Known(v, n)
  BY <1>2 DEF Added
<1>3. CASE ~Known(v, n) /\ Full(v)
  <2>1. Added(v, name) = [v EXCEPT !.byName = Bind(@, n, 0)]
    BY <1>3 DEF Added
  <2> QED
    BY <2>1, SameMarks DEF Inv, Vocabularies
<1>4. CASE ~Known(v, n) /\ ~Full(v)
  BY <1>1, <1>4, AssignedMarked DEF Added
<1> QED
  BY <1>2, <1>3, <1>4

LEMMA DroppedMarked ==
    ASSUME NEW v \in Vocabularies, Marked(v), NEW i
    PROVE  Marked(Dropped(v, i))
<1> DEFINE w == Dropped(v, i)
<1>1. /\ w.byIndex = [v.byIndex EXCEPT ![i] = NoName] /\ w.nextIndex = v.nextIndex
      /\ w.toLower = v.toLower
  BY DroppedFields
<1>2. /\ w.nonEvents = v.nonEvents \ {i} /\ w.metaTags = Unbind(v.metaTags, i)
      /\ w.special = [s \in DOMAIN v.special |-> IF v.special[s] = i THEN None ELSE v.special[s]]
  BY DEF Dropped, Vocabularies
<1>3. v.byIndex \in [Indices -> Names \cup {NoName}]
  BY DEF Vocabularies
<1> HIDE DEF w
<1>4. Named(w) = Named(v) \ {i} /\ \A j \in Named(w) : w.byIndex[j] = v.byIndex[j]
  BY <1>1, <1>3 DEF Named
<1>5. TagsNamed(w)
  BY <1>2, <1>4 DEF Marked, TagsNamed, Unbind
<1>6. Placed(w) /\ Lowered(w)
  BY <1>1, <1>4 DEF Marked, Placed, Lowered
<1> QED
  BY <1>5, <1>6 DEF Marked, w

LEMMA RemovedMarked ==
    ASSUME NEW v \in Vocabularies, Marked(v), NEW name
    PROVE  Marked(Removed(v, name))
<1> DEFINE n == Key(v, name)
<1>1. CASE Known(v, n) /\ GetWord(v, v.byName[n]) # n
  <2>1. Removed(v, name) = [v EXCEPT !.byName = Unbind(@, n)]
    BY <1>1 DEF Removed
  <2> QED
    BY <2>1, SameMarks DEF Vocabularies
<1>2. CASE Known(v, n) /\ GetWord(v, v.byName[n]) = n
  BY <1>2, DroppedMarked DEF Removed
<1>3. CASE ~Known(v, n)
  BY <1>3 DEF Removed
<1> QED
  BY <1>1, <1>2, <1>3

LEMMA AliasedMarked ==
    ASSUME NEW v, Inv(v), Marked(v), NEW i, NEW name \in Names
    PROVE  Marked(Aliased(v, i, name))
<1> DEFINE n == Key(v, name)
           u == Removed(v, n)
<1>1. n \in Names
  BY KeyType DEF Inv
<1>2. Marked(u) /\ u \in Vocabularies
  BY <1>1, RemovedMarked, RemovedInv DEF Inv
<1>3. Aliased(v, i, name) = [u EXCEPT !.byName = Bind(u.byName, n, i)]
  BY DEF Aliased
<1> HIDE DEF u
<1> QED
  BY <1>2, <1>3, SameMarks DEF Vocabularies

(* The constructor gives the special words the first four indices.           *)
LEMMA ConstructedFields ==
    /\ Constructed.nextIndex = Start + 4
    /\ DOMAIN Constructed.byName = Specials
    /\ Named(Constructed) = Start .. Start + 3
    /\ \A i \in Start .. Start + 3 : Constructed.byIndex[i] \in Specials
    /\ Constructed.metaTags = [i \in {} |-> 0]
    /\ Constructed.nonEvents = {Start + 1, Start + 3}
    /\ Constructed.special = [unk |-> Start, ss |-> Start + 1, se |-> Start + 2, pause |-> Start + 3]
    /\ Constructed.toLower = FALSE
<1> DEFINE Built(v, k, A) == /\ v \in Vocabularies /\ v.nextIndex = Start + k
                             /\ DOMAIN v.byName = A
                             /\ Named(v) = Start .. Start + k - 1
                             /\ \A i \in Start .. Start + k - 1 : v.byIndex[i] \in Specials
                             /\ v.metaTags = [i \in {} |-> 0]
                             /\ v.toLower = FALSE /\ v.metaTag = FALSE
<1>1. ASSUME NEW v, NEW k \in 0 .. 3, NEW A, Built(v, k, A), NEW n \in Specials \ A
      PROVE  Built(Added(v, n), k + 1, A \cup {n})
  <2> DEFINE w == Added(v, n)
  <2>1. /\ Key(v, n) = n /\ ~Known(v, n) /\ ~Full(v) /\ n \in Names
    BY <1>1, RangeAssumption DEF Key, Known, Full, Specials
  <2>2. w = Assigned(v, n, v.nextIndex)
    BY <2>1 DEF Added
  <2>3. /\ v.nextIndex \in Indices /\ w \in Vocabularies
        /\ w.byName = Bind(v.byName, n, v.nextIndex)
        /\ w.byIndex = [v.byIndex EXCEPT ![v.nextIndex] = n]
        /\ w.nextIndex = v.nextIndex + 1 /\ w.toLower = v.toLower
    BY <1>1, <2>1, <2>2, AssignedFields
  <2>4. w.metaTags = v.metaTags /\ w.metaTag = v.metaTag
    BY <1>1, <2>2 DEF Assigned, Interned, Vocabularies
  <2> HIDE DEF w
  <2>5. v.byIndex \in [Indices -> Names \cup {NoName}] /\ Indices \subseteq Nat /\ n # NoName
    BY <1>1, <2>1, RangeAssumption, NamesAssumption DEF Vocabularies, Indices
  <2>6. w.nextIndex = Start + (k + 1) /\ v.nextIndex = Start + k
    BY <1>1, <2>3, RangeAssumption
  <2>7. Start .. Start + (k + 1) - 1 = (Start .. Start + k - 1) \cup {Start + k}
    BY RangeAssumption
  <2>8. Named(w) = Named(v) \cup {v.nextIndex}
    BY <2>3, <2>5 DEF Named
  <2>9. \A i \in Start .. Start + (k + 1) - 1 : w.byIndex[i] \in Specials
    <3> TAKE i \in Start .. Start + (k + 1) - 1
    <3>1. i = v.nextIndex \/ i \in Start .. Start + k - 1
      BY <2>6, <2>7
    <3>2. i \in Start .. Start + k - 1 => i \in Indices /\ v.byIndex[i] \in Specials
      BY <1>1 DEF Named
    <3> QED
      BY <2>3, <2>5, <3>1, <3>2
  <2>10. DOMAIN w.byName = A \cup {n}
    BY <1>1, <2>3 DEF Bind
  <2> QED
    BY <1>1, <2>3, <2>4, <2>6, <2>7, <2>8, <2>9, <2>10 DEF w
<1>2. Built(Empty, 0, {})
  <2>1. Empty \in Vocabularies /\ Empty.nextIndex = Start + 0 /\ Empty.toLower = FALSE
    BY EmptyGood, RangeAssumption DEF Good, Inv
  <2>2. Start .. Start + 0 - 1 = {}
    BY RangeAssumption
  <2> QED
    BY <2>1, <2>2 DEF Empty, Named
<1> DEFINE v1 == Added(Empty, Unknown)
           v2 == Added(v1, SentStart)
           v3 == Added(v2, SentEnd)
           v4 == Added(v3, Pause)
<1> HIDE DEF Built
<1>3. Built(v1, 1, {Unknown})
  <2>1. Built(v1, 0 + 1, {} \cup {Unknown})
    BY <1>1, <1>2 DEF Specials
  <2> QED
    BY <2>1
<1> HIDE DEF v1
<1>4. Built(v2, 2, {Unknown, SentStart})
  <2>1. SentStart \in Specials \ {Unknown}
    BY RangeAssumption DEF Specials
  <2>2. Built(v2, 1 + 1, {Unknown} \cup {SentStart})
    BY <1>1, <1>3, <2>1
  <2>3. {Unknown} \cup {SentStart} = {Unknown, SentStart}
    OBVIOUS
  <2> QED
    BY <2>2, <2>3
<1> HIDE DEF v2
<1>5. Built(v3, 3, {Unknown, SentStart, SentEnd})
  <2>1. SentEnd \in Specials \ {Unknown, SentStart}
    BY RangeAssumption DEF Specials
  <2>2. Built(v3, 2 + 1, {Unknown, SentStart} \cup {SentEnd})
    BY <1>1, <1>4, <2>1
  <2>3. {Unknown, SentStart} \cup {SentEnd} = {Unknown, SentStart, SentEnd}
    OBVIOUS
  <2> QED
    BY <2>2, <2>3
<1> HIDE DEF v3
<1>6. Built(v4, 4, Specials)
  <2>1. Pause \in Specials \ {Unknown, SentStart, SentEnd}
    BY RangeAssumption DEF Specials
  <2>2. Built(v4, 3 + 1, {Unknown, SentStart, SentEnd} \cup {Pause})
    BY <1>1, <1>5, <2>1
  <2>3. {Unknown, SentStart, SentEnd} \cup {Pause} = Specials
    BY DEF Specials
  <2> QED
    BY <2>2, <2>3
<1>7. Constructed = [v4 EXCEPT !.special = [unk |-> Start, ss |-> Start + 1, se |-> Start + 2, pause |-> Start + 3],
                               !.nonEvents = {Start + 1, Start + 3}]
  BY DEF Constructed, v1, v2, v3, v4
<1> HIDE DEF v4
<1>8. Start .. Start + 4 - 1 = Start .. Start + 3
  BY RangeAssumption
<1> QED
  BY <1>6, <1>7, <1>8 DEF Built, Vocabularies, Named

\* A new vocabulary, after the options.
Fresh(lower, meta) == [Constructed EXCEPT !.toLower = lower, !.metaTag = meta]

(* All that is needed of a new vocabulary.                                   *)
LEMMA FreshGood ==
    ASSUME NEW lower \in BOOLEAN, NEW meta \in BOOLEAN
    PROVE  LET v == Fresh(lower, meta)
           IN  /\ Inv(v) /\ ResolvesBut(v, {}) /\ Marked(v)
               /\ v.nextIndex = Start + 4 /\ v.toLower = lower
               /\ DOMAIN v.byName = Specials
               /\ v.byName = Constructed.byName /\ v.byIndex = Constructed.byIndex
               /\ v.special = Constructed.special
<1> DEFINE v == Fresh(lower, meta)
<1>1. /\ v \in Vocabularies /\ v.byName = Constructed.byName /\ v.byIndex = Constructed.byIndex
      /\ v.nextIndex = Constructed.nextIndex /\ v.special = Constructed.special
      /\ v.nonEvents = Constructed.nonEvents /\ v.metaTags = Constructed.metaTags
      /\ v.toLower = lower
  BY ConstructedGood DEF Fresh, Good, Inv, Vocabularies
<1>2. ResolvesBut(Constructed, {}) /\ Inv(Constructed)
  BY ConstructedGood DEF Good
<1> HIDE DEF v
<1>3. Inv(v) /\ ResolvesBut(v, {})
  BY <1>1, <1>2 DEF Inv, RoundTrips, Known, ResolvesBut
<1>4. Named(v) = Start .. Start + 3
  BY <1>1, ConstructedFields DEF Named
<1>5. TagsNamed(v)
  <2>1. \A s \in {"unk", "ss", "se", "pause"} : v.special[s] \in Start .. Start + 3
    BY <1>1, ConstructedFields, RangeAssumption
  <2>2. DOMAIN v.special = {"unk", "ss", "se", "pause"}
    BY <1>1 DEF Vocabularies
  <2>3. DOMAIN v.metaTags = {}
    BY <1>1, ConstructedFields
  <2>4. v.nonEvents \subseteq Start .. Start + 3
    BY <1>1, ConstructedFields, RangeAssumption
  <2> QED
    BY <1>4, <2>1, <2>2, <2>3, <2>4 DEF TagsNamed
<1>6. Placed(v)
  BY <1>1, <1>4, ConstructedFields, RangeAssumption DEF Placed
<1>7. Lowered(v)
  BY <1>1, <1>4, ConstructedFields, RangeAssumption DEF Lowered, Specials
<1> QED
  BY <1>1, <1>3, <1>5, <1>6, <1>7, ConstructedFields DEF Marked, v

(* Option -map-unk: the special index is that of the other word.             *)
LEMMA MapUnknownMarked ==
    ASSUME NEW lower \in BOOLEAN, NEW meta \in BOOLEAN, NEW name \in Names
    PROVE  Marked(MapUnknown(Fresh(lower, meta), name))
<1> DEFINE v == Fresh(lower, meta)
           rest == Dropped(v, Start)
           n == Key(rest, name)
           u == Added(rest, name)
<1>1. /\ Inv(v) /\ ResolvesBut(v, {}) /\ Marked(v) /\ v.special["unk"] = Start
      /\ v.byIndex[Start] # NoName /\ Start \in Indices /\ v.nextIndex = Start + 4
  BY FreshGood, ConstructedGood, RangeAssumption DEF Indices
<1>2. MapUnknown(v, name) = [u EXCEPT !.special["unk"] = AddedIndex(rest, name)]
  BY <1>1 DEF MapUnknown
<1> HIDE DEF v
<1>3. /\ Inv(rest) /\ Marked(rest) /\ rest.nextIndex = Start + 4
      /\ rest.byName = Unbind(v.byName, v.byIndex[Start])
      /\ rest.byIndex = [v.byIndex EXCEPT ![Start] = NoName]
  BY <1>1, DroppedInv, DroppedMarked, DroppedFields DEF Inv
<1>4. ~Full(rest)
  BY <1>3, RangeAssumption DEF Full
<1>5. v.byIndex \in [Indices -> Names \cup {NoName}] /\ v.byName[v.byIndex[Start]] = Start
  BY <1>1 DEF Inv, Vocabularies, RoundTrips
<1> HIDE DEF rest
<1>6. n \in Names /\ n # NoName
  BY <1>3, KeyType DEF Inv
<1>7. Inv(u) /\ Marked(u)
  BY <1>3, AddedInv, AddedMarked
<1>8. AddedIndex(rest, name) \in Named(u)
  <2>1. CASE Known(rest, n)
    <3>1. /\ AddedIndex(rest, name) = rest.byName[n] /\ u = rest
          /\ n \in DOMAIN v.byName /\ rest.byName[n] = v.byName[n] /\ n # v.byIndex[Start]
      BY <1>3, <2>1 DEF AddedIndex, Added, Known, Unbind
    <3>2. v.byName[n] \in Indices /\ v.byIndex[v.byName[n]] = n
      BY <1>1, <3>1 DEF ResolvesBut
    <3>3. v.byName[n] # Start
      BY <3>1, <3>2
    <3> QED
      BY <1>3, <1>5, <1>6, <3>1, <3>2, <3>3 DEF Named
  <2>2. CASE ~Known(rest, n)
    <3>1. /\ AddedIndex(rest, name) = rest.nextIndex
          /\ u = Assigned(rest, n, rest.nextIndex)
      BY <1>4, <2>2 DEF AddedIndex, Added
    <3>2. rest.nextIndex \in Indices /\ u.byIndex = [rest.byIndex EXCEPT ![rest.nextIndex] = n]
      BY <1>3, <1>4, <1>6, <3>1, AssignedFields DEF Inv
    <3>3. rest.byIndex \in [Indices -> Names \cup {NoName}]
      BY <1>3 DEF Inv, Vocabularies
    <3> QED
      BY <1>6, <3>1, <3>2, <3>3 DEF Named
  <2> QED
    BY <2>1, <2>2
<1> HIDE DEF u
<1> DEFINE w == [u EXCEPT !.special["unk"] = AddedIndex(rest, name)]
<1>9. /\ w.byIndex = u.byIndex /\ w.nextIndex = u.nextIndex /\ w.nonEvents = u.nonEvents
      /\ w.metaTags = u.metaTags /\ w.toLower = u.toLower
      /\ w.special = [u.special EXCEPT !["unk"] = AddedIndex(rest, name)]
  BY <1>7 DEF Inv, Vocabularies
<1> HIDE DEF w
<1>10. Named(w) = Named(u)
  BY <1>9 DEF Named
<1>11. TagsNamed(w) /\ Placed(w) /\ Lowered(w)
  BY <1>7, <1>8, <1>9, <1>10 DEF Marked, TagsNamed, Placed, Lowered, Inv, Vocabularies
<1> QED
  BY <1>2, <1>11 DEF Marked, w, v

(* The tags are in order at first, and after every call.                     *)
LEMMA InitMarked == Init => Marked(vocab)
<1> SUFFICES ASSUME Init PROVE Marked(vocab)
  OBVIOUS
<1>1. PICK lower \in BOOLEAN, meta \in BOOLEAN :
          LET v == [Constructed EXCEPT !.toLower = lower]
          IN  \/ vocab = [v EXCEPT !.metaTag = meta]
              \/ \E n \in WordArgs : vocab = [MapUnknown(v, n) EXCEPT !.metaTag = meta]
  BY DEF Init
<1> DEFINE v == [Constructed EXCEPT !.toLower = lower]
<1>2. Constructed \in Vocabularies
  BY ConstructedGood DEF Good, Inv
<1>3. CASE vocab = [v EXCEPT !.metaTag = meta]
  BY <1>2, <1>3, FreshGood DEF Fresh
<1>4. CASE \E n \in WordArgs : vocab = [MapUnknown(v, n) EXCEPT !.metaTag = meta]
  <2>1. PICK n \in WordArgs : vocab = [MapUnknown(v, n) EXCEPT !.metaTag = meta]
    BY <1>4
  <2>2. v = Fresh(lower, Constructed.metaTag) /\ Constructed.metaTag \in BOOLEAN
    BY <1>2 DEF Fresh, Vocabularies
  <2>3. Marked(MapUnknown(v, n))
    BY <2>2, MapUnknownMarked, NamesAssumption
  <2>4. MapUnknown(v, n) \in Vocabularies
    <3>1. /\ v \in Vocabularies /\ v.byName = Constructed.byName /\ v.byIndex = Constructed.byIndex
          /\ v.nextIndex = Constructed.nextIndex /\ v.special = Constructed.special
      BY <1>2 DEF Vocabularies
    <3> HIDE DEF v
    <3> QED
      BY <3>1, MapUnknownGood, NamesAssumption DEF Good, Inv
  <2> QED
    BY <2>1, <2>3, <2>4, SameMarks DEF Vocabularies
<1> QED
  BY <1>1, <1>3, <1>4

LEMMA StepMarked == IInv /\ Marked(vocab) /\ [Next]_vars => Marked(vocab)'
<1> SUFFICES ASSUME IInv, Marked(vocab), [Next]_vars PROVE Marked(vocab)'
  OBVIOUS
<1>1. /\ vocab \in Vocabularies /\ Inv(vocab)
      /\ Start .. vocab.nextIndex - 1 \subseteq Indices
  BY RangeAssumption DEF IInv, Good, Inv, Vocabularies, Indices
<1>2. ASSUME NEW w, Marked(w), vocab' = w
      PROVE  Marked(vocab)'
  BY <1>2 DEF Marked, TagsNamed, Placed, Lowered, Named
<1>3. ASSUME NEW n \in WordArgs, AddWord(n)
      PROVE  Marked(vocab)'
  BY <1>1, <1>2, <1>3, AddedMarked, NamesAssumption DEF AddWord
<1>4. ASSUME NEW n \in WordArgs, GetIndex(n)
      PROVE  Marked(vocab)'
  BY <1>1, <1>2, <1>4, AddedMarked, NamesAssumption DEF GetIndex
<1>5. ASSUME NEW i \in Start .. vocab.nextIndex - 1, NEW n \in AliasNames, AddWordAlias(i, n)
      PROVE  Marked(vocab)'
  BY <1>1, <1>2, <1>5, AliasedMarked, NamesAssumption DEF AddWordAlias
<1>6. ASSUME NEW n \in RemoveArgs \cap Names, RemoveName(n)
      PROVE  Marked(vocab)'
  BY <1>1, <1>2, <1>6, RemovedMarked DEF RemoveName
<1>7. ASSUME NEW i \in Indices \cap RemoveArgs, RemoveIndex(i)
      PROVE  Marked(vocab)'
  BY <1>1, <1>2, <1>7, DroppedMarked DEF RemoveIndex
<1>8. ASSUME NEW E \in SUBSET Named(vocab), vocab' = [vocab EXCEPT !.nonEvents = E]
      PROVE  Marked(vocab)'
  <2> DEFINE w == [vocab EXCEPT !.nonEvents = E]
  <2>1. /\ w.byIndex = vocab.byIndex /\ w.nextIndex = vocab.nextIndex /\ w.nonEvents = E
        /\ w.metaTags = vocab.metaTags /\ w.special = vocab.special /\ w.toLower = vocab.toLower
    BY <1>1 DEF Vocabularies
  <2> HIDE DEF w
  <2>2. Marked(w)
    BY <1>8, <2>1 DEF Marked, TagsNamed, Placed, Lowered, Named
  <2> QED
    BY <1>2, <1>8, <2>2 DEF w
<1>9. ASSUME NEW i \in Indices \cap NonEventArgs, AddNonEvent(i)
      PROVE  Marked(vocab)'
  <2>1. i \in Defined(vocab) => vocab.nonEvents \cup {i} \in SUBSET Named(vocab)
    BY <1>1, NamedDefined DEF Marked, TagsNamed
  <2> QED
    BY <1>2, <1>8, <1>9, <2>1 DEF AddNonEvent
<1>10. ASSUME NEW i \in Indices \cap NonEventArgs, RemoveNonEvent(i)
       PROVE  Marked(vocab)'
  <2>1. vocab.nonEvents \ {i} \in SUBSET Named(vocab)
    BY DEF Marked, TagsNamed
  <2> QED
    BY <1>2, <1>8, <1>10, <2>1 DEF RemoveNonEvent
<1>11. CASE UNCHANGED vars
  BY <1>2, <1>11 DEF vars
<1> QED
  BY <1>3, <1>4, <1>5, <1>6, <1>7, <1>9, <1>10, <1>11 DEF Next

-----------------------------------------------------------------------------

\* What the lines before i leave: their words, each at the index in the map, and
\* the special words; there is room for the rest.
ReadSoFar(r, i, v, file) ==
    /\ Inv(r.vocab) /\ ResolvesBut(r.vocab, {})
    /\ Specials \subseteq DOMAIN r.vocab.byName
    /\ r.vocab.toLower = v.toLower
    /\ r.vocab.nextIndex <= Start + 4 \/ r.vocab.nextIndex <= i
    /\ \A j \in DOMAIN file : j < i =>
          /\ j \in DOMAIN r.map /\ r.map[j] \in Indices
          /\ r.vocab.byIndex[r.map[j]] = file[j]

(* Each line of a file finds its word or has room for it, since the words of *)
(* indices below Start + 4 are known.                                        *)
LEMMA ReadLineGood ==
    ASSUME NEW v, Inv(v), Marked(v), NEW writingLM \in BOOLEAN,
           NEW i \in DOMAIN IndexMapFile(v, writingLM), NEW r,
           ReadSoFar(r, i, v, IndexMapFile(v, writingLM))
    PROVE  ReadSoFar(ReadLine(r, i, IndexMapFile(v, writingLM)[i]), i + 1, v, IndexMapFile(v, writingLM))
<1> DEFINE file == IndexMapFile(v, writingLM)
           word == file[i]
           u == r.vocab
           w == Added(u, word)
           s == ReadLine(r, i, word)
<1>1. i \in Named(v) /\ word = v.byIndex[i] /\ i \in Nat /\ i \in Start .. End - 1
  BY RangeAssumption DEF IndexMapFile, Named, Inv, Vocabularies, Indices
<1>2. DOMAIN file \subseteq Nat
  BY RangeAssumption DEF IndexMapFile, Inv, Vocabularies
<1>3. s.vocab = w /\ s.map = Bind(r.map, i, AddedIndex(u, word))
  BY DEF ReadLine
<1>4. /\ Inv(u) /\ ResolvesBut(u, {}) /\ Specials \subseteq DOMAIN u.byName
      /\ u.toLower = v.toLower /\ (u.nextIndex <= Start + 4 \/ u.nextIndex <= i)
      /\ \A j \in DOMAIN file : j < i =>
            /\ j \in DOMAIN r.map /\ r.map[j] \in Indices /\ u.byIndex[r.map[j]] = file[j]
  BY DEF ReadSoFar
<1>5. \A j \in DOMAIN file : file[j] # NoName
  BY DEF IndexMapFile
<1> HIDE DEF file, u, s
<1>6. word \in Names /\ word # NoName
  BY <1>1 DEF Named, Inv, Vocabularies
<1>7. v.toLower => Lower[word] = word
  BY <1>1 DEF Marked, Lowered
<1>8. i < Start + 4 => word \in Specials
  BY <1>1 DEF Marked, Placed
<1> HIDE DEF word
<1>9. Key(u, word) = word
  BY <1>4, <1>7 DEF Key
<1>10. u.nextIndex \in Nat
  BY <1>4, RangeAssumption DEF Inv, Vocabularies
<1>11. Known(u, word) \/ (~Full(u) /\ u.nextIndex <= i)
  BY <1>1, <1>4, <1>8, <1>10, RangeAssumption DEF Known, Full
<1>12. /\ Inv(w) /\ w.toLower = u.toLower
       /\ \A j \in Indices : j < u.nextIndex => w.byIndex[j] = u.byIndex[j]
  BY <1>4, <1>6, AddedInv
<1>13. ResolvesBut(w, {})
  BY <1>4, <1>6, <1>9, <1>11, AddedResolves
<1>14. /\ w.nextIndex <= Start + 4 \/ w.nextIndex <= i + 1
       /\ AddedIndex(u, word) \in Indices /\ w.byIndex[AddedIndex(u, word)] = word
       /\ DOMAIN u.byName \subseteq DOMAIN w.byName
  <2>1. CASE Known(u, word)
    <3>1. w = u /\ AddedIndex(u, word) = u.byName[word] /\ word \in DOMAIN u.byName
      BY <1>9, <2>1 DEF Added, AddedIndex, Known
    <3>2. u.byName[word] \in Indices /\ u.byIndex[u.byName[word]] = word
      BY <1>4, <3>1 DEF ResolvesBut
    <3>3. u.nextIndex <= i => u.nextIndex <= i + 1
      BY <1>1, <1>10
    <3> QED
      BY <1>4, <3>1, <3>2, <3>3
  <2>2. CASE ~Known(u, word)
    <3>1. ~Full(u) /\ u.nextIndex <= i
      BY <1>11, <2>2
    <3>2. w = Assigned(u, word, u.nextIndex) /\ AddedIndex(u, word) = u.nextIndex
      BY <1>9, <2>2, <3>1 DEF Added, AddedIndex
    <3>3. /\ u.nextIndex \in Indices /\ w.byName = Bind(u.byName, word, u.nextIndex)
          /\ w.byIndex = [u.byIndex EXCEPT ![u.nextIndex] = word]
          /\ w.nextIndex = u.nextIndex + 1
      BY <1>4, <1>6, <3>1, <3>2, AssignedFields DEF Inv
    <3>4. u.byIndex \in [Indices -> Names \cup {NoName}]
      BY <1>4 DEF Inv, Vocabularies
    <3>5. w.nextIndex <= i + 1
      BY <1>1, <1>10, <3>1, <3>3
    <3>6. DOMAIN u.byName \subseteq DOMAIN w.byName
      BY <3>3 DEF Bind
    <3> QED
      BY <3>2, <3>3, <3>4, <3>5, <3>6
  <2> QED
    BY <2>1, <2>2
<1> HIDE DEF w
<1>15. \A j \in DOMAIN file : j < i + 1 =>
          /\ j \in DOMAIN s.map /\ s.map[j] \in Indices /\ w.byIndex[s.map[j]] = file[j]
  <2> SUFFICES ASSUME NEW j \in DOMAIN file, j < i + 1
               PROVE  j \in DOMAIN s.map /\ s.map[j] \in Indices /\ w.byIndex[s.map[j]] = file[j]
    OBVIOUS
  <2>1. CASE j = i
    BY <1>3, <1>14, <2>1 DEF Bind, word
  <2>2. CASE j # i
    <3>1. j < i
      BY <1>1, <1>2, <2>2
    <3>2. j \in DOMAIN r.map /\ r.map[j] \in Indices /\ u.byIndex[r.map[j]] = file[j]
      BY <1>4, <3>1
    <3>3. r.map[j] < u.nextIndex
      BY <1>4, <1>5, <3>2 DEF Inv, RoundTrips
    <3>4. w.byIndex[r.map[j]] = file[j]
      BY <1>12, <3>2, <3>3
    <3>5. j \in DOMAIN s.map /\ s.map[j] = r.map[j]
      BY <1>3, <2>2, <3>2 DEF Bind
    <3> QED
      BY <3>2, <3>4, <3>5
  <2> QED
    BY <2>1, <2>2
<1>16. Specials \subseteq DOMAIN w.byName /\ w.toLower = v.toLower
  BY <1>4, <1>12, <1>14
<1> QED
  BY <1>3, <1>12, <1>13, <1>14, <1>15, <1>16 DEF ReadSoFar, file, word, s

(* All lines, by induction.                                                  *)
LEMMA ReadsBackAll ==
    ASSUME NEW v, Inv(v), Marked(v), NEW writingLM \in BOOLEAN
    PROVE  LET read == ReadIndexMap(Fresh(v.toLower, v.metaTag), IndexMapFile(v, writingLM))
           IN  ReadSoFar(read, End, v, IndexMapFile(v, writingLM))
<1> DEFINE fresh == Fresh(v.toLower, v.metaTag)
           file == IndexMapFile(v, writingLM)
<1>1. PICK read :
          /\ read[Start] = [vocab |-> fresh, map |-> [j \in {} |-> 0]]
          /\ \A i \in Start .. End - 1 :
                read[i + 1] = IF i \in DOMAIN file THEN ReadLine(read[i], i, file[i]) ELSE read[i]
          /\ ReadIndexMap(fresh, file) = read[End]
  BY ReadByLines
<1> DEFINE T == {i \in Start .. End : ReadSoFar(read[i], i, v, file)}
<1>2. Start \in Nat /\ End \in Nat /\ Start <= End
  BY RangeAssumption
<1>3. \A j \in DOMAIN file : j \in Start .. End - 1
  BY RangeAssumption DEF IndexMapFile, Inv, Vocabularies
<1>4. Start \in T
  <2>1. /\ Inv(fresh) /\ ResolvesBut(fresh, {}) /\ fresh.nextIndex = Start + 4
        /\ fresh.toLower = v.toLower /\ DOMAIN fresh.byName = Specials
    BY FreshGood DEF Inv, Vocabularies
  <2>2. read[Start].vocab = fresh
    BY <1>1
  <2>3. \A j \in DOMAIN file : ~(j < Start)
    BY <1>2, <1>3
  <2> HIDE DEF fresh, file
  <2> QED
    BY <1>2, <2>1, <2>2, <2>3 DEF ReadSoFar
<1>5. ASSUME NEW i \in Start .. End - 1, i \in T
      PROVE  i + 1 \in T
  <2>1. i + 1 \in Start .. End
    BY <1>2
  <2>2. CASE i \in DOMAIN file
    <3>1. read[i + 1] = ReadLine(read[i], i, file[i])
      BY <1>1, <2>2
    <3>2. ReadSoFar(read[i], i, v, file)
      BY <1>5
    <3>3. ReadSoFar(ReadLine(read[i], i, file[i]), i + 1, v, file)
      BY <2>2, <3>2, ReadLineGood
    <3> QED
      BY <2>1, <3>1, <3>3
  <2>3. CASE i \notin DOMAIN file
    <3>1. read[i + 1] = read[i]
      BY <1>1, <2>3
    <3>2. \A j \in DOMAIN file : j < i + 1 => j < i
      BY <1>2, <1>3, <2>3
    <3>3. ReadSoFar(read[i], i, v, file) /\ read[i].vocab.nextIndex \in Nat
      BY <1>5, RangeAssumption DEF ReadSoFar, Inv, Vocabularies
    <3> HIDE DEF file
    <3>4. ReadSoFar(read[i], i + 1, v, file)
      BY <1>2, <3>2, <3>3 DEF ReadSoFar
    <3> QED
      BY <2>1, <3>1, <3>4
  <2> QED
    BY <2>2, <2>3
<1>6. T \in SUBSET Nat
  BY <1>2
<1> HIDE DEF T
<1>7. Start .. End \subseteq T
  BY <1>2, <1>4, <1>5, <1>6, RangeInduction
<1>8. End \in T
  BY <1>2, <1>7
<1> QED
  BY <1>1, <1>8 DEF T

(* Nothing is kept about a removed word, and a file written with one         *)
(* numbering of the words is read with another (writeIndexMap, readIndexMap). *)
THEOREM IndexMapsReadBack == Spec => []IndexMapReadsBack
<1>1. IInv /\ Marked(vocab) => IndexMapReadsBack
  <2> SUFFICES ASSUME IInv, Marked(vocab) PROVE IndexMapReadsBack
    OBVIOUS
  <2>1. Inv(vocab) /\ Defined(vocab) = Named(vocab)
    BY NamedDefined DEF IInv, Good
  <2>2. TagsDefined
    BY <2>1 DEF Marked, TagsNamed, TagsDefined
  <2>3. ASSUME NEW writingLM \in BOOLEAN, NEW i \in Defined(vocab),
               ~(writingLM /\ i \in DOMAIN vocab.metaTags)
        PROVE  LET fresh == [Constructed EXCEPT !.toLower = vocab.toLower, !.metaTag = vocab.metaTag]
                   read == ReadIndexMap(fresh, IndexMapFile(vocab, writingLM))
               IN  i \in DOMAIN read.map /\ GetWord(read.vocab, read.map[i]) = vocab.byIndex[i]
    <3> DEFINE file == IndexMapFile(vocab, writingLM)
               read == ReadIndexMap(Fresh(vocab.toLower, vocab.metaTag), file)
    <3>1. ReadSoFar(read, End, vocab, file)
      BY <2>1, ReadsBackAll
    <3>2. i < vocab.nextIndex /\ i \in Indices /\ vocab.byIndex[i] # NoName
      BY <2>1, <2>3, NamedDefined DEF Named
    <3>3. i \in DOMAIN file /\ file[i] = vocab.byIndex[i] /\ i < End
      BY <2>1, <2>3, <3>2, RangeAssumption DEF IndexMapFile, Indices, Inv, Vocabularies
    <3> HIDE DEF file, read
    <3>4. /\ i \in DOMAIN read.map /\ read.map[i] \in Indices
          /\ read.vocab.byIndex[read.map[i]] = vocab.byIndex[i] /\ Inv(read.vocab)
      BY <3>1, <3>3 DEF ReadSoFar
    <3>5. GetWord(read.vocab, read.map[i]) = read.vocab.byIndex[read.map[i]]
      BY <3>2, <3>4, NamedDefined DEF Named
    <3> QED
      BY <3>4, <3>5 DEF read, file, Fresh
  <2> QED
    BY <2>2, <2>3 DEF IndexMapReadsBack
<1>2. IInv /\ Marked(vocab) /\ [Next]_vars => Marked(vocab)'
  BY StepMarked
<1>3. IInv /\ [Next]_vars => IInv'
  BY StepIInv
<1> QED
  BY <1>1, <1>2, <1>3, InitIInv, InitMarked, PTL DEF Spec
===============================================================================
