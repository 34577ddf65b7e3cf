-------------------------------- MODULE Vocab --------------------------------
(***************************************************************************)
(* lm/src/Vocab.cc: the two-way mapping between word strings and word      *)
(* indices on which every count and probability table is keyed.  byName    *)
(* maps strings to indices, several of them (aliases) perhaps to the same; *)
(* byIndex maps an index back to its own string.  Beside them hang the set *)
(* of non-events, the types of the metatags and four special indices.      *)
(*                                                                         *)
(* Each operation is an operator on a vocabulary (a record), so that the   *)
(* actions, the index map files and the proofs share them.                 *)
(***************************************************************************)
EXTENDS Integers

CONSTANTS
    Names,        \* word strings
    WordArgs,     \* the strings that words are added and looked up with,
    AliasNames,   \* aliases are added with,
    RemoveArgs,   \* and words are removed by (indices, too)
    NonEventArgs, \* the indices that are declared non-events, and not
    Lower,        \* mapToLower
    MetaType,     \* for the strings with the metatag prefix: the type, -1 if malformed
    Unknown, SentStart, SentEnd, Pause,
    Start, End,   \* the range of indices given to the constructor
    NoName,       \* a null string
    None          \* Vocab_None

ASSUME NamesAssumption ==
    /\ AliasNames \subseteq Names /\ WordArgs \subseteq Names /\ NoName \notin Names
    /\ Lower \in [Names -> Names]
    /\ \A n \in Names : Lower[Lower[n]] = Lower[n]
    /\ \A n \in AliasNames : Lower[n] \in AliasNames
    /\ DOMAIN MetaType \subseteq Names
    /\ \A n \in DOMAIN MetaType : MetaType[n] \in Int

ASSUME RangeAssumption ==
    /\ Start \in Nat /\ End \in Nat /\ Start + 5 <= End
    /\ None \notin Int
    /\ NonEventArgs \subseteq Int
    /\ Unknown \in Names /\ SentStart \in Names /\ SentEnd \in Names /\ Pause \in Names
    /\ Unknown # SentStart /\ Unknown # SentEnd /\ Unknown # Pause
    /\ SentStart # SentEnd /\ SentStart # Pause /\ SentEnd # Pause
    /\ \A n \in {Unknown, SentStart, SentEnd, Pause} : Lower[n] = n

VARIABLES
    vocab,        \* the data members of a Vocab object
    fault         \* a null string was passed to strcmp(): the program died

vars == <<vocab, fault>>

Indices == Start .. End - 1

Bind(f, x, y) == [z \in DOMAIN f \cup {x} |-> IF z = x THEN y ELSE f[z]]
Unbind(f, x) == [z \in DOMAIN f \ {x} |-> f[z]]

\* The string an operation looks up.
Key(v, name) == IF v.toLower THEN Lower[name] ELSE name

\* getWord()
GetWord(v, i) == IF i \in Start .. v.nextIndex - 1 THEN v.byIndex[i] ELSE NoName

Defined(v) == {i \in Indices : GetWord(v, i) # NoName}

Known(v, n) == n \in DOMAIN v.byName

Full(v) == v.nextIndex = End

\* A metatag with a well-formed type enters metaTagMap.
Interned(v, n) == v.metaTag /\ n \in DOMAIN MetaType /\ MetaType[n] >= 0

\* A new word takes index i.
Assigned(v, n, i) ==
    [v EXCEPT !.byName = Bind(@, n, i),
              !.byIndex = [@ EXCEPT ![i] = n],
              !.metaTags = IF Interned(v, n) THEN Bind(@, i, MetaType[n]) ELSE @,
              !.nextIndex = i + 1]

\* addWord(): when the range is full, the string is in byName already, with index 0.
Added(v, name) ==
    LET n == Key(v, name) IN
    IF Known(v, n) THEN v
    ELSE IF Full(v) THEN [v EXCEPT !.byName = Bind(@, n, 0)]
    ELSE Assigned(v, n, v.nextIndex)

AddedIndex_Next(v, name) == IF Full(v) THEN None ELSE v.nextIndex

AddedIndex(v, name) ==
    LET n == Key(v, name) IN
    IF Known(v, n) THEN v.byName[n] ELSE IF Full(v) THEN None ELSE v.nextIndex

Dropped_KeepsTags(v, i) ==
    [v EXCEPT !.byName = Unbind(@, v.byIndex[i]),
              !.byIndex = [@ EXCEPT ![i] = NoName],
              !.special = [s \in DOMAIN @ |-> IF @[s] = i THEN None ELSE @[s]]]

Dropped_GivesBack(v, i) == [Dropped_KeepsTags(v, i) EXCEPT !.nextIndex = i]

\* remove(index) of a defined index, and remove(name) of a word's own name.
Dropped(v, i) ==
    [v EXCEPT !.byName = Unbind(@, v.byIndex[i]),
              !.byIndex = [@ EXCEPT ![i] = NoName],
              !.nonEvents = @ \ {i},
              !.metaTags = Unbind(@, i),
              !.special = [s \in DOMAIN @ |-> IF @[s] = i THEN None ELSE @[s]]]

\* remove(name): of an alias, only the string goes.
Removed(v, name) ==
    LET n == Key(v, name) IN
    IF ~Known(v, n) THEN v
    ELSE IF GetWord(v, v.byName[n]) = n THEN Dropped(v, v.byName[n])
    ELSE [v EXCEPT !.byName = Unbind(@, n)]

\* remove(name) compares the name with a word that is not there any more.
RemoveFaults(v, name) ==
    LET n == Key(v, name) IN Known(v, n) /\ GetWord(v, v.byName[n]) = NoName

Aliased_Hides(v, i, name) == [v EXCEPT !.byName = Bind(@, Key(v, name), i)]

\* addWordAlias() of a defined index, when name is not its own name.
Aliased(v, i, name) ==
    LET n == Key(v, name) IN [Removed(v, n) EXCEPT !.byName = Bind(@, n, i)]

Empty ==
    [byName |-> [n \in {} |-> 0],
     byIndex |-> [i \in Indices |-> NoName],
     nextIndex |-> Start,
     nonEvents |-> {},
     metaTags |-> [i \in {} |-> 0],
     special |-> [s \in {"unk", "ss", "se", "pause"} |-> None],
     toLower |-> FALSE,
     metaTag |-> FALSE]

\* The constructor.
Constructed ==
    [Added(Added(Added(Added(Empty, Unknown), SentStart), SentEnd), Pause) EXCEPT
        !.special = [unk |-> Start, ss |-> Start + 1, se |-> Start + 2, pause |-> Start + 3],
        !.nonEvents = {Start + 1, Start + 3}]

-----------------------------------------------------------------------------

\* Option -map-unk: another word becomes the unknown word.
MapUnknown(v, name) ==
    LET rest == Dropped(v, v.special["unk"])
    IN  [Added(rest, name) EXCEPT !.special["unk"] = AddedIndex(rest, name)]

\* The tools set toLower, map the unknown word and set metaTag before they read words.
Init ==
    /\ \E lower, meta \in BOOLEAN :
          LET v == [Constructed EXCEPT !.toLower = lower]
          IN  \/ vocab = [v EXCEPT !.metaTag = meta]
              \/ \E n \in WordArgs : vocab = [MapUnknown(v, n) EXCEPT !.metaTag = meta]
    /\ fault = FALSE

AddWord(name) ==
    /\ ~fault
    /\ vocab' = Added(vocab, name)
    /\ UNCHANGED fault

\* getIndex() interns a metatag it has not seen.
GetIndex(name) ==
    /\ ~fault
    /\ vocab' = IF vocab.metaTag /\ Key(vocab, name) \in DOMAIN MetaType THEN Added(vocab, name) ELSE vocab
    /\ UNCHANGED fault

\* addWordAlias(): the word is an index that addWord() once returned.
AddWordAlias(i, name) ==
    LET n == Key(vocab, name)
        proceeds == vocab.byIndex[i] # NoName /\ n # vocab.byIndex[i]
    IN  /\ ~fault
        /\ fault' = (proceeds /\ RemoveFaults(vocab, n))
        /\ vocab' = IF proceeds /\ ~fault' THEN Aliased(vocab, i, name) ELSE vocab

RemoveName(name) ==
    /\ ~fault
    /\ fault' = RemoveFaults(vocab, name)
    /\ vocab' = IF fault' THEN vocab ELSE Removed(vocab, name)

RemoveIndex(i) ==
    /\ ~fault
    /\ vocab' = IF i \in Defined(vocab) THEN Dropped(vocab, i) ELSE vocab
    /\ UNCHANGED fault

AddNonEvent(i) ==
    /\ ~fault
    /\ vocab' = IF i \in Defined(vocab) THEN [vocab EXCEPT !.nonEvents = @ \cup {i}] ELSE vocab
    /\ UNCHANGED fault

RemoveNonEvent(i) ==
    /\ ~fault
    /\ vocab' = IF i \in Defined(vocab) THEN [vocab EXCEPT !.nonEvents = @ \ {i}] ELSE vocab
    /\ UNCHANGED fault

Next ==
    \/ \E n \in WordArgs : AddWord(n)
    \/ \E n \in WordArgs : GetIndex(n)
    \/ \E i \in Start .. vocab.nextIndex - 1, n \in AliasNames : AddWordAlias(i, n)
    \/ \E n \in RemoveArgs \cap Names : RemoveName(n)
    \/ \E i \in Indices \cap RemoveArgs : RemoveIndex(i)
    \/ \E i \in Indices \cap NonEventArgs : AddNonEvent(i)
    \/ \E i \in Indices \cap NonEventArgs : RemoveNonEvent(i)

Spec == Init /\ [][Next]_vars

-----------------------------------------------------------------------------

VocabType(v) ==
    /\ v.nextIndex \in Start .. End
    /\ v.byIndex \in [Indices -> Names \cup {NoName}]
    /\ DOMAIN v.byName \subseteq Names
    /\ \A n \in DOMAIN v.byName : v.byName[n] \in Indices \cup {0}
    /\ v.nonEvents \subseteq Indices
    /\ DOMAIN v.metaTags \subseteq Indices
    /\ \A i \in DOMAIN v.metaTags : v.metaTags[i] \in Nat
    /\ v.special \in [{"unk", "ss", "se", "pause"} -> Indices \cup {0, None}]
    /\ v.toLower \in BOOLEAN /\ v.metaTag \in BOOLEAN

TypeOK == VocabType(vocab) /\ fault \in BOOLEAN

RoundTrips(v) ==
    \A i \in Indices : v.byIndex[i] # NoName =>
        /\ i < v.nextIndex
        /\ Known(v, v.byIndex[i]) /\ v.byName[v.byIndex[i]] = i

OwnNames(v) ==
    \A n \in DOMAIN v.byName \ AliasNames :
        \/ v.byName[n] \in Indices /\ v.byIndex[v.byName[n]] = n
        \/ v.byName[n] = 0 /\ Full(v)

(* Going from an index to its word and back is the identity, so that two     *)
(* indices never share a word, and going from a string that is no alias to   *)
(* its index and back is, too: removals, aliases that take over the name of  *)
(* another word and a full index range keep the two maps in step.  The one   *)
(* string that is found with an index not its own came when the range was    *)
(* full: addWord() then answers Vocab_None, but leaves the string in byName  *)
(* with index 0 (Vocab.cc:152-155).                                          *)
RoundTrip == RoundTrips(vocab) /\ OwnNames(vocab)

(* Nothing is kept about an index whose word is gone: the non-events, the types *)
(* of metatags and the special indices only name defined words, and a metatag *)
(* has the type its string spells.                                            *)
TagsDefined ==
    /\ vocab.nonEvents \subseteq Defined(vocab)
    /\ \A i \in DOMAIN vocab.metaTags :
          /\ i \in Defined(vocab)
          /\ vocab.byIndex[i] \in DOMAIN MetaType /\ vocab.metaTags[i] = MetaType[vocab.byIndex[i]]
    /\ \A s \in DOMAIN vocab.special : vocab.special[s] \in Defined(vocab) \cup {None}

(* An index never comes to mean another word: counts and models that were    *)
(* built with an index stay about the same word after any later call.        *)
IndexStable ==
    [][/\ vocab'.nextIndex >= vocab.nextIndex
       /\ \A i \in Start .. vocab.nextIndex - 1 : vocab'.byIndex[i] \in {vocab.byIndex[i], NoName}]_vars

-----------------------------------------------------------------------------
(* The index maps of binary count and model files.                           *)

\* writeIndexMap(): the words on the lines, which are in the order of the indices.
IndexMapFile(v, writingLM) ==
    [i \in {j \in Start .. v.nextIndex - 1 :
              v.byIndex[j] # NoName /\ ~(writingLM /\ j \in DOMAIN v.metaTags)} |-> v.byIndex[i]]

\* One line: the vocabulary read into, and the map.
ReadLine(r, i, word) ==
    [vocab |-> Added(r.vocab, word), map |-> Bind(r.map, i, AddedIndex(r.vocab, word))]

\* readIndexMap() without limitVocab: read[i] is what the lines before i leave.
ReadIndexMap(v, file) ==
    LET read[i \in Start .. End] ==
            IF i = Start THEN [vocab |-> v, map |-> [j \in {} |-> 0]]
            ELSE IF i - 1 \in DOMAIN file THEN ReadLine(read[i - 1], i - 1, file[i - 1])
            ELSE read[i - 1]
    IN  read[End]

(* A file written with one numbering of the words can be read with another:  *)
(* each index in the file is mapped to the index of the same word, also when *)
(* words and special words were removed before the file was written; and only *)
(* metatags are left out of it.                                               *)
IndexMapReadsBack ==
    /\ TagsDefined
    /\ \A writingLM \in BOOLEAN :
        LET fresh == [Constructed EXCEPT !.toLower = vocab.toLower, !.metaTag = vocab.metaTag]
            read == ReadIndexMap(fresh, IndexMapFile(vocab, writingLM))
        IN  \A i \in Defined(vocab) :
                \/ i \in DOMAIN read.map /\ GetWord(read.vocab, read.map[i]) = vocab.byIndex[i]
                \/ writingLM /\ i \in DOMAIN vocab.metaTags
===============================================================================
