---------------------------- MODULE HiddenModels ----------------------------
(***************************************************************************)
(* Language models that sum over what is not seen: class N-grams           *)
(* (ClassNgram.cc), hidden events (HiddenNgram.cc), disfluencies           *)
(* (DFNgram.cc) and HMMs of N-grams (HMMofNgrams.cc).  Each computes the   *)
(* probability of a prefix with the forward algorithm and keeps the        *)
(* trellis of the last call: `saved' has the words it is for, beginning    *)
(* with <s> or NoWord, and `cols' as many slices.  A call with a context   *)
(* that begins like it goes on from there.                                 *)
(*                                                                         *)
(* Contexts are reversed, nearest word first.  A model is a record: `prob' *)
(* gives for each context of its N-gram model the words' probabilities,    *)
(* and what the kind needs.  In this build DFNgram has no filled-pause     *)
(* state (NO_FP is defined), so it is left out.                            *)
(***************************************************************************)
EXTENDS Rational, Sequences, FiniteSets

LOCAL INSTANCE TLC
LOCAL INSTANCE SequencesExt
LOCAL INSTANCE FiniteSetsExt

SentStart == "<s>"
SentEnd   == "</s>"
Unknown   == "<unk>"
NoWord    == "none"

-----------------------------------------------------------------------------
(* The trellis of dynamic programs (lm/src/Trellis.cc): one slice for each *)
(* time, giving states their forward probabilities.  A slice is a function *)
(* from its states; states of probability zero are members like others.    *)
(* A move leads from one slice to the next:                                *)
(* [from, to, p, by], `by' telling moves apart that are otherwise equal.   *)

SumLogP(slice) == Total(LAMBDA s : slice[s], DOMAIN slice)

\* update() for every move out of the states of a slice, into an empty one.
Updated(slice, moves) ==
    [t \in {m.to : m \in moves} |-> Total(LAMBDA m : Times(slice[m.from], m.p), {m \in moves : m.to = t})]

\* The same into a slice that holds something already.
UpdatedIn(next, slice, moves) ==
    LET added == Updated(slice, moves)
    IN  [t \in DOMAIN next \cup DOMAIN added |->
            IF t \notin DOMAIN added THEN next[t]
            ELSE IF t \notin DOMAIN next THEN added[t] ELSE Plus(next[t], added[t])]

\* A slice that setProb() gives one state.
OnlyState(s, p) == s :> p

-----------------------------------------------------------------------------
NoEvent   == "*noevent*"

At(c, i) == IF i <= Len(c) THEN c[i] ELSE NoWord
Beyond(c, k) == SubSeq(c, k + 1, Len(c))
\* An array of words ends at the first Vocab_None.
Ended(c) == IF \E i \in DOMAIN c : c[i] = NoWord THEN SubSeq(c, 1, Min({i \in DOMAIN c : c[i] = NoWord}) - 1) ELSE c

-----------------------------------------------------------------------------
\* The N-gram model underneath: the longest context it has, the probability of a word in it.
UsedLength(table, c) == Max({k \in 0 .. Len(c) : SubSeq(c, 1, k) \in DOMAIN table})
Truncated(table, c) == SubSeq(c, 1, UsedLength(table, c))
NgramProb(table, w, c) ==
    LET row == table[Truncated(table, c)] IN IF w \in DOMAIN row THEN row[w] ELSE Zero

-----------------------------------------------------------------------------
\* Class N-grams.  A state is the context of words and classes, and what is left of the expansion
\* of the last class.  `sure' moves count as a positive probability for the word.
ClassMoves(m, s, p, w) ==
    IF s.rest # <<>>
      THEN IF Head(s.rest) # w THEN {}
           ELSE {[from |-> s, to |-> [s EXCEPT !.rest = Tail(@)], p |-> One, by |-> w, sure |-> Positive(p)]}
      ELSE LET Move(x, rest, q, sure) ==
                   [from |-> s, to |-> [ctx |-> Truncated(m.prob, <<x>> \o s.ctx), rest |-> rest],
                    p |-> q, by |-> x, sure |-> sure]
               asWord == NgramProb(m.prob, w, s.ctx)
               InClass(d) == Times(NgramProb(m.prob, d.class, s.ctx), d.p)
           IN  {Move(w, <<>>, asWord, Positive(p) /\ Positive(asWord))} \cup
               {Move(d.class, Tail(d.words), InClass(d), Positive(InClass(d))) :
                   d \in {e \in m.defs : Head(e.words) = w}}

\* A word without probability in any state: the sum goes to one state, with the words as context.
ClassFallback(slice, w, before) == OnlyState([ctx |-> <<w>> \o before, rest |-> <<>>], SumLogP(slice))

-----------------------------------------------------------------------------
\* Hidden events, between any two words.  A state has the context of words and events, how many
\* words are still to be repeated, and the last event.
Props(m, x) ==
    IF x \in DOMAIN m.events THEN m.events[x]
    ELSE [delete |-> 0, repeat |-> 0, insert |-> NoWord, observed |-> FALSE, omit |-> FALSE]

AfterEvent(m, e, c) == IF Props(m, e).omit THEN c ELSE <<e>> \o c

\* The event inserts a word: in its own place, or before the context when it is omitted from it.
Inserting(m, e, c) ==
    IF Props(m, e).insert = NoWord THEN AfterEvent(m, e, c) ELSE <<Props(m, e).insert>> \o c

Kept(m, c, repeat) ==
    LET used == UsedLength(m.prob, c)
        n == IF used < repeat THEN repeat ELSE IF used = 0 THEN 1 ELSE used
    IN  SubSeq(c, 1, IF n < Len(c) THEN n ELSE Len(c))

Repeating(s, e, props) == IF s.repeat > 0 THEN s.repeat ELSE props.repeat

RepeatMoves(m, s, p, w, e) ==
    LET r == Repeating(s, e, Props(m, e))
        c == AfterEvent(m, e, s.ctx)
        q == IF s.repeat > 0 THEN One ELSE NgramProb(m.prob, e, s.ctx)
    IN  IF r > Len(s.ctx) \/ w = Unknown THEN {}
        ELSE IF w # s.ctx[r] THEN {}
        ELSE {[from |-> s, to |-> [ctx |-> Kept(m, c, r - 1), repeat |-> r - 1, event |-> e],
               p |-> q, by |-> e, sure |-> FALSE]}

\* The word is entered in the array that holds the context before it: where words were deleted it
\* overwrites one of those it is predicted from.
WordContext(m, w, e, c) ==
    LET d == Props(m, e).delete
        start == IF Props(m, e).insert # NoWord /\ ~ Props(m, e).omit THEN Inserting(m, e, c)
                 ELSE AfterEvent(m, e, c)
        shift == IF Props(m, e).insert # NoWord /\ Props(m, e).omit THEN 1 ELSE 0
    IN  IF d > shift /\ ~ Props(m, w).omit /\ d - shift \in DOMAIN start THEN [start EXCEPT ![d - shift] = w]
        ELSE start

EventMoves(m, s, p, w, e) ==
    LET c == Inserting(m, e, s.ctx)
        d == Props(m, e).delete
        left == Beyond(c, d)
        next == IF Props(m, w).omit THEN left ELSE <<w>> \o left
        ofEvent == IF e = NoEvent THEN One ELSE NgramProb(m.prob, e, s.ctx)
        ofWord == NgramProb(m.prob, w, WordContext(m, w, e, s.ctx))
    IN  IF d > Len(c) \/ SentStart \in {c[i] : i \in 1 .. (IF d < Len(c) THEN d ELSE Len(c))} THEN {}
        ELSE {[from |-> s, to |-> [ctx |-> Kept(m, next, 0), repeat |-> 0, event |-> e],
               p |-> Times(ofEvent, ofWord), by |-> e, sure |-> Positive(p) /\ Positive(ofWord)]}

HiddenMoves(m, s, p, w) ==
    UNION {IF Repeating(s, e, Props(m, e)) > 0 THEN RepeatMoves(m, s, p, w, e) ELSE EventMoves(m, s, p, w, e) :
              e \in {x \in DOMAIN m.events : ~ m.events[x].observed /\ (s.repeat > 0 => x = NoEvent)}}

HiddenFallback(slice, w) ==
    OnlyState([ctx |-> <<NoEvent, w>>, repeat |-> 0, event |-> NoEvent], SumLogP(slice))

-----------------------------------------------------------------------------
\* Disfluencies.  What each state predicts from, at slice `pos'.
Corrected(s, c, pos) ==
    CASE s = "SDEL"  -> Ended(<<At(c, 1), SentStart>>)
      [] s = "DEL1"  -> Ended(<<At(c, 1), IF pos > 2 THEN At(c, 3) ELSE NoWord>>)
      [] s = "DEL2"  -> Ended(<<At(c, 1), IF pos > 3 THEN At(c, 4) ELSE NoWord>>)
      [] s = "REP1"  -> Beyond(c, 1)
      [] s = "REP21" -> Beyond(c, 2)
      [] OTHER       -> c

\* The slices from which a state goes on to a word, and to the deletion of a sentence.
From(s) == CASE s \in {"NODF", "SDEL"} -> 1 [] s \in {"DEL1", "REP1"} -> 2 [] s = "DEL2" -> 3 [] s = "REP21" -> 4

DFMoves(m, slice, w, c, pos) ==
    LET P(x, d) == NgramProb(m.prob, x, d)
        Move(s, t, p) == {[from |-> s, to |-> t, p |-> p, by |-> w, sure |-> TRUE]}
        Seen(s) == Corrected(s, c, pos)
        \* A word that repeats the last one known to the state.
        Repeats(s) == IF s = "REP1" THEN pos > 2 /\ w = At(c, 2)
                      ELSE pos > 1 /\ w = At(c, 1) /\ (s = "DEL2" => pos > 2)
        ofState(s) ==
          (IF pos >= From(s) \/ s = "DEL1" THEN Move(s, "NODF", P(w, Seen(s))) ELSE {}) \cup
          (IF pos >= From(s) THEN Move(s, "SDEL", Times(P("@SDEL", Seen(s)), P(w, <<SentStart>>))) ELSE {}) \cup
          (IF pos > 1 /\ s = "NODF" THEN Move(s, "DEL1", Times(P("@DEL1", c), P(w, Beyond(c, 1)))) ELSE {}) \cup
          (IF pos > 1 /\ s = "SDEL" THEN Move(s, "DEL1", Times(P("@DEL1", Seen(s)), P(w, <<SentStart>>))) ELSE {}) \cup
          (IF pos > 2 /\ s = "NODF" THEN Move(s, "DEL2", Times(P("@DEL2", c), P(w, Beyond(c, 2)))) ELSE {}) \cup
          (IF s # "REP21" /\ Repeats(s) THEN Move(s, "REP1", P("@REP1", Seen(s))) ELSE {}) \cup
          (IF pos > 2 /\ s = "NODF" /\ w = At(c, 2) THEN Move(s, "REP2", P("@REP2", c)) ELSE {})
    IN  UNION {ofState(s) : s \in DOMAIN slice \ {"REP2"}} \cup
        (IF "REP2" \in DOMAIN slice /\ pos > 3 /\ w = At(c, 2) THEN Move("REP2", "REP21", One) ELSE {})

\* A slice of probability zero begins anew.
Restarted(slice) == IF Positive(SumLogP(slice)) THEN slice ELSE OnlyState("NODF", One)

-----------------------------------------------------------------------------
\* HMMs of N-grams: the word comes from the model of the same state, or of a state there is a
\* transition to at the end of what the state emits.  </s> is for FINAL alone.
HMMMoves(m, s, p, w, c) ==
    LET P(t, x) == NgramProb(m.models[t], x, c)
        emits == s \in DOMAIN m.models
        Move(t, q) == [from |-> s, to |-> t, p |-> q, by |-> w, sure |-> Positive(p) /\ Positive(q)]
        ends == IF emits THEN P(s, SentEnd) ELSE One
        \* Every state emits a word at least.
        First(t) == IF t = "FINAL" THEN One ELSE Over(P(t, w), Minus(One, P(t, SentEnd)))
    IN  (IF emits /\ w # SentEnd THEN {[Move(s, P(s, w)) EXCEPT !.by = "stays"]} ELSE {}) \cup
        {Move(t, Times(Times(ends, m.trans[s][t]), First(t))) :
            t \in {u \in DOMAIN m.trans[s] : (w = SentEnd) <=> (u = "FINAL")}}

HMMFallback(slice, reached) ==
    UpdatedIn(reached, slice, {[from |-> s, to |-> s, p |-> One, by |-> "kept"] : s \in DOMAIN slice})

-----------------------------------------------------------------------------
\* prefixProb().  The results of a call are kept: `saved' and `cols' (see above); it counts the
\* words of the context that were passed over, <unk> by themselves.
Fresh(m, first) ==
    [saved |-> <<first>>, oovs |-> 0, zeros |-> 0,
     cols |-> <<CASE m.kind = "class"  -> OnlyState([ctx |-> Ended(<<first>>), rest |-> <<>>], One)
                  [] m.kind = "hidden" -> OnlyState([ctx |-> Ended(<<first>>), repeat |-> 0, event |-> NoEvent], One)
                  [] m.kind = "df"     -> OnlyState("NODF", One)
                  [] m.kind = "hmm"    -> OnlyState("INITIAL", One)>>]

Nothing == [saved |-> <<>>, cols |-> <<>>, oovs |-> 0, zeros |-> 0]

MovesOn(m, slice, w, c, pos) ==
    CASE m.kind = "class"  -> UNION {ClassMoves(m, s, slice[s], w) : s \in DOMAIN slice}
      [] m.kind = "hidden" -> UNION {HiddenMoves(m, s, slice[s], w) : s \in DOMAIN slice}
      [] m.kind = "df"     -> DFMoves(m, slice, w, c, pos)
      [] m.kind = "hmm"    -> UNION {HMMMoves(m, s, slice[s], w, c) : s \in DOMAIN slice}

Fallback(m, slice, reached, w, c) ==
    CASE m.kind = "class"  -> ClassFallback(slice, w, c)
      [] m.kind = "hidden" -> HiddenFallback(slice, w)
      [] m.kind = "hmm"    -> HMMFallback(slice, reached)

\* One word of the context.
PassedOver(m, r, slice, moves, w, c) ==
    IF m.kind = "df" \/ \E v \in moves : v.sure
      THEN [r EXCEPT !.saved = Append(@, w), !.cols = Append(@, Updated(slice, moves))]
      ELSE [saved |-> Append(r.saved, w), cols |-> Append(r.cols, Fallback(m, slice, Updated(slice, moves), w, c)),
            oovs |-> r.oovs + (IF w = Unknown THEN 1 ELSE 0), zeros |-> r.zeros + (IF w = Unknown THEN 0 ELSE 1)]

Ready(m, r) == IF m.kind = "df" THEN [r EXCEPT !.cols[Len(r.cols)] = Restarted(@)] ELSE r

ContextWordIn(m, r, w, c) == PassedOver(m, r, Last(r.cols), MovesOn(m, Last(r.cols), w, c, Len(r.cols)), w, c)
ContextWord(m, r, w, c) == ContextWordIn(m, Ready(m, r), w, c)

InitialWord(c) == IF c # <<>> /\ c[Len(c)] = SentStart THEN SentStart ELSE NoWord
AfterInitial(c) == Reverse(IF InitialWord(c) = SentStart THEN Front(c) ELSE c)

Common(r, words) ==
    Max({k \in 0 .. Len(words) : k < Len(r.saved) /\ \A i \in 1 .. k : r.saved[i + 1] = words[i]})

\* The mistake of not cutting the trellis off where the contexts part.
Base_NotCut(m, r, c) ==
    IF Len(c) > 1 /\ r.saved # <<>> /\ At(r.saved, 1) = InitialWord(c) /\ Len(r.saved) <= Len(AfterInitial(c)) + 1
      THEN [r EXCEPT !.oovs = 0, !.zeros = 0] ELSE Fresh(m, InitialWord(c))

\* Where the dynamic program starts: after the words it has in common with the last one, or anew.
Base(m, r, c) ==
    IF Len(c) > 1 /\ r.saved # <<>> /\ At(r.saved, 1) = InitialWord(c)
      THEN LET k == Common(r, AfterInitial(c))
           IN  [saved |-> SubSeq(r.saved, 1, k + 1), cols |-> SubSeq(r.cols, 1, k + 1), oovs |-> 0, zeros |-> 0]
      ELSE Fresh(m, InitialWord(c))

\* The context from the word after the ones the slices are for.
InContext(m, base, c) ==
    LET words == AfterInitial(c)
        after[i \in Len(base.saved) - 1 .. Len(words)] ==
            IF i = Len(base.saved) - 1 THEN base
            ELSE ContextWord(m, after[i - 1], words[i], SubSeq(c, Len(words) - i + 2, Len(c)))
    IN  after[Len(words)]

\* The last word, in the slice the context has led to.
LastWordIn(m, r, w, c) ==
    [r |-> r, before |-> SumLogP(Last(r.cols)),
     p |-> LET moves == MovesOn(m, Last(r.cols), w, c, Len(r.cols))
           IN  Total(LAMBDA v : Times(Last(r.cols)[v.from], v.p), moves)]
LastWord(m, r, w, c) == LastWordIn(m, Ready(m, r), w, c)

PrefixProb(m, r, w, c) == LastWord(m, InContext(m, Base(m, r, c), c), w, c)

\* P(w | context); the log of 0/0 counts as zero in class N-grams only, and does not occur here.
Conditional(r) == IF r.before = Zero THEN Zero ELSE Over(r.p, r.before)

\* Event tokens that are seen (-not-hidden): the words have the probability the events leave.
NotHiddenProb(m, w, c) ==
    IF w \in DOMAIN m.events THEN Zero
    ELSE Over(NgramProb(m.prob, w, c), Minus(One, Total(LAMBDA e : NgramProb(m.prob, e, c), DOMAIN m.events)))
=============================================================================
