----------------------------- MODULE MCNgramLM ------------------------------
(* Small vocabularies and corpora for NgramLM.                             *)
EXTENDS NgramLM, TLC

\* The count trie of a set of sentences, each between <s> and </s>
\* (NgramStats::countSentence and incrementCounts).
Sentence(t) == <<SentStart>> \o t \o <<SentEnd>>

RECURSIVE CountsOf(_)
CountsOf(text) ==
  IF text = <<>> THEN <<>>
  ELSE LET t == Sentence(Head(text))
           rest == CountsOf(Tail(text))
           at(g) == {i \in 1 .. Len(t) : /\ i + Len(g) - 1 <= Len(t)
                                         /\ SubSeq(t, i, i + Len(g) - 1) = g}
           grams == {SubSeq(t, i, j) : i \in 1 .. Len(t), j \in 1 .. Len(t)} \ {<<>>}
           mine == {g \in grams : Len(g) <= Order}
       IN  [g \in mine \cup DOMAIN rest |->
              Cardinality(at(g)) + (IF g \in DOMAIN rest THEN rest[g] ELSE 0)]

CONSTANTS a, b, bos, eos

Texts == {<<<<a, a>>, <<b>>>>, <<<<b, a>>, <<a>>>>,
          <<<<a, b>>, <<a, a, b>>>>, <<<<a, a, b>>, <<b, a>>>>}

\* A count file with trigrams whose bigrams it does not have, as ngram-count -read
\* takes it: the trie needs the bigrams and holds them with counts of zero.
ZeroCounts ==
  <<bos>> :> 1 @@ <<a>> :> 3 @@ <<b>> :> 1 @@ <<eos>> :> 2
    @@ <<bos, a>> :> 1 @@ <<a, a>> :> 1 @@ <<a, eos>> :> 1 @@ <<b, eos>> :> 1
    @@ <<a, b>> :> 0 @@ <<a, b, eos>> :> 1
    @@ <<bos, b>> :> 0 @@ <<bos, b, a>> :> 1
MCCorpora == {CountsOf(t) : t \in Texts} \cup {ZeroCounts}

Half == <<1, 2>>
GT(d)  == [method |-> "GoodTuring", d |-> d, max |-> 1, mincount |-> 1, interpolate |-> FALSE]
Abs(i) == [method |-> "ConstDiscount", d |-> Half, mincount |-> 0, interpolate |-> i]
WB(i, n) == [method |-> "WittenBell", mincount |-> n, interpolate |-> i]

All(d) == [i \in 1 .. Order |-> d]
MCDiscounting == {All(GT(One)), <<NoDiscount, WB(FALSE, 1), Abs(TRUE)>>,
                  <<WB(FALSE, 1), WB(FALSE, 2), WB(TRUE, 1)>>}

MCLambdas   == {<<1, 3>>}
MCMinMasses == {NoMinimum, Half}
=============================================================================
