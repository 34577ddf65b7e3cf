---------------------------- MODULE MCNgramCounts ----------------------------
(* Small texts, count files and discounts for ngram-count.                 *)
EXTENDS NgramCounts

MCIndex == [w \in Words |-> CASE w = "<s>" -> 0 [] w = "</s>" -> 1 [] w = "<unk>" -> 2
                              [] w = "a" -> 5 [] w = "b" -> 8 [] w = "c" -> 9]
MCMeta == <<"#1", "#2">>

MCTexts == {<<"a", "b", "a">>, <<"<s>", "c">>, <<>>, <<"b", "</s>">>}

\* A pre-order dump with two prefixes that have rare N-grams only, one of them
\* before and one after others; one that ends in a line that cannot be parsed;
\* and one with N-grams of all frequencies.
MCFiles == {<<Line(<<"a">>, 3), Line(<<"a", "a">>, 1), Line(<<"a", "a", "b">>, 1), Line(<<"a", "b">>, 2),
              Line(<<"a", "b", "a">>, 1), Line(<<"a", "b", "b">>, 2), Line(<<"a", "b", "c">>, 1),
              Line(<<"b">>, 1), Line(<<"b", "a">>, 1), Line(<<"c">>, 2), Line(<<"c", "c">>, 2)>>,
            <<Line(<<"b", "a">>, 5), Malformed, Line(<<"c">>, 5)>>,
            <<Line(<<"a">>, 8), Line(<<"a", "a">>, 6), Line(<<"a", "a", "a">>, 1),
              Line(<<"a", "a", "b">>, 1), Line(<<"a", "a", "</s>">>, 2), Line(<<"a", "b">>, 3),
              Line(<<"a", "b", "a">>, 3), Line(<<"b">>, 4), Line(<<"b", "a">>, 4),
              Line(<<"b", "a", "a">>, 4), Line(<<"</s>">>, 3)>>}

MCMinimums == {<<1, 2, 2>>, <<2, 2, 1>>}

\* Words and N-grams in unix order, three or four to a file.
MCDirectories ==
    {<< <<<<Line(<<"<s>">>, 2), Line(<<"a">>, 3), Line(<<"b">>, 4), Line(<<"c">>, 1)>>>>,
        <<<<Line(<<"<s>", "a">>, 1), Line(<<"a", "b">>, 2)>>,
          <<Line(<<"a", "c">>, 1), Line(<<"b", "c">>, 2)>>, <<Line(<<"c", "a">>, 1)>>,
          <<Line(<<"c", "b">>, 3), Line(<<"c", "c">>, 1)>>>>,
        <<<<Line(<<"a", "a", "c">>, 2), Line(<<"a", "b", "a">>, 2)>>,
          <<Line(<<"a", "c", "a">>, 2)>>, <<Line(<<"a", "c", "c">>, 2), Line(<<"b", "a", "b">>, 1)>>>> >>}

MCCollation == [w \in Words |-> CASE w = "</s>" -> 0 [] w = "<s>" -> 1 [] w = "<unk>" -> 2
                                  [] w = "a" -> 3 [] w = "b" -> 4 [] w = "c" -> 5]

Half == <<1, 2>>
GT(min, max) == [method |-> "GoodTuring", mincount |-> min, maxcount |-> max, coeffs |-> <<>>, fromFile |-> FALSE]
KN(atEnd)    == [method |-> "KneserNey", mincount |-> 1, ds |-> <<>>, modified |-> FALSE,
                 atEnd |-> atEnd, fromFile |-> FALSE]
FileKN       == [KN(FALSE) EXCEPT !.ds = <<Half>>, !.fromFile = TRUE]
ModKN        == [KN(FALSE) EXCEPT !.method = "ModKneserNey"]
FileModKN    == [ModKN EXCEPT !.ds = <<Half, <<1, 1>>, <<3, 2>>>>, !.fromFile = TRUE]
Const        == [method |-> "Const", mincount |-> 0, ds |-> <<Half>>, fromFile |-> FALSE]
Natural      == [method |-> "Natural", mincount |-> 0, vocabSize |-> 0, fromFile |-> FALSE]
AddHalf      == [method |-> "AddSmooth", mincount |-> 0, delta |-> Half, vocabSize |-> 0, fromFile |-> FALSE]
WB           == [method |-> "WittenBell", mincount |-> 0, fromFile |-> FALSE]
NoDisc       == [method |-> "none", mincount |-> 0, fromFile |-> FALSE]

MCDiscountings == {<<KN(FALSE), KN(TRUE), KN(FALSE)>>, <<FileKN, FileModKN, ModKN>>, <<KN(TRUE), FileKN, FileKN>>,
              <<GT(1, 3), GT(1, 2), GT(2, 2)>>, <<Const, Natural, AddHalf>>, <<AddHalf, WB, Const>>,
              <<Natural, NoDisc, WB>>}

\* Counts that are not yet discounted agree with the text and with the files
\* they are written to and merged from.
CountsRight == stage = 0 => IsCounts(counts) /\ CountsMatchText /\ ReadsBack /\ MergeAdds

\* What is filtered: minimum counts, pruning, files left out by their index.
FilteredExactly == MinCountsKept /\ PruneExact /\ GoogleComplete
=============================================================================
