------------------------------ MODULE MCFNgram ------------------------------
(***************************************************************************)
(* A factored model of words a and b with classes x and y, of the word and *)
(* the class before (and in one choice, of the class after).               *)
(***************************************************************************)
EXTENDS FNgramLM, TLC

MCTags  == {"W", "T"}
MCTagOf == ("a" :> "W") @@ ("b" :> "W") @@ ("c" :> "W") @@ ("x" :> "T") @@ ("y" :> "T")

F(t, w) == [tag |-> t, word |-> w]
Tok(w, t) == <<F("W", w), F("T", t)>>

Opt(k, v) == [key |-> k, value |-> v]
Half == <<1, 2>>
Disc(d)  == Opt("discount", d)
Const    == Opt("cdiscount", Half)

Previous == <<[tag |-> "W", offset |-> -1], [tag |-> "T", offset |-> -1]>>
Around   == <<[tag |-> "W", offset |-> -1], [tag |-> "T", offset |-> 1]>>

FLM(child, parents, top, one, none) ==
    [child |-> child, parents |-> parents,
     options |-> ({1, 2} :> top) @@ ({1} :> one) @@ ({2} :> one) @@ ({} :> none)]

Lower == <<Const>>
Uni   == <<Disc("wb")>>

Words(top) == FLM("W", Previous, top, Lower, Uni)

MCSpecChoices ==
    {<<Words(<<Const, Opt("combine", c), Opt("strategy", s)>>)>> :
        c \in {"max", "min"}, s \in {"counts_sum_counts_norm", "bog_node_prob"}}
    \cup {<<Words(<<Disc("wb"), Opt("interpolate", TRUE), Opt("combine", c)>>)>> : c \in {"sum", "avg", "prod"}}
    \cup {<<Words(<<Const, Opt("weights", ({1} :> Half) @@ ({2} :> One)), Opt("interpolate", TRUE)>>)>>}
    \cup {<<Words(<<Const, Opt("constraint", {1})>>)>>}
    \cup {<<FLM("W", Previous, <<Const>>, <<Disc("ukn")>>, <<Disc("kn")>>)>>}
    \cup {<<FLM("W", Around, <<Const, Opt("strategy", "counts_no_norm")>>, <<Disc("ukn")>>, Uni),
            FLM("T", <<[tag |-> "W", offset |-> 0], [tag |-> "T", offset |-> -1]>>, <<Disc("natural")>>, Lower, Uni)>>}
    \cup {<<Words(<<Opt("constraint", {})>>)>>}

MCTrainingLines == {<<Tok("a", "x"), Tok("b", "y")>>, <<Tok("b", "x"), Tok("a", "x"), Tok("a", "x")>>}
MCTestLines == {<<Tok("a", "y")>>, <<Tok("b", "x"), Tok("c", "x")>>}

=============================================================================
