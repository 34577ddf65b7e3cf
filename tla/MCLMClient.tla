----------------------------- MODULE MCLMClient -----------------------------
(* LMClient with calls that the three caches have to tell apart: every kind of *)
(* request, empty contexts, and contexts that are longer than the order.       *)
EXTENDS LMClient

\* The clients of the environment are replaced by LMClients.
Silent == [c \in Clients |-> {}]

MCQueries ==
    {WordProb("a", <<>>), WordProb("a", <<"b">>), WordProb("b", <<"a", "b", "a">>),
     ContextID(NoWord, <<>>), ContextID(NoWord, <<"b">>), ContextID(NoWord, <<"a", "b">>),
     ContextID("a", <<>>), ContextID("a", <<"b">>), ContextID("b", <<"a", "b", "a">>),
     ContextBOW(<<"a", "b">>, 0), ContextBOW(<<"a", "b">>, 1)}
=============================================================================
