----------------------------- MODULE LMService ------------------------------
(***************************************************************************)
(* What the users of an LM object expect of its methods wordProb(),        *)
(* contextID() and contextBOW(), wherever the model is: each call returns  *)
(* one of the Answers for the arguments of that very call, or the user is  *)
(* stopped.                                                                *)
(***************************************************************************)
CONSTANTS Users, Queries, Answers(_), NoCall, NoAnswer

VARIABLES
    pending,      \* the call each user is in
    answer        \* the query of each user's last complete call, and its value

vars == <<pending, answer>>

Init ==
    /\ pending = [u \in Users |-> NoCall]
    /\ answer = [u \in Users |-> NoAnswer]

Answered(q) == {[query |-> q, value |-> v] : v \in Answers(q)}

Call(u, q) ==
    /\ pending[u] = NoCall
    /\ pending' = [pending EXCEPT ![u] = q]
    /\ UNCHANGED answer

Return(u) ==
    /\ pending[u] # NoCall
    /\ \E a \in Answered(pending[u]) : answer' = [answer EXCEPT ![u] = a]
    /\ pending' = [pending EXCEPT ![u] = NoCall]

\* A call and its return in one step.
AnswerAtOnce(u, q) ==
    /\ pending[u] = NoCall
    /\ \E a \in Answered(q) : answer' = [answer EXCEPT ![u] = a]
    /\ UNCHANGED pending

Stop(u) ==
    /\ pending[u] # NoCall
    /\ pending' = [pending EXCEPT ![u] = NoCall]
    /\ UNCHANGED answer

Next ==
    \E u \in Users :
        \/ \E q \in Queries : Call(u, q) \/ AnswerAtOnce(u, q)
        \/ Return(u) \/ Stop(u)

Spec ==
    /\ Init /\ [][Next]_vars
    /\ \A u \in Users : WF_vars(Return(u) \/ Stop(u))
=============================================================================
