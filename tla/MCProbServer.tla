---------------------------- MODULE MCProbServer ----------------------------
(* ProbServer with three clients, two of which send a line at a time. *)
EXTENDS ProbServer

CONSTANTS c1, c2, c3

MCMessages == [c \in Clients |-> IF c = c3 THEN {} ELSE {<<"a", "EOL">>}]
=============================================================================
