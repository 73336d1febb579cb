--------------------------- MODULE MCCodingAgent ---------------------------
(* Files the branch has; requests for one, for two and for suggestions. *)
EXTENDS CodingAgent, TLC

CONSTANTS a, b, x

MCStart == [p \in Path |-> x]

One == [kind |-> "agent", paths |-> {a}]
Both == [kind |-> "agent", paths |-> {a, b}]
Files == [kind |-> "suggest", paths |-> {}]

MCAsked == {One, Both, Files}
MCOne == {One}

Symmetric == Permutations(Caller)
=============================================================================
