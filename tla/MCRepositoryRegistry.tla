------------------------ MODULE MCRepositoryRegistry ------------------------
(* One prefix, which covers one of the two branches. *)
EXTENDS RepositoryRegistry, TLC

CONSTANTS main, dev, devs

MCUnder == [p \in Pattern |-> IF p = devs THEN {dev} ELSE {}]

MCAllowed == {{main}, {devs}, {main, devs}}

Symmetric == Permutations(Entry) \cup Permutations(Handler)
=============================================================================
