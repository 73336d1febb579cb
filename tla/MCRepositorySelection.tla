------------------------ MODULE MCRepositorySelection ------------------------
(***************************************************************************)
(* Instances of RepositorySelection for TLC.                               *)
(***************************************************************************)
EXTENDS RepositorySelection, TLC

Symmetric ==
  Permutations(Worker) \cup Permutations(Operator) \cup Permutations(Repo)
    \cup Permutations(Mapping)
=============================================================================
