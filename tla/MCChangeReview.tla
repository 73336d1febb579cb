--------------------------- MODULE MCChangeReview ---------------------------
(***************************************************************************)
(* Instances of ChangeReview for TLC.                                      *)
(***************************************************************************)
EXTENDS ChangeReview, TLC

Symmetric == Permutations(Worker) \cup Permutations(Proposal)
=============================================================================
