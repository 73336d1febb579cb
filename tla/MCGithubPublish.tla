-------------------------- MODULE MCGithubPublish --------------------------
(***************************************************************************)
(* Instances of GithubPublish for TLC.                                     *)
(***************************************************************************)
EXTENDS GithubPublish, TLC

MCModifies == [e \in Execution |-> Path]

Workers == Permutations(Worker)
=============================================================================
