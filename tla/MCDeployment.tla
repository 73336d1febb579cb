---------------------------- MODULE MCDeployment ----------------------------
(***************************************************************************)
(* The instance of Deployment for TLC; deploy_race.cfg gives the sets.  No *)
(* symmetry: the run checks liveness.                                      *)
(***************************************************************************)
EXTENDS Deployment
=============================================================================
