---------------------------- MODULE MCPipelineTrail ----------------------------
(***************************************************************************)
(* The instance of PipelineTrail for TLC: its bounds are in the            *)
(* configuration.                                                          *)
(***************************************************************************)
EXTENDS PipelineTrail
=============================================================================
