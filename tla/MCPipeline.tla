------------------------------ MODULE MCPipeline ------------------------------
(***************************************************************************)
(* One build, each event sent at most twice, for TLC.                      *)
(***************************************************************************)
EXTENDS Pipeline
=============================================================================
