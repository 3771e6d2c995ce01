------------------------------- MODULE MCServer -------------------------------
(***************************************************************************)
(* Three requests for two pipelines and one connection: requests wait for  *)
(* either, and a drain can meet requests in every phase.                   *)
(***************************************************************************)
EXTENDS ServerLifecycle
=============================================================================
