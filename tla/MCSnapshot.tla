----------------------------- MODULE MCSnapshot -----------------------------
(***************************************************************************)
(* Constants for the model-checking runs of Snapshot.                      *)
(***************************************************************************)
EXTENDS Snapshot, TLC

CONSTANTS p1, p2

\* Two pictures of different length.
MCPicSize == (p1 :> 1) @@ (p2 :> 2)
=============================================================================
