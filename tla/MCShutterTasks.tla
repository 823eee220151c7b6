--------------------------- MODULE MCShutterTasks ---------------------------
(***************************************************************************)
(* Constants for the model-checking runs of ShutterTasks.                  *)
(***************************************************************************)
EXTENDS ShutterTasks, TLC

CONSTANTS c1, c2, c3
=============================================================================
