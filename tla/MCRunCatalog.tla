----------------------------- MODULE MCRunCatalog -----------------------------
(* Two callers of createWorkflowRun and one key, for TLC. *)
EXTENDS RunCatalog, TLC

CONSTANTS c1, c2, k1, noKey
===============================================================================
