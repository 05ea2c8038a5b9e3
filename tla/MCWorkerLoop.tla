------------------------------ MODULE MCWorkerLoop ------------------------------
(* Small instances of WorkerLoop. *)
EXTENDS WorkerLoop

CONSTANTS r1, r2, r3
===============================================================================
