---------------------------- MODULE MCWorkflowRuns ----------------------------
(***************************************************************************)
(* Small instances of WorkflowRuns for TLC.                                *)
(***************************************************************************)
EXTENDS WorkflowRuns, TLC

CONSTANTS r1, r2, w1, w2, w3

Policy(initial, maximum, attempts) ==
  [initialInterval |-> initial, maximumInterval |-> maximum,
   maximumAttempts |-> attempts]

MCMissingDefinitionPolicy == Policy(1, 2, 0)

\* r1 may be tried twice, r2 without limit.
MCRetryPolicy == r1 :> Policy(1, 2, 2) @@ r2 :> Policy(1, 2, 0)

\* Only w1 has the workflow of r2 registered: a deploy in progress.
MCRegistered == w1 :> {r1, r2} @@ w2 :> {r1}

\* Two of three slots know the workflows; one of them may die.
MCTwoRegistered == w1 :> Runs @@ w2 :> Runs @@ w3 :> {}

\* r2 asks for Infinity.
MCInfinitePolicy == r1 :> Policy(1, 2, 2) @@ r2 :> Policy(1, 2, Infinity)

MCDeadlines == {None, 2}
===============================================================================
