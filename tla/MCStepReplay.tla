---------------------------- MODULE MCStepReplay ----------------------------
(* Small instances of StepReplay. *)
EXTENDS StepReplay, TLC

CONSTANTS a, b, c, w1, w2

\* await step.run(a); await step.run(b); await step.run(c)
Chain == a :> {} @@ b :> {a} @@ c :> {a, b}

\* await Promise.all([step.run(a), step.run(b)]); await step.run(c)
Fork == a :> {} @@ b :> {} @@ c :> {a, b}

MCPrograms == {Chain, Fork}

\* Enough passes for a zombie, its successor and the successor of both.
MCMaxClaims == [program \in MCPrograms |-> IF program = Chain THEN 4 ELSE 2]

\* The parallel steps alone, and a pass more.
MCForkOnly == {Fork}

MCThreeClaims == [program \in MCForkOnly |-> 3]

\* Worker ids are interchangeable, and no liveness is checked.
SlotSymmetry == Permutations(Slots)
=============================================================================
