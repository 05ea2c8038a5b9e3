----------------------------- MODULE StepReplay -----------------------------
(***************************************************************************)
(* One workflow run and the steps its function takes with step.run: the    *)
(* step attempts in the database, the passes that replay the function from *)
(* the top, and what each pass remembers of the attempts.                  *)
(*                                                                         *)
(* A pass reads the attempts once, skips the steps it has a result of, and *)
(* ends with the first branch that fails. JavaScript cancels nothing: the  *)
(* other branches of a Promise.all go on after their pass has ended, and   *)
(* their statements still reach the database.                              *)
(***************************************************************************)
EXTENDS Integers, Sequences, FiniteSets

CONSTANTS
    Steps,              \* the resolved names of the steps
    Programs,           \* the workflow functions, each as the steps a step comes after
    Slots,              \* the worker ids
    None,               \* NULL
    StepLimit,          \* WORKFLOW_STEP_LIMIT
    MaxStepAttempts,    \* maximumAttempts of the steps' retry policy
    MaxClaims           \* bound: how often a run of each function is claimed

ASSUME ProgramsAssumption == Programs \subseteq [Steps -> SUBSET Steps]

ASSUME BoundsAssumption ==
    /\ StepLimit \in Nat \ {0}
    /\ MaxStepAttempts \in Nat \ {0}
    /\ MaxClaims \in [Programs -> Nat]

ASSUME NoneAssumption == None \notin Slots

VARIABLES
    needs,      \* the workflow function of this run; it never changes
    run,        \* the row of the run
    attempts,   \* the rows of its step attempts, in the order of their creation
    pass        \* pass[p]: the memory of the p-th claim of the run

vars == <<needs, run, attempts, pass>>

(***************************************************************************)
(* Types                                                                   *)
(***************************************************************************)
Outcome == {"completed", "pending", "failed"}

Run == [status : Outcome \union {"running", "canceled"}, owner : Slots \union {None}]

Attempt == [step : Steps, status : {"running", "completed", "failed"}]

\* A branch is where step.run of a step is; "gone" is one that has thrown.
Branch == {"idle", "inserting", "calling", "failing", "done", "gone"}

Pass ==
    [slot : Slots, pc : {"loading", "running", "ending", "ended"},
     result : [Steps -> Nat],   \* StepHistory.cache: the attempt whose output it has, or 0
     failures : [Steps -> Nat], \* StepHistory.failedCountsByStepName
     stepCount : Nat,
     branch : [Steps -> Branch],
     attempt : [Steps -> Nat],  \* the attempt of each branch, or 0
     outcome : Outcome]

TypeOK ==
    /\ needs \in Programs
    /\ run \in Run
    /\ attempts \in Seq(Attempt)
    /\ pass \in Seq(Pass)

(***************************************************************************)
(* What the attempts say                                                   *)
(***************************************************************************)
WithStatus(s, status) ==
    {i \in DOMAIN attempts : attempts[i].step = s /\ attempts[i].status = status}

\* Mutant: takes an attempt that is still running for a result.
LatestNotFailed(s) ==
    LET found == WithStatus(s, "completed") \union WithStatus(s, "running") IN
    IF found = {} THEN 0 ELSE CHOOSE i \in found : \A j \in found : j <= i

\* The cache is filled in the order of creation: the last result stays.
CachedAttempt(s) ==
    LET done == WithStatus(s, "completed") IN
    IF done = {} THEN 0 ELSE CHOOSE i \in done : \A j \in done : j <= i

\* Mutant: a success makes up for a failure.
NetFailedCount(s) ==
    Cardinality(WithStatus(s, "failed")) - Cardinality(WithStatus(s, "completed"))

\* Mutant: counts the failures of all steps.
FailedCountOfRun(s) == Cardinality(UNION {WithStatus(t, "failed") : t \in Steps})

FailedCount(s) == Cardinality(WithStatus(s, "failed"))

\* Mutant: whoever holds the run.
OwnsAttemptOfAnyWorker(p, i) == attempts[i].status = "running" /\ run.status = "running"

\* Mutant: whatever has become of the run.
OwnsAttemptOfAnyRun(p, i) == attempts[i].status = "running" /\ run.owner = pass[p].slot

\* What completeStepAttempt and failStepAttempt ask for: the worker, not the pass.
OwnsAttempt(p, i) ==
    /\ attempts[i].status = "running"
    /\ run.status = "running" /\ run.owner = pass[p].slot

\* Their SET clauses.
EndAttempt(i, status) == attempts' = [attempts EXCEPT ![i].status = status]

OwnsRun(p) == run.status = "running" /\ run.owner = pass[p].slot

(***************************************************************************)
(* A pass                                                                  *)
(***************************************************************************)
NewPass(w) ==
    [slot |-> w, pc |-> "loading",
     result |-> [s \in Steps |-> 0], failures |-> [s \in Steps |-> 0], stepCount |-> 0,
     branch |-> [s \in Steps |-> "idle"], attempt |-> [s \in Steps |-> 0],
     outcome |-> "pending"]

\* The fence of the pass is active: it is neither parked nor finalized.
IsActive(p) == pass[p].pc = "running"

\* The function reaches the step: everything it comes after has a result.
Reached(p, s) == \A n \in needs[s] : pass[p].result[n] # 0

\* The workflow function has thrown: the fence goes down, the transition is next.
Ending(mem, outcome) == [mem EXCEPT !.pc = "ending", !.outcome = outcome]

\* A branch has thrown, which ends its pass unless it is over already.
Thrown(p, mem, s, outcome) ==
    LET gone == [mem EXCEPT !.branch[s] = "gone"] IN
    IF IsActive(p) THEN Ending(gone, outcome) ELSE gone

\* Mutant: one attempt more.
AfterFailuresOneMore(count) == IF count <= MaxStepAttempts THEN "pending" ELSE "failed"

AfterFailures(count) == IF count < MaxStepAttempts THEN "pending" ELSE "failed"

\* Only a completed run keeps its worker.
AfterTransition(outcome) ==
    [status |-> outcome, owner |-> IF outcome = "completed" THEN run.owner ELSE None]

(***************************************************************************)
(* Actions                                                                 *)
(***************************************************************************)
Init ==
    /\ needs \in Programs
    /\ run = [status |-> "pending", owner |-> None]
    /\ attempts = <<>>
    /\ pass = <<>>

\* A slot that executes nothing claims the run: it is due, or its lease has lapsed.
Claim(w) ==
    /\ Len(pass) < MaxClaims[needs]
    /\ run.status \in {"pending", "running"}
    /\ \A p \in DOMAIN pass : pass[p].slot = w => pass[p].pc = "ended"
    /\ run' = [status |-> "running", owner |-> w]
    /\ pass' = Append(pass, NewPass(w))
    /\ UNCHANGED <<needs, attempts>>

\* The pass reads all attempts and builds its history from them.
Load(p) ==
    /\ pass[p].pc = "loading"
    /\ pass' = [pass EXCEPT ![p] =
           IF Len(attempts) > StepLimit THEN Ending(@, "failed")
           ELSE [@ EXCEPT !.pc = "running",
                          !.result = [s \in Steps |-> CachedAttempt(s)],
                          !.failures = [s \in Steps |-> FailedCount(s)],
                          !.stepCount = Len(attempts)]]
    /\ UNCHANGED <<needs, run, attempts>>

\* A step without a result is begun; the limit is compared before the insertion.
Start(p, s) ==
    /\ IsActive(p) /\ Reached(p, s)
    /\ pass[p].result[s] = 0 /\ pass[p].branch[s] = "idle"
    /\ pass' = [pass EXCEPT ![p] =
           IF pass[p].stepCount >= StepLimit THEN Thrown(p, @, s, "failed")
           ELSE [@ EXCEPT !.branch[s] = "inserting"]]
    /\ UNCHANGED <<needs, run, attempts>>

\* The insertion; neither the run nor the pass is looked at. The step is called.
Insert(p, s) ==
    /\ pass[p].branch[s] = "inserting"
    /\ attempts' = Append(attempts, [step |-> s, status |-> "running"])
    /\ pass' = [pass EXCEPT ![p] =
           [@ EXCEPT !.branch[s] = "calling",
                     !.attempt[s] = Len(attempts'),
                     !.stepCount = pass[p].stepCount + 1]]
    /\ UNCHANGED <<needs, run>>

\* The step returns and its result is stored. Of a worker that lost the run the
\* completion is refused, and so is the failure that is reported instead.
Return(p, s) ==
    LET i == pass[p].attempt[s] IN
    /\ pass[p].branch[s] = "calling"
    /\ IF OwnsAttempt(p, i)
       THEN /\ EndAttempt(i, "completed")
            /\ pass' = [pass EXCEPT ![p] =
                   [@ EXCEPT !.branch[s] = "done", !.result[s] = i]]
       ELSE /\ pass' = [pass EXCEPT ![p] = Thrown(p, @, s, "pending")]
            /\ UNCHANGED attempts
    /\ UNCHANGED <<needs, run>>

\* The step throws; the branch of a pass that is over does not report it.
Fail(p, s) ==
    /\ pass[p].branch[s] = "calling"
    /\ pass' = [pass EXCEPT ![p] =
           [@ EXCEPT !.branch[s] = IF IsActive(p) THEN "failing" ELSE "gone"]]
    /\ UNCHANGED <<needs, run, attempts>>

\* The failure is stored and counted; the count decides about another attempt.
RecordFailure(p, s) ==
    LET i == pass[p].attempt[s]
        count == pass[p].failures[s] + 1
    IN
    /\ pass[p].branch[s] = "failing"
    /\ IF OwnsAttempt(p, i)
       THEN /\ EndAttempt(i, "failed")
            /\ pass' = [pass EXCEPT ![p] =
                   Thrown(p, [@ EXCEPT !.failures[s] = count], s, AfterFailures(count))]
       ELSE /\ pass' = [pass EXCEPT ![p] = Thrown(p, @, s, "pending")]
            /\ UNCHANGED attempts
    /\ UNCHANGED <<needs, run>>

\* The function returns: it has a result of every step.
Finish(p) ==
    /\ IsActive(p)
    /\ \A s \in Steps : pass[p].result[s] # 0
    /\ pass' = [pass EXCEPT ![p] = Ending(@, "completed")]
    /\ UNCHANGED <<needs, run, attempts>>

\* The transition of the run; of a worker that lost it, it writes nothing.
End(p) ==
    /\ pass[p].pc = "ending"
    /\ pass' = [pass EXCEPT ![p] = [@ EXCEPT !.pc = "ended"]]
    /\ run' = IF OwnsRun(p) THEN AfterTransition(pass[p].outcome) ELSE run
    /\ UNCHANGED <<needs, attempts>>

\* A client cancels the run; its passes find out when they write.
Cancel ==
    /\ run.status \in {"pending", "running"}
    /\ run' = [status |-> "canceled", owner |-> None]
    /\ UNCHANGED <<needs, attempts, pass>>

\* A worker that dies takes no further step: no action of a pass must happen.
Next ==
    \/ Cancel
    \/ \E w \in Slots : Claim(w)
    \/ \E p \in DOMAIN pass : Load(p) \/ Finish(p) \/ End(p)
    \/ \E p \in DOMAIN pass, s \in Steps :
          Start(p, s) \/ Insert(p, s) \/ Return(p, s) \/ Fail(p, s) \/ RecordFailure(p, s)

Spec == Init /\ [][Next]_vars

(***************************************************************************)
(* Properties                                                              *)
(***************************************************************************)

\* Whenever two passes have a result of a step, it is the same one: what the
\* function has seen of a step, every later replay shows it again.
StableReplay ==
    \A p, q \in DOMAIN pass, s \in Steps :
        pass[p].result[s] # 0 /\ pass[q].result[s] # 0
            => pass[p].result[s] = pass[q].result[s]

\* The steps come one after the other.
Sequential == \A s, t \in Steps : s = t \/ s \in needs[t] \/ t \in needs[s]

ClaimedByDistinctSlots ==
    \A p, q \in DOMAIN pass : p # q => pass[p].slot # pass[q].slot

\* The replay is stable through lapsed leases, retries and passes that go on after
\* they lost the run, as long as the steps come one after the other or no slot
\* claims the run a second time: the statements of a worker that does not hold the
\* run are refused (postgres/backend.ts, runningStepAttemptOwnedByWorkerWhere), but
\* a pass that its own worker has succeeded passes for the newer one.
StableReplayUnlessReclaimed == Sequential \/ ClaimedByDistinctSlots => StableReplay

CompletedSteps == {s \in Steps : WithStatus(s, "completed") # {}}

\* A step is begun only when every step it comes after has completed, whichever
\* pass did it, and the run completes only when all steps have: no step is skipped
\* because of an attempt that never ended.
StepsInOrder ==
    /\ \A i \in DOMAIN attempts : needs[attempts[i].step] \subseteq CompletedSteps
    /\ run.status = "completed" => CompletedSteps = Steps

\* The passes that have decided to fail the run and lost it before they did.
LostVerdicts == {p \in DOMAIN pass : pass[p].outcome = "failed" /\ p < Len(pass)}

\* A step of a sequential function fails as often as its retry policy allows,
\* whatever the workers that take the attempts: the failures of earlier passes count.
\* It is called once more only after a worker that has stored the last failure loses
\* the run before it fails it (worker/execution.ts:1126): no pass compares the count
\* with the policy before a call.
FailuresWithinPolicy ==
    Sequential => \A s \in Steps :
        Cardinality(WithStatus(s, "failed"))
            <= MaxStepAttempts + Cardinality(LostVerdicts)

\* The run fails only for a reason that its attempts show: a step that has used up
\* its attempts, or as many attempts as there may be. Neither a lost run nor a
\* refused statement of a worker without the run fails it.
FailsForAReason ==
    run.status = "failed" =>
        \/ \E s \in Steps : Cardinality(WithStatus(s, "failed")) >= MaxStepAttempts
        \/ Len(attempts) >= StepLimit

\* A run ends once: after that none of its attempts changes its status, whichever
\* branches are still under way, so the attempts go on telling how it ended.
AttemptsOfEndedRunsStay ==
    [][run.status \in {"completed", "failed", "canceled"} =>
          /\ run' = run
          /\ \A i \in DOMAIN attempts : attempts'[i] = attempts[i]]_vars
=============================================================================
