----------------------------- MODULE WorkflowRuns -----------------------------
(***************************************************************************)
(* The workflow_runs table of the durable engine (packages/openworkflow)   *)
(* and the worker slots that poll it.                                      *)
(*                                                                         *)
(* A run is a row.  A slot claims a due row with one statement, which      *)
(* writes the slot's id and a lease into it, and then executes the         *)
(* workflow function outside any transaction, renewing the lease by        *)
(* heartbeats.  Every later write of that execution is one statement       *)
(* fenced by "status = 'running' AND worker_id = <slot>".  A slot whose    *)
(* lease lapsed does not know it: it goes on executing beside the slot     *)
(* that claimed the row after it, and its writes must change nothing.      *)
(*                                                                         *)
(* Time is a number of ticks left until a timestamp (0: it has passed),    *)
(* None stands for SQL NULL.                                               *)
(***************************************************************************)
EXTENDS Integers, FiniteSets

CONSTANTS
  Runs,                    \* workflow runs
  Slots,                   \* worker ids: one per concurrency slot of a process
  None,                    \* SQL NULL
  Infinity,                \* the JavaScript number
  Lease,                   \* DEFAULT_LEASE_DURATION_MS, in ticks
  RetryPolicy,             \* RetryPolicy[r]: the policy the workflow of r asks for
  MissingDefinitionPolicy, \* MISSING_DEFINITION_RETRY_POLICY, in ticks
  Registered,              \* Registered[w]: the runs whose workflow w has registered
  StartDelays,             \* ticks until the availableAt a client asks for
  Deadlines,               \* ticks until the deadlineAt a client asks for, or None
  ParkDelays,              \* ticks until the resume time of a parked run
  StepDelays,              \* backoff delays of a failed step
  MaxClaims,               \* bound: a run claimed this often is not given back again
  MaxLapses,               \* bound: how often a lease lapses under a live execution
  MaxCrashes               \* bound: how many slots die

Statuses == {"pending", "running", "completed", "failed", "canceled"}
Active   == {"pending", "running"}
Terminal == {"completed", "failed", "canceled"}
Errors   == {"workflow", "step", "deadline", "unregistered"}

\* A retry policy as resolved: zero attempts means no limit.
Policies ==
  [initialInterval : Nat, maximumInterval : Nat, maximumAttempts : Nat]

\* A RunRow stands for the row of a run, "absent" for a run nobody created.
RunRow ==
  [status      : Statuses \cup {"absent"},
   workerId    : Slots \cup {None},
   availableIn : Nat \cup {None},
   deadlineIn  : Nat \cup {None},
   attempts    : Nat,
   error       : Errors \cup {None}]

\* What an execution keeps of the row its claim returned.
Execution == [slot : Slots, run : Runs, attempts : Nat]

ASSUME NoneAssumption ==
  /\ None \notin Nat
  /\ None \notin Slots
  /\ None \notin Errors
  /\ Infinity \notin Nat

ASSUME TimeAssumption ==
  /\ Lease \in Nat
  /\ StartDelays \subseteq Nat
  /\ Deadlines \subseteq Nat \cup {None}
  /\ ParkDelays \subseteq Nat
  /\ StepDelays \subseteq Nat

ASSUME PolicyAssumption ==
  /\ MissingDefinitionPolicy \in Policies
  /\ \A r \in Runs :
       /\ RetryPolicy[r].initialInterval \in Nat
       /\ RetryPolicy[r].maximumInterval \in Nat
  /\ \A w \in Slots : Registered[w] \subseteq Runs

ASSUME BoundAssumption == MaxClaims \in Nat /\ MaxLapses \in Nat /\ MaxCrashes \in Nat

VARIABLES
  run,     \* run[r]: the row of r
  execs,   \* the executions in progress
  alive,   \* the slots whose process has not died
  lapses   \* how many leases have lapsed under a live execution

vars == <<run, execs, alive, lapses>>

TypeOK ==
  /\ run \in [Runs -> RunRow]
  /\ execs \subseteq Execution
  /\ alive \subseteq Slots
  /\ lapses \in Nat

-----------------------------------------------------------------------------
(* Retry policies *)

\* resolveRetryPolicy: anything but a whole number of attempts falls back to
\* the single attempt of DEFAULT_WORKFLOW_RETRY_POLICY.
ResolvedPolicy(r) ==
  [initialInterval |-> RetryPolicy[r].initialInterval,
   maximumInterval |-> RetryPolicy[r].maximumInterval,
   maximumAttempts |-> IF RetryPolicy[r].maximumAttempts \in Nat
                       THEN RetryPolicy[r].maximumAttempts ELSE 1]

\* DEFAULT_WORKFLOW_RETRY_POLICY, which the executor applies to a run whose
\* step is out of attempts: one attempt, so its intervals never matter.
DefaultPolicy ==
  [initialInterval |-> 1, maximumInterval |-> 100, maximumAttempts |-> 1]

\* computeBackoffDelayMs with coefficient 2: doubled per attempt, then capped.
BackoffDelay(policy, attempt) ==
  LET exponential ==
        policy.initialInterval * 2^(IF attempt > 1 THEN attempt - 1 ELSE 0)
  IN  IF exponential \in 0 .. policy.maximumInterval
      THEN exponential ELSE policy.maximumInterval

\* A time d ticks away is before the deadline of the row.
BeforeDeadline(row, d) == row.deadlineIn # None => d < row.deadlineIn

\* Mutant: schedules a retry the deadline will overtake.
OutOfRetriesPastDeadline(row, policy, attempts) ==
  \/ row.deadlineIn = 0
  \/ policy.maximumAttempts > 0 /\ attempts >= policy.maximumAttempts

\* computeFailedWorkflowRunUpdate refuses another attempt.
OutOfRetries(row, policy, attempts) ==
  \/ row.deadlineIn = 0
  \/ policy.maximumAttempts > 0 /\ attempts >= policy.maximumAttempts
  \/ ~BeforeDeadline(row, BackoffDelay(policy, attempts))

-----------------------------------------------------------------------------
(* Row updates: the SET clauses *)

FailedRow(row, error) ==
  [row EXCEPT !.status = "failed", !.workerId = None,
              !.availableIn = None, !.error = error]

PendingRow(row, delay, error) ==
  [row EXCEPT !.status = "pending", !.workerId = None,
              !.availableIn = delay, !.error = error]

\* failWorkflowRun: the row after an error, given the attempts of the claim.
RowAfterError(row, policy, attempts, error) ==
  IF OutOfRetries(row, policy, attempts)
  THEN FailedRow(row, IF row.deadlineIn = 0 THEN "deadline" ELSE error)
  ELSE PendingRow(row, BackoffDelay(policy, attempts), error)

CompletedRow(row) ==
  [row EXCEPT !.status = "completed", !.availableIn = None, !.error = None]

ParkedRow(row, delay) ==
  [row EXCEPT !.status = "running", !.workerId = None, !.availableIn = delay]

\* Mutant: counts failures only, a claim leaves the counter alone.
ClaimedRowUncounted(row, w) ==
  [row EXCEPT !.status = "running", !.workerId = w, !.availableIn = Lease]

ClaimedRow(row, w) ==
  [row EXCEPT !.status = "running", !.attempts = row.attempts + 1,
              !.workerId = w, !.availableIn = Lease]

\* Mutant: leaves the canceled row in the index of due rows.
CanceledRowStillDue(row) ==
  [row EXCEPT !.status = "canceled", !.workerId = None]

CanceledRow(row) ==
  [row EXCEPT !.status = "canceled", !.workerId = None, !.availableIn = None]

-----------------------------------------------------------------------------
(* Clients *)

AbsentRow ==
  [status |-> "absent", workerId |-> None, availableIn |-> None,
   deadlineIn |-> None, attempts |-> 0, error |-> None]

Init ==
  /\ run = [r \in Runs |-> AbsentRow]
  /\ execs = {}
  /\ alive = Slots
  /\ lapses = 0

\* createWorkflowRun without an idempotency key: a pending row.
Create(r, start, deadline) ==
  /\ run[r].status = "absent"
  /\ run' = [run EXCEPT ![r] = [AbsentRow EXCEPT !.status = "pending",
                                                 !.availableIn = start,
                                                 !.deadlineIn = deadline]]
  /\ UNCHANGED <<execs, alive, lapses>>

\* cancelWorkflowRun: any unfinished run, whoever executes it.
Cancel(r) ==
  /\ run[r].status \in Active
  /\ run' = [run EXCEPT ![r] = CanceledRow(run[r])]
  /\ UNCHANGED <<execs, alive, lapses>>

\* wakeParentWorkflowRun, sendSignal and the reconciliation of a parked run
\* pull the availability of a run that has waits forward to now: a parked run,
\* or (sendSignal) one that another branch has failed since and that waits for
\* its retry.
Wake(r) ==
  /\ run[r].status \in Active
  /\ run[r].workerId = None
  /\ run[r].attempts > 0
  /\ run[r].availableIn # 0
  /\ run' = [run EXCEPT ![r].availableIn = 0]
  /\ UNCHANGED <<execs, alive, lapses>>

-----------------------------------------------------------------------------
(* Claiming *)

\* The rows the "expired" part of the claim statement fails.
Overdue == {r \in Runs : run[r].status \in Active /\ run[r].deadlineIn = 0}

\* Mutant: trusts a running row to its worker for good.
DuePendingOnly ==
  {r \in Runs : /\ run[r].status = "pending"
                /\ run[r].availableIn = 0
                /\ run[r].deadlineIn # 0}

\* The rows its "candidate" part selects from.
Due ==
  {r \in Runs : /\ run[r].status \in Active
                /\ run[r].availableIn = 0
                /\ run[r].deadlineIn # 0}

\* Pending rows go first.  Among rows of one class the statement takes the
\* one that has been due longest; here any of them.
Candidates ==
  LET pending == {r \in Due : run[r].status = "pending"}
  IN  IF pending # {} THEN pending ELSE Due

ExpiredRows == [r \in Runs |-> IF r \in Overdue THEN FailedRow(run[r], "deadline")
                                               ELSE run[r]]

\* Mutant: polls for busy slots too.
IdleWhileExecuting(w) == w \in alive

\* The slots a tick polls for: those busy with an execution are left out.
Idle(w) == w \in alive /\ \A e \in execs : e.slot # w

\* claimWorkflowRun finds a row.  A deploy reaches every worker in the end:
\* after MaxClaims claims only a slot that knows the workflow takes the run.
Claim(w, r) ==
  LET claimed == ClaimedRow(run[r], w)
  IN  /\ Idle(w)
      /\ r \in Candidates
      /\ r \in Registered[w] \/ run[r].attempts < MaxClaims
      /\ run' = [ExpiredRows EXCEPT ![r] = claimed]
      /\ execs' = execs \cup {[slot |-> w, run |-> r, attempts |-> claimed.attempts]}
      /\ UNCHANGED <<alive, lapses>>

\* claimWorkflowRun finds no row to claim; it still fails the overdue ones.
ClaimNone(w) ==
  /\ Idle(w)
  /\ Due = {}
  /\ Overdue # {}
  /\ run' = ExpiredRows
  /\ UNCHANGED <<execs, alive, lapses>>

-----------------------------------------------------------------------------
(* Executing *)

\* Mutant: any running row will do.
OwnedByAnyone(row, w) == row.status = "running"

\* The fence of every later statement of an execution:
\* runningWorkflowRunOwnedByWorkerWhere.
OwnedBy(row, w) == row.status = "running" /\ row.workerId = w

Owns(e) == OwnedBy(run[e.run], e.slot)

\* The definition was found, the slot runs the workflow function.
Executing(e) == e.run \in Registered[e.slot]

\* The run may be given back to the queue once more (see MaxClaims).
MayGiveBack(e) == e.attempts < MaxClaims

\* The last statement of an execution.  When the fence matches no row the
\* statement throws, the executor reads the row, finds that it is no longer
\* its own and swallows the error: nothing is written.
Finish(e, row) ==
  /\ run' = IF Owns(e) THEN [run EXCEPT ![e.run] = row] ELSE run
  /\ execs' = execs \ {e}
  /\ UNCHANGED <<alive, lapses>>

\* The heartbeat timer fires after half a lease, or late.
Heartbeat(e) ==
  /\ Executing(e)
  /\ Owns(e)
  /\ run[e.run].availableIn <= Lease \div 2
  /\ run' = [run EXCEPT ![e.run].availableIn = Lease]
  /\ UNCHANGED <<execs, alive, lapses>>

\* The workflow function returned.
Complete(e) ==
  /\ Executing(e)
  /\ Finish(e, CompletedRow(run[e.run]))

\* The workflow function reached a sleep or a wait: SleepSignal.
Park(e, delay) ==
  /\ Executing(e)
  /\ MayGiveBack(e)
  /\ Finish(e, ParkedRow(run[e.run], delay))

\* The workflow function threw an error of its own.
Throw(e) ==
  LET row == RowAfterError(run[e.run], ResolvedPolicy(e.run), e.attempts, "workflow")
  IN  /\ Executing(e)
      /\ row.status = "pending" => MayGiveBack(e)
      /\ Finish(e, row)

\* A step failed and may be tried again: the run waits for the step's backoff.
RetryStep(e, delay) ==
  /\ Executing(e)
  /\ MayGiveBack(e)
  /\ run[e.run].deadlineIn # 0
  /\ BeforeDeadline(run[e.run], delay)
  /\ Finish(e, PendingRow(run[e.run], delay, "step"))

\* A step is out of attempts, or the run used up its step attempts.
StepOutOfRetries(e) ==
  /\ Executing(e)
  /\ Finish(e, RowAfterError(run[e.run], DefaultPolicy, e.attempts, "step"))

\* The claimed workflow is not registered with this worker.
MissingDefinition(e) ==
  /\ ~Executing(e)
  /\ Finish(e, RowAfterError(run[e.run], MissingDefinitionPolicy,
                             e.attempts, "unregistered"))

\* The execution ends without a write: the database refused the statement,
\* or a stale branch of the workflow function was the last to end.
Abandon(e) ==
  /\ MayGiveBack(e)
  /\ execs' = execs \ {e}
  /\ UNCHANGED <<run, alive, lapses>>

\* The process dies.  A restarted process has new worker ids.
Crash(w) ==
  /\ w \in alive
  /\ Cardinality(Slots \ alive) < MaxCrashes
  /\ alive' = alive \ {w}
  /\ execs' = {e \in execs : e.slot # w}
  /\ UNCHANGED <<run, lapses>>

-----------------------------------------------------------------------------
(* Time *)

\* Mutant: a timer runs on after it is due.
CountdownBelowZero(t) == IF t = None THEN t ELSE t - 1

Countdown(t) == IF t = None \/ t = 0 THEN t ELSE t - 1

\* The executions whose lease lapses with the next tick.
Lapsing == {e \in execs : Owns(e) /\ run[e.run].availableIn = 1}

\* A heartbeat that does not come in time (a blocked event loop, a database
\* that is away) lets a lease lapse under a live execution.
Tick ==
  /\ Lapsing # {} => lapses < MaxLapses
  /\ run' = [r \in Runs |->
               [run[r] EXCEPT !.availableIn = Countdown(run[r].availableIn),
                              !.deadlineIn  = Countdown(run[r].deadlineIn)]]
  /\ lapses' = IF Lapsing # {} THEN lapses + 1 ELSE lapses
  /\ UNCHANGED <<execs, alive>>

-----------------------------------------------------------------------------

Client(r) ==
  \/ \E s \in StartDelays, d \in Deadlines : Create(r, s, d)
  \/ Cancel(r)
  \/ Wake(r)

Poll(w) == ClaimNone(w) \/ \E r \in Runs : Claim(w, r)

\* The end of an execution, whatever its reason.
End(e) ==
  \/ Complete(e) \/ Throw(e) \/ StepOutOfRetries(e) \/ MissingDefinition(e)
  \/ \E d \in ParkDelays : Park(e, d)
  \/ \E d \in StepDelays : RetryStep(e, d)
  \/ Abandon(e)

Next ==
  \/ \E r \in Runs : Client(r)
  \/ \E w \in Slots : Poll(w) \/ Crash(w)
  \/ \E e \in execs : Heartbeat(e) \/ End(e)
  \/ Tick

Spec == Init /\ [][Next]_vars

\* Clocks advance, the poll loops and heartbeat timers of live processes fire,
\* and every execution ends.  Clients, wake-ups and crashes are not promised.
Fairness ==
  /\ WF_vars(Tick)
  /\ \A w \in Slots :
       /\ WF_vars(Poll(w))
       /\ WF_vars(\E e \in execs : e.slot = w /\ Heartbeat(e))
       /\ WF_vars(\E e \in execs : e.slot = w /\ End(e))

FairSpec == Spec /\ Fairness

-----------------------------------------------------------------------------
(* Properties *)

\* The fence of the statements is the worker id, not the number of the claim.
\* It is enough: an execution that passes the fence is the one of the newest
\* claim of its run, even when its slot held the run before (a slot does not
\* claim while it executes, and a restarted process has new ids).
LatestClaimOwns == \A e \in execs : Owns(e) => e.attempts = run[e.run].attempts

\* Whatever happened to the execution of an unfinished run (crash, lost lease,
\* refused statement), the row becomes due again by itself: it has a due time,
\* and while a slot owns it that time is at most a lease away.  A finished run
\* never becomes due.
BecomesDue(row) ==
  /\ row.status \in Active => row.availableIn # None
  /\ row.status \in Terminal => row.availableIn = None
  /\ row.status \in Active /\ row.workerId # None =>
       /\ row.status = "running"
       /\ row.availableIn <= Lease

RunsBecomeDue == \A r \in Runs : BecomesDue(run[r])

\* A retry that failWorkflowRun or a failed step schedules is due before the
\* deadline of the run; it is not put where the deadline is sure to win.
RetryIsDueInTime(row) ==
  row.status = "pending" /\ row.attempts > 0 =>
    row.availableIn = 0 \/ BeforeDeadline(row, row.availableIn)

RetryBeforeDeadline == \A r \in Runs : RetryIsDueInTime(run[r])

\* "Unbounded retries are still supported by setting retryPolicy.maximumAttempts
\* to Infinity or 0" (CHANGELOG.md:38): a run without a deadline whose workflow
\* asks for them is not failed by an error of its workflow function.
AsksForUnboundedRetries(r) == RetryPolicy[r].maximumAttempts \in {0, Infinity}

UnboundedRetries ==
  \A r \in Runs :
    AsksForUnboundedRetries(r) /\ run[r].deadlineIn = None =>
      ~(run[r].status = "failed" /\ run[r].error = "workflow")

\* A run one of whose steps is out of attempts fails for good: the default
\* policy (one attempt) refuses every run that has been claimed at all.
StepExhaustionIsFinal ==
  [][\A e \in execs : StepOutOfRetries(e) /\ Owns(e) =>
       run'[e.run].status = "failed"]_vars

\* The engine keeps the promise of FencedRuns: claim numbers are the tokens,
\* though no statement looks at them.
PhaseOf(row) ==
  CASE row.status = "pending" -> "waiting"
    [] row.status = "running" -> IF row.workerId = None THEN "waiting" ELSE "held"
    [] OTHER -> row.status

Fenced == INSTANCE FencedRuns WITH
  phase <- [r \in Runs |-> PhaseOf(run[r])],
  token <- [r \in Runs |-> run[r].attempts],
  live  <- {[run |-> e.run, token |-> e.attempts] : e \in execs}

ImplementsFencedRuns == Fenced!Spec

\* Every created run reaches an outcome while one slot that knows its workflow
\* survives, through crashes, lost leases, retries and parks.
RunsEnd == \A r \in Runs : run[r].status \in Active ~> run[r].status \in Terminal
===============================================================================
