------------------------------ MODULE ParkedWaits ------------------------------
(***************************************************************************)
(* One run of the durable engine whose workflow function waits for several *)
(* things at once, Promise.all over step.sleep, step.runWorkflow and       *)
(* step.waitForSignal, and everybody who may wake it.                      *)
(*                                                                         *)
(* A pass of the function records a step attempt per wait.  The first      *)
(* branch that cannot go on throws a SleepSignal, and the run is parked:   *)
(* its worker lets go of the row until the earliest wait ends.  A child    *)
(* that ends and a signal that is sent make a parked row due at once.      *)
(* They touch several rows in several statements, and so does the parking: *)
(* on Postgres each statement commits on its own, except those of          *)
(* sendSignal, which become visible together; SQLite parks in one          *)
(* statement and sends in one transaction that nothing interleaves with.   *)
(*                                                                         *)
(* Passes follow each other under different worker ids, so that what is    *)
(* left of an earlier pass fails the fence (WorkflowRuns is about that);   *)
(* only the insertion of a step attempt has no fence.  A child that fails  *)
(* or is canceled ends the run, a child here either succeeds or times out. *)
(***************************************************************************)
EXTENDS Integers, Sequences, FiniteSets, FiniteSetsExt

CONSTANTS
  Waits,       \* the steps the workflow function waits for
  Kind,        \* Kind[w]: "sleep", "workflow" or "signal"
  Duration,    \* Duration[w]: of a sleep, or the timeout of the other kinds
  Postgres,    \* TRUE: BackendPostgres, FALSE: BackendSqlite
  StepLimit,   \* WORKFLOW_STEP_LIMIT
  Lease,       \* DEFAULT_LEASE_DURATION_MS
  MaxTime,     \* bound: the clock stops there
  MaxCrashes   \* bound: how many processes die

ASSUME WaitsAssumption ==
  /\ Kind \in [Waits -> {"sleep", "workflow", "signal"}]
  /\ Duration \in [Waits -> Nat]
  /\ Postgres \in BOOLEAN
  /\ StepLimit \in Nat
  /\ Lease \in Nat
  /\ MaxTime \in Nat
  /\ MaxCrashes \in Nat

\* A step attempt with the child run linked to it or the signal delivered to
\* it.  A child that is "finishing" has ended and has not woken its parent.
\* A delivery is "inserted" and then "swept" (its sender has looked for a
\* parked run) while the transaction of the sender is open.
Attempt ==
  [status   : {"running", "completed"},
   until    : Nat,      \* resumeAt or timeoutAt
   linked   : BOOLEAN,  \* childWorkflowRunId is set
   child    : {"absent", "active", "finishing", "ended"},
   overdue  : BOOLEAN,  \* the child ended after the timeout
   delivery : {"none", "inserted", "swept", "committed"},
   timedOut : BOOLEAN]  \* the step was completed with null

VARIABLES
  run,          \* the row of the run: status, owned, available
  attempts,     \* attempts[w]: the step attempts of w in order of creation
  pass,         \* the pass in progress: what its worker keeps in memory
  branch,       \* branch[w]: where the branch of w is in the pass
  late,         \* the waits an earlier pass is still inserting an attempt of
  reconciling,  \* a run was parked and not yet reconciled
  now,          \* the clock
  crashes       \* processes that have died

vars == <<run, attempts, pass, branch, late, reconciling, now, crashes>>

TypeOK ==
  /\ run \in [status : {"running", "completed", "failed"},
              owned : BOOLEAN, available : Nat]
  /\ \A w \in Waits : \A i \in DOMAIN attempts[w] : attempts[w][i] \in Attempt
  /\ pass.pc \in {"none", "running", "parking"}
  /\ pass.resumeAt \in Nat
  /\ \A w \in Waits : pass.known[w] \in 0 .. Len(attempts[w])
  /\ branch \in [Waits -> {"idle", "inserting", "sleeping", "creating", "linking",
                           "resolving", "timing out", "done"}]
  /\ \A w \in Waits : branch[w] \notin {"idle", "inserting", "done"} => pass.known[w] # 0
  /\ late \subseteq Waits
  /\ reconciling \in BOOLEAN
  /\ now \in 0 .. MaxTime
  /\ crashes \in 0 .. MaxCrashes

\* resolveWaitTimeoutAt, and the resume time of a sleep.
TimeoutAt(w) == now + Duration[w]

NewAttempt(w) ==
  [status |-> "running", until |-> TimeoutAt(w), linked |-> FALSE,
   child |-> "absent", overdue |-> FALSE, delivery |-> "none", timedOut |-> FALSE]

Idle == [w \in Waits |-> "idle"]

NoPass == [pc |-> "none", resumeAt |-> 0, known |-> [w \in Waits |-> 0]]

Init ==
  /\ run = [status |-> "running", owned |-> FALSE, available |-> 0]
  /\ attempts = [w \in Waits |-> <<>>]
  /\ pass = NoPass
  /\ branch = Idle
  /\ late = {}
  /\ reconciling = FALSE
  /\ now = 0
  /\ crashes = 0

-----------------------------------------------------------------------------
(* The row of the run *)

Parked == run.status = "running" /\ ~run.owned

\* What wakeParentWorkflowRun, sendSignal and the reconciliation write.
WokenRow == IF Parked /\ run.available > now THEN [run EXCEPT !.available = now]
                                             ELSE run

\* The attempt waits for a child that has ended or a signal that was delivered.
HasResult(w, a) ==
  /\ a.status = "running"
  /\ \/ Kind[w] = "workflow" /\ a.linked /\ a.child \in {"finishing", "ended"}
     \/ Kind[w] = "signal" /\ a.delivery = "committed"

AnyResult == \E w \in Waits : \E i \in DOMAIN attempts[w] : HasResult(w, attempts[w][i])

-----------------------------------------------------------------------------
(* The history of a pass *)

\* The running attempt a history keeps of a step: the latest, 0 if none.
LatestRunning(seq) ==
  LET running == {i \in DOMAIN seq : seq[i].status = "running"}
  IN  IF running = {} THEN 0 ELSE Max(running)

Cached(seq) == \E i \in DOMAIN seq : seq[i].status = "completed"

StepCount == MapThenSumSet(LAMBDA w : Len(attempts[w]), Waits)

\* Mutant: parks until the last of the waits.
EarliestIsLatest(seqs, known) ==
  Max({seqs[w][known[w]].until : w \in {x \in Waits : known[x] # 0}})

\* earliestRunningWaitResumeAt over the running attempts known to a pass.
Earliest(seqs, known) == Min({seqs[w][known[w]].until : w \in {x \in Waits : known[x] # 0}})

\* completeElapsedRunningSleepAttempts.
SleepElapsed(w) ==
  /\ Kind[w] = "sleep"
  /\ LatestRunning(attempts[w]) # 0
  /\ attempts[w][LatestRunning(attempts[w])].until <= now

LoadedAttempts ==
  [w \in Waits |-> IF SleepElapsed(w)
                   THEN [attempts[w] EXCEPT ![LatestRunning(attempts[w])].status = "completed"]
                   ELSE attempts[w]]

LoadedKnown ==
  [w \in Waits |-> IF SleepElapsed(w) THEN 0 ELSE LatestRunning(attempts[w])]

\* Mutant: the workflow function is called whatever sleeps are running.
NeverAsleep == FALSE

\* A sleep is still running and nothing else is over: the function is not called.
StillAsleep ==
  /\ \E w \in Waits : Kind[w] = "sleep" /\ LoadedKnown[w] # 0
  /\ now < Earliest(LoadedAttempts, LoadedKnown)

\* Mutant: looks for completed attempts only.
FirstAwaitCachedOnly(w) == IF Cached(LoadedAttempts[w]) THEN "done" ELSE "inserting"

\* waitForSignal and runWorkflow go on with the running attempt, if there is one.
AwaitSignal(w) == IF LoadedKnown[w] = 0 THEN "inserting" ELSE "resolving"

AwaitChild(w) ==
  LET i == LoadedKnown[w]
  IN  CASE i = 0                                -> "inserting"
        [] i # 0 /\ ~LoadedAttempts[w][i].linked -> "creating"
        [] i # 0 /\ LoadedAttempts[w][i].linked  -> "resolving"

\* Where the branch of a wait is when the function has been called and every
\* branch has reached its first await.  A sleep is never looked up among the
\* running attempts.
FirstAwait(w) ==
  IF Cached(LoadedAttempts[w]) THEN "done"
  ELSE CASE Kind[w] = "sleep"    -> "inserting"
         [] Kind[w] = "signal"   -> AwaitSignal(w)
         [] Kind[w] = "workflow" -> AwaitChild(w)

-----------------------------------------------------------------------------
(* A pass *)

EndPass ==
  /\ pass' = NoPass
  /\ branch' = Idle

FailRun ==
  /\ run' = [run EXCEPT !.status = "failed", !.owned = FALSE]
  /\ EndPass

\* A branch throws SleepSignal, which ends the pass.  On SQLite all insertions
\* of a Promise.all are done before a branch goes on; the connections of
\* Postgres answer in any order.
ThrowSleepSignal(w) ==
  /\ pass.pc = "running"
  /\ Postgres \/ \A x \in Waits : branch[x] # "inserting"
  /\ pass' = [pass EXCEPT !.pc = "parking", !.resumeAt = Earliest(attempts, pass.known)]
  /\ branch' = [branch EXCEPT ![w] = "idle"]
  /\ UNCHANGED <<run, attempts, late, reconciling, now, crashes>>

\* claimWorkflowRun finds the run.  The row of a worker that died is due when
\* its lease has lapsed.
Claimed == [run EXCEPT !.owned = TRUE, !.available = now + Lease]

\* executeWorkflow finds too long a history.
FailOverlong ==
  /\ StepCount > StepLimit
  /\ FailRun
  /\ UNCHANGED attempts

\* It parks again without calling the workflow function.
ParkAgain ==
  /\ StepCount <= StepLimit
  /\ StillAsleep
  /\ attempts' = LoadedAttempts
  /\ run' = Claimed
  /\ pass' = [pc |-> "parking", known |-> LoadedKnown,
              resumeAt |-> Earliest(LoadedAttempts, LoadedKnown)]
  /\ UNCHANGED branch

\* It calls the workflow function, which asks for one more step attempt than
\* the limit allows ...
FailAtLimit ==
  /\ StepCount = StepLimit
  /\ ~StillAsleep
  /\ \E w \in Waits : FirstAwait(w) = "inserting"
  /\ attempts' = LoadedAttempts
  /\ FailRun

\* ... or goes as far as the first await of every branch.
CallFunction ==
  /\ StepCount <= StepLimit
  /\ ~StillAsleep
  /\ StepCount = StepLimit => \A w \in Waits : FirstAwait(w) # "inserting"
  /\ attempts' = LoadedAttempts
  /\ run' = Claimed
  /\ pass' = [pc |-> "running", known |-> LoadedKnown, resumeAt |-> 0]
  /\ branch' = [w \in Waits |-> FirstAwait(w)]

Claim ==
  /\ run.status = "running"
  /\ run.available <= now
  /\ pass.pc = "none"
  /\ FailOverlong \/ ParkAgain \/ FailAtLimit \/ CallFunction
  /\ UNCHANGED <<late, reconciling, now, crashes>>

\* createStepAttempt returns.  An ended pass goes no further, but for the
\* look at a delivery.
Insert(w) ==
  LET next == IF Kind[w] = "signal" THEN "resolving"
              ELSE IF pass.pc # "running" THEN "idle"
              ELSE IF Kind[w] = "sleep" THEN "sleeping" ELSE "creating"
  IN  /\ branch[w] = "inserting"
      /\ attempts' = [attempts EXCEPT ![w] = Append(@, NewAttempt(w))]
      /\ pass' = [pass EXCEPT !.known[w] = Len(attempts[w]) + 1]
      /\ branch' = [branch EXCEPT ![w] = next]
      /\ UNCHANGED <<run, late, reconciling, now, crashes>>

\* The insertion of an earlier pass, which nothing fences.
InsertLate(w) ==
  /\ w \in late
  /\ late' = late \ {w}
  /\ attempts' = [attempts EXCEPT ![w] = Append(@, NewAttempt(w))]
  /\ UNCHANGED <<run, pass, branch, reconciling, now, crashes>>

Sleep(w) ==
  /\ branch[w] = "sleeping"
  /\ ThrowSleepSignal(w)

\* linkChildWorkflowRun: the child is created under an idempotency key made
\* of the attempt, so that it is created once, and then linked.
CreateChild(w) ==
  LET i == pass.known[w]
  IN  /\ branch[w] = "creating"
      /\ pass.pc = "running"
      /\ attempts' = [attempts EXCEPT ![w][i].child = IF @ = "absent" THEN "active" ELSE @]
      /\ branch' = [branch EXCEPT ![w] = "linking"]
      /\ UNCHANGED <<run, pass, late, reconciling, now, crashes>>

LinkChild(w) ==
  /\ branch[w] = "linking"
  /\ pass.pc = "running"
  /\ attempts' = [attempts EXCEPT ![w][pass.known[w]].linked = TRUE]
  /\ branch' = [branch EXCEPT ![w] = "resolving"]
  /\ UNCHANGED <<run, pass, late, reconciling, now, crashes>>

\* completeStepAttempt and recordCompletion.  A branch whose pass is about to
\* park the run still owns the row.
CompleteStep(w, timedOut) ==
  LET i == pass.known[w]
  IN  /\ attempts' = [attempts EXCEPT ![w][i].status = "completed",
                                      ![w][i].timedOut = timedOut]
      /\ pass' = [pass EXCEPT !.known[w] = 0]
      /\ branch' = [branch EXCEPT ![w] = "done"]
      /\ UNCHANGED <<run, late, reconciling, now, crashes>>

ChildEnded(a) == a.child \in {"finishing", "ended"}

\* hasWorkflowTimedOut: a child that ended in time is not overdue.
ChildTimedOut(a) == a.until <= now /\ (ChildEnded(a) => a.overdue)

\* resolveRunningWorkflow: the timeout comes before the result.
ResolveChild(w) ==
  LET a        == attempts[w][pass.known[w]]
      ended    == ChildEnded(a)
      timedOut == ChildTimedOut(a)
  IN  /\ branch[w] = "resolving"
      /\ Kind[w] = "workflow"
      /\ \/ /\ timedOut
            /\ pass.pc = "running"
            /\ FailRun
            /\ UNCHANGED <<attempts, late, reconciling, now, crashes>>
         \/ ~timedOut /\ ended /\ CompleteStep(w, FALSE)
         \/ ~timedOut /\ ~ended /\ ThrowSleepSignal(w)

\* resolveSignalWait reads the delivery, and the clock if there is none.
ResolveSignal(w) ==
  LET a == attempts[w][pass.known[w]]
  IN  /\ branch[w] = "resolving"
      /\ Kind[w] = "signal"
      /\ \/ a.delivery = "committed" /\ CompleteStep(w, FALSE)
         \/ /\ a.delivery # "committed"
            /\ a.until <= now
            /\ branch' = [branch EXCEPT ![w] = "timing out"]
            /\ UNCHANGED <<run, attempts, pass, late, reconciling, now, crashes>>
         \/ /\ a.delivery # "committed"
            /\ a.until > now
            /\ ThrowSleepSignal(w)

\* The step is completed with null, once no sender holds the lock on it.
TimeOut(w) ==
  /\ branch[w] = "timing out"
  /\ attempts[w][pass.known[w]].delivery \notin {"inserted", "swept"}
  /\ CompleteStep(w, TRUE)

\* Every branch returned.
Complete ==
  /\ pass.pc = "running"
  /\ \A w \in Waits : branch[w] = "done"
  /\ run' = [run EXCEPT !.status = "completed"]
  /\ EndPass
  /\ UNCHANGED <<attempts, late, reconciling, now, crashes>>

\* Mutant: parks until the earliest timeout, whatever has arrived meanwhile.
ParkBlindly ==
  /\ pass.pc = "parking"
  /\ run' = [run EXCEPT !.owned = FALSE, !.available = pass.resumeAt]
  /\ reconciling' = Postgres
  /\ late' = late \cup {w \in Waits : branch[w] = "inserting"}
  /\ EndPass
  /\ UNCHANGED <<attempts, now, crashes>>

\* sleepWorkflowRun.  SQLite looks for results in the same statement.
Park ==
  LET available == IF ~Postgres /\ AnyResult /\ pass.resumeAt > now
                   THEN now ELSE pass.resumeAt
  IN  /\ pass.pc = "parking"
      /\ run' = [run EXCEPT !.owned = FALSE, !.available = available]
      /\ reconciling' = Postgres
      /\ late' = late \cup {w \in Waits : branch[w] = "inserting"}
      /\ EndPass
      /\ UNCHANGED <<attempts, now, crashes>>

\* Mutant: trusts wakeParentWorkflowRun.
ReconcileNothing ==
  /\ reconciling
  /\ reconciling' = FALSE
  /\ UNCHANGED <<run, attempts, pass, branch, late, now, crashes>>

\* reconcileWorkflowSleepWakeUp.
Reconcile ==
  /\ reconciling
  /\ reconciling' = FALSE
  /\ run' = IF AnyResult THEN WokenRow ELSE run
  /\ UNCHANGED <<attempts, pass, branch, late, now, crashes>>

-----------------------------------------------------------------------------
(* Children and senders *)

\* completeWorkflowRun of the child, its first statement ...
EndChild(w, i) ==
  /\ attempts[w][i].child = "active"
  /\ attempts' = [attempts EXCEPT ![w][i].child = "finishing",
                                  ![w][i].overdue = now > attempts[w][i].until]
  /\ UNCHANGED <<run, pass, branch, late, reconciling, now, crashes>>

\* ... and its second, wakeParentWorkflowRun.
WakeParent(w, i) ==
  /\ attempts[w][i].child = "finishing"
  /\ attempts' = [attempts EXCEPT ![w][i].child = "ended"]
  /\ run' = IF attempts[w][i].status = "running" /\ attempts[w][i].linked
            THEN WokenRow ELSE run
  /\ UNCHANGED <<pass, branch, late, reconciling, now, crashes>>

\* The deliveries of w that are in the given state.
WithDelivery(w, state) ==
  {i \in DOMAIN attempts[w] : attempts[w][i].delivery = state}

Deliver(w, indices, state) ==
  attempts' = [attempts EXCEPT ![w] =
    [i \in DOMAIN attempts[w] |->
       IF i \in indices THEN [attempts[w][i] EXCEPT !.delivery = state] ELSE attempts[w][i]]]

\* The attempts sendSignal inserts a delivery for.
Waiters(w) == {i \in WithDelivery(w, "none") : attempts[w][i].status = "running"}

\* sendSignal: on SQLite one transaction, on Postgres its insertions only.
Send(w) ==
  LET waiters == Waiters(w)
  IN  /\ Kind[w] = "signal"
      /\ waiters # {}
      /\ Deliver(w, waiters, IF Postgres THEN "inserted" ELSE "committed")
      /\ run' = IF Postgres THEN run ELSE WokenRow
      /\ UNCHANGED <<pass, branch, late, reconciling, now, crashes>>

\* Its update of the runs.  A row that it matched stays locked until the
\* transaction commits, so the two are one step; a row that a worker owns is
\* not matched and not locked.
Sweep(w) ==
  LET sent == WithDelivery(w, "inserted")
  IN  /\ sent # {}
      /\ Deliver(w, sent, IF Parked THEN "committed" ELSE "swept")
      /\ run' = WokenRow
      /\ UNCHANGED <<pass, branch, late, reconciling, now, crashes>>

Commit(w) ==
  LET sent == WithDelivery(w, "swept")
  IN  /\ sent # {}
      /\ Deliver(w, sent, "committed")
      /\ UNCHANGED <<run, pass, branch, late, reconciling, now, crashes>>

-----------------------------------------------------------------------------
(* Crashes and time *)

Crash ==
  /\ crashes < MaxCrashes
  /\ crashes' = crashes + 1

\* The worker dies during a pass; its lease lapses.
CrashInPass ==
  /\ pass.pc # "none"
  /\ Crash
  /\ run' = [run EXCEPT !.available = now + Lease]
  /\ EndPass
  /\ UNCHANGED <<attempts, late, reconciling, now>>

\* It dies between parking the run and reconciling it.
CrashParked ==
  /\ reconciling
  /\ Crash
  /\ reconciling' = FALSE
  /\ UNCHANGED <<run, attempts, pass, branch, late, now>>

\* The worker of a child dies before it wakes the parent.
CrashChild(w, i) ==
  /\ attempts[w][i].child = "finishing"
  /\ Crash
  /\ attempts' = [attempts EXCEPT ![w][i].child = "ended"]
  /\ UNCHANGED <<run, pass, branch, late, reconciling, now>>

Tick ==
  /\ now < MaxTime
  /\ now' = now + 1
  /\ UNCHANGED <<run, attempts, pass, branch, late, reconciling, crashes>>

-----------------------------------------------------------------------------

Branch(w) ==
  \/ Insert(w) \/ Sleep(w)
  \/ CreateChild(w) \/ LinkChild(w) \/ ResolveChild(w)
  \/ ResolveSignal(w) \/ TimeOut(w)

Child(w, i) == EndChild(w, i) \/ WakeParent(w, i) \/ CrashChild(w, i)

Sender(w) == Send(w) \/ Sweep(w) \/ Commit(w)

Next ==
  \/ Claim \/ Complete \/ Park \/ Reconcile
  \/ \E w \in Waits : Branch(w) \/ InsertLate(w) \/ Sender(w)
  \/ \E w \in Waits : \E i \in DOMAIN attempts[w] : Child(w, i)
  \/ CrashInPass \/ CrashParked
  \/ Tick

Spec == Init /\ [][Next]_vars

\* A worker goes on while it lives, polls the table, and a statement of a
\* live process ends.  The branches of a pass race each other to the first
\* SleepSignal, and none of them loses the race in every pass.  Whether a
\* signal is sent and whether a child ends is up to others.
FairSpec ==
  /\ Spec
  /\ WF_vars(Claim) /\ WF_vars(Complete) /\ WF_vars(Park) /\ WF_vars(Reconcile)
  /\ \A w \in Waits : SF_vars(Branch(w))
  /\ WF_vars(\E w \in Waits : InsertLate(w))
  /\ WF_vars(\E w \in Waits : Sweep(w) \/ Commit(w))
  /\ WF_vars(\E w \in Waits : \E i \in DOMAIN attempts[w] : WakeParent(w, i))
  /\ WF_vars(Tick)

-----------------------------------------------------------------------------
(* Properties *)

\* The run is due if one of its waits of this kind has its result.
DueForResult(kind) ==
  \A w \in {x \in Waits : Kind[x] = kind} : \A i \in DOMAIN attempts[w] :
    HasResult(w, attempts[w][i]) /\ attempts[w][i].child # "finishing"
      => run.available <= now

\* While no process dies, a parked run one of whose children has ended is due
\* as soon as the child and the pass that parked the run are done: no order
\* of the statements of completeWorkflowRun and sleepWorkflowRun loses the
\* wake-up and leaves the run asleep until a timeout.
ChildrenWakeParents ==
  Parked /\ ~reconciling /\ crashes = 0 => DueForResult("workflow")

\* The same of signals and the statements of sendSignal.
SignalsWakeRuns ==
  Parked /\ ~reconciling /\ crashes = 0 => DueForResult("signal")

\* A parked run is due no later than the earliest of its waits ends
\* (StepHistory.resolveEarliestRunningWaitResumeAt).
ParksOnEarliestWait ==
  Parked /\ attempts # [w \in Waits |-> <<>>] =>
    \A w \in Waits :
      ~Cached(attempts[w]) /\ LatestRunning(attempts[w]) # 0
        => run.available <= attempts[w][LatestRunning(attempts[w])].until

\* A pass that wakes up for a result, or after a crash, does not start a sleep
\* over: that happens only after the time of another wait has run out, and a
\* sleep is then begun again in full (completeElapsedRunningSleepAttempts).
SleepsSurviveWakeUps ==
  \A w \in Waits : Kind[w] = "sleep" =>
    \A j \in 2 .. Len(attempts[w]) :
      \E x \in Waits \ {w} : \E i \in DOMAIN attempts[x] :
        attempts[x][i].until <= attempts[w][j].until - Duration[w]

\* A workflow step creates one child run, however often the function is
\* replayed and wherever a pass ended (StepExecutor.runWorkflow).
OneChildPerStep ==
  \A w \in Waits :
    Cardinality({i \in DOMAIN attempts[w] : attempts[w][i].child # "absent"}) <= 1

\* A run that sendSignal reports as having received the signal has it: its
\* wait does not end with null (OpenWorkflow.sendSignal).
ReportedSignalsAreReceived ==
  \A w \in Waits : \A i \in DOMAIN attempts[w] :
    ~(attempts[w][i].delivery = "committed" /\ attempts[w][i].timedOut)

\* The clock has stopped before the end of a sleep or of a dead worker's lease.
TimeIsUp ==
  /\ now = MaxTime
  /\ \/ \E w \in Waits : Kind[w] = "sleep" /\ LoadedKnown[w] # 0
     \/ run.owned /\ pass.pc = "none" /\ run.available > now

\* A child that has ended and a signal that was delivered are taken up while no
\* process dies: the step is completed or the run ends (StepExecutor.runWorkflow, waitForSignal).
ResultsAreTakenUp ==
  \A w \in {x \in Waits : Kind[x] # "sleep"} : \A i \in 1 .. StepLimit :
    LET Waiting == i \in DOMAIN attempts[w] /\ HasResult(w, attempts[w][i])
    IN  Waiting ~> (run.status # "running" \/ ~Waiting \/ TimeIsUp \/ crashes > 0)
===============================================================================
