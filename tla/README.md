# Thodare in TLA+

TLA+ specifications of Thodare, a workflow engine in TypeScript: models that
TLC checks on small instances, and theorems that TLAPS proves for instances of
any size. Paths below are relative to the repository, and `ow/` stands for
`packages/openworkflow/`.

    tlc -config WorkflowRuns.cfg MCWorkflowRuns     # check a configuration
    tlapm WorkflowRuns_proofs.tla                   # check the proofs

`PROJECT.json` lists every run, the code each definition stands for, a mutant
of the code for each property (a definition marked "Mutant" is what the code
would be with a plausible bug), the hazards of the code and the theorems.

## 1. The system

| Component | Sources | State | Operations | Module |
|---|---|---|---|---|
| Run table | `ow/postgres/backend.ts`, `ow/sqlite/backend.ts` | a row per workflow run: status, worker id, available-at, deadline, attempts, error | create, claim, extend lease, complete, fail, reschedule, park, cancel | `WorkflowRuns` |
| Parking and waking | the same, `ow/worker/execution.ts`, `ow/worker/step-history.ts` | step attempts, their children and signal deliveries; the pass in memory | park, reconcile, wake parent, send signal, resolve a wait | `ParkedWaits` |
| Worker loop | `ow/worker/worker.ts` | running flag, active executions, claims in flight | start, tick, stop | `WorkerLoop` |
| Step replay | `ow/worker/execution.ts`, `ow/core/step-attempt.ts` | step attempts, cached results | run, sleep, retry, limit | `StepReplay`; waiting steps in `ParkedWaits` |
| Idempotency and listings | `ow/*/backend.ts`, `ow/core/cursor.ts` | keys of runs, advisory locks; the cursor of a page | create once, list forward and back | `RunCatalog` |
| Schemas | `ow/postgres/postgres.ts`, `ow/sqlite/sqlite.ts` | the objects of the schema, the recorded versions | migrate | `SchemaMigrations` |
| Cron dispatcher | `engine/src/runner/cron.ts`, `api/src/store/schedules.ts`, `api/src/routes/schedules.ts` | `last_fired_at` per schedule | tick, claim a cutoff, fire | `CronDispatch`, `ClaimOnce` |
| Workflow store | `api/src/store/workflows.ts`, `api/src/routes/workflows.ts` | workflow JSON and its version | create, patch, delete, run | `WorkflowStore` |
| Edit operations | `engine/src/operations/apply.ts` | a workflow graph | add, edit, delete, connect, disconnect | `GraphEdits` |
| Durable walker | `engine/src/runner/walk.ts`, `engine/src/runner/openworkflow.ts`, `engine/src/executor/dag.ts` | outputs and skipped blocks of one pass | walk, select branches | `BlockGraphs`, `GraphExecution` |
| In-memory executor | `engine/src/executor/executor.memory.ts` | the same, and a snapshot | execute, pause, resume | `GraphExecution` |
| Rate limit | `api/src/middleware/rate-limit.ts` | a bucket per key | take | not modelled |

How they interact. A client, a webhook, a schedule or a parent workflow inserts
a row into the run table. Worker processes poll the table; each of their slots
claims a due row with one statement that writes the slot's id and a lease into
it, and then replays the workflow function outside any transaction. A replay
reads the step attempts recorded so far, returns their results to the function,
and records new ones. A wait throws a `SleepSignal`: the run is parked, with no
worker, until the earliest of its waits ends. A child run that ends and a
signal that is sent make a parked run due at once. There is no other
communication: no queue, no leader, no message; everything is a statement on a
row that others may have changed since it was read.

What is hard about it:

- *Concurrency.* A slot whose lease has lapsed does not know it and goes on
  executing beside the next owner. Parallel branches of one function race each
  other and the statement that parks their run. On Postgres every statement
  commits on its own, on SQLite several of them are one.
- *Failure.* A process may die between any two statements; nothing but the lease
  brings its runs back.
- *Time.* Leases, backoffs, deadlines and the timeouts of waits all decide when a
  row is due, and the only thing that looks at a deadline is the next claim.
- *Order.* A wake-up may come before the run is parked, a result before the wait
  that asks for it, a timeout together with the result.

What makes each component correct:

- *Run table*: only the newest claim of a run records its outcome; no unfinished
  run is stranded; retries respect limit and deadline; runs end.
- *Parking and waking*: a run that sleeps is due when one of its waits is over;
  a replay creates no child twice and starts no sleep over for a result; results
  are taken up.
- *Worker loop*: a slot executes one run at a time (the fence of the run table
  relies on it); a stopped worker executes nothing; a refused claim stops nothing.
- *Step replay*: what one pass has seen of a step every later one sees; a step begins
  after those it follows; retries are counted over all passes.
- *Idempotency and listings*: one run per key, and no creation that waits for
  ever; a listing leaves out no row and repeats none.
- *Schemas*: the recorded versions tell what exists, whoever migrates beside whom.
- *Cron dispatcher*: a cutoff of a schedule fires at most once, and at least once
  while no process dies.
- *Workflow store*: versions grow, a patch with If-Match loses no other patch, a
  deleted workflow stays as it is.
- *Edit operations*: the graph stays well formed whatever operations are applied.
- *Walker and executor*: a block runs after the blocks it depends on and only on
  a branch that was taken, also when a pass is replayed; a run keeps the workflow
  it was started with.

## 2. Modules

| Module | What it is |
|---|---|
| `FencedRuns` | abstract specification: what the engine promises about the outcome of a run |
| `WorkflowRuns` | the run table and the slots that poll it |
| `ParkedWaits` | one run that awaits several things at once, and everybody who may wake it |
| `WorkerLoop` | the poll loop of one worker |
| `StepReplay` | one run that calls functions in steps, and the passes that replay it |
| `RunCatalog` | creation of runs under idempotency keys, and listings by pages |
| `SchemaMigrations` | processes that migrate the schema of the run table at the same time |
| `ClaimOnce` | abstract specification: a store that grants each claim once |
| `CronDispatch` | schedules, and the ticks of loops and requests that fire them |
| `BlockGraphs` | workflow graphs as operators: order, branches, cycles |
| `GraphEdits` | the edit operations on them, as operators |
| `WorkflowStore` | one row of the workflow store and the requests that patch it |
| `GraphExecution` | one run of a graph on the durable or the in-memory executor |
| `…_proofs` | theorems about the module of that name; `WorkflowGraphs_proofs` is about the last four above |
| `MC…` | the constants of small instances |

`GraphEdits` and `GraphExecution` extend `BlockGraphs`, and `WorkflowStore` extends
`GraphEdits`. The other modules meet in what they assume of each other: `WorkflowRuns`
assumes one execution per slot, which `WorkerLoop` shows; `ParkedWaits`, `StepReplay`
and `GraphExecution` take the claims and leases of `WorkflowRuns` as given, and
`CronDispatch` the idempotency keys of `RunCatalog`.

### WorkflowRuns

`run[r]` is the row of `r`; `execs` are the executions in progress, each with
the slot, the run and the number of attempts its claim returned; `alive` are the
slots whose process lives. A timestamp is the number of ticks until it passes,
so that the state space is finite and no property depends on absolute time.

An action is a statement of the backend together with what the worker does
before and after it: `Claim` is the claim statement with its "expired" and
"candidate" parts (pending rows before the others, overdue rows failed by the
same statement), `Complete`, `Park`, `Throw`, `RetryStep`, `StepOutOfRetries`
and `MissingDefinition` are the ways an execution ends, all of them through
`Finish`, which writes nothing when the fence does not match. `Abandon` is an
execution that ends without a write. A heartbeat that comes too late is `Tick`
with a lapse. What happens inside an execution is left to the other modules.

Abstractions: payloads, names, namespaces, versions and `started_at` are left
out; among due rows of one class any is claimed rather than the one due longest;
the two statements of `failWorkflowRun` (read, fenced update) are one action,
since the deadline and the attempts it reads do not change while the fence
matches; clients do not use idempotency keys. That a slot has one claim or
execution at a time is assumed here and examined by `WorkerLoop`.

### ParkedWaits

One run, whose function is `Promise.all` over some sleeps, child workflows and
signals, at the granularity of statements. `attempts[w]` is the list of step
attempts of wait `w`; `pass` is what the executing worker keeps in memory
(`known[w]`: the running attempt its history has of `w`); `branch[w]` is where
the branch of `w` is in the pass; `late` are insertions that an ended pass still
has in flight; `reconciling` says that a run was parked and not yet reconciled.

The constant `Postgres` tells the backends apart: on SQLite parking and
reconciling are one statement and `sendSignal` is one transaction nothing
interleaves with, and the insertions of a `Promise.all` all return before a
branch goes on. On Postgres the statements of parking, of ending a child and of
`sendSignal` (insert, sweep, commit) interleave freely.

Abstractions: passes run under different worker ids, so that only the unfenced
insertion outlives a pass; a child succeeds or is overdue, it does not fail; an
idempotency key of a child is remembered for good (24 hours in the code); leases
are not renewed during a pass. A child that is overdue fails the run by the action
that finds it so: in the code its attempt is failed first (`failWorkflowStep`) and the
run by a later statement of the pass, or by the next pass, which finds the failed
attempt (`findTerminallyFailedWorkflow`), when the worker dies in between or a sibling's
`SleepSignal` comes first. Nothing here distinguishes a run that is about to fail for
that reason.

### WorkerLoop

`claims` are the claims in flight with the tick that sent them, `executions` is
`activeExecutions`, `pc` and `tick` are where the loop is, `stop` where the call
of `stop()` is. A tick sends a claim per idle slot; `Claim`, `ClaimUnregistered`,
`ClaimNone` and `Reject` are the answers. A rejection ends the tick while its
other claims stay in flight. A refused claim may have taken its run in the
database: the run then waits for its lease.

Abstractions: delays have no length; which due run a claim takes is not
determined; a worker is started again only after `stop()` returned, as
`engine/src/client.ts` does.

### StepReplay

One run whose function calls `step.run` for some steps; `needs[s]` are the steps
that come before `s`, so that a program is a sequence, a `Promise.all`, or one after
the other. `attempts` are the rows in the order of their creation. `pass[p]` is the
memory of the `p`-th claim: `result` is the cache of its `StepHistory`, `failures`
and `stepCount` its counters, `branch[s]` where its call of step `s` is, `pc` where
`executeWorkflow` is (`running` is the active fence). An action is the code between
two awaits: `Load`, `Start` (fence and limit, then the insertion is sent), `Insert`,
`Return` and `RecordFailure` (the fenced statements), `Finish` or a branch that has
`Thrown`, `End` (the fenced transition of the run).

A lease may lapse at any time: `Claim` takes a run that is running as well. A slot
claims only when its own pass has ended, but branches of that pass may be under way.
A dead worker is a pass that takes no further step.

Abstractions: leases, backoffs and deadlines are left to `WorkflowRuns`; outputs are
identified with the attempt they belong to; a function does not catch the errors of
its steps; no statement is refused by a failing database; attempts of one step are
not created within the same millisecond (their order would be arbitrary).

### RunCatalog

`rows` is the table, by id, creation time and key; `lock[k]` the owner of the
advisory lock of a key, `call[c]` where a creation is. The clock counts units of
which `Precision` make a millisecond, because Postgres has a finer clock than the
cursor. An action is a statement; `Connect` takes a connection of the pool and keeps
it until `Unlock`. On SQLite a keyed creation is one action (`BEGIN IMMEDIATE`).
`listing` is a reader that follows `next` to the last page and then `prev` back;
`Page` is `buildPaginatedResponse` together with the query, `Cursor` what the encoded
cursor keeps of a row. Ids are integers, since only their order matters. A crash
takes connection and lock. Abstractions: one workflow name and namespace; the
filters of a listing; rows become visible in the order of their creation times.

### SchemaMigrations

`objects` and `versions` are what is committed. A migration is what it creates
unless it exists, what it adds in any case, and what it needs. `proc[p]` goes
through `migrate`: ask for the table of versions, read the version once, then for
every later migration `Begin` (what is missing), `Execute` (which waits for
another transaction that is creating the same, or on SQLite fails while another
writes) and `Commit`. `Fail` and `Crash` roll back; the process is started again.

### ClaimOnce and CronDispatch

`row[s]` is the row of a schedule with its `lastFired`; `tick[d]` the tick a
dispatcher is at, with the list it has read and what it has still to do; `wake` the
timer of a loop; `runs` the runs that were created. The beginning of a tick, its
list, each claim (`TryClaim`, `ClaimRefused`, `ClaimFails`) and each run (`Fire`,
`FireFails`) are actions, because other ticks come between. A loop fixes its cutoff
before it reads the list (`dispatchOnce`), a request afterwards (the admin route).
`tickNow` ticks for whatever time it is given (`TickNow`), fixed before the list.
`granted`, `lost` and `ticked` are histories. `ClaimOnce` is what
`engine/src/runner/cron.ts` promises of a store: a claim is granted once.

`runs` is the sequence of the runs that were created, each with its key, the claim it
was created for and the minute of its creation. `CreateRun` finds the run of a key that
is no older than `KeyLife` (24 hours in the code) and creates another one otherwise; two
runs of one cutoff are two elements, so that a claim granted twice or a key looked up in
vain shows. Abstractions: a schedule is the set of minutes it matches; the schedules of a
tick are taken in any order; the minutes of several processes are those of one clock; the
lookup and the insertion of a run are one action, which `RunCatalog` takes apart.

### BlockGraphs, GraphEdits and WorkflowStore

A graph lists its blocks and edges in the order of their creation, which the code
keeps in maps and arrays: `Pick` is a subsequence by its positions, where the code
filters. `TopoSort` is Kahn's algorithm as `dag.ts` has it, `Taken`
and `Skipping` are the selection of branches. `GraphEdits` gives each operation its
guard (`Applies`, else it is a skipped item) and its effect, and `ApplyOperations` a
whole request: a later operation sees the effect of an earlier one, and the graph is
kept though some are skipped. The parameters of a block are what they refer to and
whether their fields are accepted.

A handle that is missing is `NoHandle`, and the executors read it as the default handle
(`Handle`). A connect whose handle is the empty string is stored without one
(`Connect`) but was compared, as it was sent, with what is stored (`Connectable`): it is
never a duplicate, and a graph may have the same connection without a handle any number
of times. That harms no executor, whose DAG keeps one connection from a block to another,
but a disconnect then has to be repeated. `StoredGraphIsSound` says so.

A reference is to a block id: the names of blocks, which a reference may use as well, and
their changes are left out, and so is the error for an output that the block type does
not declare (`apply.ts:381`). The code's "ok" is therefore the stronger one, and what
`OkGraphResolves` says of the model's answers holds of the code's. A reference of a block
to itself is unresolved (the code accepts it on a cycle of disabled blocks, which
`WorkflowStore` has not). `ApplyOne` looks at `Applies` before it looks at the
type of the operation. (An earlier form had the refusal as one more arm of a CASE whose
arms overlapped; TLA+ leaves open which arm is chosen then, TLC takes the first one. The
proof that every operation keeps a graph sound found it.)

In `WorkflowStore`, `handler[h]` is a request between its read and the transaction of
`update()`: it holds the row it has read and the version its sender expects, which may
be older. `row.patches` and `accepted` are histories that tell lost patches.

### GraphExecution

Both executors walk the same `order` with the same selection of branches and differ in
what survives a pass. On the durable runtime `results` are the recorded steps and a
pass begins with nothing else; in memory they are the block outputs of the snapshot,
and `execute` begins with them. `status`, `waiting` and `position` are where the run
is; `outputs` and `skipped` belong to the pass. An action is the visit of a block:
`TakeTrigger`, `CallTool` or `ReplayTool`, `StepThrows` or `ToolThrows` (in memory the
edges of the handle "error" are taken, if there are any), `CannotRun` (its type or tool
is unknown, or its parameters do not resolve; also in a replay), `Park` and `ReplayWait`, or
`Pause`. `EditStored` changes the workflow in the store while the run waits; the run has
its own copy. `forgotten` is a history: the blocks of which a snapshot does not say
whether they were skipped. Abstractions: an output is what it says of branches, so that
`ReplayFollowsHistory` is about those: the output of a `wait_duration` has the time of
the replay in it (`walk.ts:140`) and is another one in every pass; a compute block whose
tool asks for a pause, which no pass gets past (`walk.ts:116`), is left out; the handing of parameters to tools is `ReferencesResolve`; how steps are retried and waits
end is left to `StepReplay` and `ParkedWaits`.

## 3. Runs

### Passing

| Run | Instance | States | What it shows |
|---|---|---|---|
| `workflow_runs` | 2 runs, 2 slots, 2 claims per run, one crash, one lapsed lease; one slot lacks one workflow; with and without deadline | 211 000 | `LatestClaimOwns`, `RunsBecomeDue`, `RetryBeforeDeadline`, `StepExhaustionIsFinal`, and that the engine implements `FencedRuns` |
| `runs_end` | 2 runs, 3 slots, one without the workflows, another may die; no step backoffs | 129 000 | every created run reaches an outcome, though the wrong worker claims it or a dead one loses it |
| `sqlite_waits` | a nap, a child and a wait for a signal that runs out before the nap; one crash | 49 300 | `SleepsSurviveWakeUps`, `OneChildPerStep`, `ParksOnEarliestWait`, `SignalsWakeRuns`, and while no process dies `ResultsAreTakenUp` |
| `postgres_waits` | a child and a signal with short timeouts; one crash | 204 000 | `ChildrenWakeParents` |
| `step_replay` | 3 steps in sequence with 4 claims, or the first two in parallel with 2 claims; 2 slots, 2 attempts per step, 4 in all | 284 000 | `StableReplayUnlessReclaimed`, `StepsInOrder`, `FailuresWithinPolicy`, `FailsForAReason`, `AttemptsOfEndedRunsStay` |
| `worker_loop` | 2 slots, 3 runs of which 1 unregistered, 2 stops, 1 refusal | 10 600 | `OneExecutionPerSlot` and `StopWaitsUnlessRefused` while no claim is refused, `DueRunsAreClaimed` and `StopsInTheEnd` whatever is |
| `graph_execution` | diamonds with extra edges and chains of 4 blocks with one disabled, both executors, one crash, one throw | 171 000 | `RunsTheSelectedBlocks`, `ReplayFollowsHistory`, `ReferencesResolve`, `OrderFollowsEdges` |
| `workflow_store` | 3 blocks, 2 requests at a time, 4 patches out of 6 lists of operations, a deletion | 668 000 | `StoredGraphIsSound`, `GuardedPatchesKeepOthers`, `OkGraphResolves`, `DeletedStaysDeleted` |
| `cron_dispatch` | a loop, and a request of any minute; 2 schedules, 3 minutes, keys that live for one, one fault, one deletion | 2 540 000 | `OneRunPerCutoff`, `TicksFireWhatIsDue`, and that the store implements `ClaimOnce` |
| `run_catalog` | 2 creators, 1 key, 2 connections, 3 rows, a millisecond of 2 units, pages of 1 row, one crash; both backends | 299 000 | `OneRunPerKey`, `ListingsAreComplete`, `EveryCreationEnds` |
| `schema_migrations` | 2 processes, 2 crashes; both backends | 58 400 | `SchemaFollowsVersions`, `ConnectedFindsSchema`, `EverybodyConnects` |

Why the bounds are enough. Two slots suffice for a zombie and its successor, and
the second run for competition and for a slot that is busy when another run
falls due; two claims of a run for one to be stale, and for a claim by a
slot without the workflow before one that completes; one lapse
and one crash each produce every state in which an owner is gone or superseded.
The invariants of `workflow_runs` are proved without any of these bounds.
In `ParkedWaits` one wait of each kind gives every pair of results that can meet;
`StepLimit` leaves room for one attempt more than there are waits; the clock runs
past every timeout in `postgres_waits` and in `sqlite_waits` past the nap and the
wait for the signal, which comes first and makes the code begin the nap again, as
`SleepsSurviveWakeUps` allows; the child there must be ended by its result. In
`WorkerLoop` a stop and a restart may overlap every state of a tick.
In `StepReplay` four claims of a sequence hold a pass that lost the run, two that
retry and one that finds more attempts than the limit; two claims of the parallel
function hold a pass that is over and its successor, by the same slot or another.
In `graph_execution` four blocks are the smallest graphs in which two branches join,
one is longer than another, or a branch is skipped below a block that is not; the
edges carry every kind of handle, and some pairs of blocks have two. A crash or a
throw at each block gives every prefix of recorded results. The six lists of
`workflow_store` contain each operation, in a form that applies and in one that is
skipped or not accepted, a connection without a handle that is repeated among them, and
each pair of handlers can overlap in all orders. In `cron_dispatch` two cutoffs suffice
for a claim that comes late, and one fault at every step of a tick for what is left
unfired; a schedule that was deleted and created anew makes the same claim twice, within
the life of the key of its run and after it. In `run_catalog` a key expires after one
millisecond, so that a third row is created under it; rows of one millisecond stand on
both sides of a page's end. In `schema_migrations` each process may be anywhere in the
six migrations while the other is anywhere else, and may die there.
`MaxClaims`, `MaxLapses`, `MaxCrashes`, `MaxThrows`, `MaxTime`, `MaxRejections`,
`MaxStops`, `MaxPatches`, `MaxFaults`, `MaxDeleted` and `MaxTicks` are the names of
all bounds; deadlock is not an error in any run, because every instance stops when its
bounds are used up or its run has ended.

Only the runs of `StepReplay` and `WorkflowStore` use symmetry, of the two slots and of
the two handlers: they check no liveness and nothing tells the elements apart. The
other instances are small, have a liveness property or constants that tell the
elements apart.

### Violations

The run `duplicate_child` checks what a comment of the code says, and TLC finds a
behaviour that contradicts it: `ow/worker/execution.ts:82` says that the fence stops
stale branches from writing step attempts, but the insertion itself is not fenced, and
a workflow step gets a second attempt and a second child.

The following configurations, which are not among the runs of `PROJECT.json`, show
further disagreements between the code and its documents, each as a violation of one
property:

| Configuration, module | Statement | What happens |
|---|---|---|
| `InfiniteRetries.cfg`, `MCWorkflowRuns` | `ow/CHANGELOG.md:38`: `maximumAttempts` may be `Infinity` | `resolveRetryPolicy` accepts integers only and falls back to one attempt |
| `LostSignal.cfg`, `MCParkedWaits` | `engine/THREAT-MODEL.md:38`: an emit wakes its waiters | Postgres: the sender does not see the parked row, the reconciliation does not see the uncommitted delivery |
| `ReportedSignal.cfg`, `MCParkedWaits` | `ow/client/client.ts:182`: the runs that received the signal | the wait ends with null although the signal is reported as received |
| `UnstableReplay.cfg`, `MCStepReplay` | `apps/docs/…/runtime-workflow.md:57`: results are cached, a replay never re-executes | a branch of an ended pass is admitted by the fence once its worker has claimed the run again, and the step gets a second result |
| `StopReturnsEarly.cfg`, `MCWorkerLoop` | `ow/worker/worker.ts:81`: stop waits for all active runs | a refused claim ends the tick, another claim of it is answered after `stop()` |
| `ResumedRun.cfg`, `MCGraphExecution` | `engine/src/executor/executor.memory.ts:13`: the same outputs map as the durable executor | a snapshot does not say which blocks were skipped, and a resumed run executes blocks of a branch that was not taken |
| `MissedMinute.cfg`, `MCCronDispatch` | `engine/src/runner/cron.ts:259`: a tick is skipped if the one before takes longer than the interval | the loop waits a whole interval after each tick (line 291), so that short ticks add up to a minute that is skipped |

Some limits of the code show in the conditions of the properties.
`ChildrenWakeParents` and `SignalsWakeRuns` say
`crashes = 0`: a worker that dies between ending a child and waking its parent
(`ow/postgres/backend.ts:616`), or between parking a run and reconciling it (531),
leaves the run asleep until its timeout. And `ParksOnEarliestWait` is checked for
SQLite only: on Postgres the first branch of a `Promise.all` whose insertion
returns parks the run before a shorter wait is recorded
(`ow/worker/execution.ts:483`); with `Waits = {sleep, nap}` and `Postgres = TRUE`
TLC shows it in a few steps. `FailuresWithinPolicy` allows a step one more call for
each worker that stored the last failure and lost the run before it failed it: no
pass looks at the count before it calls a step (`ow/worker/execution.ts:443`). A
worker without the workflow fails a run whose next backoff would pass its deadline,
where `ow/CHANGELOG.md:40` says that it is rescheduled. `TicksFireWhatIsDue` lets a
cutoff go unfired when its tick died or was told of an error after the claim: the
dispatcher fires at most once. `OneRunPerCutoff` allows a second run of a cutoff when its
schedule was deleted and created anew, which forgets the claim, and the key of the first
run has expired, which takes a `tickNow` of a time long past. `StoredGraphIsSound` lets a
connection without a handle be stored again (`engine/src/operations/apply.ts:220`). `GuardedPatchesKeepOthers` says nothing of a patch
without If-Match, which replaces the row by its own version of what it had read. And
`RunsTheSelectedBlocks` lets the in-memory executor execute what its snapshots have
forgotten.

## 4. Fairness

Liveness is checked under the fairness that the code's scheduling gives:

- `WorkflowRuns`: the clock advances, the loop of a live slot polls again after
  every backoff (`Worker.runLoop` catches every error), its heartbeat timer fires,
  and every execution ends. Weak fairness for each slot is enough. Nothing is
  promised of clients, wake-ups and crashes. That an execution ends is an
  assumption about workflow functions. `MaxClaims` stands for deploys and
  transient failures coming to an end: a run that has been claimed that often is
  claimed by a slot that knows it and is not given back again.
- `ParkedWaits`: weak fairness of the claim, of the statements of live processes
  and of the clock. The branches of a pass race to the first `SleepSignal`, which
  ends the pass for all; strong fairness of each branch says that none loses the
  race in every pass. Nothing is promised of children and senders.
- `WorkerLoop`: the event loop goes on, the database answers every claim (with a
  refusal, perhaps), and executions end. Nothing is assumed of the choice among
  due runs, because the claim statement prefers pending runs and can starve the
  others; `DueRunsAreClaimed` therefore says that runs are claimed again and
  again, not that each one is.
- `RunCatalog`: the database carries out the statements that are sent to it (weak
  fairness of lookup, insertion and unlock), and of those that wait for an advisory
  lock each gets it in the end (strong fairness: Postgres queues them).
- `SchemaMigrations`: a live process goes on and a dead one is started again (weak
  fairness of each process); nothing is assumed of who comes first.

`StepReplay`, `GraphExecution`, `WorkflowStore` and `CronDispatch` have safety
properties only; a cutoff that nobody ticks for is never fired.

## 5. Proofs

`WorkflowRuns_proofs` proves, for any sets of runs and slots, any lease, policies
and delays, and any bounds:

| Theorem | Statement |
|---|---|
| `TypeCorrect` | `Spec => []TypeOK` |
| `FenceAdmitsNewestClaim` | `Spec => []LatestClaimOwns` |
| `NoRunIsStranded` | `Spec => []RunsBecomeDue` |
| `RetriesMeetDeadline` | `Spec => []RetryBeforeDeadline` |
| `ExhaustedStepsFail` | `Spec => StepExhaustionIsFinal` |
| `Refinement` | `Spec => ImplementsFencedRuns` |

They rest on the named assumptions of `WorkflowRuns`: NULL and Infinity are not
numbers, ids or errors; durations are natural numbers; intervals of policies are
natural numbers and the missing-definition policy is a policy. TLC evaluates them
in every run.

The inductive invariant `IInv` adds to the types and to what holds of every single
row (`RowInv`) how rows and executions belong together: an execution carries the
number of a claim that was made, an execution has at most one slot and a slot at
most one execution, and if a slot owns a row then its execution, if any, on that
row carries the newest number. `LatestClaimOwns` alone is not inductive: a slot
that claims a run again while an old execution of its own on that run is still in
progress would break it, and what excludes that is that a busy slot does not
claim, which speaks of all executions of the slot, not only of those that own
their row.

The argument has three layers. Lemmas about the SET clauses (`FailedRowLeft`,
`ParkedRowLeft`, `RowAfterErrorLeft`, `TickKeepsRow`, …) say of a single row that
it keeps `RowInv` and that its worker lets go of it; the lemmas `…KeepsIInv`, one
per group of actions, lift that to the table and the executions; `Invariance`
combines them. For the refinement the same lemmas give the phase of each changed
row: time, heartbeats and wake-ups stutter, a claim is a `Grant` with the overdue
runs expired, and the end of an execution is a `Return` when the fence matches and
a `Drop` when it does not.

`StepReplay_proofs` proves, for any functions, slots, retry policy, limits and any
number of claims:

| Theorem | Statement |
|---|---|
| `TypeCorrect` | `Spec => []TypeOK` |
| `ReplayKeepsOrder` | `Spec => []StepsInOrder` |
| `EndedRunsAreLeftAlone` | `Spec => AttemptsOfEndedRunsStay` |
| `FailuresHaveReasons` | `Spec => []FailsForAReason` |
| `ReplayIsStable` | `Spec => []StableReplayUnlessReclaimed` |
| `FailuresStayWithinPolicy` | `Spec => []FailuresWithinPolicy` |

Its assumptions: a function gives each step a set of steps, the limits are positive,
NULL is no worker. The order of steps is inductive only together with what the
passes remember, in ended passes too, since their branches go on: a remembered result
is a completed attempt of that step, a step that is being called has an attempt of
its own, an insertion that is under way has been sent in order, and a pass that
returns has all results (`SoundPass`). Each follows because rows are only added or
ended, never deleted or given another result (`RowsKept`), which is why the fence need
not be sound for it. `FailuresHaveReasons` adds `CountInv`: no pass has counted more
failures or attempts than there are rows. It holds though other passes write between
a count and its use, because the rows only grow.

The last two rest on `SoloInv`: of all the passes that are under way only the latest
claim can write (`WriterIsLast`). That takes either kind of discipline. If the steps come
one after the other, a pass that has ended has no branch left (`NothingLeftOver`), and a
slot ends its passes before it claims again (`Seats`), so a branch whose slot holds the
run belongs to the latest claim. If no slot claims twice, the slot tells the claim. Given
that, a step the latest claim may still decide (`Open`) has no result (`OneResult`), and
no failure the claim has not counted (`FewFailures`); a failure that uses up the policy
comes with a verdict, and a verdict is final or lost. `SafeMove` says what a step may do
to the memory of its pass for this to stay so, and one lemma per action shows that it
does no more. Without the premise the statement is false: see `UnstableReplay.cfg` in
section 3.

`ParkedWaits_proofs`, for any waits, durations and limits:

| Theorem | Statement |
|---|---|
| `TypeCorrect` | `Spec => []TypeOK` |
| `ChildrenWake` | `Spec => []ChildrenWakeParents`, for both backends |
| `SignalsWake` | `Spec => []SignalsWakeRuns`, if the backend is not Postgres |
| `SleepsSurvive` | `Spec => []SleepsSurviveWakeUps`, likewise |
| `ChildrenAreCreatedOnce` | `Spec => []OneChildPerStep`, likewise |
| `ParksInTime` | `Spec => []ParksOnEarliestWait`, likewise |

The heart of the invariant is `NothingMissed`: the wake-up of a result that has been
written and that a sleeping run waits for is still to come, from the one who has
written it or from the reconciliation of the one who parks. The other conjuncts say what
is needed for a step to keep it: a branch and its pass know of attempts that are there
(`Known`), the worker of a pass owns the row (`Owning`), and on SQLite a delivery is
committed with the sweep that wakes (`AtOnce`). The last is what fails on Postgres.

The last three theorems rest on a second invariant, `SqliteInv`, which starts from the
fact that no insertion outlives its pass on SQLite (`NobodyLate`; on Postgres it fails,
and with it all three). What a pass remembers is then what a later one would find
(`KnownIsLatest`), an insertion is of a first attempt or has a wait that has run out
behind it (`InsertionsExcused`), and the time a run parks until, kept in memory from the
signal to the statement, stays early enough (`DueInTime`) while other branches complete.

`WorkerLoop_proofs`, for any slots, runs, stops and refusals:

| Theorem | Statement |
|---|---|
| `TypeCorrect` | `Spec => []TypeOK` |
| `SlotsExecuteOne` | `Spec => []OneExecutionPerSlot` |
| `StopWaitsForAll` | `Spec => []StopWaitsUnlessRefused` |

While no claim was refused, the claims in flight are those of the tick the loop waits
for, each for a slot of its own that is idle (`OneTickInFlight`); so no answer finds its
slot busy, and none comes after the loop was left.

`RunCatalog_proofs`, for any creators, keys, pool, period, precision of the clock and
size of the pages:

| Theorem | Statement |
|---|---|
| `TypeCorrect` | `Spec => []TypeOK` |
| `KeysMakeOneRun` | `Spec => []OneRunPerKey` |
| `CompleteListings` | `Spec => []ListingsAreComplete` |

The invariant says that whoever is past the lock of its key holds it (`Holders`), and
that there is no run of the key within the period when a creation is about to insert
(`NoneWithin`), which stays true because time only makes rows older and nobody else
inserts under the key. It rests on `NothingFound`: a lookup that asks for the oldest
row finds one if there is any.

For listings, `ForwardSound` says that the cursor to the next page is the last row that
was read and that what was in the table is read or comes after it, and `BackSound` the
same of the cursor to the previous page and what comes before it. That a page is the
rows next to the cursor (`PageForward`, `PageBack`) follows from the order being total
(`PrecedesIsAnOrder`, `SortedIs`) and from how the row in excess is dropped on either way
(`TrimForward`, `TrimBack`). A cursor stands for its row only because no row has a time
finer than a millisecond (`Stamped`): the comment of `ow/core/cursor.ts:9` asks for it.
`Sorted` and, in `BlockGraphs`, `Ascending` put a set in order by counting, for the
prover has no definition of the library's sorting.

`SchemaMigrations_proofs`, for any processes and crashes:

| Theorem | Statement |
|---|---|
| `TypeCorrect` | `Spec => []TypeOK` |
| `VersionsTellTheSchema` | `Spec => []SchemaFollowsVersions` |
| `ConnectedIsMigrated` | `Spec => []ConnectedFindsSchema` |

The migrations before the one a process is at are recorded, by whomever (`Behind`), and
what a transaction does not create itself was committed when it began (`Completes`).

`CronDispatch_proofs`, for any schedules, dispatchers and times:

| Theorem | Statement |
|---|---|
| `TypeCorrect` | `Spec => []TypeOK` |
| `CutoffsHaveOneRun` | `Spec => []OneRunPerCutoff` |
| `NothingPassedOver` | `Spec => []TicksFireWhatIsDue` |
| `Refinement` | `Spec => ClaimsOnce` |

Two runs of one cutoff can come from one claim or from two. A claim is granted once, and
whoever it was granted to creates one run for it (`ClaimsAreUsedOnce`); of two claims,
which takes a schedule created anew, the second finds the run of the first under its key,
unless that has expired. So neither the claim nor the key would do alone, and the mutants
take one away at a time.

`Granted` says that a claim that was granted lies behind what its row says, of an earlier
schedule of the id or a cutoff no later than the last; so it cannot be granted again,
though the row keeps the last cutoff only. `TodoIsComplete` says at every point of a
tick that what it has no longer to do is done; it needs that the schedules a tick has
listed can only be replaced by later ones (`ListedBefore`, `Recreated`).

`WorkflowGraphs_proofs`, for any blocks, any finite graphs, any lists of operations and
requests, any answers of the tools and any number of crashes and errors:

| Theorem | Statement |
|---|---|
| `StoreTypeCorrect` | `StoreSpec => []StoreTypeOK` |
| `GuardedPatchesStay` | `StoreSpec => []GuardedPatchesKeepOthers` |
| `DeletedStays` | `StoreSpec => DeletedStaysDeleted` |
| `StoredGraphStaysSound` | `StoreSpec => []StoredGraphIsSound` |
| `OkGraphsResolve` | `StoreSpec => []OkGraphResolves` |
| `ExecutionTypeCorrect` | `Spec => []TypeOK` |
| `OrdersFollowEdges` | `Spec => []OrderFollowsEdges` |
| `ReferencesAlwaysResolve` | `Spec => []ReferencesResolve` |
| `ReplaysFollowHistory` | `Spec => []ReplayFollowsHistory` |
| `RunsSelectedBlocks` | `Spec => []RunsTheSelectedBlocks` |

`Spec` is that of `GraphExecution`. Its assumption: the graphs that are run list no block
twice and have no cycle. The first is what `StoredGraphStaysSound` proves of what is
stored; a graph with a cycle `buildDAG` refuses as well.

*Graphs.* `Downstream`, `TopoSort` and `ApplyAll` are recursive functions that run for as
many rounds as there are blocks or operations. What they compute is proved with sets of
numbers: a set that has 0 and the successor of each of its members has them all (`UpTo`),
and a set of numbers has a least one (`Least`). So `Downstream(g, B)` is the least set
that contains `B` and is closed under the connections (`DownstreamClosed`,
`DownstreamLeast`): were it not closed, each round would have added a block, and there
are no more blocks than rounds. Kahn's algorithm lists every block of an acyclic graph,
once and after its sources (`TopoSortOrders`): what it has listed and what is ready are
disjoint, a count of sources left belongs to each block, and of the blocks it would leave
over one has no other above it (`FirstNode`), so that it is ready.

*Store.* The version tells the content: a request whose If-Match is current has read the
row as it still is (`Reflects`), because versions grow with every change. Each operation
takes a sound graph to a sound one (`AddKeeps`, `ConnectKeeps`, `DeleteKeeps`, ...,
`OneOpKeeps`; of its connections only those without a handle may be equal,
`HandlesDiffer`), a list of them does (`AllOpsKeep`), so the row and every version that a
request holds have sound graphs (`GraphInv`).

*Executors.* The inductive invariant `ExecInv` has four parts. `Shape` is the types and
who is in which list. `PassGood` says of the pass under way (`PassSound`): every block
behind the position has an output, is skipped or threw; what is skipped is closed under
the connections and lies below a branch that was not taken. `SnapshotGood` says that a
snapshot has the outputs of all blocks above one that it has, except of what it has
forgotten (`SnapSound`). `HistoryGood` says that whatever the durable walk has recorded
has recorded results above it and none that leads away from it (`HistorySound`), so that
every later pass, which meets the same results in the same order, gets there again.
`RunsTheSelectedBlocks` alone is far from inductive: it speaks of completed runs only.
When a pass is complete, the blocks that are skipped are exactly those below a branch not
taken, which is what `Selected` says.

Only model-checked are the liveness properties (`RunsEnd`, `ResultsAreTakenUp`,
`DueRunsAreClaimed`, `StopsInTheEnd`, `EveryCreationEnds`, `EverybodyConnects`), since
fairness and ENABLED are out of the prover's reach. Every invariant and every action
property that a passing run checks is proved, with the restrictions to one backend that
the tables name, and so is every refinement. The type invariants of all modules are
proved; the runs do not repeat them except for `WorkflowRuns` and `GraphExecution`.

## 6. Not modelled

- The connection pools' own failures, durations, error serialisation, `dropSchema`:
  straight-line code without concurrency.
- The workflow registry, the client and the engine client: thin wrappers over the
  backend and the worker, whose lifecycle `WorkerLoop` assumes.
- Webhooks and the rate limit: the one keeps no state, the other is a sequential function
  of the times of requests within one process.
- Authentication, sessions and bootstrap: delegated to a third-party library.
- The definition DSL, block and tool libraries, tracing, and the command line:
  no state of their own, or one request per call.
- Of the modelled components: the starvation of parked runs by new ones, several
  runs waiting for one signal, senders with idempotency keys, children that fail,
  functions that catch the errors of their steps, `stop()` of the dispatcher loop, the
  in-memory schedule store, the filters of listings, namespaces and payloads.

`PROJECT.json` names the reason for each component and lists the hazards that no
property covers.

## 7. Plan

What is left, in order of importance:

1. `sendSignal` with several waiters and with the sender's own key, against an abstract
   "one delivery per waiter" specification.
2. Children that fail or are canceled in `ParkedWaits`.
3. `stop()` of the dispatcher loop, which may return while a tick is in flight.
4. `ListingsAreComplete` with rows that become visible after later ones.
