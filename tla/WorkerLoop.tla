------------------------------- MODULE WorkerLoop -------------------------------
(***************************************************************************)
(* The poll loop of one worker (packages/openworkflow/worker/worker.ts):   *)
(* start, tick, stop, and the claims and executions in progress.           *)
(*                                                                         *)
(* A tick sends one claim per idle slot and waits for them with            *)
(* Promise.all.  A claim that finds a run starts its execution in the      *)
(* background; one that the database refuses rejects the whole tick, while *)
(* the other claims of the tick stay in flight and nobody waits for them.  *)
(*                                                                         *)
(* WorkflowRuns takes for granted what this module is about, that a slot   *)
(* executes one run at a time.  A worker is started again only after its   *)
(* stop() returned, as engine/src/client.ts does.                          *)
(***************************************************************************)
EXTENDS Integers, FiniteSets

CONSTANTS
  Concurrency,    \* concurrency slots of the worker
  Runs,           \* workflow runs
  Registered,     \* the runs whose workflow this worker knows
  MaxRejections,  \* bound: how many claims the database refuses
  MaxStops        \* bound: how often stop() is called

ASSUME LoopAssumption ==
  /\ Concurrency \in Nat \ {0}
  /\ MaxRejections \in Nat
  /\ MaxStops \in Nat
  /\ Registered \subseteq Runs

Slots == 1 .. Concurrency
Ticks == 1 .. MaxRejections + 1

VARIABLES
  running,     \* the flag that start() sets and stop() clears
  pc,          \* the loop: "stopped", "polling", "ticking" or "backing off"
  tick,        \* which of the ticks with claims in flight the loop awaits, or 0
  claimed,     \* a claim of that tick found a run
  claims,      \* the claims in flight
  executions,  \* activeExecutions
  due,         \* the runs that can be claimed
  stop,        \* the call of stop(): "none", "loop", "executions", "returned"
  stops,       \* how often stop() was called
  rejections   \* how many claims were refused

vars == <<running, pc, tick, claimed, claims, executions, due, stop, stops, rejections>>

TypeOK ==
  /\ running \in BOOLEAN
  /\ pc \in {"stopped", "polling", "ticking", "backing off"}
  /\ tick \in Ticks \cup {0}
  /\ tick # 0 <=> pc = "ticking"
  /\ claimed \in BOOLEAN
  /\ claims \subseteq [slot : Slots, tick : Ticks]
  /\ executions \subseteq [slot : Slots, run : Runs]
  /\ due \subseteq Runs
  /\ \A e \in executions : e.run \notin due
  /\ stop \in {"none", "loop", "executions", "returned"}
  /\ stop \in {"executions", "returned"} => pc = "stopped"
  /\ stops \in 0 .. MaxStops
  /\ rejections \in 0 .. MaxRejections

Init ==
  /\ running = FALSE
  /\ pc = "stopped"
  /\ tick = 0
  /\ claimed = FALSE
  /\ claims = {}
  /\ executions = {}
  /\ due = {}
  /\ stop = "none"
  /\ stops = 0
  /\ rejections = 0

-----------------------------------------------------------------------------
(* Starting and stopping *)

Start ==
  /\ ~running
  /\ stop \in {"none", "returned"}
  /\ running' = TRUE
  /\ pc' = "polling"
  /\ stop' = "none"
  /\ UNCHANGED <<tick, claimed, claims, executions, due, stops, rejections>>

Stop ==
  /\ stop = "none"
  /\ stops < MaxStops
  /\ stops' = stops + 1
  /\ running' = FALSE
  /\ stop' = "loop"
  /\ UNCHANGED <<pc, tick, claimed, claims, executions, due, rejections>>

\* Mutant: does not wait for the poll loop.
StopAwaitsNothing ==
  /\ stop = "loop"
  /\ stop' = "executions"
  /\ UNCHANGED <<running, pc, tick, claimed, claims, executions, due, stops, rejections>>

\* stop() has awaited the poll loop.
StopAwaitedLoop ==
  /\ stop = "loop"
  /\ pc = "stopped"
  /\ stop' = "executions"
  /\ UNCHANGED <<running, pc, tick, claimed, claims, executions, due, stops, rejections>>

\* Mutant: waits until no run is due, which the loop no longer sees to.
StopDrainsQueue ==
  /\ stop = "executions"
  /\ executions = {}
  /\ due = {}
  /\ stop' = "returned"
  /\ UNCHANGED <<running, pc, tick, claimed, claims, executions, due, stops, rejections>>

\* stop() found no active execution and returns.
StopReturns ==
  /\ stop = "executions"
  /\ executions = {}
  /\ stop' = "returned"
  /\ UNCHANGED <<running, pc, tick, claimed, claims, executions, due, stops, rejections>>

-----------------------------------------------------------------------------
(* The loop *)

ActiveSlots == {e.slot : e \in executions}

\* Mutant: polls for as many slots as are free, whichever they are.
FirstSlots == 1 .. Concurrency - Cardinality(executions)

\* The idle slots, no more of them than the pool has room for.
AvailableSlots ==
  LET idle == Slots \ ActiveSlots
  IN  {s \in idle : Cardinality({x \in idle : x <= s})
                      <= Concurrency - Cardinality(executions)}

Leave ==
  /\ pc = "polling"
  /\ ~running
  /\ pc' = "stopped"
  /\ UNCHANGED <<running, tick, claimed, claims, executions, due, stop, stops, rejections>>

\* tick() sends its claims, all at once.
Tick ==
  /\ pc = "polling"
  /\ running
  /\ AvailableSlots # {}
  /\ \E t \in Ticks :
       /\ \A c \in claims : c.tick # t
       /\ tick' = t
       /\ claims' = claims \cup [slot : AvailableSlots, tick : {t}]
  /\ claimed' = FALSE
  /\ pc' = "ticking"
  /\ UNCHANGED <<running, executions, due, stop, stops, rejections>>

\* tick() returns zero: every slot is busy.
TickBusy ==
  /\ pc = "polling"
  /\ running
  /\ AvailableSlots = {}
  /\ pc' = "backing off"
  /\ UNCHANGED <<running, tick, claimed, claims, executions, due, stop, stops, rejections>>

\* All claims of the tick were answered.
TickEnds ==
  /\ pc = "ticking"
  /\ \A c \in claims : c.tick # tick
  /\ pc' = IF claimed THEN "polling" ELSE "backing off"
  /\ tick' = 0
  /\ UNCHANGED <<running, claimed, claims, executions, due, stop, stops, rejections>>

BackoffEnds ==
  /\ pc = "backing off"
  /\ pc' = "polling"
  /\ UNCHANGED <<running, tick, claimed, claims, executions, due, stop, stops, rejections>>

-----------------------------------------------------------------------------
(* The answers to a claim *)

Claim(c, r) ==
  /\ r \in due \cap Registered
  /\ due' = due \ {r}
  /\ claims' = claims \ {c}
  /\ executions' = executions \cup {[slot |-> c.slot, run |-> r]}
  /\ claimed' = (claimed \/ c.tick = tick)
  /\ UNCHANGED <<running, pc, tick, stop, stops, rejections>>

\* The claimed run's workflow is not registered: the run is failed, to be
\* retried later, and the claim counts as one that found nothing.
ClaimUnregistered(c, r) ==
  /\ r \in due \ Registered
  /\ due' = due \ {r}
  /\ claims' = claims \ {c}
  /\ UNCHANGED <<running, pc, tick, claimed, executions, stop, stops, rejections>>

ClaimNone(c) ==
  /\ due = {}
  /\ claims' = claims \ {c}
  /\ UNCHANGED <<running, pc, tick, claimed, executions, due, stop, stops, rejections>>

\* Mutant: the error of a tick ends the loop, which still counts as running.
RejectEndsLoop(c) ==
  /\ rejections < MaxRejections
  /\ rejections' = rejections + 1
  /\ claims' = claims \ {c}
  /\ pc' = IF c.tick = tick THEN "stopped" ELSE pc
  /\ tick' = IF c.tick = tick THEN 0 ELSE tick
  /\ UNCHANGED <<running, claimed, executions, due, stop, stops>>

\* The database refuses a statement of the claim: the tick fails, its other
\* claims go on.  A run the claim had taken waits for its lease to lapse.
Reject(c) ==
  /\ rejections < MaxRejections
  /\ rejections' = rejections + 1
  /\ claims' = claims \ {c}
  /\ pc' = IF c.tick = tick THEN "backing off" ELSE pc
  /\ tick' = IF c.tick = tick THEN 0 ELSE tick
  /\ due' \in {due} \cup {due \ {r} : r \in due}
  /\ UNCHANGED <<running, claimed, executions, stop, stops>>

-----------------------------------------------------------------------------
(* Runs *)

\* A run is created, woken up or given back.  (A run whose lease lapses while it
\* is executed is the business of WorkflowRuns.)
Arrive(r) ==
  /\ r \notin due
  /\ \A e \in executions : e.run # r
  /\ due' = due \cup {r}
  /\ UNCHANGED <<running, pc, tick, claimed, claims, executions, stop, stops, rejections>>

\* The execution ended, whatever became of the run.
Finish(e) ==
  /\ executions' = executions \ {e}
  /\ UNCHANGED <<running, pc, tick, claimed, claims, due, stop, stops, rejections>>

Loop == Leave \/ Tick \/ TickBusy \/ TickEnds \/ BackoffEnds

Stopping == StopAwaitedLoop \/ StopReturns

Answer(c) ==
  \/ ClaimNone(c)
  \/ \E r \in Runs : Claim(c, r) \/ ClaimUnregistered(c, r)

Next ==
  \/ Start \/ Stop
  \/ Stopping
  \/ Loop
  \/ \E c \in claims : Answer(c) \/ Reject(c)
  \/ \E e \in executions : Finish(e)
  \/ \E r \in Runs : Arrive(r)

Spec == Init /\ [][Next]_vars

\* The event loop goes on, the database answers every claim, and executions
\* end.  Nothing is assumed of which due run a claim takes: the code prefers
\* pending runs to parked ones.
FairSpec ==
  /\ Spec
  /\ WF_vars(Loop) /\ WF_vars(Stopping)
  /\ \A s \in Slots, t \in Ticks :
       LET c == [slot |-> s, tick |-> t] IN WF_vars(c \in claims /\ Answer(c))
  /\ \A s \in Slots, r \in Runs :
       LET e == [slot |-> s, run |-> r] IN WF_vars(e \in executions /\ Finish(e))

-----------------------------------------------------------------------------
(* Properties *)

\* While the database refuses no claim, a slot executes one run at a time,
\* although a tick looks for idle slots with claims in flight: two executions
\* under one worker id would both pass the fence of a run they have both
\* claimed (Worker.tick).
OneExecutionPerSlot ==
  rejections = 0 => \A e1, e2 \in executions : e1.slot = e2.slot => e1 = e2

\* "Waits for all active workflow runs to complete before returning"
\* (worker.ts:81): when stop() has returned no execution is in progress, and
\* none begins until the worker is started again.
StopWaits == stop = "returned" => executions = {}

\* The same while the database refuses no claim (Worker.stop).
StopWaitsUnlessRefused == rejections = 0 => StopWaits

\* While runs are due and the worker runs, runs are claimed again and again,
\* whatever claims the database refused before (Worker.runLoop).
DueRunsAreClaimed ==
  <>[](running /\ due # {}) => []<><<~(due \subseteq due')>>_vars

\* stop() returns (Worker.stop).
StopsInTheEnd == stop = "loop" ~> stop = "returned"
===============================================================================
