----------------------------- MODULE GraphExecution -----------------------------
(***************************************************************************)
(* One run of a workflow graph on either executor of packages/engine: the  *)
(* durable walk (runner/walk.ts; runner/openworkflow.ts repeats it), which *)
(* a worker replays from the beginning whenever it takes the run up again, *)
(* and the in-memory executor (executor/executor.memory.ts), which returns *)
(* a snapshot when a block pauses and is resumed from it.                  *)
(*                                                                         *)
(* "results" is what survives the process: the recorded results of steps   *)
(* on the durable runtime, the snapshot's block outputs in memory.  How    *)
(* steps are retried and waits are woken is the business of StepReplay and *)
(* ParkedWaits.                                                            *)
(***************************************************************************)
EXTENDS BlockGraphs

CONSTANTS
  Graphs,      \* the graphs that may be run
  Outputs,     \* what tools answer
  MaxCrashes,  \* bound: how often a process dies during a durable walk
  MaxThrows    \* bound: how often a block throws

NoBlock == "no block"

\* buildDAG accepts no graph with a cycle; WorkflowStore stores none that lists a
\* block twice.
ASSUME ExecutionAssumption ==
  /\ \A g \in Graphs : IsGraph(g) /\ ListedOnce(g) /\ ~HasCycle(g)
  /\ NoBlock \notin Blocks
  /\ Plain \in Outputs /\ NoOutput \notin Outputs
  /\ MaxCrashes \in Nat /\ MaxThrows \in Nat

VARIABLES
  executor,   \* "durable" or "memory"
  workflow,   \* the graph in the run's input or in the snapshot
  stored,     \* the graph in the workflow store
  status,     \* "due", "running", "parked", "completed" or "failed"
  order,      \* the blocks in the order of this pass
  position,   \* the next of them
  outputs,    \* blockOutputs of this pass
  skipped,    \* skipped blocks of this pass
  results,    \* what survives the pass
  waiting,    \* the block the run is parked at, or NoBlock
  crashes,
  threw,      \* blocks that threw, one entry for each time
  forgotten   \* history: blocks whose fate the snapshots do not tell

vars == <<executor, workflow, stored, status, order, position, outputs, skipped,
          results, waiting, crashes, threw, forgotten>>

Nothing == [b \in Blocks |-> NoOutput]

TypeOK ==
  /\ executor \in {"durable", "memory"}
  /\ workflow \in Graphs
  /\ status \in {"due", "running", "parked", "completed", "failed"}
  /\ position \in 1 .. Len(order) + 1
  /\ outputs \in [Blocks -> Outputs \cup {NoOutput}]
  /\ results \in [Blocks -> Outputs \cup {NoOutput}]
  /\ skipped \subseteq Nodes(workflow)
  /\ waiting \in Nodes(workflow) \cup {NoBlock}
  /\ waiting # NoBlock <=> status = "parked"
  /\ \A b \in skipped : outputs[b] = NoOutput \/ executor = "memory"
  /\ forgotten # {} => executor = "memory"

Init ==
  /\ executor \in {"durable", "memory"}
  /\ workflow \in Graphs
  /\ stored = workflow
  /\ status = "due"
  /\ order = <<>>
  /\ position = 1
  /\ outputs = Nothing
  /\ skipped = {}
  /\ results = Nothing
  /\ waiting = NoBlock
  /\ crashes = 0
  /\ threw = <<>>
  /\ forgotten = {}

-----------------------------------------------------------------------------
(* The walk, common to both executors *)

\* Mutant: a pass works on the graph that is stored now.
BeginWithStored ==
  /\ status = "due"
  /\ status' = "running"
  /\ workflow' = stored
  /\ order' = TopoSort(stored)
  /\ position' = 1
  /\ outputs' = IF executor = "memory" THEN results ELSE Nothing
  /\ skipped' = {}
  /\ UNCHANGED <<executor, stored, results, waiting, crashes, threw, forgotten>>

\* walkWorkflow starts from nothing; execute starts from the seed outputs.
Begin ==
  /\ status = "due"
  /\ status' = "running"
  /\ order' = TopoSort(workflow)
  /\ position' = 1
  /\ outputs' = IF executor = "memory" THEN results ELSE Nothing
  /\ skipped' = {}
  /\ UNCHANGED <<executor, workflow, stored, results, waiting, crashes, threw, forgotten>>

AtBlock(b) ==
  /\ status = "running"
  /\ position <= Len(order)
  /\ b = order[position]

\* execute does not visit what the seed outputs complete.
ToVisit(b) == b \notin skipped /\ outputs[b] = NoOutput

Advance == position' = position + 1

\* What a pass has in memory is gone with it.
EndPass ==
  /\ order' = <<>>
  /\ position' = 1
  /\ outputs' = Nothing
  /\ skipped' = {}

PassOver(b) ==
  /\ AtBlock(b)
  /\ ~ToVisit(b)
  /\ Advance
  /\ UNCHANGED <<executor, workflow, stored, status, order, outputs, skipped, results,
                 waiting, crashes, threw, forgotten>>

TakeTrigger(b) ==
  /\ AtBlock(b) /\ ToVisit(b)
  /\ workflow.kind[b] = "trigger"
  /\ outputs' = [outputs EXCEPT ![b] = Plain]
  /\ Advance
  /\ UNCHANGED <<executor, workflow, stored, status, order, skipped, results, waiting,
                 crashes, threw, forgotten>>

Finish ==
  /\ status = "running"
  /\ position > Len(order)
  /\ status' = "completed"
  /\ UNCHANGED <<executor, workflow, stored, order, position, outputs, skipped, results,
                 waiting, crashes, threw, forgotten>>

-----------------------------------------------------------------------------
(* Compute blocks *)

\* Mutant: a result that is replayed selects no branches.
ReplayWithoutBranches(b) ==
  /\ AtBlock(b) /\ ToVisit(b)
  /\ executor = "durable" /\ workflow.kind[b] = "compute"
  /\ results[b] # NoOutput
  /\ outputs' = [outputs EXCEPT ![b] = results[b]]
  /\ Advance
  /\ UNCHANGED <<executor, workflow, stored, status, order, skipped, results, waiting,
                 crashes, threw, forgotten>>

\* step.run finds the recorded result of the step.
ReplayTool(b) ==
  /\ AtBlock(b) /\ ToVisit(b)
  /\ executor = "durable" /\ workflow.kind[b] = "compute"
  /\ results[b] # NoOutput
  /\ outputs' = [outputs EXCEPT ![b] = results[b]]
  /\ skipped' = Skipping(workflow, b, Taken(workflow, b, results[b]), skipped)
  /\ Advance
  /\ UNCHANGED <<executor, workflow, stored, status, order, results, waiting, crashes,
                 threw, forgotten>>

\* The tool answers.  (When the process dies before the answer is recorded, the
\* step is that of Crash.)
CallTool(b, out) ==
  /\ AtBlock(b) /\ ToVisit(b)
  /\ workflow.kind[b] = "compute"
  /\ executor = "durable" => results[b] = NoOutput
  /\ outputs' = [outputs EXCEPT ![b] = out]
  /\ results' = IF executor = "durable" THEN [results EXCEPT ![b] = out] ELSE results
  /\ skipped' = Skipping(workflow, b, Taken(workflow, b, out), skipped)
  /\ Advance
  /\ UNCHANGED <<executor, workflow, stored, status, order, waiting, crashes, threw, forgotten>>

\* The tool throws.  The durable step is tried again by a later pass; the last
\* attempt its policy allows fails the run.
StepThrows(b) ==
  /\ AtBlock(b) /\ ToVisit(b)
  /\ executor = "durable" /\ workflow.kind[b] = "compute"
  /\ results[b] = NoOutput
  /\ Len(threw) < MaxThrows
  /\ threw' = Append(threw, b)
  /\ status' \in {"due", "failed"}
  /\ EndPass
  /\ UNCHANGED <<executor, workflow, stored, results, waiting, crashes, forgotten>>

\* The block's type or tool is not registered, the tool is not one of its own, or
\* its parameters do not resolve: it comes to no step.  A durable pass throws, and
\* the run fails or is tried again by another worker; in memory the run fails.
CannotRun(b) ==
  /\ AtBlock(b) /\ ToVisit(b)
  /\ Len(threw) < MaxThrows
  /\ IF executor = "durable"
       THEN status' \in {"due", "failed"} /\ threw' = Append(threw, b) /\ EndPass
       ELSE status' = "failed" /\ UNCHANGED <<order, position, outputs, skipped, threw>>
  /\ UNCHANGED <<executor, workflow, stored, results, waiting, crashes, forgotten>>

HasErrorPath(b) == \E t \in TargetSet(workflow, b) : Handle(workflow, b, t) = "error"

\* In memory the run goes on along the edges of the handle "error", if there are
\* any; the block has no output and does not count as completed.
ToolThrows(b) ==
  /\ AtBlock(b) /\ ToVisit(b)
  /\ executor = "memory" /\ workflow.kind[b] = "compute"
  /\ Len(threw) < MaxThrows
  /\ threw' = Append(threw, b)
  /\ skipped' = Skipping(workflow, b, {"error"}, skipped)
  /\ IF HasErrorPath(b)
       THEN Advance /\ UNCHANGED status
       ELSE status' = "failed" /\ UNCHANGED position
  /\ UNCHANGED <<executor, workflow, stored, order, outputs, results, waiting, crashes,
                 forgotten>>

-----------------------------------------------------------------------------
(* Wait blocks *)

Park(b) ==
  /\ AtBlock(b) /\ ToVisit(b)
  /\ executor = "durable" /\ workflow.kind[b] = "wait"
  /\ results[b] = NoOutput
  /\ waiting' = b
  /\ status' = "parked"
  /\ EndPass
  /\ UNCHANGED <<executor, workflow, stored, results, crashes, threw, forgotten>>

\* A wait that is over takes every edge of its block.
ReplayWait(b) ==
  /\ AtBlock(b) /\ ToVisit(b)
  /\ executor = "durable" /\ workflow.kind[b] = "wait"
  /\ results[b] # NoOutput
  /\ outputs' = [outputs EXCEPT ![b] = results[b]]
  /\ Advance
  /\ UNCHANGED <<executor, workflow, stored, status, order, skipped, results, waiting,
                 crashes, threw, forgotten>>

\* execute returns a snapshot: the outputs, and not which blocks were skipped
\* nor which tools threw.
Pause(b) ==
  /\ AtBlock(b) /\ ToVisit(b)
  /\ executor = "memory" /\ workflow.kind[b] = "wait"
  /\ results' = outputs
  /\ waiting' = b
  /\ status' = "parked"
  /\ forgotten' = forgotten \cup skipped \cup Downstream(workflow, ToSet(threw))
  /\ EndPass
  /\ UNCHANGED <<executor, workflow, stored, crashes, threw>>

\* Mutant: the run goes on waiting for what it has.
EndWaitStillWaiting ==
  /\ status = "parked"
  /\ results' = [results EXCEPT ![waiting] = Plain]
  /\ status' = "due"
  /\ UNCHANGED <<executor, workflow, stored, order, position, outputs, skipped, waiting,
                 crashes, threw, forgotten>>

\* The sleep is over, the signal came or timed out; or the caller resumes the
\* snapshot with the output of the block.
EndWait ==
  /\ status = "parked"
  /\ results' = [results EXCEPT ![waiting] = Plain]
  /\ waiting' = NoBlock
  /\ status' = "due"
  /\ UNCHANGED <<executor, workflow, stored, order, position, outputs, skipped, crashes,
                 threw, forgotten>>

-----------------------------------------------------------------------------
(* The environment *)

\* The process dies; another pass begins from the recorded results.
Crash ==
  /\ executor = "durable" /\ status = "running"
  /\ crashes < MaxCrashes
  /\ crashes' = crashes + 1
  /\ status' = "due"
  /\ EndPass
  /\ UNCHANGED <<executor, workflow, stored, results, waiting, threw, forgotten>>

\* Someone deletes a block that has run from the stored workflow, while the run
\* waits.
EditStored ==
  /\ executor = "durable" /\ status = "parked"
  /\ stored = workflow
  /\ \E b \in Nodes(workflow) :
       results[b] # NoOutput /\ stored' = WithoutBlock(workflow, b)
  /\ UNCHANGED <<executor, workflow, status, order, position, outputs, skipped, results,
                 waiting, crashes, threw, forgotten>>

Visit(b) ==
  \/ PassOver(b)
  \/ TakeTrigger(b)
  \/ ReplayTool(b)
  \/ \E out \in Outputs : CallTool(b, out)
  \/ Park(b) \/ ReplayWait(b) \/ Pause(b)

Next ==
  \/ Begin \/ Finish
  \/ \E b \in Blocks : Visit(b) \/ StepThrows(b) \/ ToolThrows(b) \/ CannotRun(b)
  \/ EndWait
  \/ Crash
  \/ EditStored

Spec == Init /\ [][Next]_vars

-----------------------------------------------------------------------------
(* Properties *)

Executed == {b \in Nodes(workflow) : outputs[b] # NoOutput}

\* The branches that a block takes: all of them after a wait or a trigger.
Chosen(b) ==
  IF workflow.kind[b] # "compute"
    THEN {Handle(workflow, b, t) : t \in TargetSet(workflow, b)}
    ELSE IF outputs[b] = NoOutput THEN {"error"} ELSE Taken(workflow, b, outputs[b])

\* The reference: a block is selected unless a branch that was not taken leads
\* to it, along whatever way.
Selected ==
  Nodes(workflow) \
    Downstream(workflow,
      UNION {NotTaken(workflow, b, Chosen(b)) : b \in Executed \cup ToSet(threw)})

\* A run that completes has executed the selected blocks, and no other unless a
\* snapshot has forgotten what became of it: the order of the blocks, replays,
\* crashes and edits of the stored workflow make no difference
\* (walkWorkflow, execute).  A block at which two branches join is selected only
\* when both are.
RunsTheSelectedBlocks ==
  status = "completed" =>
    /\ Selected \ ToSet(threw) \subseteq Executed
    /\ Executed \ Selected \subseteq forgotten

\* The pass that completes a durable run has met every step recorded by the
\* passes before it (walkWorkflow; runtime-workflow.ts pins the graph).
ReplayFollowsHistory ==
  executor = "durable" /\ status = "completed" =>
    \A b \in Blocks : results[b] # NoOutput => outputs[b] = results[b]

\* When no block is disabled and no tool has thrown, every upstream block of the
\* one whose turn it is has an output, so that a reference accepted by
\* validateReferences resolves (BlockResolver.resolve).
ReferencesResolve ==
  \A b \in Nodes(workflow) :
    AtBlock(b) /\ ToVisit(b) /\ Nodes(workflow) = ToSet(workflow.blocks) /\ threw = <<>> =>
      \A a \in Upstream(workflow, b) : outputs[a] # NoOutput

\* The order of a pass lists every block of the DAG once, after its sources
\* (topoSort).
OrderFollowsEdges ==
  status = "running" =>
    /\ ToSet(order) = Nodes(workflow)
    /\ \A i, j \in DOMAIN order :
         /\ i # j => order[i] # order[j]
         /\ order[i] \in Sources(workflow, order[j]) => i < j

\* "same workflow JSON, same block/tool registries, same outputs map"
\* (executor.memory.ts:13): a run of the in-memory executor in which no tool
\* throws executes the blocks that the durable walk executes.
SameOutputs ==
  executor = "memory" /\ status = "completed" /\ threw = <<>> => Executed = Selected
===============================================================================
