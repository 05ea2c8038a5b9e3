----------------------------- MODULE WorkflowStore -----------------------------
(***************************************************************************)
(* One row of the workflow store and the requests that change it           *)
(* (packages/api/src/store/workflows.ts and routes/workflows.ts).          *)
(*                                                                         *)
(* A patch applies its operations to a row it has read and replaces the    *)
(* whole row by the result, also when some of them were skipped.  A        *)
(* request with an If-Match header names the version its sender has seen,  *)
(* which is older than the row the handler reads, or the same.             *)
(***************************************************************************)
EXTENDS GraphEdits

CONSTANTS
  Handlers,    \* requests in progress at a time
  Patches,     \* the lists of operations that are sent
  MaxPatches   \* bound: how many patches are sent

ASSUME StoreAssumption ==
  /\ MaxPatches \in Nat
  /\ \A ops \in Patches : ops \in Seq(EditOps)

Unconditional == 0

\* POST /workflows stores an empty graph.
EmptyGraph ==
  [blocks |-> <<>>, enabled |-> Blocks, edges |-> <<>>, refs |-> [b \in Blocks |-> {}]]

VARIABLES
  row,       \* graph, version, deleted and, as history, the patches in the graph
  handler,   \* handler[h]: the request it works on
  accepted,  \* history: the patches answered with a version, in that order
  sent       \* how many patches were sent

storeVars == <<row, handler, accepted, sent>>

Idle == [pc |-> "idle"]

StoreInit ==
  /\ row = [graph |-> EmptyGraph, version |-> 1, deleted |-> FALSE, patches |-> {}]
  /\ handler = [h \in Handlers |-> Idle]
  /\ accepted = <<>>
  /\ sent = 0

StoreTypeOK ==
  /\ row.version \in Nat \ {0}
  /\ row.deleted \in BOOLEAN
  /\ row.patches \subseteq 1 .. sent
  /\ sent \in 0 .. MaxPatches
  /\ \A h \in Handlers :
       handler[h] = Idle \/
       /\ handler[h].pc = "updating"
       /\ handler[h].ops \in Patches
       /\ handler[h].patch \in 1 .. sent
       /\ handler[h].expected \in 0 .. row.version
       /\ handler[h].seen.version \in handler[h].expected .. row.version

\* The handler of a patch reads the row.  The client has seen that version or
\* an older one, and says so or not.
Read(h, ops) ==
  /\ handler[h] = Idle
  /\ sent < MaxPatches
  /\ ~row.deleted
  /\ sent' = sent + 1
  /\ \E expected \in {Unconditional} \cup 1 .. row.version :
       handler' = [handler EXCEPT ![h] =
         [pc |-> "updating", ops |-> ops, patch |-> sent + 1, expected |-> expected,
          seen |-> row]]
  /\ UNCHANGED <<row, accepted>>

\* Mutant: compares the version with the row the handler has read.
MatchesSeen(r) ==
  /\ ~row.deleted
  /\ r.expected # Unconditional => r.seen.version = r.expected

\* Mutant: an update finds a deleted row.
MatchesDeleted(r) ==
  r.expected # Unconditional => row.version = r.expected

Matches(r) ==
  /\ ~row.deleted
  /\ r.expected # Unconditional => row.version = r.expected

NextVersion(r) == row.version + 1

\* The transaction of update(), which locks the row.
Update(h) ==
  /\ handler[h] # Idle
  /\ handler[h].pc = "updating"
  /\ LET r == handler[h]
     IN  IF Matches(r)
           THEN /\ row' = [graph   |-> ApplyOperations(r.seen.graph, r.ops).graph,
                           version |-> NextVersion(r),
                           deleted |-> row.deleted,
                           patches |-> r.seen.patches \cup {r.patch}]
                /\ accepted' = Append(accepted,
                     [patch |-> r.patch, version |-> row'.version,
                      ok |-> ApplyOperations(r.seen.graph, r.ops).ok,
                      guarded |-> r.expected # Unconditional])
           ELSE UNCHANGED <<row, accepted>>
  /\ handler' = [handler EXCEPT ![h] = Idle]
  /\ UNCHANGED sent

RemoveRow ==
  /\ ~row.deleted
  /\ row' = [row EXCEPT !.deleted = TRUE]
  /\ UNCHANGED <<handler, accepted, sent>>

StoreNext ==
  \/ \E h \in Handlers :
       \/ \E ops \in Patches : Read(h, ops)
       \/ Update(h)
  \/ RemoveRow

StoreSpec == StoreInit /\ [][StoreNext]_storeVars

-----------------------------------------------------------------------------
(* Properties *)

\* The stored graph lists no block twice, connects existing blocks and has no
\* cycle, and two connections that agree in source, target and handle have no
\* handle (applyConnect adds one more for every empty handle), whatever
\* operations were applied to whatever earlier version (applyOperations): an
\* executor can run it.
StoredGraphIsSound ==
  LET g == row.graph
  IN  /\ \A i, j \in DOMAIN g.blocks : i # j => g.blocks[i] # g.blocks[j]
      /\ \A i \in DOMAIN g.edges : Has(g, g.edges[i].source) /\ Has(g, g.edges[i].target)
      /\ \A i, j \in DOMAIN g.edges :
           i # j /\ g.edges[i] = g.edges[j] => g.edges[i].handle = NoHandle
      /\ ~HasCycle(g)

\* A patch that was accepted is in the stored graph as long as all patches
\* accepted after it were sent with If-Match: only a patch without it undoes
\* what another has done meanwhile (the patch route, and update()).
GuardedPatchesKeepOthers ==
  \A i \in DOMAIN accepted :
    (\A j \in i + 1 .. Len(accepted) : accepted[j].guarded) =>
      accepted[i].patch \in row.patches

\* A deleted workflow does not change, whoever had read it before
\* (remove() and update()).
DeletedStaysDeleted == [][row.deleted => row' = row]_storeVars

\* When the latest patch was answered "ok", every reference in the stored graph
\* names a block upstream of the one that has it, those references included
\* that earlier patches left behind (validateReferences).
OkGraphResolves ==
  accepted # <<>> /\ Last(accepted).ok =>
    \A b \in ToSet(row.graph.blocks) :
      \A r \in row.graph.refs[b] :
        Has(row.graph, r) /\ b \in Downstream(row.graph, TargetSet(row.graph, r))
===============================================================================
