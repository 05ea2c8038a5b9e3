------------------------------- MODULE GraphEdits -------------------------------
(***************************************************************************)
(* The edit operations on a workflow graph                                 *)
(* (packages/engine/src/operations/apply.ts).                              *)
(*                                                                         *)
(* To the graphs of BlockGraphs this adds g.refs, the blocks that the      *)
(* parameters of a block refer to.  An operation op is a record: op.type,  *)
(* op.block and, as its type needs them, op.target, op.handle, op.refs,    *)
(* op.known (the block type is registered) and op.valid (the parameters    *)
(* have the fields that the block type requires and no others).            *)
(***************************************************************************)
EXTENDS BlockGraphs

EditOps ==
  [type : {"add", "edit"}, block : Blocks, refs : SUBSET Blocks, known : BOOLEAN, valid : BOOLEAN]
    \cup [type : {"delete"}, block : Blocks]
    \cup [type : {"connect"}, block : Blocks, target : Blocks, handle : STRING \cup {NoHandle}]
    \cup [type : {"disconnect"}, block : Blocks, target : Blocks]

Has(g, b) == b \in ToSet(g.blocks)

HasEdge(g, s, t) == \E i \in DOMAIN g.edges : g.edges[i].source = s /\ g.edges[i].target = t

Add(g, op) ==
  [g EXCEPT !.blocks = Append(g.blocks, op.block), !.refs[op.block] = op.refs]

\* An empty handle is dropped.
Connect(g, op) ==
  [g EXCEPT !.edges = Append(g.edges,
     [source |-> op.block, target |-> op.target,
      handle |-> IF op.handle = "" THEN NoHandle ELSE op.handle])]

\* Removes the first connection of the two blocks, whatever its handle.
Disconnect(g, op) ==
  [g EXCEPT !.edges = RemoveAt(g.edges, FirstEdge(g, op.block, op.target))]

\* Mutant: does not try the graph before it takes the connection up.
ConnectableUntried(g, op) ==
  /\ Has(g, op.block) /\ Has(g, op.target)
  /\ ~\E i \in DOMAIN g.edges :
        g.edges[i] = [source |-> op.block, target |-> op.target, handle |-> op.handle]

\* Mutant: does not look for the same connection.
ConnectableAgain(g, op) ==
  /\ Has(g, op.block) /\ Has(g, op.target)
  /\ ~HasCycle(Connect(g, op))

\* The stored connections are compared with the handle as it was sent: an empty
\* one is like none of them, and the block may be connected once more.
Connectable(g, op) ==
  /\ Has(g, op.block) /\ Has(g, op.target)
  /\ ~\E i \in DOMAIN g.edges :
        g.edges[i] = [source |-> op.block, target |-> op.target, handle |-> op.handle]
  /\ ~HasCycle(Connect(g, op))

\* The operation is applied; otherwise it is among the skipped items.
Applies(g, op) ==
  CASE op.type = "add"        -> ~Has(g, op.block) /\ op.known
    [] op.type = "edit"       -> Has(g, op.block) /\ op.known
    [] op.type = "delete"     -> Has(g, op.block)
    [] op.type = "connect"    -> Connectable(g, op)
    [] op.type = "disconnect" -> HasEdge(g, op.block, op.target)

ApplyOne(g, op) ==
  IF ~Applies(g, op) THEN g
  ELSE CASE op.type = "add"        -> Add(g, op)
         [] op.type = "edit"       -> [g EXCEPT !.refs[op.block] = op.refs]
         [] op.type = "delete"     -> WithoutBlock(g, op.block)
         [] op.type = "connect"    -> Connect(g, op)
         [] op.type = "disconnect" -> Disconnect(g, op)

\* filterParams drops the fields that the block type does not expose and reports
\* them, and those that are required and missing; the operation is applied.
FieldErrors(op) == op.type \in {"add", "edit"} /\ ~op.valid

\* The graph after the first operations of a request, the number of operations
\* skipped, and whether a field was not accepted.
ApplyAll(g, ops) ==
  LET After[n \in 0 .. Len(ops)] ==
        IF n = 0 THEN [graph |-> g, skips |-> 0, invalid |-> FALSE]
        ELSE LET r    == After[n - 1]
                 op   == ops[n]
                 does == Applies(r.graph, op)
             IN  [graph   |-> ApplyOne(r.graph, op),
                  skips   |-> IF does THEN r.skips ELSE r.skips + 1,
                  invalid |-> r.invalid \/ (does /\ FieldErrors(op))]
  IN  After[Len(ops)]

\* The blocks that a way leads from to b, through disabled blocks too.
UpstreamOf(g, b) == Upstream([g EXCEPT !.enabled = Blocks], b)

\* Mutant: deleting a block does not look at the references to it.
UnresolvedByOps(g, ops) ==
  \E i \in DOMAIN ops : ops[i].type \in {"add", "edit"} /\
    \E r \in g.refs[ops[i].block] : ~Has(g, r) \/ r \notin UpstreamOf(g, ops[i].block)

\* validateReferences, of the whole graph.
Unresolved(g, ops) ==
  \E b \in ToSet(g.blocks) : \E r \in g.refs[b] : ~Has(g, r) \/ r \notin UpstreamOf(g, b)

\* applyOperations: the graph and whether everything was in order.
ApplyOperations(g, ops) ==
  LET r == ApplyAll(g, ops)
  IN  [graph |-> r.graph,
       ok    |-> r.skips = 0 /\ ~r.invalid /\ ~HasCycle(r.graph) /\ ~Unresolved(r.graph, ops)]
===============================================================================
