------------------------------ MODULE BlockGraphs ------------------------------
(***************************************************************************)
(* Workflow graphs and what both executors compute from one                *)
(* (packages/engine/src/executor/dag.ts, and the selection of branches     *)
(* that runner/walk.ts, runner/openworkflow.ts and                         *)
(* executor/executor.memory.ts each have a copy of).                       *)
(*                                                                         *)
(* A graph g is a record: g.blocks lists the blocks, g.kind and g.enabled  *)
(* describe them, g.edges lists the connections in the order of their      *)
(* creation.  An edge leaves its source by a handle.                       *)
(***************************************************************************)
EXTENDS Integers, Sequences, FiniteSets, SequencesExt

CONSTANTS
  Blocks,    \* block ids
  NoHandle   \* the handle of a connection that is stored without one

ASSUME HandleAssumption == NoHandle \notin STRING

DefaultHandle == "__default__"

\* Connections may name blocks that the workflow does not have.
Connections == [source : Blocks, target : Blocks, handle : STRING \cup {NoHandle}]

IsGraph(g) == g.blocks \in Seq(Blocks) /\ g.edges \in Seq(Connections)

ListedOnce(g) == \A i, j \in DOMAIN g.blocks : g.blocks[i] = g.blocks[j] => i = j

\* The positions in S in ascending order, and what a sequence has there.  (Of
\* SelectSeq and SortSeq the prover has no definition.)
Ascending(S) ==
  [n \in 1 .. Cardinality(S) |-> CHOOSE i \in S : Cardinality({j \in S : j < i}) = n - 1]

Pick(s, S) == LET at == Ascending(S) IN [n \in 1 .. Cardinality(S) |-> s[at[n]]]

\* The DAG has the enabled blocks and the connections between them.
Nodes(g) == ToSet(g.blocks) \cap g.enabled

Sources(g, t) ==
  {g.edges[i].source : i \in {j \in DOMAIN g.edges :
     g.edges[j].target = t /\ g.edges[j].source \in Nodes(g) /\ t \in Nodes(g)}}

TargetSet(g, s) == {t \in Nodes(g) : s \in Sources(g, t)}

\* A node keeps its outgoing connections in a map: a target stands where it was
\* first connected, by the handle of its last connection.
FirstEdge(g, s, t) ==
  CHOOSE i \in DOMAIN g.edges :
    /\ g.edges[i].source = s /\ g.edges[i].target = t
    /\ \A j \in 1 .. i - 1 : ~(g.edges[j].source = s /\ g.edges[j].target = t)

LastEdge(g, s, t) ==
  CHOOSE i \in DOMAIN g.edges :
    /\ g.edges[i].source = s /\ g.edges[i].target = t
    /\ \A j \in i + 1 .. Len(g.edges) : ~(g.edges[j].source = s /\ g.edges[j].target = t)

Targets(g, s) ==
  LET first == Pick(g.edges, {FirstEdge(g, s, t) : t \in TargetSet(g, s)})
  IN  [n \in DOMAIN first |-> first[n].target]

\* A connection without a handle leaves its source by the default handle.
Handle(g, s, t) ==
  LET stored == g.edges[LastEdge(g, s, t)].handle
  IN  IF stored = NoHandle THEN DefaultHandle ELSE stored

\* The blocks B and everything below them.
Downstream(g, B) ==
  LET Below[n \in 0 .. Len(g.blocks)] ==
        IF n = 0 THEN B
        ELSE LET below == Below[n - 1]
             IN  below \cup {t \in Nodes(g) : Sources(g, t) \cap below # {}}
  IN  Below[Len(g.blocks)]

Upstream(g, b) == {a \in ToSet(g.blocks) : a # b /\ b \in Downstream(g, {a})}

HasCycle(g) ==
  \E b \in Nodes(g) : b \in Downstream(g, TargetSet(g, b))

\* Deleting a block deletes its connections.
WithoutBlock(g, b) ==
  [g EXCEPT !.blocks = Pick(g.blocks, {i \in DOMAIN g.blocks : g.blocks[i] # b}),
            !.edges  = Pick(g.edges, {i \in DOMAIN g.edges :
                                        g.edges[i].source # b /\ g.edges[i].target # b})]

-----------------------------------------------------------------------------
(* Kahn's algorithm *)

Entrypoints(g) ==
  Pick(g.blocks, {i \in DOMAIN g.blocks :
                    g.blocks[i] \in Nodes(g) /\ Sources(g, g.blocks[i]) = {}})

\* Mutant: a block becomes ready with the first of its sources.
KahnStepEager(g, k) ==
  IF k.ready = <<>> THEN k
  ELSE LET b    == Head(k.ready)
           to   == Targets(g, b)
           left == [t \in Nodes(g) |-> IF t \in TargetSet(g, b) THEN k.left[t] - 1 ELSE k.left[t]]
           new  == {i \in DOMAIN to : ~Contains(k.order \o k.ready, to[i])}
       IN  [ready |-> Tail(k.ready) \o Pick(to, new),
            left  |-> left,
            order |-> Append(k.order, b)]

KahnStep(g, k) ==
  IF k.ready = <<>> THEN k
  ELSE LET b    == Head(k.ready)
           to   == Targets(g, b)
           left == [t \in Nodes(g) |-> IF t \in TargetSet(g, b) THEN k.left[t] - 1 ELSE k.left[t]]
       IN  [ready |-> Tail(k.ready) \o Pick(to, {i \in DOMAIN to : left[to[i]] = 0}),
            left  |-> left,
            order |-> Append(k.order, b)]

TopoSort(g) ==
  LET Kahn[n \in 0 .. Len(g.blocks)] ==
        IF n = 0
          THEN [ready |-> Entrypoints(g),
                left  |-> [t \in Nodes(g) |-> Cardinality(Sources(g, t))],
                order |-> <<>>]
          ELSE LET k == Kahn[n - 1] IN KahnStep(g, k)
  IN  Kahn[Len(g.blocks)].order

-----------------------------------------------------------------------------
(* Branches *)

\* What a block's output says about the branches to take: the name in its field
\* "branch" and the Boolean in its field "result", each of them or "none".
NoOutput == [branch |-> "absent", result |-> "absent"]
Plain    == [branch |-> "none", result |-> "none"]

\* The handles taken out of b.  Edges of a single handle are taken whatever the
\* output says; a Boolean result is taken even when no edge bears it, and then
\* the default edges are not.
Taken(g, b, out) ==
  LET handles == {Handle(g, b, t) : t \in TargetSet(g, b)}
      named   == (handles \cap {"success", out.branch}) \cup ({out.result} \ {"none"})
  IN  IF Cardinality(handles) <= 1 THEN handles
      ELSE IF named = {} THEN {DefaultHandle} ELSE named

NotTaken(g, b, taken) == {t \in TargetSet(g, b) : Handle(g, b, t) \notin taken}

\* Mutant: skips the targets only.
SkippingTargets(g, b, taken, skipped) == skipped \cup NotTaken(g, b, taken)

\* selectBranches and markDownstreamSkipped.
Skipping(g, b, taken, skipped) == skipped \cup Downstream(g, NotTaken(g, b, taken))
===============================================================================
