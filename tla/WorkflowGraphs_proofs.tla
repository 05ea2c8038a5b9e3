------------------------- MODULE WorkflowGraphs_proofs -------------------------
(*****************************************************************************)
(* Proofs about the graph algorithms of BlockGraphs, the edit operations of  *)
(* GraphEdits, the store of WorkflowStore and the executors of               *)
(* GraphExecution: for any blocks, any finite graphs, any patches, any       *)
(* answers of the tools and any number of crashes and errors.                *)
(*                                                                           *)
(* The graph lemmas.  Downstream(g, B) is the least set that contains B and  *)
(* is closed under the connections: were it not closed, each round would     *)
(* have added a block, and there are no more blocks than rounds.  Kahn's     *)
(* algorithm puts out every block of an acyclic graph: of the blocks it left *)
(* over, one has no other of them above it (FirstNode), so that all of its   *)
(* sources are out and it is ready.                                          *)
(*                                                                           *)
(* The store.  Each operation takes a sound graph to a sound one             *)
(* (OneOpKeeps); so the row, and every version that a request has read, has  *)
(* a sound graph (GraphInv).                                                 *)
(*                                                                           *)
(* The executors (ExecInv).  In a pass, the blocks behind the position have  *)
(* an output, are skipped or threw, and what is skipped is what lies below a *)
(* branch that was not taken (PassSound).  Of what survives a pass, the      *)
(* snapshot of the in-memory executor has every block above one that it has  *)
(* (SnapSound), and no recorded result of the durable walk lies below a      *)
(* branch that the recorded results do not take (HistorySound): the next     *)
(* pass gets at each of them again.                                          *)
(*****************************************************************************)
EXTENDS GraphExecution, WorkflowStore, FiniteSetTheorems, NaturalsInduction, TLAPS

-----------------------------------------------------------------------------
(* Induction: over a set of numbers, and of a sequence of steps *)

LEMMA UpTo ==
  ASSUME NEW N \in Nat, NEW S, 0 \in S, \A n \in 0 .. N - 1 : n \in S => n + 1 \in S
  PROVE  \A n \in 0 .. N : n \in S
<1> DEFINE less == {ss \in Nat \X Nat : ss[1] < ss[2]}
           missing == {n \in 0 .. N : n \notin S}
<1>1. IsWellFoundedOn(less, Nat)
  BY NatLessThanWellFounded DEF OpToRel
<1> SUFFICES ASSUME missing # {} PROVE FALSE
  OBVIOUS
<1> HIDE DEF less
<1>2. missing \subseteq Nat
  OBVIOUS
<1>3. PICK m \in missing : \A n \in missing : <<n, m>> \notin less
  <2> HIDE DEF missing
  <2> QED BY <1>1, <1>2, WFMin
<1>4. m # 0 /\ m - 1 \in 0 .. N - 1 /\ m - 1 < m
  OBVIOUS
<1>5. m - 1 \notin missing
  BY <1>2, <1>3, <1>4 DEF less
<1> QED BY <1>4, <1>5

\* A least element of a set of numbers.
LEMMA Least ==
  ASSUME NEW S \in SUBSET Nat, S # {}
  PROVE  \E n \in S : \A m \in S : n <= m
<1> DEFINE less == {ss \in Nat \X Nat : ss[1] < ss[2]}
<1>1. IsWellFoundedOn(less, Nat)
  BY NatLessThanWellFounded DEF OpToRel
<1> HIDE DEF less
<1>2. PICK n \in S : \A m \in S : <<m, n>> \notin less
  BY <1>1, WFMin
<1>3. \A m \in S : ~(m < n)
  BY <1>2 DEF less
<1> QED BY <1>3

Iterates(f, N, x, Step) == f[0] = x /\ \A n \in 1 .. N : f[n] = Step[n][f[n - 1]]

\* N steps from x, each a function on T, are a function of how many were taken.
LEMMA Iteration ==
  ASSUME NEW N \in Nat, NEW T, NEW x \in T, NEW Step \in [1 .. N -> [T -> T]]
  PROVE  \E f \in [0 .. N -> T] : Iterates(f, N, x, Step)
<1> DEFINE S == {m \in 0 .. N : \E f \in [0 .. m -> T] : Iterates(f, m, x, Step)}
<1>1. 0 \in S
  <2> DEFINE f == [n \in 0 .. 0 |-> x]
  <2>1. f \in [0 .. 0 -> T] /\ Iterates(f, 0, x, Step)
    BY DEF Iterates
  <2> HIDE DEF f
  <2> QED BY <2>1
<1>2. ASSUME NEW m \in 0 .. N - 1, m \in S PROVE m + 1 \in S
  <2>1. PICK f \in [0 .. m -> T] : Iterates(f, m, x, Step)
    BY <1>2
  <2> DEFINE h == [n \in 0 .. m + 1 |-> IF n = m + 1 THEN Step[m + 1][f[m]] ELSE f[n]]
  <2>2. f[m] \in T /\ m + 1 \in 1 .. N
    OBVIOUS
  <2>3. Step[m + 1][f[m]] \in T
    BY <2>2
  <2>4. h \in [0 .. m + 1 -> T] /\ h[0] = x
    BY <2>1, <2>3 DEF Iterates
  <2>5. ASSUME NEW n \in 1 .. m + 1 PROVE h[n] = Step[n][h[n - 1]]
    BY <2>1 DEF Iterates
  <2>6. Iterates(h, m + 1, x, Step)
    BY <2>4, <2>5 DEF Iterates
  <2> HIDE DEF h
  <2> QED BY <2>2, <2>4, <2>6
<1>3. \A n \in 0 .. N : n \in S
  <2>1. \A m \in 0 .. N - 1 : m \in S => m + 1 \in S
    BY <1>2
  <2> HIDE DEF S
  <2> QED BY <1>1, <2>1, UpTo
<1> QED BY <1>3

-----------------------------------------------------------------------------
(* Downstream *)

LEMMA NodesFinite ==
  ASSUME NEW g, IsGraph(g)
  PROVE  /\ Len(g.blocks) \in Nat
         /\ IsFiniteSet(ToSet(g.blocks)) /\ Cardinality(ToSet(g.blocks)) <= Len(g.blocks)
         /\ IsFiniteSet(Nodes(g)) /\ Cardinality(Nodes(g)) <= Len(g.blocks)
         /\ Nodes(g) \subseteq ToSet(g.blocks) /\ ToSet(g.blocks) \subseteq Blocks
<1>1. /\ Len(g.blocks) \in Nat /\ DOMAIN g.blocks = 1 .. Len(g.blocks)
      /\ g.blocks \in [1 .. Len(g.blocks) -> ToSet(g.blocks)]
  BY DEF IsGraph, ToSet
<1>2. g.blocks \in Surjection(1 .. Len(g.blocks), ToSet(g.blocks))
  BY <1>1 DEF Surjection, ToSet
<1>3. IsFiniteSet(ToSet(g.blocks)) /\ Cardinality(ToSet(g.blocks)) <= Len(g.blocks)
  <2>1. ExistsSurjection(1 .. Len(g.blocks), ToSet(g.blocks))
    BY <1>2 DEF ExistsSurjection
  <2> QED BY <1>1, <2>1, FS_NatSurjection, FS_SurjCardinalityBound
<1>4. Nodes(g) \in SUBSET ToSet(g.blocks)
  BY DEF Nodes
<1>5. IsFiniteSet(Nodes(g)) /\ Cardinality(Nodes(g)) <= Cardinality(ToSet(g.blocks))
  BY <1>3, <1>4, FS_Subset
<1>6. Cardinality(ToSet(g.blocks)) \in Nat /\ Cardinality(Nodes(g)) \in Nat
  BY <1>3, <1>5, FS_CardinalityType
<1>7. ToSet(g.blocks) \subseteq Blocks
  BY DEF IsGraph, ToSet
<1> QED BY <1>1, <1>3, <1>4, <1>5, <1>6, <1>7

\* B and the nodes that one connection leads to.
Grown(g, B) == B \cup {t \in Nodes(g) : Sources(g, t) \cap B # {}}

Closed(g, B) == \A t \in Nodes(g) : Sources(g, t) \cap B # {} => t \in B

LEMMA DownstreamSteps ==
  ASSUME NEW g, IsGraph(g), NEW B
  PROVE  \E R \in [0 .. Len(g.blocks) -> SUBSET (B \cup Nodes(g))] :
           /\ R[0] = B
           /\ \A n \in 1 .. Len(g.blocks) : R[n] = Grown(g, R[n - 1])
           /\ Downstream(g, B) = R[Len(g.blocks)]
<1> DEFINE N == Len(g.blocks)
           T == SUBSET (B \cup Nodes(g))
           Step == [n \in 1 .. N |-> [below \in T |-> Grown(g, below)]]
           Body(f) == [n \in 0 .. N |-> IF n = 0 THEN B ELSE Grown(g, f[n - 1])]
<1>1. N \in Nat
  BY DEF IsGraph
<1>2. \A below \in T : Grown(g, below) \in T
  BY DEF Grown
<1>3. Step \in [1 .. N -> [T -> T]] /\ B \in T
  BY <1>2
<1>4. PICK f \in [0 .. N -> T] : Iterates(f, N, B, Step)
  <2> HIDE DEF N, T, Step
  <2> QED BY <1>1, <1>3, Iteration
<1>5. f[0] = B /\ \A n \in 1 .. N : f[n] = Step[n][f[n - 1]]
  BY <1>4 DEF Iterates
<1>6. \A n \in 1 .. N : f[n] = Grown(g, f[n - 1])
  <2>1. ASSUME NEW n \in 1 .. N PROVE f[n] = Grown(g, f[n - 1])
    <3>1. n - 1 \in 0 .. N /\ f[n - 1] \in T
      BY <1>1
    <3> QED BY <1>5, <3>1
  <2> QED BY <2>1
<1>7. f = Body(f)
  BY <1>1, <1>5, <1>6
<1> DEFINE R == CHOOSE h : h = Body(h)
<1>8. R = Body(R)
  <2> HIDE DEF Body
  <2> QED BY <1>7
<1>9. Downstream(g, B) = R[N]
  BY DEF Downstream, Grown
<1> HIDE DEF R
<1>10. R[0] = B /\ \A n \in 1 .. N : R[n] = Grown(g, R[n - 1])
  <2>1. ASSUME NEW n \in 1 .. N PROVE R[n] = Grown(g, R[n - 1])
    <3>1. n \in 0 .. N /\ n # 0
      BY <1>1
    <3> QED BY <1>8, <3>1
  <2>2. 0 \in 0 .. N
    BY <1>1
  <2>3. R[0] = B
    BY <1>8, <2>2
  <2> QED BY <2>1, <2>3
<1>11. \A n \in 0 .. N : R[n] \in T
  <2> DEFINE S == {n \in 0 .. N : R[n] \in T}
  <2>1. 0 \in S
    BY <1>1, <1>10
  <2>2. ASSUME NEW n \in 0 .. N - 1, n \in S PROVE n + 1 \in S
    <3>1. n + 1 \in 1 .. N /\ (n + 1) - 1 = n
      BY <1>1
    <3>2. R[n + 1] = Grown(g, R[n])
      BY <1>10, <3>1
    <3> QED BY <1>2, <2>2, <3>1, <3>2
  <2>3. \A n \in 0 .. N : n \in S
    <3> HIDE DEF S, N
    <3> QED BY <1>1, <2>1, <2>2, UpTo
  <2> QED BY <2>3
<1>12. R \in [0 .. N -> T]
  BY <1>8, <1>11
<1> QED BY <1>9, <1>10, <1>12

LEMMA DownstreamBounds ==
  ASSUME NEW g, IsGraph(g), NEW B
  PROVE  B \subseteq Downstream(g, B) /\ Downstream(g, B) \subseteq B \cup Nodes(g)
<1> DEFINE N == Len(g.blocks)
<1>1. PICK R \in [0 .. N -> SUBSET (B \cup Nodes(g))] :
        /\ R[0] = B
        /\ \A n \in 1 .. N : R[n] = Grown(g, R[n - 1])
        /\ Downstream(g, B) = R[N]
  BY DownstreamSteps
<1>2. N \in Nat /\ N \in 0 .. N
  BY NodesFinite
<1> DEFINE S == {n \in 0 .. N : B \subseteq R[n]}
<1>3. \A n \in 0 .. N : n \in S
  <2>1. 0 \in S
    BY <1>1, <1>2
  <2>2. ASSUME NEW n \in 0 .. N - 1, n \in S PROVE n + 1 \in S
    <3>1. n + 1 \in 1 .. N /\ (n + 1) - 1 = n /\ n + 1 \in 0 .. N
      BY <1>2
    <3>2. R[n + 1] = Grown(g, R[n])
      BY <1>1, <3>1
    <3> QED BY <2>2, <3>1, <3>2 DEF Grown
  <2>3. \A n \in 0 .. N - 1 : n \in S => n + 1 \in S
    BY <2>2
  <2> HIDE DEF S, N
  <2> QED BY <1>2, <2>1, <2>3, UpTo
<1> QED BY <1>1, <1>2, <1>3

LEMMA DownstreamLeast ==
  ASSUME NEW g, IsGraph(g), NEW B, NEW S, B \subseteq S, Closed(g, S)
  PROVE  Downstream(g, B) \subseteq S
<1> DEFINE N == Len(g.blocks)
<1>1. PICK R \in [0 .. N -> SUBSET (B \cup Nodes(g))] :
        /\ R[0] = B
        /\ \A n \in 1 .. N : R[n] = Grown(g, R[n - 1])
        /\ Downstream(g, B) = R[N]
  BY DownstreamSteps
<1>2. N \in Nat /\ N \in 0 .. N
  BY NodesFinite
<1> DEFINE within == {n \in 0 .. N : R[n] \subseteq S}
<1>3. \A n \in 0 .. N : n \in within
  <2>1. 0 \in within
    BY <1>1, <1>2
  <2>2. ASSUME NEW n \in 0 .. N - 1, n \in within PROVE n + 1 \in within
    <3>1. n + 1 \in 1 .. N /\ (n + 1) - 1 = n /\ n + 1 \in 0 .. N
      BY <1>2
    <3>2. R[n + 1] = Grown(g, R[n])
      BY <1>1, <3>1
    <3>3. Grown(g, R[n]) \subseteq S
      BY <2>2 DEF Grown, Closed
    <3> QED BY <3>1, <3>2, <3>3
  <2>3. \A n \in 0 .. N - 1 : n \in within => n + 1 \in within
    BY <2>2
  <2> HIDE DEF within, N
  <2> QED BY <1>2, <2>1, <2>3, UpTo
<1> QED BY <1>1, <1>2, <1>3

\* As many steps as there are blocks are enough: each adds a node, or no later
\* one does.
LEMMA DownstreamClosed ==
  ASSUME NEW g, IsGraph(g), NEW B
  PROVE  Closed(g, Downstream(g, B))
<1> DEFINE N == Len(g.blocks)
<1>1. PICK R \in [0 .. N -> SUBSET (B \cup Nodes(g))] :
        /\ R[0] = B
        /\ \A n \in 1 .. N : R[n] = Grown(g, R[n - 1])
        /\ Downstream(g, B) = R[N]
  BY DownstreamSteps
<1>2. /\ N \in Nat /\ IsFiniteSet(Nodes(g)) /\ Cardinality(Nodes(g)) <= N
      /\ Cardinality(Nodes(g)) \in Nat
  BY NodesFinite, FS_CardinalityType
<1> DEFINE Many(n) == n <= Cardinality(Nodes(g) \cap R[n])
           S == {n \in 0 .. N : Closed(g, R[n]) \/ Many(n)}
<1>3. ASSUME NEW n \in 0 .. N
      PROVE  /\ IsFiniteSet(Nodes(g) \cap R[n]) /\ Cardinality(Nodes(g) \cap R[n]) \in Nat
             /\ Cardinality(Nodes(g) \cap R[n]) <= Cardinality(Nodes(g))
  BY <1>2, FS_Intersection, FS_CardinalityType
<1>4. ASSUME NEW n \in 0 .. N - 1, n \in S PROVE n + 1 \in S
  <2>1. n + 1 \in 1 .. N /\ (n + 1) - 1 = n /\ n + 1 \in 0 .. N /\ n \in 0 .. N
    BY <1>2
  <2>2. R[n + 1] = Grown(g, R[n])
    BY <1>1, <2>1
  <2>3. CASE Closed(g, R[n])
    <3>1. R[n + 1] = R[n]
      BY <2>2, <2>3 DEF Grown, Closed
    <3> QED BY <2>1, <2>3, <3>1
  <2>4. CASE ~Closed(g, R[n])
    <3>1. PICK t \in Nodes(g) : Sources(g, t) \cap R[n] # {} /\ t \notin R[n]
      BY <2>4 DEF Closed
    <3> DEFINE old == Nodes(g) \cap R[n]
               new == Nodes(g) \cap R[n + 1]
    <3>2. old \cup {t} \in SUBSET new /\ t \notin old
      BY <2>2, <3>1 DEF Grown
    <3>3. IsFiniteSet(old) /\ IsFiniteSet(new) /\ Cardinality(old) \in Nat /\ Cardinality(new) \in Nat
      BY <1>3, <2>1
    <3> HIDE DEF old, new
    <3>4. Cardinality(old \cup {t}) = Cardinality(old) + 1
      BY <3>2, <3>3, FS_AddElement
    <3>5. Cardinality(old \cup {t}) <= Cardinality(new)
      BY <3>2, <3>3, FS_Subset
    <3>6. n <= Cardinality(old)
      BY <1>4, <2>4 DEF old
    <3>7. n + 1 <= Cardinality(new)
      BY <3>3, <3>4, <3>5, <3>6, <2>1
    <3> QED BY <2>1, <3>7 DEF new
  <2> QED BY <2>3, <2>4
<1>5. \A n \in 0 .. N : n \in S
  <2>1. 0 \in S
    BY <1>2, <1>3
  <2>2. \A n \in 0 .. N - 1 : n \in S => n + 1 \in S
    BY <1>4
  <2> HIDE DEF S, N
  <2> QED BY <1>2, <2>1, <2>2, UpTo
<1>6. N \in 0 .. N
  BY <1>2
<1>7. CASE Closed(g, R[N])
  BY <1>1, <1>7
<1>8. CASE Many(N)
  <2> DEFINE all == Nodes(g) \cap R[N]
  <2>1. all \in SUBSET Nodes(g) /\ Cardinality(all) \in Nat /\ N <= Cardinality(all)
        /\ Cardinality(all) <= Cardinality(Nodes(g))
    BY <1>3, <1>6, <1>8
  <2> HIDE DEF all
  <2>2. Cardinality(all) = Cardinality(Nodes(g))
    BY <1>2, <2>1
  <2>3. all = Nodes(g)
    BY <1>2, <2>1, <2>2, FS_Subset
  <2>4. Nodes(g) \subseteq R[N]
    BY <2>3 DEF all
  <2> QED BY <1>1, <2>4 DEF Closed
<1> QED BY <1>5, <1>6, <1>7, <1>8

LEMMA DownstreamMonotone ==
  ASSUME NEW g, IsGraph(g), NEW B, NEW C, B \subseteq C
  PROVE  Downstream(g, B) \subseteq Downstream(g, C)
<1>1. C \subseteq Downstream(g, C)
  BY DownstreamBounds
<1>2. B \subseteq Downstream(g, C)
  BY <1>1
<1> QED BY <1>2, DownstreamClosed, DownstreamLeast

\* What is below several sets is below one of them.
LEMMA DownstreamOfUnion ==
  ASSUME NEW g, IsGraph(g), NEW F, NEW t \in Downstream(g, UNION F)
  PROVE  \E B \in F : t \in Downstream(g, B)
<1> DEFINE S == UNION {Downstream(g, B) : B \in F}
<1>1. UNION F \subseteq S
  BY DownstreamBounds
<1>2. Closed(g, S)
  <2> SUFFICES ASSUME NEW u \in Nodes(g), Sources(g, u) \cap S # {} PROVE u \in S
    BY DEF Closed
  <2>1. PICK B \in F : Sources(g, u) \cap Downstream(g, B) # {}
    OBVIOUS
  <2>2. u \in Downstream(g, B)
    BY <2>1, DownstreamClosed DEF Closed
  <2> QED BY <2>2
<1>3. Downstream(g, UNION F) \subseteq S
  <2> HIDE DEF S
  <2> QED BY <1>1, <1>2, DownstreamLeast
<1> QED BY <1>3

-----------------------------------------------------------------------------
(* What is below a block *)

Below(g, a) == Downstream(g, TargetSet(g, a))

LEMMA SourcesAreNodes ==
  ASSUME NEW g, NEW t, NEW s \in Sources(g, t)
  PROVE  s \in Nodes(g) /\ t \in Nodes(g)
BY DEF Sources

LEMMA BelowBounds ==
  ASSUME NEW g, IsGraph(g), NEW a
  PROVE  /\ TargetSet(g, a) \subseteq Below(g, a) /\ Below(g, a) \subseteq Nodes(g)
         /\ Closed(g, Below(g, a))
<1>1. TargetSet(g, a) \subseteq Nodes(g)
  BY DEF TargetSet
<1> QED BY <1>1, DownstreamBounds, DownstreamClosed DEF Below

LEMMA BelowTransitive ==
  ASSUME NEW g, IsGraph(g), NEW a, NEW b \in Below(g, a)
  PROVE  Below(g, b) \subseteq Below(g, a)
<1>1. Closed(g, Below(g, a))
  BY BelowBounds
<1>2. TargetSet(g, b) \subseteq Below(g, a)
  BY <1>1 DEF TargetSet, Closed
<1> QED BY <1>1, <1>2, DownstreamLeast DEF Below

LEMMA DownstreamOfOne ==
  ASSUME NEW g, IsGraph(g), NEW a
  PROVE  /\ Downstream(g, {a}) = {a} \cup Below(g, a)
         /\ TargetSet(g, a) \subseteq Downstream(g, {a})
<1>1. TargetSet(g, a) \subseteq Below(g, a) /\ Closed(g, Below(g, a))
  BY BelowBounds
<1>2. Closed(g, {a} \cup Below(g, a))
  BY <1>1 DEF Closed, TargetSet
<1>3. Downstream(g, {a}) \subseteq {a} \cup Below(g, a)
  <2> DEFINE S == {a} \cup Below(g, a)
  <2>1. {a} \subseteq S
    OBVIOUS
  <2> HIDE DEF S
  <2>2. Closed(g, S)
    BY <1>2 DEF S
  <2> QED BY <2>1, <2>2, DownstreamLeast DEF S
<1>4. a \in Downstream(g, {a}) /\ Closed(g, Downstream(g, {a}))
  BY DownstreamBounds, DownstreamClosed
<1>5. TargetSet(g, a) \subseteq Downstream(g, {a})
  BY <1>4 DEF TargetSet, Closed
<1>6. Below(g, a) \subseteq Downstream(g, {a})
  BY <1>4, <1>5, DownstreamLeast DEF Below
<1> QED BY <1>3, <1>4, <1>5, <1>6

LEMMA UpstreamIsAbove ==
  ASSUME NEW g, IsGraph(g), NEW b, NEW a \in Upstream(g, b)
  PROVE  a \in ToSet(g.blocks) /\ a # b /\ b \in Below(g, a)
BY DownstreamOfOne DEF Upstream

LEMMA AcyclicBelow ==
  ASSUME NEW g, IsGraph(g), ~HasCycle(g), NEW a
  PROVE  a \notin Below(g, a)
BY BelowBounds DEF HasCycle, Below

\* A graph with no other connections has no cycle either.
LEMMA FewerEdges ==
  ASSUME NEW g, NEW h, IsGraph(g), IsGraph(h), ~HasCycle(g),
         \A t : Sources(h, t) \subseteq Sources(g, t)
  PROVE  ~HasCycle(h)
<1>1. ASSUME NEW b, b \in Below(h, b) PROVE FALSE
  <2>1. TargetSet(h, b) \subseteq TargetSet(g, b)
    BY SourcesAreNodes DEF TargetSet
  <2>2. TargetSet(h, b) \subseteq Below(g, b)
    BY <2>1, BelowBounds
  <2>3. Closed(h, Below(g, b))
    <3> SUFFICES ASSUME NEW t \in Nodes(h), NEW s \in Sources(h, t), s \in Below(g, b)
                 PROVE  t \in Below(g, b)
      BY DEF Closed
    <3>1. s \in Sources(g, t) /\ t \in Nodes(g)
      BY SourcesAreNodes
    <3>2. Closed(g, Below(g, b))
      BY BelowBounds
    <3> QED BY <3>1, <3>2 DEF Closed
  <2>4. Below(h, b) \subseteq Below(g, b)
    BY <2>2, <2>3, DownstreamLeast DEF Below
  <2> QED BY <1>1, <2>4, AcyclicBelow
<1> QED BY <1>1 DEF HasCycle, Below

\* Of some nodes of a graph without a cycle, one has none of the others before it.
LEMMA FirstNode ==
  ASSUME NEW g, IsGraph(g), ~HasCycle(g), NEW S \in SUBSET Nodes(g), S # {}
  PROVE  \E b \in S : Sources(g, b) \cap S = {}
<1> DEFINE N == Cardinality(Nodes(g))
           Left(b) == N - Cardinality(Below(g, b))
           lefts == {Left(b) : b \in S}
<1>1. IsFiniteSet(Nodes(g)) /\ N \in Nat
  BY NodesFinite, FS_CardinalityType
<1>2. ASSUME NEW b
      PROVE  /\ IsFiniteSet(Below(g, b)) /\ Cardinality(Below(g, b)) \in Nat
             /\ Cardinality(Below(g, b)) <= N
  <2>1. Below(g, b) \in SUBSET Nodes(g)
    BY BelowBounds
  <2> QED BY <1>1, <2>1, FS_Subset, FS_CardinalityType
<1>3. lefts \in SUBSET Nat /\ lefts # {}
  <2>1. \A b \in S : Left(b) \in Nat
    BY <1>1, <1>2
  <2> QED BY <2>1
<1>4. PICK b \in S : \A c \in S : Left(b) <= Left(c)
  <2>1. \E n \in lefts : \A m \in lefts : n <= m
    <3> HIDE DEF lefts
    <3> QED BY <1>3, Least
  <2> QED BY <2>1
<1>5. ASSUME NEW a \in Sources(g, b), a \in S PROVE FALSE
  <2>1. b \in TargetSet(g, a)
    BY SourcesAreNodes DEF TargetSet
  <2>2. b \in Below(g, a)
    BY <2>1, BelowBounds
  <2>3. Below(g, b) \subseteq Below(g, a) /\ b \notin Below(g, b)
    BY <2>2, BelowTransitive, AcyclicBelow
  <2>4. /\ IsFiniteSet(Below(g, a)) /\ Cardinality(Below(g, a)) \in Nat
        /\ Cardinality(Below(g, b)) \in Nat
    BY <1>2
  <2>5. Cardinality(Below(g, b)) <= Cardinality(Below(g, a))
        /\ Cardinality(Below(g, b)) # Cardinality(Below(g, a))
    BY <2>2, <2>3, <2>4, FS_Subset
  <2>6. Left(b) <= Left(a)
    BY <1>4, <1>5
  <2> QED BY <1>1, <2>4, <2>5, <2>6
<1> QED BY <1>5

-----------------------------------------------------------------------------
(* Picking elements of a sequence *)

Distinct(s) == \A i, j \in DOMAIN s : s[i] = s[j] => i = j

LEMMA IntervalSize ==
  ASSUME NEW n \in Nat
  PROVE  IsFiniteSet(1 .. n) /\ Cardinality(1 .. n) = n
<1>1. 1 \in Int /\ n \in Int /\ (1 > n => n = 0)
  OBVIOUS
<1>2. IsFiniteSet(1 .. n) /\ Cardinality(1 .. n) = IF 1 > n THEN 0 ELSE n - 1 + 1
  BY <1>1, FS_Interval
<1> QED BY <1>1, <1>2

\* How many elements of S are smaller tells its elements apart.
LEMMA Ranks ==
  ASSUME NEW S, IsFiniteSet(S), S \subseteq Nat
  PROVE  /\ \A i \in S : Cardinality({j \in S : j < i}) + 1 \in 1 .. Cardinality(S)
         /\ \A i, k \in S :
              i # k => Cardinality({j \in S : j < i}) # Cardinality({j \in S : j < k})
<1> DEFINE Less(i) == {j \in S : j < i}
<1>1. ASSUME NEW i \in S
      PROVE  /\ IsFiniteSet(Less(i)) /\ Cardinality(Less(i)) \in Nat
             /\ Cardinality(Less(i)) < Cardinality(S)
  <2>1. Less(i) \in SUBSET S /\ i \notin Less(i)
    OBVIOUS
  <2>2. Less(i) # S
    BY <2>1
  <2> HIDE DEF Less
  <2>3. /\ IsFiniteSet(Less(i)) /\ Cardinality(Less(i)) <= Cardinality(S)
        /\ Cardinality(Less(i)) # Cardinality(S)
    BY <2>1, <2>2, FS_Subset
  <2>4. Cardinality(Less(i)) \in Nat /\ Cardinality(S) \in Nat
    BY <2>3, FS_CardinalityType
  <2> QED BY <2>3, <2>4
<1>2. Cardinality(S) \in Nat
  BY FS_CardinalityType
<1>3. ASSUME NEW i \in S, NEW k \in S, i < k
      PROVE  Cardinality(Less(i)) # Cardinality(Less(k))
  <2>1. Less(i) \in SUBSET Less(k) /\ i \in Less(k) /\ i \notin Less(i)
    <3>1. i \in Nat /\ k \in Nat /\ \A j \in S : j \in Nat
      OBVIOUS
    <3>2. \A j \in S : j < i => j < k
      BY <1>3, <3>1
    <3>3. ~(i < i)
      BY <3>1
    <3>4. Less(i) \subseteq Less(k)
      BY <3>2
    <3> QED BY <1>3, <3>3, <3>4
  <2>2. Less(i) # Less(k) /\ IsFiniteSet(Less(k))
    BY <1>1, <2>1
  <2> HIDE DEF Less
  <2> QED BY <2>1, <2>2, FS_Subset
<1>4. \A i \in S : Cardinality(Less(i)) + 1 \in 1 .. Cardinality(S)
  <2> HIDE DEF Less
  <2> QED BY <1>1, <1>2
<1>5. ASSUME NEW i \in S, NEW k \in S, i # k
      PROVE  Cardinality(Less(i)) # Cardinality(Less(k))
  <2>1. i < k \/ k < i
    BY <1>5
  <2> QED BY <1>3, <2>1
<1> QED BY <1>4, <1>5

LEMMA AscendingIs ==
  ASSUME NEW S, IsFiniteSet(S), S \subseteq Nat
  PROVE  /\ Ascending(S) \in [1 .. Cardinality(S) -> S]
         /\ \A m, n \in 1 .. Cardinality(S) : Ascending(S)[m] = Ascending(S)[n] => m = n
         /\ \A i \in S : \E n \in 1 .. Cardinality(S) : Ascending(S)[n] = i
<1> DEFINE N == Cardinality(S)
           Rank(i) == Cardinality({j \in S : j < i})
           rank == [i \in S |-> Rank(i) + 1]
<1>1. N \in Nat
  BY FS_CardinalityType
<1>2. rank \in [S -> 1 .. N] /\ \A i, k \in S : rank[i] = rank[k] => i = k
  <2>1. ASSUME NEW i \in S PROVE Rank(i) + 1 \in 1 .. N /\ Rank(i) \in Nat
    <3>1. IsFiniteSet({j \in S : j < i})
      <4>1. {j \in S : j < i} \in SUBSET S
        OBVIOUS
      <4> QED BY <4>1, FS_Subset
    <3> QED BY <3>1, Ranks, FS_CardinalityType
  <2>2. ASSUME NEW i \in S, NEW k \in S, i # k PROVE Rank(i) # Rank(k)
    BY <2>2, Ranks
  <2> HIDE DEF Rank
  <2> QED BY <2>1, <2>2
<1>3. rank \in Surjection(S, 1 .. N)
  <2>1. rank \in Injection(S, 1 .. N)
    <3> HIDE DEF rank
    <3> QED BY <1>2 DEF Injection, IsInjective
  <2>2. IsFiniteSet(1 .. N) /\ Cardinality(1 .. N) = N
    BY <1>1, IntervalSize
  <2> HIDE DEF rank
  <2> QED BY <2>1, <2>2, FS_Injection
<1>4. \A n \in 1 .. N : \E i \in S : rank[i] = n
  <2> HIDE DEF rank
  <2> QED BY <1>3 DEF Surjection
<1>5. ASSUME NEW n \in 1 .. N
      PROVE  Ascending(S)[n] \in S /\ rank[Ascending(S)[n]] = n
  <2>1. PICK i \in S : rank[i] = n
    BY <1>4
  <2>2. Rank(i) = n - 1
    <3>1. rank[i] = Rank(i) + 1 /\ Rank(i) \in Int
      <4>1. IsFiniteSet({j \in S : j < i})
        <5>1. {j \in S : j < i} \in SUBSET S
          OBVIOUS
        <5> QED BY <5>1, FS_Subset
      <4> QED BY <4>1, FS_CardinalityType
    <3> HIDE DEF Rank, rank
    <3> QED BY <1>1, <2>1, <3>1
  <2>3. Ascending(S)[n] = CHOOSE k \in S : Rank(k) = n - 1
    BY DEF Ascending
  <2>4. Ascending(S)[n] \in S /\ Rank(Ascending(S)[n]) = n - 1
    <3> HIDE DEF Rank
    <3> QED BY <2>2, <2>3
  <2> HIDE DEF Rank
  <2> QED BY <1>1, <2>4
<1>6. Ascending(S) \in [1 .. N -> S]
  <2> DEFINE At(n) == CHOOSE i \in S : Rank(i) = n - 1
  <2>1. Ascending(S) = [n \in 1 .. N |-> At(n)]
    BY DEF Ascending
  <2> HIDE DEF At
  <2> QED BY <1>5, <2>1
<1> HIDE DEF rank
<1>7. ASSUME NEW i \in S PROVE Ascending(S)[rank[i]] = i /\ rank[i] \in 1 .. N
  BY <1>2, <1>5
<1> QED BY <1>5, <1>6, <1>7

LEMMA FinitePositions ==
  ASSUME NEW T, NEW s \in Seq(T), NEW S \in SUBSET DOMAIN s
  PROVE  IsFiniteSet(S) /\ S \subseteq Nat
<1>1. Len(s) \in Nat /\ S \in SUBSET (1 .. Len(s))
  OBVIOUS
<1>2. IsFiniteSet(1 .. Len(s))
  BY <1>1, IntervalSize
<1> QED BY <1>1, <1>2, FS_Subset

\* What Pick returns: the elements at the positions S, each position once.
LEMMA PickIs ==
  ASSUME NEW T, NEW s \in Seq(T), NEW S \in SUBSET DOMAIN s
  PROVE  /\ Pick(s, S) \in Seq(T) /\ Len(Pick(s, S)) = Cardinality(S)
         /\ ToSet(Pick(s, S)) = {s[i] : i \in S}
         /\ \E at \in [1 .. Cardinality(S) -> S] :
              /\ \A m, n \in 1 .. Cardinality(S) : at[m] = at[n] => m = n
              /\ Pick(s, S) = [n \in 1 .. Cardinality(S) |-> s[at[n]]]
<1> DEFINE N == Cardinality(S)
           at == Ascending(S)
<1>1. IsFiniteSet(S) /\ S \subseteq Nat
  BY FinitePositions
<1>2. N \in Nat
  BY <1>1, FS_CardinalityType
<1>3. /\ at \in [1 .. N -> S]
      /\ \A m, n \in 1 .. N : at[m] = at[n] => m = n
      /\ \A i \in S : \E n \in 1 .. N : at[n] = i
  BY <1>1, AscendingIs
<1>4. Pick(s, S) = [n \in 1 .. N |-> s[at[n]]]
  BY DEF Pick
<1> HIDE DEF at, N
<1>5. \A n \in 1 .. N : at[n] \in S /\ s[at[n]] \in T
  BY <1>3
<1>6. Pick(s, S) \in [1 .. N -> T]
  BY <1>4, <1>5
<1>7. Pick(s, S) \in Seq(T) /\ Len(Pick(s, S)) = N /\ DOMAIN Pick(s, S) = 1 .. N
  BY <1>2, <1>6
<1>8. ToSet(Pick(s, S)) = {s[i] : i \in S}
  BY <1>3, <1>4, <1>5, <1>7 DEF ToSet
<1> QED BY <1>3, <1>4, <1>7, <1>8 DEF N

LEMMA PickAt ==
  ASSUME NEW T, NEW s \in Seq(T), NEW S \in SUBSET DOMAIN s
  PROVE  \E at \in [1 .. Cardinality(S) -> S] :
           /\ \A m, n \in 1 .. Cardinality(S) : at[m] = at[n] => m = n
           /\ Pick(s, S) = [n \in 1 .. Cardinality(S) |-> s[at[n]]]
<1> DEFINE at == Ascending(S)
<1>1. /\ at \in [1 .. Cardinality(S) -> S]
      /\ \A m, n \in 1 .. Cardinality(S) : at[m] = at[n] => m = n
  BY FinitePositions, AscendingIs
<1>2. Pick(s, S) = [n \in 1 .. Cardinality(S) |-> s[at[n]]]
  BY DEF Pick
<1> HIDE DEF at
<1> QED BY <1>1, <1>2

LEMMA PickDistinct ==
  ASSUME NEW T, NEW s \in Seq(T), NEW S \in SUBSET DOMAIN s,
         \A i, j \in S : s[i] = s[j] => i = j
  PROVE  Distinct(Pick(s, S))
<1> DEFINE N == Cardinality(S)
<1>1. PICK at \in [1 .. N -> S] :
        /\ \A m, n \in 1 .. N : at[m] = at[n] => m = n
        /\ Pick(s, S) = [n \in 1 .. N |-> s[at[n]]]
  BY PickIs
<1> HIDE DEF N
<1> QED BY <1>1 DEF Distinct

-----------------------------------------------------------------------------
(* Kahn's algorithm *)

LEMMA AppendElements ==
  ASSUME NEW T, NEW s \in Seq(T), NEW x \in T
  PROVE  /\ Append(s, x) \in Seq(T) /\ ToSet(Append(s, x)) = ToSet(s) \cup {x}
         /\ Len(Append(s, x)) = Len(s) + 1 /\ DOMAIN Append(s, x) = 1 .. Len(s) + 1
         /\ Append(s, x)[Len(s) + 1] = x /\ \A i \in 1 .. Len(s) : Append(s, x)[i] = s[i]
<1>1. /\ Append(s, x) \in Seq(T) /\ Len(s) \in Nat /\ Len(Append(s, x)) = Len(s) + 1
      /\ DOMAIN Append(s, x) = 1 .. Len(s) + 1 /\ DOMAIN s = 1 .. Len(s)
      /\ Append(s, x)[Len(s) + 1] = x /\ \A i \in 1 .. Len(s) : Append(s, x)[i] = s[i]
  OBVIOUS
<1>2. ToSet(Append(s, x)) = ToSet(s) \cup {x}
  <2>1. \A i \in 1 .. Len(s) + 1 : i \in 1 .. Len(s) \/ i = Len(s) + 1
    BY <1>1
  <2>2. Len(s) + 1 \in 1 .. Len(s) + 1 /\ \A i \in 1 .. Len(s) : i \in 1 .. Len(s) + 1
    BY <1>1
  <2> QED BY <1>1, <2>1, <2>2 DEF ToSet
<1> QED BY <1>1, <1>2

LEMMA AppendDistinct ==
  ASSUME NEW T, NEW s \in Seq(T), NEW x \in T, Distinct(s), x \notin ToSet(s)
  PROVE  Distinct(Append(s, x))
<1>1. /\ Len(s) \in Nat /\ DOMAIN s = 1 .. Len(s)
      /\ DOMAIN Append(s, x) = 1 .. Len(s) + 1
      /\ Append(s, x)[Len(s) + 1] = x /\ \A i \in 1 .. Len(s) : Append(s, x)[i] = s[i]
  BY AppendElements
<1>2. \A i \in 1 .. Len(s) + 1 : i \in 1 .. Len(s) \/ i = Len(s) + 1
  BY <1>1
<1>3. \A i \in 1 .. Len(s) : s[i] # x
  BY <1>1 DEF ToSet
<1> QED BY <1>1, <1>2, <1>3 DEF Distinct

LEMMA TailElements ==
  ASSUME NEW T, NEW s \in Seq(T), s # <<>>
  PROVE  /\ Head(s) \in T /\ Tail(s) \in Seq(T)
         /\ ToSet(s) = {Head(s)} \cup ToSet(Tail(s))
         /\ Distinct(s) => Distinct(Tail(s)) /\ Head(s) \notin ToSet(Tail(s))
<1>1. /\ Len(s) \in Nat /\ Len(s) # 0 /\ DOMAIN s = 1 .. Len(s)
      /\ Head(s) = s[1] /\ Head(s) \in T
      /\ Tail(s) \in Seq(T) /\ Len(Tail(s)) = Len(s) - 1
      /\ DOMAIN Tail(s) = 1 .. Len(s) - 1
      /\ \A i \in 1 .. Len(s) - 1 : Tail(s)[i] = s[i + 1]
  OBVIOUS
<1>2. /\ \A i \in 1 .. Len(s) : i # 1 => i - 1 \in 1 .. Len(s) - 1 /\ (i - 1) + 1 = i
      /\ \A i \in 1 .. Len(s) - 1 : i + 1 \in 1 .. Len(s) /\ i + 1 # 1
      /\ 1 \in 1 .. Len(s)
      /\ \A i, j \in 1 .. Len(s) - 1 : i + 1 = j + 1 => i = j
  BY <1>1
<1>3. ToSet(s) = {Head(s)} \cup ToSet(Tail(s))
  <2>1. ASSUME NEW i \in 1 .. Len(s), i # 1 PROVE s[i] \in ToSet(Tail(s))
    <3>1. i - 1 \in 1 .. Len(s) - 1 /\ Tail(s)[i - 1] = s[(i - 1) + 1] /\ (i - 1) + 1 = i
      BY <1>1, <1>2, <2>1
    <3>2. s[i] = Tail(s)[i - 1] /\ i - 1 \in DOMAIN Tail(s)
      BY <1>1, <3>1
    <3> QED BY <3>2 DEF ToSet
  <2> QED BY <1>1, <1>2, <2>1 DEF ToSet
<1>4. ASSUME Distinct(s) PROVE Distinct(Tail(s)) /\ Head(s) \notin ToSet(Tail(s))
  BY <1>1, <1>2, <1>4 DEF Distinct, ToSet
<1> QED BY <1>1, <1>3, <1>4

LEMMA ConcatPositions ==
  ASSUME NEW T, NEW s \in Seq(T), NEW u \in Seq(T)
  PROVE  /\ s \o u \in Seq(T) /\ ToSet(s \o u) = ToSet(s) \cup ToSet(u)
         /\ \A k \in DOMAIN (s \o u) :
              \/ k \in DOMAIN s /\ (s \o u)[k] = s[k]
              \/ k - Len(s) \in DOMAIN u /\ (s \o u)[k] = u[k - Len(s)]
<1> DEFINE m == Len(s)
           n == Len(u)
<1>1. /\ m \in Nat /\ n \in Nat /\ DOMAIN s = 1 .. m /\ DOMAIN u = 1 .. n
      /\ s \o u \in Seq(T) /\ Len(s \o u) = m + n /\ DOMAIN (s \o u) = 1 .. m + n
      /\ \A i \in 1 .. m + n : (s \o u)[i] = IF i <= m THEN s[i] ELSE u[i - m]
  OBVIOUS
<1> HIDE DEF m, n
<1>2. /\ \A i \in 1 .. m + n : i \in 1 .. m \/ (i - m \in 1 .. n /\ ~(i <= m))
      /\ \A i \in 1 .. m : i \in 1 .. m + n /\ i <= m
      /\ \A i \in 1 .. n : i + m \in 1 .. m + n /\ ~(i + m <= m) /\ (i + m) - m = i
      /\ \A i, j \in 1 .. m + n : i - m = j - m => i = j
  BY <1>1
<1>3. /\ \A i \in 1 .. m : (s \o u)[i] = s[i]
      /\ \A i \in 1 .. n : (s \o u)[i + m] = u[i]
      /\ \A i \in 1 .. m + n : ~(i <= m) => (s \o u)[i] = u[i - m]
  BY <1>1, <1>2
<1>4. ToSet(s \o u) = ToSet(s) \cup ToSet(u)
  <2>1. ASSUME NEW i \in 1 .. m + n PROVE (s \o u)[i] \in ToSet(s) \cup ToSet(u)
    <3>1. i \in 1 .. m => (s \o u)[i] = s[i] /\ i \in DOMAIN s
      BY <1>1, <1>3
    <3>2. i \notin 1 .. m => (s \o u)[i] = u[i - m] /\ i - m \in DOMAIN u
      BY <1>1, <1>2, <1>3
    <3> QED BY <3>1, <3>2 DEF ToSet
  <2>2. ASSUME NEW i \in 1 .. m PROVE s[i] \in ToSet(s \o u)
    BY <1>1, <1>2, <1>3 DEF ToSet
  <2>3. ASSUME NEW i \in 1 .. n PROVE u[i] \in ToSet(s \o u)
    BY <1>1, <1>2, <1>3 DEF ToSet
  <2> QED BY <1>1, <2>1, <2>2, <2>3 DEF ToSet
<1> QED BY <1>1, <1>2, <1>3, <1>4 DEF m, n

LEMMA ConcatElements ==
  ASSUME NEW T, NEW s \in Seq(T), NEW u \in Seq(T)
  PROVE  s \o u \in Seq(T) /\ ToSet(s \o u) = ToSet(s) \cup ToSet(u)
BY ConcatPositions

LEMMA ConcatDistinct ==
  ASSUME NEW T, NEW s \in Seq(T), NEW u \in Seq(T),
         Distinct(s), Distinct(u), ToSet(s) \cap ToSet(u) = {}
  PROVE  Distinct(s \o u)
<1>1. \A k \in DOMAIN (s \o u) :
        \/ k \in DOMAIN s /\ (s \o u)[k] = s[k]
        \/ k - Len(s) \in DOMAIN u /\ (s \o u)[k] = u[k - Len(s)]
  BY ConcatPositions
<1>2. \A i \in DOMAIN s, j \in DOMAIN u : s[i] # u[j]
  BY DEF ToSet
<1>3. ASSUME NEW i \in DOMAIN (s \o u), NEW j \in DOMAIN (s \o u), (s \o u)[i] = (s \o u)[j]
      PROVE  i = j
  <2>1. i \in Int /\ j \in Int /\ Len(s) \in Int
    <3>1. s \o u \in Seq(T) /\ Len(s) \in Int
      BY ConcatElements
    <3> QED BY <3>1
  <2>2. CASE i \in DOMAIN s /\ j \in DOMAIN s /\ s[i] = s[j]
    BY <2>2 DEF Distinct
  <2>3. CASE i - Len(s) \in DOMAIN u /\ j - Len(s) \in DOMAIN u /\ u[i - Len(s)] = u[j - Len(s)]
    <3>1. i - Len(s) = j - Len(s)
      BY <2>3 DEF Distinct
    <3> QED BY <2>1, <3>1
  <2> QED BY <1>1, <1>2, <1>3, <2>2, <2>3
<1> QED BY <1>3 DEF Distinct

LEMMA FirstEdgeIs ==
  ASSUME NEW g, IsGraph(g), NEW s, NEW t, HasEdge(g, s, t)
  PROVE  /\ FirstEdge(g, s, t) \in DOMAIN g.edges
         /\ g.edges[FirstEdge(g, s, t)].source = s /\ g.edges[FirstEdge(g, s, t)].target = t
<1> DEFINE P(i) == g.edges[i].source = s /\ g.edges[i].target = t
           S == {i \in DOMAIN g.edges : P(i)}
<1>1. Len(g.edges) \in Nat /\ DOMAIN g.edges = 1 .. Len(g.edges)
  BY DEF IsGraph
<1>2. S \in SUBSET Nat /\ S # {}
  <2>1. S # {}
    BY DEF HasEdge
  <2> QED BY <1>1, <2>1
<1>3. PICK i \in S : \A j \in S : i <= j
  <2> HIDE DEF S
  <2> QED BY <1>2, Least
<1>4. i \in DOMAIN g.edges /\ P(i) /\ \A j \in 1 .. i - 1 : ~P(j)
  <2>1. ASSUME NEW j \in 1 .. i - 1 PROVE ~P(j)
    <3>1. j \in DOMAIN g.edges /\ ~(i <= j)
      BY <1>1, <1>3
    <3> QED BY <1>3, <3>1
  <2> QED BY <1>3, <2>1
<1>5. FirstEdge(g, s, t) = CHOOSE k \in DOMAIN g.edges : P(k) /\ \A j \in 1 .. k - 1 : ~P(j)
  BY DEF FirstEdge
<1>6. FirstEdge(g, s, t) \in DOMAIN g.edges /\ P(FirstEdge(g, s, t))
  <2> HIDE DEF P
  <2> QED BY <1>4, <1>5
<1> QED BY <1>6

LEMMA TargetsAre ==
  ASSUME NEW g, IsGraph(g), NEW s
  PROVE  /\ Targets(g, s) \in Seq(Nodes(g)) /\ Distinct(Targets(g, s))
         /\ ToSet(Targets(g, s)) = TargetSet(g, s)
<1> DEFINE F == {FirstEdge(g, s, t) : t \in TargetSet(g, s)}
           first == Pick(g.edges, F)
<1>1. /\ F \in SUBSET DOMAIN g.edges
      /\ \A i \in F : g.edges[i].target \in TargetSet(g, s)
      /\ \A i \in F : i = FirstEdge(g, s, g.edges[i].target)
      /\ \A t \in TargetSet(g, s) : \E i \in F : g.edges[i].target = t
  <2>1. \A t \in TargetSet(g, s) : HasEdge(g, s, t)
    BY DEF TargetSet, Sources, HasEdge
  <2> QED BY <2>1, FirstEdgeIs
<1>2. g.edges \in Seq(Connections)
  BY DEF IsGraph
<1>3. Targets(g, s) = [n \in DOMAIN first |-> first[n].target]
  BY DEF Targets
<1> HIDE DEF F
<1>4. \A i, j \in F : g.edges[i] = g.edges[j] => i = j
  BY <1>1
<1>5. /\ first \in Seq(Connections) /\ ToSet(first) = {g.edges[i] : i \in F}
      /\ \A i, j \in DOMAIN first : first[i] = first[j] => i = j
  BY <1>1, <1>2, <1>4, PickIs, PickDistinct DEF Distinct
<1> HIDE DEF first
<1>6. DOMAIN first = 1 .. Len(first) /\ Len(first) \in Nat
  BY <1>5
<1>7. \A n \in DOMAIN first : \E i \in F : first[n] = g.edges[i]
  BY <1>5 DEF ToSet
<1>8. \A i \in F : \E n \in DOMAIN first : first[n] = g.edges[i]
  BY <1>5 DEF ToSet
<1>9. Targets(g, s) \in [1 .. Len(first) -> Nodes(g)]
  <2>1. \A n \in DOMAIN first : first[n].target \in Nodes(g)
    BY <1>1, <1>7 DEF TargetSet
  <2> QED BY <1>3, <1>6, <2>1
<1>10. Targets(g, s) \in Seq(Nodes(g)) /\ DOMAIN Targets(g, s) = DOMAIN first
  BY <1>6, <1>9
<1>11. ToSet(Targets(g, s)) = TargetSet(g, s)
  <2>1. ToSet(Targets(g, s)) = {first[n].target : n \in DOMAIN first}
    BY <1>3, <1>10 DEF ToSet
  <2> QED BY <1>1, <1>7, <1>8, <2>1
<1>12. Distinct(Targets(g, s))
  <2> SUFFICES ASSUME NEW m \in DOMAIN first, NEW n \in DOMAIN first,
                      first[m].target = first[n].target
               PROVE  m = n
    BY <1>3, <1>10 DEF Distinct
  <2>1. PICK i \in F : first[m] = g.edges[i]
    BY <1>7
  <2>2. PICK j \in F : first[n] = g.edges[j]
    BY <1>7
  <2>3. i = j
    BY <1>1, <2>1, <2>2
  <2> QED BY <1>5, <2>1, <2>2, <2>3
<1> QED BY <1>10, <1>11, <1>12

\* The states of the algorithm: what is ready or ordered is what has all its
\* sources ordered, the ordered have theirs before them, and left counts the others.
KahnStates(g) ==
  {k \in [ready : Seq(Nodes(g)), left : [Nodes(g) -> Nat], order : Seq(Nodes(g))] :
     /\ Distinct(k.ready) /\ Distinct(k.order) /\ ToSet(k.ready) \cap ToSet(k.order) = {}
     /\ \A t \in Nodes(g) : k.left[t] = Cardinality(Sources(g, t) \ ToSet(k.order))
     /\ \A t \in Nodes(g) :
          t \in ToSet(k.order) \cup ToSet(k.ready) <=> Sources(g, t) \subseteq ToSet(k.order)
     /\ \A j \in DOMAIN k.order : \A s \in Sources(g, k.order[j]) :
          \E i \in 1 .. j - 1 : k.order[i] = s}

KahnStart(g) ==
  [ready |-> Entrypoints(g),
   left  |-> [t \in Nodes(g) |-> Cardinality(Sources(g, t))],
   order |-> <<>>]

LEMMA SourcesFinite ==
  ASSUME NEW g, IsGraph(g), NEW t, NEW S
  PROVE  IsFiniteSet(Sources(g, t) \ S) /\ Cardinality(Sources(g, t) \ S) \in Nat
<1>1. Sources(g, t) \ S \in SUBSET Nodes(g)
  BY SourcesAreNodes
<1>2. IsFiniteSet(Nodes(g))
  BY NodesFinite
<1> QED BY <1>1, <1>2, FS_Subset, FS_CardinalityType

LEMMA EntrypointsAre ==
  ASSUME NEW g, IsGraph(g), ListedOnce(g)
  PROVE  /\ Entrypoints(g) \in Seq(Nodes(g)) /\ Distinct(Entrypoints(g))
         /\ ToSet(Entrypoints(g)) = {t \in Nodes(g) : Sources(g, t) = {}}
<1> DEFINE S == {i \in DOMAIN g.blocks : g.blocks[i] \in Nodes(g) /\ Sources(g, g.blocks[i]) = {}}
<1>1. S \in SUBSET DOMAIN g.blocks /\ Entrypoints(g) = Pick(g.blocks, S)
  BY DEF Entrypoints
<1>2. \A i, j \in S : g.blocks[i] = g.blocks[j] => i = j
  BY DEF ListedOnce
<1>3. {g.blocks[i] : i \in S} = {t \in Nodes(g) : Sources(g, t) = {}}
  BY DEF Nodes, ToSet
<1>4. g.blocks \in Seq(Blocks)
  BY DEF IsGraph
<1> HIDE DEF S
<1>5. /\ Entrypoints(g) \in Seq(Blocks) /\ ToSet(Entrypoints(g)) = {g.blocks[i] : i \in S}
      /\ Distinct(Entrypoints(g))
  BY <1>1, <1>2, <1>4, PickIs, PickDistinct
<1>6. Entrypoints(g) \in Seq(Nodes(g))
  <2>1. \A i \in DOMAIN Entrypoints(g) : Entrypoints(g)[i] \in Nodes(g)
    BY <1>3, <1>5 DEF ToSet
  <2> QED BY <1>5, <2>1
<1> QED BY <1>3, <1>5, <1>6

LEMMA KahnStarts ==
  ASSUME NEW g, IsGraph(g), ListedOnce(g)
  PROVE  KahnStart(g) \in KahnStates(g)
<1> DEFINE k == KahnStart(g)
<1>1. /\ k.ready = Entrypoints(g) /\ k.order = <<>>
      /\ k.left = [t \in Nodes(g) |-> Cardinality(Sources(g, t))]
      /\ k = [ready |-> k.ready, left |-> k.left, order |-> k.order]
  BY DEF KahnStart
<1> HIDE DEF k
<1>2. k.order \in Seq(Nodes(g)) /\ DOMAIN k.order = {} /\ ToSet(k.order) = {} /\ Distinct(k.order)
  BY <1>1 DEF ToSet, Distinct
<1>3. \A t \in Nodes(g) : k.left[t] = Cardinality(Sources(g, t) \ ToSet(k.order))
  BY <1>1, <1>2
<1>4. k.left \in [Nodes(g) -> Nat]
  <2>1. \A t \in Nodes(g) : Cardinality(Sources(g, t)) \in Nat
    <3>1. \A t : Sources(g, t) \ {} = Sources(g, t)
      OBVIOUS
    <3> QED BY <3>1, SourcesFinite
  <2> QED BY <1>1, <2>1
<1>5. k \in [ready : Seq(Nodes(g)), left : [Nodes(g) -> Nat], order : Seq(Nodes(g))]
  BY <1>1, <1>2, <1>4, EntrypointsAre
<1>6. Distinct(k.ready) /\ ToSet(k.ready) = {t \in Nodes(g) : Sources(g, t) = {}}
  BY <1>1, EntrypointsAre
<1> QED BY <1>2, <1>3, <1>5, <1>6 DEF KahnStates, k

LEMMA KahnStepKeeps ==
  ASSUME NEW g, IsGraph(g), NEW k \in KahnStates(g), k.ready # <<>>
  PROVE  /\ KahnStep(g, k) \in KahnStates(g)
         /\ Len(KahnStep(g, k).order) = Len(k.order) + 1
<1> DEFINE V == Nodes(g)
           b == Head(k.ready)
           to == Targets(g, b)
           left == [t \in V |-> IF t \in TargetSet(g, b) THEN k.left[t] - 1 ELSE k.left[t]]
           freed == {i \in DOMAIN to : left[to[i]] = 0}
           q == KahnStep(g, k)
           O == ToSet(k.order)
           N == {t \in TargetSet(g, b) : left[t] = 0}
<1>1. /\ k.ready \in Seq(V) /\ k.order \in Seq(V) /\ k.left \in [V -> Nat]
      /\ Distinct(k.ready) /\ Distinct(k.order) /\ ToSet(k.ready) \cap O = {}
      /\ \A t \in V : k.left[t] = Cardinality(Sources(g, t) \ O)
      /\ \A t \in V : t \in O \cup ToSet(k.ready) <=> Sources(g, t) \subseteq O
      /\ \A j \in DOMAIN k.order : \A s \in Sources(g, k.order[j]) :
           \E i \in 1 .. j - 1 : k.order[i] = s
  BY DEF KahnStates
<1>2. /\ q.ready = Tail(k.ready) \o Pick(to, freed)
      /\ q.left = left /\ q.order = Append(k.order, b)
      /\ q = [ready |-> q.ready, left |-> q.left, order |-> q.order]
  BY DEF KahnStep
<1>3. /\ b \in V /\ Tail(k.ready) \in Seq(V) /\ ToSet(k.ready) = {b} \cup ToSet(Tail(k.ready))
      /\ Distinct(Tail(k.ready)) /\ b \notin ToSet(Tail(k.ready))
  BY <1>1, TailElements
<1>4. b \notin O /\ Sources(g, b) \subseteq O
  BY <1>1, <1>3
<1>5. to \in Seq(V) /\ Distinct(to) /\ ToSet(to) = TargetSet(g, b)
  BY TargetsAre
<1>6. TargetSet(g, b) = {t \in V : b \in Sources(g, t)}
  BY DEF TargetSet
<1>7. /\ q.order \in Seq(V) /\ ToSet(q.order) = O \cup {b} /\ Distinct(q.order)
      /\ Len(q.order) = Len(k.order) + 1 /\ DOMAIN q.order = 1 .. Len(k.order) + 1
      /\ q.order[Len(k.order) + 1] = b
      /\ \A i \in 1 .. Len(k.order) : q.order[i] = k.order[i]
  <2> HIDE DEF q, b, to, left, freed, V, O, N
  <2>1. Distinct(Append(k.order, b))
    BY <1>1, <1>3, <1>4, AppendDistinct DEF O
  <2>2. /\ Append(k.order, b) \in Seq(V) /\ ToSet(Append(k.order, b)) = O \cup {b}
        /\ Len(Append(k.order, b)) = Len(k.order) + 1
        /\ DOMAIN Append(k.order, b) = 1 .. Len(k.order) + 1
        /\ Append(k.order, b)[Len(k.order) + 1] = b
        /\ \A i \in 1 .. Len(k.order) : Append(k.order, b)[i] = k.order[i]
    BY <1>1, <1>3, AppendElements DEF O
  <2> QED BY <1>2, <2>1, <2>2
<1> HIDE DEF q, b, to
<1>8. ASSUME NEW t \in V
      PROVE  left[t] = Cardinality(Sources(g, t) \ (O \cup {b})) /\ left[t] \in Nat
  <2> DEFINE before == Sources(g, t) \ O
             after == Sources(g, t) \ (O \cup {b})
  <2>1. /\ IsFiniteSet(before) /\ Cardinality(before) \in Nat /\ Cardinality(after) \in Nat
        /\ k.left[t] = Cardinality(before)
    BY <1>1, SourcesFinite
  <2>2. CASE t \in TargetSet(g, b)
    <3>1. b \in before /\ after = before \ {b}
      BY <1>4, <1>6, <2>2
    <3> HIDE DEF before, after
    <3>2. Cardinality(after) = Cardinality(before) - 1
      BY <2>1, <3>1, FS_RemoveElement
    <3> QED BY <2>1, <2>2, <3>2 DEF after
  <2>3. CASE t \notin TargetSet(g, b)
    <3>1. after = before
      BY <1>6, <2>3
    <3> QED BY <2>1, <2>3, <3>1
  <2> QED BY <2>2, <2>3
<1> HIDE DEF left
<1>9. ASSUME NEW t \in V PROVE left[t] = 0 <=> Sources(g, t) \subseteq O \cup {b}
  <2>1. IsFiniteSet(Sources(g, t) \ (O \cup {b}))
    BY SourcesFinite
  <2>2. left[t] = 0 <=> Sources(g, t) \ (O \cup {b}) = {}
    BY <1>8, <2>1, FS_EmptySet
  <2> QED BY <2>2
<1>10. /\ Pick(to, freed) \in Seq(V) /\ Distinct(Pick(to, freed))
       /\ ToSet(Pick(to, freed)) = N
  <2>1. freed \in SUBSET DOMAIN to /\ \A i, j \in freed : to[i] = to[j] => i = j
    BY <1>5 DEF Distinct
  <2>2. {to[i] : i \in freed} = N
    BY <1>5 DEF ToSet
  <2> HIDE DEF freed, N, V
  <2>3. Pick(to, freed) \in Seq(V) /\ ToSet(Pick(to, freed)) = {to[i] : i \in freed}
    BY <1>5, <2>1, PickIs
  <2>4. Distinct(Pick(to, freed))
    BY <1>5, <2>1, PickDistinct
  <2> QED BY <2>2, <2>3, <2>4
<1>11. N \cap (O \cup ToSet(k.ready)) = {}
  <2> SUFFICES ASSUME NEW t \in N, t \in O \cup ToSet(k.ready) PROVE FALSE
    OBVIOUS
  <2>1. t \in V /\ b \in Sources(g, t)
    BY <1>6
  <2>2. Sources(g, t) \subseteq O
    BY <1>1, <2>1
  <2> QED BY <1>4, <2>1, <2>2
<1> HIDE DEF freed
<1>12. /\ q.ready \in Seq(V) /\ ToSet(q.ready) = ToSet(Tail(k.ready)) \cup N
       /\ Distinct(q.ready)
  <2>1. ToSet(Tail(k.ready)) \cap ToSet(Pick(to, freed)) = {}
    BY <1>3, <1>10, <1>11
  <2> HIDE DEF N, V
  <2> DEFINE u == Pick(to, freed)
             v == Tail(k.ready)
  <2> HIDE DEF u, v
  <2>2. /\ u \in Seq(V) /\ v \in Seq(V) /\ Distinct(u) /\ Distinct(v) /\ ToSet(u) = N
        /\ ToSet(v) \cap ToSet(u) = {}
    BY <1>3, <1>10, <2>1 DEF u, v
  <2>3. v \o u \in Seq(V) /\ ToSet(v \o u) = ToSet(v) \cup ToSet(u)
    BY <2>2, ConcatElements
  <2>4. Distinct(v \o u)
    BY <2>2, ConcatDistinct
  <2> QED BY <1>2, <2>2, <2>3, <2>4 DEF u, v
<1>13. ToSet(q.ready) \cap ToSet(q.order) = {}
  BY <1>1, <1>3, <1>4, <1>6, <1>7, <1>11, <1>12
<1>14. ASSUME NEW t \in V
       PROVE  t \in ToSet(q.order) \cup ToSet(q.ready) <=> Sources(g, t) \subseteq ToSet(q.order)
  <2>1. ToSet(q.order) \cup ToSet(q.ready) = O \cup ToSet(k.ready) \cup N
    BY <1>3, <1>7, <1>12
  <2>2. ASSUME t \in O \cup ToSet(k.ready) \cup N PROVE Sources(g, t) \subseteq O \cup {b}
    BY <1>1, <1>9, <2>2
  <2>3. ASSUME Sources(g, t) \subseteq O \cup {b} PROVE t \in O \cup ToSet(k.ready) \cup N
    BY <1>1, <1>6, <1>9, <2>3
  <2> QED BY <1>7, <2>1, <2>2, <2>3
<1>15. ASSUME NEW j \in DOMAIN q.order, NEW s \in Sources(g, q.order[j])
       PROVE  \E i \in 1 .. j - 1 : q.order[i] = s
  <2>1. Len(k.order) \in Nat /\ DOMAIN k.order = 1 .. Len(k.order)
    BY <1>1
  <2>2. CASE j \in 1 .. Len(k.order)
    <3>1. PICK i \in 1 .. j - 1 : k.order[i] = s
      BY <1>1, <1>7, <2>1, <2>2
    <3>2. i \in 1 .. Len(k.order)
      BY <2>1, <2>2
    <3> QED BY <1>7, <3>1, <3>2
  <2>3. CASE j = Len(k.order) + 1
    <3>1. s \in O
      BY <1>4, <1>7, <2>3
    <3>2. PICK i \in 1 .. Len(k.order) : k.order[i] = s
      BY <2>1, <3>1 DEF ToSet
    <3>3. i \in 1 .. j - 1
      BY <2>1, <2>3
    <3> QED BY <1>7, <3>2, <3>3
  <2> QED BY <1>7, <2>1, <2>2, <2>3
<1>16. q.left \in [V -> Nat] /\ \A t \in V : q.left[t] = Cardinality(Sources(g, t) \ ToSet(q.order))
  <2>1. left = [t \in V |-> left[t]]
    BY DEF left
  <2> QED BY <1>2, <1>7, <1>8, <2>1
<1>17. q \in [ready : Seq(V), left : [V -> Nat], order : Seq(V)]
  BY <1>2, <1>7, <1>12, <1>16
<1>18. q \in KahnStates(g)
  BY <1>7, <1>12, <1>13, <1>14, <1>15, <1>16, <1>17 DEF KahnStates
<1> QED BY <1>7, <1>18 DEF q

\* The states that TopoSort goes through, one for each step.
LEMMA KahnSteps ==
  ASSUME NEW g, IsGraph(g), ListedOnce(g)
  PROVE  \E R \in [0 .. Len(g.blocks) -> KahnStates(g)] :
           /\ R[0] = KahnStart(g)
           /\ \A n \in 1 .. Len(g.blocks) : R[n] = KahnStep(g, R[n - 1])
           /\ TopoSort(g) = R[Len(g.blocks)].order
<1> DEFINE N == Len(g.blocks)
           T == KahnStates(g)
           Step == [n \in 1 .. N |-> [k \in T |-> KahnStep(g, k)]]
           Body(f) == [n \in 0 .. N |-> IF n = 0 THEN KahnStart(g) ELSE KahnStep(g, f[n - 1])]
<1>1. N \in Nat
  BY DEF IsGraph
<1>2. ASSUME NEW k \in T PROVE KahnStep(g, k) \in T
  <2>1. CASE k.ready # <<>>
    BY <2>1, KahnStepKeeps
  <2>2. CASE k.ready = <<>>
    BY <2>2 DEF KahnStep
  <2> QED BY <2>1, <2>2
<1> HIDE DEF T
<1>3. Step \in [1 .. N -> [T -> T]] /\ KahnStart(g) \in T
  BY <1>2, KahnStarts DEF T
<1>4. PICK f \in [0 .. N -> T] : Iterates(f, N, KahnStart(g), Step)
  <2> HIDE DEF N, Step
  <2> QED BY <1>1, <1>3, Iteration
<1>5. f[0] = KahnStart(g) /\ \A n \in 1 .. N : f[n] = Step[n][f[n - 1]]
  BY <1>4 DEF Iterates
<1>6. ASSUME NEW n \in 1 .. N PROVE f[n] = KahnStep(g, f[n - 1])
  <2>1. n - 1 \in 0 .. N /\ f[n - 1] \in T
    BY <1>1
  <2> QED BY <1>5, <2>1
<1>7. f = Body(f)
  BY <1>1, <1>5, <1>6
<1> DEFINE R == CHOOSE h : h = Body(h)
<1>8. R = Body(R)
  <2> HIDE DEF Body
  <2> QED BY <1>7
<1>9. TopoSort(g) = R[N].order
  BY DEF TopoSort, KahnStart
<1> HIDE DEF R
<1>10. R[0] = KahnStart(g) /\ \A n \in 1 .. N : R[n] = KahnStep(g, R[n - 1])
  <2>1. ASSUME NEW n \in 1 .. N PROVE R[n] = KahnStep(g, R[n - 1])
    <3>1. n \in 0 .. N /\ n # 0
      BY <1>1
    <3> QED BY <1>8, <3>1
  <2>2. 0 \in 0 .. N
    BY <1>1
  <2>3. R[0] = KahnStart(g)
    BY <1>8, <2>2
  <2> QED BY <2>1, <2>3
<1>11. \A n \in 0 .. N : R[n] \in T
  <2> DEFINE S == {n \in 0 .. N : R[n] \in T}
  <2>1. 0 \in S
    BY <1>1, <1>3, <1>10
  <2>2. ASSUME NEW n \in 0 .. N - 1, n \in S PROVE n + 1 \in S
    <3>1. n + 1 \in 1 .. N /\ (n + 1) - 1 = n
      BY <1>1
    <3>2. R[n + 1] = KahnStep(g, R[n])
      BY <1>10, <3>1
    <3> QED BY <1>2, <2>2, <3>1, <3>2
  <2>3. \A n \in 0 .. N : n \in S
    <3> HIDE DEF S, N
    <3> QED BY <1>1, <2>1, <2>2, UpTo
  <2> QED BY <2>3
<1>12. R \in [0 .. N -> T]
  BY <1>8, <1>11
<1> QED BY <1>9, <1>10, <1>12 DEF T

\* A sequence without repetitions is as long as the set of its elements.
LEMMA DistinctLength ==
  ASSUME NEW T, NEW s \in Seq(T), Distinct(s)
  PROVE  IsFiniteSet(ToSet(s)) /\ Cardinality(ToSet(s)) = Len(s)
<1>1. Len(s) \in Nat /\ DOMAIN s = 1 .. Len(s) /\ s \in [1 .. Len(s) -> ToSet(s)]
  BY DEF ToSet
<1>2. s \in Surjection(1 .. Len(s), ToSet(s)) /\ s \in Injection(1 .. Len(s), ToSet(s))
  BY <1>1 DEF Surjection, Injection, IsInjective, Distinct, ToSet
<1>3. IsFiniteSet(1 .. Len(s)) /\ Cardinality(1 .. Len(s)) = Len(s)
  BY <1>1, IntervalSize
<1> QED BY <1>2, <1>3, FS_Surjection

InOrder(g, s) ==
  /\ s \in Seq(Nodes(g)) /\ ToSet(s) = Nodes(g) /\ Distinct(s)
  /\ \A j \in DOMAIN s : \A a \in Sources(g, s[j]) : \E i \in 1 .. j - 1 : s[i] = a

LEMMA TopoSortOrders ==
  ASSUME NEW g, IsGraph(g), ListedOnce(g), ~HasCycle(g)
  PROVE  InOrder(g, TopoSort(g))
<1> DEFINE N == Len(g.blocks)
<1>1. PICK R \in [0 .. N -> KahnStates(g)] :
        /\ \A n \in 1 .. N : R[n] = KahnStep(g, R[n - 1])
        /\ TopoSort(g) = R[N].order
        /\ R[0] = KahnStart(g)
  BY KahnSteps
<1>2. N \in Nat /\ N \in 0 .. N /\ IsFiniteSet(Nodes(g)) /\ Cardinality(Nodes(g)) <= N
  BY NodesFinite
<1> DEFINE S == {n \in 0 .. N : R[n].ready = <<>> \/ Len(R[n].order) = n}
<1>3. N \in S
  <2>1. 0 \in S
    BY <1>1, <1>2 DEF KahnStart
  <2>2. ASSUME NEW n \in 0 .. N - 1, n \in S PROVE n + 1 \in S
    <3>1. n + 1 \in 1 .. N /\ (n + 1) - 1 = n /\ n + 1 \in 0 .. N /\ n \in 0 .. N
      BY <1>2
    <3>2. R[n + 1] = KahnStep(g, R[n]) /\ R[n] \in KahnStates(g)
      BY <1>1, <3>1
    <3>3. CASE R[n].ready = <<>>
      <4>1. R[n + 1] = R[n]
        BY <3>2, <3>3 DEF KahnStep
      <4> QED BY <3>1, <3>3, <4>1
    <3>4. CASE R[n].ready # <<>>
      <4>1. Len(R[n + 1].order) = Len(R[n].order) + 1
        BY <3>2, <3>4, KahnStepKeeps
      <4>2. Len(R[n].order) = n
        BY <2>2, <3>4
      <4> QED BY <3>1, <4>1, <4>2
    <3> QED BY <3>3, <3>4
  <2>3. \A n \in 0 .. N : n \in S
    <3> HIDE DEF S, N
    <3> QED BY <1>2, <2>1, <2>2, UpTo
  <2> QED BY <1>2, <2>3
<1> DEFINE k == R[N]
           O == ToSet(k.order)
           V == Nodes(g)
<1>4. /\ k.ready \in Seq(V) /\ k.order \in Seq(V) /\ Distinct(k.order)
      /\ ToSet(k.ready) \cap O = {}
      /\ \A t \in V : t \in O \cup ToSet(k.ready) <=> Sources(g, t) \subseteq O
      /\ \A j \in DOMAIN k.order : \A s \in Sources(g, k.order[j]) :
           \E i \in 1 .. j - 1 : k.order[i] = s
  <2>1. k \in KahnStates(g)
    BY <1>1, <1>2
  <2> HIDE DEF k
  <2> QED BY <2>1 DEF KahnStates
<1> HIDE DEF k, V
<1>5. k.ready = <<>>
  <2> SUFFICES ASSUME k.ready # <<>> PROVE FALSE
    OBVIOUS
  <2>1. Len(k.order) = N
    BY <1>3 DEF k
  <2>2. PICK b \in V : b \in ToSet(k.ready)
    BY <1>4, TailElements
  <2>3. O \in SUBSET V /\ b \notin O
    <3>1. \A i \in DOMAIN k.order : k.order[i] \in V
      BY <1>4
    <3>2. O \in SUBSET V
      BY <3>1 DEF ToSet
    <3> QED BY <1>4, <2>2, <3>2
  <2>4. IsFiniteSet(O) /\ Cardinality(O) = N
    BY <1>4, <2>1, DistinctLength
  <2> HIDE DEF O
  <2>5. Cardinality(O) <= Cardinality(V) /\ (Cardinality(O) = Cardinality(V) => O = V)
    BY <1>2, <2>3, FS_Subset DEF V
  <2>6. Cardinality(V) \in Nat
    BY <1>2, FS_CardinalityType DEF V
  <2> QED BY <1>2, <2>2, <2>3, <2>4, <2>5, <2>6 DEF V
<1>6. ToSet(k.ready) = {}
  BY <1>5 DEF ToSet
<1>7. O = V
  <2> SUFFICES ASSUME V \ O # {} PROVE FALSE
    BY <1>4 DEF ToSet
  <2> DEFINE rest == V \ O
  <2>1. rest \in SUBSET Nodes(g) /\ rest # {}
    BY DEF V
  <2> HIDE DEF rest
  <2>2. PICK b \in rest : Sources(g, b) \cap rest = {}
    BY <2>1, FirstNode
  <2>3. Sources(g, b) \subseteq V
    BY SourcesAreNodes DEF V
  <2>4. Sources(g, b) \subseteq O
    BY <2>2, <2>3 DEF rest
  <2> QED BY <1>4, <1>6, <2>2, <2>4 DEF rest
<1>8. TopoSort(g) = k.order
  BY <1>1 DEF k
<1> QED BY <1>4, <1>7, <1>8 DEF InOrder, V

-----------------------------------------------------------------------------
(* The edit operations *)

\* What the store may hold, and what of it an executor can run.
StoredGraphs ==
  [blocks : Seq(Blocks), enabled : {Blocks}, edges : Seq(Connections),
   refs : [Blocks -> SUBSET Blocks]]

EndsExist(g) == \A i \in DOMAIN g.edges : Has(g, g.edges[i].source) /\ Has(g, g.edges[i].target)

\* Connections that agree in everything have no handle.
HandlesDiffer(s) ==
  \A i, j \in DOMAIN s : s[i] = s[j] /\ s[i].handle # NoHandle => i = j

SoundGraphs ==
  {g \in StoredGraphs :
     Distinct(g.blocks) /\ EndsExist(g) /\ HandlesDiffer(g.edges) /\ ~HasCycle(g)}

LEMMA PickKeepsHandles ==
  ASSUME NEW T, NEW s \in Seq(T), NEW S \in SUBSET DOMAIN s, HandlesDiffer(s)
  PROVE  HandlesDiffer(Pick(s, S))
<1>1. \E at \in [1 .. Cardinality(S) -> S] :
        /\ \A m, n \in 1 .. Cardinality(S) : at[m] = at[n] => m = n
        /\ Pick(s, S) = [n \in 1 .. Cardinality(S) |-> s[at[n]]]
  BY PickAt
<1> DEFINE N == Cardinality(S)
<1> HIDE DEF N
<1>2. PICK at \in [1 .. N -> S] :
        /\ \A m, n \in 1 .. N : at[m] = at[n] => m = n
        /\ Pick(s, S) = [n \in 1 .. N |-> s[at[n]]]
  BY <1>1 DEF N
<1>3. \A n \in 1 .. N : at[n] \in DOMAIN s
  BY <1>2
<1> QED BY <1>2, <1>3 DEF HandlesDiffer

LEMMA AppendKeepsHandles ==
  ASSUME NEW T, NEW s \in Seq(T), NEW x \in T, HandlesDiffer(s),
         x.handle = NoHandle \/ x \notin ToSet(s)
  PROVE  HandlesDiffer(Append(s, x))
<1>1. /\ Len(s) \in Nat /\ DOMAIN s = 1 .. Len(s)
      /\ DOMAIN Append(s, x) = 1 .. Len(s) + 1
      /\ Append(s, x)[Len(s) + 1] = x /\ \A i \in 1 .. Len(s) : Append(s, x)[i] = s[i]
  BY AppendElements
<1>2. \A i \in 1 .. Len(s) + 1 : i \in 1 .. Len(s) \/ i = Len(s) + 1
  BY <1>1
<1>3. \A i \in 1 .. Len(s) : s[i] = x => x.handle = NoHandle
  BY <1>1 DEF ToSet
<1> QED BY <1>1, <1>2, <1>3 DEF HandlesDiffer

\* Taking connections away, and adding blocks, closes no cycle.
LEMMA NoNewEdges ==
  ASSUME NEW g \in SoundGraphs, NEW h \in StoredGraphs,
         Distinct(h.blocks), EndsExist(h), HandlesDiffer(h.edges),
         h.enabled = g.enabled, ToSet(h.edges) \subseteq ToSet(g.edges)
  PROVE  h \in SoundGraphs
<1>1. IsGraph(g) /\ IsGraph(h) /\ ~HasCycle(g) /\ EndsExist(g)
  BY DEF SoundGraphs, StoredGraphs, IsGraph
<1>2. ASSUME NEW t, NEW s \in Sources(h, t) PROVE s \in Sources(g, t)
  <2>1. PICK i \in DOMAIN h.edges :
          /\ h.edges[i].source = s /\ h.edges[i].target = t /\ s \in Nodes(h) /\ t \in Nodes(h)
    BY DEF Sources
  <2>2. PICK j \in DOMAIN g.edges : g.edges[j] = h.edges[i]
    BY <2>1 DEF ToSet
  <2>3. s \in Nodes(g) /\ t \in Nodes(g)
    BY <1>1, <2>1, <2>2 DEF EndsExist, Has, Nodes
  <2> QED BY <2>1, <2>2, <2>3 DEF Sources
<1>3. ~HasCycle(h)
  <2>1. \A t : Sources(h, t) \subseteq Sources(g, t)
    BY <1>2
  <2> QED BY <1>1, <2>1, FewerEdges
<1> QED BY <1>3 DEF SoundGraphs

LEMMA RemoveAtIs ==
  ASSUME NEW T, NEW s \in Seq(T), NEW i \in DOMAIN s
  PROVE  /\ RemoveAt(s, i) \in Seq(T) /\ ToSet(RemoveAt(s, i)) \subseteq ToSet(s)
         /\ \A m \in DOMAIN RemoveAt(s, i) :
              RemoveAt(s, i)[m] = IF m < i THEN s[m] ELSE s[m + 1]
<1> DEFINE u == SubSeq(s, 1, i - 1)
           v == SubSeq(s, i + 1, Len(s))
           n == Len(s)
<1>1. n \in Nat /\ i \in 1 .. n /\ DOMAIN s = 1 .. n
  OBVIOUS
<1>2. /\ u \in Seq(T) /\ Len(u) = i - 1
      /\ \A m \in 1 .. i - 1 : u[m] = s[m]
  BY <1>1
<1>3. /\ v \in Seq(T) /\ Len(v) = n - i
      /\ \A m \in 1 .. n - i : v[m] = s[i + m]
  BY <1>1
<1>4. RemoveAt(s, i) = u \o v
  BY DEF RemoveAt
<1> HIDE DEF u, v, n
<1>5. u \o v \in Seq(T) /\ DOMAIN (u \o v) = 1 .. n - 1
  BY <1>1, <1>2, <1>3
<1>6. ASSUME NEW m \in 1 .. n - 1
      PROVE  (u \o v)[m] = IF m < i THEN s[m] ELSE s[m + 1]
  <2>1. CASE m < i
    <3>1. m \in 1 .. i - 1
      BY <1>1, <2>1
    <3> QED BY <1>1, <1>2, <1>3, <2>1, <3>1
  <2>2. CASE ~(m < i)
    <3>1. m - (i - 1) \in 1 .. n - i /\ i + (m - (i - 1)) = m + 1
      BY <1>1, <2>2
    <3>2. (u \o v)[m] = v[m - (i - 1)]
      BY <1>1, <1>2, <1>3, <2>2
    <3> QED BY <1>3, <2>2, <3>1, <3>2
  <2> QED BY <2>1, <2>2
<1>7. \A m \in 1 .. n - 1 : m \in 1 .. n /\ m + 1 \in 1 .. n
  BY <1>1
<1>8. \A m \in 1 .. n - 1 : (u \o v)[m] \in ToSet(s)
  BY <1>1, <1>6, <1>7 DEF ToSet
<1>9. ToSet(u \o v) \subseteq ToSet(s)
  BY <1>5, <1>8 DEF ToSet
<1> QED BY <1>4, <1>5, <1>6, <1>9

LEMMA RemoveAtKeepsHandles ==
  ASSUME NEW T, NEW s \in Seq(T), NEW i \in DOMAIN s, HandlesDiffer(s)
  PROVE  HandlesDiffer(RemoveAt(s, i))
<1> DEFINE r == RemoveAt(s, i)
<1>1. r \in Seq(T) /\ \A m \in DOMAIN r : r[m] = IF m < i THEN s[m] ELSE s[m + 1]
  BY RemoveAtIs
<1>2. DOMAIN r = 1 .. Len(s) - 1
  BY DEF RemoveAt
<1> HIDE DEF r
<1>3. ASSUME NEW m \in DOMAIN r, NEW k \in DOMAIN r, r[m] = r[k], r[m].handle # NoHandle
      PROVE  m = k
  <2>1. /\ Len(s) \in Nat /\ DOMAIN s = 1 .. Len(s) /\ i \in 1 .. Len(s)
        /\ m \in 1 .. Len(s) - 1 /\ k \in 1 .. Len(s) - 1
    BY <1>2
  <2>2. m \in DOMAIN s /\ m + 1 \in DOMAIN s /\ k \in DOMAIN s /\ k + 1 \in DOMAIN s
    BY <2>1
  <2>3. CASE m < i /\ k < i
    BY <1>1, <1>3, <2>2, <2>3 DEF HandlesDiffer
  <2>4. CASE ~(m < i) /\ ~(k < i)
    <3>1. m + 1 = k + 1
      BY <1>1, <1>3, <2>2, <2>4 DEF HandlesDiffer
    <3> QED BY <2>1, <3>1
  <2>5. CASE m < i /\ ~(k < i)
    <3>1. m = k + 1
      BY <1>1, <1>3, <2>2, <2>5 DEF HandlesDiffer
    <3> QED BY <2>1, <2>5, <3>1
  <2>6. CASE ~(m < i) /\ k < i
    <3>1. m + 1 = k
      BY <1>1, <1>3, <2>2, <2>6 DEF HandlesDiffer
    <3> QED BY <2>1, <2>6, <3>1
  <2> QED BY <2>3, <2>4, <2>5, <2>6
<1> QED BY <1>3 DEF HandlesDiffer, r

LEMMA SoundParts ==
  ASSUME NEW g \in SoundGraphs
  PROVE  /\ g \in StoredGraphs /\ IsGraph(g) /\ Distinct(g.blocks) /\ EndsExist(g)
         /\ HandlesDiffer(g.edges) /\ ~HasCycle(g) /\ g.enabled = Blocks
         /\ g.blocks \in Seq(Blocks) /\ g.edges \in Seq(Connections)
BY DEF SoundGraphs, StoredGraphs, IsGraph

LEMMA AddKeeps ==
  ASSUME NEW g \in SoundGraphs, NEW op, op.block \in Blocks, op.refs \subseteq Blocks,
         ~Has(g, op.block)
  PROVE  Add(g, op) \in SoundGraphs
<1> DEFINE h == Add(g, op)
           c == Append(g.blocks, op.block)
           R == [g.refs EXCEPT ![op.block] = op.refs]
<1>1. Add(g, op) = [[g EXCEPT !.blocks = c] EXCEPT !.refs = R]
  BY SoundParts DEF Add, StoredGraphs
<1>2. R \in [Blocks -> SUBSET Blocks] /\ c \in Seq(Blocks)
  BY SoundParts DEF StoredGraphs
<1> HIDE DEF c, R
<1>3. h \in StoredGraphs /\ h.blocks = c /\ h.edges = g.edges /\ h.enabled = g.enabled
  BY <1>1, <1>2, SoundParts DEF StoredGraphs
<1> HIDE DEF h
<1> USE DEF c
<1>4. ToSet(h.blocks) = ToSet(g.blocks) \cup {op.block} /\ Distinct(h.blocks)
  BY <1>3, SoundParts, AppendElements, AppendDistinct DEF Has
<1>5. EndsExist(h)
  BY <1>3, <1>4, SoundParts DEF EndsExist, Has
<1> QED BY <1>3, <1>4, <1>5, SoundParts, NoNewEdges DEF h

LEMMA EditKeeps ==
  ASSUME NEW g \in SoundGraphs, NEW b \in Blocks, NEW refs \in SUBSET Blocks
  PROVE  [g EXCEPT !.refs[b] = refs] \in SoundGraphs
<1> DEFINE h == [g EXCEPT !.refs[b] = refs]
<1>1. /\ h.blocks = g.blocks /\ h.edges = g.edges /\ h.enabled = g.enabled
      /\ h \in StoredGraphs
  BY SoundParts DEF StoredGraphs
<1> HIDE DEF h
<1>2. EndsExist(h)
  BY <1>1, SoundParts DEF EndsExist, Has
<1> QED BY <1>1, <1>2, SoundParts, NoNewEdges DEF h

LEMMA DeleteKeeps ==
  ASSUME NEW g \in SoundGraphs, NEW b
  PROVE  WithoutBlock(g, b) \in SoundGraphs
<1> DEFINE h == WithoutBlock(g, b)
           S == {i \in DOMAIN g.blocks : g.blocks[i] # b}
           E == {i \in DOMAIN g.edges : g.edges[i].source # b /\ g.edges[i].target # b}
           picked == Pick(g.blocks, S)
           left == Pick(g.edges, E)
<1>0. WithoutBlock(g, b) = [g EXCEPT !.blocks = picked, !.edges = left]
  BY DEF WithoutBlock
<1> HIDE DEF picked, left
<1>1. /\ h.blocks = picked /\ h.edges = left /\ h.enabled = g.enabled
      /\ picked \in Seq(Blocks) /\ left \in Seq(Connections) => h \in StoredGraphs
  BY <1>0, SoundParts DEF StoredGraphs
<1>2. S \in SUBSET DOMAIN g.blocks /\ E \in SUBSET DOMAIN g.edges
  OBVIOUS
<1>3. \A i, j \in S : g.blocks[i] = g.blocks[j] => i = j
  BY SoundParts DEF Distinct
<1>4. /\ {g.blocks[i] : i \in S} = ToSet(g.blocks) \ {b}
      /\ {g.edges[i] : i \in E} = {e \in ToSet(g.edges) : e.source # b /\ e.target # b}
  BY DEF ToSet
<1> HIDE DEF h, S, E
<1>5. h.blocks \in Seq(Blocks) /\ ToSet(h.blocks) = ToSet(g.blocks) \ {b} /\ Distinct(h.blocks)
  <2>1. picked \in Seq(Blocks) /\ ToSet(picked) = {g.blocks[i] : i \in S}
    BY <1>2, SoundParts, PickIs DEF picked
  <2>2. Distinct(picked)
    BY <1>2, <1>3, SoundParts, PickDistinct DEF picked
  <2> QED BY <1>1, <1>4, <2>1, <2>2
<1>6. /\ h.edges \in Seq(Connections) /\ HandlesDiffer(h.edges)
      /\ ToSet(h.edges) = {e \in ToSet(g.edges) : e.source # b /\ e.target # b}
  <2>1. left \in Seq(Connections) /\ ToSet(left) = {g.edges[i] : i \in E}
    BY <1>2, SoundParts, PickIs DEF left
  <2>2. HandlesDiffer(left)
    BY <1>2, SoundParts, PickKeepsHandles DEF left
  <2> QED BY <1>1, <1>4, <2>1, <2>2
<1>7. h \in StoredGraphs
  BY <1>1, <1>5, <1>6
<1>8. EndsExist(h)
  <2>1. ASSUME NEW i \in DOMAIN h.edges
        PROVE  Has(h, h.edges[i].source) /\ Has(h, h.edges[i].target)
    <3>1. h.edges[i] \in ToSet(h.edges)
      BY DEF ToSet
    <3>2. PICK j \in DOMAIN g.edges : g.edges[j] = h.edges[i]
      BY <1>6, <3>1 DEF ToSet
    <3> QED BY <1>5, <1>6, <3>1, <3>2, SoundParts DEF EndsExist, Has
  <2> QED BY <2>1 DEF EndsExist
<1> QED BY <1>1, <1>5, <1>6, <1>7, <1>8, NoNewEdges DEF h

LEMMA ConnectKeeps ==
  ASSUME NEW g \in SoundGraphs, NEW op, op.block \in Blocks, op.target \in Blocks,
         op.handle \in STRING \cup {NoHandle}, Connectable(g, op)
  PROVE  Connect(g, op) \in SoundGraphs
<1> DEFINE h == Connect(g, op)
           kept == IF op.handle = "" THEN NoHandle ELSE op.handle
           e == [source |-> op.block, target |-> op.target, handle |-> kept]
           longer == Append(g.edges, e)
<1>0. Connect(g, op) = [g EXCEPT !.edges = longer]
  BY DEF Connect
<1> HIDE DEF longer
<1>1. /\ h.blocks = g.blocks /\ h.edges = longer /\ h.enabled = g.enabled
      /\ longer \in Seq(Connections) => h \in StoredGraphs
  BY <1>0, SoundParts DEF StoredGraphs
<1>2. /\ ~HasCycle(h) /\ Has(g, op.block) /\ Has(g, op.target)
      /\ e.handle = NoHandle \/ e \notin ToSet(g.edges)
      /\ e \in Connections
  BY DEF Connectable, ToSet, Connections
<1>3. e.source = op.block /\ e.target = op.target
  OBVIOUS
<1> HIDE DEF h, e
<1>4. /\ h.edges \in Seq(Connections) /\ ToSet(h.edges) = ToSet(g.edges) \cup {e}
      /\ HandlesDiffer(h.edges)
  BY <1>1, <1>2, SoundParts, AppendElements, AppendKeepsHandles DEF longer
<1>5. h \in StoredGraphs
  BY <1>1, <1>4
<1>6. EndsExist(h)
  <2>1. ASSUME NEW i \in DOMAIN h.edges
        PROVE  Has(h, h.edges[i].source) /\ Has(h, h.edges[i].target)
    <3>1. h.edges[i] = e \/ h.edges[i] \in ToSet(g.edges)
      BY <1>4 DEF ToSet
    <3>2. CASE h.edges[i] = e
      BY <1>1, <1>2, <1>3, <3>2 DEF Has
    <3>3. CASE h.edges[i] \in ToSet(g.edges)
      <4>1. PICK j \in DOMAIN g.edges : g.edges[j] = h.edges[i]
        BY <3>3 DEF ToSet
      <4> QED BY <1>1, <4>1, SoundParts DEF EndsExist, Has
    <3> QED BY <3>1, <3>2, <3>3
  <2> QED BY <2>1 DEF EndsExist
<1> QED BY <1>1, <1>2, <1>4, <1>5, <1>6, SoundParts DEF SoundGraphs, h

LEMMA DisconnectKeeps ==
  ASSUME NEW g \in SoundGraphs, NEW op, HasEdge(g, op.block, op.target)
  PROVE  Disconnect(g, op) \in SoundGraphs
<1> DEFINE h == Disconnect(g, op)
           i == FirstEdge(g, op.block, op.target)
<1>1. /\ h.blocks = g.blocks /\ h.edges = RemoveAt(g.edges, i) /\ h.enabled = g.enabled
      /\ h.refs = g.refs
      /\ h = [blocks |-> h.blocks, enabled |-> h.enabled, edges |-> h.edges, refs |-> h.refs]
  BY SoundParts DEF Disconnect, StoredGraphs
<1>2. i \in DOMAIN g.edges
  BY SoundParts, FirstEdgeIs
<1> HIDE DEF h, i
<1>3. /\ h.edges \in Seq(Connections) /\ ToSet(h.edges) \subseteq ToSet(g.edges)
      /\ HandlesDiffer(h.edges)
  BY <1>1, <1>2, SoundParts, RemoveAtIs, RemoveAtKeepsHandles
<1>4. h \in StoredGraphs
  BY <1>1, <1>3, SoundParts DEF StoredGraphs
<1>5. EndsExist(h)
  <2>1. ASSUME NEW m \in DOMAIN h.edges
        PROVE  Has(h, h.edges[m].source) /\ Has(h, h.edges[m].target)
    <3>1. PICK j \in DOMAIN g.edges : g.edges[j] = h.edges[m]
      BY <1>3 DEF ToSet
    <3> QED BY <1>1, <3>1, SoundParts DEF EndsExist, Has
  <2> QED BY <2>1 DEF EndsExist
<1> QED BY <1>1, <1>3, <1>4, <1>5, SoundParts, NoNewEdges DEF h

LEMMA OneOpKeeps ==
  ASSUME NEW g \in SoundGraphs, NEW op \in EditOps
  PROVE  ApplyOne(g, op) \in SoundGraphs
<1>1. op.type \in {"add", "edit", "delete", "connect", "disconnect"} /\ op.block \in Blocks
  BY DEF EditOps
<1>2. CASE ~Applies(g, op)
  BY <1>2 DEF ApplyOne
<1>3. CASE Applies(g, op) /\ op.type = "add"
  <2>1. op.refs \subseteq Blocks /\ ~Has(g, op.block)
    BY <1>3 DEF EditOps, Applies
  <2> QED BY <1>1, <1>3, <2>1, AddKeeps DEF ApplyOne
<1>4. CASE Applies(g, op) /\ op.type = "edit"
  <2>1. op.refs \in SUBSET Blocks
    BY <1>4 DEF EditOps
  <2> QED BY <1>1, <1>4, <2>1, EditKeeps DEF ApplyOne
<1>5. CASE Applies(g, op) /\ op.type = "delete"
  BY <1>5, DeleteKeeps DEF ApplyOne
<1>6. CASE Applies(g, op) /\ op.type = "connect"
  <2>1. op.target \in Blocks /\ op.handle \in STRING \cup {NoHandle} /\ Connectable(g, op)
    BY <1>6 DEF EditOps, Applies
  <2> QED BY <1>1, <1>6, <2>1, ConnectKeeps DEF ApplyOne
<1>7. CASE Applies(g, op) /\ op.type = "disconnect"
  <2>1. HasEdge(g, op.block, op.target)
    BY <1>7 DEF Applies
  <2> QED BY <1>7, <2>1, DisconnectKeeps DEF ApplyOne
<1> QED BY <1>1, <1>2, <1>3, <1>4, <1>5, <1>6, <1>7

\* What ApplyAll knows after some of the operations.
Progress == [graph : SoundGraphs, skips : Nat, invalid : BOOLEAN]

\* The step of ApplyAll.
AfterOne(r, op) ==
  [graph   |-> ApplyOne(r.graph, op),
   skips   |-> IF Applies(r.graph, op) THEN r.skips ELSE r.skips + 1,
   invalid |-> r.invalid \/ (Applies(r.graph, op) /\ FieldErrors(op))]

LEMMA AllOpsKeep ==
  ASSUME NEW g \in SoundGraphs, NEW ops \in Seq(EditOps)
  PROVE  ApplyAll(g, ops).graph \in SoundGraphs
<1> DEFINE N == Len(ops)
           T == Progress
           x == [graph |-> g, skips |-> 0, invalid |-> FALSE]
           Step == [n \in 1 .. N |-> [r \in T |-> AfterOne(r, ops[n])]]
           Body(f) == [n \in 0 .. N |-> IF n = 0 THEN x ELSE AfterOne(f[n - 1], ops[n])]
<1>1. N \in Nat /\ \A n \in 1 .. N : ops[n] \in EditOps
  OBVIOUS
<1>2. ASSUME NEW r \in T, NEW op \in EditOps PROVE AfterOne(r, op) \in T
  <2>1. r.graph \in SoundGraphs /\ r.skips \in Nat /\ r.invalid \in BOOLEAN
    BY DEF Progress
  <2>2. ApplyOne(r.graph, op) \in SoundGraphs
    BY <2>1, OneOpKeeps
  <2>3. (r.invalid \/ (Applies(r.graph, op) /\ FieldErrors(op))) \in BOOLEAN
    OBVIOUS
  <2>4. (IF Applies(r.graph, op) THEN r.skips ELSE r.skips + 1) \in Nat
    BY <2>1
  <2> QED BY <2>2, <2>3, <2>4 DEF AfterOne, Progress
<1>3. Step \in [1 .. N -> [T -> T]] /\ x \in T
  <2>1. x \in T
    BY DEF Progress
  <2> HIDE DEF T
  <2> QED BY <1>1, <1>2, <2>1
<1> HIDE DEF T, x
<1>4. PICK f \in [0 .. N -> T] : Iterates(f, N, x, Step)
  <2> HIDE DEF N, Step
  <2> QED BY <1>1, <1>3, Iteration
<1>5. f[0] = x /\ \A n \in 1 .. N : f[n] = Step[n][f[n - 1]]
  BY <1>4 DEF Iterates
<1>6. ASSUME NEW n \in 1 .. N PROVE f[n] = AfterOne(f[n - 1], ops[n])
  <2>1. n - 1 \in 0 .. N /\ f[n - 1] \in T
    BY <1>1
  <2> QED BY <1>5, <2>1
<1>7. f = Body(f)
  BY <1>1, <1>5, <1>6
<1> DEFINE R == CHOOSE h : h = Body(h)
<1>8. R = Body(R)
  <2> HIDE DEF Body
  <2> QED BY <1>7
<1>9. ApplyAll(g, ops) = R[N]
  BY DEF ApplyAll, AfterOne, x
<1> HIDE DEF R
<1>10. R[0] = x
  BY <1>1, <1>8
<1>11. ASSUME NEW n \in 1 .. N PROVE R[n] = AfterOne(R[n - 1], ops[n])
  <2>1. n \in 0 .. N /\ n # 0
    BY <1>1
  <2> QED BY <1>8, <2>1
<1> DEFINE S == {n \in 0 .. N : R[n] \in T}
<1>12. 0 \in S
  BY <1>1, <1>3, <1>10
<1>13. ASSUME NEW n \in 0 .. N - 1, n \in S PROVE n + 1 \in S
  <2>1. n + 1 \in 1 .. N /\ (n + 1) - 1 = n
    BY <1>1
  <2>2. R[n + 1] = AfterOne(R[n], ops[n + 1])
    BY <1>11, <2>1
  <2> QED BY <1>1, <1>2, <1>13, <2>1, <2>2
<1>14. \A n \in 0 .. N : n \in S
  <2> HIDE DEF S, N
  <2> QED BY <1>1, <1>12, <1>13, UpTo
<1>15. R[N] \in T
  BY <1>1, <1>14
<1> QED BY <1>9, <1>15 DEF T, Progress

LEMMA EmptyGraphSound == EmptyGraph \in SoundGraphs
<1> DEFINE g == EmptyGraph
<1>1. /\ g.blocks = <<>> /\ g.edges = <<>> /\ g \in StoredGraphs
      /\ Nodes(g) = {}
  BY DEF EmptyGraph, StoredGraphs, Nodes, ToSet
<1>2. ~HasCycle(g)
  BY <1>1 DEF HasCycle
<1> HIDE DEF g
<1>3. Distinct(g.blocks) /\ HandlesDiffer(g.edges) /\ EndsExist(g)
  BY <1>1 DEF Distinct, HandlesDiffer, EndsExist
<1> QED BY <1>1, <1>2, <1>3 DEF SoundGraphs, g

-----------------------------------------------------------------------------
(* The workflow store: the version tells the content *)

Answer == [patch : Nat, version : Nat, ok : BOOLEAN, guarded : BOOLEAN]

StoreShape ==
  /\ handler = [h \in Handlers |-> handler[h]]
  /\ row = [graph |-> row.graph, version |-> row.version, deleted |-> row.deleted,
            patches |-> row.patches]
  /\ accepted \in Seq(Answer)
  /\ \A h \in Handlers : handler[h] # Idle => handler[h].seen.patches \subseteq 1 .. sent

\* A request that read the version of the row read what the row still holds.
Reflects(h) ==
  handler[h] # Idle /\ handler[h].seen.version = row.version =>
    handler[h].seen.patches = row.patches

StoreInv ==
  /\ StoreTypeOK
  /\ StoreShape
  /\ \A h \in Handlers : Reflects(h)
  /\ GuardedPatchesKeepOthers

LEMMA StoreInitInv == StoreInit => StoreInv
<1> SUFFICES ASSUME StoreInit PROVE StoreInv
  OBVIOUS
<1>1. StoreTypeOK
  BY StoreAssumption DEF StoreInit, StoreTypeOK
<1>2. StoreShape
  BY DEF StoreInit, StoreShape
<1>3. \A h \in Handlers : Reflects(h)
  BY DEF StoreInit, Reflects
<1>4. GuardedPatchesKeepOthers
  BY DEF StoreInit, GuardedPatchesKeepOthers
<1> QED BY <1>1, <1>2, <1>3, <1>4 DEF StoreInv

\* What is known of a request in progress.
LEMMA RequestParts ==
  ASSUME StoreTypeOK, NEW h \in Handlers, handler[h] # Idle
  PROVE  /\ handler[h].pc = "updating" /\ handler[h].ops \in Patches
         /\ handler[h].patch \in 1 .. sent /\ handler[h].patch \in Nat
         /\ handler[h].expected \in 0 .. row.version
         /\ handler[h].seen.version \in handler[h].expected .. row.version
         /\ handler[h].expected \in Nat /\ handler[h].seen.version \in Nat
         /\ row.version \in Nat \ {0} /\ sent \in Nat
BY DEF StoreTypeOK

-----------------------------------------------------------------------------
(* The workflow store: one lemma for each action *)

LEMMA ReadStep ==
  ASSUME StoreInv, NEW h \in Handlers, NEW ops \in Patches, Read(h, ops)
  PROVE  StoreInv'
<1>1. PICK expected \in {Unconditional} \cup 1 .. row.version :
        handler' = [handler EXCEPT ![h] =
          [pc |-> "updating", ops |-> ops, patch |-> sent + 1, expected |-> expected,
           seen |-> row]]
  BY DEF Read
<1>2. /\ row' = row /\ accepted' = accepted /\ sent' = sent + 1
      /\ sent < MaxPatches
  BY DEF Read
<1>3. /\ row.version \in Nat \ {0} /\ sent \in Nat /\ sent' \in 0 .. MaxPatches
      /\ expected \in 0 .. row.version
  BY <1>1, <1>2, StoreAssumption DEF StoreInv, StoreTypeOK, Unconditional
<1>4. /\ handler'[h] = [pc |-> "updating", ops |-> ops, patch |-> sent + 1,
                        expected |-> expected, seen |-> row]
      /\ handler' = [q \in Handlers |-> handler'[q]]
      /\ \A q \in Handlers \ {h} : handler'[q] = handler[q]
  BY <1>1 DEF StoreInv, StoreShape
<1>5. 1 .. sent \subseteq 1 .. sent' /\ sent + 1 \in 1 .. sent'
  BY <1>2, <1>3
<1>6. row.patches \subseteq 1 .. sent
  BY DEF StoreInv, StoreTypeOK
<1>7. StoreTypeOK'
  <2>1. ASSUME NEW q \in Handlers, handler'[q] # Idle
        PROVE  /\ handler'[q].pc = "updating"
               /\ handler'[q].ops \in Patches
               /\ handler'[q].patch \in 1 .. sent'
               /\ handler'[q].expected \in 0 .. row.version
               /\ handler'[q].seen.version \in handler'[q].expected .. row.version
    <3>1. CASE q = h
      BY <1>3, <1>4, <1>5, <3>1
    <3>2. CASE q # h
      BY <1>4, <1>5, <2>1, <3>2, RequestParts DEF StoreInv
    <3> QED BY <3>1, <3>2
  <2>2. \A q \in Handlers :
          handler'[q] = Idle \/
          /\ handler'[q].pc = "updating"
          /\ handler'[q].ops \in Patches
          /\ handler'[q].patch \in 1 .. sent'
          /\ handler'[q].expected \in 0 .. row'.version
          /\ handler'[q].seen.version \in handler'[q].expected .. row'.version
    BY <1>2, <2>1
  <2>3. row'.version \in Nat \ {0} /\ row'.deleted \in BOOLEAN /\ row'.patches \subseteq 1 .. sent'
    BY <1>2, <1>3, <1>5, <1>6 DEF StoreInv, StoreTypeOK
  <2>4. (Idle)' = Idle
    BY DEF Idle
  <2> QED BY <1>3, <2>2, <2>3, <2>4 DEF StoreTypeOK
<1>8. StoreShape'
  <2>1. \A q \in Handlers : handler'[q] # Idle => handler'[q].seen.patches \subseteq 1 .. sent'
    BY <1>4, <1>5, <1>6 DEF StoreInv, StoreShape
  <2> QED BY <1>2, <1>4, <2>1 DEF StoreInv, StoreShape, Answer, Idle
<1>9. ASSUME NEW q \in Handlers PROVE Reflects(q)'
  <2>1. CASE q = h
    BY <1>2, <1>4, <2>1 DEF Reflects
  <2>2. CASE q # h
    BY <1>2, <1>4, <2>2 DEF StoreInv, Reflects, Idle
  <2> QED BY <2>1, <2>2
<1>10. GuardedPatchesKeepOthers'
  BY <1>2 DEF StoreInv, GuardedPatchesKeepOthers
<1> QED BY <1>7, <1>8, <1>9, <1>10 DEF StoreInv

\* A request that is refused is over.
LEMMA RefusedStep ==
  ASSUME StoreInv, NEW h \in Handlers, Update(h), ~Matches(handler[h])
  PROVE  StoreInv'
<1>1. UNCHANGED <<row, accepted, sent>> /\ handler' = [handler EXCEPT ![h] = Idle]
  BY DEF Update
<1>2. handler' = [q \in Handlers |-> handler'[q]] /\ handler'[h] = Idle
      /\ \A q \in Handlers \ {h} : handler'[q] = handler[q]
  BY <1>1 DEF StoreInv, StoreShape
<1>3. StoreTypeOK'
  BY <1>1, <1>2 DEF StoreInv, StoreTypeOK, Idle
<1>4. StoreShape'
  BY <1>1, <1>2 DEF StoreInv, StoreShape, Answer, Idle
<1>5. \A q \in Handlers : Reflects(q)'
  BY <1>1, <1>2 DEF StoreInv, Reflects, Idle
<1>6. GuardedPatchesKeepOthers'
  BY <1>1 DEF StoreInv, GuardedPatchesKeepOthers
<1> QED BY <1>3, <1>4, <1>5, <1>6 DEF StoreInv

\* The row is replaced by what the request has made of the row it read.
LEMMA AcceptedStep ==
  ASSUME StoreInv, NEW h \in Handlers, Update(h), Matches(handler[h])
  PROVE  StoreInv'
<1> DEFINE r == handler[h]
           result == ApplyOperations(r.seen.graph, r.ops)
           answer == [patch |-> r.patch, version |-> row.version + 1, ok |-> result.ok,
                      guarded |-> r.expected # Unconditional]
<1>1. r # Idle
  BY DEF Update
<1>2. /\ row' = [graph |-> result.graph, version |-> row.version + 1,
                 deleted |-> row.deleted, patches |-> r.seen.patches \cup {r.patch}]
      /\ accepted' = Append(accepted, answer)
      /\ handler' = [handler EXCEPT ![h] = Idle]
      /\ sent' = sent
  BY DEF Update, NextVersion
<1>3. result.ok \in BOOLEAN
  BY DEF ApplyOperations
<1> HIDE DEF result
<1>4. /\ r.patch \in 1 .. sent /\ r.patch \in Nat
      /\ r.expected \in Nat /\ r.seen.version \in Nat
      /\ r.seen.version \in r.expected .. row.version
      /\ row.version \in Nat \ {0} /\ sent \in Nat
  BY <1>1, RequestParts DEF StoreInv
<1>5. /\ handler' = [q \in Handlers |-> handler'[q]]
      /\ handler'[h] = Idle
      /\ \A q \in Handlers \ {h} : handler'[q] = handler[q]
  BY <1>2 DEF StoreInv, StoreShape
<1>6. r.seen.patches \subseteq 1 .. sent
  BY <1>1 DEF StoreInv, StoreShape
<1>7. /\ row'.version = row.version + 1 /\ row'.deleted = row.deleted
      /\ row'.patches = r.seen.patches \cup {r.patch}
  BY <1>2
<1>8. StoreTypeOK'
  <2>1. ASSUME NEW q \in Handlers, handler'[q] # Idle
        PROVE  /\ handler'[q].pc = "updating"
               /\ handler'[q].ops \in Patches
               /\ handler'[q].patch \in 1 .. sent'
               /\ handler'[q].expected \in 0 .. row'.version
               /\ handler'[q].seen.version \in handler'[q].expected .. row'.version
    <3>1. handler'[q] = handler[q]
      BY <1>5, <2>1
    <3>2. /\ handler[q].expected \in 0 .. row.version /\ handler[q].expected \in Nat
          /\ handler[q].seen.version \in handler[q].expected .. row.version
          /\ handler[q].seen.version \in Nat
      BY <2>1, <3>1, RequestParts DEF StoreInv
    <3>3. /\ handler[q].expected \in 0 .. row.version + 1
          /\ handler[q].seen.version \in handler[q].expected .. row.version + 1
      BY <1>4, <3>2
    <3> QED BY <1>2, <1>7, <2>1, <3>1, <3>3, RequestParts DEF StoreInv
  <2>2. row'.version \in Nat \ {0} /\ row'.deleted \in BOOLEAN /\ row'.patches \subseteq 1 .. sent'
    BY <1>2, <1>4, <1>6, <1>7 DEF StoreInv, StoreTypeOK
  <2>3. sent' \in 0 .. MaxPatches
    BY <1>2 DEF StoreInv, StoreTypeOK
  <2> QED BY <2>1, <2>2, <2>3 DEF StoreTypeOK, Idle
<1>9. StoreShape'
  <2>1. answer \in Answer
    BY <1>3, <1>4 DEF Answer
  <2>2. accepted' \in Seq(Answer)
    BY <1>2, <2>1 DEF StoreInv, StoreShape
  <2>3. row' = [graph |-> row'.graph, version |-> row'.version, deleted |-> row'.deleted,
                patches |-> row'.patches]
    BY <1>2
  <2>4. \A q \in Handlers : handler'[q] # Idle => handler'[q].seen.patches \subseteq 1 .. sent'
    BY <1>2, <1>5 DEF StoreInv, StoreShape
  <2> QED BY <1>5, <2>2, <2>3, <2>4 DEF StoreShape, Answer, Idle
<1>10. ASSUME NEW q \in Handlers PROVE Reflects(q)'
  <2>1. CASE handler'[q] = Idle
    BY <2>1 DEF Reflects, Idle
  <2>2. CASE handler'[q] # Idle
    <3>1. handler'[q] = handler[q]
      BY <1>5, <2>2
    <3>2. handler[q].seen.version \in Nat /\ handler[q].seen.version <= row.version
      BY <1>4, <2>2, <3>1, RequestParts DEF StoreInv
    <3>3. handler'[q].seen.version # row'.version
      BY <1>4, <1>7, <3>1, <3>2
    <3> QED BY <3>3 DEF Reflects
  <2> QED BY <2>1, <2>2
<1>11. GuardedPatchesKeepOthers'
  <2>1. accepted \in Seq(Answer) /\ Len(accepted) \in Nat
    BY DEF StoreInv, StoreShape
  <2>2. /\ Len(accepted') = Len(accepted) + 1
        /\ accepted'[Len(accepted) + 1] = answer
        /\ \A i \in 1 .. Len(accepted) : accepted'[i] = accepted[i]
        /\ DOMAIN accepted' = 1 .. Len(accepted) + 1
    BY <1>2, <2>1
  <2>3. ASSUME NEW i \in 1 .. Len(accepted) + 1,
               \A j \in i + 1 .. Len(accepted) + 1 : accepted'[j].guarded
        PROVE  accepted'[i].patch \in row'.patches
    <3>1. CASE i = Len(accepted) + 1
      BY <1>7, <2>2, <3>1
    <3>2. CASE i \in 1 .. Len(accepted)
      <4>1. Len(accepted) + 1 \in i + 1 .. Len(accepted) + 1
        BY <2>1, <3>2
      <4>2. answer.guarded
        BY <2>2, <2>3, <4>1
      <4>3. r.expected # Unconditional
        BY <4>2
      <4>4. row.version = r.expected
        BY <4>3 DEF Matches
      <4>5. r.seen.version = row.version
        BY <1>4, <4>4
      <4>6. r.seen.patches = row.patches
        BY <1>1, <4>5 DEF StoreInv, Reflects
      <4>7. \A j \in i + 1 .. Len(accepted) : accepted[j].guarded
        BY <2>1, <2>2, <2>3, <3>2
      <4>8. accepted[i].patch \in row.patches
        BY <2>1, <3>2, <4>7 DEF StoreInv, GuardedPatchesKeepOthers
      <4> QED BY <1>7, <2>2, <3>2, <4>6, <4>8
    <3> QED BY <2>1, <3>1, <3>2
  <2> QED BY <2>2, <2>3 DEF GuardedPatchesKeepOthers
<1> QED BY <1>8, <1>9, <1>10, <1>11 DEF StoreInv

LEMMA RemoveStep == StoreInv /\ RemoveRow => StoreInv'
<1> SUFFICES ASSUME StoreInv, RemoveRow PROVE StoreInv'
  OBVIOUS
<1>1. UNCHANGED <<handler, accepted, sent>> /\ row' = [row EXCEPT !.deleted = TRUE]
  BY DEF RemoveRow
<1>2. /\ row'.version = row.version /\ row'.patches = row.patches /\ row'.deleted = TRUE
      /\ row' = [graph |-> row'.graph, version |-> row'.version, deleted |-> row'.deleted,
                 patches |-> row'.patches]
  BY <1>1 DEF StoreInv, StoreShape
<1>3. StoreTypeOK'
  BY <1>1, <1>2 DEF StoreInv, StoreTypeOK, Idle
<1>4. StoreShape'
  BY <1>1, <1>2 DEF StoreInv, StoreShape, Answer, Idle
<1>5. \A q \in Handlers : Reflects(q)'
  BY <1>1, <1>2 DEF StoreInv, Reflects, Idle
<1>6. GuardedPatchesKeepOthers'
  BY <1>1, <1>2 DEF StoreInv, GuardedPatchesKeepOthers
<1> QED BY <1>3, <1>4, <1>5, <1>6 DEF StoreInv

LEMMA StoreNextInv == StoreInv /\ [StoreNext]_storeVars => StoreInv'
<1> SUFFICES ASSUME StoreInv, [StoreNext]_storeVars PROVE StoreInv'
  OBVIOUS
<1>1. CASE \E h \in Handlers, ops \in Patches : Read(h, ops)
  BY <1>1, ReadStep
<1>2. CASE \E h \in Handlers : Update(h)
  BY <1>2, AcceptedStep, RefusedStep
<1>3. CASE RemoveRow
  BY <1>3, RemoveStep
<1>4. CASE UNCHANGED storeVars
  BY <1>4 DEF storeVars, StoreInv, StoreTypeOK, StoreShape, Answer, Reflects, Idle, GuardedPatchesKeepOthers
<1> QED BY <1>1, <1>2, <1>3, <1>4 DEF StoreNext

LEMMA StoreInvariance == StoreSpec => []StoreInv
BY StoreInitInv, StoreNextInv, PTL DEF StoreSpec

-----------------------------------------------------------------------------
(* The workflow store: the theorems on patches *)

\* A request in progress has read a version between the one its sender names and
\* the one that is stored.
THEOREM StoreTypeCorrect == StoreSpec => []StoreTypeOK
<1>1. StoreInv => StoreTypeOK
  BY DEF StoreInv
<1> QED BY <1>1, StoreInvariance, PTL

\* A patch that was accepted stays in the graph through all patches that are sent
\* with If-Match, however the requests interleave.
THEOREM GuardedPatchesStay == StoreSpec => []GuardedPatchesKeepOthers
<1>1. StoreInv => GuardedPatchesKeepOthers
  BY DEF StoreInv
<1> QED BY <1>1, StoreInvariance, PTL

\* No request changes a deleted workflow, one that read it before included.
THEOREM DeletedStays == StoreSpec => DeletedStaysDeleted
<1>1. [StoreNext]_storeVars => [row.deleted => row' = row]_storeVars
  <2> SUFFICES ASSUME StoreNext, row.deleted PROVE row' = row
    OBVIOUS
  <2>1. ASSUME NEW h \in Handlers, NEW ops \in Patches, Read(h, ops) PROVE row' = row
    BY <2>1 DEF Read
  <2>2. ASSUME NEW h \in Handlers, Update(h) PROVE row' = row
    BY <2>2 DEF Update, Matches
  <2>3. ~RemoveRow
    BY DEF RemoveRow
  <2> QED BY <2>1, <2>2, <2>3 DEF StoreNext
<1> QED BY <1>1, PTL DEF StoreSpec, DeletedStaysDeleted

-----------------------------------------------------------------------------
(* The workflow store: the graph *)

\* Sound is the stored graph and what the requests in progress have read; the
\* latest answer still tells whether the references resolve.
GraphInv ==
  /\ row.graph \in SoundGraphs
  /\ \A h \in Handlers : handler[h] # Idle => handler[h].seen.graph \in SoundGraphs
  /\ accepted # <<>> /\ Last(accepted).ok => ~Unresolved(row.graph, <<>>)

LEMMA GraphInit == StoreInit => GraphInv
BY EmptyGraphSound DEF StoreInit, GraphInv

LEMMA GraphRead ==
  ASSUME StoreInv, GraphInv, NEW h \in Handlers, NEW ops \in Patches, Read(h, ops)
  PROVE  GraphInv'
<1>1. PICK expected \in {Unconditional} \cup 1 .. row.version :
        handler' = [handler EXCEPT ![h] =
          [pc |-> "updating", ops |-> ops, patch |-> sent + 1, expected |-> expected,
           seen |-> row]]
  BY DEF Read
<1>2. row' = row /\ accepted' = accepted
  BY DEF Read
<1>3. /\ handler'[h].seen = row
      /\ \A q \in Handlers \ {h} : handler'[q] = handler[q]
  BY <1>1 DEF StoreInv, StoreShape
<1> QED BY <1>2, <1>3 DEF GraphInv, Idle

LEMMA GraphUpdate ==
  ASSUME StoreInv, GraphInv, NEW h \in Handlers, Update(h)
  PROVE  GraphInv'
<1> DEFINE r == handler[h]
           result == ApplyOperations(r.seen.graph, r.ops)
<1>1. r # Idle /\ handler' = [handler EXCEPT ![h] = Idle]
  BY DEF Update
<1>2. /\ handler'[h] = Idle
      /\ \A q \in Handlers \ {h} : handler'[q] = handler[q]
  BY <1>1 DEF StoreInv, StoreShape
<1>3. \A q \in Handlers : handler'[q] # Idle => handler'[q].seen.graph \in SoundGraphs
  BY <1>2 DEF GraphInv
<1>4. CASE ~Matches(r)
  <2>1. row' = row /\ accepted' = accepted
    BY <1>4 DEF Update
  <2> QED BY <1>3, <2>1 DEF GraphInv, Idle
<1>5. CASE Matches(r)
  <2>1. row'.graph = result.graph
    BY <1>5 DEF Update
  <2>2. accepted' = Append(accepted, [patch |-> r.patch, version |-> row'.version,
                                      ok |-> result.ok, guarded |-> r.expected # Unconditional])
    BY <1>5 DEF Update
  <2>3. r.seen.graph \in SoundGraphs /\ r.ops \in Seq(EditOps)
    BY <1>1, StoreAssumption DEF GraphInv, StoreInv, StoreTypeOK
  <2>4. /\ result.graph = ApplyAll(r.seen.graph, r.ops).graph
        /\ result.ok => ~Unresolved(result.graph, <<>>)
    BY DEF ApplyOperations, Unresolved
  <2>5. ApplyAll(r.seen.graph, r.ops).graph \in SoundGraphs
    BY <2>3, AllOpsKeep
  <2> HIDE DEF result
  <2>6. Last(accepted').ok = result.ok
    <3> DEFINE answer == [patch |-> r.patch, version |-> row'.version,
                          ok |-> result.ok, guarded |-> r.expected # Unconditional]
    <3>1. answer.ok = result.ok
      OBVIOUS
    <3>2. accepted' = Append(accepted, answer)
      BY <2>2
    <3> HIDE DEF answer
    <3>3. Len(accepted') = Len(accepted) + 1 /\ accepted'[Len(accepted) + 1] = answer
      BY <3>2 DEF StoreInv, StoreShape
    <3> QED BY <3>1, <3>3 DEF Last
  <2> QED BY <1>3, <2>1, <2>4, <2>5, <2>6 DEF GraphInv, Idle
<1> QED BY <1>4, <1>5

LEMMA GraphNext == StoreInv /\ GraphInv /\ [StoreNext]_storeVars => GraphInv'
<1> SUFFICES ASSUME StoreInv, GraphInv, [StoreNext]_storeVars PROVE GraphInv'
  OBVIOUS
<1>1. CASE \E h \in Handlers, ops \in Patches : Read(h, ops)
  BY <1>1, GraphRead
<1>2. CASE \E h \in Handlers : Update(h)
  BY <1>2, GraphUpdate
<1>3. CASE RemoveRow
  <2>1. UNCHANGED <<handler, accepted, sent>> /\ row'.graph = row.graph
    BY <1>3 DEF RemoveRow, StoreInv, StoreShape
  <2> QED BY <2>1 DEF GraphInv, Idle
<1>4. CASE UNCHANGED storeVars
  BY <1>4 DEF storeVars, GraphInv, Idle
<1> QED BY <1>1, <1>2, <1>3, <1>4 DEF StoreNext

LEMMA GraphInvariance == StoreSpec => []GraphInv
BY GraphInit, GraphNext, StoreInvariance, PTL DEF StoreSpec

\* Whatever operations are sent, in whatever order the requests are handled, the
\* stored graph lists no block twice, joins blocks that exist, has no cycle, and no
\* connection twice unless it has no handle (applyOperations, update()).
THEOREM StoredGraphStaysSound == StoreSpec => []StoredGraphIsSound
<1>1. GraphInv => StoredGraphIsSound
  BY SoundParts DEF GraphInv, StoredGraphIsSound, Distinct, HandlesDiffer, EndsExist
<1> QED BY <1>1, GraphInvariance, PTL

\* While the latest answer of the store was "ok", every reference of the stored
\* graph names a block that a way leads from (validateReferences).
THEOREM OkGraphsResolve == StoreSpec => []OkGraphResolves
<1>1. GraphInv => OkGraphResolves
  <2> SUFFICES ASSUME GraphInv, accepted # <<>>, Last(accepted).ok,
                      NEW b \in ToSet(row.graph.blocks), NEW r \in row.graph.refs[b]
               PROVE  Has(row.graph, r) /\ b \in Downstream(row.graph, TargetSet(row.graph, r))
    BY DEF OkGraphResolves
  <2>1. Has(row.graph, r) /\ r \in UpstreamOf(row.graph, b)
    BY DEF GraphInv, Unresolved
  <2>4. [row.graph EXCEPT !.enabled = Blocks] = row.graph
    BY SoundParts DEF GraphInv, StoredGraphs
  <2>2. IsGraph(row.graph)
    BY SoundParts DEF GraphInv
  <2>3. b \in Below(row.graph, r)
    BY <2>1, <2>2, <2>4, UpstreamIsAbove DEF UpstreamOf
  <2> QED BY <2>1, <2>3 DEF Below
<1> QED BY <1>1, GraphInvariance, PTL

-----------------------------------------------------------------------------
(* A pass over a graph: the branches that are cut off *)

\* The branches taken out of b when the outputs are out (Chosen), and the blocks
\* that they leave out.
Choice(g, out, b) ==
  IF g.kind[b] # "compute" THEN {Handle(g, b, t) : t \in TargetSet(g, b)}
  ELSE IF out[b] = NoOutput THEN {"error"} ELSE Taken(g, b, out[b])

Lost(g, out, b) == NotTaken(g, b, Choice(g, out, b))

LEMMA LostIsBelow ==
  ASSUME NEW g, IsGraph(g), NEW out, NEW b
  PROVE  Lost(g, out, b) \subseteq TargetSet(g, b) /\ Downstream(g, Lost(g, out, b)) \subseteq Below(g, b)
<1>1. Lost(g, out, b) \subseteq TargetSet(g, b)
  BY DEF Lost, NotTaken
<1> QED BY <1>1, DownstreamMonotone DEF Below

LEMMA NothingBelowNothing ==
  ASSUME NEW g, IsGraph(g)
  PROVE  Downstream(g, {}) = {}
<1>1. Closed(g, {})
  BY DEF Closed
<1>2. Downstream(g, {}) \subseteq {}
  BY <1>1, DownstreamLeast
<1> QED BY <1>2

LEMMA WaitsLoseNothing ==
  ASSUME NEW g, IsGraph(g), NEW out, NEW b, g.kind[b] # "compute"
  PROVE  Lost(g, out, b) = {} /\ Downstream(g, Lost(g, out, b)) = {}
<1>1. Lost(g, out, b) = {}
  BY DEF Lost, NotTaken, Choice
<1> QED BY <1>1, NothingBelowNothing

LEMMA SameLost ==
  ASSUME NEW g, NEW out, NEW new, NEW b, new[b] = out[b]
  PROVE  Lost(g, new, b) = Lost(g, out, b)
BY DEF Lost, Choice

LEMMA ClosedUnion ==
  ASSUME NEW g, NEW A, NEW B, Closed(g, A), Closed(g, B)
  PROVE  Closed(g, A \cup B)
BY DEF Closed

LEMMA ClosedIsAbove ==
  ASSUME NEW g, IsGraph(g), NEW A, Closed(g, A), NEW B, B \subseteq A
  PROVE  Downstream(g, B) \subseteq A
BY DownstreamLeast

LEMMA ClosedBelow ==
  ASSUME NEW g, IsGraph(g), NEW A, Closed(g, A), NEW a \in A
  PROVE  Below(g, a) \subseteq A
<1>1. TargetSet(g, a) \subseteq A
  BY SourcesAreNodes DEF Closed, TargetSet
<1> QED BY <1>1, ClosedIsAbove DEF Below

\* Of a way through the graph every block stands in the order before the next.
LEMMA AboveIsEarlier ==
  ASSUME NEW g, IsGraph(g), NEW s, InOrder(g, s), NEW j \in DOMAIN s, NEW a,
         s[j] \in Below(g, a)
  PROVE  a \in {s[i] : i \in 1 .. j - 1}
<1> DEFINE S == {t \in Nodes(g) : \A k \in DOMAIN s : s[k] = t => \E i \in 1 .. k - 1 : s[i] = a}
<1>1. s \in Seq(Nodes(g)) /\ DOMAIN s = 1 .. Len(s) /\ Len(s) \in Nat
  BY DEF InOrder
<1>2. TargetSet(g, a) \subseteq S
  BY DEF InOrder, TargetSet
<1>3. Closed(g, S)
  <2> SUFFICES ASSUME NEW t \in Nodes(g), NEW b \in S, b \in Sources(g, t),
                      NEW k \in DOMAIN s, s[k] = t
               PROVE  \E i \in 1 .. k - 1 : s[i] = a
    BY DEF Closed
  <2>1. PICK m \in 1 .. k - 1 : s[m] = b
    BY DEF InOrder
  <2>2. m \in DOMAIN s
    BY <1>1
  <2>3. PICK i \in 1 .. m - 1 : s[i] = a
    BY <2>1, <2>2
  <2> QED BY <1>1, <2>2, <2>3
<1> HIDE DEF S
<1>4. Below(g, a) \subseteq S
  BY <1>2, <1>3, ClosedIsAbove DEF Below
<1> USE DEF S
<1>5. PICK i \in 1 .. j - 1 : s[i] = a
  BY <1>4
<1> QED BY <1>5

-----------------------------------------------------------------------------
(* A pass over a graph: what is known when the blocks in done are behind it *)

Decided(done, out, thrown) == {b \in done : out[b] # NoOutput \/ b \in thrown}

\* out are the outputs, skip the skipped blocks, thrown the blocks whose tool
\* threw and which the pass went past, forgot what the snapshots do not tell.
PassSound(g, done, out, skip, forgot, thrown) ==
  /\ Closed(g, skip)
  /\ \A b \in done : out[b] # NoOutput \/ b \in skip \/ b \in thrown
  /\ skip \subseteq Downstream(g, UNION {Lost(g, out, b) : b \in Decided(done, out, thrown)})
  /\ \A b \in skip : out[b] # NoOutput => b \in forgot
  /\ \A b \in Nodes(g) :
       out[b] # NoOutput \/ b \in thrown => Lost(g, out, b) \subseteq skip \cup forgot
  /\ \A e, a \in Nodes(g) :
       out[e] # NoOutput /\ e \in Below(g, a) =>
         out[a] # NoOutput \/ e \in forgot \/ a \in thrown
  /\ \A a \in thrown : Below(g, a) \subseteq forgot \/ a \in done

\* What is above a block that is not skipped is done and was not skipped.
LEMMA AboveDecided ==
  ASSUME NEW g, IsGraph(g), NEW done, NEW out, NEW skip, NEW forgot, NEW thrown,
         PassSound(g, done, out, skip, forgot, thrown),
         NEW a \in done, NEW p, p \in Below(g, a), p \notin skip
  PROVE  out[a] # NoOutput \/ a \in thrown
<1>1. a \notin skip
  BY ClosedBelow DEF PassSound
<1> QED BY <1>1 DEF PassSound

LEMMA PassBegins ==
  ASSUME NEW g, IsGraph(g), NEW out, NEW forgot, NEW thrown,
         \A b \in Nodes(g) : out[b] # NoOutput => Lost(g, out, b) \subseteq forgot,
         \A e, a \in Nodes(g) :
           out[e] # NoOutput /\ e \in Below(g, a) => out[a] # NoOutput \/ e \in forgot,
         \A a \in thrown : Below(g, a) \subseteq forgot
  PROVE  PassSound(g, {}, out, {}, forgot, thrown)
<1>1. Closed(g, {})
  BY DEF Closed
<1>2. ASSUME NEW b \in thrown PROVE Lost(g, out, b) \subseteq forgot
  BY LostIsBelow, BelowBounds
<1> QED BY <1>1, <1>2 DEF PassSound

LEMMA PassGoesOn ==
  ASSUME NEW g, IsGraph(g), NEW done, NEW out, NEW skip, NEW forgot, NEW thrown,
         PassSound(g, done, out, skip, forgot, thrown),
         NEW p, p \in skip \/ out[p] # NoOutput
  PROVE  PassSound(g, done \cup {p}, out, skip, forgot, thrown)
<1> DEFINE U(D) == UNION {Lost(g, out, b) : b \in Decided(D, out, thrown)}
<1>1. U(done) \subseteq U(done \cup {p})
  BY DEF Decided
<1>2. Downstream(g, U(done)) \subseteq Downstream(g, U(done \cup {p}))
  <2> HIDE DEF U
  <2> QED BY <1>1, DownstreamMonotone
<1>3. skip \subseteq Downstream(g, U(done \cup {p}))
  BY <1>2 DEF PassSound
<1> QED BY <1>3 DEF PassSound

\* The pass gets at p, which is not skipped and has no output yet: p gets one, or
\* its tool throws.
LEMMA PassVisits ==
  ASSUME NEW g, IsGraph(g), ~HasCycle(g), NEW done, NEW out, NEW skip, NEW forgot, NEW thrown,
         PassSound(g, done, out, skip, forgot, thrown), Closed(g, forgot),
         NEW p, p \notin done, p \notin skip, out[p] = NoOutput,
         \A a : p \in Below(g, a) => a \in done,
         NEW new, \A b \in Nodes(g) \cup done : b # p => new[b] = out[b],
         NEW more, thrown \subseteq more, more \subseteq thrown \cup {p},
         new[p] # NoOutput \/ p \in more
  PROVE  PassSound(g, done \cup {p}, new, skip \cup Downstream(g, Lost(g, new, p)), forgot, more)
<1> DEFINE cut == Downstream(g, Lost(g, new, p))
           both == skip \cup cut
           U == UNION {Lost(g, out, b) : b \in Decided(done, out, thrown)}
           V == UNION {Lost(g, new, b) : b \in Decided(done \cup {p}, new, more)}
<1>1. Closed(g, both)
  BY DownstreamClosed, ClosedUnion DEF PassSound
<1>2. \A b \in done \cup {p} : new[b] # NoOutput \/ b \in both \/ b \in more
  BY DEF PassSound
<1>3. both \subseteq Downstream(g, V)
  <2>1. ASSUME NEW b \in Decided(done, out, thrown) PROVE Lost(g, out, b) \subseteq V
    <3>1. b \in done /\ b # p
      BY DEF Decided
    <3>2. new[b] = out[b]
      BY <3>1
    <3>3. b \in Decided(done \cup {p}, new, more)
      BY <3>1, <3>2 DEF Decided
    <3>4. Lost(g, new, b) = Lost(g, out, b)
      BY <3>2, SameLost
    <3> QED BY <3>3, <3>4
  <2>2. U \subseteq V
    BY <2>1
  <2>3. Lost(g, new, p) \subseteq V
    BY DEF Decided
  <2> HIDE DEF U, V
  <2>4. Downstream(g, U) \subseteq Downstream(g, V)
    BY <2>2, DownstreamMonotone
  <2>5. cut \subseteq Downstream(g, V)
    BY <2>3, DownstreamMonotone
  <2>6. skip \subseteq Downstream(g, U)
    BY DEF PassSound, U
  <2> QED BY <2>4, <2>5, <2>6
<1>4. cut \subseteq Below(g, p) /\ p \notin Below(g, p) /\ Below(g, p) \subseteq Nodes(g)
  BY LostIsBelow, AcyclicBelow, BelowBounds
<1>5. ASSUME NEW b \in both, new[b] # NoOutput PROVE b \in forgot
  <2>1. CASE b \in skip
    <3>1. b # p
      BY <2>1
    <3>2. b \in Nodes(g) \cup done
      <4>1. skip \subseteq Downstream(g, U)
        BY DEF PassSound
      <4>2. U \subseteq Nodes(g)
        BY LostIsBelow DEF TargetSet
      <4> HIDE DEF U
      <4>3. Downstream(g, U) \subseteq U \cup Nodes(g)
        BY DownstreamBounds
      <4> QED BY <2>1, <4>1, <4>2, <4>3
    <3> QED BY <1>5, <2>1, <3>1, <3>2 DEF PassSound
  <2>2. CASE b \in cut
    <3>1. b \in Below(g, p) /\ b # p /\ b \in Nodes(g)
      BY <1>4, <2>2
    <3>2. out[b] # NoOutput
      BY <1>5, <3>1
    <3>3. CASE p \in Nodes(g)
      <4>1. b \in forgot \/ p \in thrown
        BY <3>1, <3>2, <3>3 DEF PassSound
      <4>2. p \in thrown => Below(g, p) \subseteq forgot
        BY DEF PassSound
      <4> QED BY <3>1, <4>1, <4>2
    <3>4. CASE p \notin Nodes(g)
      <4>1. Lost(g, new, p) = {}
        BY <3>4, LostIsBelow, SourcesAreNodes DEF TargetSet
      <4> QED BY <2>2, <4>1, NothingBelowNothing
    <3> QED BY <3>3, <3>4
  <2> QED BY <2>1, <2>2
<1>6. ASSUME NEW b \in Nodes(g), new[b] # NoOutput \/ b \in more
      PROVE  Lost(g, new, b) \subseteq both \cup forgot
  <2>1. CASE b = p
    <3>1. Lost(g, new, p) \subseteq cut
      BY DownstreamBounds
    <3> QED BY <2>1, <3>1
  <2>2. CASE b # p
    <3>1. new[b] = out[b] /\ (out[b] # NoOutput \/ b \in thrown)
      BY <1>6, <2>2
    <3>2. Lost(g, new, b) = Lost(g, out, b)
      BY <3>1, SameLost
    <3> QED BY <3>1, <3>2 DEF PassSound
  <2> QED BY <2>1, <2>2
<1>7. ASSUME NEW e \in Nodes(g), NEW a \in Nodes(g), new[e] # NoOutput, e \in Below(g, a)
      PROVE  new[a] # NoOutput \/ e \in forgot \/ a \in more
  <2>1. CASE e = p
    <3>1. a \in done /\ a # p
      BY <1>7, <2>1
    <3>2. out[a] # NoOutput \/ a \in thrown
      BY <1>7, <2>1, <3>1, AboveDecided
    <3> QED BY <3>1, <3>2
  <2>2. CASE e # p
    <3>1. out[a] # NoOutput \/ e \in forgot \/ a \in thrown
      BY <1>7, <2>2 DEF PassSound
    <3>2. out[a] # NoOutput => new[a] = out[a]
      OBVIOUS
    <3> QED BY <3>1, <3>2
  <2> QED BY <2>1, <2>2
<1>8. \A a \in more : Below(g, a) \subseteq forgot \/ a \in done \cup {p}
  BY DEF PassSound
<1> HIDE DEF both, V
<1>9. PassSound(g, done \cup {p}, new, both, forgot, more)
  BY <1>1, <1>2, <1>3, <1>5, <1>6, <1>7, <1>8 DEF PassSound, V
<1> QED BY <1>9 DEF both

\* The reference of RunsTheSelectedBlocks, for the thrown blocks T.
SelectedOf(g, out, T) ==
  Nodes(g) \ Downstream(g, UNION {Lost(g, out, b) : b \in {c \in Nodes(g) : out[c] # NoOutput} \cup T})

LEMMA PassEnds ==
  ASSUME NEW g, IsGraph(g), NEW out, NEW skip, NEW forgot, NEW thrown,
         PassSound(g, Nodes(g), out, skip, forgot, thrown), Closed(g, forgot),
         NEW T \in SUBSET Nodes(g), thrown \subseteq T, \A b \in T : out[b] # NoOutput \/ b \in thrown
  PROVE  /\ SelectedOf(g, out, T) \ T \subseteq {b \in Nodes(g) : out[b] # NoOutput}
         /\ {b \in Nodes(g) : out[b] # NoOutput} \ SelectedOf(g, out, T) \subseteq forgot
<1> DEFINE E == {b \in Nodes(g) : out[b] # NoOutput}
           F == {Lost(g, out, b) : b \in E \cup T}
           U == UNION {Lost(g, out, b) : b \in Decided(Nodes(g), out, thrown)}
<1>1. ASSUME NEW a \in Nodes(g), a \notin Downstream(g, UNION F), a \notin T
      PROVE  out[a] # NoOutput
  <2>1. out[a] # NoOutput \/ a \in skip \/ a \in thrown
    BY DEF PassSound
  <2>2. skip \subseteq Downstream(g, U)
    BY DEF PassSound
  <2>3. U \subseteq UNION F
    BY DEF Decided
  <2> HIDE DEF U, F
  <2>4. Downstream(g, U) \subseteq Downstream(g, UNION F)
    BY <2>3, DownstreamMonotone
  <2> QED BY <1>1, <2>1, <2>2, <2>4
<1>2. ASSUME NEW e \in E, e \in Downstream(g, UNION F) PROVE e \in forgot
  <2>1. PICK B \in F : e \in Downstream(g, B)
    <3> HIDE DEF F
    <3> QED BY <1>2, DownstreamOfUnion
  <2>2. PICK c \in E \cup T : B = Lost(g, out, c)
    BY <2>1
  <2>3. B \subseteq skip \cup forgot
    BY <2>2 DEF PassSound
  <2>4. Closed(g, skip \cup forgot)
    BY ClosedUnion DEF PassSound
  <2>5. Downstream(g, B) \subseteq skip \cup forgot
    BY <2>3, <2>4, ClosedIsAbove
  <2> QED BY <2>1, <2>5 DEF PassSound
<1> QED BY <1>1, <1>2 DEF SelectedOf

-----------------------------------------------------------------------------
(* What survives a pass *)

\* A snapshot: res are the outputs, kept the blocks that have one and the block
\* the run is parked at.
SnapSound(g, res, kept, forgot) ==
  /\ \A b \in Nodes(g) : res[b] # NoOutput => Lost(g, res, b) \subseteq forgot
  /\ \A e \in kept, a \in Nodes(g) : e \in Below(g, a) => res[a] # NoOutput \/ e \in forgot

LEMMA SnapshotTaken ==
  ASSUME NEW g, IsGraph(g), NEW done, NEW out, NEW skip, NEW forgot, NEW thrown,
         PassSound(g, done, out, skip, forgot, thrown),
         NEW p, p \notin skip, \A a : p \in Below(g, a) => a \in done,
         NEW new, forgot \subseteq new, skip \subseteq new,
         \A a \in thrown : Below(g, a) \subseteq new
  PROVE  SnapSound(g, out, {e \in Nodes(g) : out[e] # NoOutput \/ e = p}, new)
<1>1. \A b \in Nodes(g) : out[b] # NoOutput => Lost(g, out, b) \subseteq new
  BY DEF PassSound
<1>2. ASSUME NEW e \in Nodes(g), out[e] # NoOutput \/ e = p,
             NEW a \in Nodes(g), e \in Below(g, a)
      PROVE  out[a] # NoOutput \/ e \in new
  <2>1. out[a] # NoOutput \/ e \in forgot \/ a \in thrown
    <3>1. CASE e = p
      <4>1. a \in done
        BY <1>2, <3>1
      <4> QED BY <1>2, <3>1, <4>1, AboveDecided
    <3>2. CASE e # p
      BY <1>2, <3>2 DEF PassSound
    <3> QED BY <3>1, <3>2
  <2> QED BY <1>2, <2>1
<1> QED BY <1>1, <1>2 DEF SnapSound

LEMMA SnapshotResumed ==
  ASSUME NEW g, IsGraph(g), NEW res, NEW kept, NEW forgot, SnapSound(g, res, kept, forgot),
         NEW w, g.kind[w] # "compute",
         NEW new, \A b \in Nodes(g) : b # w => new[b] = res[b],
         w \in Nodes(g) => new[w] # NoOutput
  PROVE  SnapSound(g, new, kept, forgot)
<1>1. ASSUME NEW b \in Nodes(g), new[b] # NoOutput PROVE Lost(g, new, b) \subseteq forgot
  <2>1. CASE b = w
    BY <2>1, WaitsLoseNothing
  <2>2. CASE b # w
    <3>1. new[b] = res[b]
      BY <2>2
    <3> QED BY <1>1, <3>1, SameLost DEF SnapSound
  <2> QED BY <2>1, <2>2
<1>2. \A a \in Nodes(g) : res[a] # NoOutput => new[a] # NoOutput
  OBVIOUS
<1> QED BY <1>1, <1>2 DEF SnapSound

\* The history of a durable run: res are the recorded results, reached the blocks
\* that have one, whose tool threw or that the run is parked at.  A pass gets at
\* each of them again.
HistorySound(g, res, reached) ==
  /\ \A e \in reached, a \in Nodes(g) :
       e \in Below(g, a) => res[a] # NoOutput \/ g.kind[a] = "trigger"
  /\ \A e \in reached, c \in Nodes(g) :
       res[c] # NoOutput => e \notin Downstream(g, Lost(g, res, c))

\* The outputs of a pass are those recorded.
Replays(g, out, res) ==
  \A b \in Nodes(g) : out[b] # NoOutput => g.kind[b] = "trigger" \/ out[b] = res[b]

LEMMA HistoryReaches ==
  ASSUME NEW g, IsGraph(g), NEW done \in SUBSET Nodes(g), NEW out, NEW skip, NEW res, NEW reached,
         PassSound(g, done, out, skip, {}, {}), HistorySound(g, res, reached),
         Replays(g, out, res), \A b \in Nodes(g) : res[b] # NoOutput => g.kind[b] # "trigger",
         NEW p, p \notin skip, \A a : p \in Below(g, a) => a \in done
  PROVE  HistorySound(g, res, reached \cup {p})
<1>1. ASSUME NEW a \in Nodes(g), p \in Below(g, a)
      PROVE  out[a] # NoOutput
  BY <1>1, AboveDecided
<1>2. ASSUME NEW a \in Nodes(g), p \in Below(g, a)
      PROVE  res[a] # NoOutput \/ g.kind[a] = "trigger"
  BY <1>1, <1>2 DEF Replays
<1>3. ASSUME NEW c \in Nodes(g), res[c] # NoOutput, p \in Downstream(g, Lost(g, res, c))
      PROVE  FALSE
  <2>1. p \in Below(g, c)
    BY <1>3, LostIsBelow
  <2>2. out[c] = res[c]
    BY <1>1, <1>3, <2>1 DEF Replays
  <2>3. Lost(g, out, c) = Lost(g, res, c)
    BY <2>2, SameLost
  <2>4. Lost(g, res, c) \subseteq skip
    BY <1>1, <2>1, <2>3 DEF PassSound
  <2>5. Downstream(g, Lost(g, res, c)) \subseteq skip
    BY <2>4, ClosedIsAbove DEF PassSound
  <2> QED BY <1>3, <2>5
<1> QED BY <1>2, <1>3 DEF HistorySound

\* A result is recorded for a block that was reached and had none.
LEMMA HistoryRecords ==
  ASSUME NEW g, IsGraph(g), ~HasCycle(g), NEW res, NEW reached, HistorySound(g, res, reached),
         NEW p, res[p] = NoOutput, g.kind[p] # "trigger",
         NEW new, \A b \in Nodes(g) : b # p => new[b] = res[b]
  PROVE  HistorySound(g, new, reached)
<1>1. ASSUME NEW e \in reached, NEW a \in Nodes(g), e \in Below(g, a)
      PROVE  new[a] # NoOutput \/ g.kind[a] = "trigger"
  BY <1>1 DEF HistorySound
<1>2. ASSUME NEW e \in reached, NEW c \in Nodes(g), new[c] # NoOutput,
             e \in Downstream(g, Lost(g, new, c))
      PROVE  FALSE
  <2>1. CASE c = p
    <3>1. e \in Below(g, p)
      BY <1>2, <2>1, LostIsBelow
    <3> QED BY <2>1, <3>1 DEF HistorySound
  <2>2. CASE c # p
    <3>1. new[c] = res[c]
      BY <2>2
    <3> QED BY <1>2, <3>1, SameLost DEF HistorySound
  <2> QED BY <2>1, <2>2
<1> QED BY <1>1, <1>2 DEF HistorySound

\* No pass skips what was reached.
LEMMA HistoryStays ==
  ASSUME NEW g, IsGraph(g), NEW done \in SUBSET Nodes(g), NEW out, NEW skip, NEW res, NEW reached,
         PassSound(g, done, out, skip, {}, {}), HistorySound(g, res, reached), Replays(g, out, res),
         NEW e \in reached
  PROVE  e \notin skip
<1> DEFINE F == {Lost(g, out, b) : b \in Decided(done, out, {})}
<1> SUFFICES ASSUME e \in skip PROVE FALSE
  OBVIOUS
<1>1. e \in Downstream(g, UNION F)
  BY DEF PassSound
<1>2. PICK B \in F : e \in Downstream(g, B)
  <2> HIDE DEF F
  <2> QED BY <1>1, DownstreamOfUnion
<1>3. PICK c \in done : B = Lost(g, out, c) /\ out[c] # NoOutput
  BY <1>2 DEF Decided
<1>4. CASE g.kind[c] = "trigger"
  BY <1>2, <1>3, <1>4, WaitsLoseNothing
<1>5. CASE g.kind[c] # "trigger"
  <2>1. out[c] = res[c]
    BY <1>3, <1>5 DEF Replays
  <2> QED BY <1>2, <1>3, <2>1, SameLost DEF HistorySound
<1> QED BY <1>4, <1>5

-----------------------------------------------------------------------------
(* Graph execution: the invariant *)

\* The blocks behind the pass, those whose tool threw and which an executor in
\* memory went past, those that keep a result or wait for one, and those that a
\* durable run has got at.
Passed == {order[i] : i \in 1 .. position - 1}

Thrown == IF executor = "memory" THEN ToSet(threw) ELSE {}

Kept == {b \in Blocks : results[b] # NoOutput} \cup ({waiting} \ {NoBlock})

Reached == Kept \cup ToSet(threw)

Shape ==
  /\ TypeOK
  /\ order \in Seq(Nodes(workflow)) /\ threw \in Seq(Nodes(workflow))
  /\ \A b \in Blocks : outputs[b] # NoOutput \/ results[b] # NoOutput => b \in Nodes(workflow)
  /\ waiting # NoBlock =>
       /\ workflow.kind[waiting] = "wait"
       /\ executor = "durable" => results[waiting] = NoOutput
  /\ Closed(workflow, forgotten)
  /\ status \in {"due", "parked"} => \A b \in Blocks : outputs[b] = NoOutput

PassGood ==
  status \in {"running", "completed"} =>
    /\ InOrder(workflow, order)
    /\ status = "completed" => position > Len(order)
    /\ PassSound(workflow, Passed, outputs, skipped, forgotten, Thrown)

SnapshotGood ==
  executor = "memory" =>
    /\ SnapSound(workflow, results, Kept, forgotten)
    /\ status \in {"due", "parked"} =>
         \A a \in ToSet(threw) : Below(workflow, a) \subseteq forgotten

HistoryGood ==
  executor = "durable" =>
    /\ HistorySound(workflow, results, Reached)
    /\ Replays(workflow, outputs, results)
    /\ \A b \in Nodes(workflow) : results[b] # NoOutput => workflow.kind[b] # "trigger"

ExecInv == Shape /\ PassGood /\ SnapshotGood /\ HistoryGood

LEMMA WorkflowParts ==
  ASSUME TypeOK
  PROVE  /\ IsGraph(workflow) /\ ListedOnce(workflow) /\ ~HasCycle(workflow)
         /\ Nodes(workflow) \subseteq Blocks /\ NoBlock \notin Blocks
<1>1. IsGraph(workflow) /\ ListedOnce(workflow) /\ ~HasCycle(workflow)
  BY ExecutionAssumption DEF TypeOK
<1>2. Nodes(workflow) \subseteq Blocks
  BY <1>1, NodesFinite
<1> QED BY <1>1, <1>2, ExecutionAssumption

LEMMA EmptyElements == ToSet(<<>>) = {}
BY DEF ToSet

LEMMA ExecInit == Init => ExecInv
<1> SUFFICES ASSUME Init PROVE ExecInv
  OBVIOUS
<1>1. /\ outputs = Nothing /\ results = Nothing /\ order = <<>> /\ threw = <<>> /\ position = 1
      /\ skipped = {} /\ forgotten = {} /\ waiting = NoBlock /\ status = "due"
      /\ executor \in {"durable", "memory"} /\ workflow \in Graphs
  BY DEF Init
<1>2. Nothing \in [Blocks -> Outputs \cup {NoOutput}] /\ \A b \in Blocks : Nothing[b] = NoOutput
  BY DEF Nothing
<1>3. TypeOK
  BY <1>1, <1>2 DEF TypeOK
<1>4. Nodes(workflow) \subseteq Blocks
  BY <1>3, WorkflowParts
<1>5. Shape
  BY <1>1, <1>2, <1>3 DEF Shape, Closed
<1>6. Kept = {} /\ Reached = {}
  BY <1>1, <1>2, EmptyElements DEF Kept, Reached
<1>7. SnapshotGood
  BY <1>1, <1>2, <1>4, <1>6, EmptyElements DEF SnapshotGood, SnapSound
<1>8. HistoryGood
  BY <1>1, <1>2, <1>4, <1>6 DEF HistoryGood, HistorySound, Replays
<1> QED BY <1>1, <1>5, <1>7, <1>8 DEF ExecInv, PassGood

\* The block whose turn it is.
LEMMA AtTurn ==
  ASSUME ExecInv, NEW p, AtBlock(p)
  PROVE  /\ status = "running" /\ p \in Nodes(workflow) /\ p \in Blocks
         /\ Passed \subseteq Nodes(workflow) /\ p \notin Passed
         /\ \A a : p \in Below(workflow, a) => a \in Passed
         /\ {order[i] : i \in 1 .. (position + 1) - 1} = Passed \cup {p}
         /\ position + 1 \in 1 .. Len(order) + 1
         /\ PassSound(workflow, Passed, outputs, skipped, forgotten, Thrown)
         /\ InOrder(workflow, order) /\ waiting = NoBlock
<1>1. status = "running" /\ position <= Len(order) /\ p = order[position]
  BY DEF AtBlock
<1>2. /\ InOrder(workflow, order)
      /\ PassSound(workflow, Passed, outputs, skipped, forgotten, Thrown)
  BY <1>1 DEF ExecInv, PassGood
<1>3. order \in Seq(Nodes(workflow)) /\ position \in 1 .. Len(order) + 1 /\ Len(order) \in Nat
  BY DEF ExecInv, Shape, TypeOK
<1>4. position \in DOMAIN order /\ \A i \in 1 .. position - 1 : i \in DOMAIN order /\ i # position
  BY <1>1, <1>3
<1>5. p \in Nodes(workflow) /\ Passed \subseteq Nodes(workflow)
  BY <1>1, <1>3, <1>4 DEF Passed
<1>6. p \notin Passed
  BY <1>1, <1>2, <1>4 DEF Passed, InOrder, Distinct
<1>7. TypeOK /\ IsGraph(workflow) /\ Nodes(workflow) \subseteq Blocks
  BY WorkflowParts DEF ExecInv, Shape
<1>8. \A a : p \in Below(workflow, a) => a \in Passed
  BY <1>1, <1>2, <1>4, <1>7, AboveIsEarlier DEF Passed
<1>9. {order[i] : i \in 1 .. (position + 1) - 1} = Passed \cup {p}
  <2>1. 1 .. (position + 1) - 1 = (1 .. position - 1) \cup {position}
    BY <1>3
  <2> QED BY <1>1, <2>1 DEF Passed
<1>10. waiting = NoBlock
  BY <1>1, <1>7 DEF TypeOK
<1> QED BY <1>1, <1>2, <1>3, <1>5, <1>6, <1>7, <1>8, <1>9, <1>10

\* What the steps have in common that go past a block they visit.
VisitStep(p) ==
  /\ AtBlock(p) /\ ToVisit(p)
  /\ UNCHANGED <<executor, workflow, status, order, waiting, forgotten>>
  /\ position' = position + 1
  /\ outputs' \in [Blocks -> Outputs \cup {NoOutput}]
  /\ results' \in [Blocks -> Outputs \cup {NoOutput}]
  /\ threw' \in Seq(Nodes(workflow))
  /\ skipped' = skipped \cup Downstream(workflow, Lost(workflow, outputs', p))
  /\ \A b \in Blocks : b # p => outputs'[b] = outputs[b] /\ results'[b] = results[b]
  /\ Thrown \subseteq Thrown' /\ Thrown' \subseteq Thrown \cup {p}
  /\ outputs'[p] # NoOutput \/ p \in Thrown'

LEMMA VisitKeeps ==
  ASSUME ExecInv, NEW p, VisitStep(p)
  PROVE  Shape' /\ PassGood'
<1>1. /\ TypeOK /\ IsGraph(workflow) /\ ~HasCycle(workflow)
      /\ Nodes(workflow) \subseteq Blocks
  BY WorkflowParts DEF ExecInv, Shape
<1>2. AtBlock(p) /\ p \notin skipped /\ outputs[p] = NoOutput /\ Closed(workflow, forgotten)
  BY DEF VisitStep, ToVisit, ExecInv, Shape
<1>3. /\ status = "running" /\ p \in Nodes(workflow) /\ p \in Blocks
      /\ Passed \subseteq Nodes(workflow) /\ p \notin Passed
      /\ \A a : p \in Below(workflow, a) => a \in Passed
      /\ {order[i] : i \in 1 .. (position + 1) - 1} = Passed \cup {p}
      /\ position + 1 \in 1 .. Len(order) + 1
      /\ PassSound(workflow, Passed, outputs, skipped, forgotten, Thrown)
      /\ InOrder(workflow, order) /\ waiting = NoBlock
  BY <1>2, AtTurn
<1>4. /\ executor' = executor /\ workflow' = workflow /\ status' = status /\ order' = order
      /\ waiting' = waiting /\ forgotten' = forgotten /\ position' = position + 1
      /\ \A b \in Nodes(workflow) \cup Passed : b # p => outputs'[b] = outputs[b]
      /\ Thrown \subseteq Thrown' /\ Thrown' \subseteq Thrown \cup {p}
      /\ outputs'[p] # NoOutput \/ p \in Thrown'
      /\ skipped' = skipped \cup Downstream(workflow, Lost(workflow, outputs', p))
  BY <1>1, <1>3 DEF VisitStep
<1>5. Passed' = Passed \cup {p}
  BY <1>3, <1>4 DEF Passed
<1> DEFINE done == Passed
           new == outputs'
           more == Thrown'
<1>6. PassSound(workflow, done \cup {p}, new,
                skipped \cup Downstream(workflow, Lost(workflow, new, p)), forgotten, more)
  <2>1. /\ \A b \in Nodes(workflow) \cup done : b # p => new[b] = outputs[b]
        /\ Thrown \subseteq more /\ more \subseteq Thrown \cup {p}
        /\ new[p] # NoOutput \/ p \in more
    BY <1>4
  <2>2. PassSound(workflow, done, outputs, skipped, forgotten, Thrown)
        /\ p \notin done /\ \A a : p \in Below(workflow, a) => a \in done
    BY <1>3
  <2> HIDE DEF done, new, more
  <2> QED BY <1>1, <1>2, <2>1, <2>2, PassVisits
<1>7. PassSound(workflow', Passed', outputs', skipped', forgotten', Thrown')
  BY <1>4, <1>5, <1>6
<1>8. PassGood'
  BY <1>3, <1>4, <1>7 DEF PassGood
<1>9. skipped' \subseteq Nodes(workflow)
  BY <1>1, <1>4, LostIsBelow, BelowBounds DEF TypeOK
<1>10. TypeOK'
  <2>1. \A b \in skipped' : outputs'[b] = NoOutput \/ executor' = "memory"
    <3>1. \A b \in skipped' : outputs'[b] # NoOutput => b \in forgotten'
      BY <1>7 DEF PassSound
    <3> QED BY <1>1, <1>4, <3>1 DEF TypeOK
  <2> QED BY <1>1, <1>3, <1>4, <1>9, <2>1 DEF TypeOK, VisitStep
<1>11. \A b \in Blocks : outputs'[b] # NoOutput \/ results'[b] # NoOutput => b \in Nodes(workflow)
  BY <1>3 DEF VisitStep, ExecInv, Shape
<1>12. Shape'
  BY <1>2, <1>3, <1>4, <1>10, <1>11 DEF Shape, ExecInv, VisitStep
<1> QED BY <1>8, <1>12

-----------------------------------------------------------------------------
(* Graph execution: one lemma for each action *)

LEMMA BeginKeeps ==
  ASSUME ExecInv, Begin
  PROVE  ExecInv'
<1>1. /\ status = "due" /\ status' = "running" /\ order' = TopoSort(workflow) /\ position' = 1
      /\ skipped' = {} /\ UNCHANGED <<executor, workflow, results, waiting, threw, forgotten>>
      /\ outputs' = IF executor = "memory" THEN results ELSE Nothing
  BY DEF Begin
<1>2. /\ TypeOK /\ IsGraph(workflow) /\ ListedOnce(workflow) /\ ~HasCycle(workflow)
      /\ Nodes(workflow) \subseteq Blocks /\ waiting = NoBlock
  BY <1>1, WorkflowParts DEF ExecInv, Shape, TypeOK
<1>3. InOrder(workflow, order')
  BY <1>1, <1>2, TopoSortOrders
<1>4. order' \in Seq(Nodes(workflow)) /\ Len(order') \in Nat
  BY <1>3 DEF InOrder
<1>5. TypeOK'
  <2>1. outputs' \in [Blocks -> Outputs \cup {NoOutput}]
    BY <1>1, <1>2 DEF TypeOK, Nothing
  <2>2. position' \in 1 .. Len(order') + 1
    BY <1>1, <1>4
  <2> QED BY <1>1, <1>2, <2>1, <2>2 DEF TypeOK
<1>6. \A b \in Blocks : outputs'[b] = IF executor = "memory" THEN results[b] ELSE NoOutput
  BY <1>1 DEF Nothing
<1>7. Shape'
  BY <1>1, <1>2, <1>4, <1>5, <1>6 DEF Shape, ExecInv
<1>8. Passed' = {}
  BY <1>1 DEF Passed
<1>9. PassSound(workflow, {}, outputs', {}, forgotten, Thrown)
  <2>1. CASE executor = "memory"
    <3>1. /\ SnapSound(workflow, results, Kept, forgotten)
          /\ \A a \in Thrown : Below(workflow, a) \subseteq forgotten
      BY <1>1, <2>1 DEF ExecInv, SnapshotGood, Thrown
    <3>2. /\ \A b \in Nodes(workflow) : results[b] # NoOutput => Lost(workflow, results, b) \subseteq forgotten
          /\ \A e, a \in Nodes(workflow) :
               results[e] # NoOutput /\ e \in Below(workflow, a) => results[a] # NoOutput \/ e \in forgotten
      BY <1>2, <3>1 DEF SnapSound, Kept
    <3>3. outputs' = results
      BY <1>1, <2>1
    <3> QED BY <1>2, <3>1, <3>2, <3>3, PassBegins
  <2>2. CASE executor # "memory"
    <3>1. \A b \in Nodes(workflow) : outputs'[b] = NoOutput
      BY <1>2, <1>6, <2>2
    <3>2. Thrown = {}
      BY <2>2 DEF Thrown
    <3> DEFINE new == outputs'
    <3> HIDE DEF new
    <3>3. \A b \in Nodes(workflow) : new[b] = NoOutput
      BY <3>1 DEF new
    <3>4. PassSound(workflow, {}, new, {}, forgotten, {})
      BY <1>2, <3>3, PassBegins
    <3> QED BY <3>2, <3>4 DEF new
  <2> QED BY <2>1, <2>2
<1>10. PassGood'
  <2>1. Thrown' = Thrown
    BY <1>1 DEF Thrown
  <2> QED BY <1>1, <1>3, <1>8, <1>9, <2>1 DEF PassGood
<1>11. Kept' = Kept /\ Reached' = Reached
  BY <1>1 DEF Kept, Reached
<1>12. SnapshotGood'
  BY <1>1, <1>11 DEF SnapshotGood, ExecInv
<1>13. HistoryGood'
  <2>1. executor = "durable" => Replays(workflow, outputs', results)
    BY <1>2, <1>6 DEF Replays
  <2> QED BY <1>1, <1>11, <2>1 DEF HistoryGood, ExecInv
<1> QED BY <1>7, <1>10, <1>12, <1>13 DEF ExecInv

LEMMA PassOverKeeps ==
  ASSUME ExecInv, NEW p, PassOver(p)
  PROVE  ExecInv'
<1>1. /\ AtBlock(p) /\ (p \in skipped \/ outputs[p] # NoOutput) /\ position' = position + 1
      /\ UNCHANGED <<executor, workflow, status, order, outputs, skipped, results, waiting,
                     threw, forgotten>>
  BY DEF PassOver, ToVisit, Advance
<1>2. /\ status = "running" /\ p \in Nodes(workflow)
      /\ {order[i] : i \in 1 .. (position + 1) - 1} = Passed \cup {p}
      /\ position + 1 \in 1 .. Len(order) + 1
      /\ PassSound(workflow, Passed, outputs, skipped, forgotten, Thrown)
      /\ InOrder(workflow, order)
  BY <1>1, AtTurn
<1>3. Passed' = Passed \cup {p} /\ Thrown' = Thrown /\ Kept' = Kept /\ Reached' = Reached
  BY <1>1, <1>2 DEF Passed, Thrown, Kept, Reached
<1>4. IsGraph(workflow)
  BY WorkflowParts DEF ExecInv, Shape
<1>5. PassSound(workflow, Passed \cup {p}, outputs, skipped, forgotten, Thrown)
  BY <1>1, <1>2, <1>4, PassGoesOn
<1>6. PassGood'
  BY <1>1, <1>2, <1>3, <1>5 DEF PassGood
<1>7. TypeOK'
  BY <1>1, <1>2 DEF ExecInv, Shape, TypeOK
<1>8. Shape'
  BY <1>1, <1>7 DEF ExecInv, Shape
<1>9. SnapshotGood' /\ HistoryGood'
  BY <1>1, <1>3 DEF ExecInv, SnapshotGood, HistoryGood
<1> QED BY <1>6, <1>8, <1>9 DEF ExecInv

LEMMA FinishKeeps ==
  ASSUME ExecInv, Finish
  PROVE  ExecInv'
<1>1. /\ status = "running" /\ status' = "completed" /\ position > Len(order)
      /\ UNCHANGED <<executor, workflow, order, position, outputs, skipped, results, waiting,
                     threw, forgotten>>
  BY DEF Finish
<1>2. Passed' = Passed /\ Thrown' = Thrown /\ Kept' = Kept /\ Reached' = Reached
  BY <1>1 DEF Passed, Thrown, Kept, Reached
<1>3. TypeOK'
  BY <1>1 DEF ExecInv, Shape, TypeOK
<1>4. Shape'
  BY <1>1, <1>3 DEF ExecInv, Shape
<1>5. PassGood'
  BY <1>1, <1>2 DEF ExecInv, PassGood
<1>6. SnapshotGood' /\ HistoryGood'
  BY <1>1, <1>2 DEF ExecInv, SnapshotGood, HistoryGood
<1> QED BY <1>4, <1>5, <1>6 DEF ExecInv

\* Skipping, in the terms of the invariant.
LEMMA NothingSkipped ==
  ASSUME NEW g, IsGraph(g), NEW out, NEW b, NEW skip, g.kind[b] # "compute"
  PROVE  skip \cup Downstream(g, Lost(g, out, b)) = skip
<1>1. Downstream(g, Lost(g, out, b)) = {}
  BY WaitsLoseNothing
<1> QED BY <1>1

LEMMA SkippedByOutput ==
  ASSUME NEW g, NEW out, NEW b, NEW skip, g.kind[b] = "compute", out[b] # NoOutput
  PROVE  Skipping(g, b, Taken(g, b, out[b]), skip) = skip \cup Downstream(g, Lost(g, out, b))
BY DEF Skipping, Lost, Choice

LEMMA SkippedByError ==
  ASSUME NEW g, NEW out, NEW b, NEW skip, g.kind[b] = "compute", out[b] = NoOutput
  PROVE  Skipping(g, b, {"error"}, skip) = skip \cup Downstream(g, Lost(g, out, b))
BY DEF Skipping, Lost, Choice

LEMMA PlainIsOutput == Plain # NoOutput /\ Plain \in Outputs
BY ExecutionAssumption DEF Plain, NoOutput

LEMMA TriggerKeeps ==
  ASSUME ExecInv, NEW p, TakeTrigger(p)
  PROVE  ExecInv'
<1>1. /\ AtBlock(p) /\ ToVisit(p) /\ workflow.kind[p] = "trigger"
      /\ outputs' = [outputs EXCEPT ![p] = Plain] /\ position' = position + 1
      /\ UNCHANGED <<executor, workflow, status, order, skipped, results, waiting, threw, forgotten>>
  BY DEF TakeTrigger, Advance
<1>2. TypeOK /\ IsGraph(workflow) /\ p \in Blocks /\ Nodes(workflow) \subseteq Blocks
  BY <1>1, WorkflowParts, AtTurn DEF ExecInv, Shape
<1>3. Thrown' = Thrown /\ Kept' = Kept /\ Reached' = Reached
  BY <1>1 DEF Thrown, Kept, Reached
<1>4. outputs'[p] = Plain /\ \A b \in Blocks : b # p => outputs'[b] = outputs[b]
  BY <1>1, <1>2 DEF TypeOK
<1>5. VisitStep(p)
  <2>1. outputs' \in [Blocks -> Outputs \cup {NoOutput}]
    BY <1>1, <1>2, PlainIsOutput DEF TypeOK
  <2>2. skipped = skipped \cup Downstream(workflow, Lost(workflow, outputs', p))
    <3>1. workflow.kind[p] # "compute"
      BY <1>1
    <3> DEFINE new == outputs'
    <3> HIDE DEF new
    <3>2. skipped \cup Downstream(workflow, Lost(workflow, new, p)) = skipped
      BY <1>2, <3>1, NothingSkipped
    <3> QED BY <3>2 DEF new
  <2> QED BY <1>1, <1>3, <1>4, <2>1, <2>2, PlainIsOutput DEF VisitStep, ExecInv, Shape, TypeOK
<1>6. SnapshotGood'
  BY <1>1, <1>3 DEF ExecInv, SnapshotGood
<1>7. HistoryGood'
  <2>1. executor = "durable" => Replays(workflow, outputs', results)
    BY <1>1, <1>2, <1>4 DEF ExecInv, HistoryGood, Replays
  <2> QED BY <1>1, <1>3, <2>1 DEF ExecInv, HistoryGood
<1> QED BY <1>5, <1>6, <1>7, VisitKeeps DEF ExecInv

LEMMA ReplayKeeps ==
  ASSUME ExecInv, NEW p, ReplayTool(p) \/ ReplayWait(p)
  PROVE  ExecInv'
<1>1. /\ AtBlock(p) /\ ToVisit(p) /\ executor = "durable" /\ results[p] # NoOutput
      /\ outputs' = [outputs EXCEPT ![p] = results[p]] /\ position' = position + 1
      /\ UNCHANGED <<executor, workflow, status, order, results, waiting, threw, forgotten>>
  BY DEF ReplayTool, ReplayWait, Advance
<1>2. TypeOK /\ IsGraph(workflow) /\ p \in Blocks /\ Nodes(workflow) \subseteq Blocks
  BY <1>1, WorkflowParts, AtTurn DEF ExecInv, Shape
<1>3. Thrown' = Thrown /\ Kept' = Kept /\ Reached' = Reached
  BY <1>1 DEF Thrown, Kept, Reached
<1>4. outputs'[p] = results[p] /\ \A b \in Blocks : b # p => outputs'[b] = outputs[b]
  BY <1>1, <1>2 DEF TypeOK
<1>5. skipped' = skipped \cup Downstream(workflow, Lost(workflow, outputs', p))
  <2>1. CASE ReplayTool(p)
    <3>1. /\ workflow.kind[p] = "compute"
          /\ skipped' = Skipping(workflow, p, Taken(workflow, p, outputs'[p]), skipped)
      BY <1>4, <2>1 DEF ReplayTool
    <3>2. outputs'[p] # NoOutput
      BY <1>1, <1>4
    <3> DEFINE new == outputs'
    <3> HIDE DEF new
    <3>3. new[p] # NoOutput /\ skipped' = Skipping(workflow, p, Taken(workflow, p, new[p]), skipped)
      BY <3>1, <3>2 DEF new
    <3>4. skipped' = skipped \cup Downstream(workflow, Lost(workflow, new, p))
      BY <3>1, <3>3, SkippedByOutput
    <3> QED BY <3>4 DEF new
  <2>2. CASE ReplayWait(p)
    <3>1. workflow.kind[p] # "compute" /\ skipped' = skipped
      BY <2>2 DEF ReplayWait
    <3> DEFINE new == outputs'
    <3> HIDE DEF new
    <3>2. skipped \cup Downstream(workflow, Lost(workflow, new, p)) = skipped
      BY <1>2, <3>1, NothingSkipped
    <3> QED BY <3>1, <3>2 DEF new
  <2> QED BY <2>1, <2>2
<1>6. VisitStep(p)
  <2>1. outputs' \in [Blocks -> Outputs \cup {NoOutput}]
    BY <1>1, <1>2 DEF TypeOK
  <2> QED BY <1>1, <1>3, <1>4, <1>5, <2>1 DEF VisitStep, ExecInv, Shape, TypeOK
<1>7. SnapshotGood'
  BY <1>1 DEF SnapshotGood
<1>8. HistoryGood'
  <2>1. Replays(workflow, outputs', results)
    BY <1>1, <1>2, <1>4 DEF ExecInv, HistoryGood, Replays
  <2> QED BY <1>1, <1>3, <2>1 DEF ExecInv, HistoryGood
<1> QED BY <1>6, <1>7, <1>8, VisitKeeps DEF ExecInv

\* A pass of a durable run gets at p: the history tells why it will again.
LEMMA ReachedMore ==
  ASSUME ExecInv, executor = "durable", NEW p, AtBlock(p), ToVisit(p)
  PROVE  HistorySound(workflow, results, Reached \cup {p})
<1>1. /\ Passed \in SUBSET Nodes(workflow)
      /\ \A a : p \in Below(workflow, a) => a \in Passed
      /\ PassSound(workflow, Passed, outputs, skipped, forgotten, Thrown)
  BY AtTurn
<1>2. TypeOK /\ IsGraph(workflow) /\ p \notin skipped
  BY WorkflowParts DEF ExecInv, Shape, ToVisit
<1>3. forgotten = {} /\ Thrown = {}
  BY <1>2 DEF TypeOK, Thrown
<1>4. /\ HistorySound(workflow, results, Reached) /\ Replays(workflow, outputs, results)
      /\ \A b \in Nodes(workflow) : results[b] # NoOutput => workflow.kind[b] # "trigger"
  BY DEF ExecInv, HistoryGood
<1>5. PassSound(workflow, Passed, outputs, skipped, {}, {})
  BY <1>1, <1>3
<1> DEFINE done == Passed
           reached == Reached
<1> HIDE DEF done, reached
<1>6. /\ PassSound(workflow, done, outputs, skipped, {}, {}) /\ done \in SUBSET Nodes(workflow)
      /\ HistorySound(workflow, results, reached)
      /\ \A a : p \in Below(workflow, a) => a \in done
  BY <1>1, <1>4, <1>5 DEF done, reached
<1>7. HistorySound(workflow, results, reached \cup {p})
  BY <1>2, <1>4, <1>6, HistoryReaches
<1> QED BY <1>7 DEF reached

LEMMA CallKeeps ==
  ASSUME ExecInv, NEW p, NEW out \in Outputs, CallTool(p, out)
  PROVE  ExecInv'
<1>1. /\ AtBlock(p) /\ ToVisit(p) /\ workflow.kind[p] = "compute"
      /\ executor = "durable" => results[p] = NoOutput
      /\ outputs' = [outputs EXCEPT ![p] = out] /\ position' = position + 1
      /\ results' = IF executor = "durable" THEN [results EXCEPT ![p] = out] ELSE results
      /\ skipped' = Skipping(workflow, p, Taken(workflow, p, out), skipped)
      /\ UNCHANGED <<executor, workflow, status, order, waiting, threw, forgotten>>
  BY DEF CallTool, Advance
<1>2. /\ TypeOK /\ IsGraph(workflow) /\ ~HasCycle(workflow) /\ p \in Blocks
      /\ Nodes(workflow) \subseteq Blocks /\ out # NoOutput
  BY <1>1, WorkflowParts, AtTurn, ExecutionAssumption DEF ExecInv, Shape
<1>3. Thrown' = Thrown
  BY <1>1 DEF Thrown
<1>4. outputs'[p] = out /\ \A b \in Blocks : b # p => outputs'[b] = outputs[b]
  BY <1>1, <1>2 DEF TypeOK
<1>5. /\ results' \in [Blocks -> Outputs \cup {NoOutput}]
      /\ executor = "durable" => results'[p] = out
      /\ \A b \in Blocks : b # p => results'[b] = results[b]
  BY <1>1, <1>2 DEF TypeOK
<1>6. VisitStep(p)
  <2>1. outputs' \in [Blocks -> Outputs \cup {NoOutput}]
    BY <1>1, <1>2 DEF TypeOK
  <2>2. skipped' = skipped \cup Downstream(workflow, Lost(workflow, outputs', p))
    <3>1. skipped' = Skipping(workflow, p, Taken(workflow, p, outputs'[p]), skipped)
      BY <1>1, <1>4
    <3>2. outputs'[p] # NoOutput
      BY <1>2, <1>4
    <3> DEFINE new == outputs'
    <3> HIDE DEF new
    <3>3. new[p] # NoOutput /\ skipped' = Skipping(workflow, p, Taken(workflow, p, new[p]), skipped)
      BY <3>1, <3>2 DEF new
    <3>4. skipped' = skipped \cup Downstream(workflow, Lost(workflow, new, p))
      BY <1>1, <3>3, SkippedByOutput
    <3> QED BY <3>4 DEF new
  <2> QED BY <1>1, <1>2, <1>3, <1>4, <1>5, <2>1, <2>2 DEF VisitStep, ExecInv, Shape
<1>7. CASE executor # "durable"
  <2>1. results' = results /\ Kept' = Kept
    BY <1>1, <1>7 DEF Kept
  <2> QED BY <1>1, <1>6, <1>7, <2>1, VisitKeeps DEF ExecInv, SnapshotGood, HistoryGood
<1>8. CASE executor = "durable"
  <2>1. HistorySound(workflow, results, Reached \cup {p})
    BY <1>1, <1>8, ReachedMore
  <2>2. HistorySound(workflow, results', Reached \cup {p})
    <3> DEFINE new == results'
               reached == Reached
    <3> HIDE DEF new, reached
    <3>1. results[p] = NoOutput /\ \A b \in Nodes(workflow) : b # p => new[b] = results[b]
      BY <1>1, <1>2, <1>5, <1>8 DEF new
    <3>2. HistorySound(workflow, new, reached \cup {p})
      BY <1>1, <1>2, <2>1, <3>1, HistoryRecords DEF reached
    <3> QED BY <3>2 DEF new, reached
  <2>3. Reached' = Reached \cup {p}
    <3>1. {b \in Blocks : results'[b] # NoOutput} = {b \in Blocks : results[b] # NoOutput} \cup {p}
      BY <1>2, <1>5, <1>8
    <3> QED BY <1>1, <3>1 DEF Reached, Kept
  <2>4. Replays(workflow, outputs', results')
    BY <1>1, <1>2, <1>4, <1>5, <1>8 DEF ExecInv, HistoryGood, Replays
  <2>5. \A b \in Nodes(workflow) : results'[b] # NoOutput => workflow.kind[b] # "trigger"
    BY <1>1, <1>2, <1>5, <1>8 DEF ExecInv, HistoryGood
  <2>6. HistoryGood' /\ SnapshotGood'
    BY <1>1, <1>8, <2>2, <2>3, <2>4, <2>5 DEF HistoryGood, SnapshotGood
  <2> QED BY <1>6, <2>6, VisitKeeps DEF ExecInv
<1> QED BY <1>7, <1>8

LEMMA ThrowKeeps ==
  ASSUME ExecInv, NEW p, ToolThrows(p)
  PROVE  ExecInv'
<1>1. /\ AtBlock(p) /\ ToVisit(p) /\ workflow.kind[p] = "compute" /\ executor = "memory"
      /\ threw' = Append(threw, p) /\ skipped' = Skipping(workflow, p, {"error"}, skipped)
      /\ UNCHANGED <<executor, workflow, order, outputs, results, waiting, forgotten>>
      /\ \/ position' = position + 1 /\ status' = status
         \/ status' = "failed" /\ position' = position
  BY DEF ToolThrows, Advance
<1>2. /\ TypeOK /\ IsGraph(workflow) /\ p \in Blocks /\ p \in Nodes(workflow)
      /\ Nodes(workflow) \subseteq Blocks /\ outputs[p] = NoOutput
      /\ status = "running" /\ waiting = NoBlock /\ threw \in Seq(Nodes(workflow))
  BY <1>1, WorkflowParts, AtTurn DEF ExecInv, Shape, ToVisit
<1>3. threw' \in Seq(Nodes(workflow)) /\ ToSet(threw') = ToSet(threw) \cup {p}
  BY <1>1, <1>2, AppendElements
<1>4. Thrown' = Thrown \cup {p} /\ Kept' = Kept
  BY <1>1, <1>3 DEF Thrown, Kept
<1>5. skipped' = skipped \cup Downstream(workflow, Lost(workflow, outputs, p))
  BY <1>1, <1>2, SkippedByError
<1>6. SnapshotGood' /\ HistoryGood'
  BY <1>1, <1>2, <1>4 DEF ExecInv, SnapshotGood, HistoryGood
<1>7. CASE position' = position + 1 /\ status' = status
  <2>1. VisitStep(p)
    BY <1>1, <1>2, <1>3, <1>4, <1>5, <1>7 DEF VisitStep, TypeOK
  <2> QED BY <1>6, <2>1, VisitKeeps DEF ExecInv
<1>8. CASE status' = "failed" /\ position' = position
  <2>1. skipped' \subseteq Nodes(workflow)
    BY <1>2, <1>5, LostIsBelow, BelowBounds DEF TypeOK
  <2>2. TypeOK'
    BY <1>1, <1>2, <1>8, <2>1 DEF TypeOK
  <2>3. Shape'
    BY <1>1, <1>2, <1>3, <2>2 DEF ExecInv, Shape
  <2>4. PassGood'
    BY <1>8 DEF PassGood
  <2> QED BY <1>6, <2>3, <2>4 DEF ExecInv
<1> QED BY <1>1, <1>7, <1>8

\* A pass of a durable run leaves nothing behind but the history.
LEMMA DurablePassEnds ==
  ASSUME ExecInv, executor = "durable", EndPass,
         UNCHANGED <<executor, workflow, results, forgotten>>,
         status' \in {"due", "parked", "failed"},
         waiting' \in Nodes(workflow) \cup {NoBlock}, waiting' # NoBlock <=> status' = "parked",
         waiting' # NoBlock => workflow.kind[waiting'] = "wait" /\ results[waiting'] = NoOutput,
         threw' \in Seq(Nodes(workflow)), HistorySound(workflow, results, Reached')
  PROVE  ExecInv'
<1>1. order' = <<>> /\ position' = 1 /\ outputs' = Nothing /\ skipped' = {}
  BY DEF EndPass
<1>2. TypeOK /\ Nodes(workflow) \subseteq Blocks
  BY WorkflowParts DEF ExecInv, Shape
<1>3. outputs' \in [Blocks -> Outputs \cup {NoOutput}] /\ \A b \in Blocks : outputs'[b] = NoOutput
  BY <1>1 DEF Nothing
<1>4. TypeOK'
  BY <1>1, <1>2, <1>3 DEF TypeOK
<1>5. Shape'
  BY <1>1, <1>3, <1>4 DEF ExecInv, Shape
<1>6. HistoryGood'
  BY <1>2, <1>3 DEF ExecInv, HistoryGood, Replays
<1> QED BY <1>5, <1>6 DEF ExecInv, PassGood, SnapshotGood

LEMMA PassThrowsKeeps ==
  ASSUME ExecInv, NEW p, StepThrows(p) \/ CannotRun(p), executor = "durable"
  PROVE  ExecInv'
<1>1. /\ AtBlock(p) /\ ToVisit(p) /\ executor = "durable" /\ threw' = Append(threw, p)
      /\ status' \in {"due", "failed"} /\ EndPass
      /\ UNCHANGED <<executor, workflow, results, waiting, forgotten>>
  BY DEF StepThrows, CannotRun
<1>2. p \in Nodes(workflow) /\ waiting = NoBlock /\ threw \in Seq(Nodes(workflow))
  BY <1>1, AtTurn DEF ExecInv, Shape
<1>3. threw' \in Seq(Nodes(workflow)) /\ ToSet(threw') = ToSet(threw) \cup {p}
  BY <1>1, <1>2, AppendElements
<1>4. Reached' = Reached \cup {p}
  BY <1>1, <1>3 DEF Reached, Kept
<1>5. HistorySound(workflow, results, Reached')
  BY <1>1, <1>4, ReachedMore
<1> QED BY <1>1, <1>2, <1>3, <1>5, DurablePassEnds

LEMMA CannotRunKeeps ==
  ASSUME ExecInv, NEW p, CannotRun(p), executor # "durable"
  PROVE  ExecInv'
<1>1. /\ AtBlock(p) /\ status = "running" /\ status' = "failed"
      /\ UNCHANGED <<executor, workflow, order, position, outputs, skipped, results, waiting,
                     threw, forgotten>>
  BY DEF CannotRun, AtBlock
<1>2. waiting = NoBlock /\ TypeOK
  BY <1>1, AtTurn DEF ExecInv, Shape
<1>3. TypeOK'
  BY <1>1, <1>2 DEF TypeOK
<1>4. Shape'
  BY <1>1, <1>3 DEF ExecInv, Shape
<1>5. Kept' = Kept /\ Thrown' = Thrown /\ Reached' = Reached
  BY <1>1 DEF Kept, Thrown, Reached
<1>6. SnapshotGood' /\ HistoryGood'
  BY <1>1, <1>5 DEF ExecInv, SnapshotGood, HistoryGood
<1>7. PassGood'
  BY <1>1 DEF PassGood
<1> QED BY <1>4, <1>6, <1>7 DEF ExecInv

LEMMA ParkKeeps ==
  ASSUME ExecInv, NEW p, Park(p)
  PROVE  ExecInv'
<1>1. /\ AtBlock(p) /\ ToVisit(p) /\ executor = "durable" /\ workflow.kind[p] = "wait"
      /\ results[p] = NoOutput /\ waiting' = p /\ status' = "parked" /\ EndPass
      /\ UNCHANGED <<executor, workflow, results, forgotten, threw>>
  BY DEF Park
<1>2. p \in Nodes(workflow) /\ waiting = NoBlock /\ threw \in Seq(Nodes(workflow))
  BY <1>1, AtTurn DEF ExecInv, Shape
<1>3. p # NoBlock
  BY <1>2, WorkflowParts DEF ExecInv, Shape
<1>4. Reached' = Reached \cup {p}
  BY <1>1, <1>2, <1>3 DEF Reached, Kept
<1>5. HistorySound(workflow, results, Reached')
  BY <1>1, <1>4, ReachedMore
<1> QED BY <1>1, <1>2, <1>3, <1>5, DurablePassEnds

LEMMA CrashKeeps ==
  ASSUME ExecInv, Crash
  PROVE  ExecInv'
<1>1. /\ executor = "durable" /\ status = "running" /\ status' = "due" /\ EndPass
      /\ UNCHANGED <<executor, workflow, results, waiting, threw, forgotten>>
  BY DEF Crash
<1>2. waiting = NoBlock /\ threw \in Seq(Nodes(workflow))
  BY <1>1 DEF ExecInv, Shape, TypeOK
<1>3. Reached' = Reached
  BY <1>1 DEF Reached, Kept
<1>4. HistorySound(workflow, results, Reached')
  BY <1>1, <1>3 DEF ExecInv, HistoryGood
<1> QED BY <1>1, <1>2, <1>4, DurablePassEnds

LEMMA PauseKeeps ==
  ASSUME ExecInv, NEW p, Pause(p)
  PROVE  ExecInv'
<1> DEFINE new == forgotten \cup skipped \cup Downstream(workflow, ToSet(threw))
<1>1. /\ AtBlock(p) /\ ToVisit(p) /\ executor = "memory" /\ workflow.kind[p] = "wait"
      /\ results' = outputs /\ waiting' = p /\ status' = "parked" /\ forgotten' = new
      /\ order' = <<>> /\ position' = 1 /\ outputs' = Nothing /\ skipped' = {}
      /\ UNCHANGED <<executor, workflow, threw>>
  BY DEF Pause, EndPass
<1>2. /\ p \in Nodes(workflow) /\ p \notin skipped /\ p \in Blocks
      /\ \A a : p \in Below(workflow, a) => a \in Passed
      /\ PassSound(workflow, Passed, outputs, skipped, forgotten, Thrown)
  BY <1>1, AtTurn DEF ToVisit
<1>3. /\ TypeOK /\ IsGraph(workflow) /\ Nodes(workflow) \subseteq Blocks /\ NoBlock \notin Blocks
      /\ Closed(workflow, forgotten)
  BY WorkflowParts DEF ExecInv, Shape
<1>4. /\ Thrown = ToSet(threw)
      /\ \A e \in Kept' : e \in Nodes(workflow) /\ (outputs[e] # NoOutput \/ e = p)
  BY <1>1, <1>2 DEF Thrown, Kept, ExecInv, Shape
<1>5. Closed(workflow, new) /\ \A a \in ToSet(threw) : Below(workflow, a) \subseteq new
  <2> DEFINE thrown == ToSet(threw)
             below == Downstream(workflow, thrown)
             past == forgotten \cup skipped
  <2> HIDE DEF thrown
  <2>1. Closed(workflow, skipped)
    BY <1>2 DEF PassSound
  <2>2. Closed(workflow, past)
    BY <1>3, <2>1, ClosedUnion
  <2>3. Closed(workflow, below) /\ thrown \subseteq below
    BY <1>3, DownstreamClosed, DownstreamBounds
  <2>4. new = past \cup below
    BY DEF thrown
  <2> HIDE DEF below, past, new
  <2>5. Closed(workflow, past \cup below)
    BY <2>2, <2>3, ClosedUnion
  <2>6. ASSUME NEW a \in thrown PROVE Below(workflow, a) \subseteq new
    <3>1. a \in new
      BY <2>3, <2>4
    <3>2. Closed(workflow, new)
      BY <2>4, <2>5
    <3> QED BY <1>3, <3>1, <3>2, ClosedBelow
  <2> QED BY <2>4, <2>5, <2>6 DEF thrown
<1>6. SnapSound(workflow, outputs, Kept', new)
  <2> DEFINE done == Passed
             thrown == Thrown
             kept == {e \in Nodes(workflow) : outputs[e] # NoOutput \/ e = p}
  <2>1. /\ PassSound(workflow, done, outputs, skipped, forgotten, thrown)
        /\ \A a : p \in Below(workflow, a) => a \in done
    BY <1>2
  <2>2. forgotten \subseteq new /\ skipped \subseteq new
    OBVIOUS
  <2>3. \A a \in thrown : Below(workflow, a) \subseteq new
    BY <1>4, <1>5
  <2> HIDE DEF done, thrown, new
  <2>4. SnapSound(workflow, outputs, kept, new)
    BY <1>2, <1>3, <2>1, <2>2, <2>3, SnapshotTaken
  <2>5. Kept' \subseteq kept
    BY <1>4
  <2> QED BY <2>4, <2>5 DEF SnapSound
<1> HIDE DEF new
<1>7. outputs' \in [Blocks -> Outputs \cup {NoOutput}] /\ \A b \in Blocks : outputs'[b] = NoOutput
  BY <1>1 DEF Nothing
<1>8. TypeOK'
  BY <1>1, <1>2, <1>3, <1>7 DEF TypeOK
<1>9. Shape'
  BY <1>1, <1>5, <1>7, <1>8 DEF ExecInv, Shape
<1>10. SnapshotGood'
  BY <1>1, <1>5, <1>6 DEF SnapshotGood
<1> QED BY <1>1, <1>9, <1>10 DEF ExecInv, PassGood, HistoryGood

LEMMA EndWaitKeeps ==
  ASSUME ExecInv, EndWait
  PROVE  ExecInv'
<1>1. /\ status = "parked" /\ status' = "due" /\ waiting' = NoBlock
      /\ results' = [results EXCEPT ![waiting] = Plain]
      /\ UNCHANGED <<executor, workflow, order, position, outputs, skipped, threw, forgotten>>
  BY DEF EndWait
<1>2. /\ TypeOK /\ IsGraph(workflow) /\ ~HasCycle(workflow)
      /\ Nodes(workflow) \subseteq Blocks /\ NoBlock \notin Blocks
  BY WorkflowParts DEF ExecInv, Shape
<1>3. /\ waiting \in Nodes(workflow) /\ waiting \in Blocks /\ workflow.kind[waiting] = "wait"
      /\ executor = "durable" => results[waiting] = NoOutput
  BY <1>1, <1>2 DEF TypeOK, ExecInv, Shape
<1>4. /\ results' \in [Blocks -> Outputs \cup {NoOutput}] /\ results'[waiting] = Plain
      /\ \A b \in Blocks : b # waiting => results'[b] = results[b]
  BY <1>1, <1>2, <1>3, PlainIsOutput DEF TypeOK
<1>5. Kept' = Kept
  <2>1. {b \in Blocks : results'[b] # NoOutput} =
          {b \in Blocks : results[b] # NoOutput} \cup {waiting}
    BY <1>3, <1>4, PlainIsOutput
  <2>2. waiting # NoBlock
    BY <1>2, <1>3
  <2> QED BY <1>1, <2>1, <2>2 DEF Kept
<1>6. Reached' = Reached
  BY <1>1, <1>5 DEF Reached
<1>7. TypeOK'
  BY <1>1, <1>2, <1>4 DEF TypeOK
<1>8. Shape'
  BY <1>1, <1>3, <1>4, <1>7 DEF ExecInv, Shape
<1> DEFINE new == results'
           w == waiting
<1>9. /\ \A b \in Nodes(workflow) : b # w => new[b] = results[b]
      /\ new[w] # NoOutput /\ workflow.kind[w] # "compute" /\ workflow.kind[w] # "trigger"
  BY <1>2, <1>3, <1>4, PlainIsOutput
<1>10. SnapshotGood'
  <2> SUFFICES ASSUME executor = "memory" PROVE SnapshotGood'
    BY <1>1 DEF SnapshotGood
  <2> DEFINE kept == Kept
  <2>1. SnapSound(workflow, results, kept, forgotten)
    BY DEF ExecInv, SnapshotGood
  <2> HIDE DEF new, w, kept
  <2>2. SnapSound(workflow, new, kept, forgotten)
    BY <1>2, <1>9, <2>1, SnapshotResumed
  <2> USE DEF new, kept
  <2> QED BY <1>1, <1>5, <2>2 DEF ExecInv, SnapshotGood
<1>11. HistoryGood'
  <2> SUFFICES ASSUME executor = "durable" PROVE HistoryGood'
    BY <1>1 DEF HistoryGood
  <2> DEFINE reached == Reached
  <2>1. HistorySound(workflow, results, reached) /\ results[w] = NoOutput
    BY <1>3 DEF ExecInv, HistoryGood
  <2> HIDE DEF new, w, reached
  <2>2. HistorySound(workflow, new, reached)
    BY <1>2, <1>9, <2>1, HistoryRecords
  <2> USE DEF new, w, reached
  <2>3. \A b \in Nodes(workflow) : outputs[b] = NoOutput
    BY <1>1, <1>2 DEF ExecInv, Shape
  <2>4. Replays(workflow, outputs, new)
    BY <2>3 DEF Replays
  <2> QED BY <1>1, <1>6, <1>9, <2>2, <2>4 DEF ExecInv, HistoryGood
<1> QED BY <1>1, <1>8, <1>10, <1>11 DEF ExecInv, PassGood

LEMMA EditKeepsRun ==
  ASSUME ExecInv, UNCHANGED <<executor, workflow, status, order, position, outputs, skipped,
                              results, waiting, threw, forgotten>>
  PROVE  ExecInv'
<1>1. Passed' = Passed /\ Thrown' = Thrown /\ Kept' = Kept /\ Reached' = Reached
  BY DEF Passed, Thrown, Kept, Reached
<1>2. TypeOK'
  BY DEF ExecInv, Shape, TypeOK
<1> QED BY <1>1, <1>2 DEF ExecInv, Shape, PassGood, SnapshotGood, HistoryGood

LEMMA ExecNext == ExecInv /\ [Next]_vars => ExecInv'
<1> SUFFICES ASSUME ExecInv, [Next]_vars PROVE ExecInv'
  OBVIOUS
<1>1. CASE Begin \/ Finish
  BY <1>1, BeginKeeps, FinishKeeps
<1>2. ASSUME NEW b \in Blocks, Visit(b) PROVE ExecInv'
  <2>1. CASE PassOver(b)
    BY <2>1, PassOverKeeps
  <2>2. CASE TakeTrigger(b)
    BY <2>2, TriggerKeeps
  <2>3. CASE ReplayTool(b) \/ ReplayWait(b)
    BY <2>3, ReplayKeeps
  <2>4. CASE \E out \in Outputs : CallTool(b, out)
    BY <2>4, CallKeeps
  <2>5. CASE Park(b)
    BY <2>5, ParkKeeps
  <2>6. CASE Pause(b)
    BY <2>6, PauseKeeps
  <2> QED BY <1>2, <2>1, <2>2, <2>3, <2>4, <2>5, <2>6 DEF Visit
<1>3. ASSUME NEW b \in Blocks, StepThrows(b) PROVE ExecInv'
  BY <1>3, PassThrowsKeeps DEF StepThrows
<1>4. ASSUME NEW b \in Blocks, ToolThrows(b) PROVE ExecInv'
  BY <1>4, ThrowKeeps
<1>5. CASE EndWait
  BY <1>5, EndWaitKeeps
<1>6. CASE Crash
  BY <1>6, CrashKeeps
<1>7. CASE EditStored
  <2>1. UNCHANGED <<executor, workflow, status, order, position, outputs, skipped,
                    results, waiting, threw, forgotten>>
    BY <1>7 DEF EditStored
  <2> QED BY <2>1, EditKeepsRun
<1>8. CASE UNCHANGED vars
  <2>1. UNCHANGED <<executor, workflow, status, order, position, outputs, skipped,
                    results, waiting, threw, forgotten>>
    BY <1>8 DEF vars
  <2> QED BY <2>1, EditKeepsRun
<1>9. ASSUME NEW b \in Blocks, CannotRun(b) PROVE ExecInv'
  BY <1>9, PassThrowsKeeps, CannotRunKeeps
<1> QED BY <1>1, <1>2, <1>3, <1>4, <1>5, <1>6, <1>7, <1>8, <1>9 DEF Next

LEMMA ExecInvariance == Spec => []ExecInv
BY ExecInit, ExecNext, PTL DEF Spec

-----------------------------------------------------------------------------
(* Graph execution: the theorems *)

\* The types of the executors' state.  A durable walk never skips a block that
\* has an output; in memory that happens to blocks of an earlier pass.
THEOREM ExecutionTypeCorrect == Spec => []TypeOK
<1>1. ExecInv => TypeOK
  BY DEF ExecInv, Shape
<1> QED BY <1>1, ExecInvariance, PTL

\* A pass meets every block of the DAG once, after its sources, whatever the
\* graph (topoSort).
THEOREM OrdersFollowEdges == Spec => []OrderFollowsEdges
<1>1. ExecInv => OrderFollowsEdges
  <2> SUFFICES ASSUME ExecInv, status = "running"
               PROVE  /\ ToSet(order) = Nodes(workflow)
                      /\ \A i, j \in DOMAIN order :
                           /\ i # j => order[i] # order[j]
                           /\ order[i] \in Sources(workflow, order[j]) => i < j
    BY DEF OrderFollowsEdges
  <2>1. InOrder(workflow, order)
    BY DEF ExecInv, PassGood
  <2>2. order \in Seq(Nodes(workflow)) /\ DOMAIN order = 1 .. Len(order) /\ Len(order) \in Nat
    BY <2>1 DEF InOrder
  <2>3. ASSUME NEW i \in DOMAIN order, NEW j \in DOMAIN order,
               order[i] \in Sources(workflow, order[j])
        PROVE  i < j
    <3>1. PICK k \in 1 .. j - 1 : order[k] = order[i]
      BY <2>1, <2>3 DEF InOrder
    <3>2. k \in DOMAIN order /\ k < j
      BY <2>2
    <3>3. k = i
      BY <2>1, <3>1, <3>2 DEF InOrder, Distinct
    <3> QED BY <3>2, <3>3
  <2>4. \A i, j \in DOMAIN order : i # j => order[i] # order[j]
    BY <2>1 DEF InOrder, Distinct
  <2> QED BY <2>1, <2>3, <2>4 DEF InOrder
<1> QED BY <1>1, ExecInvariance, PTL

\* Whatever upstream block the parameters of a block refer to has an output when
\* its turn comes, through replays, crashes, snapshots and edits (BlockResolver).
THEOREM ReferencesAlwaysResolve == Spec => []ReferencesResolve
<1>1. ExecInv => ReferencesResolve
  <2> SUFFICES ASSUME ExecInv, NEW b \in Nodes(workflow), AtBlock(b), ToVisit(b), threw = <<>>,
                      NEW a \in Upstream(workflow, b)
               PROVE  outputs[a] # NoOutput
    BY DEF ReferencesResolve
  <2>1. IsGraph(workflow)
    BY WorkflowParts DEF ExecInv, Shape
  <2>2. b \in Below(workflow, a) /\ b \notin skipped
    BY <2>1, UpstreamIsAbove DEF ToVisit
  <2>3. a \in Passed /\ PassSound(workflow, Passed, outputs, skipped, forgotten, Thrown)
    BY <2>2, AtTurn
  <2>4. Thrown = {}
    BY EmptyElements DEF Thrown
  <2> DEFINE done == Passed
  <2> HIDE DEF done
  <2>5. a \in done /\ PassSound(workflow, done, outputs, skipped, forgotten, Thrown)
    BY <2>3 DEF done
  <2> QED BY <2>1, <2>2, <2>4, <2>5, AboveDecided
<1> QED BY <1>1, ExecInvariance, PTL

\* When a run has completed, all blocks are behind it.
LEMMA Completed ==
  ASSUME ExecInv, status = "completed"
  PROVE  PassSound(workflow, Nodes(workflow), outputs, skipped, forgotten, Thrown)
<1>1. /\ InOrder(workflow, order) /\ position > Len(order)
      /\ PassSound(workflow, Passed, outputs, skipped, forgotten, Thrown)
  BY DEF ExecInv, PassGood
<1>2. order \in Seq(Nodes(workflow)) /\ position \in 1 .. Len(order) + 1 /\ Len(order) \in Nat
  BY DEF ExecInv, Shape, TypeOK
<1>3. 1 .. position - 1 = DOMAIN order
  BY <1>1, <1>2
<1>4. Passed = Nodes(workflow)
  BY <1>1, <1>3 DEF Passed, InOrder, ToSet
<1> QED BY <1>1, <1>4

LEMMA CompletedDurable ==
  ASSUME ExecInv, status = "completed", executor = "durable", NEW e \in Reached
  PROVE  e \in Nodes(workflow) /\ outputs[e] # NoOutput
<1>1. TypeOK /\ IsGraph(workflow) /\ Nodes(workflow) \subseteq Blocks
  BY WorkflowParts DEF ExecInv, Shape
<1>2. forgotten = {} /\ Thrown = {} /\ waiting = NoBlock
  BY <1>1 DEF TypeOK, Thrown
<1>3. e \in Nodes(workflow)
  BY <1>2 DEF Reached, Kept, ExecInv, Shape, ToSet
<1> DEFINE done == Nodes(workflow)
           reached == Reached
<1>4. PassSound(workflow, done, outputs, skipped, {}, {})
  BY <1>2, Completed
<1>5. /\ HistorySound(workflow, results, reached) /\ Replays(workflow, outputs, results)
      /\ done \in SUBSET Nodes(workflow) /\ e \in reached
  BY DEF ExecInv, HistoryGood
<1>6. e \notin skipped
  <2> HIDE DEF done, reached
  <2> QED BY <1>1, <1>4, <1>5, HistoryStays
<1> QED BY <1>3, <1>4, <1>6 DEF PassSound

\* A durable run that completes ends with the results its passes recorded: no
\* later pass skips a block that an earlier one has executed.
THEOREM ReplaysFollowHistory == Spec => []ReplayFollowsHistory
<1>1. ExecInv => ReplayFollowsHistory
  <2> SUFFICES ASSUME ExecInv, executor = "durable", status = "completed",
                      NEW b \in Blocks, results[b] # NoOutput
               PROVE  outputs[b] = results[b]
    BY DEF ReplayFollowsHistory
  <2>1. b \in Reached
    BY DEF Reached, Kept
  <2>2. b \in Nodes(workflow) /\ outputs[b] # NoOutput
    BY <2>1, CompletedDurable
  <2> QED BY <2>2 DEF ExecInv, HistoryGood, Replays
<1> QED BY <1>1, ExecInvariance, PTL

\* On either executor a run that completes has executed the blocks that its
\* outputs select, whatever the graph and however often the process died, the run
\* waited or a tool threw; in memory also blocks that a snapshot has forgotten.
THEOREM RunsSelectedBlocks == Spec => []RunsTheSelectedBlocks
<1>1. ExecInv => RunsTheSelectedBlocks
  <2> SUFFICES ASSUME ExecInv, status = "completed"
               PROVE  /\ Selected \ ToSet(threw) \subseteq Executed
                      /\ Executed \ Selected \subseteq forgotten
    BY DEF RunsTheSelectedBlocks
  <2>1. /\ TypeOK /\ IsGraph(workflow) /\ Closed(workflow, forgotten)
        /\ threw \in Seq(Nodes(workflow))
    BY WorkflowParts DEF ExecInv, Shape
  <2> DEFINE T == ToSet(threw)
  <2>2. T \in SUBSET Nodes(workflow) /\ Thrown \subseteq T
    BY <2>1 DEF ToSet, Thrown
  <2>3. \A b \in T : outputs[b] # NoOutput \/ b \in Thrown
    <3>1. CASE executor = "memory"
      BY <3>1 DEF Thrown
    <3>2. CASE executor = "durable"
      BY <3>2, CompletedDurable DEF Reached
    <3> QED BY <2>1, <3>1, <3>2 DEF TypeOK
  <2>4. PassSound(workflow, Nodes(workflow), outputs, skipped, forgotten, Thrown)
    BY Completed
  <2>5. \A b : NotTaken(workflow, b, Chosen(b)) = Lost(workflow, outputs, b)
    BY DEF Lost, Choice, Chosen
  <2>6. Executed = {b \in Nodes(workflow) : outputs[b] # NoOutput}
    BY DEF Executed
  <2>7. Selected = SelectedOf(workflow, outputs, T)
    BY <2>5, <2>6 DEF Selected, SelectedOf
  <2> DEFINE thrown == Thrown
  <2> HIDE DEF T, thrown
  <2>8. /\ T \in SUBSET Nodes(workflow) /\ thrown \subseteq T
        /\ \A b \in T : outputs[b] # NoOutput \/ b \in thrown
        /\ PassSound(workflow, Nodes(workflow), outputs, skipped, forgotten, thrown)
    BY <2>2, <2>3, <2>4 DEF thrown
  <2>9. /\ SelectedOf(workflow, outputs, T) \ T \subseteq {b \in Nodes(workflow) : outputs[b] # NoOutput}
        /\ {b \in Nodes(workflow) : outputs[b] # NoOutput} \ SelectedOf(workflow, outputs, T)
             \subseteq forgotten
    BY <2>1, <2>8, PassEnds
  <2> QED BY <2>6, <2>7, <2>9 DEF T
<1> QED BY <1>1, ExecInvariance, PTL

===============================================================================
