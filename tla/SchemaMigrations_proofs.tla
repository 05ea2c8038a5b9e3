------------------------ MODULE SchemaMigrations_proofs ------------------------
(***************************************************************************)
(* Proofs about SchemaMigrations for any number of processes and crashes:  *)
(* the recorded versions have no gap and tell what exists, and a connected *)
(* backend finds the whole schema.                                         *)
(*                                                                         *)
(* The argument: the migrations before the one a process is at have been   *)
(* recorded, by itself or by others (Behind), and what a transaction does  *)
(* not create was committed when it began and is never taken back.         *)
(***************************************************************************)
EXTENDS SchemaMigrations, WellFoundedInduction, TLAPS

-----------------------------------------------------------------------------
(* Versions *)

\* A non-empty set of versions has a greatest one, which Max chooses.
LEMMA MaxVersion ==
  ASSUME NEW T \in SUBSET (0 .. LastVersion), T # {}
  PROVE  Max(T) \in T /\ \A v \in T : v <= Max(T)
<1> DEFINE less == {ss \in Nat \X Nat : ss[1] < ss[2]}
           distances == {d \in Nat : \E v \in T : d = LastVersion - v}
<1>1. IsWellFoundedOn(less, Nat)
  BY NatLessThanWellFounded DEF OpToRel
<1>2. \A v \in T : v \in Nat /\ LastVersion - v \in Nat
  BY DEF LastVersion
<1>3. \A v \in T : LastVersion - v \in distances
  BY <1>2
<1>4. distances \subseteq Nat /\ distances # {}
  BY <1>3
<1> HIDE DEF less
<1>5. PICK d \in distances : \A e \in distances : <<e, d>> \notin less
  BY <1>1, <1>4, WFMin
<1>6. PICK v \in T : d = LastVersion - v
  BY <1>5
<1>7. \A w \in T : v >= w
  <2> TAKE w \in T
  <2>1. LastVersion - w \in distances /\ <<LastVersion - w, d>> \notin less
    BY <1>3, <1>5
  <2>2. ~(LastVersion - w < d)
    BY <1>4, <2>1 DEF less
  <2> QED BY <1>2, <1>6, <2>2 DEF LastVersion
<1>8. Max(T) \in T /\ \A w \in T : Max(T) >= w
  BY <1>6, <1>7 DEF Max
<1> QED BY <1>2, <1>8

LEMMA MadeKept ==
  ASSUME UNCHANGED backend
  PROVE  \A v \in 0 .. LastVersion : Made(v)' = Made(v)
BY DEF Made, Migration

-----------------------------------------------------------------------------
(* The invariant *)

\* What the migrations behind a process have made is there.
Behind(p) ==
  /\ proc[p].current \in versions \cup {-1}
  /\ \A v \in 0 .. LastVersion : v < proc[p].next => v \in versions
  /\ proc[p].pc = "connected" => proc[p].next = LastVersion + 1

\* A transaction creates what it has found missing.
Completes(p) ==
  proc[p].pc \in {"creating", "committing"} =>
    /\ proc[p].missing \subseteq Made(proc[p].next)
    /\ Made(proc[p].next) \subseteq proc[p].missing \cup objects

IInv ==
  /\ TypeOK
  /\ SchemaFollowsVersions
  /\ \A p \in Processes : Behind(p) /\ Completes(p)

LEMMA InitInv == Init => IInv
<1> SUFFICES ASSUME Init PROVE IInv
  OBVIOUS
<1>1. TypeOK
  BY MigrationsAssumption DEF Init, TypeOK, Down, LastVersion
<1>2. SchemaFollowsVersions
  BY DEF Init, SchemaFollowsVersions
<1>3. \A p \in Processes : Behind(p) /\ Completes(p)
  BY DEF Init, Down, Behind, Completes, LastVersion
<1> QED BY <1>1, <1>2, <1>3 DEF IInv

LEMMA ProcParts ==
  ASSUME TypeOK, NEW p \in Processes
  PROVE  /\ proc[p].current \in -1 .. LastVersion
         /\ proc[p].next \in 0 .. LastVersion + 1
         /\ proc[p].next \in Nat /\ proc[p].current \in Int
         /\ proc[p].missing \subseteq UNION {Made(v) : v \in 0 .. LastVersion}
         /\ proc[p].pc \in {"creating", "committing"} => proc[p].next \in 0 .. LastVersion
BY DEF TypeOK, LastVersion

ProcRecord ==
  [pc : {"down", "asking", "reading", "migrating", "creating", "committing", "connected"},
   current : -1 .. LastVersion, next : 0 .. LastVersion + 1,
   missing : SUBSET UNION {Made(v) : v \in 0 .. LastVersion}]

LEMMA TypeStep ==
  ASSUME TypeOK, NEW p \in Processes, NEW r \in ProcRecord,
         r.pc \in {"creating", "committing"} => r.next <= LastVersion,
         proc' = [proc EXCEPT ![p] = r], backend' = backend,
         versions' \subseteq 0 .. LastVersion, crashes' \in 0 .. MaxCrashes
  PROVE  TypeOK'
<1>1. ProcRecord' = ProcRecord
  BY DEF ProcRecord, Made, Migration
<1>2. proc \in [Processes -> ProcRecord]
  BY DEF TypeOK, ProcRecord
<1>3. proc' \in [Processes -> ProcRecord']
  BY <1>1, <1>2
<1>4. \A q \in Processes :
        proc'[q].pc \in {"creating", "committing"} => proc'[q].next <= LastVersion
  BY <1>2 DEF TypeOK
<1> QED BY <1>3, <1>4 DEF TypeOK, ProcRecord

\* A step of one process that leaves the schema alone.
LEMMA OwnStep ==
  ASSUME IInv, NEW p \in Processes, UNCHANGED <<backend, objects, versions>>,
         TypeOK', \A q \in Processes \ {p} : proc'[q] = proc[q],
         Behind(p)', Completes(p)'
  PROVE  IInv'
<1>1. \A v \in 0 .. LastVersion : Made(v)' = Made(v)
  BY MadeKept
<1>2. SchemaFollowsVersions'
  BY <1>1 DEF IInv, SchemaFollowsVersions, TypeOK
<1>3. ASSUME NEW q \in Processes, q # p
      PROVE  Behind(q)' /\ Completes(q)'
  <2>1. Behind(q) /\ Completes(q) /\ proc'[q] = proc[q]
    BY <1>3 DEF IInv
  <2>2. proc[q].pc \in {"creating", "committing"} => proc[q].next \in 0 .. LastVersion
    BY ProcParts DEF IInv
  <2>3. Behind(q)'
    BY <2>1 DEF Behind
  <2>4. Completes(q)'
    BY <1>1, <2>1, <2>2 DEF Completes
  <2> QED BY <2>3, <2>4
<1> QED BY <1>2, <1>3 DEF IInv

-----------------------------------------------------------------------------
(* One lemma for each action *)

\* The steps that only move a process.
LEMMA MovingSteps ==
  ASSUME IInv, NEW p \in Processes, Connect(p) \/ AskTable(p) \/ Connected(p)
  PROVE  IInv'
<1>1. TypeOK'
  BY DEF IInv, TypeOK, Connect, AskTable, Connected, Goto, Made, Migration
<1>2. UNCHANGED <<backend, objects, versions>> /\ \A q \in Processes \ {p} : proc'[q] = proc[q]
  BY DEF IInv, TypeOK, Connect, AskTable, Connected, Goto
<1>3. /\ proc'[p].current = proc[p].current
      /\ proc'[p].next = proc[p].next
      /\ proc'[p].pc \notin {"creating", "committing"}
      /\ proc'[p].pc = "connected" => proc[p].next > LastVersion
  BY DEF IInv, TypeOK, Connect, AskTable, Connected, Goto
<1>4. Behind(p)'
  <2>1. Behind(p) /\ proc[p].next \in 0 .. LastVersion + 1
    BY ProcParts DEF IInv
  <2> QED BY <1>2, <1>3, <2>1 DEF Behind, LastVersion
<1>5. Completes(p)'
  BY <1>3 DEF Completes
<1> QED BY <1>1, <1>2, <1>4, <1>5, OwnStep

LEMMA ReadVersionStep ==
  ASSUME IInv, NEW p \in Processes, ReadVersion(p)
  PROVE  IInv'
<1> DEFINE read == IF versions = {} THEN -1 ELSE Max(versions)
<1>1. read \in versions \cup {-1} /\ read \in -1 .. LastVersion
  <2>1. versions \in SUBSET (0 .. LastVersion)
    BY DEF IInv, TypeOK
  <2>2. CASE versions = {}
    BY <2>2 DEF LastVersion
  <2>3. CASE versions # {}
    <3>1. Max(versions) \in versions
      BY <2>1, <2>3, MaxVersion
    <3>2. read = Max(versions)
      BY <2>3
    <3> HIDE DEF read
    <3>3. read \in versions /\ read \in 0 .. LastVersion
      BY <2>1, <3>1, <3>2
    <3> QED BY <3>3 DEF LastVersion
  <2> QED BY <2>2, <2>3
<1> HIDE DEF read
<1>2. /\ proc' = [proc EXCEPT ![p] = [proc[p] EXCEPT !.pc = "migrating", !.current = read]]
      /\ UNCHANGED <<backend, objects, versions, crashes>>
  BY DEF ReadVersion, read
<1>3. TypeOK'
  <2>1. [proc[p] EXCEPT !.pc = "migrating", !.current = read] \in ProcRecord
    BY <1>1 DEF IInv, TypeOK, ProcRecord
  <2> QED BY <1>2, <2>1, TypeStep DEF IInv, TypeOK
<1>4. \A q \in Processes \ {p} : proc'[q] = proc[q]
  BY <1>2 DEF IInv, TypeOK
<1>5. proc'[p].current = read /\ proc'[p].next = proc[p].next /\ proc'[p].pc = "migrating"
  BY <1>2 DEF IInv, TypeOK
<1>6. Behind(p)'
  <2>1. Behind(p)
    BY DEF IInv
  <2> QED BY <1>1, <1>2, <1>5, <2>1 DEF Behind
<1>7. Completes(p)'
  BY <1>5 DEF Completes
<1> QED BY <1>2, <1>3, <1>4, <1>6, <1>7, OwnStep

\* What is skipped was recorded: the versions have no gap below the one read.
LEMMA SkipStep ==
  ASSUME IInv, NEW p \in Processes, Skip(p)
  PROVE  IInv'
<1>1. TypeOK'
  BY DEF IInv, TypeOK, Skip, Made, Migration, LastVersion
<1>2. UNCHANGED <<backend, objects, versions>> /\ \A q \in Processes \ {p} : proc'[q] = proc[q]
  BY DEF IInv, TypeOK, Skip
<1>3. /\ proc'[p].current = proc[p].current
      /\ proc'[p].next = proc[p].next + 1
      /\ proc'[p].pc = "migrating"
      /\ proc[p].next <= proc[p].current
  BY ProcParts DEF IInv, TypeOK, Skip, Pending
<1>4. proc[p].next \in Nat /\ proc[p].current \in Int
  BY ProcParts DEF IInv
<1>5. Behind(p) /\ versions \subseteq 0 .. LastVersion
  BY DEF IInv, TypeOK
<1>6. proc[p].next \in versions
  <2>1. proc[p].current \in versions
    BY <1>3, <1>4, <1>5 DEF Behind
  <2>2. 0 .. proc[p].current \subseteq versions
    BY <2>1 DEF IInv, SchemaFollowsVersions
  <2> QED BY <1>3, <1>4, <2>2
<1>7. \A v \in 0 .. LastVersion : v < proc[p].next + 1 => v \in versions
  BY <1>4, <1>5, <1>6 DEF Behind, LastVersion
<1>8. Behind(p)'
  BY <1>2, <1>3, <1>5, <1>7 DEF Behind
<1>9. Completes(p)'
  BY <1>3 DEF Completes
<1> QED BY <1>1, <1>2, <1>8, <1>9, OwnStep

LEMMA BeginStep ==
  ASSUME IInv, NEW p \in Processes, Begin(p)
  PROVE  IInv'
<1> DEFINE m == Migration(proc[p].next)
           found == (m.creates \ objects) \cup m.adds
<1>1. found \subseteq Made(proc[p].next) /\ Made(proc[p].next) \subseteq found \cup objects
  BY DEF Made
<1>2. proc[p].next \in 0 .. LastVersion
  BY ProcParts DEF IInv, Begin, LastVersion
<1> HIDE DEF m, found
<1>3. /\ proc' = [proc EXCEPT ![p] = [proc[p] EXCEPT !.pc = "creating", !.missing = found]]
      /\ UNCHANGED <<backend, objects, versions, crashes>>
  BY DEF Begin, m, found
<1>4. found \subseteq UNION {Made(v) : v \in 0 .. LastVersion}
  BY <1>1, <1>2
<1>5. TypeOK'
  <2> DEFINE r == [proc[p] EXCEPT !.pc = "creating", !.missing = found]
  <2>1. proc[p] \in ProcRecord
    BY DEF IInv, TypeOK, ProcRecord
  <2>2. r \in ProcRecord
    BY <1>4, <2>1 DEF ProcRecord
  <2>3. r.next = proc[p].next
    BY <2>1 DEF ProcRecord
  <2>4. r.next <= LastVersion
    BY <1>2, <2>3 DEF LastVersion
  <2> QED BY <1>3, <2>2, <2>4, TypeStep DEF IInv, TypeOK
<1>6. \A q \in Processes \ {p} : proc'[q] = proc[q]
  BY <1>3 DEF IInv, TypeOK
<1>7. /\ proc'[p].current = proc[p].current
      /\ proc'[p].next = proc[p].next
      /\ proc'[p].missing = found
      /\ proc'[p].pc = "creating"
  BY <1>3 DEF IInv, TypeOK
<1>8. Behind(p)'
  <2>1. Behind(p)
    BY DEF IInv
  <2> QED BY <1>3, <1>7, <2>1 DEF Behind
<1>9. Completes(p)'
  <2>1. Made(proc[p].next)' = Made(proc'[p].next)
    BY <1>3 DEF Made, Migration
  <2>2. Made(proc'[p].next) = Made(proc[p].next)
    BY <1>7
  <2> QED BY <1>1, <1>3, <1>7, <2>1, <2>2 DEF Completes
<1> QED BY <1>3, <1>5, <1>6, <1>8, <1>9, OwnStep

LEMMA ExecuteStep ==
  ASSUME IInv, NEW p \in Processes, Execute(p)
  PROVE  IInv'
<1>1. TypeOK'
  BY DEF IInv, TypeOK, Execute, Goto, Made, Migration
<1>2. UNCHANGED <<backend, objects, versions>> /\ \A q \in Processes \ {p} : proc'[q] = proc[q]
  BY DEF IInv, TypeOK, Execute, Goto
<1>3. /\ proc'[p].current = proc[p].current
      /\ proc'[p].next = proc[p].next
      /\ proc'[p].missing = proc[p].missing
      /\ proc'[p].pc = "committing"
  BY DEF IInv, TypeOK, Execute, Goto
<1>4. Behind(p) /\ Completes(p) /\ proc[p].pc = "creating"
  BY DEF IInv, Execute
<1>5. Behind(p)'
  BY <1>2, <1>3, <1>4 DEF Behind
<1>6. Completes(p)'
  <2>1. Made(proc[p].next)' = Made(proc'[p].next)
    BY <1>2 DEF Made, Migration
  <2> QED BY <1>2, <1>3, <1>4, <2>1 DEF Completes
<1> QED BY <1>1, <1>2, <1>5, <1>6, OwnStep

\* A process that throws or dies starts from nothing.
LEMMA DownStep ==
  ASSUME IInv, NEW p \in Processes, Fail(p) \/ Crash(p)
  PROVE  IInv'
<1>1. UNCHANGED <<backend, objects, versions>> /\ proc' = [proc EXCEPT ![p] = Down]
  BY DEF Fail, Crash
<1>2. TypeOK'
  <2>1. Down \in [pc : {"down", "asking", "reading", "migrating", "creating", "committing", "connected"},
                  current : -1 .. LastVersion, next : 0 .. LastVersion + 1,
                  missing : SUBSET UNION {Made(v) : v \in 0 .. LastVersion}]
    BY DEF Down, LastVersion
  <2>2. Down.pc = "down"
    BY DEF Down
  <2>3. crashes' \in 0 .. MaxCrashes
    BY MigrationsAssumption DEF IInv, TypeOK, Fail, Crash
  <2> QED BY <1>1, <2>1, <2>2, <2>3 DEF IInv, TypeOK, Made, Migration
<1>3. proc'[p] = Down /\ \A q \in Processes \ {p} : proc'[q] = proc[q]
  BY <1>1 DEF IInv, TypeOK
<1>4. Behind(p)' /\ Completes(p)'
  BY <1>3 DEF Behind, Completes, Down, LastVersion
<1> QED BY <1>1, <1>2, <1>3, <1>4, OwnStep

\* Objects and version become visible together; what others have found missing
\* may exist now, and nothing that existed is gone.
LEMMA CommitStep ==
  ASSUME IInv, NEW p \in Processes, Commit(p)
  PROVE  IInv'
<1> DEFINE n == proc[p].next
<1>1. n \in 0 .. LastVersion /\ n \in Nat
  BY ProcParts DEF IInv, Commit
<1>2. /\ backend' = backend /\ crashes' = crashes
      /\ objects' = objects \cup proc[p].missing
      /\ versions' = versions \cup {n}
      /\ proc' = [proc EXCEPT ![p] =
           [proc[p] EXCEPT !.pc = "migrating", !.next = n + 1, !.missing = {}]]
  BY DEF Commit
<1>3. \A v \in 0 .. LastVersion : Made(v)' = Made(v)
  BY <1>2, MadeKept
<1>4. TypeOK'
  <2> DEFINE r == [proc[p] EXCEPT !.pc = "migrating", !.next = n + 1, !.missing = {}]
  <2>1. n + 1 \in 0 .. LastVersion + 1
    BY <1>1 DEF LastVersion
  <2>2. r \in ProcRecord /\ r.pc = "migrating"
    BY <2>1 DEF IInv, TypeOK, ProcRecord
  <2>3. versions' \subseteq 0 .. LastVersion
    BY <1>1, <1>2 DEF IInv, TypeOK
  <2> QED BY <1>2, <2>2, <2>3, TypeStep DEF IInv, TypeOK
<1>5. \A q \in Processes \ {p} : proc'[q] = proc[q]
  BY <1>2 DEF IInv, TypeOK
<1>6. /\ proc'[p].current = proc[p].current
      /\ proc'[p].next = n + 1
      /\ proc'[p].pc = "migrating"
  BY <1>2 DEF IInv, TypeOK
<1>7. Behind(p) /\ Completes(p) /\ proc[p].pc = "committing"
  BY DEF IInv, Commit
<1>8. versions \subseteq 0 .. LastVersion
  BY DEF IInv, TypeOK
<1>9. SchemaFollowsVersions'
  <2>1. \A v \in versions' : 0 .. v \subseteq versions'
    <3>1. 0 .. n \subseteq versions'
      BY <1>1, <1>2, <1>7 DEF Behind, LastVersion
    <3> QED BY <1>2, <3>1 DEF IInv, SchemaFollowsVersions
  <2>2. objects' = objects \cup Made(n)
    BY <1>2, <1>7 DEF Completes
  <2>3. objects = UNION {Made(v) : v \in versions}
    BY DEF IInv, SchemaFollowsVersions
  <2>4. objects' = UNION {Made(v) : v \in versions'}
    BY <1>2, <2>2, <2>3
  <2>5. UNION {Made(v)' : v \in versions'} = UNION {Made(v) : v \in versions'}
    BY <1>1, <1>2, <1>3, <1>8
  <2> QED BY <2>1, <2>4, <2>5 DEF SchemaFollowsVersions
<1>10. Behind(p)' /\ Completes(p)'
  <2>1. Behind(p)'
    BY <1>1, <1>2, <1>6, <1>7 DEF Behind, LastVersion
  <2>2. Completes(p)'
    BY <1>6 DEF Completes
  <2> QED BY <2>1, <2>2
<1>11. ASSUME NEW q \in Processes, q # p
       PROVE  Behind(q)' /\ Completes(q)'
  <2>1. Behind(q) /\ Completes(q) /\ proc'[q] = proc[q]
    BY <1>5, <1>11 DEF IInv
  <2>2. proc[q].pc \in {"creating", "committing"} => proc[q].next \in 0 .. LastVersion
    BY ProcParts DEF IInv
  <2>3. Behind(q)'
    <3>1. versions \subseteq versions'
      BY <1>2
    <3>2. proc'[q].current \in versions' \cup {-1}
      BY <2>1, <3>1 DEF Behind
    <3>3. \A v \in 0 .. LastVersion : v < proc'[q].next => v \in versions'
      BY <2>1, <3>1 DEF Behind
    <3> QED BY <2>1, <3>2, <3>3 DEF Behind
  <2>4. Completes(q)'
    BY <1>2, <1>3, <2>1, <2>2 DEF Completes
  <2> QED BY <2>3, <2>4
<1> QED BY <1>4, <1>9, <1>10, <1>11 DEF IInv

-----------------------------------------------------------------------------
(* The theorems *)

LEMMA StutterInv == IInv /\ UNCHANGED vars => IInv'
<1> SUFFICES ASSUME IInv, UNCHANGED vars PROVE IInv'
  OBVIOUS
<1>1. TypeOK'
  BY DEF IInv, TypeOK, vars, Made, Migration
<1>2. SchemaFollowsVersions'
  BY DEF IInv, SchemaFollowsVersions, vars, Made, Migration
<1>3. \A p \in Processes : Behind(p)' /\ Completes(p)'
  BY DEF IInv, Behind, Completes, vars, Made, Migration
<1> QED BY <1>1, <1>2, <1>3 DEF IInv

LEMMA NextInv == IInv /\ [Next]_vars => IInv'
<1> SUFFICES ASSUME IInv, Next PROVE IInv'
  BY StutterInv
<1>1. PICK p \in Processes : Step(p) \/ Crash(p)
  BY DEF Next
<1>2. CASE Connect(p) \/ AskTable(p) \/ Connected(p)
  BY <1>2, MovingSteps
<1>3. CASE ReadVersion(p)
  BY <1>3, ReadVersionStep
<1>4. CASE Skip(p)
  BY <1>4, SkipStep
<1>5. CASE Begin(p)
  BY <1>5, BeginStep
<1>6. CASE Execute(p)
  BY <1>6, ExecuteStep
<1>7. CASE Commit(p)
  BY <1>7, CommitStep
<1>8. CASE Fail(p) \/ Crash(p)
  BY <1>8, DownStep
<1> QED BY <1>1, <1>2, <1>3, <1>4, <1>5, <1>6, <1>7, <1>8 DEF Step

LEMMA Invariance == Spec => []IInv
BY InitInv, NextInv, PTL DEF Spec

\* Every variable keeps its type, and a transaction is about one of the
\* migrations.
THEOREM TypeCorrect == Spec => []TypeOK
<1>1. IInv => TypeOK
  BY DEF IInv
<1> QED BY <1>1, Invariance, PTL

\* The recorded versions have no gap and tell what exists, however many
\* processes migrate at once and wherever they die.
THEOREM VersionsTellTheSchema == Spec => []SchemaFollowsVersions
<1>1. IInv => SchemaFollowsVersions
  BY DEF IInv
<1> QED BY <1>1, Invariance, PTL

\* Whoever is connected finds the objects of every migration.
THEOREM ConnectedIsMigrated == Spec => []ConnectedFindsSchema
<1>1. IInv => ConnectedFindsSchema
  <2> SUFFICES ASSUME IInv, NEW p \in Processes, proc[p].pc = "connected"
               PROVE  objects = UNION {Made(v) : v \in 0 .. LastVersion}
    BY DEF ConnectedFindsSchema
  <2>1. Behind(p) /\ versions \subseteq 0 .. LastVersion
    BY DEF IInv, TypeOK
  <2>2. \A v \in 0 .. LastVersion : v < LastVersion + 1
    BY DEF LastVersion
  <2>3. \A v \in 0 .. LastVersion : v \in versions
    BY <2>1, <2>2 DEF Behind
  <2>4. versions = 0 .. LastVersion
    BY <2>1, <2>3
  <2> QED BY <2>4 DEF IInv, SchemaFollowsVersions
<1> QED BY <1>1, Invariance, PTL
===============================================================================
