---------------------------- MODULE SchemaMigrations ----------------------------
(***************************************************************************)
(* The schema of the run table and its migrations: migrations, migrate and *)
(* getCurrentMigrationVersion of packages/openworkflow/postgres/postgres.ts *)
(* and sqlite/sqlite.ts, run by every process that connects a backend.     *)
(*                                                                         *)
(* Processes migrate at the same time, with no lock among them.  Each      *)
(* migration is a transaction that creates its objects and records its     *)
(* version.  "IF NOT EXISTS" looks at what is committed: an object that    *)
(* another transaction is creating makes the statement wait, and fail if   *)
(* the other commits.  SQLite has one writer and does not wait.  Whoever   *)
(* fails to connect is started again.                                      *)
(***************************************************************************)
EXTENDS Integers, FiniteSetsExt

CONSTANTS
  Processes,
  MaxCrashes    \* bound: processes that die

ASSUME MigrationsAssumption == MaxCrashes \in Nat

VARIABLES
  backend,    \* "postgres" or "sqlite"
  objects,    \* the committed objects of the schema
  versions,   \* the committed rows of openworkflow_migrations
  proc,       \* proc[p]: where process p stands
  crashes

vars == <<backend, objects, versions, proc, crashes>>

-----------------------------------------------------------------------------
(* The migrations: creates has objects created if they do not exist, adds   *)
(* has those that must not exist, needs those that must.                    *)

Tables == {"workflow_runs", "step_attempts"}

Init0 == [creates |-> {"schema", "migrations"}, adds |-> {}, needs |-> {}]
Tables1 == [creates |-> Tables, adds |-> {}, needs |-> {"migrations"}]
ForeignKeys2 == [creates |-> {}, adds |-> {"foreign keys"}, needs |-> Tables]
Validate3 == [creates |-> {}, adds |-> {}, needs |-> {"foreign keys"}]
Indexes4 == [creates |-> {"indexes"}, adds |-> {}, needs |-> Tables]
Signals5 == [creates |-> {"workflow_signals", "signal indexes"}, adds |-> {},
             needs |-> {"step_attempts"}]

\* SQLite has no schema to create, and its foreign keys from the beginning.
SqliteInit0 == [Init0 EXCEPT !.creates = {"migrations"}]
SqliteTables1 == [Tables1 EXCEPT !.creates = Tables \cup {"foreign keys"}]
Nothing == [creates |-> {}, adds |-> {}, needs |-> {"migrations"}]

PostgresMigrations == <<Init0, Tables1, ForeignKeys2, Validate3, Indexes4, Signals5>>
SqliteMigrations == <<SqliteInit0, SqliteTables1, Nothing, Nothing, Indexes4, Signals5>>

LastVersion == 5
Migration(i) == IF backend = "postgres" THEN PostgresMigrations[i + 1] ELSE SqliteMigrations[i + 1]
Made(i) == Migration(i).creates \cup Migration(i).adds

-----------------------------------------------------------------------------
Down == [pc |-> "down", current |-> -1, next |-> 0, missing |-> {}]

\* A transaction is about one of the migrations.
TypeOK ==
  /\ backend \in {"postgres", "sqlite"}
  /\ versions \subseteq 0 .. LastVersion
  /\ proc \in [Processes ->
       [pc : {"down", "asking", "reading", "migrating", "creating", "committing", "connected"},
        current : -1 .. LastVersion, next : 0 .. LastVersion + 1,
        missing : SUBSET UNION {Made(v) : v \in 0 .. LastVersion}]]
  /\ \A p \in Processes :
       proc[p].pc \in {"creating", "committing"} => proc[p].next <= LastVersion
  /\ crashes \in 0 .. MaxCrashes

Init ==
  /\ backend \in {"postgres", "sqlite"}
  /\ objects = {}
  /\ versions = {}
  /\ proc = [p \in Processes |-> Down]
  /\ crashes = 0

Goto(p, pc) == proc' = [proc EXCEPT ![p] = [@ EXCEPT !.pc = pc]]

Connect(p) ==
  /\ proc[p].pc = "down"
  /\ Goto(p, "asking")
  /\ UNCHANGED <<backend, objects, versions, crashes>>

\* Is there a table of migrations?  Without one no migration was applied.
AskTable(p) ==
  /\ proc[p].pc = "asking"
  /\ Goto(p, IF "migrations" \in objects THEN "reading" ELSE "migrating")
  /\ UNCHANGED <<backend, objects, versions, crashes>>

ReadVersion(p) ==
  /\ proc[p].pc = "reading"
  /\ proc' = [proc EXCEPT ![p] =
       [@ EXCEPT !.pc = "migrating",
                 !.current = IF versions = {} THEN -1 ELSE Max(versions)]]
  /\ UNCHANGED <<backend, objects, versions, crashes>>

\* Mutant: the current migration is applied again.
PendingAgain(p) == proc[p].next >= proc[p].current

Pending(p) == proc[p].next > proc[p].current

Skip(p) ==
  /\ proc[p].pc = "migrating"
  /\ proc[p].next <= LastVersion
  /\ ~Pending(p)
  /\ proc' = [proc EXCEPT ![p] = [@ EXCEPT !.next = proc[p].next + 1]]
  /\ UNCHANGED <<backend, objects, versions, crashes>>

\* The transaction begins and sees which objects exist.
Begin(p) ==
  /\ proc[p].pc = "migrating"
  /\ proc[p].next <= LastVersion
  /\ Pending(p)
  /\ LET m == Migration(proc[p].next) IN
     proc' = [proc EXCEPT ![p] =
       [@ EXCEPT !.pc = "creating", !.missing = (m.creates \ objects) \cup m.adds]]
  /\ UNCHANGED <<backend, objects, versions, crashes>>

\* Another transaction has created an object of this one and is not committed;
\* on SQLite, any other that writes.
Blocked(p) ==
  \E q \in Processes \ {p} :
    /\ proc[q].pc = "committing"
    /\ backend = "sqlite" \/ proc[q].missing \cap proc[p].missing # {}

\* The statements go through unless an object was committed in the meantime, or
\* an object they refer to does not exist.
Possible(p) ==
  /\ proc[p].missing \cap objects = {}
  /\ Migration(proc[p].next).needs \subseteq objects

\* Mutant: the statements are no transaction.
ExecuteAtOnce(p) ==
  /\ proc[p].pc = "creating"
  /\ ~Blocked(p) /\ Possible(p)
  /\ Goto(p, "committing")
  /\ objects' = objects \cup proc[p].missing
  /\ UNCHANGED <<backend, versions, crashes>>

Execute(p) ==
  /\ proc[p].pc = "creating"
  /\ ~Blocked(p) /\ Possible(p)
  /\ Goto(p, "committing")
  /\ UNCHANGED <<backend, objects, versions, crashes>>

\* Mutant: the error is caught and the next migration is tried.
FailOnwards(p) ==
  /\ proc[p].pc = "creating"
  /\ \/ ~Blocked(p) /\ ~Possible(p)
     \/ Blocked(p) /\ backend = "sqlite"
  /\ proc' = [proc EXCEPT ![p] = [@ EXCEPT !.pc = "migrating", !.next = proc[p].next + 1, !.missing = {}]]
  /\ UNCHANGED <<backend, objects, versions, crashes>>

\* The migration is rolled back and connect throws.
Fail(p) ==
  /\ proc[p].pc = "creating"
  /\ \/ ~Blocked(p) /\ ~Possible(p)
     \/ Blocked(p) /\ backend = "sqlite"
  /\ proc' = [proc EXCEPT ![p] = Down]
  /\ UNCHANGED <<backend, objects, versions, crashes>>

\* Objects and version become visible together.
Commit(p) ==
  /\ proc[p].pc = "committing"
  /\ objects' = objects \cup proc[p].missing
  /\ versions' = versions \cup {proc[p].next}
  /\ proc' = [proc EXCEPT ![p] = [@ EXCEPT !.pc = "migrating", !.next = proc[p].next + 1, !.missing = {}]]
  /\ UNCHANGED <<backend, crashes>>

Connected(p) ==
  /\ proc[p].pc = "migrating"
  /\ proc[p].next > LastVersion
  /\ Goto(p, "connected")
  /\ UNCHANGED <<backend, objects, versions, crashes>>

Crash(p) ==
  /\ proc[p].pc # "down"
  /\ crashes < MaxCrashes
  /\ crashes' = crashes + 1
  /\ proc' = [proc EXCEPT ![p] = Down]
  /\ UNCHANGED <<backend, objects, versions>>

Step(p) ==
  \/ Connect(p) \/ AskTable(p) \/ ReadVersion(p)
  \/ Skip(p) \/ Begin(p) \/ Execute(p) \/ Fail(p) \/ Commit(p)
  \/ Connected(p)

Next == \E p \in Processes : Step(p) \/ Crash(p)

\* A process goes on while it lives, and is started again when it does not.
Spec == Init /\ [][Next]_vars /\ \A p \in Processes : WF_vars(Step(p))

-----------------------------------------------------------------------------
(* Properties *)

\* The versions tell the schema: they are applied without a gap, and what exists
\* is what the recorded ones have made, whoever applied them, in whatever
\* interleaving, and wherever a process died (migrate).
SchemaFollowsVersions ==
  /\ \A v \in versions : 0 .. v \subseteq versions
  /\ objects = UNION {Made(v) : v \in versions}

\* A backend that is connected finds the whole schema, also if its process took
\* part of the migrations to be applied and others applied the rest.
ConnectedFindsSchema ==
  \A p \in Processes : proc[p].pc = "connected" =>
    objects = UNION {Made(v) : v \in 0 .. LastVersion}

\* Processes that collide or die in the middle of the migrations, and are started
\* again, all connect in the end: no half of the schema stands in the way.
EverybodyConnects == <>[](\A p \in Processes : proc[p].pc = "connected")
===============================================================================
