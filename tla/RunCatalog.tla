------------------------------- MODULE RunCatalog -------------------------------
(***************************************************************************)
(* Creation of workflow runs under idempotency keys, and the listing of    *)
(* runs and step attempts by pages: createWorkflowRun, listWorkflowRuns    *)
(* and listStepAttempts of the two backends (postgres/backend.ts,          *)
(* sqlite/backend.ts) and core/cursor.ts, in packages/openworkflow.        *)
(*                                                                         *)
(* On Postgres a creation takes a connection from the pool of its process, *)
(* then the advisory lock of its key, looks the key up and inserts; each   *)
(* statement sees what has been committed.  SQLite does it all in one      *)
(* transaction that excludes every other.                                  *)
(*                                                                         *)
(* A listing reads one page per request while runs are being created.  Its *)
(* cursor holds the time of a row to the millisecond.                      *)
(***************************************************************************)
EXTENDS Integers, Sequences, SequencesExt, FiniteSetsExt

CONSTANTS
  Creators,      \* callers of createWorkflowRun
  Keys,          \* idempotency keys of one workflow name and namespace
  NoKey,
  Ids,           \* row ids, random UUIDs: a set of integers, which orders them
  Connections,   \* connections in the pool the creators share
  Precision,     \* units of the clock per millisecond
  Period,        \* DEFAULT_RUN_IDEMPOTENCY_PERIOD_MS, in units
  Limit,         \* the page size of the listing
  MaxTime,       \* bound: the clock stops there
  MaxCrashes     \* bound: connections lost

Nobody == "nobody"
NoRow == 0

ASSUME CatalogAssumption ==
  /\ NoKey \notin Keys /\ Nobody \notin Creators
  /\ Ids \subseteq Nat /\ Ids # {}
  /\ Connections \in Nat \ {0}
  /\ Precision \in Nat \ {0}
  /\ Period \in Nat \ {0} /\ Period % Precision = 0
  /\ Limit \in Nat \ {0}
  /\ MaxTime \in Nat /\ MaxCrashes \in Nat

VARIABLES
  backend,   \* "postgres" or "sqlite"
  now,
  rows,      \* the table: id, created_at, idempotency_key
  lock,      \* lock[k]: who holds the advisory lock of key k
  call,      \* call[c]: a creation in progress, or its answer
  listing,   \* a listing: the page it is at, and the rows it has read
  crashes

vars == <<backend, now, rows, lock, call, listing, crashes>>

Idle == [pc |-> "idle", key |-> NoKey, answer |-> NoRow]
NoPage == [data |-> <<>>, next |-> <<>>, prev |-> <<>>]
NoListing == [pc |-> "idle", order |-> "DESC", page |-> NoPage, present |-> {}, read |-> <<>>]

\* Types; only a call that may hold a lock holds it.
TypeOK ==
  /\ backend \in {"postgres", "sqlite"}
  /\ now \in 0 .. MaxTime
  /\ rows \subseteq [id : Ids, created : 0 .. MaxTime, key : Keys \cup {NoKey}]
  /\ lock \in [Keys -> Creators \cup {Nobody}]
  /\ call \in [Creators -> [pc : {"idle", "connected", "locked", "inserting", "unlocking"},
                            key : Keys \cup {NoKey}, answer : Ids \cup {NoRow}]]
  /\ \A k \in Keys : lock[k] # Nobody =>
       call[lock[k]].key = k /\ call[lock[k]].pc \in {"locked", "inserting", "unlocking"}
  /\ listing.pc \in {"idle", "forward", "back"}
  /\ listing.order \in {"ASC", "DESC"}
  /\ listing.present \subseteq rows
  /\ crashes \in 0 .. MaxCrashes

Init ==
  /\ backend \in {"postgres", "sqlite"}
  /\ now = 0
  /\ rows = {}
  /\ lock = [k \in Keys |-> Nobody]
  /\ call = [c \in Creators |-> Idle]
  /\ listing = NoListing
  /\ crashes = 0

-----------------------------------------------------------------------------
(* Rows *)

\* Mutant: the time is stored as precisely as the database has it.
StampPrecise(t) == t

\* created_at is truncated to the millisecond.
Stamp(t) == t - (t % Precision)

Unused == Ids \ {r.id : r \in rows}

NewRow(id, k) == [id |-> id, created |-> Stamp(now), key |-> k]
Before(r1, r2) == r1.created < r2.created \/ (r1.created = r2.created /\ r1.id < r2.id)

\* getWorkflowRunByIdempotencyKey: the oldest run of the key within the period.
Existing(k) ==
  LET within == {r \in rows : r.key = k /\ r.created >= (now - (now % Precision)) - Period}
  IN  {r \in within : \A q \in within \ {r} : Before(r, q)}

-----------------------------------------------------------------------------
(* Creation *)

\* Without a key the row is inserted at once.
CreateUnkeyed(c) ==
  /\ call[c].pc = "idle"
  /\ \E id \in Unused : rows' = rows \cup {NewRow(id, NoKey)}
  /\ UNCHANGED <<backend, now, lock, call, listing, crashes>>

\* SQLite: lookup and insertion within BEGIN IMMEDIATE.
CreateAtOnce(c, k) ==
  /\ backend = "sqlite"
  /\ call[c].pc = "idle"
  /\ Existing(k) = {}
  /\ \E id \in Unused : rows' = rows \cup {NewRow(id, k)}
  /\ UNCHANGED <<backend, now, lock, call, listing, crashes>>

Connected == {c \in Creators : call[c].pc # "idle"}

Connect(c, k) ==
  /\ backend = "postgres"
  /\ call[c].pc = "idle"
  /\ Cardinality(Connected) < Connections
  /\ call' = [call EXCEPT ![c] = [pc |-> "connected", key |-> k, answer |-> NoRow]]
  /\ UNCHANGED <<backend, now, rows, lock, listing, crashes>>

\* Mutant: the lock is not exclusive.
MayLockShared(k) == TRUE

MayLock(k) == lock[k] = Nobody

\* pg_advisory_lock waits until the lock of the key is free.
Lock(c) ==
  /\ call[c].pc = "connected"
  /\ MayLock(call[c].key)
  /\ lock' = [lock EXCEPT ![call[c].key] = c]
  /\ call' = [call EXCEPT ![c] = [@ EXCEPT !.pc = "locked"]]
  /\ UNCHANGED <<backend, now, rows, listing, crashes>>

LookUp(c) ==
  /\ call[c].pc = "locked"
  /\ \/ /\ Existing(call[c].key) = {}
        /\ call' = [call EXCEPT ![c] = [@ EXCEPT !.pc = "inserting"]]
     \/ \E r \in Existing(call[c].key) :
          call' = [call EXCEPT ![c] = [@ EXCEPT !.pc = "unlocking", !.answer = r.id]]
  /\ UNCHANGED <<backend, now, rows, lock, listing, crashes>>

\* Mutant: insertWorkflowRun takes a connection of its own.
MayInsertThroughPool == Cardinality(Connected) < Connections

\* The insertion is sent on the connection that holds the lock.
MayInsert == TRUE

Insert(c) ==
  /\ call[c].pc = "inserting"
  /\ MayInsert
  /\ \E id \in Unused :
       /\ rows' = rows \cup {NewRow(id, call[c].key)}
       /\ call' = [call EXCEPT ![c] = [@ EXCEPT !.pc = "unlocking", !.answer = id]]
  /\ UNCHANGED <<backend, now, lock, listing, crashes>>

Unlock(c) ==
  /\ call[c].pc = "unlocking"
  /\ lock' = [lock EXCEPT ![call[c].key] = Nobody]
  /\ call' = [call EXCEPT ![c] = Idle]
  /\ UNCHANGED <<backend, now, rows, listing, crashes>>

\* The process or its connection dies, and the session's lock with it.
Crash(c) ==
  /\ call[c].pc # "idle"
  /\ crashes < MaxCrashes
  /\ crashes' = crashes + 1
  /\ lock' = [k \in Keys |-> IF lock[k] = c THEN Nobody ELSE lock[k]]
  /\ call' = [call EXCEPT ![c] = Idle]
  /\ UNCHANGED <<backend, now, rows, listing>>

-----------------------------------------------------------------------------
(* Listing *)

Flip(order) == IF order = "ASC" THEN "DESC" ELSE "ASC"
Precedes(a, b, order) == IF order = "ASC" THEN Before(a, b) ELSE Before(b, a)

\* The rows of S in order.  (Of SetToSortSeq the prover has no definition.)
Sorted(S, order) ==
  [n \in 1 .. Cardinality(S) |->
     CHOOSE r \in S : Cardinality({q \in S : Precedes(q, r, order)}) = n - 1]

\* The cursor of a row: its created_at, as a date with milliseconds, and its id.
Cursor(r) == [id |-> r.id, created |-> r.created - (r.created % Precision)]

\* The rows behind the cursor; all of them without one.
Behind(cursor, order) ==
  IF cursor = <<>> THEN rows
  ELSE {r \in rows : Precedes(cursor, r, order)}

Fetched(cursor, order) ==
  LET all == Sorted(Behind(cursor, order), order)
  IN  SubSeq(all, 1, IF Len(all) < Limit + 1 THEN Len(all) ELSE Limit + 1)

\* Mutant: the row fetched in excess is dropped at the wrong end when going back.
TrimLast(fetched, before) ==
  LET ordered == IF before THEN Reverse(fetched) ELSE fetched
  IN  IF Len(fetched) <= Limit THEN ordered ELSE SubSeq(ordered, 1, Limit)

\* One row more than the page shows whether there is another page; going back,
\* the rows come in reverse and the row in excess is the first.
Trim(fetched, before) ==
  LET ordered == IF before THEN Reverse(fetched) ELSE fetched
  IN  IF Len(fetched) <= Limit THEN ordered
      ELSE IF before THEN Tail(ordered) ELSE SubSeq(ordered, 1, Limit)

\* A page, and its cursors to the next and the previous page.
Page(cursor, before, order) ==
  LET fetched == Fetched(cursor, IF before THEN Flip(order) ELSE order)
      data == Trim(fetched, before)
      overflow == Len(fetched) > Limit
      hasNext == before \/ overflow
      hasPrev == IF before THEN overflow ELSE cursor # <<>>
  IN  [data |-> data,
       next |-> IF hasNext /\ data # <<>> THEN Cursor(Last(data)) ELSE <<>>,
       prev |-> IF hasPrev /\ data # <<>> THEN Cursor(Head(data)) ELSE <<>>]

\* Runs are listed newest first, step attempts oldest first.
StartListing ==
  /\ listing.pc = "idle"
  /\ \E order \in {"ASC", "DESC"} :
       LET page == Page(<<>>, FALSE, order) IN
       listing' = [pc |-> "forward", order |-> order, page |-> page,
                   present |-> rows, read |-> page.data]
  /\ UNCHANGED <<backend, now, rows, lock, call, crashes>>

\* The reader (listAllStepAttemptsForWorkflowRun, a dashboard) follows "next".
NextPage ==
  /\ listing.pc = "forward"
  /\ listing.page.next # <<>>
  /\ LET page == Page(listing.page.next, FALSE, listing.order) IN
     listing' = [listing EXCEPT !.page = page, !.read = @ \o page.data]
  /\ UNCHANGED <<backend, now, rows, lock, call, crashes>>

\* At the last page it turns round, and follows "prev".
TurnBack ==
  /\ listing.pc = "forward"
  /\ listing.page.next = <<>>
  /\ listing.page.prev # <<>>
  /\ listing' = [listing EXCEPT !.pc = "back", !.read = listing.page.data]
  /\ UNCHANGED <<backend, now, rows, lock, call, crashes>>

PreviousPage ==
  /\ listing.pc = "back"
  /\ listing.page.prev # <<>>
  /\ LET page == Page(listing.page.prev, TRUE, listing.order) IN
     listing' = [listing EXCEPT !.page = page, !.read = page.data \o @]
  /\ UNCHANGED <<backend, now, rows, lock, call, crashes>>

Pass ==
  /\ now < MaxTime
  /\ now' = now + 1
  /\ UNCHANGED <<backend, rows, lock, call, listing, crashes>>

Serve(c) == Lock(c) \/ LookUp(c) \/ Insert(c) \/ Unlock(c)

Next ==
  \/ \E c \in Creators :
       \/ CreateUnkeyed(c)
       \/ \E k \in Keys : CreateAtOnce(c, k) \/ Connect(c, k)
       \/ Serve(c)
       \/ Crash(c)
  \/ StartListing \/ NextPage \/ TurnBack \/ PreviousPage
  \/ Pass

\* The database carries out the statements that are sent to it; of those that
\* wait for a lock, each gets it in the end.
Spec == Init /\ [][Next]_vars /\ \A c \in Creators : WF_vars(LookUp(c) \/ Insert(c) \/ Unlock(c))
                                                     /\ SF_vars(Lock(c))

-----------------------------------------------------------------------------
(* Properties *)

\* A key makes one run in its period: of two runs under the same key the later
\* is created after the period of the earlier, whoever creates them and whatever
\* dies in between (createWorkflowRun).
OneRunPerKey ==
  \A r1, r2 \in rows :
    r1 # r2 /\ r1.key = r2.key /\ r1.key # NoKey =>
      r1.created - r2.created > Period \/ r2.created - r1.created > Period

\* A creation is not stuck: it gets the lock of its key and its run, though
\* others wait for the same lock with the connections of the pool in their hands.
\* (The rows of the instance may run out.)
EveryCreationEnds ==
  \A c \in Creators : call[c].pc # "idle" ~> call[c].pc = "idle" \/ Unused = {}

Once(s) == \A i, j \in DOMAIN s : s[i] = s[j] => i = j

\* What was in the table when a listing began is read exactly once, in order,
\* when the listing has come to its end in either direction, though rows are
\* created meanwhile within the millisecond the cursor stands at.
ListingsAreComplete ==
  /\ Once(listing.read)
  /\ \A i, j \in DOMAIN listing.read :
       i < j => Precedes(listing.read[i], listing.read[j], listing.order)
  /\ \/ listing.pc = "forward" /\ listing.page.next = <<>>
     \/ listing.pc = "back" /\ listing.page.prev = <<>>
     => listing.present \subseteq ToSet(listing.read)
===============================================================================
