--------------------------- MODULE RunCatalog_proofs ---------------------------
(*****************************************************************************)
(* Proofs about RunCatalog for any number of creators, keys and              *)
(* connections, any precision of the clock, any period and any size of the   *)
(* pages: types, that a key makes one run in its period, and that a listing  *)
(* reads what was in the table once and in order, forward and back.          *)
(*                                                                           *)
(* Keys (IInv): whoever has found no run of its key holds the lock of the    *)
(* key until it has inserted one, so nobody else inserts a run of the key;   *)
(* and the period that counts only moves on while it waits (NoneWithin).     *)
(*                                                                           *)
(* Listings (PagesInv): going forward, the cursor is the last row that was   *)
(* read, and what was there is read or comes after it (ForwardSound); going  *)
(* back, it is the first, and what was there is read or comes before it      *)
(* (BackSound).  A cursor stands for its row because the table has no time   *)
(* more precise than the cursor's (Stamped).                                 *)
(*****************************************************************************)
EXTENDS RunCatalog, FiniteSetTheorems, WellFoundedInduction, TLAPS

-----------------------------------------------------------------------------
(* The clock *)

LEMMA StampParts ==
  ASSUME NEW t \in Nat
  PROVE  Stamp(t) \in Nat /\ Stamp(t) <= t
<1>1. Precision \in Nat \ {0}
  BY CatalogAssumption
<1>2. t % Precision \in 0 .. Precision - 1
  BY <1>1, SMT
<1>3. t = Precision * (t \div Precision) + (t % Precision) /\ t \div Precision \in Nat
  BY <1>1, SMT
<1>4. Precision * (t \div Precision) \in Nat
  BY <1>1, <1>3
<1> QED BY <1>2, <1>3, <1>4 DEF Stamp

\* The time to the millisecond does not go back.
LEMMA StampGrows ==
  ASSUME NEW t \in Nat
  PROVE  Stamp(t) <= Stamp(t + 1)
<1> DEFINE q1 == t \div Precision
           r1 == t % Precision
           q2 == (t + 1) \div Precision
           r2 == (t + 1) % Precision
<1>1. Precision \in Nat \ {0}
  BY CatalogAssumption
<1>2. t = Precision * q1 + r1 /\ q1 \in Nat /\ r1 \in 0 .. Precision - 1
  BY <1>1, SMT
<1>3. t + 1 = Precision * q2 + r2 /\ q2 \in Nat /\ r2 \in 0 .. Precision - 1
  BY <1>1, SMT
<1>4. Stamp(t) = t - r1 /\ Stamp(t + 1) = t + 1 - r2
  BY <1>1 DEF Stamp
<1> HIDE DEF q1, r1, q2, r2
<1>5. q2 >= q1
  <2> SUFFICES ASSUME q2 + 1 <= q1 PROVE FALSE
    BY <1>2, <1>3
  <2>1. Precision * (q2 + 1) <= Precision * q1
    BY <1>1, <1>2, <1>3
  <2>2. Precision * (q2 + 1) = Precision * q2 + Precision
    BY <1>1, <1>3
  <2> QED BY <1>1, <1>2, <1>3, <2>1, <2>2
<1>6. Precision * q2 >= Precision * q1
  BY <1>1, <1>2, <1>3, <1>5
<1> QED BY <1>1, <1>2, <1>3, <1>4, <1>6

-----------------------------------------------------------------------------
(* Rows *)

Row == [id : Ids, created : 0 .. MaxTime, key : Keys \cup {NoKey}]

\* A non-empty set of numbers has a least one.
LEMMA LeastExists ==
  ASSUME NEW T \in SUBSET Nat, T # {}
  PROVE  \E m \in T : \A n \in T : m <= n
<1> DEFINE less == {ss \in Nat \X Nat : ss[1] < ss[2]}
<1>1. IsWellFoundedOn(less, Nat)
  BY NatLessThanWellFounded DEF OpToRel
<1> HIDE DEF less
<1>2. PICK m \in T : \A n \in T : <<n, m>> \notin less
  BY <1>1, WFMin
<1>3. \A n \in T : ~(n < m)
  BY <1>2 DEF less
<1> QED BY <1>3

\* Among rows of one key one comes first: the oldest, by id among equals.
LEMMA OldestExists ==
  ASSUME NEW T \in SUBSET Row, T # {}, NEW k, \A r \in T : r.key = k
  PROVE  \E r \in T : \A q \in T \ {r} : Before(r, q)
<1>1. \A r \in T : r.created \in Nat /\ r.id \in Nat
  <2>1. \A r \in T : r.id \in Ids /\ r.created \in 0 .. MaxTime
    BY DEF Row
  <2>2. Ids \subseteq Nat /\ 0 .. MaxTime \subseteq Nat
    BY CatalogAssumption
  <2> QED BY <2>1, <2>2
<1>2. PICK first \in T : \A q \in T : first.created <= q.created
  <2> DEFINE times == {r.created : r \in T}
  <2>1. PICK m \in times : \A n \in times : m <= n
    <3>1. times \subseteq Nat /\ times # {}
      BY <1>1
    <3> HIDE DEF times
    <3> QED BY <3>1, LeastExists
  <2> QED BY <2>1
<1> DEFINE oldest == {r \in T : r.created = first.created}
           ids == {r.id : r \in oldest}
<1>3. PICK m \in ids : \A n \in ids : m <= n
  <2>1. ids \subseteq Nat /\ ids # {}
    BY <1>1
  <2> HIDE DEF ids
  <2> QED BY <2>1, LeastExists
<1>4. PICK r \in oldest : r.id = m
  BY <1>3
<1>5. ASSUME NEW q \in T, q # r PROVE Before(r, q)
  <2>1. r.created <= q.created /\ r.created \in Nat /\ q.created \in Nat
    BY <1>1, <1>2, <1>4
  <2>2. CASE q.created # r.created
    BY <2>1, <2>2 DEF Before
  <2>3. CASE q.created = r.created
    <3>1. q.id # r.id
      BY <1>4, <1>5, <2>3 DEF Row
    <3>2. r.id <= q.id /\ r.id \in Nat /\ q.id \in Nat
      BY <1>1, <1>3, <1>4, <2>3
    <3> QED BY <2>3, <3>1, <3>2 DEF Before
  <2> QED BY <2>2, <2>3
<1> QED BY <1>4, <1>5

\* Where the lookup finds no run, there is none in the period.
LEMMA NothingFound ==
  ASSUME rows \subseteq Row, now \in Nat, NEW k \in Keys, Existing(k) = {}
  PROVE  \A r \in rows : r.key = k => r.created < Stamp(now) - Period
<1> DEFINE within == {r \in rows : r.key = k /\ r.created >= Stamp(now) - Period}
<1>1. Existing(k) = {r \in within : \A q \in within \ {r} : Before(r, q)}
  BY DEF Existing, Stamp
<1>2. within \in SUBSET Row /\ \A r \in within : r.key = k
  OBVIOUS
<1>3. within # {} => \E r \in within : \A q \in within \ {r} : Before(r, q)
  <2> HIDE DEF within
  <2> QED BY <1>2, OldestExists
<1>4. within = {}
  BY <1>1, <1>3
<1>5. Stamp(now) \in Nat /\ Period \in Nat
  BY StampParts, CatalogAssumption
<1>6. \A r \in rows : r.created \in Nat
  BY CatalogAssumption DEF Row
<1> QED BY <1>4, <1>5, <1>6

-----------------------------------------------------------------------------
(* The invariant *)

Call == [pc : {"idle", "connected", "locked", "inserting", "unlocking"},
         key : Keys \cup {NoKey}, answer : Ids \cup {NoRow}]

\* Whoever is past the lock of its key has it; SQLite's creations take one step.
Holders ==
  /\ \A c \in Creators : call[c].pc # "idle" => call[c].key \in Keys
  /\ \A c \in Creators :
       call[c].pc \in {"locked", "inserting", "unlocking"} => lock[call[c].key] = c
  /\ backend = "sqlite" => \A c \in Creators : call[c].pc = "idle"

\* Whoever is about to insert a run has none of its key to fear.
NoneWithin ==
  \A c \in Creators : call[c].pc = "inserting" =>
    \A r \in rows : r.key = call[c].key => r.created < Stamp(now) - Period

Listed ==
  listing = [pc |-> listing.pc, order |-> listing.order, page |-> listing.page,
             present |-> listing.present, read |-> listing.read]

IInv == TypeOK /\ Listed /\ Holders /\ NoneWithin /\ OneRunPerKey

LEMMA InitInv == Init => IInv
<1> SUFFICES ASSUME Init PROVE IInv
  OBVIOUS
<1>1. TypeOK
  BY CatalogAssumption DEF Init, TypeOK, Idle, NoListing
<1>2. Listed
  BY DEF Init, Listed, NoListing
<1>3. Holders /\ NoneWithin /\ OneRunPerKey
  BY DEF Init, Holders, NoneWithin, OneRunPerKey, Idle
<1> QED BY <1>1, <1>2, <1>3 DEF IInv

LEMMA Parts ==
  ASSUME TypeOK
  PROVE  /\ now \in Nat /\ now <= MaxTime /\ MaxTime \in Nat
         /\ rows \subseteq Row /\ call \in [Creators -> Call]
         /\ lock \in [Keys -> Creators \cup {Nobody}]
         /\ Period \in Nat
BY CatalogAssumption DEF TypeOK, Row, Call

\* A run is added that is the only one of its key in the period.
LEMMA NewRun ==
  ASSUME IInv, NEW id \in Ids, NEW k \in Keys \cup {NoKey},
         k # NoKey => \A r \in rows : r.key = k => r.created < Stamp(now) - Period,
         rows' = rows \cup {NewRow(id, k)}, now' = now, UNCHANGED listing
  PROVE  /\ rows' \subseteq Row /\ OneRunPerKey' /\ listing.present \subseteq rows'
         /\ \A r \in rows' : r \in rows \/ r.key = k
<1>1. Stamp(now) \in Nat /\ Stamp(now) <= now
  BY Parts, StampParts DEF IInv
<1>2. NewRow(id, k) \in Row
  BY <1>1, Parts DEF IInv, NewRow, Row
<1>3. rows' \subseteq Row
  BY <1>2, Parts DEF IInv
<1>4. OneRunPerKey'
  <2>1. ASSUME NEW r \in rows, r.key = k, k # NoKey
        PROVE  Stamp(now) - r.created > Period
    <3>1. r.created \in Nat /\ r.created < Stamp(now) - Period /\ Period \in Nat
      BY <2>1, Parts DEF IInv, Row
    <3> QED BY <1>1, <3>1
  <2>2. NewRow(id, k).created = Stamp(now) /\ NewRow(id, k).key = k
    BY DEF NewRow
  <2>3. ASSUME NEW r1 \in rows', NEW r2 \in rows',
               r1 # r2, r1.key = r2.key, r1.key # NoKey
        PROVE  r1.created - r2.created > Period \/ r2.created - r1.created > Period
    <3>1. CASE r1 \in rows /\ r2 \in rows
      BY <2>3, <3>1 DEF IInv, OneRunPerKey
    <3>2. CASE r1 \in rows /\ r2 = NewRow(id, k)
      BY <2>1, <2>2, <2>3, <3>2
    <3>3. CASE r1 = NewRow(id, k) /\ r2 \in rows
      BY <2>1, <2>2, <2>3, <3>3
    <3> QED BY <2>3, <3>1, <3>2, <3>3
  <2> QED BY <2>3 DEF OneRunPerKey
<1>5. listing.present \subseteq rows'
  BY DEF IInv, TypeOK
<1>6. \A r \in rows' : r \in rows \/ r.key = k
  BY DEF NewRow
<1> QED BY <1>3, <1>4, <1>5, <1>6

-----------------------------------------------------------------------------
(* One lemma for each group of actions *)

\* A run without a key, or within one transaction of SQLite.
LEMMA InsertAtOnce ==
  ASSUME IInv, NEW k \in Keys \cup {NoKey},
         k = NoKey \/ (backend = "sqlite" /\ Existing(k) = {}),
         NEW id \in Ids, rows' = rows \cup {NewRow(id, k)},
         UNCHANGED <<backend, now, lock, call, listing, crashes>>
  PROVE  IInv'
<1>1. k # NoKey => \A r \in rows : r.key = k => r.created < Stamp(now) - Period
  BY NothingFound, Parts DEF IInv
<1>2. /\ rows' \subseteq Row /\ OneRunPerKey' /\ listing.present \subseteq rows'
      /\ \A r \in rows' : r \in rows \/ r.key = k
  BY <1>1, NewRun
<1>3. TypeOK'
  BY <1>2 DEF IInv, TypeOK, Row
<1>4. Listed' /\ Holders'
  BY DEF IInv, Listed, Holders
<1>5. NoneWithin'
  <2>1. ASSUME NEW c \in Creators, call[c].pc = "inserting" PROVE call[c].key # k
    BY <2>1, CatalogAssumption DEF IInv, Holders
  <2>2. Stamp(now)' = Stamp(now)
    BY DEF Stamp
  <2> QED BY <1>2, <2>1, <2>2 DEF IInv, NoneWithin
<1> QED BY <1>2, <1>3, <1>4, <1>5 DEF IInv

\* A call moves on: to a key, past a lock, to an answer.
LEMMA CallMoves ==
  ASSUME IInv, NEW c \in Creators, NEW new \in Call,
         call' = [call EXCEPT ![c] = new],
         UNCHANGED <<backend, now, rows, lock, listing, crashes>>,
         backend = "postgres", new.key \in Keys, new.pc # "idle",
         new.pc = "connected" \/ lock[new.key] = c,
         \A k \in Keys : lock[k] = c => new.key = k /\ new.pc # "connected",
         new.pc = "inserting" =>
           \A r \in rows : r.key = new.key => r.created < Stamp(now) - Period
  PROVE  IInv'
<1>1. call'[c] = new /\ call' \in [Creators -> Call]
      /\ \A d \in Creators \ {c} : call'[d] = call[d]
  BY Parts DEF IInv
<1>2. TypeOK'
  <2>1. ASSUME NEW k \in Keys, lock[k] # Nobody
        PROVE  /\ call'[lock[k]].key = k
               /\ call'[lock[k]].pc \in {"locked", "inserting", "unlocking"}
    <3>1. CASE lock[k] = c
      BY <1>1, <3>1 DEF Call
    <3>2. CASE lock[k] # c
      BY <1>1, <2>1, <3>2, Parts DEF IInv, TypeOK
    <3> QED BY <3>1, <3>2
  <2> QED BY <1>1, <2>1 DEF IInv, TypeOK, Call
<1>3. Listed' /\ OneRunPerKey'
  BY DEF IInv, Listed, OneRunPerKey
<1>4. Holders'
  BY <1>1 DEF IInv, Holders, Call
<1>5. NoneWithin'
  <2>1. Stamp(now)' = Stamp(now)
    BY DEF Stamp
  <2> QED BY <1>1, <2>1 DEF IInv, NoneWithin
<1> QED BY <1>2, <1>3, <1>4, <1>5 DEF IInv

\* Nobody who is not past a lock has one.
LEMMA LocksHeld ==
  ASSUME IInv, NEW c \in Creators, NEW k \in Keys, lock[k] = c
  PROVE  call[c].key = k /\ call[c].pc \in {"locked", "inserting", "unlocking"}
BY CatalogAssumption DEF IInv, TypeOK

LEMMA ConnectStep ==
  ASSUME IInv, NEW c \in Creators, NEW k \in Keys, Connect(c, k)
  PROVE  IInv'
<1> DEFINE new == [pc |-> "connected", key |-> k, answer |-> NoRow]
<1>1. new \in Call /\ new.pc = "connected" /\ new.key = k
  BY DEF Call
<1>2. call' = [call EXCEPT ![c] = new]
  BY DEF Connect
<1>3. \A j \in Keys : lock[j] # c
  BY LocksHeld DEF Connect
<1>4. backend = "postgres" /\ UNCHANGED <<backend, now, rows, lock, listing, crashes>>
  BY DEF Connect
<1> HIDE DEF new
<1> QED BY <1>1, <1>2, <1>3, <1>4, CallMoves

LEMMA LookUpStep ==
  ASSUME IInv, NEW c \in Creators, LookUp(c)
  PROVE  IInv'
<1> DEFINE k == call[c].key
<1>1. /\ call[c] \in Call /\ call[c].pc = "locked" /\ k \in Keys /\ lock[k] = c
      /\ backend = "postgres"
      /\ UNCHANGED <<backend, now, rows, lock, listing, crashes>>
  BY Parts DEF IInv, Holders, LookUp, TypeOK
<1>2. \A j \in Keys : lock[j] = c => k = j
  BY LocksHeld
<1>3. CASE Existing(k) = {} /\ call' = [call EXCEPT ![c] = [call[c] EXCEPT !.pc = "inserting"]]
  <2> DEFINE new == [call[c] EXCEPT !.pc = "inserting"]
  <2>1. new \in Call /\ new.key = k /\ new.pc = "inserting"
    BY <1>1 DEF Call
  <2>2. \A r \in rows : r.key = k => r.created < Stamp(now) - Period
    BY <1>1, <1>3, NothingFound, Parts DEF IInv
  <2>3. call' = [call EXCEPT ![c] = new]
    BY <1>3
  <2> HIDE DEF k, new
  <2> QED BY <1>1, <1>2, <2>1, <2>2, <2>3, CallMoves
<1>4. CASE \E r \in Existing(k) :
             call' = [call EXCEPT ![c] = [call[c] EXCEPT !.pc = "unlocking", !.answer = r.id]]
  <2>1. PICK r \in Existing(k) :
          call' = [call EXCEPT ![c] = [call[c] EXCEPT !.pc = "unlocking", !.answer = r.id]]
    BY <1>4
  <2> DEFINE new == [call[c] EXCEPT !.pc = "unlocking", !.answer = r.id]
  <2>2. r \in rows
    BY DEF Existing
  <2>3. r.id \in Ids
    BY <2>2, Parts DEF IInv, Row
  <2>4. new \in Call /\ new.key = k /\ new.pc = "unlocking"
    BY <1>1, <2>3 DEF Call
  <2>5. call' = [call EXCEPT ![c] = new]
    BY <2>1
  <2> HIDE DEF k, new
  <2> QED BY <1>1, <1>2, <2>4, <2>5, CallMoves
<1> QED BY <1>3, <1>4 DEF LookUp

LEMMA LockStep ==
  ASSUME IInv, NEW c \in Creators, Lock(c)
  PROVE  IInv'
<1> DEFINE k == call[c].key
<1>1. /\ call[c].pc = "connected" /\ k \in Keys /\ lock[k] = Nobody
      /\ lock' = [lock EXCEPT ![k] = c]
      /\ call' = [call EXCEPT ![c] = [call[c] EXCEPT !.pc = "locked"]]
      /\ UNCHANGED <<backend, now, rows, listing, crashes>>
  BY DEF IInv, Holders, Lock, MayLock
<1> HIDE DEF k
<1>2. /\ lock' \in [Keys -> Creators \cup {Nobody}] /\ lock'[k] = c
      /\ \A j \in Keys \ {k} : lock'[j] = lock[j]
  BY <1>1, Parts DEF IInv
<1>3. /\ call' \in [Creators -> Call]
      /\ call'[c].pc = "locked" /\ call'[c].key = k
      /\ \A d \in Creators \ {c} : call'[d] = call[d]
  BY <1>1, Parts DEF IInv, Call, k
<1>4. \A j \in Keys : lock[j] # c
  BY <1>1, LocksHeld
<1>5. TypeOK'
  <2>1. ASSUME NEW j \in Keys, lock'[j] # Nobody
        PROVE  /\ call'[lock'[j]].key = j
               /\ call'[lock'[j]].pc \in {"locked", "inserting", "unlocking"}
    <3>1. CASE j = k
      BY <1>2, <1>3, <3>1
    <3>2. CASE j # k
      BY <1>2, <1>3, <1>4, <2>1, <3>2, Parts DEF IInv, TypeOK
    <3> QED BY <3>1, <3>2
  <2> QED BY <1>1, <1>2, <1>3, <2>1 DEF IInv, TypeOK, Call
<1>6. Holders'
  <2>1. ASSUME NEW d \in Creators, call'[d].pc \in {"locked", "inserting", "unlocking"}
        PROVE  lock'[call'[d].key] = d
    <3>1. CASE d = c
      BY <1>2, <1>3, <3>1
    <3>2. CASE d # c
      <4>1. call[d].key \in Keys /\ lock[call[d].key] = d
        BY <1>3, <2>1, <3>2 DEF IInv, Holders
      <4>2. call[d].key # k
        BY <1>1, <4>1, CatalogAssumption
      <4> QED BY <1>2, <1>3, <3>2, <4>1, <4>2
    <3> QED BY <3>1, <3>2
  <2>2. \A d \in Creators : call'[d].pc # "idle" => call'[d].key \in Keys
    BY <1>1, <1>3 DEF IInv, Holders
  <2>3. backend # "sqlite"
    BY <1>1 DEF IInv, Holders
  <2> QED BY <1>1, <2>1, <2>2, <2>3 DEF Holders
<1>7. Listed' /\ OneRunPerKey'
  BY <1>1 DEF IInv, Listed, OneRunPerKey
<1>8. NoneWithin'
  BY <1>1, <1>3 DEF IInv, NoneWithin, Stamp
<1> QED BY <1>5, <1>6, <1>7, <1>8 DEF IInv

\* The insertion: nobody else is about to insert a run of the key.
LEMMA InsertStep ==
  ASSUME IInv, NEW c \in Creators, Insert(c)
  PROVE  IInv'
<1> DEFINE k == call[c].key
<1>1. PICK id \in Unused :
        /\ rows' = rows \cup {NewRow(id, k)}
        /\ call' = [call EXCEPT ![c] = [call[c] EXCEPT !.pc = "unlocking", !.answer = id]]
  BY DEF Insert
<1>2. /\ call[c].pc = "inserting" /\ k \in Keys /\ lock[k] = c /\ backend = "postgres"
      /\ id \in Ids /\ UNCHANGED <<backend, now, lock, listing, crashes>>
  BY DEF IInv, Holders, Insert, Unused, TypeOK
<1> HIDE DEF k
<1>3. \A r \in rows : r.key = k => r.created < Stamp(now) - Period
  BY <1>2 DEF IInv, NoneWithin, k
<1>4. /\ rows' \subseteq Row /\ OneRunPerKey' /\ listing.present \subseteq rows'
      /\ \A r \in rows' : r \in rows \/ r.key = k
  BY <1>1, <1>2, <1>3, NewRun
<1>5. /\ call' \in [Creators -> Call]
      /\ call'[c].pc = "unlocking" /\ call'[c].key = k
      /\ \A d \in Creators \ {c} : call'[d] = call[d]
  BY <1>1, <1>2, Parts DEF IInv, Call, k
<1>6. TypeOK'
  <2>1. ASSUME NEW j \in Keys, lock[j] # Nobody
        PROVE  /\ call'[lock[j]].key = j
               /\ call'[lock[j]].pc \in {"locked", "inserting", "unlocking"}
    <3>1. CASE lock[j] = c
      BY <1>5, <3>1, LocksHeld DEF k
    <3>2. CASE lock[j] # c
      BY <1>5, <2>1, <3>2, Parts DEF IInv, TypeOK
    <3> QED BY <3>1, <3>2
  <2> QED BY <1>2, <1>4, <1>5, <2>1 DEF IInv, TypeOK, Call, Row
<1>7. Holders' /\ Listed'
  BY <1>2, <1>5 DEF IInv, Holders, Listed
<1>8. NoneWithin'
  <2>1. ASSUME NEW d \in Creators, call'[d].pc = "inserting" PROVE d # c /\ call[d].key # k
    BY <1>2, <1>5, <2>1 DEF IInv, Holders
  <2>2. Stamp(now)' = Stamp(now)
    BY <1>2 DEF Stamp
  <2> QED BY <1>4, <1>5, <2>1, <2>2 DEF IInv, NoneWithin
<1> QED BY <1>4, <1>6, <1>7, <1>8 DEF IInv

\* A call is over, and with it the lock it held.
LEMMA ReleaseStep ==
  ASSUME IInv, NEW c \in Creators, Unlock(c) \/ Crash(c)
  PROVE  IInv'
<1>1. /\ call' = [call EXCEPT ![c] = Idle]
      /\ UNCHANGED <<backend, now, rows, listing>>
      /\ crashes' \in 0 .. MaxCrashes
  BY CatalogAssumption DEF IInv, TypeOK, Unlock, Crash
<1>2. lock' = [k \in Keys |-> IF lock[k] = c THEN Nobody ELSE lock[k]]
  <2>1. CASE Unlock(c)
    <3>1. /\ call[c].key \in Keys /\ lock[call[c].key] = c
          /\ lock' = [lock EXCEPT ![call[c].key] = Nobody]
      BY <2>1 DEF IInv, Holders, Unlock
    <3>2. \A k \in Keys : lock[k] = c => k = call[c].key
      BY LocksHeld
    <3> QED BY <3>1, <3>2, Parts DEF IInv
  <2>2. CASE Crash(c)
    BY <2>2 DEF Crash
  <2> QED BY <2>1, <2>2
<1>3. /\ call' \in [Creators -> Call] /\ call'[c] = Idle
      /\ \A d \in Creators \ {c} : call'[d] = call[d]
  BY <1>1, Parts DEF IInv, Call, Idle
<1>4. /\ lock' \in [Keys -> Creators \cup {Nobody}]
      /\ \A k \in Keys : lock'[k] # c /\ (lock'[k] # Nobody => lock'[k] = lock[k])
  BY <1>2, Parts, CatalogAssumption DEF IInv
<1>5. TypeOK'
  <2>1. ASSUME NEW k \in Keys, lock'[k] # Nobody
        PROVE  /\ call'[lock'[k]].key = k
               /\ call'[lock'[k]].pc \in {"locked", "inserting", "unlocking"}
    <3>1. lock'[k] = lock[k] /\ lock[k] \in Creators \ {c}
      BY <1>4, <2>1, Parts DEF IInv
    <3> QED BY <1>3, <2>1, <3>1 DEF IInv, TypeOK
  <2> QED BY <1>1, <1>3, <1>4, <2>1 DEF IInv, TypeOK, Call
<1>6. Holders'
  BY <1>1, <1>2, <1>3 DEF IInv, Holders, Idle
<1>7. Listed' /\ OneRunPerKey'
  BY <1>1 DEF IInv, Listed, OneRunPerKey
<1>8. NoneWithin'
  BY <1>1, <1>3 DEF IInv, NoneWithin, Stamp, Idle
<1> QED BY <1>5, <1>6, <1>7, <1>8 DEF IInv

\* The period moves on.
LEMMA PassStep == IInv /\ Pass => IInv'
<1> SUFFICES ASSUME IInv, Pass PROVE IInv'
  OBVIOUS
<1>1. /\ now \in Nat /\ now' = now + 1 /\ now' \in 0 .. MaxTime
      /\ UNCHANGED <<backend, rows, lock, call, listing, crashes>>
  BY Parts DEF IInv, Pass
<1>2. TypeOK'
  BY <1>1 DEF IInv, TypeOK
<1>3. Listed' /\ Holders' /\ OneRunPerKey'
  BY <1>1 DEF IInv, Listed, Holders, OneRunPerKey
<1>4. NoneWithin'
  <2>1. /\ Stamp(now)' = Stamp(now + 1) /\ Stamp(now) <= Stamp(now + 1)
        /\ Stamp(now) \in Nat /\ Stamp(now + 1) \in Nat /\ Period \in Nat
    BY <1>1, StampGrows, StampParts, Parts DEF IInv, Stamp
  <2>2. \A r \in rows : r.created \in Nat
    BY Parts DEF IInv, Row
  <2> QED BY <1>1, <2>1, <2>2 DEF IInv, NoneWithin
<1> QED BY <1>2, <1>3, <1>4 DEF IInv

\* A listing reads the table and changes nothing else.
LEMMA ListingStep ==
  ASSUME IInv, StartListing \/ NextPage \/ TurnBack \/ PreviousPage
  PROVE  IInv'
<1>1. UNCHANGED <<backend, now, rows, lock, call, crashes>>
  BY DEF StartListing, NextPage, TurnBack, PreviousPage
<1>2. /\ Listed' /\ listing'.pc \in {"idle", "forward", "back"}
      /\ listing'.order \in {"ASC", "DESC"} /\ listing'.present \subseteq rows
  <2>1. CASE StartListing
    BY <2>1 DEF StartListing, Listed
  <2>2. CASE NextPage
    BY <2>2 DEF IInv, TypeOK, NextPage, Listed
  <2>3. CASE TurnBack
    BY <2>3 DEF IInv, TypeOK, TurnBack, Listed
  <2>4. CASE PreviousPage
    BY <2>4 DEF IInv, TypeOK, PreviousPage, Listed
  <2> QED BY <2>1, <2>2, <2>3, <2>4
<1>3. TypeOK'
  BY <1>1, <1>2 DEF IInv, TypeOK
<1>4. Holders' /\ NoneWithin' /\ OneRunPerKey'
  BY <1>1 DEF IInv, Holders, NoneWithin, OneRunPerKey, Stamp
<1> QED BY <1>2, <1>3, <1>4 DEF IInv

LEMMA NextInv == IInv /\ [Next]_vars => IInv'
<1> SUFFICES ASSUME IInv, [Next]_vars PROVE IInv'
  OBVIOUS
<1>1. ASSUME NEW c \in Creators, CreateUnkeyed(c) PROVE IInv'
  BY <1>1, InsertAtOnce DEF CreateUnkeyed, Unused
<1>2. ASSUME NEW c \in Creators, NEW k \in Keys, CreateAtOnce(c, k) PROVE IInv'
  BY <1>2, InsertAtOnce DEF CreateAtOnce, Unused
<1>3. ASSUME NEW c \in Creators, NEW k \in Keys, Connect(c, k) PROVE IInv'
  BY <1>3, ConnectStep
<1>4. ASSUME NEW c \in Creators, Serve(c) \/ Crash(c) PROVE IInv'
  BY <1>4, LockStep, LookUpStep, InsertStep, ReleaseStep DEF Serve
<1>5. CASE StartListing \/ NextPage \/ TurnBack \/ PreviousPage
  BY <1>5, ListingStep
<1>6. CASE Pass
  BY <1>6, PassStep
<1>7. CASE UNCHANGED vars
  BY <1>7 DEF vars, IInv, TypeOK, Listed, Holders, NoneWithin, OneRunPerKey, Stamp
<1> QED BY <1>1, <1>2, <1>3, <1>4, <1>5, <1>6, <1>7 DEF Next

LEMMA Invariance == Spec => []IInv
BY InitInv, NextInv, PTL DEF Spec

-----------------------------------------------------------------------------
(* The order of rows *)

\* What the order of listings needs of a set of rows.
Listable(R) ==
  /\ IsFiniteSet(R)
  /\ \A r \in R : r.created \in Nat /\ r.id \in Nat
  /\ \A a, b \in R : a.id = b.id => a = b

Orders == {"ASC", "DESC"}

LEMMA PrecedesIsAnOrder ==
  ASSUME NEW R, Listable(R), NEW order
  PROVE  /\ \A a \in R : ~Precedes(a, a, order)
         /\ \A a, b \in R : a # b => Precedes(a, b, order) \/ Precedes(b, a, order)
         /\ \A a, b, c \in R :
              Precedes(a, b, order) /\ Precedes(b, c, order) => Precedes(a, c, order)
         /\ \A a, b \in R : Precedes(a, b, order) => ~Precedes(b, a, order)
<1>1. \A r \in R : r.created \in Nat /\ r.id \in Nat
  BY DEF Listable
<1>2. \A a, b \in R : a # b => a.id # b.id
  BY DEF Listable
<1>3. \A a \in R : ~Before(a, a)
  BY <1>1 DEF Before
<1>4. \A a, b \in R : a # b => Before(a, b) \/ Before(b, a)
  BY <1>1, <1>2 DEF Before
<1>5. \A a, b, c \in R : Before(a, b) /\ Before(b, c) => Before(a, c)
  BY <1>1 DEF Before
<1>6. \A a, b \in R : Before(a, b) => ~Before(b, a)
  BY <1>1 DEF Before
<1> QED BY <1>3, <1>4, <1>5, <1>6 DEF Precedes

LEMMA Flipped ==
  ASSUME NEW a, NEW b, NEW order \in Orders
  PROVE  Precedes(a, b, Flip(order)) <=> Precedes(b, a, order)
BY DEF Orders, Flip, Precedes

LEMMA SubsetListable ==
  ASSUME NEW R, Listable(R), NEW S \in SUBSET R
  PROVE  Listable(S)
BY FS_Subset DEF Listable

LEMMA IntervalSize ==
  ASSUME NEW n \in Nat
  PROVE  IsFiniteSet(1 .. n) /\ Cardinality(1 .. n) = n
<1>1. 1 \in Int /\ n \in Int /\ (1 > n => n = 0)
  OBVIOUS
<1>2. IsFiniteSet(1 .. n) /\ Cardinality(1 .. n) = IF 1 > n THEN 0 ELSE n - 1 + 1
  BY <1>1, FS_Interval
<1> QED BY <1>1, <1>2

\* The rows that come before one of them tell its place.
LEMMA Ranks ==
  ASSUME NEW S, Listable(S), NEW order
  PROVE  /\ \A r \in S : /\ Cardinality({q \in S : Precedes(q, r, order)}) \in Nat
                         /\ Cardinality({q \in S : Precedes(q, r, order)}) < Cardinality(S)
         /\ \A r, p \in S : Precedes(r, p, order) =>
              Cardinality({q \in S : Precedes(q, r, order)})
                < Cardinality({q \in S : Precedes(q, p, order)})
<1> DEFINE Less(r) == {q \in S : Precedes(q, r, order)}
<1>1. IsFiniteSet(S)
  BY DEF Listable
<1>2. ASSUME NEW r \in S
      PROVE  /\ IsFiniteSet(Less(r)) /\ Cardinality(Less(r)) \in Nat
             /\ Cardinality(Less(r)) < Cardinality(S)
  <2>1. Less(r) \in SUBSET S /\ r \notin Less(r)
    BY PrecedesIsAnOrder
  <2>2. Less(r) # S
    BY <2>1
  <2> HIDE DEF Less
  <2>3. /\ IsFiniteSet(Less(r)) /\ Cardinality(Less(r)) <= Cardinality(S)
        /\ Cardinality(Less(r)) # Cardinality(S)
    BY <1>1, <2>1, <2>2, FS_Subset
  <2>4. Cardinality(Less(r)) \in Nat /\ Cardinality(S) \in Nat
    BY <1>1, <2>3, FS_CardinalityType
  <2> QED BY <2>3, <2>4
<1>3. ASSUME NEW r \in S, NEW p \in S, Precedes(r, p, order)
      PROVE  Cardinality(Less(r)) < Cardinality(Less(p))
  <2>1. \A q \in Less(r) : q \in Less(p)
    BY <1>3, PrecedesIsAnOrder
  <2>2. r \in Less(p) /\ r \notin Less(r)
    BY <1>3, PrecedesIsAnOrder
  <2>3. Less(r) \in SUBSET Less(p) /\ Less(r) # Less(p)
    <3> HIDE DEF Less
    <3> QED BY <2>1, <2>2
  <2>4. IsFiniteSet(Less(p)) /\ Cardinality(Less(p)) \in Nat /\ Cardinality(Less(r)) \in Nat
    BY <1>2
  <2> HIDE DEF Less
  <2>5. Cardinality(Less(r)) <= Cardinality(Less(p)) /\ Cardinality(Less(r)) # Cardinality(Less(p))
    BY <2>3, <2>4, FS_Subset
  <2> QED BY <2>4, <2>5
<1> QED BY <1>2, <1>3

\* What Sorted returns: every row once, each after those that precede it.
LEMMA SortedIs ==
  ASSUME NEW S, Listable(S), NEW order
  PROVE  /\ Cardinality(S) \in Nat
         /\ Sorted(S, order) \in [1 .. Cardinality(S) -> S]
         /\ \A m, n \in 1 .. Cardinality(S) :
              m < n => Precedes(Sorted(S, order)[m], Sorted(S, order)[n], order)
         /\ \A r \in S : \E n \in 1 .. Cardinality(S) : Sorted(S, order)[n] = r
<1> DEFINE N == Cardinality(S)
           Rank(r) == Cardinality({q \in S : Precedes(q, r, order)})
           rank == [r \in S |-> Rank(r) + 1]
           At(n) == CHOOSE r \in S : Rank(r) = n - 1
<1>1. N \in Nat
  BY FS_CardinalityType DEF Listable
<1>2. \A r \in S : Rank(r) \in Nat /\ Rank(r) < N
  BY Ranks
<1>3. \A r, p \in S : Precedes(r, p, order) => Rank(r) < Rank(p)
  BY Ranks
<1>4. Sorted(S, order) = [n \in 1 .. N |-> At(n)]
  BY DEF Sorted
<1> HIDE DEF N, Rank
<1>5. rank \in [S -> 1 .. N] /\ \A r \in S : rank[r] = Rank(r) + 1
  BY <1>1, <1>2
<1> HIDE DEF rank
<1>6. \A r, p \in S : rank[r] = rank[p] => r = p
  <2>1. \A r, p \in S : r # p => Precedes(r, p, order) \/ Precedes(p, r, order)
    BY PrecedesIsAnOrder
  <2> QED BY <1>2, <1>3, <1>5, <2>1
<1>7. rank \in Surjection(S, 1 .. N)
  <2>1. rank \in Injection(S, 1 .. N)
    BY <1>5, <1>6 DEF Injection, IsInjective
  <2>2. IsFiniteSet(1 .. N) /\ Cardinality(1 .. N) = N
    BY <1>1, IntervalSize
  <2>3. IsFiniteSet(S) /\ Cardinality(S) = N
    BY DEF Listable, N
  <2> QED BY <2>1, <2>2, <2>3, FS_Injection
<1>8. \A n \in 1 .. N : \E r \in S : rank[r] = n
  BY <1>7 DEF Surjection
<1>9. ASSUME NEW n \in 1 .. N PROVE At(n) \in S /\ rank[At(n)] = n
  <2>1. PICK r \in S : rank[r] = n
    BY <1>8
  <2>2. Rank(r) = n - 1
    BY <1>2, <1>5, <2>1
  <2>3. At(n) \in S /\ Rank(At(n)) = n - 1
    BY <2>2
  <2> HIDE DEF At
  <2> QED BY <1>1, <1>5, <2>3
<1> HIDE DEF At
<1>10. Sorted(S, order) \in [1 .. N -> S] /\ \A n \in 1 .. N : Sorted(S, order)[n] = At(n)
  BY <1>4, <1>9
<1>11. ASSUME NEW m \in 1 .. N, NEW n \in 1 .. N, m < n
       PROVE  Precedes(At(m), At(n), order)
  <2>1. At(m) \in S /\ At(n) \in S /\ rank[At(m)] = m /\ rank[At(n)] = n
    BY <1>9
  <2>2. At(m) # At(n)
    BY <1>11, <2>1
  <2>3. Precedes(At(m), At(n), order) \/ Precedes(At(n), At(m), order)
    BY <2>1, <2>2, PrecedesIsAnOrder
  <2>4. ~Precedes(At(n), At(m), order)
    BY <1>2, <1>3, <1>5, <1>11, <2>1
  <2> QED BY <2>3, <2>4
<1>12. ASSUME NEW r \in S PROVE At(rank[r]) = r /\ rank[r] \in 1 .. N
  BY <1>5, <1>6, <1>9
<1> QED BY <1>1, <1>10, <1>11, <1>12 DEF N

-----------------------------------------------------------------------------
(* A page *)

Ordered(s, order) == \A i, j \in DOMAIN s : i < j => Precedes(s[i], s[j], order)

\* What the database answers: the first rows of S, one more than fit on the page.
Batch(S, order) ==
  SubSeq(Sorted(S, order), 1,
         IF Len(Sorted(S, order)) < Limit + 1 THEN Len(Sorted(S, order)) ELSE Limit + 1)

\* How many rows are on the page.
Shown(S) == IF Cardinality(S) <= Limit THEN Cardinality(S) ELSE Limit

LEMMA BatchIs ==
  ASSUME NEW S, Listable(S), NEW order
  PROVE  \E n \in Nat :
           /\ n = Cardinality(S)
           /\ Sorted(S, order) \in [1 .. n -> S]
           /\ Batch(S, order) \in Seq(S)
           /\ Len(Batch(S, order)) = IF n < Limit + 1 THEN n ELSE Limit + 1
           /\ \A i \in 1 .. Len(Batch(S, order)) : Batch(S, order)[i] = Sorted(S, order)[i]
<1> DEFINE n == Cardinality(S)
           all == Sorted(S, order)
           top == IF n < Limit + 1 THEN n ELSE Limit + 1
<1>1. n \in Nat /\ all \in [1 .. n -> S] /\ Limit \in Nat
  BY SortedIs, CatalogAssumption
<1> HIDE DEF n, all
<1>2. all \in Seq(S) /\ Len(all) = n
  BY <1>1
<1>3. top \in 0 .. n
  BY <1>1
<1>4. Batch(S, order) = SubSeq(all, 1, top)
  BY <1>2 DEF Batch, all
<1> HIDE DEF top
<1>5. /\ SubSeq(all, 1, top) \in Seq(S) /\ Len(SubSeq(all, 1, top)) = top
      /\ \A i \in 1 .. top : SubSeq(all, 1, top)[i] = all[i]
  BY <1>1, <1>2, <1>3
<1> QED BY <1>1, <1>4, <1>5 DEF n, all, top

\* The page forward: the first rows of S in their order.
LEMMA TrimForward ==
  ASSUME NEW S, Listable(S), NEW order
  PROVE  /\ Trim(Batch(S, order), FALSE) \in Seq(S)
         /\ Len(Trim(Batch(S, order), FALSE)) = Shown(S)
         /\ \A i \in 1 .. Shown(S) :
              Trim(Batch(S, order), FALSE)[i] = Sorted(S, order)[i]
<1> DEFINE f == Batch(S, order)
           s == Sorted(S, order)
           c == Cardinality(S)
           n == Shown(S)
<1>1. /\ c \in Nat /\ s \in [1 .. c -> S] /\ f \in Seq(S)
      /\ Len(f) = IF c < Limit + 1 THEN c ELSE Limit + 1
      /\ \A i \in 1 .. Len(f) : f[i] = s[i]
  BY BatchIs
<1>2. Limit \in Nat \ {0}
  BY CatalogAssumption
<1>3. n = IF c <= Limit THEN c ELSE Limit
  BY DEF Shown
<1> HIDE DEF f, s, c, n
<1>4. CASE Len(f) <= Limit
  <2>1. Trim(f, FALSE) = f
    BY <1>4 DEF Trim
  <2>2. Len(f) = n
    BY <1>3, <1>1, <1>2, <1>4
  <2> QED BY <1>1, <1>2, <1>4, <2>1, <2>2 DEF f, s, n
<1>5. CASE Len(f) > Limit
  <2>1. Trim(f, FALSE) = SubSeq(f, 1, Limit)
    BY <1>1, <1>2, <1>5 DEF Trim
  <2>2. Len(f) = Limit + 1 /\ Limit <= c /\ n = Limit
    BY <1>3, <1>1, <1>2, <1>5
  <2>3. /\ SubSeq(f, 1, Limit) \in Seq(S) /\ Len(SubSeq(f, 1, Limit)) = Limit
        /\ \A i \in 1 .. Limit : SubSeq(f, 1, Limit)[i] = f[i]
    BY <1>1, <1>2, <2>2
  <2>4. \A i \in 1 .. Limit : SubSeq(f, 1, Limit)[i] = s[i]
    BY <1>1, <1>2, <2>2, <2>3
  <2> QED BY <1>1, <1>2, <1>5, <2>1, <2>2, <2>3, <2>4 DEF f, s, n
<1>6. Len(f) \in Nat
  BY <1>1
<1>7. Len(f) <= Limit \/ Len(f) > Limit
  BY <1>2, <1>6
<1> QED BY <1>4, <1>5, <1>7

\* The page back: the last rows of S, first the one that comes last in the
\* order the database has them in.
LEMMA TrimBack ==
  ASSUME NEW S, Listable(S), NEW order
  PROVE  /\ Trim(Batch(S, order), TRUE) \in Seq(S)
         /\ Len(Trim(Batch(S, order), TRUE)) = Shown(S)
         /\ \A i \in 1 .. Shown(S) :
              Trim(Batch(S, order), TRUE)[i] = Sorted(S, order)[(Shown(S) - i) + 1]
<1> DEFINE f == Batch(S, order)
           s == Sorted(S, order)
           c == Cardinality(S)
           n == Shown(S)
           r == Reverse(f)
<1>1. /\ c \in Nat /\ s \in [1 .. c -> S] /\ f \in Seq(S)
      /\ Len(f) = IF c < Limit + 1 THEN c ELSE Limit + 1
      /\ \A i \in 1 .. Len(f) : f[i] = s[i]
  BY BatchIs
<1>2. Limit \in Nat \ {0}
  BY CatalogAssumption
<1>3. n = IF c <= Limit THEN c ELSE Limit
  BY DEF Shown
<1> HIDE DEF f, s, c, n
<1>4. r = [i \in 1 .. Len(f) |-> f[(Len(f) - i) + 1]]
  BY DEF Reverse
<1>5. Len(f) \in Nat /\ Len(f) <= c
  BY <1>1, <1>2
<1>6. r \in Seq(S) /\ Len(r) = Len(f) /\ \A i \in 1 .. Len(f) : r[i] = s[(Len(f) - i) + 1]
  <2> HIDE DEF r
  <2>1. \A i \in 1 .. Len(f) : (Len(f) - i) + 1 \in 1 .. Len(f)
    BY <1>5
  <2>2. \A i \in 1 .. Len(f) : f[(Len(f) - i) + 1] \in S
    BY <1>1, <2>1
  <2>3. \A i \in 1 .. Len(f) : r[i] = s[(Len(f) - i) + 1]
    BY <1>1, <1>4, <2>1
  <2>4. r \in [1 .. Len(f) -> S]
    BY <1>4, <2>2
  <2>5. r \in Seq(S) /\ Len(r) = Len(f)
    BY <1>5, <2>4
  <2> QED BY <2>3, <2>5
<1> HIDE DEF r
<1>7. CASE Len(f) <= Limit
  <2>1. Trim(f, TRUE) = r
    BY <1>7 DEF Trim, r
  <2>2. Len(f) = n
    BY <1>3, <1>1, <1>2, <1>7
  <2> QED BY <1>1, <1>2, <1>6, <1>7, <2>1, <2>2 DEF f, s, n
<1>8. CASE Len(f) > Limit
  <2>1. Trim(f, TRUE) = Tail(r)
    BY <1>2, <1>5, <1>8 DEF Trim, r
  <2>2. Len(f) = Limit + 1 /\ Limit <= c /\ n = Limit
    BY <1>3, <1>1, <1>2, <1>8
  <2>3. Tail(r) \in Seq(S) /\ Len(Tail(r)) = Limit /\ \A i \in 1 .. Limit : Tail(r)[i] = r[i + 1]
    BY <1>2, <1>6, <2>2
  <2>4. ASSUME NEW i \in 1 .. Limit PROVE Tail(r)[i] = s[(Limit - i) + 1]
    <3>1. i + 1 \in 1 .. Len(f) /\ (Len(f) - (i + 1)) + 1 = (Limit - i) + 1
      BY <1>2, <2>2
    <3>2. Tail(r)[i] = r[i + 1] /\ r[i + 1] = s[(Len(f) - (i + 1)) + 1]
      BY <1>6, <2>3, <3>1
    <3> QED BY <3>1, <3>2
  <2> QED BY <1>1, <1>2, <1>8, <2>1, <2>2, <2>3, <2>4 DEF f, s, n
<1>9. Len(f) <= Limit \/ Len(f) > Limit
  BY <1>2, <1>5
<1> QED BY <1>7, <1>8, <1>9

\* A page forward is in order; what is behind the cursor is on it, or after it.
LEMMA ForwardData ==
  ASSUME NEW S, Listable(S), NEW order, NEW d \in Seq(S), Len(d) = Shown(S),
         \A i \in 1 .. Shown(S) : d[i] = Sorted(S, order)[i]
  PROVE  /\ Ordered(d, order)
         /\ Len(Batch(S, order)) <= Limit => S \subseteq ToSet(d)
         /\ Len(Batch(S, order)) > Limit =>
              d # <<>> /\ \A r \in S : r \in ToSet(d) \/ Precedes(Last(d), r, order)
<1> DEFINE s == Sorted(S, order)
           c == Cardinality(S)
           n == Shown(S)
           size == Len(Batch(S, order))
<1>1. d \in Seq(S) /\ Len(d) = n /\ \A i \in 1 .. n : d[i] = s[i]
  OBVIOUS
<1>2. /\ c \in Nat /\ s \in [1 .. c -> S]
      /\ \A i, j \in 1 .. c : i < j => Precedes(s[i], s[j], order)
      /\ \A r \in S : \E i \in 1 .. c : s[i] = r
  BY SortedIs
<1>3. size = IF c < Limit + 1 THEN c ELSE Limit + 1
  BY BatchIs
<1>4. n = (IF c <= Limit THEN c ELSE Limit) /\ Limit \in Nat \ {0}
  BY CatalogAssumption DEF Shown
<1> HIDE DEF s, c, n, size
<1>5. n \in Nat /\ n <= c /\ DOMAIN d = 1 .. n
  <2>1. c \in Nat
    BY <1>2
  <2>2. n \in Nat /\ n <= c
    BY <1>4, <2>1
  <2>3. DOMAIN d = 1 .. Len(d) /\ Len(d) = n
    BY <1>1
  <2> QED BY <2>2, <2>3
<1>6. Ordered(d, order)
  BY <1>1, <1>2, <1>5 DEF Ordered
<1>7. ASSUME size <= Limit PROVE S \subseteq ToSet(d)
  <2>1. n = c
    BY <1>2, <1>3, <1>4, <1>7
  <2> QED BY <1>1, <1>2, <1>5, <2>1 DEF ToSet
<1>8. ASSUME size > Limit
      PROVE  d # <<>> /\ \A r \in S : r \in ToSet(d) \/ Precedes(Last(d), r, order)
  <2>1. n = Limit /\ n # 0
    BY <1>2, <1>3, <1>4, <1>8
  <2>2. d # <<>> /\ Last(d) = s[n] /\ n \in 1 .. c
    BY <1>1, <1>5, <2>1 DEF Last
  <2>3. ASSUME NEW r \in S PROVE r \in ToSet(d) \/ Precedes(Last(d), r, order)
    <3>1. PICK i \in 1 .. c : s[i] = r
      BY <1>2
    <3>2. CASE i <= n
      BY <1>1, <1>2, <1>5, <3>1, <3>2 DEF ToSet
    <3>3. CASE i > n
      BY <1>2, <1>5, <2>2, <3>1, <3>3
    <3>4. i <= n \/ i > n
      BY <1>5
    <3> QED BY <3>2, <3>3, <3>4
  <2> QED BY <2>2, <2>3
<1> QED BY <1>1, <1>6, <1>7, <1>8 DEF size

\* The same of a page back, with "before" for "after".
LEMMA BackData ==
  ASSUME NEW S, Listable(S), NEW order \in Orders,
         NEW d \in Seq(S), Len(d) = Shown(S),
         \A i \in 1 .. Shown(S) : d[i] = Sorted(S, Flip(order))[(Shown(S) - i) + 1]
  PROVE  /\ Ordered(d, order)
         /\ Len(Batch(S, Flip(order))) <= Limit => S \subseteq ToSet(d)
         /\ Len(Batch(S, Flip(order))) > Limit =>
              d # <<>> /\ \A r \in S : r \in ToSet(d) \/ Precedes(r, Head(d), order)
<1> DEFINE s == Sorted(S, Flip(order))
           c == Cardinality(S)
           n == Shown(S)
           size == Len(Batch(S, Flip(order)))
<1>1. d \in Seq(S) /\ Len(d) = n /\ \A i \in 1 .. n : d[i] = s[(n - i) + 1]
  OBVIOUS
<1>2. /\ c \in Nat /\ s \in [1 .. c -> S]
      /\ \A i, j \in 1 .. c : i < j => Precedes(s[j], s[i], order)
      /\ \A r \in S : \E i \in 1 .. c : s[i] = r
  <2>1. /\ c \in Nat /\ s \in [1 .. c -> S]
        /\ \A i, j \in 1 .. c : i < j => Precedes(s[i], s[j], Flip(order))
        /\ \A r \in S : \E i \in 1 .. c : s[i] = r
    <3> DEFINE o == Flip(order)
    <3> HIDE DEF o
    <3>1. /\ Cardinality(S) \in Nat /\ Sorted(S, o) \in [1 .. Cardinality(S) -> S]
          /\ \A m, n1 \in 1 .. Cardinality(S) :
               m < n1 => Precedes(Sorted(S, o)[m], Sorted(S, o)[n1], o)
          /\ \A r \in S : \E n1 \in 1 .. Cardinality(S) : Sorted(S, o)[n1] = r
      BY SortedIs
    <3> QED BY <3>1 DEF o
  <2>2. \A i, j \in 1 .. c : Precedes(s[i], s[j], Flip(order)) => Precedes(s[j], s[i], order)
    BY Flipped
  <2> HIDE DEF s, c
  <2> QED BY <2>1, <2>2
<1>3. size = IF c < Limit + 1 THEN c ELSE Limit + 1
  BY BatchIs
<1>4. n = (IF c <= Limit THEN c ELSE Limit) /\ Limit \in Nat \ {0}
  BY CatalogAssumption DEF Shown
<1> HIDE DEF s, c, n, size
<1>5. n \in Nat /\ n <= c /\ DOMAIN d = 1 .. n
  <2>1. c \in Nat
    BY <1>2
  <2>2. n \in Nat /\ n <= c
    BY <1>4, <2>1
  <2>3. DOMAIN d = 1 .. Len(d) /\ Len(d) = n
    BY <1>1
  <2> QED BY <2>2, <2>3
<1>6. Ordered(d, order)
  <2>1. ASSUME NEW i \in 1 .. n, NEW j \in 1 .. n, i < j
        PROVE  Precedes(d[i], d[j], order)
    <3>1. /\ (n - i) + 1 \in 1 .. c /\ (n - j) + 1 \in 1 .. c
          /\ (n - j) + 1 < (n - i) + 1
      BY <1>2, <1>5, <2>1
    <3> QED BY <1>1, <1>2, <3>1
  <2> QED BY <1>5, <2>1 DEF Ordered
<1>7. ASSUME NEW i \in 1 .. n PROVE s[i] \in ToSet(d)
  <2>1. (n - i) + 1 \in 1 .. n /\ (n - ((n - i) + 1)) + 1 = i
    BY <1>5
  <2>2. d[(n - i) + 1] = s[(n - ((n - i) + 1)) + 1]
    BY <1>1, <2>1
  <2> QED BY <1>5, <2>1, <2>2 DEF ToSet
<1>8. ASSUME size <= Limit PROVE S \subseteq ToSet(d)
  <2>1. n = c
    BY <1>2, <1>3, <1>4, <1>8
  <2> QED BY <1>2, <1>7, <2>1
<1>9. ASSUME size > Limit
      PROVE  d # <<>> /\ \A r \in S : r \in ToSet(d) \/ Precedes(r, Head(d), order)
  <2>1. n = Limit /\ n # 0
    BY <1>2, <1>3, <1>4, <1>9
  <2>2. 1 \in 1 .. n /\ (n - 1) + 1 = n /\ n \in 1 .. c
    BY <1>5, <2>1
  <2>3. d # <<>> /\ Head(d) = s[n]
    BY <1>1, <1>5, <2>1, <2>2
  <2>4. ASSUME NEW r \in S PROVE r \in ToSet(d) \/ Precedes(r, Head(d), order)
    <3>1. PICK i \in 1 .. c : s[i] = r
      BY <1>2
    <3>2. CASE i \in 1 .. n
      BY <1>7, <3>1, <3>2
    <3>3. CASE i > n
      BY <1>2, <2>2, <2>3, <3>1, <3>3
    <3>4. i \in 1 .. n \/ i > n
      BY <1>5
    <3> QED BY <3>2, <3>3, <3>4
  <2> QED BY <2>3, <2>4
<1> QED BY <1>1, <1>6, <1>8, <1>9 DEF size

\* Two sequences in order, one before the other.
LEMMA Joined ==
  ASSUME NEW R, NEW a \in Seq(R), NEW b \in Seq(R), NEW order,
         Ordered(a, order), Ordered(b, order),
         \A x \in ToSet(a), y \in ToSet(b) : Precedes(x, y, order)
  PROVE  /\ a \o b \in Seq(R) /\ Ordered(a \o b, order)
         /\ ToSet(a) \subseteq ToSet(a \o b) /\ ToSet(b) \subseteq ToSet(a \o b)
         /\ \A r \in ToSet(a \o b) : r \in ToSet(a) \/ r \in ToSet(b)
<1> DEFINE s == a \o b
<1>1. /\ Len(a) \in Nat /\ Len(b) \in Nat
      /\ DOMAIN a = 1 .. Len(a) /\ DOMAIN b = 1 .. Len(b)
  OBVIOUS
<1>2. /\ s \in Seq(R) /\ Len(s) = Len(a) + Len(b) /\ DOMAIN s = 1 .. Len(a) + Len(b)
      /\ \A i \in 1 .. Len(a) : s[i] = a[i]
      /\ \A i \in Len(a) + 1 .. Len(a) + Len(b) : s[i] = b[i - Len(a)]
  OBVIOUS
<1>3. \A i \in Len(a) + 1 .. Len(a) + Len(b) : i - Len(a) \in 1 .. Len(b)
  BY <1>1
<1>4. \A j \in 1 .. Len(b) : /\ Len(a) + j \in Len(a) + 1 .. Len(a) + Len(b)
                             /\ (Len(a) + j) - Len(a) = j
  BY <1>1
<1> HIDE DEF s
<1>5. ToSet(a) \subseteq ToSet(s)
  BY <1>1, <1>2 DEF ToSet
<1>6. ToSet(b) \subseteq ToSet(s)
  <2>1. ASSUME NEW j \in 1 .. Len(b) PROVE b[j] \in ToSet(s)
    <3>1. s[Len(a) + j] = b[j] /\ Len(a) + j \in DOMAIN s
      BY <1>1, <1>2, <1>4
    <3> QED BY <3>1 DEF ToSet
  <2> QED BY <1>1, <2>1 DEF ToSet
<1>7. \A r \in ToSet(s) : r \in ToSet(a) \/ r \in ToSet(b)
  <2>1. ASSUME NEW i \in DOMAIN s PROVE s[i] \in ToSet(a) \/ s[i] \in ToSet(b)
    <3>1. CASE i \in 1 .. Len(a)
      BY <1>1, <1>2, <3>1 DEF ToSet
    <3>2. CASE i \in Len(a) + 1 .. Len(a) + Len(b)
      BY <1>1, <1>2, <1>3, <3>2 DEF ToSet
    <3> QED BY <1>1, <1>2, <3>1, <3>2
  <2> QED BY <2>1 DEF ToSet
<1>8. ASSUME NEW i \in DOMAIN s, NEW j \in DOMAIN s, i < j
      PROVE  Precedes(s[i], s[j], order)
  <2>1. CASE i \in 1 .. Len(a) /\ j \in 1 .. Len(a)
    BY <1>1, <1>2, <1>8, <2>1 DEF Ordered
  <2>2. CASE i \in 1 .. Len(a) /\ j \in Len(a) + 1 .. Len(a) + Len(b)
    <3>1. s[i] \in ToSet(a) /\ s[j] \in ToSet(b)
      BY <1>1, <1>2, <1>3, <2>2 DEF ToSet
    <3> QED BY <3>1
  <2>3. CASE i \in Len(a) + 1 .. Len(a) + Len(b) /\ j \in Len(a) + 1 .. Len(a) + Len(b)
    <3>1. i - Len(a) < j - Len(a)
      BY <1>1, <1>8, <2>3
    <3> QED BY <1>1, <1>2, <1>3, <2>3, <3>1 DEF Ordered
  <2> QED BY <1>1, <1>2, <1>8, <2>1, <2>2, <2>3
<1> QED BY <1>2, <1>5, <1>6, <1>7, <1>8 DEF s, Ordered

\* The first and the last of a sequence in order.
LEMMA Ends ==
  ASSUME NEW R, NEW s \in Seq(R), NEW order, Ordered(s, order), s # <<>>
  PROVE  /\ Head(s) \in ToSet(s) /\ Last(s) \in ToSet(s)
         /\ \A x \in ToSet(s) : x = Head(s) \/ Precedes(Head(s), x, order)
         /\ \A x \in ToSet(s) : x = Last(s) \/ Precedes(x, Last(s), order)
<1>1. /\ Len(s) \in Nat \ {0} /\ DOMAIN s = 1 .. Len(s)
      /\ 1 \in DOMAIN s /\ Len(s) \in DOMAIN s
      /\ Head(s) = s[1] /\ Last(s) = s[Len(s)]
  BY DEF Last
<1>2. Head(s) \in ToSet(s) /\ Last(s) \in ToSet(s)
  BY <1>1 DEF ToSet
<1>3. ASSUME NEW i \in DOMAIN s
      PROVE  /\ s[i] = Head(s) \/ Precedes(Head(s), s[i], order)
             /\ s[i] = Last(s) \/ Precedes(s[i], Last(s), order)
  <2>1. i = 1 \/ 1 < i
    BY <1>1
  <2>2. i = Len(s) \/ i < Len(s)
    BY <1>1
  <2> QED BY <1>1, <2>1, <2>2 DEF Ordered
<1> QED BY <1>2, <1>3 DEF ToSet

LEMMA JoinedEnds ==
  ASSUME NEW R, NEW a \in Seq(R), NEW b \in Seq(R)
  PROVE  /\ a # <<>> => a \o b # <<>> /\ Head(a \o b) = Head(a)
         /\ b # <<>> => a \o b # <<>> /\ Last(a \o b) = Last(b)
<1>1. /\ Len(a) \in Nat /\ Len(b) \in Nat /\ a \o b \in Seq(R)
      /\ Len(a \o b) = Len(a) + Len(b)
      /\ \A i \in 1 .. Len(a) : (a \o b)[i] = a[i]
      /\ \A i \in Len(a) + 1 .. Len(a) + Len(b) : (a \o b)[i] = b[i - Len(a)]
  OBVIOUS
<1>2. ASSUME a # <<>> PROVE a \o b # <<>> /\ Head(a \o b) = Head(a)
  <2>1. Len(a) # 0 /\ 1 \in 1 .. Len(a)
    BY <1>1, <1>2
  <2>2. Len(a \o b) # 0 /\ (a \o b)[1] = a[1]
    BY <1>1, <2>1
  <2> QED BY <1>1, <1>2, <2>2
<1>3. ASSUME b # <<>> PROVE a \o b # <<>> /\ Last(a \o b) = Last(b)
  <2>1. /\ Len(b) # 0 /\ Len(a) + Len(b) \in Len(a) + 1 .. Len(a) + Len(b)
        /\ (Len(a) + Len(b)) - Len(a) = Len(b)
    BY <1>1, <1>3
  <2>2. Len(a \o b) # 0 /\ (a \o b)[Len(a) + Len(b)] = b[Len(b)]
    BY <1>1, <2>1
  <2> QED BY <1>1, <2>2 DEF Last
<1> QED BY <1>2, <1>3

\* The clock of the cursor tells as much as the clock of the table.
Stamped(R) == \A r \in R : r.created % Precision = 0

LEMMA CursorIsRow ==
  ASSUME NEW R, Listable(R), Stamped(R), NEW r \in R
  PROVE  /\ Cursor(r) # <<>>
         /\ \A x, order : Precedes(Cursor(r), x, order) <=> Precedes(r, x, order)
         /\ \A x, order : Precedes(x, Cursor(r), order) <=> Precedes(x, r, order)
<1>1. r.created \in Nat /\ r.created % Precision = 0
  BY DEF Listable, Stamped
<1>2. Cursor(r) = [id |-> r.id, created |-> r.created]
  BY <1>1 DEF Cursor
<1>3. Cursor(r).id = r.id /\ Cursor(r).created = r.created
  BY <1>2
<1>4. Cursor(r) # <<>>
  <2>1. "id" \in DOMAIN Cursor(r)
    BY <1>2
  <2>2. DOMAIN <<>> = {}
    OBVIOUS
  <2> QED BY <2>1, <2>2
<1> QED BY <1>3, <1>4 DEF Precedes, Before

\* What a page of the rows S says of the rows behind it.
PageAfter(S, p, order) ==
  /\ p.data \in Seq(S) /\ Ordered(p.data, order)
  /\ p.next = <<>> => S \subseteq ToSet(p.data)
  /\ p.next # <<>> =>
       /\ p.data # <<>> /\ p.next = Cursor(Last(p.data))
       /\ \A r \in S : r \in ToSet(p.data) \/ Precedes(Last(p.data), r, order)
  /\ p.prev # <<>> => p.data # <<>> /\ p.prev = Cursor(Head(p.data))

PageBefore(S, p, order) ==
  /\ p.data \in Seq(S) /\ Ordered(p.data, order)
  /\ p.prev = <<>> => S \subseteq ToSet(p.data)
  /\ p.prev # <<>> =>
       /\ p.data # <<>> /\ p.prev = Cursor(Head(p.data))
       /\ \A r \in S : r \in ToSet(p.data) \/ Precedes(r, Head(p.data), order)

LEMMA PageForward ==
  ASSUME Listable(rows), Stamped(rows), NEW cursor, NEW order
  PROVE  /\ PageAfter(Behind(cursor, order), Page(cursor, FALSE, order), order)
         /\ cursor = <<>> => Page(cursor, FALSE, order).prev = <<>>
<1> DEFINE S == Behind(cursor, order)
           f == Batch(S, order)
           d == Trim(f, FALSE)
           p == Page(cursor, FALSE, order)
<1>1. S \subseteq rows /\ Listable(S)
  BY SubsetListable DEF Behind
<1>2. Fetched(cursor, order) = f
  BY DEF Fetched, Batch
<1>3. /\ p.data = d
      /\ p.next = IF Len(f) > Limit /\ d # <<>> THEN Cursor(Last(d)) ELSE <<>>
      /\ p.prev = IF cursor # <<>> /\ d # <<>> THEN Cursor(Head(d)) ELSE <<>>
  BY <1>2 DEF Page
<1> HIDE DEF S
<1>4. /\ d \in Seq(S) /\ Len(d) = Shown(S)
      /\ \A i \in 1 .. Shown(S) : d[i] = Sorted(S, order)[i]
  BY <1>1, TrimForward
<1> HIDE DEF d, p
<1>5. /\ Ordered(d, order)
      /\ Len(f) <= Limit => S \subseteq ToSet(d)
      /\ Len(f) > Limit =>
           d # <<>> /\ \A r \in S : r \in ToSet(d) \/ Precedes(Last(d), r, order)
  BY <1>1, <1>4, ForwardData
<1>6. Len(f) \in Nat /\ Limit \in Nat
  BY <1>1, BatchIs, CatalogAssumption
<1> HIDE DEF f
<1>7. d # <<>> => Cursor(Last(d)) # <<>>
  <2>1. d # <<>> => Last(d) \in rows
    BY <1>1, <1>4, <1>5, Ends DEF ToSet
  <2> QED BY <2>1, CursorIsRow
<1>8. Len(f) <= Limit \/ Len(f) > Limit
  BY <1>6
<1>9. p.next = <<>> => S \subseteq ToSet(p.data)
  BY <1>3, <1>5, <1>7, <1>8
<1>10. p.next # <<>> =>
       /\ p.data # <<>> /\ p.next = Cursor(Last(p.data))
       /\ \A r \in S : r \in ToSet(p.data) \/ Precedes(Last(p.data), r, order)
  BY <1>3, <1>5
<1>11. p.prev # <<>> => p.data # <<>> /\ p.prev = Cursor(Head(p.data))
  BY <1>3
<1>12. PageAfter(S, p, order)
  BY <1>3, <1>4, <1>5, <1>9, <1>10, <1>11 DEF PageAfter
<1> QED BY <1>3, <1>12 DEF S, p

LEMMA PageBack ==
  ASSUME Listable(rows), Stamped(rows), NEW cursor, NEW order \in Orders
  PROVE  PageBefore(Behind(cursor, Flip(order)), Page(cursor, TRUE, order), order)
<1> DEFINE S == Behind(cursor, Flip(order))
           f == Batch(S, Flip(order))
           d == Trim(f, TRUE)
           p == Page(cursor, TRUE, order)
<1>1. S \subseteq rows /\ Listable(S)
  BY SubsetListable DEF Behind
<1>2. Fetched(cursor, Flip(order)) = f
  BY DEF Fetched, Batch
<1>3. /\ p.data = d
      /\ p.prev = IF Len(f) > Limit /\ d # <<>> THEN Cursor(Head(d)) ELSE <<>>
  BY <1>2 DEF Page
<1> HIDE DEF S
<1>4. /\ d \in Seq(S) /\ Len(d) = Shown(S)
      /\ \A i \in 1 .. Shown(S) : d[i] = Sorted(S, Flip(order))[(Shown(S) - i) + 1]
  <2> DEFINE o == Flip(order)
  <2> HIDE DEF o
  <2>1. /\ Trim(Batch(S, o), TRUE) \in Seq(S) /\ Len(Trim(Batch(S, o), TRUE)) = Shown(S)
        /\ \A i \in 1 .. Shown(S) :
             Trim(Batch(S, o), TRUE)[i] = Sorted(S, o)[(Shown(S) - i) + 1]
    BY <1>1, TrimBack
  <2> QED BY <2>1 DEF o
<1>5. Len(f) \in Nat /\ Limit \in Nat
  <2> DEFINE o == Flip(order)
  <2> HIDE DEF o
  <2>1. Len(Batch(S, o)) \in Nat
    BY <1>1, BatchIs
  <2> QED BY <2>1, CatalogAssumption DEF o
<1> HIDE DEF d, p
<1>6. /\ Ordered(d, order)
      /\ Len(f) <= Limit => S \subseteq ToSet(d)
      /\ Len(f) > Limit =>
           d # <<>> /\ \A r \in S : r \in ToSet(d) \/ Precedes(r, Head(d), order)
  BY <1>1, <1>4, BackData
<1> HIDE DEF f
<1>7. d # <<>> => Cursor(Head(d)) # <<>>
  <2>1. d # <<>> => Head(d) \in rows
    BY <1>1, <1>4, <1>6, Ends DEF ToSet
  <2> QED BY <2>1, CursorIsRow
<1>8. Len(f) <= Limit \/ Len(f) > Limit
  BY <1>5
<1>9. p.prev = <<>> => S \subseteq ToSet(p.data)
  BY <1>3, <1>6, <1>7, <1>8
<1>10. p.prev # <<>> =>
       /\ p.data # <<>> /\ p.prev = Cursor(Head(p.data))
       /\ \A r \in S : r \in ToSet(p.data) \/ Precedes(r, Head(p.data), order)
  BY <1>3, <1>6
<1>11. PageBefore(S, p, order)
  BY <1>3, <1>4, <1>6, <1>9, <1>10 DEF PageBefore
<1> QED BY <1>11 DEF S, p

-----------------------------------------------------------------------------
(* A listing *)

\* Going forward: what was there is read or comes after what was read; what was
\* read is on the page or comes before it.
ForwardSound(read, data, present, next, prev, order) ==
  /\ Ordered(read, order) /\ Ordered(data, order)
  /\ next = <<>> => present \subseteq ToSet(read)
  /\ next # <<>> =>
       /\ read # <<>> /\ next = Cursor(Last(read))
       /\ \A r \in present : r \in ToSet(read) \/ Precedes(Last(read), r, order)
  /\ prev # <<>> =>
       /\ data # <<>> /\ prev = Cursor(Head(data))
       /\ \A r \in ToSet(read) : r \in ToSet(data) \/ Precedes(r, Head(data), order)

\* Going back: what was there is read or comes before what was read.
BackSound(read, present, prev, order) ==
  /\ Ordered(read, order)
  /\ prev = <<>> => present \subseteq ToSet(read)
  /\ prev # <<>> =>
       /\ read # <<>> /\ prev = Cursor(Head(read))
       /\ \A r \in present : r \in ToSet(read) \/ Precedes(r, Head(read), order)

LEMMA ListingStarts ==
  ASSUME NEW R, NEW p, NEW order, PageAfter(R, p, order), p.prev = <<>>
  PROVE  ForwardSound(p.data, p.data, R, p.next, p.prev, order)
BY DEF PageAfter, ForwardSound

LEMMA ListingGoesOn ==
  ASSUME NEW R, Listable(R), Stamped(R), NEW read \in Seq(R), NEW data,
         NEW present \in SUBSET R, NEW next, NEW prev, NEW order,
         ForwardSound(read, data, present, next, prev, order), next # <<>>,
         NEW p, PageAfter({r \in R : Precedes(next, r, order)}, p, order)
  PROVE  /\ read \o p.data \in Seq(R) /\ p.data \in Seq(R)
         /\ ForwardSound(read \o p.data, p.data, present, p.next, p.prev, order)
<1> DEFINE S == {r \in R : Precedes(next, r, order)}
           d == p.data
           all == read \o d
           last == Last(read)
<1>1. /\ read # <<>> /\ next = Cursor(last) /\ Ordered(read, order)
      /\ \A r \in present : r \in ToSet(read) \/ Precedes(last, r, order)
  BY DEF ForwardSound
<1>2. /\ last \in ToSet(read) /\ ToSet(read) \subseteq R
      /\ \A x \in ToSet(read) : x = last \/ Precedes(x, last, order)
  BY <1>1, Ends DEF ToSet
<1> HIDE DEF last
<1>3. \A r \in R : r \in S <=> Precedes(last, r, order)
  BY <1>1, <1>2, CursorIsRow
<1>4. /\ d \in Seq(S) /\ Ordered(d, order)
      /\ p.next = <<>> => S \subseteq ToSet(d)
      /\ p.next # <<>> =>
           /\ d # <<>> /\ p.next = Cursor(Last(d))
           /\ \A r \in S : r \in ToSet(d) \/ Precedes(Last(d), r, order)
      /\ p.prev # <<>> => d # <<>> /\ p.prev = Cursor(Head(d))
  BY DEF PageAfter
<1>5. S \subseteq R
  OBVIOUS
<1> HIDE DEF S, d
<1>6. d \in Seq(R) /\ ToSet(d) \subseteq S
  BY <1>4, <1>5 DEF ToSet
<1>7. \A x \in ToSet(read), y \in S : Precedes(x, y, order)
  <2>1. \A x \in ToSet(read), y \in S :
          /\ x \in R /\ y \in R /\ last \in R
          /\ Precedes(last, y, order) /\ (x = last \/ Precedes(x, last, order))
    BY <1>2, <1>3, <1>5
  <2> QED BY <2>1, PrecedesIsAnOrder
<1>8. /\ all \in Seq(R) /\ Ordered(all, order)
      /\ ToSet(read) \subseteq ToSet(all) /\ ToSet(d) \subseteq ToSet(all)
      /\ \A r \in ToSet(all) : r \in ToSet(read) \/ r \in ToSet(d)
  BY <1>1, <1>4, <1>6, <1>7, Joined
<1>9. d # <<>> => all # <<>> /\ Last(all) = Last(d) /\ Head(d) \in ToSet(d)
  BY <1>4, <1>6, JoinedEnds, Ends
<1> HIDE DEF all
<1>10. \A r \in present : r \in ToSet(read) \/ r \in S
  BY <1>1, <1>3
<1>11. p.next = <<>> => present \subseteq ToSet(all)
  BY <1>4, <1>8, <1>10
<1>12. p.next # <<>> =>
         /\ all # <<>> /\ p.next = Cursor(Last(all))
         /\ \A r \in present : r \in ToSet(all) \/ Precedes(Last(all), r, order)
  BY <1>4, <1>8, <1>9, <1>10
<1>13. p.prev # <<>> =>
         /\ d # <<>> /\ p.prev = Cursor(Head(d))
         /\ \A r \in ToSet(all) : r \in ToSet(d) \/ Precedes(r, Head(d), order)
  BY <1>4, <1>6, <1>7, <1>8, <1>9
<1>14. ForwardSound(all, d, present, p.next, p.prev, order)
  BY <1>4, <1>8, <1>11, <1>12, <1>13 DEF ForwardSound
<1> QED BY <1>6, <1>8, <1>14 DEF all, d

LEMMA ListingTurns ==
  ASSUME NEW read, NEW data, NEW present, NEW prev, NEW order,
         ForwardSound(read, data, present, <<>>, prev, order), prev # <<>>
  PROVE  BackSound(data, present, prev, order)
BY DEF ForwardSound, BackSound

LEMMA ListingGoesBack ==
  ASSUME NEW R, Listable(R), Stamped(R), NEW read \in Seq(R),
         NEW present \in SUBSET R, NEW prev, NEW order,
         BackSound(read, present, prev, order), prev # <<>>,
         NEW S \in SUBSET R, \A r \in R : r \in S <=> Precedes(r, Head(read), order),
         NEW p, PageBefore(S, p, order)
  PROVE  /\ p.data \o read \in Seq(R) /\ p.data \in Seq(R)
         /\ BackSound(p.data \o read, present, p.prev, order)
<1> DEFINE d == p.data
           all == d \o read
           head == Head(read)
<1>1. /\ read # <<>> /\ Ordered(read, order)
      /\ \A r \in present : r \in ToSet(read) \/ Precedes(r, head, order)
  BY DEF BackSound
<1>2. /\ head \in ToSet(read) /\ ToSet(read) \subseteq R
      /\ \A x \in ToSet(read) : x = head \/ Precedes(head, x, order)
  BY <1>1, Ends DEF ToSet
<1>3. \A r \in R : r \in S <=> Precedes(r, head, order)
  OBVIOUS
<1> HIDE DEF head
<1>4. /\ d \in Seq(S) /\ Ordered(d, order)
      /\ p.prev = <<>> => S \subseteq ToSet(d)
      /\ p.prev # <<>> =>
           /\ d # <<>> /\ p.prev = Cursor(Head(d))
           /\ \A r \in S : r \in ToSet(d) \/ Precedes(r, Head(d), order)
  BY DEF PageBefore
<1> HIDE DEF d
<1>5. d \in Seq(R) /\ ToSet(d) \subseteq S
  BY <1>4 DEF ToSet
<1>6. \A x \in ToSet(d), y \in ToSet(read) : Precedes(x, y, order)
  <2>1. \A x \in ToSet(d), y \in ToSet(read) :
          /\ x \in R /\ y \in R /\ head \in R
          /\ Precedes(x, head, order) /\ (y = head \/ Precedes(head, y, order))
    BY <1>2, <1>3, <1>5
  <2> QED BY <2>1, PrecedesIsAnOrder
<1>7. /\ all \in Seq(R) /\ Ordered(all, order)
      /\ ToSet(d) \subseteq ToSet(all) /\ ToSet(read) \subseteq ToSet(all)
  BY <1>1, <1>4, <1>5, <1>6, Joined
<1>8. d # <<>> => all # <<>> /\ Head(all) = Head(d)
  BY <1>5, JoinedEnds
<1> HIDE DEF all
<1>9. \A r \in present : r \in ToSet(read) \/ r \in S
  BY <1>1, <1>3
<1>10. p.prev = <<>> => present \subseteq ToSet(all)
  BY <1>4, <1>7, <1>9
<1>11. p.prev # <<>> =>
         /\ all # <<>> /\ p.prev = Cursor(Head(all))
         /\ \A r \in present : r \in ToSet(all) \/ Precedes(r, Head(all), order)
  BY <1>4, <1>7, <1>8, <1>9
<1>12. BackSound(all, present, p.prev, order)
  BY <1>7, <1>10, <1>11 DEF BackSound
<1> QED BY <1>5, <1>7, <1>12 DEF all, d

-----------------------------------------------------------------------------
(* The invariant of listings *)

RowsApart ==
  /\ IsFiniteSet(rows) /\ Stamped(rows)
  /\ \A a, b \in rows : a.id = b.id => a = b

ListingGood ==
  /\ listing.read \in Seq(rows)
  /\ listing.pc = "idle" => listing.read = <<>>
  /\ listing.pc = "forward" =>
       ForwardSound(listing.read, listing.page.data, listing.present, listing.page.next,
                    listing.page.prev, listing.order)
       /\ listing.page.data \in Seq(rows)
  /\ listing.pc = "back" =>
       BackSound(listing.read, listing.present, listing.page.prev, listing.order)

PagesInv == RowsApart /\ ListingGood

\* A stamp has no part of a millisecond.
LEMMA StampIsWhole ==
  ASSUME NEW t \in Nat
  PROVE  Stamp(t) % Precision = 0
<1> DEFINE q == t \div Precision
           p == Precision * q
           q1 == p \div Precision
           r1 == p % Precision
<1>1. Precision \in Nat \ {0}
  BY CatalogAssumption
<1>2. t = Precision * q + (t % Precision) /\ q \in Nat /\ t % Precision \in Nat
  BY <1>1, SMT
<1>3. p \in Nat
  BY <1>1, <1>2
<1>4. Stamp(t) = p
  BY <1>2, <1>3 DEF Stamp
<1> HIDE DEF p
<1>5. p = Precision * q1 + r1 /\ q1 \in Nat /\ r1 \in 0 .. Precision - 1
  BY <1>1, <1>3, SMT
<1>6. p = Precision * q
  BY DEF p
<1> HIDE DEF q, q1, r1
<1>7. ~(q1 > q)
  <2> SUFFICES ASSUME q + 1 <= q1 PROVE FALSE
    BY <1>2, <1>5
  <2>1. Precision * (q + 1) <= Precision * q1
    BY <1>1, <1>2, <1>5
  <2>2. Precision * (q + 1) = Precision * q + Precision
    BY <1>1, <1>2
  <2> QED BY <1>1, <1>2, <1>3, <1>5, <1>6, <2>1, <2>2
<1>8. ~(q > q1)
  <2> SUFFICES ASSUME q1 + 1 <= q PROVE FALSE
    BY <1>2, <1>5
  <2>1. Precision * (q1 + 1) <= Precision * q
    BY <1>1, <1>2, <1>5
  <2>2. Precision * (q1 + 1) = Precision * q1 + Precision
    BY <1>1, <1>5
  <2> QED BY <1>1, <1>2, <1>3, <1>5, <1>6, <2>1, <2>2
<1>9. q = q1
  BY <1>2, <1>5, <1>7, <1>8
<1>10. r1 = 0
  BY <1>1, <1>3, <1>5, <1>6, <1>9
<1> QED BY <1>4, <1>10 DEF r1

LEMMA RowsListable ==
  ASSUME TypeOK, RowsApart
  PROVE  Listable(rows)
<1>1. \A r \in rows : r.id \in Ids /\ r.created \in 0 .. MaxTime
  BY DEF TypeOK
<1>2. Ids \subseteq Nat /\ 0 .. MaxTime \subseteq Nat
  BY CatalogAssumption
<1> QED BY <1>1, <1>2 DEF RowsApart, Listable

LEMMA PagesInit == Init => PagesInv
<1> SUFFICES ASSUME Init PROVE PagesInv
  OBVIOUS
<1>1. rows = {} /\ listing = NoListing
  BY DEF Init
<1>2. RowsApart
  BY <1>1, FS_EmptySet DEF RowsApart, Stamped
<1>3. ListingGood
  BY <1>1 DEF ListingGood, NoListing
<1> QED BY <1>2, <1>3 DEF PagesInv

\* A run that is created leaves what a listing knows as it is.
LEMMA PagesInsert ==
  ASSUME IInv, PagesInv, NEW id \in Unused, NEW k,
         rows' = rows \cup {NewRow(id, k)}, UNCHANGED listing
  PROVE  PagesInv'
<1> DEFINE new == NewRow(id, k)
<1>1. IsFiniteSet(rows')
  BY FS_AddElement DEF PagesInv, RowsApart
<1>2. new.id = id /\ new.created = Stamp(now) /\ \A r \in rows : r.id # id
  BY DEF NewRow, Unused
<1>3. Stamp(now) % Precision = 0
  BY StampIsWhole, Parts DEF IInv
<1>4. rows' = rows \cup {new}
  OBVIOUS
<1> HIDE DEF new
<1>5. Stamped(rows)'
  BY <1>2, <1>3, <1>4 DEF PagesInv, RowsApart, Stamped
<1>6. \A a, b \in rows' : a.id = b.id => a = b
  BY <1>2, <1>4 DEF PagesInv, RowsApart
<1>7. Seq(rows) \subseteq Seq(rows')
  BY <1>4
<1>8. ListingGood'
  BY <1>7 DEF PagesInv, ListingGood, ForwardSound, BackSound, Ordered, Precedes, Before, Cursor
<1> QED BY <1>1, <1>5, <1>6, <1>8 DEF PagesInv, RowsApart

LEMMA PagesStart ==
  ASSUME IInv, PagesInv, StartListing
  PROVE  PagesInv'
<1>1. PICK order \in Orders :
        LET page == Page(<<>>, FALSE, order) IN
        listing' = [pc |-> "forward", order |-> order, page |-> page,
                    present |-> rows, read |-> page.data]
  BY DEF StartListing, Orders
<1> DEFINE p == Page(<<>>, FALSE, order)
<1>2. Listable(rows) /\ Stamped(rows)
  BY RowsListable DEF IInv, PagesInv, RowsApart
<1>3. Behind(<<>>, order) = rows
  BY DEF Behind
<1>4. PageAfter(rows, p, order) /\ p.prev = <<>>
  <2>1. /\ PageAfter(Behind(<<>>, order), Page(<<>>, FALSE, order), order)
        /\ Page(<<>>, FALSE, order).prev = <<>>
    BY <1>2, PageForward
  <2> QED BY <1>3, <2>1
<1>5. /\ listing'.pc = "forward" /\ listing'.order = order /\ listing'.page = p
      /\ listing'.present = rows /\ listing'.read = p.data
  BY <1>1
<1> HIDE DEF p
<1>6. ForwardSound(p.data, p.data, rows, p.next, p.prev, order)
  BY <1>4, ListingStarts
<1>7. p.data \in Seq(rows)
  BY <1>4 DEF PageAfter
<1>8. UNCHANGED rows
  BY DEF StartListing
<1>9. ForwardSound(listing.read, listing.page.data, listing.present, listing.page.next,
                   listing.page.prev, listing.order)'
  BY <1>5, <1>6 DEF ForwardSound, Ordered, Precedes, Before, Cursor
<1>10. ListingGood'
  BY <1>5, <1>7, <1>8, <1>9 DEF ListingGood
<1> QED BY <1>8, <1>10 DEF PagesInv, RowsApart, Stamped

LEMMA PagesForward ==
  ASSUME IInv, PagesInv, NextPage
  PROVE  PagesInv'
<1> DEFINE next == listing.page.next
           order == listing.order
           read == listing.read
           p == Page(next, FALSE, order)
<1>1. /\ listing.pc = "forward" /\ next # <<>>
      /\ listing' = [listing EXCEPT !.page = p, !.read = @ \o p.data]
      /\ UNCHANGED rows
  BY DEF NextPage
<1>2. Listable(rows) /\ Stamped(rows)
  BY RowsListable DEF IInv, PagesInv, RowsApart
<1>3. /\ read \in Seq(rows) /\ listing.present \in SUBSET rows
      /\ ForwardSound(read, listing.page.data, listing.present, next, listing.page.prev, order)
  BY <1>1 DEF IInv, TypeOK, PagesInv, ListingGood
<1>4. /\ listing'.pc = "forward" /\ listing'.order = order /\ listing'.page = p
      /\ listing'.present = listing.present /\ listing'.read = read \o p.data
  BY <1>1 DEF IInv, Listed
<1>5. Behind(next, order) = {r \in rows : Precedes(next, r, order)}
  BY <1>1 DEF Behind
<1> HIDE DEF next, order, read
<1>6. PageAfter({r \in rows : Precedes(next, r, order)}, p, order)
  BY <1>2, <1>5, PageForward
<1> HIDE DEF p
<1>7. /\ read \o p.data \in Seq(rows) /\ p.data \in Seq(rows)
      /\ ForwardSound(read \o p.data, p.data, listing.present, p.next, p.prev, order)
  BY <1>1, <1>2, <1>3, <1>6, ListingGoesOn
<1>8. ListingGood'
  BY <1>1, <1>4, <1>7 DEF ListingGood
<1> QED BY <1>1, <1>8 DEF PagesInv, RowsApart, Stamped

LEMMA PagesTurn ==
  ASSUME IInv, PagesInv, TurnBack
  PROVE  PagesInv'
<1>1. /\ listing.pc = "forward" /\ listing.page.next = <<>> /\ listing.page.prev # <<>>
      /\ listing' = [listing EXCEPT !.pc = "back", !.read = listing.page.data]
      /\ UNCHANGED rows
  BY DEF TurnBack
<1>2. /\ listing.page.data \in Seq(rows)
      /\ ForwardSound(listing.read, listing.page.data, listing.present, <<>>,
                      listing.page.prev, listing.order)
  BY <1>1 DEF PagesInv, ListingGood
<1>3. /\ listing'.pc = "back" /\ listing'.order = listing.order /\ listing'.page = listing.page
      /\ listing'.present = listing.present /\ listing'.read = listing.page.data
  BY <1>1 DEF IInv, Listed
<1>4. BackSound(listing.page.data, listing.present, listing.page.prev, listing.order)
  BY <1>1, <1>2, ListingTurns
<1>5. ListingGood'
  BY <1>1, <1>2, <1>3, <1>4 DEF ListingGood
<1> QED BY <1>1, <1>5 DEF PagesInv, RowsApart, Stamped

LEMMA PagesBack ==
  ASSUME IInv, PagesInv, PreviousPage
  PROVE  PagesInv'
<1> DEFINE prev == listing.page.prev
           order == listing.order
           read == listing.read
           p == Page(prev, TRUE, order)
           S == Behind(prev, Flip(order))
<1>1. /\ listing.pc = "back" /\ prev # <<>>
      /\ listing' = [listing EXCEPT !.page = p, !.read = p.data \o @]
      /\ UNCHANGED rows
  BY DEF PreviousPage
<1>2. Listable(rows) /\ Stamped(rows)
  BY RowsListable DEF IInv, PagesInv, RowsApart
<1>3. /\ read \in Seq(rows) /\ listing.present \in SUBSET rows /\ order \in Orders
      /\ BackSound(read, listing.present, prev, order)
  BY <1>1 DEF IInv, TypeOK, PagesInv, ListingGood, Orders
<1>4. /\ listing'.pc = "back" /\ listing'.order = order /\ listing'.page = p
      /\ listing'.present = listing.present /\ listing'.read = p.data \o read
  BY <1>1 DEF IInv, Listed
<1> HIDE DEF prev, order, read
<1>5. /\ S \in SUBSET rows
      /\ \A r \in rows : r \in S <=> Precedes(prev, r, Flip(order))
  BY <1>1 DEF Behind
<1>6. \A r \in rows : Precedes(prev, r, Flip(order)) <=> Precedes(r, prev, order)
  BY <1>3, Flipped
<1>7. Head(read) \in rows /\ prev = Cursor(Head(read))
  BY <1>1, <1>3, Ends DEF BackSound, ToSet
<1>8. \A r \in rows : Precedes(r, prev, order) <=> Precedes(r, Head(read), order)
  BY <1>2, <1>7, CursorIsRow
<1>9. \A r \in rows : r \in S <=> Precedes(r, Head(read), order)
  BY <1>5, <1>6, <1>8
<1>10. PageBefore(S, p, order)
  BY <1>2, <1>3, PageBack
<1> HIDE DEF p, S
<1>11. /\ p.data \o read \in Seq(rows) /\ p.data \in Seq(rows)
       /\ BackSound(p.data \o read, listing.present, p.prev, order)
  BY <1>1, <1>2, <1>3, <1>5, <1>9, <1>10, ListingGoesBack
<1>12. ListingGood'
  BY <1>1, <1>4, <1>11 DEF ListingGood
<1> QED BY <1>1, <1>12 DEF PagesInv, RowsApart, Stamped

LEMMA PagesNext == IInv /\ PagesInv /\ [Next]_vars => PagesInv'
<1> SUFFICES ASSUME IInv, PagesInv, [Next]_vars PROVE PagesInv'
  OBVIOUS
<1>1. ASSUME NEW c \in Creators, CreateUnkeyed(c) PROVE PagesInv'
  BY <1>1, PagesInsert DEF CreateUnkeyed
<1>2. ASSUME NEW c \in Creators, NEW k \in Keys, CreateAtOnce(c, k) PROVE PagesInv'
  BY <1>2, PagesInsert DEF CreateAtOnce
<1>3. ASSUME NEW c \in Creators, Insert(c) PROVE PagesInv'
  BY <1>3, PagesInsert DEF Insert
<1>4. CASE UNCHANGED <<rows, listing>>
  BY <1>4 DEF PagesInv, RowsApart, Stamped, ListingGood
<1>5. CASE StartListing \/ NextPage \/ TurnBack \/ PreviousPage
  BY <1>5, PagesStart, PagesForward, PagesTurn, PagesBack
<1>6. ASSUME NEW c \in Creators, NEW k \in Keys, Connect(c, k) PROVE PagesInv'
  BY <1>4, <1>6 DEF Connect
<1>7. ASSUME NEW c \in Creators, Lock(c) \/ LookUp(c) \/ Unlock(c) \/ Crash(c) PROVE PagesInv'
  BY <1>4, <1>7 DEF Lock, LookUp, Unlock, Crash
<1>8. CASE Pass \/ UNCHANGED vars
  BY <1>4, <1>8 DEF Pass, vars
<1> QED BY <1>1, <1>2, <1>3, <1>5, <1>6, <1>7, <1>8 DEF Next, Serve

LEMMA PagesInvariance == Spec => []PagesInv
BY Invariance, PagesInit, PagesNext, PTL DEF Spec

-----------------------------------------------------------------------------
(* The theorems *)

\* Every variable keeps its type, and only a call that is past a lock holds it.
THEOREM TypeCorrect == Spec => []TypeOK
<1>1. IInv => TypeOK
  BY DEF IInv
<1> QED BY <1>1, Invariance, PTL

\* A key makes one run in its period, for any number of callers and keys, any
\* precision and period, and whatever connections are lost.
THEOREM KeysMakeOneRun == Spec => []OneRunPerKey
<1>1. IInv => OneRunPerKey
  BY DEF IInv
<1> QED BY <1>1, Invariance, PTL

\* Whatever the order and the size of the pages, a listing reads what was in the
\* table when it began once and in order, forward and back, whatever is created
\* meanwhile: the clock of the cursor is as coarse as the clock of the rows.
THEOREM CompleteListings == Spec => []ListingsAreComplete
<1>1. IInv /\ PagesInv => ListingsAreComplete
  <2> SUFFICES ASSUME IInv, PagesInv PROVE ListingsAreComplete
    OBVIOUS
  <2> DEFINE read == listing.read
             order == listing.order
  <2>1. Listable(rows) /\ read \in Seq(rows) /\ listing.pc \in {"idle", "forward", "back"}
    BY RowsListable DEF IInv, TypeOK, PagesInv, ListingGood
  <2>2. Ordered(read, order)
    <3>1. CASE listing.pc = "idle"
      BY <3>1 DEF PagesInv, ListingGood, Ordered
    <3>2. CASE listing.pc = "forward"
      BY <3>2 DEF PagesInv, ListingGood, ForwardSound
    <3>3. CASE listing.pc = "back"
      BY <3>3 DEF PagesInv, ListingGood, BackSound
    <3> QED BY <2>1, <3>1, <3>2, <3>3
  <2>3. Once(read)
    <3>1. ASSUME NEW i \in DOMAIN read, NEW j \in DOMAIN read, read[i] = read[j], i # j
          PROVE  FALSE
      <4>1. i \in Nat /\ j \in Nat /\ read[i] \in rows
        BY <2>1
      <4>2. Precedes(read[i], read[j], order) \/ Precedes(read[j], read[i], order)
        BY <2>2, <3>1, <4>1 DEF Ordered
      <4> QED BY <2>1, <3>1, <4>1, <4>2, PrecedesIsAnOrder
    <3> QED BY <3>1 DEF Once
  <2>4. ASSUME listing.pc = "forward" /\ listing.page.next = <<>>
        PROVE  listing.present \subseteq ToSet(read)
    BY <2>4 DEF PagesInv, ListingGood, ForwardSound
  <2>5. ASSUME listing.pc = "back" /\ listing.page.prev = <<>>
        PROVE  listing.present \subseteq ToSet(read)
    BY <2>5 DEF PagesInv, ListingGood, BackSound
  <2> QED BY <2>2, <2>3, <2>4, <2>5 DEF ListingsAreComplete, Ordered
<1> QED BY <1>1, Invariance, PagesInvariance, PTL
===============================================================================
