--------------------------- MODULE ParkedWaits_proofs ---------------------------
(***************************************************************************)
(* Proofs about ParkedWaits for any waits, durations and limits: types; on *)
(* both backends a run whose child has ended is due once the statements    *)
(* that end the child and park the run are done; on SQLite the same of     *)
(* signals, and a run there begins nothing twice and parks in time.        *)
(*                                                                         *)
(* The argument: the row of a run that is parked with nobody left to       *)
(* reconcile it was looked at after every result that is there, by whoever *)
(* parked it or by whoever brought the result.  While a pass is in         *)
(* progress its worker owns the row (Owning) and will look again.  On      *)
(* SQLite, moreover, no insertion outlives its pass, so that each pass     *)
(* finds what the one before it has remembered (SqliteInv).                *)
(***************************************************************************)
EXTENDS ParkedWaits, WellFoundedInduction, FiniteSetTheorems, TLAPS

-----------------------------------------------------------------------------
(* Least and greatest *)

LEMMA LeastExists ==
  ASSUME NEW T \in SUBSET Nat, T # {}
  PROVE  Min(T) \in T /\ \A n \in T : Min(T) <= n
<1> DEFINE less == {ss \in Nat \X Nat : ss[1] < ss[2]}
<1>1. IsWellFoundedOn(less, Nat)
  BY NatLessThanWellFounded DEF OpToRel
<1> HIDE DEF less
<1>2. PICK m \in T : \A n \in T : <<n, m>> \notin less
  BY <1>1, WFMin
<1>3. \A n \in T : ~(n < m)
  BY <1>2 DEF less
<1>4. \A n \in T : m <= n
  BY <1>3
<1> QED BY <1>4 DEF Min

LEMMA GreatestExists ==
  ASSUME NEW n \in Nat, NEW T \in SUBSET (1 .. n), T # {}
  PROVE  Max(T) \in T /\ \A i \in T : i <= Max(T)
<1> DEFINE less == {ss \in Nat \X Nat : ss[1] < ss[2]}
           distances == {d \in Nat : \E i \in T : d = n - i}
<1>1. IsWellFoundedOn(less, Nat)
  BY NatLessThanWellFounded DEF OpToRel
<1>2. \A i \in T : i \in Nat /\ n - i \in distances
  OBVIOUS
<1> HIDE DEF less
<1>3. PICK d \in distances : \A e \in distances : <<e, d>> \notin less
  <2>1. distances \subseteq Nat /\ distances # {}
    BY <1>2
  <2> QED BY <1>1, <2>1, WFMin
<1>4. PICK i \in T : d = n - i
  OBVIOUS
<1>5. \A j \in T : ~ (n - j < n - i)
  BY <1>2, <1>3, <1>4 DEF less
<1>6. \A j \in T : i >= j
  BY <1>2, <1>5
<1>7. \E m \in T : \A j \in T : m >= j
  BY <1>6
<1>8. Max(T) \in T /\ \A j \in T : Max(T) >= j
  BY <1>7 DEF Max
<1> QED BY <1>2, <1>8

LEMMA LatestIsThere ==
  ASSUME NEW s \in Seq(Attempt)
  PROVE  LatestRunning(s) \in 0 .. Len(s) /\ LatestRunning(s) \in Nat
<1> DEFINE live == {i \in DOMAIN s : s[i].status = "running"}
<1>1. live \in SUBSET (1 .. Len(s)) /\ Len(s) \in Nat
  OBVIOUS
<1>2. LatestRunning(s) = IF live = {} THEN 0 ELSE Max(live)
  BY DEF LatestRunning
<1> HIDE DEF live
<1>3. live # {} => Max(live) \in 1 .. Len(s)
  BY <1>1, GreatestExists
<1> QED BY <1>1, <1>2, <1>3

-----------------------------------------------------------------------------
(* Types *)

Stages == {"idle", "inserting", "sleeping", "creating", "linking",
           "resolving", "timing out", "done"}

RunRecord == [status : {"running", "completed", "failed"}, owned : BOOLEAN, available : Nat]

PassRecord == [pc : {"none", "running", "parking"}, resumeAt : Nat, known : [Waits -> Nat]]

Types ==
  /\ run \in RunRecord
  /\ attempts \in [Waits -> Seq(Attempt)]
  /\ pass \in PassRecord
  /\ branch \in [Waits -> Stages]
  /\ late \subseteq Waits
  /\ reconciling \in BOOLEAN
  /\ now \in Nat /\ now <= MaxTime
  /\ crashes \in Nat /\ crashes <= MaxCrashes

\* A pass knows of attempts that exist, and of one where a branch needs it.
Known ==
  /\ \A w \in Waits : pass.known[w] \in 0 .. Len(attempts[w])
  /\ \A w \in Waits : branch[w] \notin {"idle", "inserting", "done"} => pass.known[w] # 0

LEMMA TypesImply == Types /\ Known => TypeOK
<1> SUFFICES ASSUME Types, Known PROVE TypeOK
  OBVIOUS
<1>1. now \in 0 .. MaxTime /\ crashes \in 0 .. MaxCrashes
  BY WaitsAssumption DEF Types
<1>2. \A w \in Waits : \A i \in DOMAIN attempts[w] : attempts[w][i] \in Attempt
  BY DEF Types
<1> QED BY <1>1, <1>2 DEF Types, Known, TypeOK, Stages, RunRecord, PassRecord

LEMMA NewAttemptType ==
  ASSUME Types, NEW w \in Waits
  PROVE  NewAttempt(w) \in Attempt /\ NewAttempt(w).child = "absent"
         /\ NewAttempt(w).delivery = "none"
<1>1. now + Duration[w] \in Nat
  BY WaitsAssumption DEF Types
<1> QED BY <1>1 DEF NewAttempt, TimeoutAt, Attempt

LEMMA EarliestType ==
  ASSUME NEW seqs \in [Waits -> Seq(Attempt)], NEW known \in [Waits -> Nat],
         \A w \in Waits : known[w] \in 0 .. Len(seqs[w]),
         \E w \in Waits : known[w] # 0
  PROVE  /\ Earliest(seqs, known) \in Nat
         /\ \E w \in Waits : known[w] # 0 /\ seqs[w][known[w]].until = Earliest(seqs, known)
         /\ \A w \in Waits : known[w] # 0 => Earliest(seqs, known) <= seqs[w][known[w]].until
<1> DEFINE ends == {seqs[w][known[w]].until : w \in {x \in Waits : known[x] # 0}}
<1>1. ASSUME NEW w \in Waits, known[w] # 0
      PROVE  seqs[w][known[w]].until \in Nat
  <2>1. known[w] \in 1 .. Len(seqs[w])
    BY <1>1
  <2>2. seqs[w][known[w]] \in Attempt
    BY <2>1
  <2> QED BY <2>2 DEF Attempt
<1>2. ends \in SUBSET Nat /\ ends # {}
  BY <1>1
<1>3. Earliest(seqs, known) = Min(ends)
  BY DEF Earliest
<1>4. Earliest(seqs, known) \in ends /\ \A n \in ends : Earliest(seqs, known) <= n
  <2> HIDE DEF ends
  <2> QED BY <1>2, <1>3, LeastExists
<1> QED BY <1>2, <1>4

LEMMA LoadedTypes ==
  ASSUME Types
  PROVE  /\ LoadedAttempts \in [Waits -> Seq(Attempt)]
         /\ LoadedKnown \in [Waits -> Nat]
         /\ \A w \in Waits : LoadedKnown[w] \in 0 .. Len(LoadedAttempts[w])
<1>1. ASSUME NEW w \in Waits
      PROVE  /\ LoadedAttempts[w] \in Seq(Attempt)
             /\ LoadedKnown[w] \in Nat
             /\ LoadedKnown[w] \in 0 .. Len(LoadedAttempts[w])
  <2> DEFINE s == attempts[w]
             l == LatestRunning(s)
  <2>1. s \in Seq(Attempt)
    BY DEF Types
  <2>2. l \in 0 .. Len(s) /\ l \in Nat
    BY <2>1, LatestIsThere
  <2>3. CASE SleepElapsed(w)
    <3>1. l \in DOMAIN s
      BY <2>1, <2>2, <2>3 DEF SleepElapsed
    <3>2. LoadedAttempts[w] = [s EXCEPT ![l] = [s[l] EXCEPT !.status = "completed"]]
      BY <2>3 DEF LoadedAttempts
    <3>3. [s[l] EXCEPT !.status = "completed"] \in Attempt
      <4>1. s[l] \in Attempt
        BY <2>1, <3>1
      <4> HIDE DEF s, l
      <4> QED BY <4>1 DEF Attempt
    <3>4. LoadedKnown[w] = 0
      BY <2>3 DEF LoadedKnown
    <3> HIDE DEF s, l
    <3>5. LoadedAttempts[w] \in Seq(Attempt)
      BY <2>1, <3>1, <3>2, <3>3
    <3> QED BY <3>4, <3>5
  <2>4. CASE ~SleepElapsed(w)
    <3>1. LoadedAttempts[w] = s /\ LoadedKnown[w] = l
      BY <2>4 DEF LoadedAttempts, LoadedKnown
    <3> HIDE DEF s, l
    <3> QED BY <2>1, <2>2, <3>1
  <2> QED BY <2>3, <2>4
<1>2. LoadedAttempts = [w \in Waits |-> LoadedAttempts[w]]
      /\ LoadedKnown = [w \in Waits |-> LoadedKnown[w]]
  BY DEF LoadedAttempts, LoadedKnown
<1> QED BY <1>1, <1>2

\* A branch is past the insertion only with a running attempt in its memory.
LEMMA FirstAwaitType ==
  ASSUME Types, NEW w \in Waits
  PROVE  /\ FirstAwait(w) \in Stages
         /\ FirstAwait(w) \notin {"idle", "inserting", "done"} => LoadedKnown[w] # 0
<1>1. Kind[w] \in {"sleep", "workflow", "signal"}
  BY WaitsAssumption
<1>2. /\ AwaitSignal(w) \in {"inserting", "resolving"}
      /\ AwaitSignal(w) = "resolving" => LoadedKnown[w] # 0
  BY DEF AwaitSignal
<1>3. /\ AwaitChild(w) \in {"inserting", "creating", "resolving"}
      /\ AwaitChild(w) # "inserting" => LoadedKnown[w] # 0
  <2>1. CASE LoadedKnown[w] = 0
    BY <2>1 DEF AwaitChild
  <2>2. CASE LoadedKnown[w] # 0 /\ ~LoadedAttempts[w][LoadedKnown[w]].linked
    BY <2>2 DEF AwaitChild
  <2>3. CASE LoadedKnown[w] # 0 /\ LoadedAttempts[w][LoadedKnown[w]].linked
    BY <2>3 DEF AwaitChild
  <2> QED BY <2>1, <2>2, <2>3
<1>4. FirstAwait(w) \in {"done", "inserting", AwaitSignal(w), AwaitChild(w)}
  <2>1. CASE Kind[w] = "sleep"
    BY <2>1 DEF FirstAwait
  <2>2. CASE Kind[w] = "signal"
    BY <2>2 DEF FirstAwait
  <2>3. CASE Kind[w] = "workflow"
    BY <2>3 DEF FirstAwait
  <2> QED BY <1>1, <2>1, <2>2, <2>3
<1> QED BY <1>2, <1>3, <1>4 DEF Stages

-----------------------------------------------------------------------------
(* The invariant *)

\* The worker of a pass owns the row, and there are no branches without a pass.
Owning ==
  /\ pass.pc # "none" => run.owned /\ run.status = "running"
  /\ pass.pc = "none" => \A w \in Waits : branch[w] = "idle"

\* SQLite's deliveries commit at once.
AtOnce ==
  ~Postgres => \A w \in Waits : \A i \in DOMAIN attempts[w] :
                 attempts[w][i].delivery \in {"none", "committed"}

\* The results whose wake-up is not lost on this backend.
Settled(w, i) ==
  /\ HasResult(w, attempts[w][i])
  /\ \/ Kind[w] = "workflow" /\ attempts[w][i].child # "finishing"
     \/ Kind[w] = "signal" /\ ~Postgres

NothingMissed ==
  Parked /\ ~reconciling /\ crashes = 0 =>
    \A w \in Waits : \A i \in DOMAIN attempts[w] : Settled(w, i) => run.available <= now

IInv == Types /\ Known /\ Owning /\ AtOnce /\ NothingMissed

LEMMA InitInv == Init => IInv
<1> SUFFICES ASSUME Init PROVE IInv
  OBVIOUS
<1>1. run \in RunRecord /\ pass \in PassRecord /\ branch \in [Waits -> Stages]
  BY DEF Init, RunRecord, PassRecord, NoPass, Idle, Stages
<1>2. attempts \in [Waits -> Seq(Attempt)] /\ \A w \in Waits : attempts[w] = <<>>
  BY DEF Init
<1>3. /\ late \subseteq Waits /\ reconciling \in BOOLEAN
      /\ now \in Nat /\ now <= MaxTime /\ crashes \in Nat /\ crashes <= MaxCrashes
  <2>1. 0 <= MaxTime /\ 0 <= MaxCrashes
    BY WaitsAssumption
  <2> QED BY <2>1 DEF Init
<1>4. Types
  BY <1>1, <1>2, <1>3 DEF Types
<1>5. Known
  BY <1>2 DEF Init, NoPass, Idle, Known
<1>6. Owning /\ AtOnce /\ NothingMissed
  BY <1>2 DEF Init, NoPass, Idle, Owning, AtOnce, NothingMissed
<1> QED BY <1>4, <1>5, <1>6 DEF IInv

\* Nothing new has come to the row.
LEMMA StillDue ==
  ASSUME IInv, run' = run, now' = now \/ now' = now + 1,
         reconciling' = reconciling, crashes' = crashes,
         \A w \in Waits : \A i \in DOMAIN attempts'[w] :
           Settled(w, i)' => i \in DOMAIN attempts[w] /\ Settled(w, i)
  PROVE  NothingMissed'
<1>1. run.available \in Nat /\ now \in Nat
  BY DEF IInv, Types, RunRecord
<1>2. Parked' <=> Parked
  BY DEF Parked
<1> QED BY <1>1, <1>2 DEF IInv, NothingMissed

\* A row that is owned or of a run that has ended sleeps through nothing.
LEMMA NotParked ==
  ASSUME run'.owned \/ run'.status # "running"
  PROVE  NothingMissed'
BY DEF NothingMissed, Parked

\* Nobody is in the middle of anything.
LEMMA EndPassParts ==
  ASSUME EndPass, attempts' \in [Waits -> Seq(Attempt)]
  PROVE  /\ pass' \in PassRecord /\ branch' \in [Waits -> Stages]
         /\ Known' /\ Owning'
<1>1. pass' = [pc |-> "none", resumeAt |-> 0, known |-> [w \in Waits |-> 0]]
      /\ branch' = [w \in Waits |-> "idle"]
  BY DEF EndPass, NoPass, Idle
<1>2. \A w \in Waits : Len(attempts'[w]) \in Nat
  OBVIOUS
<1>3. pass' \in PassRecord /\ branch' \in [Waits -> Stages]
  BY <1>1 DEF PassRecord, Stages
<1>4. Known'
  BY <1>1, <1>2 DEF Known
<1>5. Owning'
  BY <1>1 DEF Owning
<1> QED BY <1>3, <1>4, <1>5

-----------------------------------------------------------------------------
(* Changes of the attempts *)

\* One attempt is replaced.
LEMMA Replaced ==
  ASSUME attempts \in [Waits -> Seq(Attempt)],
         NEW w \in Waits, NEW i \in DOMAIN attempts[w], NEW a \in Attempt,
         attempts' = [attempts EXCEPT ![w] = [attempts[w] EXCEPT ![i] = a]]
  PROVE  /\ attempts' \in [Waits -> Seq(Attempt)]
         /\ \A x \in Waits : Len(attempts'[x]) = Len(attempts[x])
         /\ \A x \in Waits : DOMAIN attempts'[x] = DOMAIN attempts[x]
         /\ attempts'[w][i] = a
         /\ \A x \in Waits : \A j \in DOMAIN attempts[x] :
              x # w \/ j # i => attempts'[x][j] = attempts[x][j]
<1>1. attempts[w] \in Seq(Attempt)
  OBVIOUS
<1> DEFINE s == [attempts[w] EXCEPT ![i] = a]
<1>2. /\ s \in Seq(Attempt) /\ Len(s) = Len(attempts[w])
      /\ DOMAIN s = DOMAIN attempts[w] /\ s[i] = a
      /\ \A j \in DOMAIN attempts[w] : j # i => s[j] = attempts[w][j]
  BY <1>1
<1> HIDE DEF s
<1>3. attempts' = [attempts EXCEPT ![w] = s]
  BY DEF s
<1>4. attempts'[w] = s /\ \A x \in Waits : x # w => attempts'[x] = attempts[x]
  BY <1>3
<1> QED BY <1>2, <1>3, <1>4

\* One attempt is added.
LEMMA Added ==
  ASSUME Types, NEW w \in Waits,
         attempts' = [attempts EXCEPT ![w] = Append(attempts[w], NewAttempt(w))]
  PROVE  /\ attempts' \in [Waits -> Seq(Attempt)]
         /\ \A x \in Waits : x # w => attempts'[x] = attempts[x]
         /\ Len(attempts'[w]) = Len(attempts[w]) + 1 /\ Len(attempts[w]) \in Nat
         /\ \A x \in Waits : \A i \in DOMAIN attempts'[x] :
              \/ i \in DOMAIN attempts[x] /\ attempts'[x][i] = attempts[x][i]
              \/ attempts'[x][i] = NewAttempt(w)
<1>1. attempts[w] \in Seq(Attempt) /\ NewAttempt(w) \in Attempt
  BY NewAttemptType DEF Types
<1> DEFINE s == Append(attempts[w], NewAttempt(w))
<1>2. /\ s \in Seq(Attempt) /\ Len(s) = Len(attempts[w]) + 1 /\ Len(attempts[w]) \in Nat
      /\ \A i \in DOMAIN s : \/ i \in DOMAIN attempts[w] /\ s[i] = attempts[w][i]
                             \/ s[i] = NewAttempt(w)
  BY <1>1
<1> HIDE DEF s
<1>3. attempts' = [attempts EXCEPT ![w] = s]
  BY DEF s
<1>4. attempts'[w] = s /\ \A x \in Waits : x # w => attempts'[x] = attempts[x]
  BY <1>3 DEF Types
<1> QED BY <1>2, <1>3, <1>4 DEF Types

\* A new attempt has no result.
LEMMA AddedQuietly ==
  ASSUME IInv, NEW w \in Waits,
         attempts' = [attempts EXCEPT ![w] = Append(attempts[w], NewAttempt(w))],
         UNCHANGED <<run, reconciling, now, crashes>>
  PROVE  AtOnce' /\ NothingMissed'
<1>1. \A x \in Waits : \A i \in DOMAIN attempts'[x] :
        \/ i \in DOMAIN attempts[x] /\ attempts'[x][i] = attempts[x][i]
        \/ attempts'[x][i] = NewAttempt(w)
  BY Added DEF IInv
<1>2. NewAttempt(w).child = "absent" /\ NewAttempt(w).delivery = "none"
  BY NewAttemptType DEF IInv
<1>3. AtOnce'
  BY <1>1, <1>2 DEF IInv, AtOnce
<1>4. \A x \in Waits : \A i \in DOMAIN attempts'[x] :
        Settled(x, i)' => i \in DOMAIN attempts[x] /\ Settled(x, i)
  BY <1>1, <1>2 DEF Settled, HasResult
<1>5. NothingMissed'
  BY <1>4, StillDue
<1> QED BY <1>3, <1>5

\* An attempt changes and has no result that is settled afterwards, or had it
\* before.
LEMMA ReplacedQuietly ==
  ASSUME IInv, NEW w \in Waits, NEW i \in DOMAIN attempts[w], NEW a \in Attempt,
         attempts' = [attempts EXCEPT ![w] = [attempts[w] EXCEPT ![i] = a]],
         a.delivery = attempts[w][i].delivery,
         Settled(w, i)' => Settled(w, i),
         UNCHANGED <<run, reconciling, now, crashes>>
  PROVE  AtOnce' /\ NothingMissed'
<1>1. /\ \A x \in Waits : DOMAIN attempts'[x] = DOMAIN attempts[x]
      /\ attempts'[w][i] = a
      /\ \A x \in Waits : \A j \in DOMAIN attempts[x] :
           x # w \/ j # i => attempts'[x][j] = attempts[x][j]
  BY Replaced DEF IInv, Types
<1>2. AtOnce'
  BY <1>1 DEF IInv, AtOnce
<1>3. ASSUME NEW x \in Waits, NEW j \in DOMAIN attempts'[x], Settled(x, j)'
      PROVE  j \in DOMAIN attempts[x] /\ Settled(x, j)
  <2>1. CASE x = w /\ j = i
    BY <1>1, <1>3, <2>1
  <2>2. CASE x # w \/ j # i
    BY <1>1, <1>3, <2>2 DEF Settled, HasResult
  <2> QED BY <2>1, <2>2
<1>4. NothingMissed'
  BY <1>3, StillDue
<1> QED BY <1>2, <1>4

-----------------------------------------------------------------------------
(* The steps of a pass *)

\* FailRun and Complete: the run is over.
LEMMA RunEnds ==
  ASSUME IInv, NEW r \in RunRecord, r.status # "running", run' = r, EndPass,
         attempts' \in [Waits -> Seq(Attempt)], AtOnce',
         UNCHANGED <<late, reconciling, now, crashes>>
  PROVE  IInv'
<1>1. /\ pass' \in PassRecord /\ branch' \in [Waits -> Stages] /\ Known' /\ Owning'
  BY EndPassParts
<1>2. Types'
  BY <1>1 DEF IInv, Types
<1>3. NothingMissed'
  BY NotParked
<1> QED BY <1>1, <1>2, <1>3 DEF IInv

\* Loading a history completes sleeps and delivers nothing.
LEMMA LoadedAtOnce ==
  ASSUME IInv, attempts' = LoadedAttempts
  PROVE  AtOnce' /\ attempts' \in [Waits -> Seq(Attempt)]
<1>1. attempts' \in [Waits -> Seq(Attempt)]
  BY LoadedTypes DEF IInv
<1>2. ASSUME NEW w \in Waits
      PROVE  /\ DOMAIN LoadedAttempts[w] = DOMAIN attempts[w]
             /\ \A i \in DOMAIN attempts[w] :
                  LoadedAttempts[w][i].delivery = attempts[w][i].delivery
  <2> DEFINE s == attempts[w]
             l == LatestRunning(s)
  <2>1. s \in Seq(Attempt) /\ \A i \in DOMAIN s : s[i] \in Attempt
    BY DEF IInv, Types
  <2>2. LoadedAttempts[w] = IF SleepElapsed(w)
                              THEN [s EXCEPT ![l] = [s[l] EXCEPT !.status = "completed"]]
                              ELSE s
    BY DEF LoadedAttempts
  <2> HIDE DEF s, l
  <2>3. /\ DOMAIN LoadedAttempts[w] = DOMAIN s
        /\ \A i \in DOMAIN s : LoadedAttempts[w][i].delivery = s[i].delivery
    BY <2>1, <2>2 DEF Attempt
  <2> QED BY <2>3 DEF s
<1>3. AtOnce'
  BY <1>2 DEF IInv, AtOnce
<1> QED BY <1>1, <1>3

LEMMA FailedRow ==
  ASSUME Types
  PROVE  [run EXCEPT !.status = "failed", !.owned = FALSE] \in RunRecord
         /\ [run EXCEPT !.status = "failed", !.owned = FALSE].status = "failed"
BY DEF Types, RunRecord

LEMMA ClaimedRow ==
  ASSUME Types
  PROVE  /\ Claimed \in RunRecord /\ Claimed.owned = TRUE
         /\ Claimed.status = run.status
<1>1. now + Lease \in Nat
  BY WaitsAssumption DEF Types
<1> QED BY <1>1 DEF Types, RunRecord, Claimed

LEMMA ClaimStep == IInv /\ Claim => IInv'
<1> SUFFICES ASSUME IInv, Claim PROVE IInv'
  OBVIOUS
<1>1. /\ run.status = "running" /\ UNCHANGED <<late, reconciling, now, crashes>>
  BY DEF Claim
<1>2. CASE FailOverlong
  <2>1. attempts' \in [Waits -> Seq(Attempt)] /\ AtOnce'
    BY <1>2 DEF FailOverlong, IInv, Types, AtOnce
  <2> QED BY <1>1, <1>2, <2>1, FailedRow, RunEnds DEF FailOverlong, FailRun, IInv
<1>3. CASE FailAtLimit
  <2>1. attempts' \in [Waits -> Seq(Attempt)] /\ AtOnce'
    BY <1>3, LoadedAtOnce DEF FailAtLimit
  <2> QED BY <1>1, <1>3, <2>1, FailedRow, RunEnds DEF FailAtLimit, FailRun, IInv
<1>4. ASSUME attempts' = LoadedAttempts, run' = Claimed, pass'.known = LoadedKnown,
             pass'.pc \in {"running", "parking"}, pass' \in PassRecord,
             branch' \in [Waits -> Stages],
             \A w \in Waits :
               branch'[w] \notin {"idle", "inserting", "done"} => LoadedKnown[w] # 0
      PROVE  IInv'
  <2>1. attempts' \in [Waits -> Seq(Attempt)] /\ AtOnce'
    BY <1>4, LoadedAtOnce
  <2>2. run' \in RunRecord /\ run'.owned /\ run'.status = "running"
    BY <1>1, <1>4, ClaimedRow DEF IInv
  <2>3. Types'
    BY <1>1, <1>4, <2>1, <2>2 DEF IInv, Types
  <2>4. Known'
    BY <1>4, LoadedTypes DEF IInv, Known
  <2>5. Owning'
    BY <1>4, <2>2 DEF Owning
  <2>6. NothingMissed'
    BY <2>2, NotParked
  <2> QED BY <2>1, <2>3, <2>4, <2>5, <2>6 DEF IInv
<1>5. CASE ParkAgain
  <2>1. Earliest(LoadedAttempts, LoadedKnown) \in Nat
    BY <1>5, LoadedTypes, EarliestType DEF IInv, ParkAgain, StillAsleep
  <2>2. /\ pass' = [pc |-> "parking", known |-> LoadedKnown,
                    resumeAt |-> Earliest(LoadedAttempts, LoadedKnown)]
        /\ attempts' = LoadedAttempts /\ run' = Claimed /\ branch' = branch
    BY <1>5 DEF ParkAgain
  <2>3. pass' \in PassRecord /\ pass'.known = LoadedKnown /\ pass'.pc = "parking"
    BY <2>1, <2>2, LoadedTypes DEF IInv, PassRecord
  <2>4. \A w \in Waits : branch[w] = "idle"
    BY DEF Claim, IInv, Owning
  <2> QED BY <1>4, <2>2, <2>3, <2>4 DEF IInv, Types
<1>6. CASE CallFunction
  <2>1. /\ pass' = [pc |-> "running", known |-> LoadedKnown, resumeAt |-> 0]
        /\ attempts' = LoadedAttempts /\ run' = Claimed
        /\ branch' = [w \in Waits |-> FirstAwait(w)]
    BY <1>6 DEF CallFunction
  <2>2. pass' \in PassRecord /\ pass'.known = LoadedKnown /\ pass'.pc = "running"
    BY <2>1, LoadedTypes DEF IInv, PassRecord
  <2>3. branch' \in [Waits -> Stages]
    BY <2>1, FirstAwaitType DEF IInv
  <2>4. \A w \in Waits :
          branch'[w] \notin {"idle", "inserting", "done"} => LoadedKnown[w] # 0
    BY <2>1, FirstAwaitType DEF IInv
  <2> QED BY <1>4, <2>1, <2>2, <2>3, <2>4
<1> QED BY <1>2, <1>3, <1>5, <1>6 DEF Claim

\* The first branch that cannot go on.
LEMMA ThrowStep ==
  ASSUME IInv, NEW w \in Waits, branch[w] \in {"sleeping", "resolving"}, ThrowSleepSignal(w)
  PROVE  IInv'
<1>1. /\ pass' = [pass EXCEPT !.pc = "parking", !.resumeAt = Earliest(attempts, pass.known)]
      /\ branch' = [branch EXCEPT ![w] = "idle"]
      /\ pass.pc = "running"
      /\ UNCHANGED <<run, attempts, late, reconciling, now, crashes>>
  BY DEF ThrowSleepSignal
<1>2. pass.known[w] # 0
  BY DEF IInv, Known
<1>3. Earliest(attempts, pass.known) \in Nat
  BY <1>2, EarliestType DEF IInv, Types, PassRecord, Known
<1>4. pass' \in PassRecord /\ pass'.known = pass.known
  BY <1>1, <1>3 DEF IInv, Types, PassRecord
<1>5. branch' \in [Waits -> Stages] /\ branch'[w] = "idle"
      /\ \A x \in Waits : x # w => branch'[x] = branch[x]
  BY <1>1 DEF IInv, Types, Stages
<1>6. Types'
  BY <1>1, <1>4, <1>5 DEF IInv, Types
<1>7. Known'
  BY <1>1, <1>4, <1>5 DEF IInv, Known
<1>8. Owning' /\ AtOnce'
  BY <1>1 DEF IInv, Owning, AtOnce
<1>9. NothingMissed'
  BY <1>1, <1>8, NotParked DEF IInv, Owning
<1> QED BY <1>6, <1>7, <1>8, <1>9 DEF IInv

LEMMA InsertStep ==
  ASSUME IInv, NEW w \in Waits, Insert(w)
  PROVE  IInv'
<1> DEFINE n == Len(attempts[w]) + 1
           next == IF Kind[w] = "signal" THEN "resolving"
                   ELSE IF pass.pc # "running" THEN "idle"
                   ELSE IF Kind[w] = "sleep" THEN "sleeping" ELSE "creating"
<1>1. /\ attempts' = [attempts EXCEPT ![w] = Append(attempts[w], NewAttempt(w))]
      /\ pass' = [pass EXCEPT !.known = [pass.known EXCEPT ![w] = n]]
      /\ branch' = [branch EXCEPT ![w] = next]
      /\ UNCHANGED <<run, late, reconciling, now, crashes>>
  BY DEF Insert
<1>2. next \in Stages
  BY DEF Stages
<1> HIDE DEF next
<1>3. /\ attempts' \in [Waits -> Seq(Attempt)]
      /\ \A x \in Waits : x # w => attempts'[x] = attempts[x]
      /\ Len(attempts'[w]) = Len(attempts[w]) + 1 /\ Len(attempts[w]) \in Nat
  BY <1>1, Added DEF IInv
<1>a. Len(attempts'[w]) = n /\ n \in Nat /\ n # 0 /\ n \in 0 .. n
  BY <1>3
<1> HIDE DEF n
<1>4. /\ pass' \in PassRecord /\ pass'.pc = pass.pc /\ pass'.known[w] = n
      /\ \A x \in Waits : x # w => pass'.known[x] = pass.known[x]
  BY <1>1, <1>a DEF IInv, Types, PassRecord
<1>5. /\ branch' \in [Waits -> Stages]
      /\ \A x \in Waits : x # w => branch'[x] = branch[x]
  BY <1>1, <1>2 DEF IInv, Types
<1>6. Types'
  BY <1>1, <1>3, <1>4, <1>5 DEF IInv, Types
<1>7. Known'
  <2>1. \A x \in Waits : pass'.known[x] \in 0 .. Len(attempts'[x])
    BY <1>3, <1>a, <1>4 DEF IInv, Known
  <2>2. \A x \in Waits :
          branch'[x] \notin {"idle", "inserting", "done"} => pass'.known[x] # 0
    BY <1>a, <1>4, <1>5 DEF IInv, Known
  <2> QED BY <2>1, <2>2 DEF Known
<1>8. Owning'
  <2>1. pass.pc # "none"
    BY DEF Insert, IInv, Owning
  <2> QED BY <1>1, <1>4, <2>1 DEF IInv, Owning
<1>9. AtOnce' /\ NothingMissed'
  BY <1>1, AddedQuietly
<1> QED BY <1>6, <1>7, <1>8, <1>9 DEF IInv

LEMMA InsertLateStep ==
  ASSUME IInv, NEW w \in Waits, InsertLate(w)
  PROVE  IInv'
<1>1. /\ attempts' = [attempts EXCEPT ![w] = Append(attempts[w], NewAttempt(w))]
      /\ late' \subseteq late
      /\ UNCHANGED <<run, pass, branch, reconciling, now, crashes>>
  BY DEF InsertLate
<1>2. /\ attempts' \in [Waits -> Seq(Attempt)]
      /\ \A x \in Waits : x # w => attempts'[x] = attempts[x]
      /\ Len(attempts'[w]) = Len(attempts[w]) + 1 /\ Len(attempts[w]) \in Nat
  BY <1>1, Added DEF IInv
<1>3. Types'
  BY <1>1, <1>2 DEF IInv, Types
<1>4. Known'
  <2>1. \A x \in Waits : 0 .. Len(attempts[x]) \subseteq 0 .. Len(attempts'[x])
    BY <1>2
  <2> QED BY <1>1, <2>1 DEF IInv, Known
<1>5. Owning'
  BY <1>1 DEF IInv, Owning
<1>6. AtOnce' /\ NothingMissed'
  BY <1>1, AddedQuietly
<1> QED BY <1>3, <1>4, <1>5, <1>6 DEF IInv

\* A branch goes on with the attempt it knows of, while its worker owns the row.
LEMMA BranchGoesOn ==
  ASSUME IInv, NEW w \in Waits, branch[w] # "idle", pass.known[w] # 0,
         NEW a \in Attempt, a.delivery = attempts[w][pass.known[w]].delivery,
         attempts' = [attempts EXCEPT
                        ![w] = [attempts[w] EXCEPT ![pass.known[w]] = a]],
         NEW stage \in Stages, branch' = [branch EXCEPT ![w] = stage],
         NEW k \in {0, pass.known[w]},
         pass' = [pass EXCEPT !.known = [pass.known EXCEPT ![w] = k]],
         stage = "done" \/ k # 0,
         UNCHANGED <<run, late, reconciling, now, crashes>>
  PROVE  IInv'
<1>1. pass.known[w] \in DOMAIN attempts[w] /\ pass.known[w] \in Nat
  <2>1. attempts[w] \in Seq(Attempt) /\ pass.known[w] \in 0 .. Len(attempts[w])
    BY DEF IInv, Types, Known
  <2> QED BY <2>1
<1>2. /\ attempts' \in [Waits -> Seq(Attempt)]
      /\ \A x \in Waits : Len(attempts'[x]) = Len(attempts[x])
      /\ \A x \in Waits : DOMAIN attempts'[x] = DOMAIN attempts[x]
      /\ attempts'[w][pass.known[w]] = a
      /\ \A x \in Waits : \A j \in DOMAIN attempts[x] :
           x # w \/ j # pass.known[w] => attempts'[x][j] = attempts[x][j]
  BY <1>1, Replaced DEF IInv, Types
<1>3. /\ pass' \in PassRecord /\ pass'.pc = pass.pc /\ pass'.known[w] = k
      /\ \A x \in Waits : x # w => pass'.known[x] = pass.known[x]
  <2> DEFINE known == [pass.known EXCEPT ![w] = k]
  <2>1. pass \in PassRecord /\ k \in Nat
    BY <1>1 DEF IInv, Types
  <2>2. /\ known \in [Waits -> Nat] /\ known[w] = k
        /\ \A x \in Waits : x # w => known[x] = pass.known[x]
    BY <2>1 DEF PassRecord
  <2>3. pass' = [pass EXCEPT !.known = known]
    OBVIOUS
  <2> HIDE DEF known
  <2> QED BY <2>1, <2>2, <2>3 DEF PassRecord
<1>4. /\ branch' \in [Waits -> Stages] /\ branch'[w] = stage
      /\ \A x \in Waits : x # w => branch'[x] = branch[x]
  BY DEF IInv, Types
<1>5. Types'
  BY <1>2, <1>3, <1>4 DEF IInv, Types
<1>6. Known'
  <2>1. \A x \in Waits : pass'.known[x] \in 0 .. Len(attempts'[x])
    <3>1. \A x \in Waits : pass.known[x] \in 0 .. Len(attempts[x])
      BY DEF IInv, Known
    <3>2. 0 \in 0 .. Len(attempts[w])
      BY <3>1
    <3> QED BY <1>2, <1>3, <3>1, <3>2
  <2>2. \A x \in Waits :
          branch'[x] \notin {"idle", "inserting", "done"} => pass'.known[x] # 0
    BY <1>3, <1>4 DEF IInv, Known
  <2> QED BY <2>1, <2>2 DEF Known
<1>7. pass.pc # "none" /\ run.owned
  BY DEF IInv, Owning
<1>8. Owning'
  BY <1>3, <1>7 DEF IInv, Owning
<1>9. AtOnce'
  BY <1>2 DEF IInv, AtOnce
<1>10. NothingMissed'
  BY <1>7, NotParked
<1> QED BY <1>5, <1>6, <1>8, <1>9, <1>10 DEF IInv

LEMMA KnownAttempt ==
  ASSUME IInv, NEW w \in Waits, branch[w] \notin {"idle", "inserting", "done"}
  PROVE  /\ pass.known[w] # 0
         /\ pass.known[w] \in DOMAIN attempts[w]
         /\ attempts[w][pass.known[w]] \in Attempt
         /\ attempts[w] \in Seq(Attempt)
         /\ pass = [pass EXCEPT !.known = [pass.known EXCEPT ![w] = pass.known[w]]]
<1>1. pass.known[w] # 0 /\ pass.known[w] \in 0 .. Len(attempts[w])
      /\ attempts[w] \in Seq(Attempt)
  BY DEF IInv, Types, Known
<1>2. pass = [pass EXCEPT !.known = [pass.known EXCEPT ![w] = pass.known[w]]]
  BY DEF IInv, Types, PassRecord
<1> QED BY <1>1, <1>2

LEMMA CreateChildStep ==
  ASSUME IInv, NEW w \in Waits, CreateChild(w)
  PROVE  IInv'
<1> DEFINE i == pass.known[w]
           o == attempts[w][i]
           a == [o EXCEPT !.child = IF o.child = "absent" THEN "active" ELSE o.child]
<1>1. branch[w] = "creating"
  BY DEF CreateChild
<1>2. /\ i # 0 /\ i \in DOMAIN attempts[w] /\ o \in Attempt /\ attempts[w] \in Seq(Attempt)
      /\ pass = [pass EXCEPT !.known = [pass.known EXCEPT ![w] = pass.known[w]]]
  BY <1>1, KnownAttempt
<1>3. a \in Attempt /\ a.delivery = o.delivery
  <2> HIDE DEF o
  <2> QED BY <1>2 DEF Attempt
<1>4. attempts' = [attempts EXCEPT ![w] = [attempts[w] EXCEPT ![i] = a]]
  BY DEF CreateChild
<1>5. /\ branch' = [branch EXCEPT ![w] = "linking"] /\ pass' = pass
      /\ UNCHANGED <<run, late, reconciling, now, crashes>>
  BY DEF CreateChild
<1>6. "linking" \in Stages
  BY DEF Stages
<1> HIDE DEF a
<1> QED BY <1>1, <1>2, <1>3, <1>4, <1>5, <1>6, BranchGoesOn

LEMMA LinkChildStep ==
  ASSUME IInv, NEW w \in Waits, LinkChild(w)
  PROVE  IInv'
<1> DEFINE i == pass.known[w]
           o == attempts[w][i]
           a == [o EXCEPT !.linked = TRUE]
<1>1. branch[w] = "linking"
  BY DEF LinkChild
<1>2. /\ i # 0 /\ i \in DOMAIN attempts[w] /\ o \in Attempt /\ attempts[w] \in Seq(Attempt)
      /\ pass = [pass EXCEPT !.known = [pass.known EXCEPT ![w] = pass.known[w]]]
  BY <1>1, KnownAttempt
<1>3. a \in Attempt /\ a.delivery = o.delivery
  <2> HIDE DEF o
  <2> QED BY <1>2 DEF Attempt
<1>4. attempts' = [attempts EXCEPT ![w] = [attempts[w] EXCEPT ![i] = a]]
  BY DEF LinkChild
<1>5. /\ branch' = [branch EXCEPT ![w] = "resolving"] /\ pass' = pass
      /\ UNCHANGED <<run, late, reconciling, now, crashes>>
  BY DEF LinkChild
<1>6. "resolving" \in Stages
  BY DEF Stages
<1> HIDE DEF a
<1> QED BY <1>1, <1>2, <1>3, <1>4, <1>5, <1>6, BranchGoesOn

LEMMA CompleteStepStep ==
  ASSUME IInv, NEW w \in Waits, NEW timedOut \in BOOLEAN,
         branch[w] \in {"resolving", "timing out"}, CompleteStep(w, timedOut)
  PROVE  IInv'
<1> DEFINE i == pass.known[w]
           o == attempts[w][i]
           a == [o EXCEPT !.status = "completed", !.timedOut = timedOut]
<1>1. /\ i # 0 /\ i \in DOMAIN attempts[w] /\ o \in Attempt /\ attempts[w] \in Seq(Attempt)
  BY KnownAttempt
<1>2. a \in Attempt /\ a.delivery = o.delivery
  <2> HIDE DEF o
  <2> QED BY <1>1 DEF Attempt
<1>3. attempts' = [attempts EXCEPT ![w] = [attempts[w] EXCEPT ![i] = a]]
  BY <1>1 DEF CompleteStep, IInv, Types
<1>4. /\ branch' = [branch EXCEPT ![w] = "done"]
      /\ pass' = [pass EXCEPT !.known = [pass.known EXCEPT ![w] = 0]]
      /\ UNCHANGED <<run, late, reconciling, now, crashes>>
  BY DEF CompleteStep
<1>5. "done" \in Stages
  BY DEF Stages
<1> HIDE DEF a
<1> QED BY <1>1, <1>2, <1>3, <1>4, <1>5, BranchGoesOn

LEMMA ResolveChildStep ==
  ASSUME IInv, NEW w \in Waits, ResolveChild(w)
  PROVE  IInv'
<1>1. branch[w] = "resolving"
  BY DEF ResolveChild
<1>2. CASE FailRun /\ UNCHANGED <<attempts, late, reconciling, now, crashes>>
  <2>1. attempts' \in [Waits -> Seq(Attempt)] /\ AtOnce'
    BY <1>2 DEF IInv, Types, AtOnce
  <2> QED BY <1>2, <2>1, FailedRow, RunEnds DEF FailRun, IInv
<1>3. CASE CompleteStep(w, FALSE)
  BY <1>1, <1>3, CompleteStepStep
<1>4. CASE ThrowSleepSignal(w)
  BY <1>1, <1>4, ThrowStep
<1> QED BY <1>2, <1>3, <1>4 DEF ResolveChild

LEMMA ResolveSignalStep ==
  ASSUME IInv, NEW w \in Waits, ResolveSignal(w)
  PROVE  IInv'
<1> DEFINE i == pass.known[w]
           o == attempts[w][i]
<1>1. branch[w] = "resolving"
  BY DEF ResolveSignal
<1>2. CASE CompleteStep(w, FALSE)
  BY <1>1, <1>2, CompleteStepStep
<1>3. CASE ThrowSleepSignal(w)
  BY <1>1, <1>3, ThrowStep
<1>4. CASE /\ branch' = [branch EXCEPT ![w] = "timing out"]
           /\ UNCHANGED <<run, attempts, pass, late, reconciling, now, crashes>>
  <2>1. /\ i # 0 /\ i \in DOMAIN attempts[w] /\ o \in Attempt /\ attempts[w] \in Seq(Attempt)
        /\ pass = [pass EXCEPT !.known = [pass.known EXCEPT ![w] = pass.known[w]]]
    BY <1>1, KnownAttempt
  <2>2. attempts' = [attempts EXCEPT ![w] = [attempts[w] EXCEPT ![i] = o]]
    <3>1. attempts[w] = [attempts[w] EXCEPT ![i] = o]
      BY <2>1
    <3>2. attempts = [attempts EXCEPT ![w] = attempts[w]]
      BY DEF IInv, Types
    <3> QED BY <1>4, <3>1, <3>2
  <2>3. "timing out" \in Stages
    BY DEF Stages
  <2> QED BY <1>1, <1>4, <2>1, <2>2, <2>3, BranchGoesOn
<1> QED BY <1>2, <1>3, <1>4 DEF ResolveSignal

LEMMA BranchStep ==
  ASSUME IInv, NEW w \in Waits, Branch(w)
  PROVE  IInv'
<1>1. CASE Sleep(w)
  BY <1>1, ThrowStep DEF Sleep
<1>2. CASE TimeOut(w)
  BY <1>2, CompleteStepStep DEF TimeOut
<1> QED BY <1>1, <1>2, InsertStep, CreateChildStep, LinkChildStep, ResolveChildStep,
           ResolveSignalStep DEF Branch

-----------------------------------------------------------------------------
(* The row is woken or parked *)

LEMMA Woken ==
  ASSUME Types
  PROVE  /\ WokenRow \in RunRecord
         /\ WokenRow.owned = run.owned /\ WokenRow.status = run.status
         /\ Parked => WokenRow.available <= now
<1>1. CASE Parked /\ run.available > now
  <2>1. WokenRow = [run EXCEPT !.available = now]
    BY <1>1 DEF WokenRow
  <2> QED BY <2>1 DEF Types, RunRecord
<1>2. CASE ~(Parked /\ run.available > now)
  <2>1. WokenRow = run
    BY <1>2 DEF WokenRow
  <2> QED BY <1>2, <2>1 DEF Types, RunRecord
<1> QED BY <1>1, <1>2

\* Somebody other than the worker of a pass changes attempts and the row.
LEMMA OthersStep ==
  ASSUME IInv, attempts' \in [Waits -> Seq(Attempt)],
         \A x \in Waits : Len(attempts'[x]) = Len(attempts[x]),
         run' = run \/ run' = WokenRow,
         UNCHANGED <<pass, branch, late, reconciling, now>>,
         crashes' \in Nat, crashes' <= MaxCrashes,
         AtOnce', NothingMissed'
  PROVE  IInv'
<1>1. run' \in RunRecord /\ run'.owned = run.owned /\ run'.status = run.status
  BY Woken DEF IInv, Types
<1>2. Types'
  BY <1>1 DEF IInv, Types
<1>3. Known'
  BY DEF IInv, Known
<1>4. Owning'
  BY <1>1 DEF IInv, Owning
<1> QED BY <1>2, <1>3, <1>4 DEF IInv

\* A row that has just been woken is due.
LEMMA WokenIsDue ==
  ASSUME IInv, run' = WokenRow, now' = now
  PROVE  NothingMissed'
<1>1. /\ WokenRow.owned = run.owned /\ WokenRow.status = run.status
      /\ Parked => WokenRow.available <= now
  BY Woken DEF IInv
<1> QED BY <1>1 DEF NothingMissed, Parked

LEMMA CompleteRunStep ==
  ASSUME IInv, Complete
  PROVE  IInv'
<1> DEFINE r == [run EXCEPT !.status = "completed"]
<1>1. r \in RunRecord /\ r.status = "completed"
  BY DEF IInv, Types, RunRecord
<1>2. run' = r /\ EndPass /\ UNCHANGED <<attempts, late, reconciling, now, crashes>>
  BY DEF Complete
<1>3. attempts' \in [Waits -> Seq(Attempt)] /\ AtOnce'
  BY <1>2 DEF IInv, Types, AtOnce
<1> HIDE DEF r
<1> QED BY <1>1, <1>2, <1>3, RunEnds

LEMMA ParkStep ==
  ASSUME IInv, Park
  PROVE  IInv'
<1> DEFINE available == IF ~Postgres /\ AnyResult /\ pass.resumeAt > now
                        THEN now ELSE pass.resumeAt
<1>1. /\ run' = [run EXCEPT !.owned = FALSE, !.available = available]
      /\ late' = late \cup {w \in Waits : branch[w] = "inserting"}
      /\ EndPass
      /\ UNCHANGED <<attempts, now, crashes>>
  BY DEF Park
<1>2. available \in Nat
  BY DEF IInv, Types, PassRecord
<1>3. ~Postgres /\ AnyResult => available <= now
  BY DEF IInv, Types, PassRecord
<1> HIDE DEF available
<1>4. run' \in RunRecord /\ run'.available = available
  BY <1>1, <1>2 DEF IInv, Types, RunRecord
<1>5. reconciling' \in BOOLEAN /\ (Postgres => reconciling')
  BY WaitsAssumption, Zenon DEF Park
<1>6. /\ pass' \in PassRecord /\ branch' \in [Waits -> Stages] /\ Known' /\ Owning'
  BY <1>1, EndPassParts DEF IInv, Types
<1>7. Types'
  BY <1>1, <1>4, <1>5, <1>6 DEF IInv, Types
<1>8. AtOnce'
  BY <1>1 DEF IInv, AtOnce
<1>9. NothingMissed'
  <2>1. ASSUME NEW w \in Waits, NEW i \in DOMAIN attempts[w], Settled(w, i)'
        PROVE  AnyResult
    BY <1>1, <2>1 DEF Settled, HasResult, AnyResult
  <2> QED BY <1>1, <1>3, <1>4, <1>5, <2>1 DEF NothingMissed
<1> QED BY <1>6, <1>7, <1>8, <1>9 DEF IInv

LEMMA ReconcileStep ==
  ASSUME IInv, Reconcile
  PROVE  IInv'
<1>1. /\ reconciling' = FALSE
      /\ UNCHANGED <<attempts, pass, branch, late, now, crashes>>
      /\ run' = IF AnyResult THEN WokenRow ELSE run
  BY DEF Reconcile
<1>2. run' \in RunRecord /\ run'.owned = run.owned /\ run'.status = run.status
  BY <1>1, Woken DEF IInv, Types
<1>3. Types'
  BY <1>1, <1>2 DEF IInv, Types
<1>4. Known' /\ Owning' /\ AtOnce'
  BY <1>1, <1>2 DEF IInv, Known, Owning, AtOnce
<1>5. NothingMissed'
  <2>1. CASE AnyResult
    BY <1>1, <2>1, WokenIsDue
  <2>2. CASE ~AnyResult
    BY <1>1, <2>2 DEF NothingMissed, Settled, HasResult, AnyResult
  <2> QED BY <2>1, <2>2
<1> QED BY <1>3, <1>4, <1>5 DEF IInv

-----------------------------------------------------------------------------
(* Children *)

LEMMA EndChildStep ==
  ASSUME IInv, NEW w \in Waits, NEW i \in DOMAIN attempts[w], EndChild(w, i)
  PROVE  IInv'
<1> DEFINE o == attempts[w][i]
           b == now > o.until
<1>1. b \in BOOLEAN
  <2>1. o \in Attempt
    BY DEF IInv, Types
  <2>2. now \in Nat /\ o.until \in Nat
    <3> HIDE DEF o
    <3> QED BY <2>1 DEF IInv, Types, Attempt
  <2> HIDE DEF o
  <2> QED BY <2>2
<1> DEFINE a == [o EXCEPT !.child = "finishing", !.overdue = b]
<1>2. o \in Attempt /\ attempts[w] \in Seq(Attempt)
  BY DEF IInv, Types
<1>3. a \in Attempt /\ a.delivery = o.delivery /\ a.child = "finishing"
  <2> HIDE DEF o, b
  <2> QED BY <1>1, <1>2 DEF Attempt
<1>4. attempts' = [attempts EXCEPT ![w] = [attempts[w] EXCEPT ![i] = a]]
  <2>1. attempts' = [attempts EXCEPT ![w][i].child = "finishing", ![w][i].overdue = b]
    BY Zenon DEF EndChild
  <2> HIDE DEF o, b
  <2> QED BY <2>1, <1>2 DEF IInv, Types, o
<1>5. UNCHANGED <<run, pass, branch, late, reconciling, now, crashes>>
  BY DEF EndChild
<1> HIDE DEF a
<1>6. /\ attempts' \in [Waits -> Seq(Attempt)]
      /\ \A x \in Waits : Len(attempts'[x]) = Len(attempts[x])
      /\ attempts'[w][i] = a
  BY <1>3, <1>4, Replaced DEF IInv, Types
<1>7. Settled(w, i)' => Settled(w, i)
  <2>1. a.status = o.status
    <3> HIDE DEF o, b
    <3> QED BY <1>1, <1>2 DEF Attempt, a
  <2> QED BY <1>3, <1>6, <2>1 DEF Settled, HasResult
<1>8. AtOnce' /\ NothingMissed'
  BY <1>3, <1>4, <1>5, <1>7, ReplacedQuietly
<1>9. crashes' \in Nat /\ crashes' <= MaxCrashes
  BY <1>5 DEF IInv, Types
<1> QED BY <1>5, <1>6, <1>8, <1>9, OthersStep

\* The two ways in which a child that has ended is done.
LEMMA ChildDone ==
  ASSUME IInv, NEW w \in Waits, NEW i \in DOMAIN attempts[w],
         NEW a, a = [attempts[w][i] EXCEPT !.child = "ended"],
         attempts' = [attempts EXCEPT ![w] = [attempts[w] EXCEPT ![i] = a]]
  PROVE  /\ attempts' \in [Waits -> Seq(Attempt)]
         /\ \A x \in Waits : Len(attempts'[x]) = Len(attempts[x])
         /\ \A x \in Waits : DOMAIN attempts'[x] = DOMAIN attempts[x]
         /\ attempts'[w][i] = a
         /\ \A x \in Waits : \A j \in DOMAIN attempts[x] :
              x # w \/ j # i => attempts'[x][j] = attempts[x][j]
         /\ a.status = attempts[w][i].status
         /\ a.linked = attempts[w][i].linked
         /\ a.delivery = attempts[w][i].delivery
         /\ AtOnce'
<1> DEFINE o == attempts[w][i]
<1>1. o \in Attempt /\ attempts \in [Waits -> Seq(Attempt)]
  BY DEF IInv, Types
<1>2. a \in Attempt /\ a.delivery = o.delivery /\ a.status = o.status /\ a.linked = o.linked
  <2>1. a = [o EXCEPT !.child = "ended"]
    OBVIOUS
  <2> HIDE DEF o
  <2> QED BY <1>1, <2>1 DEF Attempt
<1>3. /\ attempts' \in [Waits -> Seq(Attempt)]
      /\ \A x \in Waits : Len(attempts'[x]) = Len(attempts[x])
      /\ \A x \in Waits : DOMAIN attempts'[x] = DOMAIN attempts[x]
      /\ attempts'[w][i] = a
      /\ \A x \in Waits : \A j \in DOMAIN attempts[x] :
           x # w \/ j # i => attempts'[x][j] = attempts[x][j]
  BY <1>1, <1>2, Replaced, Zenon
<1>4. AtOnce'
  BY <1>2, <1>3 DEF IInv, AtOnce
<1> QED BY <1>2, <1>3, <1>4

LEMMA WakeParentStep ==
  ASSUME IInv, NEW w \in Waits, NEW i \in DOMAIN attempts[w], WakeParent(w, i)
  PROVE  IInv'
<1> DEFINE a == [attempts[w][i] EXCEPT !.child = "ended"]
<1>1. /\ attempts' = [attempts EXCEPT ![w] = [attempts[w] EXCEPT ![i] = a]]
      /\ UNCHANGED <<pass, branch, late, reconciling, now, crashes>>
  BY DEF WakeParent
<1>2. /\ attempts' \in [Waits -> Seq(Attempt)]
      /\ \A x \in Waits : Len(attempts'[x]) = Len(attempts[x])
      /\ \A x \in Waits : DOMAIN attempts'[x] = DOMAIN attempts[x]
      /\ attempts'[w][i] = a
      /\ \A x \in Waits : \A j \in DOMAIN attempts[x] :
           x # w \/ j # i => attempts'[x][j] = attempts[x][j]
      /\ AtOnce'
  BY <1>1, ChildDone
<1>3. /\ attempts'[w][i].status = attempts[w][i].status
      /\ attempts'[w][i].linked = attempts[w][i].linked
      /\ attempts'[w][i].delivery = attempts[w][i].delivery
  BY <1>1, <1>2, ChildDone
<1> HIDE DEF a
<1>4. NothingMissed'
  <2>1. CASE attempts[w][i].status = "running" /\ attempts[w][i].linked
    BY <1>1, <2>1, WokenIsDue DEF WakeParent
  <2>2. CASE ~(attempts[w][i].status = "running" /\ attempts[w][i].linked)
    <3>1. run' = run
      BY <2>2 DEF WakeParent
    <3>2. Settled(w, i)' => Settled(w, i)
      BY <1>3, <2>2 DEF Settled, HasResult
    <3>3. \A x \in Waits : \A j \in DOMAIN attempts'[x] :
            Settled(x, j)' => j \in DOMAIN attempts[x] /\ Settled(x, j)
      BY <1>2, <3>2 DEF Settled, HasResult
    <3> QED BY <1>1, <3>1, <3>3, StillDue
  <2> QED BY <2>1, <2>2
<1>5. crashes' \in Nat /\ crashes' <= MaxCrashes /\ (run' = run \/ run' = WokenRow)
  BY <1>1 DEF IInv, Types, WakeParent
<1> QED BY <1>1, <1>2, <1>4, <1>5, OthersStep

LEMMA CrashChildStep ==
  ASSUME IInv, NEW w \in Waits, NEW i \in DOMAIN attempts[w], CrashChild(w, i)
  PROVE  IInv'
<1> DEFINE a == [attempts[w][i] EXCEPT !.child = "ended"]
<1>1. /\ attempts' = [attempts EXCEPT ![w] = [attempts[w] EXCEPT ![i] = a]]
      /\ crashes < MaxCrashes /\ crashes' = crashes + 1
      /\ UNCHANGED <<run, pass, branch, late, reconciling, now>>
  BY DEF CrashChild, Crash
<1>2. crashes' \in Nat /\ crashes' <= MaxCrashes /\ crashes' # 0
  BY <1>1, WaitsAssumption DEF IInv, Types
<1>3. NothingMissed'
  BY <1>2 DEF NothingMissed
<1>4. /\ attempts' \in [Waits -> Seq(Attempt)]
      /\ \A x \in Waits : Len(attempts'[x]) = Len(attempts[x])
      /\ AtOnce'
  BY <1>1, ChildDone
<1> QED BY <1>1, <1>2, <1>3, <1>4, OthersStep

-----------------------------------------------------------------------------
(* Senders *)

\* Deliveries change, and nothing else of the attempts.
LEMMA Delivered ==
  ASSUME IInv, NEW w \in Waits, NEW indices,
         NEW state \in {"none", "inserted", "swept", "committed"},
         Deliver(w, indices, state)
  PROVE  /\ attempts' \in [Waits -> Seq(Attempt)]
         /\ \A x \in Waits : Len(attempts'[x]) = Len(attempts[x])
         /\ \A x \in Waits : DOMAIN attempts'[x] = DOMAIN attempts[x]
         /\ \A x \in Waits : x # w => attempts'[x] = attempts[x]
         /\ \A i \in DOMAIN attempts[w] :
              /\ attempts'[w][i].status = attempts[w][i].status
              /\ attempts'[w][i].linked = attempts[w][i].linked
              /\ attempts'[w][i].child = attempts[w][i].child
              /\ attempts'[w][i].until = attempts[w][i].until
              /\ attempts'[w][i].delivery \in {attempts[w][i].delivery, state}
<1> DEFINE o == attempts[w]
           s == [i \in DOMAIN o |->
                   IF i \in indices THEN [o[i] EXCEPT !.delivery = state] ELSE o[i]]
<1>1. o \in Seq(Attempt) /\ attempts \in [Waits -> Seq(Attempt)]
  BY DEF IInv, Types
<1>2. attempts' = [attempts EXCEPT ![w] = s]
  BY DEF Deliver
<1> HIDE DEF o
<1>3. ASSUME NEW i \in DOMAIN o
      PROVE  /\ s[i] \in Attempt
             /\ s[i].status = o[i].status /\ s[i].linked = o[i].linked
             /\ s[i].child = o[i].child /\ s[i].until = o[i].until
             /\ s[i].delivery \in {o[i].delivery, state}
  <2>1. o[i] \in Attempt
    BY <1>1
  <2>2. s[i] = IF i \in indices THEN [o[i] EXCEPT !.delivery = state] ELSE o[i]
    OBVIOUS
  <2> HIDE DEF s
  <2> QED BY <2>1, <2>2 DEF Attempt
<1>4. s \in Seq(Attempt) /\ Len(s) = Len(o) /\ DOMAIN s = DOMAIN o
  <2>1. DOMAIN o = 1 .. Len(o) /\ Len(o) \in Nat
    BY <1>1
  <2>2. s \in [1 .. Len(o) -> Attempt] /\ DOMAIN s = DOMAIN o
    BY <1>3, <2>1
  <2> HIDE DEF s
  <2> QED BY <2>1, <2>2
<1> HIDE DEF s
<1>5. attempts'[w] = s /\ \A x \in Waits : x # w => attempts'[x] = attempts[x]
  BY <1>1, <1>2
<1>6. attempts' \in [Waits -> Seq(Attempt)]
  BY <1>1, <1>2, <1>4
<1> QED BY <1>3, <1>4, <1>5, <1>6 DEF o

\* On Postgres the wake-ups of signals are not among those that count.
LEMMA SentOnPostgres ==
  ASSUME IInv, NEW w \in Waits, NEW indices, Postgres,
         NEW state \in {"none", "inserted", "swept", "committed"},
         Deliver(w, indices, state), UNCHANGED <<run, reconciling, now, crashes>>
  PROVE  NothingMissed'
<1>1. \A x \in Waits : \A i \in DOMAIN attempts'[x] :
        Settled(x, i)' => i \in DOMAIN attempts[x] /\ Settled(x, i)
  <2>1. ASSUME NEW x \in Waits, NEW i \in DOMAIN attempts'[x], Settled(x, i)'
        PROVE  i \in DOMAIN attempts[x] /\ Settled(x, i)
    <3>1. CASE x = w
      BY <2>1, <3>1, Delivered DEF Settled, HasResult
    <3>2. CASE x # w
      BY <2>1, <3>2, Delivered DEF Settled, HasResult
    <3> QED BY <3>1, <3>2
  <2> QED BY <2>1
<1> QED BY <1>1, StillDue

\* Nothing but the delivery of attempts of one wait and the row changes.
LEMMA SenderParts ==
  ASSUME IInv, NEW w \in Waits, NEW indices,
         NEW state \in {"none", "inserted", "swept", "committed"},
         Deliver(w, indices, state), run' = run \/ run' = WokenRow,
         ~Postgres => state = "committed",
         UNCHANGED <<pass, branch, late, reconciling, now, crashes>>,
         NothingMissed'
  PROVE  IInv'
<1>1. /\ attempts' \in [Waits -> Seq(Attempt)]
      /\ \A x \in Waits : Len(attempts'[x]) = Len(attempts[x])
  BY Delivered
<1>2. AtOnce'
  <2>1. ASSUME ~Postgres, NEW x \in Waits, NEW i \in DOMAIN attempts'[x]
        PROVE  attempts'[x][i].delivery \in {"none", "committed"}
    <3>1. CASE x = w
      BY <2>1, <3>1, Delivered DEF IInv, AtOnce
    <3>2. CASE x # w
      BY <2>1, <3>2, Delivered DEF IInv, AtOnce
    <3> QED BY <3>1, <3>2
  <2> QED BY <2>1 DEF AtOnce
<1>3. crashes' \in Nat /\ crashes' <= MaxCrashes
  BY DEF IInv, Types
<1> QED BY <1>1, <1>2, <1>3, OthersStep

LEMMA SenderStep ==
  ASSUME IInv, NEW w \in Waits, Sender(w)
  PROVE  IInv'
<1>1. ASSUME NEW state, WithDelivery(w, state) # {}, state \in {"inserted", "swept"}
      PROVE  Postgres
  BY <1>1 DEF WithDelivery, IInv, AtOnce
<1>2. CASE Send(w)
  <2> DEFINE indices == Waiters(w)
             state == IF Postgres THEN "inserted" ELSE "committed"
  <2>1. Deliver(w, indices, state) /\ UNCHANGED <<pass, branch, late, reconciling, now, crashes>>
        /\ run' = IF Postgres THEN run ELSE WokenRow
    BY <1>2 DEF Send
  <2>2. state \in {"none", "inserted", "swept", "committed"} /\ (~Postgres => state = "committed")
    OBVIOUS
  <2> HIDE DEF indices, state
  <2>3. NothingMissed'
    <3>1. CASE Postgres
      BY <2>1, <2>2, <3>1, SentOnPostgres
    <3>2. CASE ~Postgres
      BY <2>1, <3>2, WokenIsDue
    <3> QED BY <3>1, <3>2
  <2> QED BY <2>1, <2>2, <2>3, SenderParts
<1>3. CASE Sweep(w)
  <2> DEFINE indices == WithDelivery(w, "inserted")
             state == IF Parked THEN "committed" ELSE "swept"
  <2>1. Deliver(w, indices, state) /\ UNCHANGED <<pass, branch, late, reconciling, now, crashes>>
        /\ run' = WokenRow /\ Postgres
    BY <1>1, <1>3 DEF Sweep
  <2>2. state \in {"none", "inserted", "swept", "committed"}
    OBVIOUS
  <2> HIDE DEF indices, state
  <2>3. NothingMissed'
    BY <2>1, WokenIsDue
  <2> QED BY <2>1, <2>2, <2>3, SenderParts
<1>4. CASE Commit(w)
  <2> DEFINE indices == WithDelivery(w, "swept")
  <2>1. Deliver(w, indices, "committed")
        /\ UNCHANGED <<run, pass, branch, late, reconciling, now, crashes>> /\ Postgres
    BY <1>1, <1>4 DEF Commit
  <2> HIDE DEF indices
  <2>2. NothingMissed'
    BY <2>1, SentOnPostgres
  <2> QED BY <2>1, <2>2, SenderParts
<1> QED BY <1>2, <1>3, <1>4 DEF Sender

-----------------------------------------------------------------------------
(* Crashes and time *)

LEMMA CrashInPassStep ==
  ASSUME IInv, CrashInPass
  PROVE  IInv'
<1>1. /\ run' = [run EXCEPT !.available = now + Lease]
      /\ crashes < MaxCrashes /\ crashes' = crashes + 1
      /\ EndPass /\ UNCHANGED <<attempts, late, reconciling, now>>
  BY DEF CrashInPass, Crash
<1>2. now + Lease \in Nat /\ crashes' \in Nat /\ crashes' <= MaxCrashes /\ crashes' # 0
  BY <1>1, WaitsAssumption DEF IInv, Types
<1>3. run' \in RunRecord
  BY <1>1, <1>2 DEF IInv, Types, RunRecord
<1>4. /\ pass' \in PassRecord /\ branch' \in [Waits -> Stages] /\ Known' /\ Owning'
  BY <1>1, EndPassParts DEF IInv, Types
<1>5. Types'
  BY <1>1, <1>2, <1>3, <1>4 DEF IInv, Types
<1>6. AtOnce' /\ NothingMissed'
  BY <1>1, <1>2 DEF IInv, AtOnce, NothingMissed
<1> QED BY <1>4, <1>5, <1>6 DEF IInv

LEMMA CrashParkedStep ==
  ASSUME IInv, CrashParked
  PROVE  IInv'
<1>1. /\ reconciling' = FALSE /\ crashes < MaxCrashes /\ crashes' = crashes + 1
      /\ UNCHANGED <<run, attempts, pass, branch, late, now>>
  BY DEF CrashParked, Crash
<1>2. crashes' \in Nat /\ crashes' <= MaxCrashes /\ crashes' # 0
  BY <1>1, WaitsAssumption DEF IInv, Types
<1>3. Types'
  BY <1>1, <1>2 DEF IInv, Types
<1>4. Known' /\ Owning' /\ AtOnce' /\ NothingMissed'
  BY <1>1, <1>2 DEF IInv, Known, Owning, AtOnce, NothingMissed
<1> QED BY <1>3, <1>4 DEF IInv

LEMMA TickStep ==
  ASSUME IInv, Tick
  PROVE  IInv'
<1>1. /\ now < MaxTime /\ now' = now + 1
      /\ UNCHANGED <<run, attempts, pass, branch, late, reconciling, crashes>>
  BY DEF Tick
<1>2. now' \in Nat /\ now' <= MaxTime
  BY <1>1, WaitsAssumption DEF IInv, Types
<1>3. Types'
  BY <1>1, <1>2 DEF IInv, Types
<1>4. Known' /\ Owning' /\ AtOnce'
  BY <1>1 DEF IInv, Known, Owning, AtOnce
<1>5. NothingMissed'
  BY <1>1, StillDue DEF Settled, HasResult
<1> QED BY <1>3, <1>4, <1>5 DEF IInv

-----------------------------------------------------------------------------
(* The theorems *)

LEMMA NextInv == IInv /\ [Next]_vars => IInv'
<1> SUFFICES ASSUME IInv, [Next]_vars PROVE IInv'
  OBVIOUS
<1>1. CASE Claim
  BY <1>1, ClaimStep
<1>2. CASE Complete \/ Park \/ Reconcile
  BY <1>2, CompleteRunStep, ParkStep, ReconcileStep
<1>3. ASSUME NEW w \in Waits, Branch(w) \/ InsertLate(w) \/ Sender(w)
      PROVE  IInv'
  BY <1>3, BranchStep, InsertLateStep, SenderStep
<1>4. ASSUME NEW w \in Waits, NEW i \in DOMAIN attempts[w], Child(w, i)
      PROVE  IInv'
  BY <1>4, EndChildStep, WakeParentStep, CrashChildStep DEF Child
<1>5. CASE CrashInPass \/ CrashParked \/ Tick
  BY <1>5, CrashInPassStep, CrashParkedStep, TickStep
<1>6. CASE UNCHANGED vars
  <2>1. UNCHANGED <<run, attempts, pass, branch, late, reconciling, now, crashes>>
    BY <1>6 DEF vars
  <2> QED BY <2>1 DEF IInv, Types, Known, Owning, AtOnce, NothingMissed, Parked,
                      Settled, HasResult
<1> QED BY <1>1, <1>2, <1>3, <1>4, <1>5, <1>6 DEF Next

LEMMA Invariance == Spec => []IInv
<1> QED BY InitInv, NextInv, PTL DEF Spec

\* Every variable keeps its type, and a pass remembers only attempts that
\* exist (StepHistory).
THEOREM TypeCorrect == Spec => []TypeOK
<1>1. IInv => TypeOK
  BY TypesImply DEF IInv
<1> QED BY <1>1, Invariance, PTL

\* On both backends, while no process dies, no order of the statements of
\* completeWorkflowRun and sleepWorkflowRun leaves a parked run asleep whose
\* child has ended.
THEOREM ChildrenWake == Spec => []ChildrenWakeParents
<1>1. IInv => ChildrenWakeParents
  BY DEF IInv, NothingMissed, Settled, ChildrenWakeParents, DueForResult
<1> QED BY <1>1, Invariance, PTL

\* On SQLite the same of a signal that was sent, in whatever order the
\* transaction of sendSignal and the statement that parks the run commit.
THEOREM SignalsWake == ~Postgres => (Spec => []SignalsWakeRuns)
<1> SUFFICES ASSUME ~Postgres PROVE Spec => []SignalsWakeRuns
  OBVIOUS
<1>1. IInv => SignalsWakeRuns
  BY DEF IInv, NothingMissed, Settled, SignalsWakeRuns, DueForResult
<1> QED BY <1>1, Invariance, PTL

-----------------------------------------------------------------------------
(* On SQLite every insertion of a pass returns before a branch throws, so  *)
(* that no attempt appears behind the back of a later pass.                *)

NobodyLate ==
  /\ late = {}
  /\ pass.pc = "parking" => \A w \in Waits : branch[w] # "inserting"

OnceUnlessSleep == \A w \in Waits : Kind[w] # "sleep" => Len(attempts[w]) <= 1

\* The time of a wait other than w has run out at t.
RunOut(w, t) ==
  \E x \in Waits \ {w} : \E i \in DOMAIN attempts[x] : attempts[x][i].until <= t

\* An attempt may be inserted: it is the first, or of a sleep that starts over.
Excused(w) == Len(attempts[w]) = 0 \/ (Kind[w] = "sleep" /\ RunOut(w, now))

InsertionsExcused == \A w \in Waits : branch[w] = "inserting" => Excused(w)

ChildrenOfWorkflows ==
  /\ \A w \in Waits : branch[w] = "creating" => Kind[w] = "workflow"
  /\ \A w \in Waits : \A i \in DOMAIN attempts[w] :
       attempts[w][i].child # "absent" => Kind[w] = "workflow"

\* A pass remembers the attempt that a later one would find.
KnownIsLatest ==
  pass.pc # "none" => \A w \in Waits :
    ~Cached(attempts[w]) => pass.known[w] = LatestRunning(attempts[w])

\* No wait that is not over ends before t.
DueBy(t) ==
  \A w \in Waits : ~Cached(attempts[w]) /\ LatestRunning(attempts[w]) # 0
                    => t <= attempts[w][LatestRunning(attempts[w])].until

DueInTime ==
  /\ pass.pc = "parking" => DueBy(pass.resumeAt)
  /\ Parked => DueBy(run.available)

Steps == OnceUnlessSleep /\ SleepsSurviveWakeUps /\ InsertionsExcused

SqliteInv ==
  NobodyLate /\ Steps /\ ChildrenOfWorkflows /\ KnownIsLatest /\ DueInTime

-----------------------------------------------------------------------------
(* What changes these and what does not *)

LEMMA LatestFacts ==
  ASSUME NEW s \in Seq(Attempt)
  PROVE  /\ (\E i \in DOMAIN s : s[i].status = "running") =>
              /\ LatestRunning(s) # 0 /\ LatestRunning(s) \in DOMAIN s
              /\ s[LatestRunning(s)].status = "running"
              /\ \A i \in DOMAIN s : s[i].status = "running" => i <= LatestRunning(s)
         /\ (\A i \in DOMAIN s : s[i].status # "running") => LatestRunning(s) = 0
<1> DEFINE live == {i \in DOMAIN s : s[i].status = "running"}
<1>1. live \in SUBSET (1 .. Len(s)) /\ Len(s) \in Nat
  OBVIOUS
<1>2. LatestRunning(s) = IF live = {} THEN 0 ELSE Max(live)
  BY DEF LatestRunning
<1>3. live # {} => Max(live) \in live /\ \A i \in live : i <= Max(live)
  <2> HIDE DEF live
  <2> QED BY <1>1, GreatestExists
<1>4. ASSUME live # {}
      PROVE  /\ LatestRunning(s) # 0 /\ LatestRunning(s) \in DOMAIN s
             /\ s[LatestRunning(s)].status = "running"
             /\ \A i \in DOMAIN s : s[i].status = "running" => i <= LatestRunning(s)
  <2>1. LatestRunning(s) = Max(live)
    BY <1>2, <1>4
  <2>2. LatestRunning(s) \in live /\ \A i \in live : i <= LatestRunning(s)
    BY <1>3, <1>4, <2>1
  <2> QED BY <1>1, <2>2
<1>5. live = {} => LatestRunning(s) = 0
  BY <1>2
<1> QED BY <1>4, <1>5

\* The history looks at nothing but the status.
LEMMA SameStatus ==
  ASSUME NEW s \in Seq(Attempt), NEW t \in Seq(Attempt), DOMAIN s = DOMAIN t,
         \A i \in DOMAIN s : s[i].status = t[i].status
  PROVE  LatestRunning(s) = LatestRunning(t) /\ (Cached(s) <=> Cached(t))
<1>1. {i \in DOMAIN s : s[i].status = "running"} = {i \in DOMAIN t : t[i].status = "running"}
  OBVIOUS
<1> QED BY <1>1 DEF LatestRunning, Cached

\* The attempts keep their number and times.
SameTimes ==
  \A x \in Waits : /\ DOMAIN attempts'[x] = DOMAIN attempts[x]
                   /\ Len(attempts'[x]) = Len(attempts[x])
                   /\ \A i \in DOMAIN attempts[x] : attempts'[x][i].until = attempts[x][i].until

SameStatuses ==
  \A x \in Waits : \A i \in DOMAIN attempts[x] :
    attempts'[x][i].status = attempts[x][i].status

\* A time that has run out stays so.
LEMMA RunOutLater ==
  ASSUME Types, Types', SameTimes, NEW w \in Waits, NEW t \in Int, NEW u \in Int, t <= u,
         RunOut(w, t)
  PROVE  \E x \in Waits \ {w} : \E i \in DOMAIN attempts'[x] : attempts'[x][i].until <= u
<1>1. PICK x \in Waits \ {w} : \E i \in DOMAIN attempts[x] : attempts[x][i].until <= t
  BY DEF RunOut
<1>2. PICK i \in DOMAIN attempts[x] : attempts[x][i].until <= t
  BY <1>1
<1>3. attempts[x][i] \in Attempt
  BY DEF Types
<1>4. attempts[x][i].until \in Nat
  BY <1>3 DEF Attempt
<1>5. attempts'[x][i].until <= u /\ i \in DOMAIN attempts'[x]
  BY <1>2, <1>4 DEF SameTimes
<1> QED BY <1>5 DEF RunOut

LEMMA StepsStay ==
  ASSUME IInv, IInv', Steps, SameTimes, now' = now \/ now' = now + 1,
         \A w \in Waits : branch'[w] = "inserting" => Excused(w)
  PROVE  Steps'
<1>1. now \in Nat /\ now' \in Nat /\ now <= now'
  BY DEF IInv, Types
<1>2. OnceUnlessSleep'
  BY DEF Steps, OnceUnlessSleep, SameTimes
<1>3. SleepsSurviveWakeUps'
  <2> SUFFICES ASSUME NEW w \in Waits, Kind[w] = "sleep", NEW j \in 2 .. Len(attempts'[w])
               PROVE  \E x \in Waits \ {w} : \E i \in DOMAIN attempts'[x] :
                        attempts'[x][i].until <= attempts'[w][j].until - Duration[w]
    BY DEF SleepsSurviveWakeUps
  <2>1. j \in 2 .. Len(attempts[w]) /\ j \in DOMAIN attempts[w]
    BY DEF SameTimes, IInv, Types
  <2>2. RunOut(w, attempts[w][j].until - Duration[w])
    BY <2>1 DEF Steps, SleepsSurviveWakeUps, RunOut
  <2>3. attempts[w][j] \in Attempt
    BY <2>1 DEF IInv, Types
  <2>4. attempts[w][j].until \in Nat /\ Duration[w] \in Nat
    BY <2>3, WaitsAssumption DEF Attempt
  <2>5. attempts'[w][j].until = attempts[w][j].until
    BY <2>1 DEF SameTimes
  <2>6. attempts[w][j].until - Duration[w] \in Int
    BY <2>4
  <2>7. attempts[w][j].until - Duration[w] <= attempts[w][j].until - Duration[w]
    BY <2>6
  <2> QED BY <2>2, <2>5, <2>6, <2>7, RunOutLater DEF IInv
<1>4. InsertionsExcused'
  <2> SUFFICES ASSUME NEW w \in Waits, branch'[w] = "inserting" PROVE Excused(w)'
    BY DEF InsertionsExcused
  <2>1. CASE Len(attempts[w]) = 0
    BY <2>1 DEF Excused, SameTimes
  <2>2. CASE Kind[w] = "sleep" /\ RunOut(w, now)
    <3>1. \E x \in Waits \ {w} : \E i \in DOMAIN attempts'[x] : attempts'[x][i].until <= now'
      BY <1>1, <2>2, RunOutLater DEF IInv
    <3> QED BY <2>2, <3>1 DEF Excused, RunOut
  <2> QED BY <2>1, <2>2 DEF Excused
<1> QED BY <1>2, <1>3, <1>4 DEF Steps

\* A history whose times and statuses stay is the same to a pass.
LEMMA HistoryStays ==
  ASSUME IInv, IInv', SameTimes, SameStatuses, NEW w \in Waits
  PROVE  /\ LatestRunning(attempts'[w]) = LatestRunning(attempts[w])
         /\ Cached(attempts'[w]) <=> Cached(attempts[w])
         /\ LatestRunning(attempts[w]) # 0 =>
              attempts'[w][LatestRunning(attempts[w])].until =
                attempts[w][LatestRunning(attempts[w])].until
<1> DEFINE s == attempts[w]
           t == attempts'[w]
<1>1. s \in Seq(Attempt) /\ t \in Seq(Attempt)
  BY DEF IInv, Types
<1>2. DOMAIN s = DOMAIN t /\ (\A i \in DOMAIN s : s[i].status = t[i].status)
      /\ (\A i \in DOMAIN s : t[i].until = s[i].until)
  BY DEF SameTimes, SameStatuses
<1> HIDE DEF s, t
<1>3. LatestRunning(s) = LatestRunning(t) /\ (Cached(s) <=> Cached(t))
  BY <1>1, <1>2, SameStatus
<1>4. LatestRunning(s) # 0 => LatestRunning(s) \in DOMAIN s
  BY <1>1, LatestIsThere
<1> QED BY <1>2, <1>3, <1>4 DEF s, t

\* A time that was early enough still is.
LEMMA DueLater ==
  ASSUME IInv, IInv', SameTimes, SameStatuses, NEW t \in Nat, NEW u \in Nat, u <= t, DueBy(t)
  PROVE  \A w \in Waits : ~Cached(attempts'[w]) /\ LatestRunning(attempts'[w]) # 0
                          => u <= attempts'[w][LatestRunning(attempts'[w])].until
<1> SUFFICES ASSUME NEW w \in Waits, ~Cached(attempts'[w]), LatestRunning(attempts'[w]) # 0
             PROVE  u <= attempts'[w][LatestRunning(attempts'[w])].until
  OBVIOUS
<1> DEFINE l == LatestRunning(attempts[w])
<1>1. /\ LatestRunning(attempts'[w]) = l /\ ~Cached(attempts[w]) /\ l # 0
      /\ attempts'[w][l].until = attempts[w][l].until
  BY HistoryStays
<1>2. attempts[w] \in Seq(Attempt)
  BY DEF IInv, Types
<1>3. l \in DOMAIN attempts[w]
  BY <1>1, <1>2, LatestIsThere
<1>4. attempts[w][l] \in Attempt /\ t <= attempts[w][l].until
  BY <1>1, <1>2, <1>3 DEF DueBy
<1> HIDE DEF l
<1>5. attempts[w][l].until \in Nat
  BY <1>4 DEF Attempt
<1> QED BY <1>1, <1>4, <1>5

\* Children and signals come and go, and the row at most becomes due earlier.
LEMMA QuietStep ==
  ASSUME IInv, IInv', SqliteInv, SameTimes, SameStatuses,
         now' = now \/ now' = now + 1, UNCHANGED <<pass, late>>,
         \A w \in Waits : branch'[w] \in {"inserting", "creating"} => branch'[w] = branch[w],
         \A x \in Waits : \A i \in DOMAIN attempts[x] :
           attempts'[x][i].child # "absent" => Kind[x] = "workflow",
         Parked' => Parked /\ run'.available <= run.available
  PROVE  SqliteInv'
<1>1. NobodyLate'
  BY DEF SqliteInv, NobodyLate
<1>2. Steps'
  <2>1. \A w \in Waits : branch'[w] = "inserting" => Excused(w)
    BY DEF SqliteInv, Steps, InsertionsExcused
  <2> QED BY <2>1, StepsStay DEF SqliteInv
<1>3. ChildrenOfWorkflows'
  BY DEF SqliteInv, ChildrenOfWorkflows, SameTimes
<1>4. KnownIsLatest'
  BY HistoryStays DEF SqliteInv, KnownIsLatest
<1>5. DueInTime'
  <2>1. run.available \in Nat /\ run'.available \in Nat /\ pass.resumeAt \in Nat
    BY DEF IInv, Types, RunRecord, PassRecord
  <2>2. pass'.pc = "parking" => DueBy(pass.resumeAt)'
    <3>1. pass.resumeAt <= pass.resumeAt /\ pass'.resumeAt = pass.resumeAt
      BY <2>1
    <3> QED BY <2>1, <3>1, DueLater DEF SqliteInv, DueInTime, DueBy
  <2>3. Parked' => DueBy(run.available)'
    BY <2>1, DueLater DEF SqliteInv, DueInTime, DueBy
  <2> QED BY <2>2, <2>3 DEF DueInTime
<1> QED BY <1>1, <1>2, <1>3, <1>4, <1>5 DEF SqliteInv

\* Nothing of a pass is left when it ends.
LEMMA PassEnds ==
  ASSUME IInv, IInv', SqliteInv, SameTimes, EndPass, late' = {}, now' = now,
         \A x \in Waits : \A i \in DOMAIN attempts[x] :
           attempts'[x][i].child # "absent" => Kind[x] = "workflow",
         Parked' => DueBy(run.available)'
  PROVE  SqliteInv'
<1>1. pass'.pc = "none" /\ \A w \in Waits : branch'[w] = "idle"
  BY DEF EndPass, NoPass, Idle
<1>2. NobodyLate' /\ KnownIsLatest' /\ DueInTime'
  BY <1>1 DEF NobodyLate, KnownIsLatest, DueInTime
<1>3. Steps'
  BY <1>1, StepsStay DEF SqliteInv
<1>4. ChildrenOfWorkflows'
  BY <1>1 DEF SqliteInv, ChildrenOfWorkflows, SameTimes
<1> QED BY <1>2, <1>3, <1>4 DEF SqliteInv

LEMMA InitSqlite == Init => SqliteInv
<1> SUFFICES ASSUME Init PROVE SqliteInv
  OBVIOUS
<1>1. \A w \in Waits : attempts[w] = <<>> /\ branch[w] = "idle"
  BY DEF Init, Idle
<1>2. <<>> \in Seq(Attempt) /\ Len(<<>>) = 0 /\ DOMAIN <<>> = {}
  OBVIOUS
<1>3. LatestRunning(<<>>) = 0
  BY <1>2, LatestFacts
<1>4. pass.pc = "none" /\ late = {}
  BY DEF Init, NoPass
<1>5. NobodyLate /\ KnownIsLatest
  BY <1>4 DEF NobodyLate, KnownIsLatest
<1>6. Steps
  BY <1>1, <1>2 DEF Steps, OnceUnlessSleep, SleepsSurviveWakeUps, InsertionsExcused
<1>7. ChildrenOfWorkflows
  BY <1>1, <1>2 DEF ChildrenOfWorkflows
<1>8. DueInTime
  BY <1>1, <1>3, <1>4 DEF DueInTime, DueBy
<1> QED BY <1>5, <1>6, <1>7, <1>8 DEF SqliteInv

-----------------------------------------------------------------------------
(* The steps of a pass on SQLite *)

\* Loading a history completes a sleep, and leaves alone what is not over.
LEMMA LoadedHistory ==
  ASSUME IInv, NEW w \in Waits
  PROVE  /\ DOMAIN LoadedAttempts[w] = DOMAIN attempts[w]
         /\ Len(LoadedAttempts[w]) = Len(attempts[w])
         /\ \A i \in DOMAIN attempts[w] :
              /\ LoadedAttempts[w][i].until = attempts[w][i].until
              /\ LoadedAttempts[w][i].child = attempts[w][i].child
         /\ ~Cached(LoadedAttempts[w]) =>
              /\ ~SleepElapsed(w) /\ LoadedAttempts[w] = attempts[w]
              /\ LoadedKnown[w] = LatestRunning(attempts[w])
<1> DEFINE s == attempts[w]
           l == LatestRunning(s)
<1>1. s \in Seq(Attempt) /\ \A i \in DOMAIN s : s[i] \in Attempt
  BY DEF IInv, Types
<1>2. CASE SleepElapsed(w)
  <2>1. LoadedAttempts[w] = [s EXCEPT ![l] = [s[l] EXCEPT !.status = "completed"]]
    BY <1>2 DEF LoadedAttempts
  <2>2. l # 0
    BY <1>2 DEF SleepElapsed
  <2> HIDE DEF s, l
  <2>3. l \in DOMAIN s
    BY <1>1, <2>2, LatestIsThere DEF l
  <2>4. /\ DOMAIN LoadedAttempts[w] = DOMAIN s /\ Len(LoadedAttempts[w]) = Len(s)
        /\ \A i \in DOMAIN s : /\ LoadedAttempts[w][i].until = s[i].until
                              /\ LoadedAttempts[w][i].child = s[i].child
        /\ LoadedAttempts[w][l].status = "completed"
    BY <1>1, <2>1, <2>3 DEF Attempt
  <2>5. Cached(LoadedAttempts[w])
    BY <2>3, <2>4 DEF Cached
  <2> QED BY <2>4, <2>5 DEF s
<1>3. CASE ~SleepElapsed(w)
  BY <1>3 DEF LoadedAttempts, LoadedKnown
<1> QED BY <1>2, <1>3

LEMMA LoadedTimes ==
  ASSUME IInv, SqliteInv, attempts' = LoadedAttempts
  PROVE  /\ SameTimes
         /\ \A x \in Waits : \A i \in DOMAIN attempts[x] :
              attempts'[x][i].child # "absent" => Kind[x] = "workflow"
BY LoadedHistory DEF SameTimes, SqliteInv, ChildrenOfWorkflows

\* A history without a completed attempt has a running one, if any.
LEMMA NotCached ==
  ASSUME NEW s \in Seq(Attempt), ~Cached(s), Len(s) # 0
  PROVE  LatestRunning(s) # 0 /\ LatestRunning(s) \in DOMAIN s
<1>1. 1 \in DOMAIN s /\ s[1] \in Attempt
  OBVIOUS
<1>2. s[1].status = "running"
  BY <1>1 DEF Cached, Attempt
<1> QED BY <1>1, <1>2, LatestFacts

\* The function inserts a second attempt only of a sleep, and then it was
\* called because the time of another wait has run out.
LEMMA InsertsExcused ==
  ASSUME IInv, NEW w \in Waits, ~StillAsleep, FirstAwait(w) = "inserting"
  PROVE  Excused(w)
<1> SUFFICES ASSUME Len(attempts[w]) # 0 PROVE Kind[w] = "sleep" /\ RunOut(w, now)
  BY DEF Excused
<1> DEFINE l == LatestRunning(attempts[w])
<1>1. ~Cached(LoadedAttempts[w])
  BY DEF FirstAwait
<1>2. ~SleepElapsed(w) /\ LoadedAttempts[w] = attempts[w] /\ LoadedKnown[w] = l
  BY <1>1, LoadedHistory
<1>3. attempts[w] \in Seq(Attempt)
  BY DEF IInv, Types
<1>4. l # 0 /\ l \in DOMAIN attempts[w]
  BY <1>1, <1>2, <1>3, NotCached
<1>5. Kind[w] = "sleep"
  <2>1. AwaitSignal(w) # "inserting"
    BY <1>2, <1>4 DEF AwaitSignal
  <2>2. AwaitChild(w) # "inserting"
    <3> HIDE DEF l
    <3>1. CASE LoadedAttempts[w][l].linked
      BY <1>2, <1>4, <3>1 DEF AwaitChild
    <3>2. CASE ~LoadedAttempts[w][l].linked
      BY <1>2, <1>4, <3>2 DEF AwaitChild
    <3> QED BY <3>1, <3>2
  <2>3. Kind[w] \in {"sleep", "signal", "workflow"}
    BY WaitsAssumption
  <2>4. CASE Kind[w] = "signal"
    BY <1>1, <2>1, <2>4 DEF FirstAwait
  <2>5. CASE Kind[w] = "workflow"
    BY <1>1, <2>2, <2>5 DEF FirstAwait
  <2> QED BY <2>3, <2>4, <2>5
<1>6. ~(now < Earliest(LoadedAttempts, LoadedKnown))
  BY <1>2, <1>4, <1>5 DEF StillAsleep
<1>7. /\ LoadedAttempts \in [Waits -> Seq(Attempt)] /\ LoadedKnown \in [Waits -> Nat]
      /\ \A x \in Waits : LoadedKnown[x] \in 0 .. Len(LoadedAttempts[x])
  BY LoadedTypes DEF IInv
<1>8. \E x \in Waits : LoadedKnown[x] # 0
  BY <1>2, <1>4
<1> HIDE DEF l
<1>9. PICK x \in Waits :
        /\ LoadedKnown[x] # 0
        /\ LoadedAttempts[x][LoadedKnown[x]].until = Earliest(LoadedAttempts, LoadedKnown)
  BY <1>7, <1>8, EarliestType
<1>10. Earliest(LoadedAttempts, LoadedKnown) \in Nat
  BY <1>7, <1>8, EarliestType
<1>11. LoadedKnown[x] \in DOMAIN attempts[x]
  <2>1. LoadedKnown[x] \in DOMAIN LoadedAttempts[x]
    BY <1>7, <1>9
  <2> QED BY <2>1, LoadedHistory
<1>12. attempts[x][LoadedKnown[x]].until <= now
  <2>1. attempts[x][LoadedKnown[x]].until = Earliest(LoadedAttempts, LoadedKnown)
    BY <1>9, <1>11, LoadedHistory
  <2> QED BY <1>6, <1>10, <2>1 DEF IInv, Types
<1>13. x # w
  BY <1>2, <1>4, <1>5, <1>12 DEF SleepElapsed, l
<1> QED BY <1>5, <1>11, <1>12, <1>13 DEF RunOut

\* A pass begins with the history as it loaded it.
LEMMA PassBegins ==
  ASSUME IInv, IInv', SqliteInv, attempts' = LoadedAttempts, pass'.known = LoadedKnown,
         UNCHANGED <<late, now>>, run'.owned,
         \A w \in Waits : branch'[w] = "inserting" => Excused(w) /\ pass'.pc # "parking",
         \A w \in Waits : branch'[w] = "creating" => Kind[w] = "workflow",
         pass'.pc = "parking" =>
           /\ pass'.resumeAt = Earliest(LoadedAttempts, LoadedKnown)
           /\ \E w \in Waits : LoadedKnown[w] # 0
  PROVE  SqliteInv'
<1>1. /\ SameTimes
      /\ \A x \in Waits : \A i \in DOMAIN attempts[x] :
           attempts'[x][i].child # "absent" => Kind[x] = "workflow"
  BY LoadedTimes
<1>2. NobodyLate'
  BY DEF SqliteInv, NobodyLate
<1>3. Steps'
  BY <1>1, StepsStay DEF SqliteInv
<1>4. ChildrenOfWorkflows'
  BY <1>1 DEF ChildrenOfWorkflows, SameTimes
<1>5. \A w \in Waits : ~Cached(attempts'[w]) => pass'.known[w] = LatestRunning(attempts'[w])
  BY LoadedHistory
<1>6. KnownIsLatest'
  BY <1>5 DEF KnownIsLatest
<1>7. DueInTime'
  <2>1. ~Parked'
    BY DEF Parked
  <2>2. ASSUME pass'.pc = "parking" PROVE DueBy(pass.resumeAt)'
    <3>1. \A w \in Waits : LoadedKnown[w] # 0 =>
            pass'.resumeAt <= LoadedAttempts[w][LoadedKnown[w]].until
      BY <2>2, LoadedTypes, EarliestType DEF IInv
    <3> QED BY <1>5, <3>1 DEF DueBy
  <2> QED BY <2>1, <2>2 DEF DueInTime
<1> QED BY <1>2, <1>3, <1>4, <1>6, <1>7 DEF SqliteInv

LEMMA FailedRunEnds ==
  ASSUME IInv, IInv', SqliteInv, FailRun, late' = late, now' = now, SameTimes,
         \A x \in Waits : \A i \in DOMAIN attempts[x] :
           attempts'[x][i].child # "absent" => Kind[x] = "workflow"
  PROVE  SqliteInv'
<1>1. ~Parked'
  <2>1. run' = [run EXCEPT !.status = "failed", !.owned = FALSE]
    BY DEF FailRun
  <2> QED BY <2>1, FailedRow DEF Parked, IInv
<1> QED BY <1>1, PassEnds DEF FailRun, SqliteInv, NobodyLate

LEMMA SqliteClaim ==
  ASSUME IInv, IInv', SqliteInv, Claim
  PROVE  SqliteInv'
<1>1. run.status = "running" /\ pass.pc = "none" /\ UNCHANGED <<late, reconciling, now, crashes>>
  BY DEF Claim
<1>2. \A w \in Waits : branch[w] = "idle"
  BY <1>1 DEF IInv, Owning
<1>3. CASE FailOverlong
  BY <1>1, <1>3, FailedRunEnds DEF FailOverlong, SameTimes, SqliteInv, ChildrenOfWorkflows
<1>4. CASE FailAtLimit
  BY <1>1, <1>4, LoadedTimes, FailedRunEnds DEF FailAtLimit
<1>5. CASE ParkAgain
  <2>1. /\ pass' = [pc |-> "parking", known |-> LoadedKnown,
                    resumeAt |-> Earliest(LoadedAttempts, LoadedKnown)]
        /\ attempts' = LoadedAttempts /\ run' = Claimed /\ branch' = branch
        /\ \E w \in Waits : LoadedKnown[w] # 0
    BY <1>5 DEF ParkAgain, StillAsleep
  <2>2. pass'.known = LoadedKnown /\ run'.owned
        /\ pass'.resumeAt = Earliest(LoadedAttempts, LoadedKnown)
    BY <2>1, ClaimedRow DEF IInv
  <2> QED BY <1>1, <1>2, <2>1, <2>2, PassBegins
<1>6. CASE CallFunction
  <2>1. /\ pass' = [pc |-> "running", known |-> LoadedKnown, resumeAt |-> 0]
        /\ attempts' = LoadedAttempts /\ run' = Claimed
        /\ branch' = [w \in Waits |-> FirstAwait(w)] /\ ~StillAsleep
    BY <1>6 DEF CallFunction
  <2>2. pass'.known = LoadedKnown /\ run'.owned /\ pass'.pc = "running"
    BY <2>1, ClaimedRow DEF IInv
  <2>3. \A w \in Waits : branch'[w] = "inserting" => Excused(w)
    BY <2>1, InsertsExcused
  <2>4. ASSUME NEW w \in Waits, FirstAwait(w) = "creating"
        PROVE  Kind[w] = "workflow"
    <3>1. Kind[w] \in {"sleep", "signal", "workflow"}
      BY WaitsAssumption
    <3>2. CASE Kind[w] = "sleep"
      BY <2>4, <3>2 DEF FirstAwait
    <3>3. CASE Kind[w] = "signal"
      BY <2>4, <3>3 DEF FirstAwait, AwaitSignal
    <3> QED BY <3>1, <3>2, <3>3
  <2>5. \A w \in Waits : branch'[w] = "creating" => Kind[w] = "workflow"
    BY <2>1, <2>4
  <2> QED BY <1>1, <2>1, <2>2, <2>3, <2>5, PassBegins
<1> QED BY <1>3, <1>4, <1>5, <1>6 DEF Claim

LEMMA SqliteThrow ==
  ASSUME ~Postgres, IInv, IInv', SqliteInv, NEW w \in Waits,
         branch[w] \in {"sleeping", "resolving"}, ThrowSleepSignal(w)
  PROVE  SqliteInv'
<1>1. /\ pass' = [pass EXCEPT !.pc = "parking", !.resumeAt = Earliest(attempts, pass.known)]
      /\ branch' = [branch EXCEPT ![w] = "idle"]
      /\ pass.pc = "running" /\ \A x \in Waits : branch[x] # "inserting"
      /\ UNCHANGED <<run, attempts, late, reconciling, now, crashes>>
  BY DEF ThrowSleepSignal
<1>2. /\ pass'.pc = "parking" /\ pass'.known = pass.known
      /\ pass'.resumeAt = Earliest(attempts, pass.known)
  BY <1>1 DEF IInv, Types, PassRecord
<1>3. branch'[w] = "idle" /\ \A x \in Waits : x # w => branch'[x] = branch[x]
  BY <1>1 DEF IInv, Types
<1>4. NobodyLate'
  BY <1>1, <1>3 DEF SqliteInv, NobodyLate
<1>5. Steps'
  <2>1. SameTimes /\ \A x \in Waits : branch'[x] # "inserting"
    BY <1>1, <1>3 DEF SameTimes
  <2> QED BY <1>1, <2>1, StepsStay DEF SqliteInv
<1>6. ChildrenOfWorkflows'
  BY <1>1, <1>3 DEF SqliteInv, ChildrenOfWorkflows
<1>7. \A x \in Waits : ~Cached(attempts[x]) => pass.known[x] = LatestRunning(attempts[x])
  BY <1>1 DEF SqliteInv, KnownIsLatest
<1>8. KnownIsLatest'
  BY <1>1, <1>2, <1>7 DEF KnownIsLatest
<1>9. DueInTime'
  <2>1. ~Parked'
    BY <1>1 DEF Parked, IInv, Owning
  <2>2. \A x \in Waits : pass.known[x] # 0 =>
          Earliest(attempts, pass.known) <= attempts[x][pass.known[x]].until
    BY EarliestType DEF IInv, Types, PassRecord, Known
  <2>3. DueBy(pass.resumeAt)'
    BY <1>1, <1>2, <1>7, <2>2 DEF DueBy
  <2> QED BY <2>1, <2>3 DEF DueInTime
<1> QED BY <1>4, <1>5, <1>6, <1>8, <1>9 DEF SqliteInv

\* An attempt that has just been appended is the latest.
LEMMA LatestOfAppended ==
  ASSUME NEW s \in Seq(Attempt), NEW a \in Attempt, a.status = "running"
  PROVE  LatestRunning(Append(s, a)) = Len(s) + 1
<1> DEFINE t == Append(s, a)
           n == Len(s) + 1
<1>1. t \in Seq(Attempt) /\ DOMAIN t = 1 .. n /\ t[n] = a /\ n \in DOMAIN t /\ n \in Nat
  OBVIOUS
<1> HIDE DEF t, n
<1>2. LatestRunning(t) \in DOMAIN t /\ n <= LatestRunning(t)
  BY <1>1, LatestFacts
<1>3. LatestRunning(t) = n
  BY <1>1, <1>2
<1> QED BY <1>3 DEF t, n

LEMMA SqliteInsert ==
  ASSUME ~Postgres, IInv, IInv', SqliteInv, NEW w \in Waits, Insert(w)
  PROVE  SqliteInv'
<1> DEFINE n == Len(attempts[w]) + 1
           next == IF Kind[w] = "signal" THEN "resolving"
                   ELSE IF pass.pc # "running" THEN "idle"
                   ELSE IF Kind[w] = "sleep" THEN "sleeping" ELSE "creating"
<1>1. /\ attempts' = [attempts EXCEPT ![w] = Append(attempts[w], NewAttempt(w))]
      /\ pass' = [pass EXCEPT !.known = [pass.known EXCEPT ![w] = n]]
      /\ branch' = [branch EXCEPT ![w] = next] /\ branch[w] = "inserting"
      /\ UNCHANGED <<run, late, reconciling, now, crashes>>
  BY DEF Insert
<1>2. next # "inserting" /\ (next = "creating" => Kind[w] = "workflow")
  BY WaitsAssumption
<1> HIDE DEF next
<1>3. pass.pc = "running"
  BY <1>1 DEF IInv, Types, PassRecord, Owning, SqliteInv, NobodyLate
<1>4. NewAttempt(w) \in Attempt /\ NewAttempt(w).child = "absent"
      /\ NewAttempt(w).status = "running" /\ NewAttempt(w).until = now + Duration[w]
  BY NewAttemptType DEF IInv, NewAttempt, TimeoutAt
<1>5. /\ attempts[w] \in Seq(Attempt) /\ attempts'[w] = Append(attempts[w], NewAttempt(w))
      /\ \A x \in Waits : x # w => attempts'[x] = attempts[x]
  BY <1>1 DEF IInv, Types
<1>6. /\ Len(attempts'[w]) = n /\ attempts'[w][n] = NewAttempt(w) /\ n \in Nat
      /\ DOMAIN attempts[w] = 1 .. (n - 1) /\ DOMAIN attempts'[w] = 1 .. n
      /\ \A i \in DOMAIN attempts[w] : attempts'[w][i] = attempts[w][i]
  BY <1>4, <1>5
<1>7. Excused(w)
  BY <1>1 DEF SqliteInv, Steps, InsertionsExcused
<1>8. LatestRunning(attempts'[w]) = n
  BY <1>4, <1>5, LatestOfAppended
<1>9. pass'.pc = "running" /\ pass'.known[w] = n
      /\ \A x \in Waits : x # w => pass'.known[x] = pass.known[x]
  <2> HIDE DEF n
  <2> QED BY <1>1, <1>3 DEF IInv, Types, PassRecord
<1>10. \A x \in Waits : branch'[x] \in {"inserting", "creating"} =>
         (x # w /\ branch'[x] = branch[x]) \/ (x = w /\ branch'[x] = "creating" /\ Kind[w] = "workflow")
  BY <1>1, <1>2 DEF IInv, Types
<1>11. Len(attempts[w]) = n - 1 /\ n # 0
  BY <1>5
<1> HIDE DEF n
<1>12. \A x \in Waits : \A i \in DOMAIN attempts[x] :
         i \in DOMAIN attempts'[x] /\ attempts'[x][i] = attempts[x][i]
  BY <1>5, <1>6
<1>13. ASSUME NEW x \in Waits, NEW t, RunOut(x, t)
       PROVE  \E y \in Waits \ {x} : \E i \in DOMAIN attempts'[y] : attempts'[y][i].until <= t
  BY <1>12, <1>13 DEF RunOut
<1>14. NobodyLate'
  BY <1>1, <1>9 DEF SqliteInv, NobodyLate
<1>15. OnceUnlessSleep'
  <2>1. Kind[w] # "sleep" => n = 1
    BY <1>6, <1>7, <1>11 DEF Excused
  <2> QED BY <1>5, <1>6, <2>1 DEF SqliteInv, Steps, OnceUnlessSleep
<1>16. SleepsSurviveWakeUps'
  <2> SUFFICES ASSUME NEW x \in Waits, Kind[x] = "sleep", NEW j \in 2 .. Len(attempts'[x])
               PROVE  \E y \in Waits \ {x} : \E i \in DOMAIN attempts'[y] :
                        attempts'[y][i].until <= attempts'[x][j].until - Duration[x]
    BY DEF SleepsSurviveWakeUps
  <2>1. CASE x = w /\ j = n
    <3>1. RunOut(w, now)
      BY <1>7, <1>11, <2>1 DEF Excused
    <3>2. attempts'[w][n].until - Duration[w] = now
      BY <1>4, <1>6, WaitsAssumption DEF IInv, Types
    <3> QED BY <1>13, <2>1, <3>1, <3>2
  <2>2. CASE x # w \/ j # n
    <3>1. j \in 2 .. Len(attempts[x]) /\ attempts'[x][j] = attempts[x][j]
      BY <1>5, <1>6, <1>11, <2>2
    <3>2. RunOut(x, attempts[x][j].until - Duration[x])
      BY <3>1 DEF SqliteInv, Steps, SleepsSurviveWakeUps, RunOut
    <3> QED BY <1>13, <3>1, <3>2
  <2> QED BY <2>1, <2>2
<1>17. InsertionsExcused'
  <2> SUFFICES ASSUME NEW x \in Waits, branch'[x] = "inserting" PROVE Excused(x)'
    BY DEF InsertionsExcused
  <2>1. x # w /\ branch[x] = "inserting"
    BY <1>10
  <2>2. Excused(x)
    BY <2>1 DEF SqliteInv, Steps, InsertionsExcused
  <2>3. CASE Len(attempts[x]) = 0
    BY <1>5, <2>1, <2>3 DEF Excused
  <2>4. CASE Kind[x] = "sleep" /\ RunOut(x, now)
    BY <1>1, <1>13, <2>4 DEF Excused, RunOut
  <2> QED BY <2>2, <2>3, <2>4 DEF Excused
<1>18. ChildrenOfWorkflows'
  <2>1. \A x \in Waits : branch'[x] = "creating" => Kind[x] = "workflow"
    BY <1>10 DEF SqliteInv, ChildrenOfWorkflows
  <2>2. ASSUME NEW x \in Waits, NEW i \in DOMAIN attempts'[x],
               attempts'[x][i].child # "absent"
        PROVE  Kind[x] = "workflow"
    <3>1. ~(x = w /\ i = n)
      BY <1>4, <1>6, <2>2
    <3>2. i \in DOMAIN attempts[x] /\ attempts'[x][i] = attempts[x][i]
      BY <1>5, <1>6, <3>1
    <3> QED BY <2>2, <3>2 DEF SqliteInv, ChildrenOfWorkflows
  <2> QED BY <2>1, <2>2 DEF ChildrenOfWorkflows
<1>19. KnownIsLatest'
  BY <1>3, <1>5, <1>8, <1>9 DEF SqliteInv, KnownIsLatest
<1>20. DueInTime'
  BY <1>1, <1>3, <1>9 DEF DueInTime, Parked, IInv, Owning
<1> QED BY <1>14, <1>15, <1>16, <1>17, <1>18, <1>19, <1>20 DEF SqliteInv, Steps

\* One attempt changes, but not its time.
LEMMA ReplacedTimes ==
  ASSUME IInv, NEW w \in Waits, NEW i \in DOMAIN attempts[w], NEW a \in Attempt,
         attempts' = [attempts EXCEPT ![w] = [attempts[w] EXCEPT ![i] = a]],
         a.until = attempts[w][i].until
  PROVE  SameTimes /\ (a.status = attempts[w][i].status => SameStatuses)
<1>1. /\ \A x \in Waits : Len(attempts'[x]) = Len(attempts[x])
      /\ \A x \in Waits : DOMAIN attempts'[x] = DOMAIN attempts[x]
      /\ attempts'[w][i] = a
      /\ \A x \in Waits : \A j \in DOMAIN attempts[x] :
           x # w \/ j # i => attempts'[x][j] = attempts[x][j]
  BY Replaced DEF IInv, Types
<1> QED BY <1>1 DEF SameTimes, SameStatuses

LEMMA SqliteCompleteStep ==
  ASSUME IInv, IInv', SqliteInv, NEW w \in Waits, NEW timedOut \in BOOLEAN,
         branch[w] \in {"resolving", "timing out"}, CompleteStep(w, timedOut)
  PROVE  SqliteInv'
<1> DEFINE i == pass.known[w]
           o == attempts[w][i]
           a == [o EXCEPT !.status = "completed", !.timedOut = timedOut]
<1>1. /\ i # 0 /\ i \in DOMAIN attempts[w] /\ o \in Attempt /\ attempts[w] \in Seq(Attempt)
  BY KnownAttempt
<1>2. a \in Attempt /\ a.until = o.until /\ a.child = o.child /\ a.status = "completed"
  <2> HIDE DEF o
  <2> QED BY <1>1 DEF Attempt
<1>3. attempts' = [attempts EXCEPT ![w] = [attempts[w] EXCEPT ![i] = a]]
  BY <1>1 DEF CompleteStep, IInv, Types
<1>4. /\ branch' = [branch EXCEPT ![w] = "done"]
      /\ pass' = [pass EXCEPT !.known = [pass.known EXCEPT ![w] = 0]]
      /\ UNCHANGED <<run, late, reconciling, now, crashes>>
  BY DEF CompleteStep
<1> HIDE DEF a
<1>5. /\ SameTimes
      /\ attempts'[w][i] = a
      /\ \A x \in Waits : \A j \in DOMAIN attempts[x] :
           x # w \/ j # i => attempts'[x][j] = attempts[x][j]
      /\ \A x \in Waits : x # w => attempts'[x] = attempts[x]
      /\ DOMAIN attempts'[w] = DOMAIN attempts[w]
  <2>1. a.until = attempts[w][i].until /\ i \in DOMAIN attempts[w] /\ a \in Attempt
    BY <1>1, <1>2
  <2> HIDE DEF i
  <2>2. SameTimes
    BY <1>3, <2>1, ReplacedTimes
  <2>3. /\ attempts'[w][i] = a
        /\ \A x \in Waits : \A j \in DOMAIN attempts[x] :
             x # w \/ j # i => attempts'[x][j] = attempts[x][j]
    BY <1>3, <2>1, Replaced DEF IInv, Types
  <2>4. \A x \in Waits : x # w => attempts'[x] = attempts[x]
    BY <1>3 DEF IInv, Types
  <2> QED BY <2>2, <2>3, <2>4 DEF SameTimes
<1>6. Cached(attempts'[w])
  BY <1>1, <1>2, <1>5 DEF Cached
<1>7. pass'.pc = pass.pc /\ pass'.resumeAt = pass.resumeAt
      /\ \A x \in Waits : x # w => pass'.known[x] = pass.known[x]
  BY <1>4 DEF IInv, Types, PassRecord
<1>8. branch'[w] = "done" /\ \A x \in Waits : x # w => branch'[x] = branch[x]
  BY <1>4 DEF IInv, Types
<1>9. NobodyLate'
  BY <1>4, <1>7, <1>8 DEF SqliteInv, NobodyLate
<1>10. Steps'
  <2>1. \A x \in Waits : branch'[x] = "inserting" => Excused(x)
    BY <1>8 DEF SqliteInv, Steps, InsertionsExcused
  <2> QED BY <1>4, <1>5, <2>1, StepsStay DEF SqliteInv
<1>11. ChildrenOfWorkflows'
  <2>1. \A x \in Waits : \A j \in DOMAIN attempts[x] :
          attempts'[x][j].child = attempts[x][j].child
    BY <1>2, <1>5
  <2>2. \A x \in Waits : DOMAIN attempts'[x] = DOMAIN attempts[x]
    BY <1>5 DEF SameTimes
  <2>3. \A x \in Waits : branch'[x] = "creating" => branch[x] = "creating"
    BY <1>8
  <2> QED BY <2>1, <2>2, <2>3 DEF SqliteInv, ChildrenOfWorkflows
<1>12. KnownIsLatest'
  BY <1>5, <1>6, <1>7 DEF SqliteInv, KnownIsLatest
<1>13. DueInTime'
  <2>1. ~Parked'
    BY <1>4 DEF Parked, IInv, Owning
  <2>2. pass'.pc = "parking" => DueBy(pass.resumeAt)'
    BY <1>5, <1>6, <1>7 DEF SqliteInv, DueInTime, DueBy
  <2> QED BY <2>1, <2>2 DEF DueInTime
<1> QED BY <1>9, <1>10, <1>11, <1>12, <1>13 DEF SqliteInv

\* Creating a child and linking it leave the history as it is.
LEMMA SqliteChildBegins ==
  ASSUME IInv, IInv', SqliteInv, NEW w \in Waits, CreateChild(w) \/ LinkChild(w)
  PROVE  SqliteInv'
<1> DEFINE i == pass.known[w]
           o == attempts[w][i]
<1>1. branch[w] \in {"creating", "linking"}
  BY DEF CreateChild, LinkChild
<1>2. i \in DOMAIN attempts[w] /\ o \in Attempt
  BY <1>1, KnownAttempt
<1>3. PICK a \in Attempt :
        /\ attempts' = [attempts EXCEPT ![w] = [attempts[w] EXCEPT ![i] = a]]
        /\ a.until = o.until /\ a.status = o.status
        /\ branch[w] = "creating" \/ a.child = o.child
  <2>1. CASE CreateChild(w)
    <3> DEFINE a == [o EXCEPT !.child = IF o.child = "absent" THEN "active" ELSE o.child]
    <3>1. a \in Attempt /\ a.until = o.until /\ a.status = o.status
      <4> HIDE DEF o
      <4> QED BY <1>2 DEF Attempt
    <3>2. attempts' = [attempts EXCEPT ![w] = [attempts[w] EXCEPT ![i] = a]]
      BY <2>1 DEF CreateChild
    <3>3. branch[w] = "creating"
      BY <2>1 DEF CreateChild
    <3> HIDE DEF a
    <3> QED BY <3>1, <3>2, <3>3
  <2>2. CASE LinkChild(w)
    <3> DEFINE a == [o EXCEPT !.linked = TRUE]
    <3>1. a \in Attempt /\ a.until = o.until /\ a.status = o.status /\ a.child = o.child
      <4> HIDE DEF o
      <4> QED BY <1>2 DEF Attempt
    <3>2. attempts' = [attempts EXCEPT ![w] = [attempts[w] EXCEPT ![i] = a]]
      BY <2>2 DEF LinkChild
    <3> HIDE DEF a
    <3> QED BY <3>1, <3>2
  <2> QED BY <2>1, <2>2
<1>4. PICK stage \in {"linking", "resolving"} : branch' = [branch EXCEPT ![w] = stage]
  BY DEF CreateChild, LinkChild
<1>5. UNCHANGED <<run, pass, late, reconciling, now, crashes>>
  BY DEF CreateChild, LinkChild
<1>6. /\ SameTimes /\ SameStatuses
      /\ attempts'[w][i] = a
      /\ \A x \in Waits : \A j \in DOMAIN attempts[x] :
           x # w \/ j # i => attempts'[x][j] = attempts[x][j]
  <2>1. attempts' = [attempts EXCEPT ![w] = [attempts[w] EXCEPT ![i] = a]]
        /\ a.until = attempts[w][i].until /\ a.status = attempts[w][i].status
    BY <1>3
  <2>2. i \in DOMAIN attempts[w]
    BY <1>2
  <2> HIDE DEF i
  <2>3. SameTimes
    BY <2>1, <2>2, ReplacedTimes
  <2>4. SameStatuses
    BY <2>1, <2>2, ReplacedTimes
  <2>5. /\ attempts'[w][i] = a
        /\ \A x \in Waits : \A j \in DOMAIN attempts[x] :
             x # w \/ j # i => attempts'[x][j] = attempts[x][j]
    BY <2>1, <2>2, Replaced DEF IInv, Types
  <2> QED BY <2>3, <2>4, <2>5
<1>7. \A x \in Waits : branch'[x] \in {"inserting", "creating"} => branch'[x] = branch[x]
  BY <1>4 DEF IInv, Types
<1>8. ASSUME NEW x \in Waits, NEW j \in DOMAIN attempts[x], attempts'[x][j].child # "absent"
      PROVE  Kind[x] = "workflow"
  <2>1. CASE x = w /\ j = i
    <3>1. branch[w] = "creating" \/ attempts[w][i].child # "absent"
      BY <1>2, <1>3, <1>6, <1>8, <2>1
    <3> QED BY <1>2, <2>1, <3>1 DEF SqliteInv, ChildrenOfWorkflows
  <2>2. CASE ~(x = w /\ j = i)
    BY <1>6, <1>8, <2>2 DEF SqliteInv, ChildrenOfWorkflows
  <2> QED BY <2>1, <2>2
<1>9. Parked' => Parked /\ run'.available <= run.available
  BY <1>5 DEF Parked, IInv, Types, RunRecord
<1> QED BY <1>5, <1>6, <1>7, <1>8, <1>9, QuietStep

LEMMA SqliteBranch ==
  ASSUME ~Postgres, IInv, IInv', SqliteInv, NEW w \in Waits, Branch(w)
  PROVE  SqliteInv'
<1>1. CASE Insert(w)
  BY <1>1, SqliteInsert
<1>2. CASE Sleep(w)
  BY <1>2, SqliteThrow DEF Sleep
<1>3. CASE CreateChild(w) \/ LinkChild(w)
  BY <1>3, SqliteChildBegins
<1>4. CASE TimeOut(w)
  BY <1>4, SqliteCompleteStep DEF TimeOut
<1>5. CASE ResolveChild(w)
  <2>1. branch[w] = "resolving"
    BY <1>5 DEF ResolveChild
  <2>2. CASE FailRun /\ UNCHANGED <<attempts, late, reconciling, now, crashes>>
    BY <2>2, FailedRunEnds DEF SameTimes, SqliteInv, ChildrenOfWorkflows
  <2>3. CASE CompleteStep(w, FALSE)
    BY <2>1, <2>3, SqliteCompleteStep
  <2>4. CASE ThrowSleepSignal(w)
    BY <2>1, <2>4, SqliteThrow
  <2> QED BY <1>5, <2>2, <2>3, <2>4 DEF ResolveChild
<1>6. CASE ResolveSignal(w)
  <2>1. branch[w] = "resolving"
    BY <1>6 DEF ResolveSignal
  <2>2. CASE CompleteStep(w, FALSE)
    BY <2>1, <2>2, SqliteCompleteStep
  <2>3. CASE ThrowSleepSignal(w)
    BY <2>1, <2>3, SqliteThrow
  <2>4. CASE /\ branch' = [branch EXCEPT ![w] = "timing out"]
             /\ UNCHANGED <<run, attempts, pass, late, reconciling, now, crashes>>
    <3>1. SameTimes /\ SameStatuses
      BY <2>4 DEF SameTimes, SameStatuses
    <3>2. \A x \in Waits : branch'[x] \in {"inserting", "creating"} => branch'[x] = branch[x]
      BY <2>4 DEF IInv, Types
    <3>3. Parked' => Parked /\ run'.available <= run.available
      <4>1. run' = run /\ run.available \in Nat
        BY <2>4 DEF IInv, Types, RunRecord
      <4> QED BY <4>1 DEF Parked
    <3>4. \A x \in Waits : \A j \in DOMAIN attempts[x] :
            attempts'[x][j].child # "absent" => Kind[x] = "workflow"
      BY <2>4 DEF SqliteInv, ChildrenOfWorkflows
    <3> QED BY <2>4, <3>1, <3>2, <3>3, <3>4, QuietStep
  <2> QED BY <1>6, <2>2, <2>3, <2>4 DEF ResolveSignal
<1> QED BY <1>1, <1>2, <1>3, <1>4, <1>5, <1>6 DEF Branch

LEMMA SqlitePark ==
  ASSUME IInv, IInv', SqliteInv, Park
  PROVE  SqliteInv'
<1> DEFINE available == IF ~Postgres /\ AnyResult /\ pass.resumeAt > now
                        THEN now ELSE pass.resumeAt
<1>1. /\ run' = [run EXCEPT !.owned = FALSE, !.available = available]
      /\ late' = late \cup {w \in Waits : branch[w] = "inserting"}
      /\ EndPass /\ pass.pc = "parking"
      /\ UNCHANGED <<attempts, now, crashes>>
  BY DEF Park
<1>2. available \in Nat /\ available <= pass.resumeAt /\ pass.resumeAt \in Nat
  BY DEF IInv, Types, PassRecord
<1> HIDE DEF available
<1>3. run'.available = available
  BY <1>1 DEF IInv, Types, RunRecord
<1>4. late' = {}
  BY <1>1 DEF SqliteInv, NobodyLate
<1>5. SameTimes /\ SameStatuses
  BY <1>1 DEF SameTimes, SameStatuses
<1>6. DueBy(run.available)'
  BY <1>1, <1>2, <1>3, <1>5, DueLater DEF SqliteInv, DueInTime, DueBy
<1>7. \A x \in Waits : \A j \in DOMAIN attempts[x] :
        attempts'[x][j].child # "absent" => Kind[x] = "workflow"
  BY <1>1 DEF SqliteInv, ChildrenOfWorkflows
<1> QED BY <1>1, <1>4, <1>5, <1>6, <1>7, PassEnds

\* The worker's last step with the row still owned, or its run over.
LEMMA SqliteEnd ==
  ASSUME IInv, IInv', SqliteInv, Complete \/ CrashInPass
  PROVE  SqliteInv'
<1>1. EndPass /\ UNCHANGED <<attempts, late, reconciling, now>>
  BY DEF Complete, CrashInPass
<1>2. ~Parked'
  BY DEF Complete, CrashInPass, Parked, IInv, Types, RunRecord, Owning
<1>3. SameTimes
  BY <1>1 DEF SameTimes
<1>4. \A x \in Waits : \A j \in DOMAIN attempts[x] :
        attempts'[x][j].child # "absent" => Kind[x] = "workflow"
  BY <1>1 DEF SqliteInv, ChildrenOfWorkflows
<1> QED BY <1>1, <1>2, <1>3, <1>4, PassEnds DEF SqliteInv, NobodyLate

-----------------------------------------------------------------------------
(* Everybody else on SQLite *)

LEMMA SqliteOthers ==
  ASSUME IInv, IInv', SqliteInv, SameTimes, SameStatuses,
         now' = now \/ now' = now + 1, UNCHANGED <<pass, branch, late>>,
         run' = run \/ run' = WokenRow,
         \A x \in Waits : \A i \in DOMAIN attempts[x] :
           attempts'[x][i].child # "absent" => attempts[x][i].child # "absent"
  PROVE  SqliteInv'
<1>1. run \in RunRecord /\ run.available \in Nat /\ now \in Nat
  BY DEF IInv, Types, RunRecord
<1>2. /\ WokenRow.owned = run.owned /\ WokenRow.status = run.status
      /\ WokenRow.available <= run.available
  <2>1. CASE Parked /\ run.available > now
    <3>1. WokenRow.available = now
      BY <1>1, <2>1 DEF WokenRow, RunRecord
    <3> QED BY <1>1, <2>1, <3>1, Woken DEF IInv
  <2>2. CASE ~(Parked /\ run.available > now)
    BY <1>1, <2>2 DEF WokenRow
  <2> QED BY <2>1, <2>2
<1>3. Parked' => Parked /\ run'.available <= run.available
  BY <1>1, <1>2 DEF Parked
<1>4. \A x \in Waits : \A i \in DOMAIN attempts[x] :
        attempts'[x][i].child # "absent" => Kind[x] = "workflow"
  BY DEF SqliteInv, ChildrenOfWorkflows
<1>5. \A x \in Waits : branch'[x] \in {"inserting", "creating"} => branch'[x] = branch[x]
  OBVIOUS
<1> QED BY <1>3, <1>4, <1>5, QuietStep

LEMMA SqliteChild ==
  ASSUME IInv, IInv', SqliteInv, NEW w \in Waits, NEW i \in DOMAIN attempts[w], Child(w, i)
  PROVE  SqliteInv'
<1> DEFINE o == attempts[w][i]
<1>1. o \in Attempt /\ attempts[w] \in Seq(Attempt)
  BY DEF IInv, Types
<1>2. o.child # "absent"
  BY DEF Child, EndChild, WakeParent, CrashChild
<1>3. PICK a \in Attempt :
        /\ attempts' = [attempts EXCEPT ![w] = [attempts[w] EXCEPT ![i] = a]]
        /\ a.until = o.until /\ a.status = o.status
  <2>1. CASE EndChild(w, i)
    <3> DEFINE b == now > o.until
               a == [o EXCEPT !.child = "finishing", !.overdue = b]
    <3>1. b \in BOOLEAN
      <4>1. now \in Nat /\ o.until \in Nat
        <5> HIDE DEF o
        <5> QED BY <1>1 DEF IInv, Types, Attempt
      <4> HIDE DEF o
      <4> QED BY <4>1
    <3>2. a \in Attempt /\ a.until = o.until /\ a.status = o.status
      <4> HIDE DEF o, b
      <4> QED BY <1>1, <3>1 DEF Attempt
    <3>3. attempts' = [attempts EXCEPT ![w] = [attempts[w] EXCEPT ![i] = a]]
      <4>1. attempts' = [attempts EXCEPT ![w][i].child = "finishing", ![w][i].overdue = b]
        BY <2>1, Zenon DEF EndChild
      <4> HIDE DEF o, b
      <4> QED BY <4>1, <1>1 DEF IInv, Types, o
    <3> HIDE DEF a
    <3> QED BY <3>2, <3>3
  <2>2. CASE WakeParent(w, i) \/ CrashChild(w, i)
    <3> DEFINE a == [o EXCEPT !.child = "ended"]
    <3>1. a \in Attempt /\ a.until = o.until /\ a.status = o.status
      <4> HIDE DEF o
      <4> QED BY <1>1 DEF Attempt
    <3>2. attempts' = [attempts EXCEPT ![w] = [attempts[w] EXCEPT ![i] = a]]
      BY <2>2 DEF WakeParent, CrashChild
    <3> HIDE DEF a
    <3> QED BY <3>1, <3>2
  <2> QED BY <2>1, <2>2 DEF Child
<1>4. SameTimes /\ SameStatuses
  BY <1>3, ReplacedTimes
<1>5. \A x \in Waits : \A j \in DOMAIN attempts[x] :
        attempts'[x][j].child # "absent" => attempts[x][j].child # "absent"
  <2>1. \A x \in Waits : \A j \in DOMAIN attempts[x] :
          x # w \/ j # i => attempts'[x][j] = attempts[x][j]
    BY <1>3, Replaced DEF IInv, Types
  <2> QED BY <1>2, <2>1
<1>6. UNCHANGED <<pass, branch, late, now>> /\ (run' = run \/ run' = WokenRow)
  BY DEF Child, EndChild, WakeParent, CrashChild
<1> QED BY <1>4, <1>5, <1>6, SqliteOthers

LEMMA SqliteSender ==
  ASSUME ~Postgres, IInv, IInv', SqliteInv, NEW w \in Waits, Sender(w)
  PROVE  SqliteInv'
<1>1. \A state \in {"inserted", "swept"} : WithDelivery(w, state) = {}
  BY DEF WithDelivery, IInv, AtOnce
<1>2. Send(w)
  BY <1>1 DEF Sender, Sweep, Commit
<1>3. Deliver(w, Waiters(w), "committed") /\ run' = WokenRow
      /\ UNCHANGED <<pass, branch, late, reconciling, now, crashes>>
  BY <1>2 DEF Send
<1>4. SameTimes /\ SameStatuses
      /\ \A x \in Waits : \A i \in DOMAIN attempts[x] :
           attempts'[x][i].child # "absent" => attempts[x][i].child # "absent"
  <2> DEFINE indices == Waiters(w)
  <2>1. Deliver(w, indices, "committed")
    BY <1>3
  <2> HIDE DEF indices
  <2>2. /\ \A x \in Waits : Len(attempts'[x]) = Len(attempts[x])
        /\ \A x \in Waits : DOMAIN attempts'[x] = DOMAIN attempts[x]
        /\ \A x \in Waits : x # w => attempts'[x] = attempts[x]
        /\ \A i \in DOMAIN attempts[w] :
             /\ attempts'[w][i].status = attempts[w][i].status
             /\ attempts'[w][i].child = attempts[w][i].child
             /\ attempts'[w][i].until = attempts[w][i].until
    BY <2>1, Delivered
  <2> QED BY <2>2 DEF SameTimes, SameStatuses
<1> QED BY <1>3, <1>4, SqliteOthers

LEMMA SqliteQuiet ==
  ASSUME IInv, IInv', SqliteInv, Reconcile \/ CrashParked \/ Tick \/ UNCHANGED vars
  PROVE  SqliteInv'
<1>1. attempts' = attempts /\ UNCHANGED <<pass, branch, late>>
      /\ (run' = run \/ run' = WokenRow) /\ (now' = now \/ now' = now + 1)
  BY DEF Reconcile, CrashParked, Tick, vars
<1>2. SameTimes /\ SameStatuses
  BY <1>1 DEF SameTimes, SameStatuses
<1> QED BY <1>1, <1>2, SqliteOthers

LEMMA NextSqlite ==
  ASSUME ~Postgres
  PROVE  IInv /\ SqliteInv /\ [Next]_vars => (IInv /\ SqliteInv)'
<1> SUFFICES ASSUME IInv, SqliteInv, [Next]_vars PROVE IInv' /\ SqliteInv'
  OBVIOUS
<1>1. IInv'
  BY NextInv
<1>2. CASE Claim
  BY <1>1, <1>2, SqliteClaim
<1>3. CASE Complete \/ CrashInPass
  BY <1>1, <1>3, SqliteEnd
<1>4. CASE Park
  BY <1>1, <1>4, SqlitePark
<1>5. ASSUME NEW w \in Waits, Branch(w) \/ InsertLate(w) \/ Sender(w)
      PROVE  SqliteInv'
  <2>1. ~InsertLate(w)
    BY DEF InsertLate, SqliteInv, NobodyLate
  <2> QED BY <1>1, <1>5, <2>1, SqliteBranch, SqliteSender
<1>6. ASSUME NEW w \in Waits, NEW i \in DOMAIN attempts[w], Child(w, i)
      PROVE  SqliteInv'
  BY <1>1, <1>6, SqliteChild
<1>7. CASE Reconcile \/ CrashParked \/ Tick \/ UNCHANGED vars
  BY <1>1, <1>7, SqliteQuiet
<1> QED BY <1>1, <1>2, <1>3, <1>4, <1>5, <1>6, <1>7 DEF Next

LEMMA SqliteInvariance == ~Postgres => (Spec => [](IInv /\ SqliteInv))
<1> SUFFICES ASSUME ~Postgres PROVE Spec => [](IInv /\ SqliteInv)
  OBVIOUS
<1>1. Init => IInv /\ SqliteInv
  BY InitInv, InitSqlite
<1>2. IInv /\ SqliteInv /\ [Next]_vars => (IInv /\ SqliteInv)'
  BY NextSqlite
<1> QED BY <1>1, <1>2, PTL DEF Spec

\* On SQLite no replay of the function starts a sleep over, whatever woke the
\* run and wherever a pass died, unless the time of another wait has run out.
THEOREM SleepsSurvive == ~Postgres => (Spec => []SleepsSurviveWakeUps)
<1> SUFFICES ASSUME ~Postgres PROVE Spec => []SleepsSurviveWakeUps
  OBVIOUS
<1>1. IInv /\ SqliteInv => SleepsSurviveWakeUps
  BY DEF SqliteInv, Steps
<1> QED BY <1>1, SqliteInvariance, PTL

\* On SQLite a workflow step has one attempt, and so one child run.
THEOREM ChildrenAreCreatedOnce == ~Postgres => (Spec => []OneChildPerStep)
<1> SUFFICES ASSUME ~Postgres PROVE Spec => []OneChildPerStep
  OBVIOUS
<1>1. ASSUME IInv, SqliteInv PROVE OneChildPerStep
  <2> SUFFICES ASSUME NEW w \in Waits
               PROVE  Cardinality({i \in DOMAIN attempts[w] :
                                     attempts[w][i].child # "absent"}) <= 1
    BY DEF OneChildPerStep
  <2> DEFINE children == {i \in DOMAIN attempts[w] : attempts[w][i].child # "absent"}
  <2>1. children \subseteq {1}
    <3>1. CASE Kind[w] = "workflow"
      <4>1. Len(attempts[w]) <= 1 /\ attempts[w] \in Seq(Attempt)
        BY <1>1, <3>1 DEF SqliteInv, Steps, OnceUnlessSleep, IInv, Types
      <4> QED BY <4>1
    <3>2. CASE Kind[w] # "workflow"
      BY <1>1, <3>2 DEF SqliteInv, ChildrenOfWorkflows
    <3> QED BY <3>1, <3>2
  <2> HIDE DEF children
  <2>2. children = {} \/ children = {1}
    BY <2>1
  <2>3. Cardinality(children) <= 1
    BY <2>2, FS_EmptySet, FS_Singleton
  <2> QED BY <2>3 DEF children
<1> QED BY <1>1, SqliteInvariance, PTL

\* On SQLite a parked run is due when the earliest of its waits ends, however
\* many wake-ups and passes there were before.
THEOREM ParksInTime == ~Postgres => (Spec => []ParksOnEarliestWait)
<1> SUFFICES ASSUME ~Postgres PROVE Spec => []ParksOnEarliestWait
  OBVIOUS
<1>1. IInv /\ SqliteInv => ParksOnEarliestWait
  BY DEF SqliteInv, DueInTime, DueBy, ParksOnEarliestWait
<1> QED BY <1>1, SqliteInvariance, PTL

===============================================================================
