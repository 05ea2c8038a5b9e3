-------------------------- MODULE CronDispatch_proofs --------------------------
(***************************************************************************)
(* Proofs about CronDispatch for any number of schedules, loops, requests  *)
(* and faults: a cutoff is granted once (the refinement of ClaimOnce), has *)
(* one run while its claim or its key lasts, and is not passed over in     *)
(* silence.                                                                *)
(*                                                                         *)
(* What has been granted can only be known from the row: it stores how     *)
(* often the schedule was created (times) and the cutoff claimed last, and *)
(* every earlier claim lies behind these two (Reflected).                  *)
(***************************************************************************)
EXTENDS CronDispatch, TLAPS

-----------------------------------------------------------------------------
(* Minutes and claims *)

LEMMA MinuteMonotone ==
  ASSUME NEW a \in Nat, NEW b \in Nat, a <= b
  PROVE  Minute(a) \in Nat /\ Minute(a) <= Minute(b)
BY DispatchAssumption DEF Minute

LEMMA MinuteType ==
  ASSUME NEW t \in 0 .. MaxTime
  PROVE  Minute(t) \in Minutes
<1>1. t \in Nat /\ MaxTime \in Nat /\ t <= MaxTime
  BY DispatchAssumption
<1>2. Minute(t) \in Nat /\ Minute(t) <= Minute(MaxTime) /\ Minute(MaxTime) \in Nat
  BY <1>1, MinuteMonotone
<1> QED BY <1>2 DEF Minutes

LEMMA MinutesAreNat == \A m \in Minutes : m \in Nat
BY DEF Minutes

LEMMA ClaimParts ==
  ASSUME NEW c \in Claims
  PROVE  /\ c = <<c[1], c[2], c[3]>> /\ c # NoClaim
         /\ c[1] \in Schedules /\ c[2] \in 0 .. MaxDeleted /\ c[3] \in Minutes
         /\ <<c[1], c[3]>> \in Cutoffs /\ c[2] \in Nat /\ c[3] \in Nat
BY MinutesAreNat DEF Claims, Cutoffs, NoClaim

LEMMA ClaimType ==
  ASSUME TypeOK, NEW d \in Dispatchers, NEW s \in Schedules
  PROVE  /\ Claim(d, s) \in Claims
         /\ Claim(d, s)[1] = s /\ Claim(d, s)[2] = row[s].times
         /\ Claim(d, s)[3] = tick[d].cutoff
BY DEF TypeOK, RowRecord, TickRecord, Claims, Claim

LEMMA RowsType ==
  ASSUME TypeOK
  PROVE  Rows \subseteq Schedules \X (0 .. MaxDeleted)
BY DEF TypeOK, RowRecord, Rows

\* A tick that is idle, listing or between two claims.
LEMMA NotFiring ==
  ASSUME NEW t \in [pc : {"idle", "listing", "listed", "claiming"}, cutoff : Minutes,
                    began : 0 .. MaxTime, listed : SUBSET (Schedules \X (0 .. MaxDeleted)),
                    todo : SUBSET Schedules, firing : {NoClaim}]
  PROVE  t \in TickRecord
BY DEF TickRecord

-----------------------------------------------------------------------------
(* Types *)

LEMMA NoTickType == NoTick \in TickRecord
<1>1. 0 \in Minutes /\ 0 \in 0 .. MaxTime
  BY DispatchAssumption, MinuteType DEF Minute, Minutes
<1> QED BY <1>1, NotFiring DEF NoTick

LEMMA InitType == Init => TypeOK
<1> SUFFICES ASSUME Init PROVE TypeOK
  OBVIOUS
<1>1. tick \in [Dispatchers -> TickRecord]
  BY NoTickType DEF Init
<1>2. row \in [Schedules -> RowRecord]
  BY DispatchAssumption DEF Init, RowRecord
<1>3. /\ now \in 0 .. MaxTime /\ faults \in 0 .. MaxFaults
      /\ requested \in 0 .. MaxTicks /\ deleted \in 0 .. MaxDeleted
  BY DispatchAssumption DEF Init
<1>4. granted \in [Claims -> Nat] /\ wake \in [Loops -> Nat]
  BY DEF Init
<1>5. workflow \in BOOLEAN /\ slow \in BOOLEAN
      /\ lost \subseteq Claims /\ ticked \subseteq Loops \X Minutes
  BY DEF Init
<1>6. runs \in Seq(RunRecord)
  <2>1. runs = <<>>
    BY DEF Init
  <2> QED BY <2>1
<1> QED BY <1>1, <1>2, <1>3, <1>4, <1>5, <1>6 DEF TypeOK

LEMMA TickParts ==
  ASSUME TypeOK, NEW d \in Dispatchers
  PROVE  /\ tick[d] \in TickRecord
         /\ tick[d].cutoff \in Minutes /\ tick[d].cutoff \in Nat
         /\ tick[d].began \in 0 .. MaxTime
         /\ tick[d].listed \subseteq Schedules \X (0 .. MaxDeleted)
         /\ tick[d].todo \subseteq Schedules
         /\ tick[d].pc # "firing" => tick[d].firing = NoClaim
         /\ tick[d].pc = "firing" => tick[d].firing \in Claims
BY MinutesAreNat DEF TypeOK, TickRecord

\* What a tick does to its own state.
LEMMA TickStepType ==
  ASSUME TypeOK, NEW d \in Dispatchers, NEW t \in TickRecord, tick' = [tick EXCEPT ![d] = t]
  PROVE  tick' \in [Dispatchers -> TickRecord]
BY DEF TypeOK

LEMMA BeginLoopType ==
  ASSUME TypeOK, NEW d \in Loops, BeginLoop(d)
  PROVE  TypeOK'
<1> DEFINE t == [NoTick EXCEPT !.pc = "listing", !.cutoff = Minute(now), !.began = now]
<1>1. Minute(now) \in Minutes /\ now \in 0 .. MaxTime
  BY MinuteType DEF TypeOK
<1>2. t \in TickRecord
  BY <1>1, NotFiring DEF NoTick
<1>3. tick' \in [Dispatchers -> TickRecord]
  BY <1>2, TickStepType DEF BeginLoop, Dispatchers
<1>4. ticked' \subseteq Loops \X Minutes
  BY <1>1 DEF BeginLoop, TypeOK
<1> QED BY <1>3, <1>4 DEF BeginLoop, TypeOK, tables, history

LEMMA ListType ==
  ASSUME TypeOK, NEW d \in Dispatchers, List(d)
  PROVE  TypeOK'
<1> DEFINE t == [tick[d] EXCEPT !.pc = "claiming", !.listed = Rows,
                                !.todo = DueAt(Rows, tick[d].cutoff)]
<1>1. t \in TickRecord
  BY TickParts, RowsType, NotFiring DEF TickRecord, List, DueAt
<1>2. tick' \in [Dispatchers -> TickRecord]
  BY <1>1, TickStepType DEF List
<1> QED BY <1>2 DEF List, TypeOK, tables, history, clocks

LEMMA BeginRequestType ==
  ASSUME TypeOK, NEW d \in Dispatchers, BeginRequest(d)
  PROVE  TypeOK'
<1> DEFINE t == [NoTick EXCEPT !.pc = "listed", !.listed = Rows]
<1>1. 0 \in Minutes /\ 0 \in 0 .. MaxTime
  BY DispatchAssumption, MinuteType DEF Minute, Minutes
<1>2. t \in TickRecord
  BY <1>1, RowsType, NotFiring DEF NoTick
<1>3. tick' \in [Dispatchers -> TickRecord]
  BY <1>2, TickStepType DEF BeginRequest
<1>4. requested' \in 0 .. MaxTicks
  BY DispatchAssumption DEF TickNow, BeginRequest, TypeOK
<1> QED BY <1>3, <1>4 DEF TickNow, BeginRequest, TypeOK, tables, history, clocks

LEMMA TickNowType ==
  ASSUME TypeOK, NEW d \in Dispatchers, TickNow(d)
  PROVE  TypeOK'
<1>1. PICK m \in Minutes : tick' = [tick EXCEPT ![d] = [NoTick EXCEPT !.pc = "listing", !.cutoff = m]]
  BY DEF TickNow
<1> DEFINE t == [NoTick EXCEPT !.pc = "listing", !.cutoff = m]
<1>2. t \in TickRecord
  <2>1. 0 \in 0 .. MaxTime
    BY DispatchAssumption
  <2> QED BY <2>1, NotFiring DEF NoTick
<1>3. tick' \in [Dispatchers -> TickRecord]
  BY <1>1, <1>2, TickStepType
<1>4. requested' \in 0 .. MaxTicks
  BY DispatchAssumption DEF TickNow, TypeOK
<1> QED BY <1>3, <1>4 DEF TickNow, TypeOK, tables, history, clocks

LEMMA DispatchType ==
  ASSUME TypeOK, NEW d \in Dispatchers, Dispatch(d)
  PROVE  TypeOK'
<1> DEFINE t == [tick[d] EXCEPT !.pc = "claiming", !.cutoff = Minute(now),
                                !.todo = DueAt(tick[d].listed, Minute(now))]
<1>1. Minute(now) \in Minutes
  BY MinuteType DEF TypeOK
<1>2. t \in TickRecord
  BY <1>1, TickParts, NotFiring DEF TickRecord, Dispatch, DueAt
<1>3. tick' \in [Dispatchers -> TickRecord]
  BY <1>2, TickStepType DEF Dispatch
<1> QED BY <1>3 DEF Dispatch, TypeOK, tables, history, clocks

LEMMA AdvanceType ==
  ASSUME TypeOK, NEW d \in Dispatchers, NEW s \in Schedules, Advance(d, s)
  PROVE  row' \in [Schedules -> RowRecord] /\ granted' \in [Claims -> Nat]
<1>1. [row[s] EXCEPT !.lastFired = tick[d].cutoff] \in RowRecord
  BY TickParts DEF TypeOK, RowRecord
<1>2. granted[Claim(d, s)] + 1 \in Nat
  BY ClaimType DEF TypeOK
<1> QED BY <1>1, <1>2, ClaimType DEF Advance, TypeOK

LEMMA TryClaimType ==
  ASSUME TypeOK, NEW d \in Dispatchers, NEW s \in Schedules, TryClaim(d, s)
  PROVE  TypeOK'
<1> DEFINE t == [tick[d] EXCEPT !.pc = "firing", !.todo = tick[d].todo \ {s},
                                !.firing = Claim(d, s)]
<1>1. Claim(d, s) \in Claims /\ Claim(d, s) # NoClaim
  BY ClaimType, ClaimParts
<1>2. t \in TickRecord
  BY <1>1, TickParts DEF TickRecord
<1>3. tick' \in [Dispatchers -> TickRecord]
  BY <1>2, TickStepType DEF TryClaim
<1> QED BY <1>3, AdvanceType DEF TryClaim, TypeOK, clocks

LEMMA ClaimRefusedType ==
  ASSUME TypeOK, NEW d \in Dispatchers, NEW s \in Schedules, ClaimRefused(d, s)
  PROVE  TypeOK'
<1> DEFINE t == [tick[d] EXCEPT !.todo = tick[d].todo \ {s}]
<1>1. t \in TickRecord
  BY TickParts DEF TickRecord
<1>2. tick' \in [Dispatchers -> TickRecord]
  BY <1>1, TickStepType DEF ClaimRefused
<1> QED BY <1>2 DEF ClaimRefused, TypeOK, tables, history, clocks

LEMMA FaultType ==
  ASSUME TypeOK, Fault
  PROVE  faults' \in 0 .. MaxFaults
BY DispatchAssumption DEF Fault, TypeOK

LEMMA ClaimFailsType ==
  ASSUME TypeOK, NEW d \in Dispatchers, NEW s \in Schedules, ClaimFails(d, s)
  PROVE  TypeOK'
<1> DEFINE t == [tick[d] EXCEPT !.todo = tick[d].todo \ {s}]
<1>1. t \in TickRecord
  BY TickParts DEF TickRecord
<1>2. tick' \in [Dispatchers -> TickRecord]
  BY <1>1, TickStepType DEF ClaimFails
<1>3. row' \in [Schedules -> RowRecord] /\ granted' \in [Claims -> Nat]
  BY AdvanceType DEF ClaimFails, TypeOK
<1>4. lost' \subseteq Claims
  BY ClaimType DEF ClaimFails, TypeOK
<1> QED BY <1>2, <1>3, <1>4, FaultType DEF ClaimFails, TypeOK, clocks

LEMMA AfterFailureType ==
  ASSUME TypeOK, NEW d \in Dispatchers
  PROVE  AfterFailure(d) \in TickRecord
BY TickParts, NotFiring DEF TickRecord, AfterFailure

LEMMA NewRunType ==
  ASSUME TypeOK, NEW d \in Dispatchers, tick[d].pc = "firing"
  PROVE  /\ NewRun(d) \in RunRecord
         /\ NewRun(d).key = Key(d) /\ NewRun(d).claim = tick[d].firing /\ NewRun(d).at = now
<1>1. Key(d) \in Cutoffs /\ tick[d].firing \in Claims /\ now \in 0 .. MaxTime
  BY TickParts, ClaimParts DEF Cutoffs, Key, TypeOK
<1> QED BY <1>1 DEF NewRun, RunRecord

LEMMA CreateRunType ==
  ASSUME TypeOK, NEW d \in Dispatchers, tick[d].pc = "firing", CreateRun(d)
  PROVE  runs' \in Seq(RunRecord)
<1>1. NewRun(d) \in RunRecord /\ runs \in Seq(RunRecord)
  BY NewRunType DEF TypeOK
<1>2. Append(runs, NewRun(d)) \in Seq(RunRecord)
  BY <1>1
<1> QED BY <1>1, <1>2 DEF CreateRun

LEMMA FireType ==
  ASSUME TypeOK, NEW d \in Dispatchers, Fire(d)
  PROVE  TypeOK'
<1>1. tick' \in [Dispatchers -> TickRecord]
  BY AfterFailureType, TickStepType DEF Fire, AfterFailure
<1> QED BY <1>1, CreateRunType DEF Fire, TypeOK, history, clocks

LEMMA FireFailsType ==
  ASSUME TypeOK, NEW d \in Dispatchers, FireFails(d)
  PROVE  TypeOK'
<1>1. tick' \in [Dispatchers -> TickRecord]
  BY AfterFailureType, TickStepType DEF FireFails
<1>2. lost' \subseteq Claims
  BY TickParts DEF FireFails, TypeOK
<1>3. runs' \in Seq(RunRecord) /\ faults' \in 0 .. MaxFaults
  BY CreateRunType, FaultType DEF FireFails, TypeOK
<1> QED BY <1>1, <1>2, <1>3 DEF FireFails, TypeOK, clocks

LEMMA EndType ==
  ASSUME TypeOK, NEW d \in Dispatchers, End(d)
  PROVE  /\ tick' \in [Dispatchers -> TickRecord]
         /\ wake' \in [Loops -> Nat]
         /\ slow' \in BOOLEAN
<1>1. tick' \in [Dispatchers -> TickRecord]
  BY NoTickType, TickStepType DEF End
<1>2. now + Interval \in Nat
  BY DispatchAssumption DEF TypeOK
<1> QED BY <1>1, <1>2 DEF End, TypeOK

LEMMA EndTickType ==
  ASSUME TypeOK, NEW d \in Dispatchers, EndTick(d) 
  PROVE  TypeOK'
BY EndType DEF EndTick, End, TypeOK, tables

LEMMA ListFailsType ==
  ASSUME TypeOK, NEW d \in Dispatchers, ListFails(d)
  PROVE  TypeOK'
BY EndType, FaultType DEF ListFails, End, TypeOK, tables

LEMMA CrashType ==
  ASSUME TypeOK, NEW d \in Dispatchers, Crash(d)
  PROVE  TypeOK'
<1>1. tick' \in [Dispatchers -> TickRecord]
  BY NoTickType, TickStepType DEF Crash
<1>2. lost' \subseteq Claims
  BY TickParts DEF Crash, TypeOK
<1>3. wake' \in [Loops -> Nat]
  BY DispatchAssumption DEF Crash, TypeOK
<1> QED BY <1>1, <1>2, <1>3, FaultType DEF Crash, TypeOK, tables

-----------------------------------------------------------------------------
(* The invariant *)

\* A schedule is created anew only after it was deleted.
Recreated ==
  \A s \in Schedules : /\ row[s].times <= deleted
                       /\ ~row[s].exists => row[s].times < deleted

\* A claim lies behind what the row says: it was of an earlier schedule of the
\* id, or of a cutoff no later than the one claimed last.
Reflected(c) ==
  \/ c[2] < row[c[1]].times
  \/ c[2] = row[c[1]].times /\ c[3] <= row[c[1]].lastFired

Granted ==
  \A c \in Claims : granted[c] # 0 => granted[c] = 1 /\ Reflected(c)

KeysAreCutoffs == \A i \in DOMAIN runs : runs[i].key = CutoffOf(runs[i].claim)

FiringIsClaim == \A d \in Dispatchers : tick[d].pc = "firing" => tick[d].firing[3] = tick[d].cutoff

\* A claim that is being fired, or has been, was granted; it is in the hands of one
\* tick, and a run of it ends that.
ClaimsAreUsedOnce ==
  /\ \A i \in DOMAIN runs : granted[runs[i].claim] # 0
  /\ \A d \in Dispatchers : tick[d].pc = "firing" =>
       /\ granted[tick[d].firing] # 0
       /\ \A i \in DOMAIN runs : runs[i].claim # tick[d].firing
       /\ \A x \in Dispatchers \ {d} : tick[x].pc = "firing" => tick[x].firing # tick[d].firing

\* The schedules a tick has read exist still, or are replaced by later ones.
ListedBefore == \A d \in Dispatchers : \A e \in tick[d].listed : e[2] <= row[e[1]].times

\* What is not left to do is done.
Done(d, e) ==
  \/ row[e[1]].lastFired >= tick[d].cutoff
  \/ ~row[e[1]].exists
  \/ row[e[1]].times # e[2]
  \/ <<e[1], e[2], tick[d].cutoff>> \in lost

TodoIsComplete ==
  \A d \in Dispatchers : tick[d].pc \in {"claiming", "firing"} =>
    \A e \in tick[d].listed : tick[d].cutoff \in Due[e[1]] => e[1] \in tick[d].todo \/ Done(d, e)

GrantsAccounted == \A c \in Claims : granted[c] > 0 => Accounted(c)

IInv ==
  /\ TypeOK
  /\ Recreated
  /\ Granted
  /\ KeysAreCutoffs
  /\ FiringIsClaim
  /\ ClaimsAreUsedOnce
  /\ OneRunPerCutoff
  /\ ListedBefore
  /\ TodoIsComplete
  /\ GrantsAccounted

LEMMA InitInv == Init => IInv
<1> SUFFICES ASSUME Init PROVE IInv
  OBVIOUS
<1>1. TypeOK
  BY InitType
<1>2. Recreated /\ Granted /\ GrantsAccounted
  BY DEF Init, Recreated, Granted, GrantsAccounted
<1>3. KeysAreCutoffs /\ FiringIsClaim /\ ListedBefore /\ TodoIsComplete
  BY DEF Init, NoTick, KeysAreCutoffs, FiringIsClaim, ListedBefore, TodoIsComplete
<1>4. ClaimsAreUsedOnce /\ OneRunPerCutoff
  BY DEF Init, NoTick, ClaimsAreUsedOnce, OneRunPerCutoff
<1> QED BY <1>1, <1>2, <1>3, <1>4 DEF IInv

\* Schedules and the clock.
LEMMA CreateType ==
  ASSUME IInv, NEW s \in Schedules, Create(s)
  PROVE  TypeOK'
<1> DEFINE new == [exists |-> TRUE, lastFired |-> Never, times |-> row[s].times + 1]
<1>1. row[s].times + 1 \in 0 .. MaxDeleted
  BY DispatchAssumption DEF IInv, TypeOK, RowRecord, Recreated, Create
<1>2. new \in RowRecord
  BY <1>1 DEF RowRecord
<1>3. row' \in [Schedules -> RowRecord]
  BY <1>2 DEF Create, IInv, TypeOK
<1> QED BY <1>3 DEF Create, IInv, TypeOK, history, clocks

LEMMA DeleteType ==
  ASSUME TypeOK, NEW s \in Schedules, Delete(s)
  PROVE  TypeOK'
<1>1. [row[s] EXCEPT !.exists = FALSE] \in RowRecord
  BY DEF TypeOK, RowRecord
<1>2. row' \in [Schedules -> RowRecord]
  BY <1>1 DEF Delete, TypeOK
<1>3. deleted' \in 0 .. MaxDeleted
  BY DispatchAssumption DEF Delete, TypeOK
<1> QED BY <1>2, <1>3 DEF Delete, TypeOK, history, clocks

LEMMA PassType ==
  ASSUME TypeOK, Pass
  PROVE  TypeOK'
BY DispatchAssumption DEF Pass, TypeOK, tables, history

-----------------------------------------------------------------------------
(* The rows *)

\* What any step makes of the row of a schedule.
RowStep(old, new) ==
  \/ new.times = old.times + 1
  \/ new.times = old.times /\ new.lastFired >= old.lastFired /\ (new.exists => old.exists)

LEMMA SameRow ==
  ASSUME NEW r \in RowRecord
  PROVE  RowStep(r, r) /\ r.lastFired \in Int /\ r.lastFired >= Never /\ r.times \in Nat
<1>1. r.lastFired \in Minutes \cup {Never} /\ r.times \in Nat
  BY DEF RowRecord
<1>2. r.lastFired \in Int /\ r.lastFired >= Never
  BY <1>1 DEF Minutes, Never
<1>3. r.lastFired >= r.lastFired
  BY <1>2
<1> QED BY <1>1, <1>2, <1>3 DEF RowStep

LEMMA AdvanceRow ==
  ASSUME TypeOK, NEW d \in Dispatchers, NEW s \in Schedules, Advance(d, s)
  PROVE  /\ \A x \in Schedules : RowStep(row[x], row'[x])
         /\ row[s].exists /\ row'[s].exists /\ row'[s].times = row[s].times
         /\ row[s].lastFired < tick[d].cutoff /\ row'[s].lastFired = tick[d].cutoff
         /\ \A x \in Schedules \ {s} : row'[x] = row[x]
<1>1. /\ row[s] \in RowRecord /\ row[s].exists /\ row[s].lastFired < tick[d].cutoff
      /\ row' = [row EXCEPT ![s] = [row[s] EXCEPT !.lastFired = tick[d].cutoff]]
  BY DEF Advance, Claimable, TypeOK
<1>2. row[s].lastFired \in Int /\ tick[d].cutoff \in Int
  BY <1>1, TickParts, SameRow
<1>3. \A x \in Schedules \ {s} : row'[x] = row[x] /\ row[x] \in RowRecord
  BY <1>1 DEF TypeOK
<1>4. /\ row'[s] = [row[s] EXCEPT !.lastFired = tick[d].cutoff]
      /\ row'[s].exists /\ row'[s].times = row[s].times /\ row'[s].lastFired = tick[d].cutoff
  BY <1>1 DEF TypeOK, RowRecord
<1>5. \A x \in Schedules \ {s} : RowStep(row[x], row'[x])
  BY <1>3, SameRow
<1>6. RowStep(row[s], row'[s])
  BY <1>1, <1>2, <1>4 DEF RowStep
<1> QED BY <1>1, <1>3, <1>4, <1>5, <1>6

LEMMA RowKept ==
  ASSUME TypeOK, UNCHANGED row
  PROVE  \A x \in Schedules : RowStep(row[x], row'[x])
BY SameRow DEF TypeOK

LEMMA ScheduleStep ==
  ASSUME TypeOK, NEW s \in Schedules, Create(s) \/ Delete(s)
  PROVE  \A x \in Schedules : RowStep(row[x], row'[x])
<1>1. \A x \in Schedules : row[x] \in RowRecord
  BY DEF TypeOK
<1>2. \A x \in Schedules \ {s} : row'[x] = row[x]
  BY DEF Create, Delete, TypeOK
<1>3. CASE Create(s)
  <2>1. row'[s].times = row[s].times + 1
    BY <1>3 DEF Create, TypeOK
  <2> QED BY <1>1, <1>2, <2>1, SameRow DEF RowStep
<1>4. CASE Delete(s)
  <2>1. /\ row'[s].times = row[s].times /\ row'[s].lastFired = row[s].lastFired
        /\ row[s].exists
    BY <1>1, <1>4 DEF Delete, TypeOK, RowRecord
  <2>2. row[s].lastFired \in Int
    BY <1>1, SameRow
  <2> QED BY <1>1, <1>2, <2>1, <2>2, SameRow DEF RowStep
<1> QED BY <1>3, <1>4

-----------------------------------------------------------------------------
(* What a step does to the rows and the claims *)

\* Every step of a tick but a granted claim leaves rows and claims alone.
LEMMA TickRows ==
  ASSUME NEW d \in Dispatchers, Tick(d)
  PROVE  /\ deleted' = deleted
         /\ UNCHANGED <<row, granted>> \/ \E s \in Schedules : Advance(d, s)
<1>1. CASE List(d) \/ Dispatch(d) \/ Fire(d) \/ FireFails(d)
  BY <1>1 DEF List, Dispatch, Fire, FireFails, tables, history
<1>2. CASE \E s \in Schedules : TryClaim(d, s) \/ ClaimRefused(d, s) \/ ClaimFails(d, s)
  BY <1>2 DEF TryClaim, ClaimRefused, ClaimFails, tables, history
<1>3. CASE EndTick(d) \/ ListFails(d) \/ Crash(d)
  BY <1>3 DEF EndTick, ListFails, Crash, End, tables
<1> QED BY <1>1, <1>2, <1>3 DEF Tick

LEMMA RowCases ==
  ASSUME [Next]_vars
  PROVE  \/ UNCHANGED <<row, granted, deleted>>
         \/ deleted' = deleted /\ \E d \in Dispatchers, s \in Schedules : Advance(d, s)
         \/ UNCHANGED granted /\ \E s \in Schedules : Create(s) \/ Delete(s)
<1>1. CASE \E d \in Loops : BeginLoop(d)
  BY <1>1 DEF BeginLoop, tables, history
<1>2. CASE \E d \in Requests : TickNow(d) \/ BeginRequest(d)
  BY <1>2 DEF TickNow, BeginRequest, tables, history
<1>3. CASE \E d \in Dispatchers : Tick(d)
  BY <1>3, TickRows
<1>4. CASE \E s \in Schedules : Create(s) \/ Delete(s)
  BY <1>4 DEF Create, Delete, history
<1>5. CASE DeleteWorkflow \/ Pass \/ UNCHANGED vars
  BY <1>5 DEF DeleteWorkflow, Pass, vars, tables, history
<1> QED BY <1>1, <1>2, <1>3, <1>4, <1>5 DEF Next

LEMMA RowSteps ==
  ASSUME TypeOK, [Next]_vars
  PROVE  \A x \in Schedules : RowStep(row[x], row'[x])
BY RowCases, RowKept, AdvanceRow, ScheduleStep

LEMMA RecreatedStep ==
  ASSUME TypeOK, Recreated, [Next]_vars
  PROVE  Recreated'
<1>1. CASE UNCHANGED <<row, granted, deleted>>
  BY <1>1 DEF Recreated
<1>2. CASE deleted' = deleted /\ \E d \in Dispatchers, s \in Schedules : Advance(d, s)
  BY <1>2, AdvanceRow DEF Recreated
<1>3. ASSUME NEW s \in Schedules, Create(s)
      PROVE  Recreated'
  <2>1. \A x \in Schedules : row[x].times \in Nat /\ deleted \in Nat /\ deleted' = deleted
    BY <1>3 DEF TypeOK, RowRecord, Create
  <2>2. \A x \in Schedules \ {s} : row'[x] = row[x]
    BY <1>3 DEF Create, TypeOK
  <2>3. row'[s].times = row[s].times + 1 /\ row'[s].exists
    BY <1>3 DEF Create, TypeOK
  <2>4. row[s].times < deleted
    BY <1>3 DEF Create, Recreated
  <2> QED BY <2>1, <2>2, <2>3, <2>4 DEF Recreated
<1>4. ASSUME NEW s \in Schedules, Delete(s)
      PROVE  Recreated'
  <2>1. \A x \in Schedules : row[x].times \in Nat
    BY DEF TypeOK, RowRecord
  <2>2. deleted \in Nat /\ deleted' = deleted + 1
    BY <1>4 DEF TypeOK, Delete
  <2>3. \A x \in Schedules : row'[x].times = row[x].times
    BY <1>4 DEF Delete, TypeOK, RowRecord
  <2> QED BY <2>1, <2>2, <2>3 DEF Recreated
<1> QED BY <1>1, <1>2, <1>3, <1>4, RowCases

LEMMA ReflectedStays ==
  ASSUME TypeOK, TypeOK', NEW c \in Claims, Reflected(c),
         RowStep(row[c[1]], row'[c[1]])
  PROVE  Reflected(c)'
<1>1. c[1] \in Schedules /\ c[2] \in Nat /\ c[3] \in Nat
  BY ClaimParts
<1>2. row[c[1]] \in RowRecord /\ row'[c[1]] \in RowRecord
  BY <1>1 DEF TypeOK
<1>3. /\ row[c[1]].times \in Nat /\ row'[c[1]].times \in Nat
      /\ row[c[1]].lastFired \in Int /\ row'[c[1]].lastFired \in Int
  BY <1>2, SameRow
<1> QED BY <1>1, <1>3 DEF Reflected, RowStep

\* The claim of an advance was never granted: what was is behind the row.
LEMMA AdvanceIsNew ==
  ASSUME TypeOK, Granted, NEW d \in Dispatchers, NEW s \in Schedules, Advance(d, s)
  PROVE  /\ granted[Claim(d, s)] = 0
         /\ granted' = [granted EXCEPT ![Claim(d, s)] = 1]
<1> DEFINE c == Claim(d, s)
<1>1. c \in Claims /\ c[1] = s /\ c[2] = row[s].times /\ c[3] = tick[d].cutoff
  BY ClaimType
<1>2. row[s].lastFired < tick[d].cutoff
  BY AdvanceRow
<1>3. tick[d].cutoff \in Int /\ row[s].lastFired \in Int /\ row[s].times \in Nat
  BY TickParts, SameRow DEF TypeOK
<1>4. ~Reflected(c)
  BY <1>1, <1>2, <1>3 DEF Reflected
<1>5. granted[c] = 0
  BY <1>1, <1>4 DEF Granted
<1>6. granted' = [granted EXCEPT ![c] = granted[c] + 1]
  BY DEF Advance
<1> QED BY <1>5, <1>6

LEMMA AdvanceGrants ==
  ASSUME TypeOK, Granted, NEW d \in Dispatchers, NEW s \in Schedules, Advance(d, s)
  PROVE  /\ Claim(d, s) \in Claims /\ granted'[Claim(d, s)] = 1
         /\ \A c \in Claims \ {Claim(d, s)} : granted'[c] = granted[c]
<1>1. granted \in [Claims -> Nat]
  BY DEF TypeOK
<1>2. Claim(d, s) \in Claims
  BY ClaimType
<1> QED BY <1>1, <1>2, AdvanceIsNew

LEMMA GrantedStep ==
  ASSUME TypeOK, TypeOK', Granted, [Next]_vars
  PROVE  Granted'
<1>1. \A c \in Claims : Reflected(c) => Reflected(c)'
  BY RowSteps, ReflectedStays, ClaimParts
<1>2. CASE UNCHANGED granted
  BY <1>1, <1>2 DEF Granted
<1>3. ASSUME NEW d \in Dispatchers, NEW s \in Schedules, Advance(d, s)
      PROVE  Granted'
  <2> SUFFICES ASSUME NEW c \in Claims, granted'[c] # 0
               PROVE  granted'[c] = 1 /\ Reflected(c)'
    BY DEF Granted
  <2>2. CASE c = Claim(d, s)
    <3>1. c[1] = s /\ c[2] = row[s].times /\ c[3] = tick[d].cutoff /\ c[3] \in Nat
      BY <2>2, ClaimType, TickParts
    <3>2. row'[s].times = row[s].times /\ row'[s].lastFired = tick[d].cutoff
      BY <1>3, AdvanceRow
    <3>3. Reflected(c)'
      BY <3>1, <3>2 DEF Reflected
    <3> QED BY <1>3, <2>2, <3>3, AdvanceGrants
  <2>3. CASE c # Claim(d, s)
    <3>1. granted'[c] = granted[c]
      BY <1>3, <2>3, AdvanceGrants
    <3> QED BY <1>1, <3>1 DEF Granted
  <2> QED BY <2>2, <2>3
<1> QED BY <1>2, <1>3, RowCases

-----------------------------------------------------------------------------
(* What a step does to a tick *)

\* A tick begins or ends, reads its list, finds what is due, or goes on with it.
Begins(t) == t.listed = {} /\ t.pc \in {"idle", "listing"}
Reads(t) == t.listed = Rows /\ t.pc = "listed"
Finds(old, t) ==
  /\ t.listed = Rows \/ t.listed = old.listed
  /\ t.pc = "claiming"
  /\ t.todo = DueAt(t.listed, t.cutoff)
GoesOn(d) ==
  /\ tick[d].pc \in {"claiming", "firing"}
  /\ tick'[d].listed = tick[d].listed
  /\ tick'[d].cutoff = tick[d].cutoff
  /\ tick'[d].pc = "firing" => tick'[d].firing[3] = tick[d].cutoff
  /\ \A e \in tick[d].listed : e[1] \in tick[d].todo => e[1] \in tick'[d].todo \/ Done(d, e)'

TickStep(d) ==
  /\ \A x \in Dispatchers \ {d} : tick'[x] = tick[x]
  /\ Begins(tick'[d]) \/ Reads(tick'[d]) \/ Finds(tick[d], tick'[d]) \/ GoesOn(d)

LEMMA TryClaimStep ==
  ASSUME TypeOK, NEW d \in Dispatchers, NEW s \in Schedules, TryClaim(d, s)
  PROVE  TickStep(d)
<1>1. /\ tick'[d].listed = tick[d].listed /\ tick'[d].cutoff = tick[d].cutoff
      /\ tick'[d].todo = tick[d].todo \ {s} /\ tick'[d].firing = Claim(d, s)
      /\ tick[d].pc = "claiming"
  BY TickParts DEF TryClaim, TypeOK, TickRecord
<1>2. \A x \in Dispatchers \ {d} : tick'[x] = tick[x]
  BY DEF TryClaim, TypeOK
<1>3. row'[s].lastFired = tick[d].cutoff /\ tick[d].cutoff \in Nat
  BY AdvanceRow, TickParts DEF TryClaim
<1>4. ASSUME NEW e \in tick[d].listed, e[1] \in tick[d].todo, e[1] \notin tick'[d].todo
      PROVE  Done(d, e)'
  <2>1. e[1] = s
    BY <1>1, <1>4
  <2> QED BY <1>1, <1>3, <2>1 DEF Done
<1>5. GoesOn(d)
  BY <1>1, <1>4, ClaimType DEF GoesOn
<1> QED BY <1>2, <1>5 DEF TickStep

LEMMA ClaimRefusedStep ==
  ASSUME TypeOK, NEW d \in Dispatchers, NEW s \in Schedules, ClaimRefused(d, s)
  PROVE  TickStep(d)
<1>1. /\ tick'[d].listed = tick[d].listed /\ tick'[d].cutoff = tick[d].cutoff
      /\ tick'[d].todo = tick[d].todo \ {s} /\ tick'[d].pc = "claiming"
      /\ tick[d].pc = "claiming"
  BY TickParts DEF ClaimRefused, TypeOK, TickRecord
<1>2. \A x \in Dispatchers \ {d} : tick'[x] = tick[x]
  BY DEF ClaimRefused, TypeOK
<1>3. /\ row' = row /\ lost' = lost
      /\ ~row[s].exists \/ ~(row[s].lastFired < tick[d].cutoff)
  BY DEF ClaimRefused, Claimable, tables, history
<1>4. row[s].lastFired \in Int /\ tick[d].cutoff \in Nat
  BY SameRow, TickParts DEF TypeOK
<1>5. ASSUME NEW e \in tick[d].listed, e[1] \in tick[d].todo, e[1] \notin tick'[d].todo
      PROVE  Done(d, e)'
  <2>1. e[1] = s
    BY <1>1, <1>5
  <2> QED BY <1>1, <1>3, <1>4, <2>1 DEF Done
<1>6. GoesOn(d)
  BY <1>1, <1>5 DEF GoesOn
<1> QED BY <1>2, <1>6 DEF TickStep

LEMMA ClaimFailsStep ==
  ASSUME TypeOK, NEW d \in Dispatchers, NEW s \in Schedules, ClaimFails(d, s)
  PROVE  TickStep(d)
<1>1. /\ tick'[d].listed = tick[d].listed /\ tick'[d].cutoff = tick[d].cutoff
      /\ tick'[d].todo = tick[d].todo \ {s} /\ tick'[d].pc = "claiming"
      /\ tick[d].pc = "claiming"
  BY TickParts DEF ClaimFails, TypeOK, TickRecord
<1>2. \A x \in Dispatchers \ {d} : tick'[x] = tick[x]
  BY DEF ClaimFails, TypeOK
<1>3. row'[s].times = row[s].times /\ <<s, row[s].times, tick[d].cutoff>> \in lost'
  BY AdvanceRow DEF ClaimFails, Claim
<1>4. ASSUME NEW e \in tick[d].listed, e[1] \in tick[d].todo, e[1] \notin tick'[d].todo
      PROVE  Done(d, e)'
  <2>1. e[1] = s
    BY <1>1, <1>4
  <2> QED BY <1>1, <1>3, <2>1 DEF Done
<1>5. GoesOn(d)
  BY <1>1, <1>4 DEF GoesOn
<1> QED BY <1>2, <1>5 DEF TickStep

LEMMA FiredStep ==
  ASSUME TypeOK, NEW d \in Dispatchers, Fire(d) \/ FireFails(d)
  PROVE  TickStep(d)
<1>1. tick' = [tick EXCEPT ![d] = AfterFailure(d)] /\ tick[d].pc = "firing"
  BY DEF Fire, FireFails, AfterFailure
<1>2. tick'[d] = AfterFailure(d) /\ \A x \in Dispatchers \ {d} : tick'[x] = tick[x]
  BY <1>1 DEF TypeOK
<1>3. /\ tick'[d].listed = tick[d].listed /\ tick'[d].cutoff = tick[d].cutoff
      /\ tick'[d].todo = tick[d].todo /\ tick'[d].pc = "claiming"
  BY <1>2, TickParts DEF AfterFailure, TickRecord
<1>4. GoesOn(d)
  BY <1>1, <1>3 DEF GoesOn
<1> QED BY <1>2, <1>4 DEF TickStep

LEMMA OverStep ==
  ASSUME TypeOK, NEW d \in Dispatchers, EndTick(d) \/ ListFails(d) \/ Crash(d)
  PROVE  TickStep(d)
<1>1. tick' = [tick EXCEPT ![d] = NoTick]
  BY DEF EndTick, ListFails, End, Crash
<1> QED BY <1>1 DEF TickStep, Begins, NoTick, TypeOK

LEMMA ListStep ==
  ASSUME TypeOK, NEW d \in Dispatchers, List(d) \/ Dispatch(d)
  PROVE  TickStep(d)
<1>1. \A x \in Dispatchers \ {d} : tick'[x] = tick[x]
  BY DEF List, Dispatch, TypeOK
<1>2. tick[d] \in TickRecord
  BY TickParts
<1>3. CASE List(d)
  <2>1. tick'[d] = [tick[d] EXCEPT !.pc = "claiming", !.listed = Rows,
                                   !.todo = DueAt(Rows, tick[d].cutoff)]
    BY <1>3 DEF List, TypeOK
  <2>2. Finds(tick[d], tick'[d])
    BY <1>2, <2>1 DEF Finds, TickRecord
  <2> QED BY <1>1, <2>2 DEF TickStep
<1>4. CASE Dispatch(d)
  <2>1. tick'[d] = [tick[d] EXCEPT !.pc = "claiming", !.cutoff = Minute(now),
                                   !.todo = DueAt(tick[d].listed, Minute(now))]
    BY <1>4 DEF Dispatch, TypeOK
  <2>2. Finds(tick[d], tick'[d])
    BY <1>2, <2>1 DEF Finds, TickRecord
  <2> QED BY <1>1, <2>2 DEF TickStep
<1> QED BY <1>3, <1>4

LEMMA BeginStep ==
  ASSUME TypeOK, NEW d \in Dispatchers, BeginLoop(d) \/ TickNow(d) \/ BeginRequest(d)
  PROVE  TickStep(d)
<1>1. \A x \in Dispatchers \ {d} : tick'[x] = tick[x]
  BY DEF BeginLoop, TickNow, BeginRequest, TypeOK
<1>2. Begins(tick'[d]) \/ Reads(tick'[d])
  BY DEF BeginLoop, TickNow, BeginRequest, Begins, Reads, NoTick, TypeOK
<1> QED BY <1>1, <1>2 DEF TickStep

LEMMA TickCases ==
  ASSUME TypeOK, [Next]_vars
  PROVE  UNCHANGED tick \/ \E d \in Dispatchers : TickStep(d)
<1>1. CASE \E d \in Loops : BeginLoop(d)
  BY <1>1, BeginStep DEF Dispatchers
<1>2. CASE \E d \in Requests : TickNow(d) \/ BeginRequest(d)
  BY <1>2, BeginStep DEF Dispatchers
<1>3. CASE \E d \in Dispatchers : Tick(d)
  BY <1>3, TryClaimStep, ClaimRefusedStep, ClaimFailsStep, FiredStep, OverStep, ListStep DEF Tick
<1>4. CASE \E s \in Schedules : Create(s) \/ Delete(s)
  BY <1>4 DEF Create, Delete
<1>5. CASE DeleteWorkflow \/ Pass \/ UNCHANGED vars
  BY <1>5 DEF DeleteWorkflow, Pass, vars
<1> QED BY <1>1, <1>2, <1>3, <1>4, <1>5 DEF Next

LEMMA FiringStep ==
  ASSUME TypeOK, FiringIsClaim, [Next]_vars
  PROVE  FiringIsClaim'
<1>1. ASSUME NEW d \in Dispatchers, TickStep(d)
      PROVE  FiringIsClaim'
  BY <1>1 DEF FiringIsClaim, TickStep, Begins, Reads, Finds, GoesOn
<1> QED BY <1>1, TickCases DEF FiringIsClaim

\* What was listed stays behind the rows: they are created anew only.
LEMMA ListedStep ==
  ASSUME TypeOK, TypeOK', ListedBefore, [Next]_vars
  PROVE  ListedBefore'
<1>1. \A x \in Schedules : /\ row[x].times \in Nat /\ row'[x].times \in Nat
                           /\ row[x].times <= row'[x].times
  <2>1. \A x \in Schedules : row[x] \in RowRecord /\ row'[x] \in RowRecord
    BY DEF TypeOK
  <2> QED BY <2>1, RowSteps, SameRow DEF RowStep
<1>2. \A d \in Dispatchers : \A e \in tick[d].listed :
        e[1] \in Schedules /\ e[2] \in Nat /\ e[2] <= row'[e[1]].times
  BY <1>1, TickParts DEF ListedBefore
<1>3. CASE UNCHANGED tick
  BY <1>2, <1>3 DEF ListedBefore
<1>4. ASSUME NEW d \in Dispatchers, TickStep(d)
      PROVE  ListedBefore'
  <2>1. tick'[d].listed \in {{}, Rows, tick[d].listed}
    BY <1>4 DEF TickStep, Begins, Reads, Finds, GoesOn
  <2>2. \A e \in Rows : e[2] <= row'[e[1]].times
    BY <1>1 DEF Rows
  <2>3. \A e \in tick'[d].listed : e[2] <= row'[e[1]].times
    BY <1>2, <2>1, <2>2
  <2> QED BY <1>2, <1>4, <2>3 DEF ListedBefore, TickStep
<1> QED BY <1>3, <1>4, TickCases

\* A run is created by a tick that fires, and that goes on then.
LEMMA RunsCases ==
  ASSUME TypeOK, [Next]_vars
  PROVE  \/ UNCHANGED runs
         \/ \E d \in Dispatchers :
              /\ tick[d].pc = "firing" /\ CreateRun(d)
              /\ tick' = [tick EXCEPT ![d] = AfterFailure(d)] /\ UNCHANGED granted
<1>1. CASE \E d \in Loops : BeginLoop(d)
  BY <1>1 DEF BeginLoop, tables
<1>2. CASE \E d \in Requests : TickNow(d) \/ BeginRequest(d)
  BY <1>2 DEF TickNow, BeginRequest, tables
<1>3. ASSUME NEW d \in Dispatchers, Tick(d)
      PROVE  UNCHANGED runs \/ /\ tick[d].pc = "firing" /\ CreateRun(d)
                               /\ tick' = [tick EXCEPT ![d] = AfterFailure(d)]
                               /\ UNCHANGED granted
  <2>1. CASE Fire(d) \/ FireFails(d)
    BY <2>1 DEF Fire, FireFails, AfterFailure, history
  <2>2. CASE List(d) \/ Dispatch(d) \/ EndTick(d) \/ ListFails(d) \/ Crash(d)
    BY <2>2 DEF List, Dispatch, EndTick, ListFails, Crash, End, tables
  <2>3. CASE \E s \in Schedules : TryClaim(d, s) \/ ClaimRefused(d, s) \/ ClaimFails(d, s)
    BY <2>3 DEF TryClaim, ClaimRefused, ClaimFails, tables
  <2> QED BY <1>3, <2>1, <2>2, <2>3 DEF Tick
<1>4. CASE \E s \in Schedules : Create(s) \/ Delete(s)
  BY <1>4 DEF Create, Delete
<1>5. CASE DeleteWorkflow \/ Pass \/ UNCHANGED vars
  BY <1>5 DEF DeleteWorkflow, Pass, vars, tables
<1> QED BY <1>1, <1>2, <1>3, <1>4, <1>5 DEF Next

\* The runs of before, and behind them at most the new one of a tick whose key is
\* not found.
LEMMA CreatedRuns ==
  ASSUME TypeOK, NEW d \in Dispatchers, tick[d].pc = "firing", CreateRun(d)
  PROVE  \/ runs' = runs /\ \E i \in DOMAIN runs : runs[i].key = Key(d)
         \/ /\ DOMAIN runs = 1 .. Len(runs) /\ DOMAIN runs' = 1 .. Len(runs) + 1
            /\ Len(runs) \in Nat
            /\ \A i \in DOMAIN runs : runs'[i] = runs[i]
            /\ runs'[Len(runs) + 1] = NewRun(d)
            /\ \A i \in DOMAIN runs : runs[i].key = Key(d) => now - runs[i].at > KeyLife
<1>1. runs \in Seq(RunRecord) /\ NewRun(d) \in RunRecord
  BY NewRunType DEF TypeOK
<1>2. \A i \in DOMAIN runs : runs[i] \in RunRecord
  BY <1>1
<1>3. \A i \in DOMAIN runs : runs[i].at \in Nat /\ now \in Nat
  BY <1>2, DispatchAssumption DEF RunRecord, TypeOK
<1>4. CASE \E i \in DOMAIN runs : runs[i].key = Key(d) /\ now - runs[i].at <= KeyLife
  BY <1>4 DEF CreateRun
<1>5. CASE ~\E i \in DOMAIN runs : runs[i].key = Key(d) /\ now - runs[i].at <= KeyLife
  <2>1. runs' = Append(runs, NewRun(d))
    BY <1>5 DEF CreateRun
  <2>2. /\ DOMAIN runs = 1 .. Len(runs) /\ DOMAIN runs' = 1 .. Len(runs) + 1
        /\ Len(runs) \in Nat
        /\ \A i \in DOMAIN runs : runs'[i] = runs[i]
        /\ runs'[Len(runs) + 1] = NewRun(d)
    BY <1>1, <2>1
  <2>3. \A i \in DOMAIN runs : runs[i].key = Key(d) => now - runs[i].at > KeyLife
    BY <1>3, <1>5, DispatchAssumption
  <2> QED BY <2>2, <2>3
<1> QED BY <1>4, <1>5

LEMMA RunsKept ==
  ASSUME TypeOK, [Next]_vars
  PROVE  \A i \in DOMAIN runs : i \in DOMAIN runs' /\ runs'[i] = runs[i]
<1>1. ASSUME NEW d \in Dispatchers, tick[d].pc = "firing", CreateRun(d)
      PROVE  \A i \in DOMAIN runs : i \in DOMAIN runs' /\ runs'[i] = runs[i]
  BY <1>1, CreatedRuns
<1> QED BY <1>1, RunsCases

LEMMA LostGrows ==
  ASSUME [Next]_vars
  PROVE  lost \subseteq lost'
<1>1. CASE \E d \in Loops : BeginLoop(d)
  BY <1>1 DEF BeginLoop, history
<1>2. CASE \E d \in Requests : TickNow(d) \/ BeginRequest(d)
  BY <1>2 DEF TickNow, BeginRequest, history
<1>3. CASE \E d \in Dispatchers : Tick(d)
  BY <1>3 DEF Tick, List, Dispatch, Fire, FireFails, TryClaim, ClaimRefused, ClaimFails,
              EndTick, ListFails, Crash, End, history
<1>4. CASE \E s \in Schedules : Create(s) \/ Delete(s)
  BY <1>4 DEF Create, Delete, history
<1>5. CASE DeleteWorkflow \/ Pass \/ UNCHANGED vars
  BY <1>5 DEF DeleteWorkflow, Pass, vars, history
<1> QED BY <1>1, <1>2, <1>3, <1>4, <1>5 DEF Next

LEMMA DoneStays ==
  ASSUME TypeOK, TypeOK', ListedBefore, [Next]_vars,
         NEW d \in Dispatchers, NEW e \in tick[d].listed,
         tick'[d].cutoff = tick[d].cutoff, Done(d, e)
  PROVE  Done(d, e)'
<1>1. e[1] \in Schedules /\ e[2] \in Nat /\ e[2] <= row[e[1]].times
  BY TickParts DEF ListedBefore
<1>2. RowStep(row[e[1]], row'[e[1]])
  BY <1>1, RowSteps
<1>3. /\ row[e[1]].times \in Nat /\ row'[e[1]].times \in Nat
      /\ row[e[1]].lastFired \in Int /\ row'[e[1]].lastFired \in Int
      /\ tick[d].cutoff \in Nat
  BY <1>1, SameRow, TickParts DEF TypeOK
<1>4. CASE row'[e[1]].times = row[e[1]].times + 1
  BY <1>1, <1>3, <1>4 DEF Done
<1>5. CASE /\ row'[e[1]].times = row[e[1]].times
           /\ row'[e[1]].lastFired >= row[e[1]].lastFired
           /\ row'[e[1]].exists => row[e[1]].exists
  BY <1>1, <1>3, <1>5, LostGrows DEF Done
<1> QED BY <1>2, <1>4, <1>5 DEF RowStep

LEMMA TodoStep ==
  ASSUME TypeOK, TypeOK', ListedBefore, TodoIsComplete, [Next]_vars
  PROVE  TodoIsComplete'
<1> SUFFICES ASSUME NEW x \in Dispatchers, tick'[x].pc \in {"claiming", "firing"},
                    NEW e \in tick'[x].listed, tick'[x].cutoff \in Due[e[1]]
             PROVE  e[1] \in tick'[x].todo \/ Done(x, e)'
  BY DEF TodoIsComplete
<1>1. CASE tick'[x] = tick[x]
  BY <1>1, DoneStays DEF TodoIsComplete
<1>2. CASE Finds(tick[x], tick'[x])
  <2>1. e \in tick[x].listed \/ e \in Rows
    BY <1>2 DEF Finds
  <2>2. e[1] \in Schedules
    BY <2>1, TickParts, RowsType
  <2> QED BY <1>2, <2>2 DEF Finds, DueAt
<1>3. CASE GoesOn(x)
  <2>1. e \in tick[x].listed /\ tick'[x].cutoff = tick[x].cutoff
    BY <1>3 DEF GoesOn
  <2>2. e[1] \in tick[x].todo \/ Done(x, e)
    BY <1>3, <2>1 DEF GoesOn, TodoIsComplete
  <2> QED BY <1>3, <2>1, <2>2, DoneStays DEF GoesOn
<1>4. ~Begins(tick'[x]) /\ ~Reads(tick'[x])
  BY DEF Begins, Reads
<1> QED BY <1>1, <1>2, <1>3, <1>4, TickCases DEF TickStep

-----------------------------------------------------------------------------
(* Runs and claims *)

LEMMA KeyIsCutoff ==
  ASSUME FiringIsClaim, NEW d \in Dispatchers, tick[d].pc = "firing"
  PROVE  Key(d) = CutoffOf(tick[d].firing)
BY DEF FiringIsClaim, Key, CutoffOf

LEMMA KeysStep ==
  ASSUME TypeOK, FiringIsClaim, KeysAreCutoffs, [Next]_vars
  PROVE  KeysAreCutoffs'
<1>1. ASSUME NEW d \in Dispatchers, tick[d].pc = "firing", CreateRun(d)
      PROVE  KeysAreCutoffs'
  <2>1. NewRun(d).key = CutoffOf(NewRun(d).claim)
    BY <1>1, NewRunType, KeyIsCutoff
  <2>2. CASE runs' = runs
    BY <2>2 DEF KeysAreCutoffs
  <2>3. CASE /\ DOMAIN runs = 1 .. Len(runs) /\ DOMAIN runs' = 1 .. Len(runs) + 1
             /\ Len(runs) \in Nat
             /\ \A i \in DOMAIN runs : runs'[i] = runs[i]
             /\ runs'[Len(runs) + 1] = NewRun(d)
    <3>1. ASSUME NEW i \in DOMAIN runs'
          PROVE  runs'[i].key = CutoffOf(runs'[i].claim)
      <4>1. CASE i \in DOMAIN runs
        BY <2>3, <4>1 DEF KeysAreCutoffs
      <4>2. CASE i = Len(runs) + 1
        BY <2>1, <2>3, <4>2
      <4> QED BY <2>3, <3>1, <4>1, <4>2
    <3> QED BY <3>1 DEF KeysAreCutoffs
  <2> QED BY <1>1, <2>2, <2>3, CreatedRuns
<1> QED BY <1>1, RunsCases DEF KeysAreCutoffs

\* Who fires after a step has fired before it, or has just claimed.
LEMMA NowFiring ==
  ASSUME TypeOK, [Next]_vars, NEW x \in Dispatchers, tick'[x].pc = "firing"
  PROVE  \/ tick[x].pc = "firing" /\ tick'[x] = tick[x]
         \/ \E s \in Schedules : TryClaim(x, s)
<1>0. tick \in [Dispatchers -> TickRecord]
  BY DEF TypeOK
<1>1. ASSUME NEW d \in Dispatchers, tick'[d].pc # "firing",
             \A y \in Dispatchers \ {d} : tick'[y] = tick[y]
      PROVE  tick[x].pc = "firing" /\ tick'[x] = tick[x]
  BY <1>1
<1>2. CASE \E d \in Loops : BeginLoop(d)
  BY <1>0, <1>1, <1>2 DEF BeginLoop, NoTick, Dispatchers
<1>3. CASE \E d \in Requests : TickNow(d) \/ BeginRequest(d)
  <2>1. PICK d \in Requests : TickNow(d) \/ BeginRequest(d)
    BY <1>3
  <2>2. d \in Dispatchers /\ \A y \in Dispatchers \ {d} : tick'[y] = tick[y]
    BY <1>0, <2>1 DEF TickNow, BeginRequest, Dispatchers
  <2>3. tick'[d].pc # "firing"
    BY <1>0, <2>1, <2>2 DEF TickNow, BeginRequest, NoTick
  <2> QED BY <1>1, <2>2, <2>3
<1>4. ASSUME NEW d \in Dispatchers, Tick(d)
      PROVE  \/ tick[x].pc = "firing" /\ tick'[x] = tick[x]
             \/ \E s \in Schedules : TryClaim(x, s)
  <2>1. CASE List(d) \/ Dispatch(d)
    <3>1. \A y \in Dispatchers \ {d} : tick'[y] = tick[y]
      BY <1>0, <2>1 DEF List, Dispatch
    <3>2. CASE List(d)
      <4>1. tick'[d] = [tick[d] EXCEPT !.pc = "claiming", !.listed = Rows,
                                       !.todo = DueAt(Rows, tick[d].cutoff)]
        BY <1>0, <3>2 DEF List
      <4> QED BY <1>1, <3>1, <4>1, TickParts DEF TickRecord
    <3>3. CASE Dispatch(d)
      <4>1. tick'[d] = [tick[d] EXCEPT !.pc = "claiming", !.cutoff = Minute(now),
                                       !.todo = DueAt(tick[d].listed, Minute(now))]
        BY <1>0, <3>3 DEF Dispatch
      <4> QED BY <1>1, <3>1, <4>1, TickParts DEF TickRecord
    <3> QED BY <2>1, <3>2, <3>3
  <2>2. CASE Fire(d) \/ FireFails(d)
    <3>1. \A y \in Dispatchers \ {d} : tick'[y] = tick[y]
      BY <1>0, <2>2 DEF Fire, FireFails, AfterFailure
    <3>2. tick' = [tick EXCEPT ![d] = AfterFailure(d)]
      BY <2>2 DEF Fire, FireFails, AfterFailure
    <3>3. tick'[d].pc # "firing"
      BY <1>0, <3>2, TickParts DEF AfterFailure, TickRecord
    <3> QED BY <1>1, <3>1, <3>3
  <2>3. CASE \E s \in Schedules : ClaimRefused(d, s) \/ ClaimFails(d, s)
    <3>1. \A y \in Dispatchers \ {d} : tick'[y] = tick[y]
      BY <1>0, <2>3 DEF ClaimRefused, ClaimFails
    <3>2. tick'[d].pc # "firing"
      BY <1>0, <2>3 DEF ClaimRefused, ClaimFails, TickRecord
    <3> QED BY <1>1, <3>1, <3>2
  <2>4. CASE EndTick(d) \/ ListFails(d) \/ Crash(d)
    BY <1>0, <1>1, <2>4 DEF EndTick, ListFails, End, Crash, NoTick
  <2>5. ASSUME NEW s \in Schedules, TryClaim(d, s)
        PROVE  \/ tick[x].pc = "firing" /\ tick'[x] = tick[x]
               \/ \E y \in Schedules : TryClaim(x, y)
    <3>1. CASE x = d
      BY <2>5, <3>1
    <3>2. CASE x # d
      BY <2>5, <3>2 DEF TryClaim, TypeOK
    <3> QED BY <3>1, <3>2
  <2> QED BY <1>4, <2>1, <2>2, <2>3, <2>4, <2>5 DEF Tick
<1>5. CASE \E s \in Schedules : Create(s) \/ Delete(s)
  BY <1>5 DEF Create, Delete
<1>6. CASE DeleteWorkflow \/ Pass \/ UNCHANGED vars
  BY <1>6 DEF DeleteWorkflow, Pass, vars
<1> QED BY <1>2, <1>3, <1>4, <1>5, <1>6 DEF Next

LEMMA GrantsGrow ==
  ASSUME TypeOK, Granted, [Next]_vars, NEW c \in Claims, granted[c] # 0
  PROVE  granted'[c] # 0
<1>1. ASSUME NEW d \in Dispatchers, NEW s \in Schedules, Advance(d, s)
      PROVE  granted'[c] # 0
  BY <1>1, AdvanceGrants
<1> QED BY <1>1, RowCases

LEMMA ClaimsOfRuns ==
  ASSUME TypeOK, NEW i \in DOMAIN runs
  PROVE  runs[i].claim \in Claims /\ runs[i].at \in Nat /\ runs[i].at \in 0 .. MaxTime
<1>1. runs[i] \in RunRecord
  BY DEF TypeOK
<1> QED BY <1>1, DispatchAssumption DEF RunRecord

\* A claim that is granted now was nobody's.
LEMMA TryClaimUses ==
  ASSUME TypeOK, Granted, ClaimsAreUsedOnce, [Next]_vars,
         NEW d \in Dispatchers, NEW s \in Schedules, TryClaim(d, s)
  PROVE  ClaimsAreUsedOnce'
<1> DEFINE c == Claim(d, s)
<1>1. /\ c \in Claims /\ granted[c] = 0 /\ granted' = [granted EXCEPT ![c] = 1]
  BY AdvanceIsNew, ClaimType DEF TryClaim
<1>2. granted'[c] # 0 /\ \A e \in Claims : granted[e] # 0 => granted'[e] # 0
  BY <1>1 DEF TypeOK
<1>3. runs' = runs
  BY DEF TryClaim
<1>4. /\ tick'[d].pc = "firing" /\ tick'[d].firing = c
      /\ \A x \in Dispatchers \ {d} : tick'[x] = tick[x]
  BY TickParts DEF TryClaim, TypeOK, TickRecord
<1>5. \A i \in DOMAIN runs : runs[i].claim \in Claims /\ granted[runs[i].claim] # 0
  BY ClaimsOfRuns DEF ClaimsAreUsedOnce
<1>6. \A x \in Dispatchers \ {d} : tick'[x].pc = "firing" =>
        /\ tick[x].firing \in Claims /\ granted[tick[x].firing] # 0
        /\ tick[x].firing # c
        /\ \A i \in DOMAIN runs : runs[i].claim # tick[x].firing
  BY <1>1, <1>4, TickParts DEF ClaimsAreUsedOnce
<1>7. \A i \in DOMAIN runs : runs[i].claim # c
  BY <1>1, <1>5
<1>8. \A i \in DOMAIN runs' : granted'[runs'[i].claim] # 0
  BY <1>2, <1>3, <1>5
<1>9. ASSUME NEW x \in Dispatchers, tick'[x].pc = "firing"
      PROVE  /\ granted'[tick'[x].firing] # 0
             /\ \A i \in DOMAIN runs' : runs'[i].claim # tick'[x].firing
             /\ \A y \in Dispatchers \ {x} : tick'[y].pc = "firing" =>
                  tick'[y].firing # tick'[x].firing
  <2>1. CASE x = d
    BY <1>2, <1>3, <1>4, <1>6, <1>7, <2>1
  <2>2. CASE x # d
    <3>1. tick'[x] = tick[x] /\ tick[x].pc = "firing"
      BY <1>4, <1>9, <2>2
    <3>2. \A y \in Dispatchers \ {x} : tick'[y].pc = "firing" => tick'[y].firing # tick[x].firing
      BY <1>4, <1>6, <1>9, <2>2, <3>1 DEF ClaimsAreUsedOnce
    <3> QED BY <1>2, <1>3, <1>6, <1>9, <2>2, <3>1, <3>2
  <2> QED BY <2>1, <2>2
<1> QED BY <1>8, <1>9 DEF ClaimsAreUsedOnce

LEMMA ClaimsUsedStep ==
  ASSUME TypeOK, Granted, ClaimsAreUsedOnce, [Next]_vars
  PROVE  ClaimsAreUsedOnce'
<1>1. CASE \E d \in Dispatchers, s \in Schedules : TryClaim(d, s)
  BY <1>1, TryClaimUses
<1>2. CASE ~\E d \in Dispatchers, s \in Schedules : TryClaim(d, s)
  <2>1. \A x \in Dispatchers : tick'[x].pc = "firing" =>
          /\ tick[x].pc = "firing" /\ tick'[x] = tick[x] /\ tick[x].firing \in Claims
          /\ granted[tick[x].firing] # 0
    BY <1>2, NowFiring, TickParts DEF ClaimsAreUsedOnce
  <2>2. \A i \in DOMAIN runs : runs[i].claim \in Claims /\ granted[runs[i].claim] # 0
    BY ClaimsOfRuns DEF ClaimsAreUsedOnce
  <2>3. \A x \in Dispatchers : tick'[x].pc = "firing" =>
          /\ granted'[tick'[x].firing] # 0
          /\ \A y \in Dispatchers \ {x} : tick'[y].pc = "firing" =>
               tick'[y].firing # tick'[x].firing
    BY <2>1, GrantsGrow DEF ClaimsAreUsedOnce
  <2>4. CASE runs' = runs
    <3>1. \A i \in DOMAIN runs' : granted'[runs'[i].claim] # 0
      BY <2>2, <2>4, GrantsGrow
    <3>2. \A x \in Dispatchers : tick'[x].pc = "firing" =>
            \A i \in DOMAIN runs' : runs'[i].claim # tick'[x].firing
      BY <2>1, <2>4 DEF ClaimsAreUsedOnce
    <3> QED BY <2>3, <3>1, <3>2 DEF ClaimsAreUsedOnce
  <2>5. ASSUME NEW d \in Dispatchers, tick[d].pc = "firing", CreateRun(d),
               tick' = [tick EXCEPT ![d] = AfterFailure(d)]
        PROVE  ClaimsAreUsedOnce'
    <3>1. tick'[d].pc # "firing"
      BY <2>5, TickParts DEF AfterFailure, TypeOK, TickRecord
    <3>2. \A x \in Dispatchers : tick'[x].pc = "firing" => tick[x].firing # tick[d].firing
      BY <2>1, <2>5, <3>1 DEF ClaimsAreUsedOnce
    <3>3. granted[tick[d].firing] # 0 /\ tick[d].firing \in Claims
      BY <2>5, TickParts DEF ClaimsAreUsedOnce
    <3>4. \A i \in DOMAIN runs' :
            \/ i \in DOMAIN runs /\ runs'[i] = runs[i]
            \/ runs'[i].claim = tick[d].firing
      BY <2>5, CreatedRuns, NewRunType
    <3>5. \A i \in DOMAIN runs' : granted'[runs'[i].claim] # 0
      BY <2>2, <3>3, <3>4, GrantsGrow
    <3>6. \A x \in Dispatchers : tick'[x].pc = "firing" =>
            \A i \in DOMAIN runs' : runs'[i].claim # tick'[x].firing
      BY <2>1, <3>2, <3>4 DEF ClaimsAreUsedOnce
    <3> QED BY <2>3, <3>5, <3>6 DEF ClaimsAreUsedOnce
  <2> QED BY <2>4, <2>5, RunsCases
<1> QED BY <1>1, <1>2

\* A second run of a cutoff is of another claim, and its key was not found.
LEMMA OneRunStep ==
  ASSUME TypeOK, FiringIsClaim, KeysAreCutoffs, ClaimsAreUsedOnce, OneRunPerCutoff, [Next]_vars
  PROVE  OneRunPerCutoff'
<1>1. CASE runs' = runs
  BY <1>1 DEF OneRunPerCutoff
<1>2. ASSUME NEW d \in Dispatchers, tick[d].pc = "firing",
             DOMAIN runs = 1 .. Len(runs), DOMAIN runs' = 1 .. Len(runs) + 1, Len(runs) \in Nat,
             \A i \in DOMAIN runs : runs'[i] = runs[i],
             runs'[Len(runs) + 1] = NewRun(d),
             \A i \in DOMAIN runs : runs[i].key = Key(d) => now - runs[i].at > KeyLife
      PROVE  OneRunPerCutoff'
  <2> SUFFICES ASSUME NEW i \in DOMAIN runs', NEW j \in DOMAIN runs', i < j,
                      CutoffOf(runs'[i].claim) = CutoffOf(runs'[j].claim)
               PROVE  runs'[i].claim # runs'[j].claim /\ runs'[j].at - runs'[i].at > KeyLife
    BY DEF OneRunPerCutoff
  <2>1. i \in DOMAIN runs /\ runs'[i] = runs[i]
    BY <1>2
  <2>2. CASE j \in DOMAIN runs
    BY <1>2, <2>1, <2>2 DEF OneRunPerCutoff
  <2>3. CASE j = Len(runs) + 1
    <3>1. runs'[j].claim = tick[d].firing /\ runs'[j].at = now
      BY <1>2, <2>3, NewRunType
    <3>2. runs[i].claim # tick[d].firing
      BY <1>2, <2>1 DEF ClaimsAreUsedOnce
    <3>3. runs[i].key = Key(d)
      BY <1>2, <2>1, <3>1, KeyIsCutoff DEF KeysAreCutoffs
    <3> QED BY <1>2, <2>1, <3>1, <3>2, <3>3
  <2> QED BY <1>2, <2>2, <2>3
<1>3. ASSUME NEW d \in Dispatchers, tick[d].pc = "firing", CreateRun(d)
      PROVE  OneRunPerCutoff'
  BY <1>1, <1>2, <1>3, CreatedRuns
<1> QED BY <1>1, <1>3, RunsCases

\* A claim that is being fired is in the hands of a tick, or is accounted for.
LEMMA FiringAccounted ==
  ASSUME TypeOK, FiringIsClaim, KeysAreCutoffs, NEW d \in Dispatchers, Tick(d),
         NEW c \in Claims, tick[d].firing = c
  PROVE  Accounted(c)'
<1>1. tick[d].pc = "firing" /\ Key(d) = CutoffOf(c)
  BY TickParts, ClaimParts, KeyIsCutoff
<1>2. CASE Fire(d) \/ FireFails(d)
  <2>1. CASE CreateRun(d)
    <3>1. CASE runs' = runs /\ \E i \in DOMAIN runs : runs[i].key = Key(d)
      BY <1>1, <3>1 DEF Accounted, KeysAreCutoffs
    <3>2. CASE DOMAIN runs' = 1 .. Len(runs) + 1 /\ Len(runs) \in Nat
               /\ runs'[Len(runs) + 1] = NewRun(d)
      <4>1. Len(runs) + 1 \in DOMAIN runs' /\ runs'[Len(runs) + 1].claim = c
        BY <1>1, <3>2, NewRunType
      <4> QED BY <4>1 DEF Accounted
    <3> QED BY <1>1, <2>1, <3>1, <3>2, CreatedRuns
  <2>2. CASE FireFails(d)
    BY <2>2 DEF FireFails, Accounted
  <2> QED BY <1>2, <2>1, <2>2 DEF Fire
<1>3. CASE Crash(d)
  BY <1>1, <1>3 DEF Crash, Accounted
<1> QED BY <1>1, <1>2, <1>3
        DEF Tick, List, Dispatch, TryClaim, ClaimRefused, ClaimFails, EndTick, ListFails

LEMMA AccountedStays ==
  ASSUME TypeOK, FiringIsClaim, KeysAreCutoffs, [Next]_vars, NEW c \in Claims, Accounted(c)
  PROVE  Accounted(c)'
<1>1. CASE c \in lost \/ \E i \in DOMAIN runs : CutoffOf(runs[i].claim) = CutoffOf(c)
  BY <1>1, LostGrows, RunsKept DEF Accounted
<1>2. ASSUME NEW d \in Dispatchers, tick[d].firing = c
      PROVE  Accounted(c)'
  <2>1. CASE Tick(d)
    BY <1>2, <2>1, FiringAccounted
  <2>2. CASE tick'[d] = tick[d]
    BY <1>2, <2>2 DEF Accounted
  <2>3. tick[d].pc = "firing"
    BY <1>2, TickParts, ClaimParts
  <2>4. CASE \E x \in Dispatchers : Tick(x)
    <3>1. PICK x \in Dispatchers : Tick(x)
      BY <2>4
    <3>2. TickStep(x)
      BY <3>1, TryClaimStep, ClaimRefusedStep, ClaimFailsStep, FiredStep, OverStep, ListStep DEF Tick
    <3> QED BY <2>1, <2>2, <3>1, <3>2 DEF TickStep
  <2>5. CASE \/ \E x \in Loops : BeginLoop(x)
             \/ \E x \in Requests : TickNow(x) \/ BeginRequest(x)
    BY <2>2, <2>3, <2>5 DEF BeginLoop, TickNow, BeginRequest, TypeOK, Dispatchers
  <2>6. CASE \/ \E s \in Schedules : Create(s) \/ Delete(s)
             \/ DeleteWorkflow \/ Pass \/ UNCHANGED vars
    BY <2>2, <2>6 DEF Create, Delete, DeleteWorkflow, Pass, vars
  <2> QED BY <2>4, <2>5, <2>6 DEF Next
<1> QED BY <1>1, <1>2 DEF Accounted

\* Whoever is granted a claim fires it, or has learned of an error.
LEMMA AdvanceAccounted ==
  ASSUME TypeOK, [Next]_vars, NEW c \in Claims, granted'[c] # granted[c]
  PROVE  Accounted(c)'
<1>1. PICK d \in Dispatchers : Tick(d)
  BY DEF Next, BeginLoop, TickNow, BeginRequest, Create, Delete, DeleteWorkflow, Pass, vars, history
<1>2. PICK s \in Schedules : (TryClaim(d, s) \/ ClaimFails(d, s)) /\ Advance(d, s)
  BY <1>1 DEF Tick, List, Dispatch, Fire, FireFails, TryClaim, ClaimRefused, ClaimFails,
              EndTick, ListFails, Crash, End, tables, history
<1>3. c = Claim(d, s)
  BY <1>2 DEF Advance, TypeOK
<1>4. CASE TryClaim(d, s)
  BY <1>3, <1>4 DEF TryClaim, Accounted, TypeOK, TickRecord
<1>5. CASE ClaimFails(d, s)
  BY <1>3, <1>5 DEF ClaimFails, Accounted
<1> QED BY <1>2, <1>4, <1>5

LEMMA GrantsStep ==
  ASSUME IInv, [Next]_vars
  PROVE  GrantsAccounted'
<1> SUFFICES ASSUME NEW c \in Claims, granted'[c] > 0
             PROVE  Accounted(c)'
  BY DEF GrantsAccounted
<1>1. CASE granted'[c] = granted[c]
  BY <1>1, AccountedStays DEF IInv, GrantsAccounted
<1>2. CASE granted'[c] # granted[c]
  BY <1>2, AdvanceAccounted DEF IInv
<1> QED BY <1>1, <1>2

-----------------------------------------------------------------------------
(* The theorems *)

LEMMA StepType ==
  ASSUME IInv, [Next]_vars
  PROVE  TypeOK'
<1>1. TypeOK
  BY DEF IInv
<1>2. CASE \E d \in Loops : BeginLoop(d)
  BY <1>1, <1>2, BeginLoopType
<1>3. CASE \E d \in Requests : TickNow(d) \/ BeginRequest(d)
  BY <1>1, <1>3, TickNowType, BeginRequestType DEF Dispatchers
<1>4. CASE \E d \in Dispatchers : Tick(d)
  BY <1>1, <1>4, ListType, DispatchType, FireType, FireFailsType, TryClaimType,
     ClaimRefusedType, ClaimFailsType, EndTickType, ListFailsType, CrashType DEF Tick
<1>5. CASE \E s \in Schedules : Create(s) \/ Delete(s)
  BY <1>1, <1>5, CreateType, DeleteType
<1>6. CASE DeleteWorkflow
  BY <1>1, <1>6 DEF DeleteWorkflow, TypeOK, history, clocks
<1>7. CASE Pass
  BY <1>1, <1>7, PassType
<1>8. CASE UNCHANGED vars
  BY <1>1, <1>8 DEF vars, tables, history, clocks, TypeOK
<1> QED BY <1>2, <1>3, <1>4, <1>5, <1>6, <1>7, <1>8 DEF Next

LEMMA StepInv == IInv /\ [Next]_vars => IInv'
<1> SUFFICES ASSUME IInv, [Next]_vars PROVE IInv'
  OBVIOUS
<1>1. TypeOK'
  BY StepType
<1>2. Recreated' /\ Granted' /\ KeysAreCutoffs'
  BY <1>1, RecreatedStep, GrantedStep, KeysStep DEF IInv
<1>4. ClaimsAreUsedOnce' /\ OneRunPerCutoff'
  BY ClaimsUsedStep, OneRunStep DEF IInv
<1>3. FiringIsClaim' /\ ListedBefore' /\ TodoIsComplete'
  BY <1>1, FiringStep, ListedStep, TodoStep DEF IInv
<1> QED BY <1>1, <1>2, <1>3, <1>4, GrantsStep DEF IInv

LEMMA Invariance == Spec => []IInv
BY InitInv, StepInv, PTL DEF Spec

\* Rows, ticks, runs and claims keep their types, whatever schedules are created
\* anew and whatever ticks die.
THEOREM TypeCorrect == Spec => []TypeOK
<1>1. IInv => TypeOK
  BY DEF IInv
<1> QED BY <1>1, Invariance, PTL

\* A cutoff of a schedule has one run, however late its ticks are, even when the
\* schedule was created anew and the cutoff claimed again: unless that happens when
\* the key of the first run is no longer honoured.
THEOREM CutoffsHaveOneRun == Spec => []OneRunPerCutoff
<1>1. IInv => OneRunPerCutoff
  BY DEF IInv
<1> QED BY <1>1, Invariance, PTL

\* A tick that has gone through its list has passed over nothing that was due
\* without a claim, an error or a successor, and no granted claim is forgotten.
THEOREM NothingPassedOver == Spec => []TicksFireWhatIsDue
<1>1. ASSUME IInv, NEW d \in Dispatchers, tick[d].pc = "claiming", tick[d].todo = {},
             NEW e \in tick[d].listed, tick[d].cutoff \in Due[e[1]]
      PROVE  Done(d, e)
  BY <1>1 DEF IInv, TodoIsComplete
<1>2. IInv => TicksFireWhatIsDue
  BY <1>1 DEF IInv, GrantsAccounted, TicksFireWhatIsDue, Done
<1> QED BY <1>2, Invariance, PTL

\* The row, which knows the last claim only, implements claims that are granted
\* once each (tryClaim and the interface ScheduleStore).
THEOREM Refinement == Spec => ClaimsOnce
<1>1. Init => Once!Init
  BY DEF Init, Once!Init
<1>2. ASSUME IInv, [Next]_vars
      PROVE  [Once!Next]_granted
  <2>1. CASE UNCHANGED granted
    BY <2>1
  <2>2. ASSUME NEW d \in Dispatchers, NEW s \in Schedules, Advance(d, s)
        PROVE  Once!Next
    <3>1. Claim(d, s) \in Claims
      BY <1>2, ClaimType DEF IInv
    <3>2. Once!Grant(Claim(d, s))
      BY <1>2, <2>2, AdvanceIsNew DEF IInv, Once!Grant
    <3> QED BY <3>1, <3>2 DEF Once!Next
  <2> QED BY <1>2, <2>1, <2>2, RowCases
<1> QED BY <1>1, <1>2, Invariance, PTL DEF Spec, ClaimsOnce, Once!Spec
===============================================================================
