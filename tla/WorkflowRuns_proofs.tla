-------------------------- MODULE WorkflowRuns_proofs --------------------------
(***************************************************************************)
(* Proofs about WorkflowRuns for any number of runs, slots, lapses and     *)
(* crashes: the rows keep their types, the worker-id fence admits only the *)
(* newest claim, an unfinished run always becomes due again, a retry is    *)
(* due before the deadline, and the engine implements FencedRuns.          *)
(***************************************************************************)
EXTENDS WorkflowRuns, TLAPS

-----------------------------------------------------------------------------
(* The row updates *)

LEMMA ResolvedPolicyType ==
  ASSUME NEW r \in Runs
  PROVE  ResolvedPolicy(r) \in Policies
BY PolicyAssumption DEF ResolvedPolicy, Policies

LEMMA DefaultPolicyType == DefaultPolicy \in Policies
BY DEF DefaultPolicy, Policies

\* Whatever the exponential is, the cap keeps the delay a number of ticks.
LEMMA BackoffDelayType ==
  ASSUME NEW policy \in Policies, NEW n \in Nat
  PROVE  BackoffDelay(policy, n) \in Nat
<1> DEFINE x == policy.initialInterval * 2^(IF n > 1 THEN n - 1 ELSE 0)
<1>1. policy.maximumInterval \in Nat
  BY DEF Policies
<1>2. CASE x \in 0 .. policy.maximumInterval
  <2>1. x \in Nat
    BY <1>1, <1>2
  <2> HIDE DEF x
  <2> QED BY <1>2, <2>1 DEF BackoffDelay, x
<1>3. CASE x \notin 0 .. policy.maximumInterval
  BY <1>1, <1>3 DEF BackoffDelay
<1> QED BY <1>2, <1>3

\* What holds of every row.
RowInv(row) ==
  /\ row \in RunRow
  /\ row.status = "absent" => row.attempts = 0
  /\ BecomesDue(row)
  /\ RetryIsDueInTime(row)

\* What an execution or a client may make of a row when it lets go of it.
Released(old, new) ==
  /\ RowInv(new)
  /\ new.status # "absent"
  /\ new.status = "running" => new.workerId = None
  /\ new.attempts = old.attempts

\* An execution does not cancel its run.
Left(old, new) == Released(old, new) /\ new.status # "canceled"

\* What time, a heartbeat or a wake-up may make of a row.
Kept(old, new) ==
  /\ RowInv(new)
  /\ new.status = old.status
  /\ new.workerId = old.workerId
  /\ new.attempts = old.attempts

LEMMA FailedRowLeft ==
  ASSUME NEW row \in RunRow, NEW err \in Errors
  PROVE  Left(row, FailedRow(row, err))
BY DEF RunRow, Statuses, Active, Terminal, FailedRow, Left, Released,
       RowInv, BecomesDue, RetryIsDueInTime

LEMMA PendingRowLeft ==
  ASSUME NEW row \in RunRow, NEW d \in Nat, NEW err \in Errors,
         BeforeDeadline(row, d)
  PROVE  Left(row, PendingRow(row, d, err))
BY NoneAssumption
   DEF RunRow, Statuses, Active, Terminal, PendingRow, Left, Released,
       RowInv, BecomesDue, RetryIsDueInTime, BeforeDeadline

LEMMA CompletedRowLeft ==
  ASSUME NEW row \in RunRow
  PROVE  Left(row, CompletedRow(row))
BY DEF RunRow, Statuses, Active, Terminal, CompletedRow, Left, Released,
       RowInv, BecomesDue, RetryIsDueInTime

LEMMA ParkedRowLeft ==
  ASSUME NEW row \in RunRow, NEW d \in Nat
  PROVE  Left(row, ParkedRow(row, d))
BY NoneAssumption
   DEF RunRow, Statuses, Active, Terminal, ParkedRow, Left, Released,
       RowInv, BecomesDue, RetryIsDueInTime

LEMMA CanceledRowReleased ==
  ASSUME NEW row \in RunRow
  PROVE  Released(row, CanceledRow(row))
BY DEF RunRow, Statuses, Active, Terminal, CanceledRow, Released, RowInv,
       BecomesDue, RetryIsDueInTime

LEMMA RowAfterErrorLeft ==
  ASSUME NEW row \in RunRow, NEW policy \in Policies, NEW n \in Nat,
         NEW err \in Errors
  PROVE  Left(row, RowAfterError(row, policy, n, err))
<1>1. CASE OutOfRetries(row, policy, n)
  <2>1. (IF row.deadlineIn = 0 THEN "deadline" ELSE err) \in Errors
    BY DEF Errors
  <2> QED BY <1>1, <2>1, FailedRowLeft DEF RowAfterError
<1>2. CASE ~OutOfRetries(row, policy, n)
  <2>1. BackoffDelay(policy, n) \in Nat
    BY BackoffDelayType
  <2>2. BeforeDeadline(row, BackoffDelay(policy, n))
    BY <1>2 DEF OutOfRetries
  <2> QED BY <1>2, <2>1, <2>2, PendingRowLeft DEF RowAfterError
<1> QED BY <1>1, <1>2

LEMMA ClaimedRowType ==
  ASSUME NEW row \in RunRow, NEW w \in Slots
  PROVE  /\ RowInv(ClaimedRow(row, w))
         /\ ClaimedRow(row, w).status = "running"
         /\ ClaimedRow(row, w).workerId = w
         /\ ClaimedRow(row, w).attempts = row.attempts + 1
<1> DEFINE new == ClaimedRow(row, w)
<1>1. row.attempts \in Nat /\ row.attempts + 1 \in Nat
  BY DEF RunRow
<1>2. /\ new.status = "running"
      /\ new.workerId = w
      /\ new.availableIn = Lease
      /\ new.attempts = row.attempts + 1
  BY <1>1 DEF ClaimedRow, RunRow
<1>3. new \in RunRow
  BY <1>1, TimeAssumption DEF ClaimedRow, RunRow, Statuses
<1>4. BecomesDue(new) /\ RetryIsDueInTime(new)
  BY <1>2, NoneAssumption, TimeAssumption
     DEF Active, Terminal, BecomesDue, RetryIsDueInTime
<1> QED BY <1>2, <1>3, <1>4 DEF RowInv

LEMMA ExpiredRowsReleased ==
  ASSUME TypeOK
  PROVE  /\ ExpiredRows \in [Runs -> RunRow]
         /\ \A r \in Runs :
              ExpiredRows[r] = run[r] \/ Released(run[r], ExpiredRows[r])
<1>1. \A r \in Runs : run[r] \in RunRow
  BY DEF TypeOK
<1>2. "deadline" \in Errors
  BY DEF Errors
<1>3. \A r \in Runs : Released(run[r], FailedRow(run[r], "deadline"))
  BY <1>1, <1>2, FailedRowLeft DEF Left
<1>4. \A r \in Runs : FailedRow(run[r], "deadline") \in RunRow
  BY <1>3 DEF Released, RowInv
<1>5. \A r \in Runs : ExpiredRows[r] = IF r \in Overdue
                                       THEN FailedRow(run[r], "deadline") ELSE run[r]
  BY DEF ExpiredRows
<1>6. ExpiredRows \in [Runs -> RunRow]
  BY <1>1, <1>4 DEF ExpiredRows
<1> QED BY <1>3, <1>5, <1>6

LEMMA CountdownType ==
  ASSUME NEW t \in Nat \cup {None}
  PROVE  /\ Countdown(t) \in Nat \cup {None}
         /\ (Countdown(t) = None) <=> (t = None)
         /\ t \in Nat => Countdown(t) = IF t = 0 THEN 0 ELSE t - 1
BY NoneAssumption DEF Countdown

\* A tick keeps a row: both of its timers run down together.
LEMMA TickKeepsRow ==
  ASSUME NEW row, RowInv(row)
  PROVE  Kept(row, [row EXCEPT !.availableIn = Countdown(row.availableIn),
                               !.deadlineIn  = Countdown(row.deadlineIn)])
<1> DEFINE new == [row EXCEPT !.availableIn = Countdown(row.availableIn),
                              !.deadlineIn  = Countdown(row.deadlineIn)]
<1>1. row \in RunRow
  BY DEF RowInv
<1>2. /\ row.availableIn \in Nat \cup {None}
      /\ row.deadlineIn \in Nat \cup {None}
  BY <1>1 DEF RunRow
<1>3. PICK a \in Nat \cup {None} : a = Countdown(row.availableIn)
  BY <1>2, CountdownType
<1>4. PICK d \in Nat \cup {None} : d = Countdown(row.deadlineIn)
  BY <1>2, CountdownType
<1>5. new = [row EXCEPT !.availableIn = a, !.deadlineIn = d]
  BY <1>3, <1>4
<1>6. /\ new \in RunRow
      /\ new.status = row.status
      /\ new.workerId = row.workerId
      /\ new.attempts = row.attempts
      /\ new.availableIn = a
      /\ new.deadlineIn = d
  <2> HIDE DEF new
  <2> QED BY <1>1, <1>5 DEF RunRow
<1>7. /\ row.availableIn \in Nat => a = IF row.availableIn = 0 THEN 0
                                        ELSE row.availableIn - 1
      /\ (a = None) <=> (row.availableIn = None)
      /\ row.deadlineIn \in Nat => d = IF row.deadlineIn = 0 THEN 0
                                       ELSE row.deadlineIn - 1
      /\ (d = None) <=> (row.deadlineIn = None)
  BY <1>2, <1>3, <1>4, CountdownType
<1> HIDE DEF new
<1>8. BecomesDue(new)
  <2>1. BecomesDue(row)
    BY DEF RowInv
  <2> QED BY <2>1, <1>2, <1>6, <1>7, NoneAssumption, TimeAssumption
          DEF BecomesDue, Active, Terminal
<1>9. RetryIsDueInTime(new)
  <2>1. RetryIsDueInTime(row) /\ BecomesDue(row)
    BY DEF RowInv
  <2>2. SUFFICES ASSUME new.status = "pending", new.attempts > 0
                 PROVE  a = 0 \/ (d # None => a < d)
    BY <1>6 DEF RetryIsDueInTime, BeforeDeadline
  <2>3. row.availableIn \in Nat
    BY <2>1, <2>2, <1>2, <1>6 DEF BecomesDue, Active
  <2>4. row.availableIn = 0 \/ (row.deadlineIn # None => row.availableIn < row.deadlineIn)
    BY <2>1, <2>2, <1>6 DEF RetryIsDueInTime, BeforeDeadline
  <2> QED BY <2>3, <2>4, <1>2, <1>7
<1>10. new.status = "absent" => new.attempts = 0
  BY <1>6 DEF RowInv
<1> QED BY <1>6, <1>8, <1>9, <1>10 DEF Kept, RowInv, new

-----------------------------------------------------------------------------
(* The inductive invariant *)

\* The fence is sound only because a slot never has two executions, a claim
\* starts one, and none is ahead of its row; no statement looks at any of it.
OneExecutionPerSlot == \A e, f \in execs : e.slot = f.slot => e = f

OneExecutionPerClaim ==
  \A e, f \in execs : e.run = f.run /\ e.attempts = f.attempts => e = f

ClaimsCounted ==
  \A e \in execs : /\ e.attempts \in 1 .. run[e.run].attempts
                   /\ run[e.run].status # "absent"

IInv ==
  /\ TypeOK
  /\ \A r \in Runs : RowInv(run[r])
  /\ OneExecutionPerSlot
  /\ OneExecutionPerClaim
  /\ ClaimsCounted
  /\ LatestClaimOwns

\* Every step but a claim only keeps or releases rows and ends executions.
LEMMA RowsKeptOrReleased ==
  ASSUME IInv, run' \in [Runs -> RunRow], execs' \subseteq execs,
         alive' \subseteq Slots, lapses' \in Nat,
         \A r \in Runs : \/ run'[r] = run[r]
                         \/ Kept(run[r], run'[r])
                         \/ Released(run[r], run'[r])
  PROVE  IInv'
<1>1. TypeOK'
  BY DEF IInv, TypeOK
<1>2. \A r \in Runs : RowInv(run'[r])
  BY DEF IInv, Kept, Released
<1>3. OneExecutionPerSlot' /\ OneExecutionPerClaim'
  BY DEF IInv, OneExecutionPerSlot, OneExecutionPerClaim
<1>4. \A e \in execs' : e \in Execution /\ e.run \in Runs /\ e.slot \in Slots
  BY <1>1 DEF TypeOK, Execution
<1>5. \A r \in Runs : /\ run'[r].attempts = run[r].attempts
                      /\ run[r].status # "absent" => run'[r].status # "absent"
  BY DEF Kept, Released
<1>6. ClaimsCounted'
  BY <1>4, <1>5 DEF IInv, ClaimsCounted
<1>7. LatestClaimOwns'
  <2>1. SUFFICES ASSUME NEW e \in execs', OwnedBy(run'[e.run], e.slot)
                 PROVE  e.attempts = run'[e.run].attempts
    BY DEF LatestClaimOwns, Owns
  <2>2. ~Released(run[e.run], run'[e.run])
    BY <2>1, <1>4, NoneAssumption DEF Released, OwnedBy
  <2>3. OwnedBy(run[e.run], e.slot)
    BY <2>1, <2>2, <1>4 DEF Kept, OwnedBy
  <2>4. e.attempts = run[e.run].attempts
    BY <2>1, <2>3 DEF IInv, LatestClaimOwns, Owns
  <2> QED BY <2>4, <1>4, <1>5
<1> QED BY <1>1, <1>2, <1>3, <1>6, <1>7 DEF IInv

LEMMA FinishKeepsIInv ==
  ASSUME IInv, NEW e \in execs, NEW row, Released(run[e.run], row), Finish(e, row)
  PROVE  IInv'
<1>1. e.run \in Runs
  BY DEF IInv, TypeOK, Execution
<1>2. row \in RunRow
  BY DEF Released, RowInv
<1>3. /\ run' \in [Runs -> RunRow]
      /\ \A r \in Runs : run'[r] = run[r] \/ Released(run[r], run'[r])
  BY <1>1, <1>2 DEF Finish, IInv, TypeOK
<1>4. execs' \subseteq execs /\ alive' \subseteq Slots /\ lapses' \in Nat
  BY DEF Finish, IInv, TypeOK
<1> QED BY <1>3, <1>4, RowsKeptOrReleased

\* A claim opens the execution of the newest claim and shuts out every other.
LEMMA ClaimKeepsIInv ==
  ASSUME IInv, NEW w \in Slots, NEW r \in Runs, Claim(w, r)
  PROVE  IInv'
<1> DEFINE claimed == ClaimedRow(run[r], w)
           e0 == [slot |-> w, run |-> r, attempts |-> claimed.attempts]
<1>1. run[r] \in RunRow /\ run[r].attempts \in Nat
  BY DEF IInv, TypeOK, RunRow
<1>2. /\ RowInv(claimed)
      /\ claimed \in RunRow
      /\ claimed.status = "running"
      /\ claimed.workerId = w
      /\ claimed.attempts = run[r].attempts + 1
  BY <1>1, ClaimedRowType DEF RowInv
<1>3. /\ run' = [ExpiredRows EXCEPT ![r] = claimed]
      /\ execs' = execs \cup {e0}
      /\ alive' = alive
      /\ lapses' = lapses
      /\ \A e \in execs : e.slot # w
  BY DEF Claim, Idle
<1> HIDE DEF claimed
<1>4. TypeOK
  BY DEF IInv
<1>5. /\ run' \in [Runs -> RunRow]
      /\ run'[r] = claimed
      /\ \A s \in Runs \ {r} : run'[s] = run[s] \/ Released(run[s], run'[s])
  BY <1>2, <1>3, <1>4, ExpiredRowsReleased
<1>6. e0 \in Execution /\ e0.slot = w /\ e0.run = r /\ e0.attempts = claimed.attempts
  BY <1>1, <1>2 DEF Execution
<1> HIDE DEF e0
<1>7. TypeOK'
  BY <1>3, <1>4, <1>5, <1>6 DEF TypeOK
<1>8. \A s \in Runs : RowInv(run'[s])
  BY <1>2, <1>5 DEF IInv, Released
<1>9. OneExecutionPerSlot'
  BY <1>3, <1>6 DEF IInv, OneExecutionPerSlot
<1>10. \A e \in execs : /\ e.run \in Runs
                        /\ e.slot \in Slots
                        /\ e.attempts \in 1 .. run[e.run].attempts
                        /\ run[e.run].status # "absent"
  BY DEF IInv, TypeOK, Execution, ClaimsCounted
<1>11. ClaimsCounted'
  <2>1. e0.attempts \in 1 .. run'[e0.run].attempts /\ run'[e0.run].status # "absent"
    BY <1>1, <1>2, <1>5, <1>6
  <2>2. ASSUME NEW e \in execs
        PROVE  e.attempts \in 1 .. run'[e.run].attempts /\ run'[e.run].status # "absent"
    <3>1. CASE e.run = r
      BY <3>1, <1>1, <1>2, <1>5, <1>10
    <3>2. CASE e.run # r
      BY <3>2, <1>5, <1>10 DEF Released
    <3> QED BY <3>1, <3>2
  <2> QED BY <2>1, <2>2, <1>3 DEF ClaimsCounted
<1>12. LatestClaimOwns'
  <2>1. e0.attempts = run'[e0.run].attempts
    BY <1>5, <1>6
  <2>2. ASSUME NEW e \in execs, OwnedBy(run'[e.run], e.slot)
        PROVE  e.attempts = run'[e.run].attempts
    <3>1. e.run # r
      BY <2>2, <1>2, <1>3, <1>5 DEF OwnedBy
    <3>2. run'[e.run] = run[e.run]
      BY <2>2, <3>1, <1>5, <1>10, NoneAssumption DEF Released, OwnedBy
    <3> QED BY <2>2, <3>2 DEF IInv, LatestClaimOwns, Owns
  <2> QED BY <2>1, <2>2, <1>3 DEF LatestClaimOwns, Owns
<1>13. OneExecutionPerClaim'
  <2>1. \A e \in execs : e.run = r => e.attempts # e0.attempts
    BY <1>1, <1>2, <1>6, <1>10
  <2>2. \A e, f \in execs : e.run = f.run /\ e.attempts = f.attempts => e = f
    BY DEF IInv, OneExecutionPerClaim
  <2> QED BY <2>1, <2>2, <1>3, <1>6 DEF OneExecutionPerClaim
<1> QED BY <1>7, <1>8, <1>9, <1>11, <1>12, <1>13 DEF IInv

LEMMA InitIInv == Init => IInv
<1> SUFFICES ASSUME Init PROVE IInv
  OBVIOUS
<1>1. AbsentRow \in RunRow /\ RowInv(AbsentRow)
  BY DEF AbsentRow, RunRow, RowInv, BecomesDue, RetryIsDueInTime, Active, Terminal
<1> QED BY <1>1 DEF Init, IInv, TypeOK, OneExecutionPerSlot,
                    OneExecutionPerClaim, ClaimsCounted, LatestClaimOwns

LEMMA ClientKeepsIInv ==
  ASSUME IInv, NEW r \in Runs, Client(r)
  PROVE  IInv'
<1>1. /\ run[r] \in RunRow
      /\ RowInv(run[r])
      /\ run \in [Runs -> RunRow]
      /\ execs \subseteq execs /\ alive \subseteq Slots /\ lapses \in Nat
  BY DEF IInv, TypeOK
<1>2. ASSUME NEW s \in StartDelays, NEW d \in Deadlines, Create(r, s, d)
      PROVE  IInv'
  <2> DEFINE new == [AbsentRow EXCEPT !.status = "pending", !.availableIn = s,
                                      !.deadlineIn = d]
  <2>1. s \in Nat /\ d \in Nat \cup {None}
    BY TimeAssumption
  <2>2. new \in RunRow
    BY <2>1 DEF AbsentRow, RunRow, Statuses
  <2>3. /\ new.status = "pending" /\ new.workerId = None
        /\ new.availableIn = s /\ new.attempts = 0
    BY DEF AbsentRow
  <2>4. run[r].attempts = 0
    BY <1>1, <1>2 DEF Create, RowInv
  <2> HIDE DEF new
  <2>5. Released(run[r], new)
    BY <2>1, <2>2, <2>3, <2>4, NoneAssumption
       DEF Released, RowInv, BecomesDue, RetryIsDueInTime, Active, Terminal
  <2>6. /\ run' = [run EXCEPT ![r] = new]
        /\ UNCHANGED <<execs, alive, lapses>>
    BY <1>2 DEF Create, new
  <2> QED BY <1>1, <2>2, <2>5, <2>6, RowsKeptOrReleased
<1>3. CASE Cancel(r)
  <2>1. Released(run[r], CanceledRow(run[r])) /\ CanceledRow(run[r]) \in RunRow
    BY <1>1, CanceledRowReleased DEF Released, RowInv
  <2> QED BY <1>1, <1>3, <2>1, RowsKeptOrReleased DEF Cancel
<1>4. CASE Wake(r)
  <2> DEFINE new == [run[r] EXCEPT !.availableIn = 0]
  <2>1. new \in RunRow
    BY <1>1 DEF RunRow
  <2>2. /\ new.status \in Active /\ new.workerId = None /\ new.availableIn = 0
        /\ new.status = run[r].status /\ new.workerId = run[r].workerId
        /\ new.attempts = run[r].attempts
    BY <1>1, <1>4 DEF Wake, RunRow
  <2> HIDE DEF new
  <2>3. Kept(run[r], new)
    BY <2>1, <2>2, NoneAssumption
       DEF Kept, RowInv, BecomesDue, RetryIsDueInTime, Active, Terminal
  <2>4. run' = [run EXCEPT ![r] = new] /\ UNCHANGED <<execs, alive, lapses>>
    BY <1>4 DEF Wake, new
  <2> QED BY <1>1, <2>1, <2>3, <2>4, RowsKeptOrReleased
<1> QED BY <1>2, <1>3, <1>4 DEF Client

LEMMA HeartbeatKeepsIInv ==
  ASSUME IInv, NEW e \in execs, Heartbeat(e)
  PROVE  IInv'
<1> DEFINE r   == e.run
           new == [run[r] EXCEPT !.availableIn = Lease]
<1>1. r \in Runs /\ run \in [Runs -> RunRow] /\ run[r] \in RunRow /\ RowInv(run[r])
  BY DEF IInv, TypeOK, Execution
<1>2. new \in RunRow
  BY <1>1, TimeAssumption DEF RunRow
<1>3. /\ new.status = "running" /\ new.status = run[r].status
      /\ new.workerId = run[r].workerId /\ new.attempts = run[r].attempts
      /\ new.availableIn = Lease
  BY <1>1 DEF Heartbeat, Owns, OwnedBy, RunRow
<1>4. run' = [run EXCEPT ![r] = new] /\ UNCHANGED <<execs, alive, lapses>>
  BY DEF Heartbeat
<1> HIDE DEF new, r
<1>5. Kept(run[r], new)
  BY <1>2, <1>3, NoneAssumption, TimeAssumption
     DEF Kept, RowInv, BecomesDue, RetryIsDueInTime, Active, Terminal
<1>6. execs' \subseteq execs /\ alive' \subseteq Slots /\ lapses' \in Nat
  BY <1>4 DEF IInv, TypeOK
<1> QED BY <1>1, <1>2, <1>4, <1>5, <1>6, RowsKeptOrReleased

\* Every end of an execution writes one row and lets go of it, or writes nothing.
LEMMA EndIsFinish ==
  ASSUME IInv, NEW e \in execs, End(e), ~Abandon(e)
  PROVE  \E row : Left(run[e.run], row) /\ Finish(e, row)
<1>1. /\ e.run \in Runs
      /\ run[e.run] \in RunRow
      /\ e.attempts \in Nat
  BY DEF IInv, TypeOK, Execution
<1>2. {"workflow", "step", "unregistered"} \subseteq Errors
  BY DEF Errors
<1>3. CASE Complete(e)
  BY <1>1, <1>3, CompletedRowLeft DEF Complete
<1>4. CASE Throw(e)
  BY <1>1, <1>2, <1>4, RowAfterErrorLeft, ResolvedPolicyType DEF Throw
<1>5. CASE StepOutOfRetries(e)
  BY <1>1, <1>2, <1>5, RowAfterErrorLeft, DefaultPolicyType DEF StepOutOfRetries
<1>6. CASE MissingDefinition(e)
  BY <1>1, <1>2, <1>6, RowAfterErrorLeft, PolicyAssumption DEF MissingDefinition
<1>7. ASSUME NEW d \in ParkDelays, Park(e, d)
      PROVE  \E row : Left(run[e.run], row) /\ Finish(e, row)
  BY <1>1, <1>7, TimeAssumption, ParkedRowLeft DEF Park
<1>8. ASSUME NEW d \in StepDelays, RetryStep(e, d)
      PROVE  \E row : Left(run[e.run], row) /\ Finish(e, row)
  BY <1>1, <1>2, <1>8, TimeAssumption, PendingRowLeft DEF RetryStep
<1> QED BY <1>3, <1>4, <1>5, <1>6, <1>7, <1>8 DEF End

LEMMA EndKeepsIInv ==
  ASSUME IInv, NEW e \in execs, End(e)
  PROVE  IInv'
<1>1. CASE Abandon(e)
  BY <1>1, RowsKeptOrReleased DEF Abandon, IInv, TypeOK
<1>2. CASE ~Abandon(e)
  BY <1>2, EndIsFinish, FinishKeepsIInv DEF Left
<1> QED BY <1>1, <1>2

LEMMA TickKeepsIInv ==
  ASSUME IInv, Tick
  PROVE  IInv'
<1>1. \A r \in Runs : Kept(run[r], run'[r])
  BY TickKeepsRow DEF Tick, IInv
<1>2. run' \in [Runs -> RunRow]
  BY <1>1 DEF Tick, Kept, RowInv
<1>3. execs' = execs /\ alive' = alive /\ (lapses' = lapses + 1 \/ lapses' = lapses)
  BY Zenon DEF Tick
<1>4. execs' \subseteq execs /\ alive' \subseteq Slots /\ lapses' \in Nat
  BY <1>3 DEF IInv, TypeOK
<1> QED BY <1>1, <1>2, <1>4, RowsKeptOrReleased

LEMMA NextKeepsIInv == IInv /\ [Next]_vars => IInv'
<1> SUFFICES ASSUME IInv, [Next]_vars PROVE IInv'
  OBVIOUS
<1>1. ASSUME NEW r \in Runs, Client(r) PROVE IInv'
  BY <1>1, ClientKeepsIInv
<1>2. ASSUME NEW w \in Slots, ClaimNone(w) PROVE IInv'
  BY <1>2, ExpiredRowsReleased, RowsKeptOrReleased DEF ClaimNone, IInv, TypeOK
<1>3. ASSUME NEW w \in Slots, NEW r \in Runs, Claim(w, r) PROVE IInv'
  BY <1>3, ClaimKeepsIInv
<1>4. ASSUME NEW w \in Slots, Crash(w) PROVE IInv'
  BY <1>4, RowsKeptOrReleased DEF Crash, IInv, TypeOK
<1>5. ASSUME NEW e \in execs, Heartbeat(e) PROVE IInv'
  BY <1>5, HeartbeatKeepsIInv
<1>6. ASSUME NEW e \in execs, End(e) PROVE IInv'
  BY <1>6, EndKeepsIInv
<1>7. CASE Tick
  BY <1>7, TickKeepsIInv
<1>8. CASE UNCHANGED vars
  BY <1>8, RowsKeptOrReleased DEF vars, IInv, TypeOK
<1> QED BY <1>1, <1>2, <1>3, <1>4, <1>5, <1>6, <1>7, <1>8 DEF Next, Poll

THEOREM Invariance == Spec => []IInv
BY InitIInv, NextKeepsIInv, PTL DEF Spec

-----------------------------------------------------------------------------
(* What follows from it *)

\* Rows and executions keep their types.
THEOREM TypeCorrect == Spec => []TypeOK
<1>1. IInv => TypeOK
  BY DEF IInv
<1> QED BY <1>1, Invariance, PTL

\* The worker id is enough of a fence: an execution that passes it belongs to
\* the newest claim of its run.
THEOREM FenceAdmitsNewestClaim == Spec => []LatestClaimOwns
<1>1. IInv => LatestClaimOwns
  BY DEF IInv
<1> QED BY <1>1, Invariance, PTL

\* No unfinished run is ever left without a time at which it can be claimed.
THEOREM NoRunIsStranded == Spec => []RunsBecomeDue
<1>1. IInv => RunsBecomeDue
  BY DEF IInv, RunsBecomeDue, RowInv
<1> QED BY <1>1, Invariance, PTL

\* The engine never schedules a retry past the deadline of the run.
THEOREM RetriesMeetDeadline == Spec => []RetryBeforeDeadline
<1>1. IInv => RetryBeforeDeadline
  BY DEF IInv, RetryBeforeDeadline, RowInv
<1> QED BY <1>1, Invariance, PTL

\* A run one of whose steps is out of attempts is failed, never tried again: every
\* execution is a claim that was counted, and DEFAULT_WORKFLOW_RETRY_POLICY allows one.
THEOREM ExhaustedStepsFail == Spec => StepExhaustionIsFinal
<1>1. IInv /\ [Next]_vars =>
        [\A e \in execs : StepOutOfRetries(e) /\ Owns(e) => run'[e.run].status = "failed"]_vars
  <2> SUFFICES ASSUME IInv, NEW e \in execs, StepOutOfRetries(e), Owns(e)
               PROVE  run'[e.run].status = "failed"
    OBVIOUS
  <2> DEFINE row == RowAfterError(run[e.run], DefaultPolicy, e.attempts, "step")
  <2>1. e.run \in Runs /\ run[e.run] \in RunRow /\ e.attempts \in Nat /\ e.attempts >= 1
    BY DEF IInv, TypeOK, Execution, ClaimsCounted
  <2>2. OutOfRetries(run[e.run], DefaultPolicy, e.attempts)
    BY <2>1 DEF OutOfRetries, DefaultPolicy
  <2>3. row = FailedRow(run[e.run], IF run[e.run].deadlineIn = 0 THEN "deadline" ELSE "step")
    BY <2>2 DEF RowAfterError
  <2>4. row.status = "failed"
    BY <2>1, <2>3 DEF FailedRow, RunRow
  <2> HIDE DEF row
  <2>5. run' = [run EXCEPT ![e.run] = row]
    BY DEF StepOutOfRetries, Finish, row
  <2> QED BY <2>1, <2>4, <2>5 DEF IInv, TypeOK
<1> QED BY <1>1, Invariance, PTL DEF Spec, StepExhaustionIsFinal

-----------------------------------------------------------------------------
(* WorkflowRuns implements FencedRuns *)

\* The abstract state of the refinement.
phase == [r \in Runs |-> PhaseOf(run[r])]
token == [r \in Runs |-> run[r].attempts]
live  == {[run |-> e.run, token |-> e.attempts] : e \in execs}

LEMMA PhaseCases ==
  ASSUME NEW row \in RunRow
  PROVE  /\ (PhaseOf(row) = "held") <=> (row.status = "running" /\ row.workerId # None)
         /\ (PhaseOf(row) \in {"waiting", "held"}) <=> (row.status \in Active)
         /\ (PhaseOf(row) = "absent") <=> (row.status = "absent")
         /\ row.status \in Terminal => PhaseOf(row) = row.status
         /\ row.status = "pending" => PhaseOf(row) = "waiting"
BY DEF RunRow, Statuses, Active, Terminal, PhaseOf

LEMMA KeptPhase ==
  ASSUME NEW old, NEW new, Kept(old, new)
  PROVE  PhaseOf(new) = PhaseOf(old) /\ new.attempts = old.attempts
BY DEF Kept, PhaseOf

LEMMA LeftPhase ==
  ASSUME NEW old, NEW new, Left(old, new)
  PROVE  PhaseOf(new) \in {"waiting", "completed", "failed"}
BY PhaseCases DEF Left, Released, RowInv, RunRow, Statuses, Active, Terminal, PhaseOf

\* Steps that keep every row and every execution are invisible.
LEMMA KeptStutters ==
  ASSUME \A r \in Runs : run'[r] = run[r] \/ Kept(run[r], run'[r]), execs' = execs
  PROVE  UNCHANGED <<phase, token, live>>
<1>1. \A r \in Runs : PhaseOf(run'[r]) = PhaseOf(run[r])
                      /\ run'[r].attempts = run[r].attempts
  BY KeptPhase
<1> QED BY <1>1 DEF phase, token, live

\* The end of one execution removes its token and no other.
LEMMA LiveWithout ==
  ASSUME IInv, NEW e \in execs, execs' = execs \ {e}
  PROVE  live' = live \ {[run |-> e.run, token |-> e.attempts]}
<1> DEFINE l(f) == [run |-> f.run, token |-> f.attempts]
<1>1. \A f \in execs : l(f) = l(e) => f = e
  BY DEF IInv, OneExecutionPerClaim
<1>2. live = {l(f) : f \in execs} /\ live' = {l(f) : f \in execs \ {e}}
  BY DEF live
<1> HIDE DEF l
<1>3. live' = live \ {l(e)}
  BY <1>1, <1>2
<1> QED BY <1>3 DEF l

LEMMA DropRefines ==
  ASSUME IInv, NEW e \in execs, execs' = execs \ {e}, run' = run
  PROVE  Fenced!Next
<1> DEFINE l == [run |-> e.run, token |-> e.attempts]
<1>1. l \in live
  BY DEF live
<1>2. live' = live \ {l}
  BY LiveWithout
<1>3. phase' = phase /\ token' = token
  BY DEF phase, token
<1> HIDE DEF l
<1> QED BY <1>1, <1>2, <1>3 DEF Fenced!Next, Fenced!Drop, phase, token, live

\* The fence of a row update is the token check of the abstract step.
LEMMA FinishRefines ==
  ASSUME IInv, NEW e \in execs, NEW row, Left(run[e.run], row), Finish(e, row)
  PROVE  Fenced!Next
<1> DEFINE l == [run |-> e.run, token |-> e.attempts]
<1>1. /\ e.run \in Runs /\ e.slot \in Slots
      /\ run \in [Runs -> RunRow]
      /\ run[e.run] \in RunRow
  BY DEF IInv, TypeOK, Execution
<1>2. execs' = execs \ {e}
  BY DEF Finish
<1>3. CASE ~Owns(e)
  BY <1>2, <1>3, DropRefines DEF Finish
<1>4. CASE Owns(e)
  <2>1. run' = [run EXCEPT ![e.run] = row]
    BY <1>4 DEF Finish
  <2>2. PhaseOf(run[e.run]) = "held"
    BY <1>1, <1>4, PhaseCases, NoneAssumption DEF Owns, OwnedBy
  <2>3. e.attempts = run[e.run].attempts
    BY <1>4 DEF IInv, LatestClaimOwns
  <2>4. row.attempts = run[e.run].attempts
    BY DEF Left, Released
  <2>5. PhaseOf(row) \in {"waiting", "completed", "failed"}
    BY LeftPhase
  <2>6. l \in live /\ live' = live \ {l} /\ l.run = e.run /\ l.token = e.attempts
    BY <1>2, LiveWithout DEF live
  <2>7. phase' = [phase EXCEPT ![e.run] = PhaseOf(row)]
    BY <1>1, <2>1 DEF phase
  <2>8. token' = token
    BY <1>1, <2>1, <2>4 DEF token
  <2>9. phase[e.run] = "held" /\ token[e.run] = e.attempts
    BY <1>1, <2>2, <2>3 DEF phase, token
  <2> HIDE DEF l
  <2>10. Fenced!Return(l, PhaseOf(row))
    BY <2>6, <2>7, <2>8, <2>9 DEF Fenced!Return, phase, token, live
  <2> QED BY <2>5, <2>6, <2>10 DEF Fenced!Next, live
<1> QED BY <1>3, <1>4

LEMMA EndRefines ==
  ASSUME IInv, NEW e \in execs, End(e)
  PROVE  Fenced!Next
<1>1. CASE Abandon(e)
  BY <1>1, DropRefines DEF Abandon
<1>2. CASE ~Abandon(e)
  BY <1>2, EndIsFinish, FinishRefines
<1> QED BY <1>1, <1>2

LEMMA CrashRefines ==
  ASSUME IInv, NEW w \in Slots, Crash(w)
  PROVE  Fenced!Next \/ UNCHANGED <<phase, token, live>>
<1>1. CASE \A e \in execs : e.slot # w
  <2>1. execs' = execs /\ run' = run
    BY <1>1 DEF Crash
  <2> QED BY <2>1 DEF phase, token, live
<1>2. CASE \E e \in execs : e.slot = w
  <2>1. PICK e \in execs : e.slot = w
    BY <1>2
  <2>2. execs' = execs \ {e} /\ run' = run
    BY <2>1 DEF Crash, IInv, OneExecutionPerSlot
  <2> QED BY <2>2, DropRefines
<1> QED BY <1>1, <1>2

\* The claim statement fails the overdue rows and no other.
LEMMA ExpiredPhases ==
  ASSUME IInv
  PROVE  /\ \A r \in Overdue : phase[r] \in {"waiting", "held"}
         /\ \A r \in Runs : /\ PhaseOf(ExpiredRows[r]) =
                                 IF r \in Overdue THEN "failed" ELSE phase[r]
                            /\ ExpiredRows[r].attempts = token[r]
<1>1. \A r \in Runs : run[r] \in RunRow
  BY DEF IInv, TypeOK
<1>2. \A r \in Overdue : phase[r] \in {"waiting", "held"}
  BY <1>1, PhaseCases DEF Overdue, phase
<1>3. ASSUME NEW r \in Runs
      PROVE  /\ PhaseOf(FailedRow(run[r], "deadline")) = "failed"
             /\ FailedRow(run[r], "deadline").attempts = run[r].attempts
  BY <1>1 DEF FailedRow, PhaseOf, RunRow
<1>4. \A r \in Runs : ExpiredRows[r] = IF r \in Overdue
                                       THEN FailedRow(run[r], "deadline") ELSE run[r]
  BY DEF ExpiredRows
<1> QED BY <1>2, <1>3, <1>4 DEF phase, token

LEMMA ClaimNoneRefines ==
  ASSUME IInv, NEW w \in Slots, ClaimNone(w)
  PROVE  Fenced!Next
<1>1. run' = ExpiredRows /\ execs' = execs
  BY DEF ClaimNone
<1>2. /\ \A r \in Overdue : phase[r] \in {"waiting", "held"}
      /\ phase' = [r \in Runs |-> IF r \in Overdue THEN "failed" ELSE phase[r]]
      /\ token' = token
      /\ live' = live
  BY <1>1, ExpiredPhases DEF phase, token, live
<1>3. Overdue \in SUBSET Runs
  BY DEF Overdue
<1>4. Fenced!Expire(Overdue)
  BY <1>2 DEF Fenced!Expire, Fenced!Expired, Fenced!Unfinished, phase, token, live
<1> QED BY <1>3, <1>4 DEF Fenced!Next

LEMMA ClaimRefines ==
  ASSUME IInv, NEW w \in Slots, NEW r \in Runs, Claim(w, r)
  PROVE  Fenced!Next
<1> DEFINE claimed == ClaimedRow(run[r], w)
<1>1. /\ run \in [Runs -> RunRow]
      /\ run[r] \in RunRow
      /\ w # None
  BY NoneAssumption DEF IInv, TypeOK
<1>2. /\ claimed \in RunRow
      /\ PhaseOf(claimed) = "held"
      /\ claimed.attempts = token[r] + 1
  <2>1. /\ claimed \in RunRow
        /\ claimed.status = "running"
        /\ claimed.workerId = w
        /\ claimed.attempts = run[r].attempts + 1
    BY <1>1, ClaimedRowType DEF RowInv
  <2> HIDE DEF claimed
  <2> QED BY <1>1, <2>1, PhaseCases DEF token
<1>3. /\ run' = [ExpiredRows EXCEPT ![r] = claimed]
      /\ execs' = execs \cup {[slot |-> w, run |-> r, attempts |-> claimed.attempts]}
      /\ r \in Candidates
  BY DEF Claim
<1> HIDE DEF claimed
<1>4. r \in Due
  BY <1>3 DEF Candidates
<1>5. r \notin Overdue /\ phase[r] \in {"waiting", "held"}
  BY <1>1, <1>4, PhaseCases DEF Due, Overdue, phase
<1>6. Overdue \in SUBSET Runs
  BY DEF Overdue
<1>7. ExpiredRows \in [Runs -> RunRow]
  BY ExpiredRowsReleased DEF IInv
<1>8. phase' = [[s \in Runs |-> IF s \in Overdue THEN "failed" ELSE phase[s]]
                  EXCEPT ![r] = "held"]
  BY <1>2, <1>3, <1>7, ExpiredPhases DEF phase
<1>9. token' = [token EXCEPT ![r] = token[r] + 1]
  BY <1>2, <1>3, <1>7, ExpiredPhases DEF token
<1>10. live' = live \cup {[run |-> r, token |-> token[r] + 1]}
  <2> DEFINE e0 == [slot |-> w, run |-> r, attempts |-> claimed.attempts]
  <2>1. e0.run = r /\ e0.attempts = token[r] + 1 /\ execs' = execs \cup {e0}
    BY <1>2, <1>3
  <2> HIDE DEF e0
  <2> QED BY <2>1 DEF live
<1>11. \A s \in Overdue : phase[s] \in {"waiting", "held"}
  BY ExpiredPhases
<1>12. Fenced!Grant(Overdue, r)
  BY <1>5, <1>8, <1>9, <1>10, <1>11
     DEF Fenced!Grant, Fenced!Expired, Fenced!Unfinished, phase, token, live
<1> QED BY <1>6, <1>12 DEF Fenced!Next

LEMMA ClientRefines ==
  ASSUME IInv, NEW r \in Runs, Client(r)
  PROVE  Fenced!Next \/ UNCHANGED <<phase, token, live>>
<1>1. run \in [Runs -> RunRow] /\ run[r] \in RunRow /\ RowInv(run[r])
  BY DEF IInv, TypeOK
<1>2. ASSUME NEW s \in StartDelays, NEW d \in Deadlines, Create(r, s, d)
      PROVE  Fenced!Submit(r)
  <2> DEFINE new == [AbsentRow EXCEPT !.status = "pending", !.availableIn = s,
                                      !.deadlineIn = d]
  <2>1. new.status = "pending" /\ new.attempts = 0
    BY DEF AbsentRow
  <2>2. PhaseOf(new) = "waiting"
    BY <2>1 DEF PhaseOf
  <2>3. run[r].status = "absent" /\ run' = [run EXCEPT ![r] = new] /\ execs' = execs
    BY <1>2 DEF Create
  <2> HIDE DEF new
  <2>4. run[r].attempts = 0 /\ PhaseOf(run[r]) = "absent"
    BY <1>1, <2>3, PhaseCases DEF RowInv
  <2>5. /\ phase[r] = "absent"
        /\ phase' = [phase EXCEPT ![r] = "waiting"]
        /\ token' = token
        /\ live' = live
    BY <1>1, <2>1, <2>2, <2>3, <2>4 DEF phase, token, live
  <2> QED BY <2>5 DEF Fenced!Submit, phase, token, live
<1>3. CASE Cancel(r)
  <2> DEFINE new == CanceledRow(run[r])
  <2>1. PhaseOf(new) = "canceled" /\ new.attempts = run[r].attempts
    BY <1>1 DEF CanceledRow, PhaseOf, RunRow
  <2>2. run[r].status \in Active /\ run' = [run EXCEPT ![r] = new] /\ execs' = execs
    BY <1>3 DEF Cancel
  <2> HIDE DEF new
  <2>3. /\ phase[r] \in {"waiting", "held"}
        /\ phase' = [phase EXCEPT ![r] = "canceled"]
        /\ token' = token
        /\ live' = live
    BY <1>1, <2>1, <2>2, PhaseCases DEF phase, token, live
  <2>4. Fenced!Cancel(r)
    BY <2>3 DEF Fenced!Cancel, Fenced!Unfinished, phase, token, live
  <2> QED BY <2>4 DEF Fenced!Next
<1>4. CASE Wake(r)
  <2> DEFINE new == [run[r] EXCEPT !.availableIn = 0]
  <2>1. PhaseOf(new) = PhaseOf(run[r]) /\ new.attempts = run[r].attempts
    BY <1>1 DEF PhaseOf, RunRow
  <2>2. run' = [run EXCEPT ![r] = new] /\ execs' = execs
    BY <1>4 DEF Wake
  <2> HIDE DEF new
  <2> QED BY <1>1, <2>1, <2>2 DEF phase, token, live
<1> QED BY <1>2, <1>3, <1>4 DEF Client, Fenced!Next

LEMMA HeartbeatStutters ==
  ASSUME IInv, NEW e \in execs, Heartbeat(e)
  PROVE  UNCHANGED <<phase, token, live>>
<1> DEFINE new == [run[e.run] EXCEPT !.availableIn = Lease]
<1>1. e.run \in Runs /\ run \in [Runs -> RunRow] /\ run[e.run] \in RunRow
  BY DEF IInv, TypeOK, Execution
<1>2. PhaseOf(new) = PhaseOf(run[e.run]) /\ new.attempts = run[e.run].attempts
  BY <1>1 DEF PhaseOf, RunRow
<1>3. run' = [run EXCEPT ![e.run] = new] /\ execs' = execs
  BY DEF Heartbeat
<1> HIDE DEF new
<1> QED BY <1>1, <1>2, <1>3 DEF phase, token, live

LEMMA StepRefines ==
  ASSUME IInv, [Next]_vars
  PROVE  [Fenced!Next]_(Fenced!vars)
<1> USE DEF Fenced!vars
<1>1. ASSUME NEW r \in Runs, Client(r) PROVE [Fenced!Next]_(Fenced!vars)
  BY <1>1, ClientRefines DEF phase, token, live
<1>2. ASSUME NEW w \in Slots, Poll(w) PROVE [Fenced!Next]_(Fenced!vars)
  BY <1>2, ClaimNoneRefines, ClaimRefines DEF Poll
<1>3. ASSUME NEW w \in Slots, Crash(w) PROVE [Fenced!Next]_(Fenced!vars)
  BY <1>3, CrashRefines DEF phase, token, live
<1>4. ASSUME NEW e \in execs, Heartbeat(e) PROVE [Fenced!Next]_(Fenced!vars)
  BY <1>4, HeartbeatStutters DEF phase, token, live
<1>5. ASSUME NEW e \in execs, End(e) PROVE [Fenced!Next]_(Fenced!vars)
  BY <1>5, EndRefines
<1>6. CASE Tick
  <2>1. \A r \in Runs : Kept(run[r], run'[r])
    BY <1>6, TickKeepsRow DEF Tick, IInv
  <2>2. execs' = execs
    BY <1>6, Zenon DEF Tick
  <2> QED BY <2>1, <2>2, KeptStutters DEF phase, token, live
<1>7. CASE UNCHANGED vars
  BY <1>7, KeptStutters DEF vars, phase, token, live
<1> QED BY <1>1, <1>2, <1>3, <1>4, <1>5, <1>6, <1>7 DEF Next

\* Leases, worker ids and timers implement the tokens of FencedRuns.
THEOREM Refinement == Spec => ImplementsFencedRuns
<1>1. Init => Fenced!Init
  BY DEF Init, Fenced!Init, AbsentRow, PhaseOf
<1>2. IInv /\ [Next]_vars => [Fenced!Next]_(Fenced!vars)
  BY StepRefines
<1> QED BY <1>1, <1>2, Invariance, PTL DEF Spec, Fenced!Spec, ImplementsFencedRuns
===============================================================================
