------------------------------ MODULE CronDispatch ------------------------------
(***************************************************************************)
(* Schedules and the ticks that fire them: the dispatcher loop and         *)
(* dispatchOnce (packages/engine/src/runner/cron.ts), the schedule store   *)
(* on Postgres (packages/api/src/store/schedules.ts) and the tick that     *)
(* POST /api/admin/tick runs (routes/schedules.ts).                        *)
(*                                                                         *)
(* A tick has a cutoff, the minute it takes from the clock, and a list of  *)
(* the schedules; for each that is due it claims the cutoff and then       *)
(* starts a run under the idempotency key of schedule and cutoff.  Ticks   *)
(* of several processes and requests overlap, and a slow tick claims a     *)
(* cutoff after its successors have claimed later ones.                    *)
(*                                                                         *)
(* A key is honoured for a while only (RunCatalog is about how), and a     *)
(* claim while the schedule exists: neither suffices without the other.    *)
(* The schedules of a tick are taken in any order.                         *)
(***************************************************************************)
EXTENDS Integers, Sequences

CONSTANTS
  Schedules,     \* schedule ids
  Due,           \* Due[s]: the minutes that match the schedule and are not past its end
  Loops,         \* processes that run startCronDispatcher
  Requests,      \* requests of POST /api/admin/tick, or calls of tickNow
  Interval,      \* tickIntervalMs, and length of a minute, in units of the clock
  KeyLife,       \* for how long the run of an idempotency key is found again
  MaxTime,       \* bound: the clock stops there
  MaxFaults,     \* bound: crashes, and statements that fail
  MaxDeleted,    \* bound: how often a schedule is deleted
  MaxTicks       \* bound: how many ticks the requests make

ASSUME DispatchAssumption ==
  /\ Interval \in Nat \ {0}
  /\ KeyLife \in Nat
  /\ MaxTime \in Nat /\ MaxFaults \in Nat /\ MaxDeleted \in Nat /\ MaxTicks \in Nat
  /\ Due \in [Schedules -> SUBSET Nat]
  /\ Loops \cap Requests = {}

Dispatchers == Loops \cup Requests
Never == -1
NoClaim == <<>>

Minute(t) == t \div Interval

VARIABLES
  now,
  row,        \* row[s]: exists, lastFired, and how often the id was created anew
  workflow,   \* the workflow of the schedules exists
  tick,       \* tick[d]: the tick a dispatcher is at
  wake,       \* wake[d]: when the timer of a loop fires
  runs,       \* the runs in the order of their creation: idempotency key, time of
              \* creation and, as history, the claim they were created for
  granted,    \* history: how often a claim was granted
  lost,       \* history: the claims, granted, of which the tick learned an error or died
  ticked,     \* history: the minutes at which each loop had a tick
  slow,       \* history: some tick of a loop took an interval or more
  faults, requested, deleted   \* counts of what is bounded

tables == <<row, workflow, runs>>
history == <<granted, lost>>
clocks == <<now, wake, ticked, slow>>
vars == <<tables, tick, history, clocks, faults, requested, deleted>>

Minutes == 0 .. Minute(MaxTime)
Cutoffs == Schedules \X Minutes
Claims == Schedules \X (0 .. MaxDeleted) \X Minutes

NoTick == [pc |-> "idle", cutoff |-> 0, began |-> 0, listed |-> {}, todo |-> {},
           firing |-> NoClaim]

RowRecord == [exists : BOOLEAN, lastFired : Minutes \cup {Never}, times : 0 .. MaxDeleted]

\* A tick fires one schedule at a time.
TickRecord ==
  {t \in [pc : {"idle", "listing", "listed", "claiming", "firing"}, cutoff : Minutes,
          began : 0 .. MaxTime, listed : SUBSET (Schedules \X (0 .. MaxDeleted)),
          todo : SUBSET Schedules, firing : Claims \cup {NoClaim}] :
     t.pc = "firing" <=> t.firing # NoClaim}

RunRecord == [key : Cutoffs, claim : Claims, at : 0 .. MaxTime]

\* A claim is of a cutoff, and of the schedule that had the id then.
CutoffOf(c) == <<c[1], c[3]>>

TypeOK ==
  /\ now \in 0 .. MaxTime
  /\ row \in [Schedules -> RowRecord]
  /\ workflow \in BOOLEAN
  /\ tick \in [Dispatchers -> TickRecord]
  /\ wake \in [Loops -> Nat]
  /\ runs \in Seq(RunRecord)
  /\ granted \in [Claims -> Nat]
  /\ lost \subseteq Claims
  /\ ticked \subseteq Loops \X Minutes
  /\ slow \in BOOLEAN
  /\ faults \in 0 .. MaxFaults /\ requested \in 0 .. MaxTicks /\ deleted \in 0 .. MaxDeleted

Init ==
  /\ now = 0
  /\ row = [s \in Schedules |-> [exists |-> TRUE, lastFired |-> Never, times |-> 0]]
  /\ workflow = TRUE
  /\ tick = [d \in Dispatchers |-> NoTick]
  /\ wake = [d \in Loops |-> 0]
  /\ runs = <<>>
  /\ granted = [c \in Claims |-> 0]
  /\ lost = {}
  /\ ticked = {}
  /\ slow = FALSE
  /\ faults = 0
  /\ requested = 0
  /\ deleted = 0

Fault == faults < MaxFaults /\ faults' = faults + 1

-----------------------------------------------------------------------------
(* The beginning of a tick *)

\* A loop ticks when it starts, and each time its timer fires: the cutoff is
\* fixed before the schedules are read.
BeginLoop(d) ==
  /\ tick[d].pc = "idle"
  /\ now >= wake[d]
  /\ tick' = [tick EXCEPT ![d] =
       [NoTick EXCEPT !.pc = "listing", !.cutoff = Minute(now), !.began = now]]
  /\ ticked' = ticked \cup {<<d, Minute(now)>>}
  /\ UNCHANGED <<tables, history, now, wake, slow, faults, requested, deleted>>

Rows == {<<s, row[s].times>> : s \in {s \in Schedules : row[s].exists}}
DueAt(rows, cutoff) == {s \in Schedules : cutoff \in Due[s] /\ \E e \in rows : e[1] = s}

List(d) ==
  /\ tick[d].pc = "listing"
  /\ tick' = [tick EXCEPT ![d] = [@ EXCEPT !.pc = "claiming", !.listed = Rows,
                                           !.todo = DueAt(Rows, tick[d].cutoff)]]
  /\ UNCHANGED <<tables, history, clocks, faults, requested, deleted>>

\* A call of tickNow is a tick of the time it is given, or of the present.
TickNow(d) ==
  /\ tick[d].pc = "idle"
  /\ requested < MaxTicks
  /\ requested' = requested + 1
  /\ \E minute \in Minutes :
       tick' = [tick EXCEPT ![d] = [NoTick EXCEPT !.pc = "listing", !.cutoff = minute]]
  /\ UNCHANGED <<tables, history, clocks, faults, deleted>>

\* A request reads the schedules first and looks at the clock afterwards.
BeginRequest(d) ==
  /\ tick[d].pc = "idle"
  /\ requested < MaxTicks
  /\ requested' = requested + 1
  /\ tick' = [tick EXCEPT ![d] = [NoTick EXCEPT !.pc = "listed", !.listed = Rows]]
  /\ UNCHANGED <<tables, history, clocks, faults, deleted>>

Dispatch(d) ==
  /\ tick[d].pc = "listed"
  /\ tick' = [tick EXCEPT ![d] =
       [@ EXCEPT !.pc = "claiming", !.cutoff = Minute(now),
                 !.todo = DueAt(tick[d].listed, Minute(now))]]
  /\ UNCHANGED <<tables, history, clocks, faults, requested, deleted>>

-----------------------------------------------------------------------------
(* The claim *)

\* Mutant: refuses the cutoff that was claimed last, and no other.
ClaimableUnlessLast(s, cutoff) == row[s].exists /\ row[s].lastFired # cutoff

\* A cutoff is refused once it, or a later one, was claimed.
Claimable(s, cutoff) == row[s].exists /\ row[s].lastFired < cutoff

Claim(d, s) == <<s, row[s].times, tick[d].cutoff>>
Advance(d, s) ==
  /\ Claimable(s, tick[d].cutoff)
  /\ row' = [row EXCEPT ![s] = [@ EXCEPT !.lastFired = tick[d].cutoff]]
  /\ granted' = [granted EXCEPT ![Claim(d, s)] = @ + 1]

TryClaim(d, s) ==
  /\ tick[d].pc = "claiming"
  /\ s \in tick[d].todo
  /\ Advance(d, s)
  /\ tick' = [tick EXCEPT ![d] = [@ EXCEPT !.pc = "firing", !.todo = tick[d].todo \ {s},
                                           !.firing = Claim(d, s)]]
  /\ UNCHANGED <<workflow, runs, lost, clocks, faults, requested, deleted>>

\* The schedule counts as already fired.
ClaimRefused(d, s) ==
  /\ tick[d].pc = "claiming"
  /\ s \in tick[d].todo
  /\ ~Claimable(s, tick[d].cutoff)
  /\ tick' = [tick EXCEPT ![d] = [@ EXCEPT !.todo = tick[d].todo \ {s}]]
  /\ UNCHANGED <<tables, history, clocks, faults, requested, deleted>>

\* The same when the answer of the database is lost after the commit.  (When
\* nothing was committed, a later tick of the minute may claim the cutoff.)
ClaimFails(d, s) ==
  /\ tick[d].pc = "claiming"
  /\ s \in tick[d].todo
  /\ Fault
  /\ \/ Advance(d, s)
     \/ UNCHANGED <<row, granted>>
  /\ lost' = lost \cup {Claim(d, s)}
  /\ tick' = [tick EXCEPT ![d] = [@ EXCEPT !.todo = tick[d].todo \ {s}]]
  /\ UNCHANGED <<workflow, runs, clocks, requested, deleted>>

-----------------------------------------------------------------------------
(* The run of a claimed cutoff *)

\* The idempotency key of the run, "cron:<id>:<cutoff>".
Key(d) == <<tick[d].firing[1], tick[d].cutoff>>

NewRun(d) == [key |-> Key(d), claim |-> tick[d].firing, at |-> now]

\* Mutant: the key is not passed on to the runtime.
CreateRunAlways(d) == runs' = Append(runs, NewRun(d))

\* The run that was created under the key not too long ago, or a new one.
CreateRun(d) ==
  runs' = IF \E i \in DOMAIN runs : runs[i].key = Key(d) /\ now - runs[i].at <= KeyLife
          THEN runs
          ELSE Append(runs, NewRun(d))

Fire(d) ==
  /\ tick[d].pc = "firing"
  /\ workflow
  /\ CreateRun(d)
  /\ tick' = [tick EXCEPT ![d] = [@ EXCEPT !.pc = "claiming", !.firing = NoClaim]]
  /\ UNCHANGED <<row, workflow, history, clocks, faults, requested, deleted>>

\* Mutant: what runWorkflow throws ends the tick.
AfterFailureStop(d) == [tick[d] EXCEPT !.pc = "claiming", !.firing = NoClaim, !.todo = {}]

\* A failure is recorded and the tick goes on with the next schedule.
AfterFailure(d) == [tick[d] EXCEPT !.pc = "claiming", !.firing = NoClaim]

\* runWorkflow throws: the workflow was deleted, or the runtime failed, before
\* the run was created or after.  Nobody fires this cutoff again.
FireFails(d) ==
  /\ tick[d].pc = "firing"
  /\ \/ /\ ~workflow
        /\ UNCHANGED <<runs, faults>>
     \/ /\ Fault
        /\ \/ UNCHANGED runs
           \/ workflow /\ CreateRun(d)
  /\ lost' = lost \cup {tick[d].firing}
  /\ tick' = [tick EXCEPT ![d] = AfterFailure(d)]
  /\ UNCHANGED <<row, workflow, granted, clocks, requested, deleted>>

-----------------------------------------------------------------------------
(* The end of a tick *)

\* A loop sets its timer when the tick is over.
End(d) ==
  /\ tick' = [tick EXCEPT ![d] = NoTick]
  /\ wake' = IF d \in Loops THEN [wake EXCEPT ![d] = now + Interval] ELSE wake
  /\ slow' = (slow \/ (d \in Loops /\ now - tick[d].began >= Interval))
  /\ UNCHANGED <<tables, granted, now, ticked, requested, deleted>>

EndTick(d) ==
  /\ tick[d].pc = "claiming"
  /\ tick[d].todo = {}
  /\ End(d)
  /\ UNCHANGED <<lost, faults>>

\* The list cannot be read: the loop goes on to its next tick, the request fails.
ListFails(d) ==
  /\ tick[d].pc = "listing"
  /\ Fault
  /\ End(d)
  /\ UNCHANGED lost

\* The process of a dispatcher dies; a loop starts again with a tick.
Crash(d) ==
  /\ Fault
  /\ tick[d].pc # "idle"
  /\ lost' = IF tick[d].pc = "firing" THEN lost \cup {tick[d].firing} ELSE lost
  /\ tick' = [tick EXCEPT ![d] = NoTick]
  /\ wake' = IF d \in Loops THEN [wake EXCEPT ![d] = now] ELSE wake
  /\ UNCHANGED <<tables, granted, now, ticked, slow, requested, deleted>>

-----------------------------------------------------------------------------
(* Schedules and the clock *)

Create(s) ==
  /\ ~row[s].exists
  /\ workflow
  /\ row' = [row EXCEPT ![s] = [exists |-> TRUE, lastFired |-> Never,
                                times |-> row[s].times + 1]]
  /\ UNCHANGED <<workflow, runs, tick, history, clocks, faults, requested, deleted>>

Delete(s) ==
  /\ row[s].exists
  /\ deleted < MaxDeleted
  /\ deleted' = deleted + 1
  /\ row' = [row EXCEPT ![s] = [@ EXCEPT !.exists = FALSE]]
  /\ UNCHANGED <<workflow, runs, tick, history, clocks, faults, requested>>

DeleteWorkflow ==
  /\ workflow
  /\ workflow' = FALSE
  /\ UNCHANGED <<row, runs, tick, history, clocks, faults, requested, deleted>>

\* Time passes; a timer that is due fires first.
Pass ==
  /\ now < MaxTime
  /\ \A d \in Loops : tick[d].pc = "idle" => wake[d] > now
  /\ now' = now + 1
  /\ UNCHANGED <<tables, tick, history, wake, ticked, slow, faults, requested, deleted>>

Tick(d) ==
  \/ List(d) \/ Dispatch(d) \/ Fire(d) \/ FireFails(d)
  \/ \E s \in Schedules : TryClaim(d, s) \/ ClaimRefused(d, s) \/ ClaimFails(d, s)
  \/ EndTick(d) \/ ListFails(d) \/ Crash(d)

Next ==
  \/ \E d \in Loops : BeginLoop(d)
  \/ \E d \in Requests : TickNow(d) \/ BeginRequest(d)
  \/ \E d \in Dispatchers : Tick(d)
  \/ \E s \in Schedules : Create(s) \/ Delete(s)
  \/ DeleteWorkflow
  \/ Pass

Spec == Init /\ [][Next]_vars

-----------------------------------------------------------------------------
(* Properties *)

\* The claim is once and for all: while a schedule exists, no cutoff of it is
\* granted a second time, though ticks claim their cutoffs late and out of order
\* and only the last one claimed is stored (tryClaim).
Once == INSTANCE ClaimOnce WITH Cutoffs <- Claims, granted <- granted
ClaimsOnce == Once!Spec

\* A cutoff is run twice only if both defences are gone: the schedule was created
\* anew under its id, which forgets the claims, and the idempotency key of the run
\* before has expired (tryClaim, dispatchOnce and createWorkflowRun).  A tick that
\* is late, repeated or of a time long past has no run of its own otherwise.
OneRunPerCutoff ==
  \A i, j \in DOMAIN runs :
    i < j /\ CutoffOf(runs[i].claim) = CutoffOf(runs[j].claim) =>
      /\ runs[i].claim # runs[j].claim
      /\ runs[j].at - runs[i].at > KeyLife

Accounted(c) ==
  \/ \E i \in DOMAIN runs : CutoffOf(runs[i].claim) = CutoffOf(c)
  \/ c \in lost
  \/ \E d \in Dispatchers : tick[d].firing = c

\* No cutoff is passed over in silence: when a tick has gone through its list,
\* each of its schedules that was due has claimed the cutoff (or a later one), or
\* its claim failed, or it is no longer the schedule listed; and each claim that
\* was granted has its run, is being fired, or failed (dispatchOnce).
TicksFireWhatIsDue ==
  /\ \A c \in Claims : granted[c] > 0 => Accounted(c)
  /\ \A d \in Dispatchers :
       tick[d].pc = "claiming" /\ tick[d].todo = {} =>
         \A e \in tick[d].listed :
           tick[d].cutoff \in Due[e[1]] =>
             LET r == row[e[1]] IN
             \/ r.lastFired >= tick[d].cutoff
             \/ ~r.exists \/ r.times # e[2]
             \/ <<e[1], e[2], tick[d].cutoff>> \in lost

\* The comment on startCronDispatcher: a tick is skipped if the one before took
\* longer than the interval.  So a loop whose ticks are all shorter, and that
\* is not restarted would tick in every minute.
ShortTicksMissNoMinute ==
  ~slow /\ faults = 0 =>
    \A d \in Loops : tick[d].pc # "idle" =>
      \A m \in 0 .. tick[d].cutoff : <<d, m>> \in ticked
===============================================================================
