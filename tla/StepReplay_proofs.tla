-------------------------- MODULE StepReplay_proofs --------------------------
(***************************************************************************)
(* Proofs about StepReplay, for any functions, slots, policy and limits.   *)
(***************************************************************************)
EXTENDS StepReplay, FiniteSetTheorems, WellFoundedInduction, TLAPS

-----------------------------------------------------------------------------
(* The inductive invariant *)

\* What the pass takes for the result of a step is a completed attempt of it.
HasResults(p) ==
    \A s \in Steps :
        pass[p].result[s] # 0 => pass[p].result[s] \in WithStatus(s, "completed")

\* A step that is being called has an attempt.
HasAttempts(p) ==
    \A s \in Steps :
        pass[p].branch[s] \in {"calling", "failing"} =>
            /\ pass[p].attempt[s] \in DOMAIN attempts
            /\ attempts[pass[p].attempt[s]].step = s

\* An insertion is sent only when the steps before it have completed.
InsertsInOrder(p) ==
    \A s \in Steps :
        pass[p].branch[s] = "inserting" => needs[s] \subseteq CompletedSteps

\* The function returns only with a result of every step.
ReturnsWithResults(p) ==
    pass[p].pc = "ending" /\ pass[p].outcome = "completed" =>
        \A s \in Steps : pass[p].result[s] # 0

SoundPass(p) ==
    HasResults(p) /\ HasAttempts(p) /\ InsertsInOrder(p) /\ ReturnsWithResults(p)

IInv ==
    /\ TypeOK
    /\ \A p \in DOMAIN pass : SoundPass(p)
    /\ StepsInOrder

-----------------------------------------------------------------------------
(* Types *)

\* A pass whose memory is replaced leaves a sequence of passes.
LEMMA ReplacedPass ==
    ASSUME NEW q \in Seq(Pass), NEW p \in DOMAIN q, NEW mem \in Pass
    PROVE  /\ [q EXCEPT ![p] = mem] \in Seq(Pass)
           /\ DOMAIN [q EXCEPT ![p] = mem] = DOMAIN q
  OBVIOUS

\* A non-empty set of numbers up to n has a greatest one.
LEMMA GreatestExists ==
    ASSUME NEW n \in Nat, NEW T \in SUBSET (1 .. n), T # {}
    PROVE  \E i \in T : \A j \in T : j <= i
<1> DEFINE less == {ss \in Nat \X Nat : ss[1] < ss[2]}
           distances == {d \in Nat : \E i \in T : d = n - i}
<1>1. IsWellFoundedOn(less, Nat)
  BY NatLessThanWellFounded DEF OpToRel
<1>2. \A i \in T : i \in Nat /\ n - i \in distances
  OBVIOUS
<1> HIDE DEF less
<1>3. PICK d \in distances : \A e \in distances : <<e, d>> \notin less
  <2>1. distances \subseteq Nat /\ distances # {}
    BY <1>2
  <2> QED
    BY <1>1, <2>1, WFMin
<1>4. PICK i \in T : d = n - i
  OBVIOUS
<1>5. \A j \in T : ~ (n - j < n - i)
  BY <1>2, <1>3, <1>4 DEF less
<1> QED
  BY <1>5

\* There are finitely many attempts.
LEMMA RowsAreFinite ==
    ASSUME NEW rows \in Seq(Attempt), NEW T \in SUBSET DOMAIN rows
    PROVE  IsFiniteSet(T) /\ Cardinality(T) \in Nat
<1>1. DOMAIN rows = 1 .. Len(rows) /\ Len(rows) \in Nat
  OBVIOUS
<1>2. IsFiniteSet(1 .. Len(rows))
  BY <1>1, FS_Interval
<1> QED
  BY <1>1, <1>2, FS_Subset, FS_CardinalityType

\* The failures of a step are a number, and its latest result is an attempt.
LEMMA AttemptsAreCounted ==
    ASSUME attempts \in Seq(Attempt), NEW s \in Steps
    PROVE  /\ FailedCount(s) \in Nat
           /\ CachedAttempt(s) \in Nat
           /\ CachedAttempt(s) # 0 => CachedAttempt(s) \in WithStatus(s, "completed")
<1> DEFINE done == WithStatus(s, "completed")
<1>1. DOMAIN attempts = 1 .. Len(attempts) /\ Len(attempts) \in Nat
  OBVIOUS
<1>2. done \subseteq DOMAIN attempts /\ WithStatus(s, "failed") \subseteq DOMAIN attempts
  BY DEF WithStatus
<1>3. FailedCount(s) \in Nat
  BY <1>2, RowsAreFinite DEF FailedCount
<1>4. CASE done = {}
  BY <1>3, <1>4 DEF CachedAttempt
<1>5. CASE done # {}
  <2>1. \E i \in done : \A j \in done : j <= i
    BY <1>1, <1>2, <1>5, GreatestExists
  <2>2. CachedAttempt(s) \in done
    BY <2>1, <1>5 DEF CachedAttempt
  <2> QED
    BY <2>2, <1>1, <1>2, <1>3
<1> QED
  BY <1>4, <1>5

-----------------------------------------------------------------------------
(* Rows that are kept *)

\* No attempt is deleted or given to another step, and a completed one stays so.
RowsKept ==
    /\ attempts' \in Seq(Attempt)
    /\ \A i \in DOMAIN attempts :
          /\ i \in DOMAIN attempts'
          /\ attempts'[i].step = attempts[i].step
          /\ attempts[i].status = "completed" => attempts'[i].status = "completed"

LEMMA CompletedStays ==
    ASSUME RowsKept
    PROVE  /\ \A s \in Steps : WithStatus(s, "completed") \subseteq WithStatus(s, "completed")'
           /\ CompletedSteps \subseteq CompletedSteps'
<1>1. \A s \in Steps : WithStatus(s, "completed") \subseteq WithStatus(s, "completed")'
  BY DEF RowsKept, WithStatus
<1>2. CompletedSteps \subseteq CompletedSteps'
  BY <1>1 DEF CompletedSteps
<1> QED
  BY <1>1, <1>2

\* A pass stays sound if whatever is new in its memory is right.
LEMMA PassStaysSound ==
    ASSUME RowsKept, needs' = needs, NEW p \in DOMAIN pass, SoundPass(p),
           \A s \in Steps :
              pass'[p].result[s] # 0 =>
                 \/ pass'[p].result[s] = pass[p].result[s]
                 \/ pass'[p].result[s] \in WithStatus(s, "completed")',
           \A s \in Steps :
              pass'[p].branch[s] \in {"calling", "failing"} =>
                 \/ /\ pass[p].branch[s] \in {"calling", "failing"}
                    /\ pass'[p].attempt[s] = pass[p].attempt[s]
                 \/ /\ pass'[p].attempt[s] \in DOMAIN attempts'
                    /\ attempts'[pass'[p].attempt[s]].step = s,
           \A s \in Steps :
              pass'[p].branch[s] = "inserting" =>
                 pass[p].branch[s] = "inserting" \/ needs[s] \subseteq CompletedSteps,
           pass'[p].pc = "ending" /\ pass'[p].outcome = "completed" =>
              \/ \A s \in Steps : pass'[p].result[s] # 0
              \/ /\ pass[p].pc = "ending" /\ pass[p].outcome = "completed"
                 /\ \A s \in Steps : pass[p].result[s] # 0 => pass'[p].result[s] # 0
    PROVE  SoundPass(p)'
<1>1. HasResults(p)'
  BY CompletedStays DEF SoundPass, HasResults
<1>2. HasAttempts(p)'
  BY DEF SoundPass, HasAttempts, RowsKept
<1>3. InsertsInOrder(p)'
  BY CompletedStays DEF SoundPass, InsertsInOrder
<1>4. ReturnsWithResults(p)'
  BY DEF SoundPass, ReturnsWithResults
<1> QED
  BY <1>1, <1>2, <1>3, <1>4 DEF SoundPass

\* Rows that are kept keep the order of the steps.
LEMMA OrderIsKept ==
    ASSUME RowsKept, needs' = needs, needs \in [Steps -> SUBSET Steps],
           StepsInOrder,
           \A i \in DOMAIN attempts' \ DOMAIN attempts :
              needs[attempts'[i].step] \subseteq CompletedSteps,
           run'.status = "completed" => CompletedSteps = Steps
    PROVE  StepsInOrder'
<1>1. CompletedSteps \subseteq CompletedSteps' /\ CompletedSteps' \subseteq Steps
  BY CompletedStays DEF CompletedSteps
<1>2. ASSUME NEW i \in DOMAIN attempts'
      PROVE  needs[attempts'[i].step] \subseteq CompletedSteps'
  <2>1. CASE i \in DOMAIN attempts
    <3>1. needs[attempts[i].step] \subseteq CompletedSteps
      BY <2>1 DEF StepsInOrder
    <3>2. attempts'[i].step = attempts[i].step
      BY <2>1 DEF RowsKept
    <3> QED
      BY <1>1, <3>1, <3>2
  <2>2. CASE i \notin DOMAIN attempts
    BY <1>1, <2>2
  <2> QED
    BY <2>1, <2>2
<1> QED
  BY <1>1, <1>2 DEF StepsInOrder

-----------------------------------------------------------------------------
(* One pass takes a step *)

\* It is enough that the pass itself stays sound and the rows are kept in order.
LEMMA PassStepKeepsIInv ==
    ASSUME IInv, NEW p \in DOMAIN pass, NEW STATE mem, mem \in Pass,
           pass' = [pass EXCEPT ![p] = mem],
           needs' = needs, run' \in Run, RowsKept, SoundPass(p)',
           \A i \in DOMAIN attempts' \ DOMAIN attempts :
              needs[attempts'[i].step] \subseteq CompletedSteps,
           run'.status = "completed" => CompletedSteps = Steps
    PROVE  IInv'
<1>1. pass \in Seq(Pass) /\ needs \in Programs
  BY DEF IInv, TypeOK
<1>2. pass' \in Seq(Pass) /\ DOMAIN pass' = DOMAIN pass
  BY <1>1, ReplacedPass
<1>3. TypeOK'
  BY <1>1, <1>2 DEF RowsKept, TypeOK
<1>4. ASSUME NEW q \in DOMAIN pass' PROVE SoundPass(q)'
  <2>1. CASE q = p
    BY <2>1
  <2>2. CASE q # p
    <3>1. pass'[q] = pass[q] /\ SoundPass(q)
      BY <1>1, <1>2, <2>2 DEF IInv
    <3> QED
      BY <1>2, <3>1, PassStaysSound
  <2> QED
    BY <2>1, <2>2
<1>5. StepsInOrder'
  <2>1. needs \in [Steps -> SUBSET Steps]
    BY <1>1, ProgramsAssumption
  <2> QED
    BY <2>1, OrderIsKept DEF IInv
<1> QED
  BY <1>3, <1>4, <1>5 DEF IInv

\* Without a change of rows or run, only the pass has to be looked at.
LEMMA MemoryStepKeepsIInv ==
    ASSUME IInv, NEW p \in DOMAIN pass, NEW STATE mem, mem \in Pass,
           pass' = [pass EXCEPT ![p] = mem],
           UNCHANGED <<needs, run, attempts>>, SoundPass(p)'
    PROVE  IInv'
<1>1. run' \in Run /\ RowsKept
  BY DEF IInv, TypeOK, RowsKept
<1>2. run'.status = "completed" => CompletedSteps = Steps
  BY DEF IInv, StepsInOrder
<1> QED
  BY <1>1, <1>2, PassStepKeepsIInv

LEMMA LoadKeepsIInv ==
    ASSUME IInv, NEW p \in DOMAIN pass, Load(p)
    PROVE  IInv'
<1> DEFINE mem == IF Len(attempts) > StepLimit THEN Ending(pass[p], "failed")
                  ELSE [pass[p] EXCEPT !.pc = "running",
                                       !.result = [s \in Steps |-> CachedAttempt(s)],
                                       !.failures = [s \in Steps |-> FailedCount(s)],
                                       !.stepCount = Len(attempts)]
<1>1. /\ pass \in Seq(Pass) /\ pass[p] \in Pass
      /\ attempts \in Seq(Attempt) /\ Len(attempts) \in Nat
  BY DEF IInv, TypeOK
<1>2. pass' = [pass EXCEPT ![p] = mem] /\ UNCHANGED <<needs, run, attempts>>
  BY DEF Load
<1>3. \A s \in Steps :
         /\ FailedCount(s) \in Nat
         /\ CachedAttempt(s) \in Nat
         /\ CachedAttempt(s) # 0 => CachedAttempt(s) \in WithStatus(s, "completed")
  BY <1>1, AttemptsAreCounted
<1>4. mem \in Pass
  BY <1>1, <1>3 DEF Ending, Pass, Outcome
<1>5. /\ pass'[p].branch = pass[p].branch /\ pass'[p].attempt = pass[p].attempt
      /\ pass'[p].pc = "ending" => pass'[p].outcome = "failed"
      /\ \/ pass'[p].result = pass[p].result
         \/ pass'[p].result = [s \in Steps |-> CachedAttempt(s)]
  BY <1>1, <1>2 DEF Ending, Pass
<1>6. RowsKept
  BY <1>1, <1>2 DEF RowsKept
<1>7. \A s \in Steps : pass'[p].result[s] # 0 =>
         \/ pass'[p].result[s] = pass[p].result[s]
         \/ pass'[p].result[s] \in WithStatus(s, "completed")'
  BY <1>2, <1>3, <1>5 DEF WithStatus
<1>8. SoundPass(p)'
  BY <1>2, <1>5, <1>6, <1>7, PassStaysSound DEF IInv
<1> QED
  BY <1>2, <1>4, <1>8, MemoryStepKeepsIInv

LEMMA FinishKeepsIInv ==
    ASSUME IInv, NEW p \in DOMAIN pass, Finish(p)
    PROVE  IInv'
<1> DEFINE mem == Ending(pass[p], "completed")
<1>1. pass \in Seq(Pass) /\ pass[p] \in Pass /\ attempts \in Seq(Attempt)
  BY DEF IInv, TypeOK
<1>2. /\ pass' = [pass EXCEPT ![p] = mem] /\ UNCHANGED <<needs, run, attempts>>
      /\ \A s \in Steps : pass[p].result[s] # 0
  BY DEF Finish
<1>3. mem \in Pass
  BY <1>1 DEF Ending, Pass, Outcome
<1>4. /\ pass'[p].branch = pass[p].branch /\ pass'[p].attempt = pass[p].attempt
      /\ pass'[p].result = pass[p].result
  BY <1>1, <1>2 DEF Ending, Pass
<1>5. RowsKept
  BY <1>1, <1>2 DEF RowsKept
<1>6. SoundPass(p)'
  BY <1>2, <1>4, <1>5, PassStaysSound DEF IInv
<1> QED
  BY <1>2, <1>3, <1>6, MemoryStepKeepsIInv

LEMMA EndKeepsIInv ==
    ASSUME IInv, NEW p \in DOMAIN pass, End(p)
    PROVE  IInv'
<1> DEFINE mem == [pass[p] EXCEPT !.pc = "ended"]
<1>1. /\ pass \in Seq(Pass) /\ pass[p] \in Pass
      /\ attempts \in Seq(Attempt) /\ run \in Run
  BY DEF IInv, TypeOK
<1>2. pass' = [pass EXCEPT ![p] = mem] /\ UNCHANGED <<needs, attempts>>
  BY DEF End
<1>3. mem \in Pass
  BY <1>1 DEF Pass
<1>4. /\ pass'[p].branch = pass[p].branch /\ pass'[p].attempt = pass[p].attempt
      /\ pass'[p].result = pass[p].result /\ pass'[p].pc = "ended"
  BY <1>1, <1>2 DEF Pass
<1>5. RowsKept
  BY <1>1, <1>2 DEF RowsKept
<1>6. SoundPass(p)'
  BY <1>2, <1>4, <1>5, PassStaysSound DEF IInv
<1>7. run' \in Run
  BY <1>1 DEF End, AfterTransition, Run, Pass, Outcome
<1>8. ASSUME run'.status = "completed" PROVE CompletedSteps = Steps
  <2>1. CASE OwnsRun(p)
    <3>1. pass[p].pc = "ending" /\ pass[p].outcome = "completed"
      BY <1>8, <2>1 DEF End, AfterTransition
    <3>2. \A s \in Steps : pass[p].result[s] \in WithStatus(s, "completed")
      BY <3>1 DEF IInv, SoundPass, HasResults, ReturnsWithResults
    <3> QED
      BY <3>2 DEF CompletedSteps
  <2>2. CASE ~OwnsRun(p)
    BY <1>8, <2>2 DEF End, IInv, StepsInOrder
  <2> QED
    BY <2>1, <2>2
<1> QED
  BY <1>2, <1>3, <1>5, <1>6, <1>7, <1>8, PassStepKeepsIInv

-----------------------------------------------------------------------------
(* One branch takes a step *)

\* A branch that throws changes nothing but itself and where its pass is.
LEMMA ThrownBranch ==
    ASSUME NEW STATE mem, mem \in Pass, NEW p, NEW s \in Steps,
           NEW STATE outcome, outcome \in {"pending", "failed"}
    PROVE  /\ Thrown(p, mem, s, outcome) \in Pass
           /\ Thrown(p, mem, s, outcome).result = mem.result
           /\ Thrown(p, mem, s, outcome).attempt = mem.attempt
           /\ Thrown(p, mem, s, outcome).branch = [mem.branch EXCEPT ![s] = "gone"]
           /\ \/ /\ Thrown(p, mem, s, outcome).pc = mem.pc
                 /\ Thrown(p, mem, s, outcome).outcome = mem.outcome
              \/ Thrown(p, mem, s, outcome).outcome # "completed"
<1> DEFINE gone == [mem EXCEPT !.branch[s] = "gone"]
<1>1. /\ gone \in Pass /\ gone.result = mem.result /\ gone.attempt = mem.attempt
      /\ gone.branch = [mem.branch EXCEPT ![s] = "gone"]
      /\ gone.pc = mem.pc /\ gone.outcome = mem.outcome
  BY DEF Pass, Branch
<1> HIDE DEF gone
<1>2. CASE IsActive(p)
  <2>1. Thrown(p, mem, s, outcome) = Ending(gone, outcome)
    BY <1>2 DEF Thrown, gone
  <2>2. /\ Ending(gone, outcome) \in Pass /\ Ending(gone, outcome).result = gone.result
        /\ Ending(gone, outcome).attempt = gone.attempt
        /\ Ending(gone, outcome).branch = gone.branch
        /\ Ending(gone, outcome).outcome # "completed"
    BY <1>1 DEF Ending, Pass, Outcome
  <2> QED
    BY <1>1, <2>1, <2>2
<1>3. CASE ~IsActive(p)
  <2>1. Thrown(p, mem, s, outcome) = gone
    BY <1>3 DEF Thrown, gone
  <2> QED
    BY <1>1, <2>1
<1> QED
  BY <1>2, <1>3

\* A pass whose branch has thrown is as sound as before.
LEMMA ThrownBranchIsSound ==
    ASSUME IInv, NEW p \in DOMAIN pass, NEW s \in Steps, RowsKept, needs' = needs,
           NEW STATE mem, mem \in Pass, mem.branch = pass[p].branch,
           mem.result = pass[p].result, mem.attempt = pass[p].attempt,
           mem.pc = pass[p].pc, mem.outcome = pass[p].outcome,
           NEW STATE outcome, outcome \in {"pending", "failed"},
           pass' = [pass EXCEPT ![p] = Thrown(p, mem, s, outcome)]
    PROVE  SoundPass(p)'
<1>1. pass \in Seq(Pass) /\ pass[p] \in Pass
  BY DEF IInv, TypeOK
<1>2. pass'[p] = Thrown(p, mem, s, outcome)
  BY <1>1
<1>3. /\ pass'[p].result = pass[p].result /\ pass'[p].attempt = pass[p].attempt
      /\ pass'[p].branch = [pass[p].branch EXCEPT ![s] = "gone"]
      /\ pass'[p].outcome = "completed" =>
            pass'[p].pc = pass[p].pc /\ pass'[p].outcome = pass[p].outcome
  BY <1>2, ThrownBranch
<1>4. \A t \in Steps : pass'[p].branch[t] \in {pass[p].branch[t], "gone"}
  BY <1>1, <1>3 DEF Pass
<1> QED
  BY <1>3, <1>4, PassStaysSound DEF IInv

LEMMA StartKeepsIInv ==
    ASSUME IInv, NEW p \in DOMAIN pass, NEW s \in Steps, Start(p, s)
    PROVE  IInv'
<1> DEFINE sent == [pass[p] EXCEPT !.branch[s] = "inserting"]
<1>1. /\ pass \in Seq(Pass) /\ pass[p] \in Pass
      /\ attempts \in Seq(Attempt) /\ needs \in [Steps -> SUBSET Steps]
  BY ProgramsAssumption DEF IInv, TypeOK
<1>2. UNCHANGED <<needs, run, attempts>> /\ RowsKept
  BY <1>1 DEF Start, RowsKept
<1>3. CASE pass[p].stepCount >= StepLimit
  <2>1. pass' = [pass EXCEPT ![p] = Thrown(p, pass[p], s, "failed")]
    BY <1>3 DEF Start
  <2>2. Thrown(p, pass[p], s, "failed") \in Pass
    BY <1>1, ThrownBranch
  <2>3. SoundPass(p)'
    BY <1>1, <1>2, <2>1, ThrownBranchIsSound
  <2> QED
    BY <1>2, <2>1, <2>2, <2>3, MemoryStepKeepsIInv
<1>4. CASE ~(pass[p].stepCount >= StepLimit)
  <2>1. pass' = [pass EXCEPT ![p] = sent]
    BY <1>4 DEF Start
  <2>2. sent \in Pass
    BY <1>1 DEF Pass, Branch
  <2>3. /\ pass'[p].result = pass[p].result /\ pass'[p].attempt = pass[p].attempt
        /\ pass'[p].branch = [pass[p].branch EXCEPT ![s] = "inserting"]
        /\ pass'[p].pc = pass[p].pc /\ pass'[p].outcome = pass[p].outcome
    BY <1>1, <2>1 DEF Pass
  <2>4. needs[s] \subseteq CompletedSteps
    BY <1>1 DEF Start, Reached, IInv, SoundPass, HasResults, CompletedSteps
  <2>5. \A t \in Steps :
           \/ pass'[p].branch[t] = pass[p].branch[t]
           \/ t = s /\ pass'[p].branch[t] = "inserting"
    BY <1>1, <2>3 DEF Pass
  <2>6. SoundPass(p)'
    BY <1>2, <2>3, <2>4, <2>5, PassStaysSound DEF IInv
  <2> QED
    BY <1>2, <2>1, <2>2, <2>6, MemoryStepKeepsIInv
<1> QED
  BY <1>3, <1>4

LEMMA FailKeepsIInv ==
    ASSUME IInv, NEW p \in DOMAIN pass, NEW s \in Steps, Fail(p, s)
    PROVE  IInv'
<1> DEFINE next == IF IsActive(p) THEN "failing" ELSE "gone"
           mem == [pass[p] EXCEPT !.branch[s] = next]
<1>1. /\ pass \in Seq(Pass) /\ pass[p] \in Pass /\ attempts \in Seq(Attempt)
  BY DEF IInv, TypeOK
<1>2. UNCHANGED <<needs, run, attempts>> /\ RowsKept
  BY <1>1 DEF Fail, RowsKept
<1>3. pass' = [pass EXCEPT ![p] = mem] /\ pass[p].branch[s] = "calling"
  BY DEF Fail
<1>4. next \in {"failing", "gone"}
  OBVIOUS
<1> HIDE DEF next
<1>5. mem \in Pass
  BY <1>1, <1>4 DEF Pass, Branch
<1>6. /\ pass'[p].result = pass[p].result /\ pass'[p].attempt = pass[p].attempt
      /\ pass'[p].branch = [pass[p].branch EXCEPT ![s] = next]
      /\ pass'[p].pc = pass[p].pc /\ pass'[p].outcome = pass[p].outcome
  BY <1>1, <1>3 DEF Pass
<1>7. \A t \in Steps :
         \/ pass'[p].branch[t] = pass[p].branch[t]
         \/ t = s /\ pass'[p].branch[t] = next
  BY <1>1, <1>6 DEF Pass
<1>8. SoundPass(p)'
  BY <1>2, <1>3, <1>4, <1>6, <1>7, PassStaysSound DEF IInv
<1> QED
  BY <1>2, <1>3, <1>5, <1>8, MemoryStepKeepsIInv

LEMMA InsertKeepsIInv ==
    ASSUME IInv, NEW p \in DOMAIN pass, NEW s \in Steps, Insert(p, s)
    PROVE  IInv'
<1> DEFINE last == Len(attempts')
           mem == [pass[p] EXCEPT !.branch[s] = "calling",
                                  !.attempt[s] = last,
                                  !.stepCount = pass[p].stepCount + 1]
           row == [step |-> s, status |-> "running"]
<1>1. /\ pass \in Seq(Pass) /\ pass[p] \in Pass
      /\ attempts \in Seq(Attempt) /\ run \in Run
  BY DEF IInv, TypeOK
<1>2. /\ attempts' = Append(attempts, row) /\ pass' = [pass EXCEPT ![p] = mem]
      /\ needs' = needs /\ run' = run /\ pass[p].branch[s] = "inserting"
  <2>1. /\ attempts' = Append(attempts, row)
        /\ needs' = needs /\ run' = run /\ pass[p].branch[s] = "inserting"
    BY DEF Insert
  <2>2. pass' = [pass EXCEPT ![p] = mem]
    BY DEF Insert
  <2> QED
    BY <2>1, <2>2
<1>3. row \in Attempt
  BY DEF Attempt
<1>4. /\ attempts' \in Seq(Attempt) /\ last = Len(attempts) + 1
      /\ last \in DOMAIN attempts' /\ attempts'[last] = row
      /\ DOMAIN attempts' \ DOMAIN attempts = {last}
      /\ \A i \in DOMAIN attempts : i \in DOMAIN attempts' /\ attempts'[i] = attempts[i]
  BY <1>1, <1>2, <1>3
<1>5. RowsKept
  BY <1>4 DEF RowsKept
<1>6. last \in Nat
  BY <1>1, <1>4
<1> HIDE DEF row, last
<1>7. mem \in Pass
  <2>1. pass[p].stepCount + 1 \in Nat
    BY <1>1 DEF Pass
  <2> QED
    BY <1>1, <1>6, <2>1 DEF Pass, Branch
<1>8. /\ pass'[p].result = pass[p].result
      /\ pass'[p].branch = [pass[p].branch EXCEPT ![s] = "calling"]
      /\ pass'[p].attempt = [pass[p].attempt EXCEPT ![s] = last]
      /\ pass'[p].pc = pass[p].pc /\ pass'[p].outcome = pass[p].outcome
  BY <1>1, <1>2 DEF Pass
<1>9. \A t \in Steps :
         \/ /\ pass'[p].branch[t] = pass[p].branch[t]
            /\ pass'[p].attempt[t] = pass[p].attempt[t]
         \/ /\ t = s /\ pass'[p].branch[t] = "calling"
            /\ pass'[p].attempt[t] = last
  BY <1>1, <1>8 DEF Pass
<1>10. attempts'[last].step = s
  BY <1>4 DEF row
<1>11. SoundPass(p)'
  <2>1. SoundPass(p)
    BY DEF IInv
  <2>2. \A t \in Steps :
           /\ pass'[p].branch[t] \in {"calling", "failing"} =>
                 \/ /\ pass[p].branch[t] \in {"calling", "failing"}
                    /\ pass'[p].attempt[t] = pass[p].attempt[t]
                 \/ /\ pass'[p].attempt[t] \in DOMAIN attempts'
                    /\ attempts'[pass'[p].attempt[t]].step = t
           /\ pass'[p].branch[t] = "inserting" => pass[p].branch[t] = "inserting"
    BY <1>4, <1>9, <1>10
  <2>3. /\ needs' = needs /\ pass'[p].result = pass[p].result
        /\ pass'[p].pc = pass[p].pc /\ pass'[p].outcome = pass[p].outcome
    BY <1>2, <1>8
  <2> QED
    BY <1>5, <2>1, <2>2, <2>3, PassStaysSound
<1>12. \A i \in DOMAIN attempts' \ DOMAIN attempts :
          needs[attempts'[i].step] \subseteq CompletedSteps
  BY <1>2, <1>4, <1>10 DEF IInv, SoundPass, InsertsInOrder
<1>13. run'.status = "completed" => CompletedSteps = Steps
  BY <1>2 DEF IInv, StepsInOrder
<1> QED
  BY <1>1, <1>2, <1>5, <1>7, <1>11, <1>12, <1>13, PassStepKeepsIInv

\* The row of a running attempt gets its status, all others stay.
LEMMA RowEnds ==
    ASSUME IInv, NEW i \in DOMAIN attempts, attempts[i].status = "running",
           NEW status \in {"completed", "failed"},
           attempts' = [attempts EXCEPT ![i].status = status]
    PROVE  /\ RowsKept /\ DOMAIN attempts' = DOMAIN attempts
           /\ attempts'[i].step = attempts[i].step /\ attempts'[i].status = status
<1>1. attempts \in Seq(Attempt)
  BY DEF IInv, TypeOK
<1>2. \A j \in DOMAIN attempts : attempts[j] \in Attempt
  BY <1>1
<1>3. DOMAIN attempts' = DOMAIN attempts
  BY <1>1
<1>4. attempts'[i] = [attempts[i] EXCEPT !.status = status]
  BY <1>1
<1>5. attempts'[i].step = attempts[i].step /\ attempts'[i].status = status
  BY <1>2, <1>4 DEF Attempt
<1>6. \A j \in DOMAIN attempts : j # i => attempts'[j] = attempts[j]
  BY <1>1
<1>7. attempts'[i] \in Attempt
  BY <1>2, <1>4 DEF Attempt
<1>8. attempts' \in Seq(Attempt)
  BY <1>1, <1>4, <1>7
<1> QED
  BY <1>3, <1>5, <1>6, <1>8 DEF RowsKept

LEMMA ReturnKeepsIInv ==
    ASSUME IInv, NEW p \in DOMAIN pass, NEW s \in Steps, Return(p, s)
    PROVE  IInv'
<1> DEFINE i == pass[p].attempt[s]
           stored == [pass[p] EXCEPT !.branch[s] = "done", !.result[s] = i]
<1>1. /\ pass \in Seq(Pass) /\ pass[p] \in Pass
      /\ attempts \in Seq(Attempt) /\ run \in Run
  BY DEF IInv, TypeOK
<1>2. needs' = needs /\ run' = run /\ pass[p].branch[s] = "calling"
  BY DEF Return, EndAttempt
<1>3. i \in DOMAIN attempts /\ attempts[i].step = s
  BY <1>2 DEF IInv, SoundPass, HasAttempts
<1>4. run'.status = "completed" => CompletedSteps = Steps
  BY <1>2 DEF IInv, StepsInOrder
<1>5. CASE OwnsAttempt(p, i)
  <2>1. /\ attempts' = [attempts EXCEPT ![i].status = "completed"]
        /\ pass' = [pass EXCEPT ![p] = stored] /\ attempts[i].status = "running"
    BY <1>5 DEF Return, OwnsAttempt, EndAttempt
  <2>2. /\ RowsKept /\ DOMAIN attempts' = DOMAIN attempts
        /\ attempts'[i].step = s /\ attempts'[i].status = "completed"
    BY <1>3, <2>1, RowEnds
  <2>3. i \in Nat \ {0}
    BY <1>1, <1>3
  <2> HIDE DEF i
  <2>4. stored \in Pass
    BY <1>1, <2>3 DEF Pass, Branch
  <2>5. /\ pass'[p].result = [pass[p].result EXCEPT ![s] = i]
        /\ pass'[p].branch = [pass[p].branch EXCEPT ![s] = "done"]
        /\ pass'[p].attempt = pass[p].attempt
        /\ pass'[p].pc = pass[p].pc /\ pass'[p].outcome = pass[p].outcome
    BY <1>1, <2>1 DEF Pass
  <2>6. \A t \in Steps :
           \/ /\ pass'[p].branch[t] = pass[p].branch[t]
              /\ pass'[p].result[t] = pass[p].result[t]
           \/ /\ t = s /\ pass'[p].branch[t] = "done"
              /\ pass'[p].result[t] = i
    BY <1>1, <2>5 DEF Pass
  <2>7. i \in WithStatus(s, "completed")'
    BY <1>3, <2>2 DEF WithStatus
  <2>8. SoundPass(p)'
    BY <1>2, <2>2, <2>3, <2>5, <2>6, <2>7, PassStaysSound DEF IInv
  <2> QED
    BY <1>1, <1>2, <1>4, <2>1, <2>2, <2>4, <2>8, PassStepKeepsIInv
<1>6. CASE ~OwnsAttempt(p, i)
  <2>1. /\ pass' = [pass EXCEPT ![p] = Thrown(p, pass[p], s, "pending")]
        /\ attempts' = attempts
    BY <1>6 DEF Return, EndAttempt
  <2>2. RowsKept
    BY <1>1, <2>1 DEF RowsKept
  <2>3. Thrown(p, pass[p], s, "pending") \in Pass
    BY <1>1, ThrownBranch
  <2>4. SoundPass(p)'
    BY <1>1, <1>2, <2>1, <2>2, ThrownBranchIsSound
  <2> QED
    BY <1>2, <2>1, <2>3, <2>4, MemoryStepKeepsIInv
<1> QED
  BY <1>5, <1>6

LEMMA RecordFailureKeepsIInv ==
    ASSUME IInv, NEW p \in DOMAIN pass, NEW s \in Steps, RecordFailure(p, s)
    PROVE  IInv'
<1> DEFINE i == pass[p].attempt[s]
           count == pass[p].failures[s] + 1
           counted == [pass[p] EXCEPT !.failures[s] = count]
<1>1. /\ pass \in Seq(Pass) /\ pass[p] \in Pass
      /\ attempts \in Seq(Attempt) /\ run \in Run
  BY DEF IInv, TypeOK
<1>2. needs' = needs /\ run' = run /\ pass[p].branch[s] = "failing"
  BY DEF RecordFailure, EndAttempt
<1>3. i \in DOMAIN attempts
  BY <1>2 DEF IInv, SoundPass, HasAttempts
<1>4. run'.status = "completed" => CompletedSteps = Steps
  BY <1>2 DEF IInv, StepsInOrder
<1>5. CASE OwnsAttempt(p, i)
  <2>1. /\ attempts' = [attempts EXCEPT ![i].status = "failed"]
        /\ pass' = [pass EXCEPT ![p] = Thrown(p, counted, s, AfterFailures(count))]
        /\ attempts[i].status = "running"
    BY <1>5 DEF RecordFailure, OwnsAttempt, EndAttempt
  <2>2. RowsKept /\ DOMAIN attempts' = DOMAIN attempts
    BY <1>3, <2>1, RowEnds
  <2>3. count \in Nat
    BY <1>1 DEF Pass
  <2> HIDE DEF count
  <2>4. /\ counted \in Pass /\ counted.branch = pass[p].branch
        /\ counted.result = pass[p].result /\ counted.attempt = pass[p].attempt
        /\ counted.pc = pass[p].pc /\ counted.outcome = pass[p].outcome
    BY <1>1, <2>3 DEF Pass
  <2>5. AfterFailures(count) \in {"pending", "failed"}
    BY DEF AfterFailures
  <2> HIDE DEF counted, i
  <2>6. Thrown(p, counted, s, AfterFailures(count)) \in Pass
    BY <2>4, <2>5, ThrownBranch
  <2>7. SoundPass(p)'
    BY <1>2, <2>1, <2>2, <2>4, <2>5, ThrownBranchIsSound
  <2> QED
    BY <1>1, <1>2, <1>4, <2>1, <2>2, <2>6, <2>7, PassStepKeepsIInv
<1>6. CASE ~OwnsAttempt(p, i)
  <2>1. /\ pass' = [pass EXCEPT ![p] = Thrown(p, pass[p], s, "pending")]
        /\ attempts' = attempts
    BY <1>6 DEF RecordFailure, EndAttempt
  <2>2. RowsKept
    BY <1>1, <2>1 DEF RowsKept
  <2>3. Thrown(p, pass[p], s, "pending") \in Pass
    BY <1>1, ThrownBranch
  <2>4. SoundPass(p)'
    BY <1>1, <1>2, <2>1, <2>2, ThrownBranchIsSound
  <2> QED
    BY <1>2, <2>1, <2>3, <2>4, MemoryStepKeepsIInv
<1> QED
  BY <1>5, <1>6

-----------------------------------------------------------------------------
(* The run is claimed or canceled *)

LEMMA ClaimKeepsIInv ==
    ASSUME IInv, NEW w \in Slots, Claim(w)
    PROVE  IInv'
<1>1. /\ pass \in Seq(Pass) /\ attempts \in Seq(Attempt) /\ needs \in Programs
      /\ needs \in [Steps -> SUBSET Steps]
  BY ProgramsAssumption DEF IInv, TypeOK
<1>2. /\ pass' = Append(pass, NewPass(w)) /\ run' = [status |-> "running", owner |-> w]
      /\ needs' = needs /\ attempts' = attempts
  BY DEF Claim
<1>3. /\ NewPass(w) \in Pass /\ NewPass(w).pc = "loading"
      /\ \A s \in Steps : NewPass(w).result[s] = 0 /\ NewPass(w).branch[s] = "idle"
  BY DEF NewPass, Pass, Branch, Outcome
<1>4. /\ pass' \in Seq(Pass) /\ DOMAIN pass' = DOMAIN pass \union {Len(pass) + 1}
      /\ \A p \in DOMAIN pass : pass'[p] = pass[p]
      /\ pass'[Len(pass) + 1] = NewPass(w)
  BY <1>1, <1>2, <1>3
<1>5. run' \in Run /\ RowsKept
  BY <1>1, <1>2 DEF Run, RowsKept
<1>6. TypeOK'
  BY <1>1, <1>2, <1>4, <1>5 DEF TypeOK
<1>7. ASSUME NEW p \in DOMAIN pass' PROVE SoundPass(p)'
  <2>1. CASE p \in DOMAIN pass
    <3>1. SoundPass(p) /\ pass'[p] = pass[p]
      BY <1>4, <2>1 DEF IInv
    <3> QED
      BY <1>2, <1>5, <2>1, <3>1, PassStaysSound
  <2>2. CASE p = Len(pass) + 1
    BY <1>3, <1>4, <2>2
       DEF SoundPass, HasResults, HasAttempts, InsertsInOrder, ReturnsWithResults
  <2> QED
    BY <1>4, <2>1, <2>2
<1>8. StepsInOrder'
  BY <1>1, <1>2, <1>5, OrderIsKept DEF IInv
<1> QED
  BY <1>6, <1>7, <1>8 DEF IInv

LEMMA CancelKeepsIInv ==
    ASSUME IInv, Cancel
    PROVE  IInv'
<1>1. /\ attempts \in Seq(Attempt) /\ needs \in [Steps -> SUBSET Steps]
  BY ProgramsAssumption DEF IInv, TypeOK
<1>2. /\ run' = [status |-> "canceled", owner |-> None]
      /\ UNCHANGED <<needs, attempts, pass>>
  BY DEF Cancel
<1>3. run' \in Run /\ RowsKept
  BY <1>1, <1>2 DEF Run, RowsKept
<1>4. TypeOK'
  BY <1>2, <1>3 DEF IInv, TypeOK
<1>5. \A p \in DOMAIN pass' : SoundPass(p)'
  BY <1>2, <1>3, PassStaysSound DEF IInv
<1>6. StepsInOrder'
  BY <1>1, <1>2, <1>3, OrderIsKept DEF IInv
<1> QED
  BY <1>4, <1>5, <1>6 DEF IInv

-----------------------------------------------------------------------------
(* The theorems *)

LEMMA InitEstablishesIInv == Init => IInv
<1> SUFFICES ASSUME Init PROVE IInv
  OBVIOUS
<1>1. TypeOK
  BY DEF Init, TypeOK, Run, Outcome
<1>2. \A p \in DOMAIN pass : SoundPass(p)
  BY DEF Init
<1>3. StepsInOrder
  BY DEF Init, StepsInOrder
<1> QED
  BY <1>1, <1>2, <1>3 DEF IInv

LEMMA NextKeepsIInv == IInv /\ [Next]_vars => IInv'
<1> SUFFICES ASSUME IInv, [Next]_vars PROVE IInv'
  OBVIOUS
<1>1. CASE UNCHANGED vars
  BY <1>1 DEF vars, IInv, TypeOK, SoundPass, HasResults, HasAttempts, InsertsInOrder,
              ReturnsWithResults, StepsInOrder, CompletedSteps, WithStatus
<1>2. CASE Cancel
  BY <1>2, CancelKeepsIInv
<1>3. CASE \E w \in Slots : Claim(w)
  BY <1>3, ClaimKeepsIInv
<1>4. CASE \E p \in DOMAIN pass : Load(p) \/ Finish(p) \/ End(p)
  BY <1>4, LoadKeepsIInv, FinishKeepsIInv, EndKeepsIInv
<1>5. CASE \E p \in DOMAIN pass, s \in Steps :
              Start(p, s) \/ Insert(p, s) \/ Return(p, s) \/ Fail(p, s) \/ RecordFailure(p, s)
  BY <1>5, StartKeepsIInv, InsertKeepsIInv, ReturnKeepsIInv, FailKeepsIInv,
     RecordFailureKeepsIInv
<1> QED
  BY <1>1, <1>2, <1>3, <1>4, <1>5 DEF Next

LEMMA Invariance == Spec => []IInv
  BY InitEstablishesIInv, NextKeepsIInv, PTL DEF Spec

\* The rows and the memory of the passes keep their types.
THEOREM TypeCorrect == Spec => []TypeOK
<1>1. IInv => TypeOK
  BY DEF IInv
<1> QED
  BY <1>1, Invariance, PTL

\* However often the run changes hands, no step begins before the steps it comes
\* after have completed, and the run does not complete before its last step.
THEOREM ReplayKeepsOrder == Spec => []StepsInOrder
<1>1. IInv => StepsInOrder
  BY DEF IInv
<1> QED
  BY <1>1, Invariance, PTL

\* No branch of any pass changes an attempt of a run that has ended.
THEOREM EndedRunsAreLeftAlone == Spec => AttemptsOfEndedRunsStay
<1> DEFINE Stay == run.status \in {"completed", "failed", "canceled"} =>
                      /\ run' = run
                      /\ \A i \in DOMAIN attempts : attempts'[i] = attempts[i]
<1>1. ASSUME IInv, [Next]_vars PROVE [Stay]_vars
  <2> SUFFICES ASSUME Next, run.status \in {"completed", "failed", "canceled"}
               PROVE  /\ run' = run
                      /\ \A i \in DOMAIN attempts : attempts'[i] = attempts[i]
    BY <1>1
  <2>1. attempts \in Seq(Attempt)
    BY <1>1 DEF IInv, TypeOK
  <2>2. ~Cancel /\ \A w \in Slots : ~Claim(w)
    BY DEF Cancel, Claim
  <2>3. ASSUME NEW p \in DOMAIN pass
        PROVE  Load(p) \/ Finish(p) \/ End(p) => UNCHANGED <<run, attempts>>
    BY DEF Load, Finish, End, OwnsRun
  <2>4. ASSUME NEW p \in DOMAIN pass, NEW s \in Steps
        PROVE  Start(p, s) \/ Return(p, s) \/ Fail(p, s) \/ RecordFailure(p, s)
                  => UNCHANGED <<run, attempts>>
    BY DEF Start, Return, Fail, RecordFailure, OwnsAttempt, EndAttempt
  <2>5. ASSUME NEW p \in DOMAIN pass, NEW s \in Steps, Insert(p, s)
        PROVE  run' = run /\ \A i \in DOMAIN attempts : attempts'[i] = attempts[i]
    BY <2>1, <2>5 DEF Insert
  <2> QED
    BY <2>2, <2>3, <2>4, <2>5 DEF Next
<1> QED
  BY <1>1, Invariance, PTL DEF Spec, AttemptsOfEndedRunsStay

-----------------------------------------------------------------------------
(* Why a run fails: what a pass has counted is in the rows. *)

Reason ==
    \/ \E s \in Steps : FailedCount(s) >= MaxStepAttempts
    \/ Len(attempts) >= StepLimit

\* No pass has counted more failures or attempts than there are, and one that is
\* about to fail the run has a reason.
Counts(p) ==
    /\ \A s \in Steps : pass[p].failures[s] <= FailedCount(s)
    /\ pass[p].stepCount <= Len(attempts)
    /\ pass[p].outcome = "failed" => Reason

CountInv ==
    /\ \A p \in DOMAIN pass : Counts(p)
    /\ run.status = "failed" => Reason

\* No step forgets an attempt or a failure.
HistoryKept ==
    /\ attempts \in Seq(Attempt) /\ attempts' \in Seq(Attempt)
    /\ \A i \in DOMAIN attempts :
          /\ i \in DOMAIN attempts'
          /\ attempts'[i].step = attempts[i].step
          /\ attempts[i].status = "failed" => attempts'[i].status = "failed"

LEMMA ReasonsStay ==
    ASSUME HistoryKept
    PROVE  /\ \A s \in Steps :
                 FailedCount(s) \in Nat /\ FailedCount(s)' \in Nat /\ FailedCount(s) <= FailedCount(s)'
           /\ Len(attempts) \in Nat /\ Len(attempts') \in Nat /\ Len(attempts) <= Len(attempts')
           /\ Reason => Reason'
<1>1. ASSUME NEW s \in Steps
      PROVE  FailedCount(s) \in Nat /\ FailedCount(s)' \in Nat /\ FailedCount(s) <= FailedCount(s)'
  <2>1. /\ FailedCount(s) \in Nat
        /\ IsFiniteSet(WithStatus(s, "failed")') /\ FailedCount(s)' \in Nat
    <3>1. /\ WithStatus(s, "failed") \subseteq DOMAIN attempts
          /\ WithStatus(s, "failed")' \subseteq DOMAIN attempts'
      BY DEF WithStatus
    <3> QED
      BY <3>1, RowsAreFinite DEF HistoryKept, FailedCount
  <2>2. WithStatus(s, "failed") \subseteq WithStatus(s, "failed")'
    BY DEF HistoryKept, WithStatus
  <2>3. Cardinality(WithStatus(s, "failed")) <= Cardinality(WithStatus(s, "failed")')
    BY <2>1, <2>2, FS_Subset
  <2> QED
    BY <2>1, <2>3 DEF FailedCount
<1>2. Len(attempts) \in Nat /\ Len(attempts') \in Nat /\ Len(attempts) <= Len(attempts')
  <2>1. /\ DOMAIN attempts = 1 .. Len(attempts) /\ Len(attempts) \in Nat
        /\ DOMAIN attempts' = 1 .. Len(attempts') /\ Len(attempts') \in Nat
    BY DEF HistoryKept
  <2>2. Len(attempts) # 0 => Len(attempts) \in 1 .. Len(attempts')
    BY <2>1 DEF HistoryKept
  <2> QED
    BY <2>1, <2>2
<1>3. Reason => Reason'
  BY <1>1, <1>2, BoundsAssumption DEF Reason
<1> QED
  BY <1>1, <1>2, <1>3

\* The statements insert rows or end running ones.
LEMMA NextKeepsHistory ==
    ASSUME IInv, [Next]_vars
    PROVE  HistoryKept
<1>1. attempts \in Seq(Attempt)
  BY DEF IInv, TypeOK
<1>2. attempts' \in Seq(Attempt)
  BY NextKeepsIInv DEF IInv, TypeOK
<1>3. CASE attempts' = attempts
  BY <1>1, <1>3 DEF HistoryKept
<1>4. ASSUME NEW p \in DOMAIN pass, NEW s \in Steps, Insert(p, s) PROVE HistoryKept
  BY <1>1, <1>2, <1>4 DEF Insert, HistoryKept
<1>5. ASSUME NEW p \in DOMAIN pass, NEW s \in Steps, Return(p, s) \/ RecordFailure(p, s),
             OwnsAttempt(p, pass[p].attempt[s])
      PROVE  HistoryKept
  <2>1. PICK status \in {"completed", "failed"} :
           attempts' = [attempts EXCEPT ![pass[p].attempt[s]].status = status]
    BY <1>5 DEF Return, RecordFailure, EndAttempt
  <2>2. /\ pass[p].attempt[s] \in DOMAIN attempts
        /\ attempts[pass[p].attempt[s]].status = "running"
    BY <1>5 DEF Return, RecordFailure, OwnsAttempt, IInv, SoundPass, HasAttempts, EndAttempt
  <2>3. RowsKept
    BY <2>1, <2>2, RowEnds
  <2>4. \A i \in DOMAIN attempts : i # pass[p].attempt[s] => attempts'[i] = attempts[i]
    BY <1>1, <2>1
  <2> QED
    BY <1>1, <1>2, <2>2, <2>3, <2>4 DEF RowsKept, HistoryKept
<1>6. ASSUME NEW p \in DOMAIN pass, NEW s \in Steps, Return(p, s) \/ RecordFailure(p, s),
             ~OwnsAttempt(p, pass[p].attempt[s])
      PROVE  attempts' = attempts
  BY <1>6 DEF Return, RecordFailure, EndAttempt
<1>7. ASSUME NEW p \in DOMAIN pass, NEW s \in Steps, Start(p, s) \/ Fail(p, s)
      PROVE  attempts' = attempts
  BY <1>7 DEF Start, Fail
<1>8. ASSUME NEW p \in DOMAIN pass, Load(p) \/ Finish(p) \/ End(p)
      PROVE  attempts' = attempts
  BY <1>8 DEF Load, Finish, End
<1>9. UNCHANGED vars \/ Cancel \/ (\E w \in Slots : Claim(w)) => attempts' = attempts
  BY DEF vars, Cancel, Claim
<1> QED
  BY <1>3, <1>4, <1>5, <1>6, <1>7, <1>8, <1>9 DEF Next

\* A pass goes on counting right if whatever it has newly counted is in the rows.
LEMMA CountsStay ==
    ASSUME HistoryKept, NEW p \in DOMAIN pass, Counts(p), pass[p] \in Pass,
           \A s \in Steps :
              pass'[p].failures[s] = pass[p].failures[s] \/ pass'[p].failures[s] <= FailedCount(s)',
           pass'[p].stepCount = pass[p].stepCount \/ pass'[p].stepCount <= Len(attempts'),
           pass'[p].outcome = "failed" => pass[p].outcome = "failed" \/ Reason'
    PROVE  Counts(p)'
<1>1. /\ \A s \in Steps : pass[p].failures[s] \in Nat
      /\ pass[p].stepCount \in Nat
  BY DEF Pass
<1>2. \A s \in Steps : pass'[p].failures[s] <= FailedCount(s)'
  BY <1>1, ReasonsStay DEF Counts
<1>3. pass'[p].stepCount <= Len(attempts')
  BY <1>1, ReasonsStay DEF Counts
<1>4. pass'[p].outcome = "failed" => Reason'
  BY ReasonsStay DEF Counts
<1> QED
  BY <1>2, <1>3, <1>4 DEF Counts

\* A branch that throws leaves what its pass has counted.
LEMMA ThrownCounts ==
    ASSUME NEW STATE mem, mem \in Pass, NEW p, NEW s \in Steps,
           NEW STATE outcome, outcome \in {"pending", "failed"}
    PROVE  /\ Thrown(p, mem, s, outcome).failures = mem.failures
           /\ Thrown(p, mem, s, outcome).stepCount = mem.stepCount
           /\ Thrown(p, mem, s, outcome).outcome \in {mem.outcome, outcome}
<1> DEFINE gone == [mem EXCEPT !.branch[s] = "gone"]
<1>1. /\ gone \in Pass /\ gone.failures = mem.failures /\ gone.stepCount = mem.stepCount
      /\ gone.outcome = mem.outcome
  BY DEF Pass, Branch
<1>2. Thrown(p, mem, s, outcome) \in {gone, Ending(gone, outcome)}
  BY DEF Thrown
<1> HIDE DEF gone
<1>3. /\ Ending(gone, outcome).failures = gone.failures
      /\ Ending(gone, outcome).stepCount = gone.stepCount
      /\ Ending(gone, outcome).outcome = outcome
  BY <1>1 DEF Ending, Pass
<1> QED
  BY <1>1, <1>2, <1>3

\* When one pass takes a step, the counts of the others stay.
LEMMA PassStepKeepsCounts ==
    ASSUME IInv, CountInv, HistoryKept, NEW p \in DOMAIN pass, NEW STATE mem,
           pass' = [pass EXCEPT ![p] = mem], Counts(p)',
           run'.status = "failed" => run.status = "failed" \/ pass[p].outcome = "failed"
    PROVE  CountInv'
<1>1. pass \in Seq(Pass) /\ \A q \in DOMAIN pass : pass[q] \in Pass /\ Counts(q)
  BY DEF IInv, TypeOK, CountInv
<1>2. DOMAIN pass' = DOMAIN pass /\ \A q \in DOMAIN pass : q # p => pass'[q] = pass[q]
  BY <1>1
<1>3. \A q \in DOMAIN pass : q # p => Counts(q)'
  BY <1>1, <1>2, CountsStay
<1>4. run'.status = "failed" => Reason'
  BY <1>1, ReasonsStay DEF CountInv, Counts
<1> QED
  BY <1>2, <1>3, <1>4 DEF CountInv

\* The failure a pass stores is one more than there were.
LEMMA FailureIsCounted ==
    ASSUME IInv, HistoryKept, NEW i \in DOMAIN attempts, NEW s \in Steps,
           attempts[i].status = "running", attempts[i].step = s,
           attempts' = [attempts EXCEPT ![i].status = "failed"]
    PROVE  FailedCount(s) + 1 <= FailedCount(s)'
<1> DEFINE old == WithStatus(s, "failed")
           new == WithStatus(s, "failed")'
<1>1. i \in new /\ i \notin old
  BY RowEnds DEF WithStatus
<1>2. old \union {i} \subseteq new
  BY <1>1 DEF HistoryKept, WithStatus
<1>3. old \subseteq DOMAIN attempts /\ new \subseteq DOMAIN attempts'
  BY DEF WithStatus
<1>4. IsFiniteSet(old) /\ Cardinality(old) \in Nat /\ IsFiniteSet(new) /\ Cardinality(new) \in Nat
  BY <1>3, RowsAreFinite DEF HistoryKept
<1>5. IsFiniteSet(old \union {i}) /\ Cardinality(old \union {i}) = Cardinality(old) + 1
  BY <1>1, <1>4, FS_AddElement
<1>6. Cardinality(old \union {i}) <= Cardinality(new)
  BY <1>2, <1>4, FS_Subset
<1> QED
  BY <1>5, <1>6 DEF FailedCount

LEMMA LoadKeepsCounts ==
    ASSUME IInv, HistoryKept, NEW p \in DOMAIN pass, Load(p), Counts(p)
    PROVE  Counts(p)'
<1>1. pass \in Seq(Pass) /\ pass[p] \in Pass /\ attempts' = attempts
  BY DEF IInv, TypeOK, Load
<1>2. /\ \A s \in Steps : FailedCount(s)' = FailedCount(s) /\ FailedCount(s) \in Nat
      /\ Len(attempts) \in Nat /\ Len(attempts') = Len(attempts)
  BY <1>1, ReasonsStay DEF FailedCount, WithStatus
<1>3. CASE Len(attempts) > StepLimit
  <2>1. pass'[p] = Ending(pass[p], "failed")
    BY <1>1, <1>3 DEF Load
  <2>2. pass'[p].failures = pass[p].failures /\ pass'[p].stepCount = pass[p].stepCount
    BY <1>1, <2>1 DEF Ending, Pass
  <2>3. Reason'
    BY <1>2, <1>3, BoundsAssumption DEF Reason
  <2> QED
    BY <1>1, <2>2, <2>3, CountsStay
<1>4. CASE ~(Len(attempts) > StepLimit)
  <2>1. /\ pass'[p].failures = [s \in Steps |-> FailedCount(s)]
        /\ pass'[p].stepCount = Len(attempts) /\ pass'[p].outcome = pass[p].outcome
    BY <1>1, <1>4 DEF Load, Pass
  <2>2. /\ \A s \in Steps : pass'[p].failures[s] <= FailedCount(s)'
        /\ pass'[p].stepCount <= Len(attempts')
    BY <1>2, <2>1
  <2> QED
    BY <1>1, <2>1, <2>2, CountsStay
<1> QED
  BY <1>3, <1>4

LEMMA StartKeepsCounts ==
    ASSUME IInv, HistoryKept, NEW p \in DOMAIN pass, NEW s \in Steps, Start(p, s), Counts(p)
    PROVE  Counts(p)'
<1>1. pass \in Seq(Pass) /\ pass[p] \in Pass /\ attempts' = attempts
  BY DEF IInv, TypeOK, Start
<1>2. CASE pass[p].stepCount >= StepLimit
  <2>1. pass'[p] = Thrown(p, pass[p], s, "failed")
    BY <1>1, <1>2 DEF Start
  <2>2. pass'[p].failures = pass[p].failures /\ pass'[p].stepCount = pass[p].stepCount
    BY <1>1, <2>1, ThrownCounts
  <2>3. pass[p].stepCount \in Nat /\ pass[p].stepCount <= Len(attempts)
    BY <1>1 DEF Pass, Counts
  <2>4. Reason'
    BY <1>1, <1>2, <2>3, ReasonsStay, BoundsAssumption DEF Reason
  <2> QED
    BY <1>1, <2>2, <2>4, CountsStay
<1>3. CASE ~(pass[p].stepCount >= StepLimit)
  <2>1. pass'[p] = [pass[p] EXCEPT !.branch[s] = "inserting"]
    BY <1>1, <1>3 DEF Start
  <2>2. /\ pass'[p].failures = pass[p].failures /\ pass'[p].stepCount = pass[p].stepCount
        /\ pass'[p].outcome = pass[p].outcome
    BY <1>1, <2>1 DEF Pass
  <2> QED
    BY <1>1, <2>2, CountsStay
<1> QED
  BY <1>2, <1>3

LEMMA InsertKeepsCounts ==
    ASSUME IInv, HistoryKept, NEW p \in DOMAIN pass, NEW s \in Steps, Insert(p, s), Counts(p)
    PROVE  Counts(p)'
<1>1. pass \in Seq(Pass) /\ pass[p] \in Pass /\ attempts \in Seq(Attempt)
  BY DEF IInv, TypeOK
<1>2. /\ pass'[p].failures = pass[p].failures /\ pass'[p].outcome = pass[p].outcome
      /\ pass'[p].stepCount = pass[p].stepCount + 1
  BY <1>1 DEF Insert, Pass
<1>3. Len(attempts') = Len(attempts) + 1
  BY <1>1 DEF Insert
<1>4. pass'[p].stepCount <= Len(attempts')
  BY <1>1, <1>2, <1>3 DEF Pass, Counts
<1> QED
  BY <1>1, <1>2, <1>4, CountsStay

LEMMA ReturnKeepsCounts ==
    ASSUME IInv, HistoryKept, NEW p \in DOMAIN pass, NEW s \in Steps, Return(p, s), Counts(p)
    PROVE  Counts(p)'
<1> DEFINE i == pass[p].attempt[s]
<1>1. pass \in Seq(Pass) /\ pass[p] \in Pass
  BY DEF IInv, TypeOK
<1>2. CASE OwnsAttempt(p, i)
  <2>1. pass'[p] = [pass[p] EXCEPT !.branch[s] = "done", !.result[s] = i]
    BY <1>1, <1>2 DEF Return, EndAttempt
  <2>2. /\ pass'[p].failures = pass[p].failures /\ pass'[p].stepCount = pass[p].stepCount
        /\ pass'[p].outcome = pass[p].outcome
    BY <1>1, <2>1 DEF Pass
  <2> QED
    BY <1>1, <2>2, CountsStay
<1>3. CASE ~OwnsAttempt(p, i)
  <2>1. pass'[p] = Thrown(p, pass[p], s, "pending")
    BY <1>1, <1>3 DEF Return, EndAttempt
  <2>2. /\ pass'[p].failures = pass[p].failures /\ pass'[p].stepCount = pass[p].stepCount
        /\ pass'[p].outcome \in {pass[p].outcome, "pending"}
    BY <1>1, <2>1, ThrownCounts
  <2> QED
    BY <1>1, <2>2, CountsStay
<1> QED
  BY <1>2, <1>3

LEMMA RecordFailureKeepsCounts ==
    ASSUME IInv, HistoryKept, NEW p \in DOMAIN pass, NEW s \in Steps,
           RecordFailure(p, s), Counts(p)
    PROVE  Counts(p)'
<1> DEFINE i == pass[p].attempt[s]
           count == pass[p].failures[s] + 1
           counted == [pass[p] EXCEPT !.failures[s] = count]
<1>1. pass \in Seq(Pass) /\ pass[p] \in Pass
  BY DEF IInv, TypeOK
<1>2. CASE OwnsAttempt(p, i)
  <2>1. /\ attempts' = [attempts EXCEPT ![i].status = "failed"]
        /\ attempts[i].status = "running" /\ i \in DOMAIN attempts /\ attempts[i].step = s
    BY <1>2 DEF RecordFailure, OwnsAttempt, IInv, SoundPass, HasAttempts, EndAttempt
  <2>2. pass'[p] = Thrown(p, counted, s, AfterFailures(count))
    BY <1>1, <1>2 DEF RecordFailure, EndAttempt
  <2>3. count \in Nat /\ count <= FailedCount(s)' /\ FailedCount(s)' \in Nat
    <3>1. FailedCount(s) + 1 <= FailedCount(s)'
      BY <2>1, FailureIsCounted
    <3>2. pass[p].failures[s] \in Nat /\ pass[p].failures[s] <= FailedCount(s)
      BY <1>1 DEF Pass, Counts
    <3> QED
      BY <3>1, <3>2, ReasonsStay
  <2>4. AfterFailures(count) \in {"pending", "failed"}
    BY DEF AfterFailures
  <2>5. AfterFailures(count) = "failed" => Reason'
    <3>1. AfterFailures(count) = "failed" => count >= MaxStepAttempts
      BY <2>3, BoundsAssumption DEF AfterFailures
    <3> QED
      BY <2>3, <3>1, BoundsAssumption DEF Reason
  <2> HIDE DEF count
  <2>6. /\ counted \in Pass /\ counted.stepCount = pass[p].stepCount
        /\ counted.failures = [pass[p].failures EXCEPT ![s] = count]
        /\ counted.outcome = pass[p].outcome
    BY <1>1, <2>3 DEF Pass
  <2> HIDE DEF counted
  <2>7. /\ pass'[p].failures = counted.failures /\ pass'[p].stepCount = counted.stepCount
        /\ pass'[p].outcome \in {counted.outcome, AfterFailures(count)}
    BY <2>2, <2>4, <2>6, ThrownCounts
  <2>8. \A t \in Steps :
           \/ pass'[p].failures[t] = pass[p].failures[t]
           \/ t = s /\ pass'[p].failures[t] = count
    BY <1>1, <2>6, <2>7 DEF Pass
  <2> QED
    BY <1>1, <2>3, <2>5, <2>6, <2>7, <2>8, CountsStay
<1>3. CASE ~OwnsAttempt(p, i)
  <2>1. pass'[p] = Thrown(p, pass[p], s, "pending")
    BY <1>1, <1>3 DEF RecordFailure, EndAttempt
  <2>2. /\ pass'[p].failures = pass[p].failures /\ pass'[p].stepCount = pass[p].stepCount
        /\ pass'[p].outcome \in {pass[p].outcome, "pending"}
    BY <1>1, <2>1, ThrownCounts
  <2> QED
    BY <1>1, <2>2, CountsStay
<1> QED
  BY <1>2, <1>3

LEMMA OtherStepsKeepCounts ==
    ASSUME IInv, HistoryKept, NEW p \in DOMAIN pass, Counts(p),
           Finish(p) \/ End(p) \/ \E s \in Steps : Fail(p, s)
    PROVE  Counts(p)'
<1>1. pass \in Seq(Pass) /\ pass[p] \in Pass
  BY DEF IInv, TypeOK
<1>2. /\ pass'[p].failures = pass[p].failures /\ pass'[p].stepCount = pass[p].stepCount
      /\ pass'[p].outcome \in {pass[p].outcome, "completed"}
  <2>1. CASE Finish(p)
    BY <1>1, <2>1 DEF Finish, Ending, Pass
  <2>2. CASE End(p)
    BY <1>1, <2>2 DEF End, Pass
  <2>3. ASSUME NEW s \in Steps, Fail(p, s)
        PROVE  /\ pass'[p].failures = pass[p].failures
               /\ pass'[p].stepCount = pass[p].stepCount
               /\ pass'[p].outcome = pass[p].outcome
    BY <1>1, <2>3 DEF Fail, Pass
  <2> QED
    BY <2>1, <2>2, <2>3
<1> QED
  BY <1>1, <1>2, CountsStay

LEMMA ClaimKeepsCounts ==
    ASSUME IInv, CountInv, HistoryKept, NEW w \in Slots, Claim(w)
    PROVE  CountInv'
<1>1. /\ pass \in Seq(Pass) /\ \A p \in DOMAIN pass : pass[p] \in Pass /\ Counts(p)
      /\ attempts' = attempts
  BY DEF IInv, TypeOK, CountInv, Claim
<1>2. /\ pass' = Append(pass, NewPass(w)) /\ run'.status = "running"
  BY DEF Claim
<1>3. /\ DOMAIN pass' = DOMAIN pass \union {Len(pass) + 1}
      /\ \A p \in DOMAIN pass : pass'[p] = pass[p]
      /\ pass'[Len(pass) + 1] = NewPass(w)
  BY <1>1, <1>2
<1>4. \A p \in DOMAIN pass : Counts(p)'
  BY <1>1, <1>3, CountsStay
<1>5. ASSUME NEW q, q = Len(pass) + 1 PROVE Counts(q)'
  <2>1. /\ \A s \in Steps : pass'[q].failures[s] = 0
        /\ pass'[q].stepCount = 0 /\ pass'[q].outcome = "pending"
    BY <1>3, <1>5 DEF NewPass
  <2>2. 0 <= Len(attempts') /\ \A s \in Steps : 0 <= FailedCount(s)'
    BY ReasonsStay
  <2> QED
    BY <2>1, <2>2 DEF Counts
<1> QED
  BY <1>2, <1>3, <1>4, <1>5 DEF CountInv

LEMMA NextKeepsCountInv == IInv /\ CountInv /\ [Next]_vars => CountInv'
<1> SUFFICES ASSUME IInv, CountInv, [Next]_vars PROVE CountInv'
  OBVIOUS
<1>1. HistoryKept
  BY NextKeepsHistory
<1>2. CASE UNCHANGED vars
  BY <1>2 DEF vars, CountInv, Counts, Reason, FailedCount, WithStatus
<1>3. CASE Cancel
  BY <1>3 DEF Cancel, CountInv, Counts, Reason, FailedCount, WithStatus
<1>4. CASE \E w \in Slots : Claim(w)
  BY <1>1, <1>4, ClaimKeepsCounts
<1>5. ASSUME NEW p \in DOMAIN pass, Load(p) \/ Finish(p) \/ End(p) PROVE CountInv'
  <2>1. Counts(p)'
    BY <1>1, <1>5, LoadKeepsCounts, OtherStepsKeepCounts DEF CountInv
  <2>2. run'.status = "failed" => run.status = "failed" \/ pass[p].outcome = "failed"
    BY <1>5 DEF Load, Finish, End, AfterTransition
  <2>3. \E mem : pass' = [pass EXCEPT ![p] = mem]
    BY <1>5 DEF Load, Finish, End
  <2> QED
    BY <1>1, <2>1, <2>2, <2>3, PassStepKeepsCounts
<1>6. ASSUME NEW p \in DOMAIN pass, NEW s \in Steps,
             Start(p, s) \/ Insert(p, s) \/ Return(p, s) \/ Fail(p, s) \/ RecordFailure(p, s)
      PROVE  CountInv'
  <2>1. Counts(p)'
    BY <1>1, <1>6, StartKeepsCounts, InsertKeepsCounts, ReturnKeepsCounts,
       RecordFailureKeepsCounts, OtherStepsKeepCounts DEF CountInv
  <2>2. run' = run
    BY <1>6 DEF Start, Insert, Return, Fail, RecordFailure, EndAttempt
  <2>3. \E mem : pass' = [pass EXCEPT ![p] = mem]
    BY <1>6 DEF Start, Insert, Return, Fail, RecordFailure, EndAttempt
  <2> QED
    BY <1>1, <2>1, <2>2, <2>3, PassStepKeepsCounts
<1> QED
  BY <1>2, <1>3, <1>4, <1>5, <1>6 DEF Next

\* Whatever passes the run goes through and whichever of them lose it, it fails only
\* when a step has used up its attempts or the run as many as there may be.
THEOREM FailuresHaveReasons == Spec => []FailsForAReason
<1>1. Init => CountInv
  BY DEF Init, CountInv
<1>2. CountInv => FailsForAReason
  BY DEF CountInv, Reason, FailedCount, FailsForAReason
<1> QED
  BY <1>1, <1>2, Invariance, NextKeepsCountInv, PTL DEF Spec

-----------------------------------------------------------------------------
(* What a replay sees of a step, and how often a step is tried: only the latest *)
(* claim writes, as long as no branch outlives its pass or no slot returns.     *)

Flying == {"inserting", "calling", "failing"}

\* A pass with this memory may still bring the step to a result or a failure.
Open(mem, s) ==
    \/ mem.branch[s] \in Flying
    \/ mem.pc = "running" /\ mem.branch[s] = "idle" /\ mem.result[s] = 0

\* A running run belongs to its latest claim; a slot that claims again has ended
\* its passes before.
Seats ==
    /\ run.status = "running" => pass # <<>> /\ run.owner = pass[Len(pass)].slot
    /\ \A p, q \in DOMAIN pass :
          p < q /\ pass[p].slot = pass[q].slot => pass[p].pc = "ended"

\* A pass that is loading has begun nothing; a step that is under way has no result,
\* and all those before it have one; what has not ended is undecided.
Underway(mem) ==
    /\ mem.pc = "loading" => \A s \in Steps : mem.branch[s] = "idle"
    /\ \A s \in Steps : mem.branch[s] \in Flying =>
          mem.result[s] = 0 /\ \A n \in needs[s] : mem.result[n] # 0
    /\ mem.pc \in {"loading", "running"} => mem.outcome = "pending"

\* No branch of a sequential function outlives its pass.
NothingLeftOver(mem) ==
    Sequential /\ mem.pc # "running" => \A s \in Steps : mem.branch[s] \notin Flying

Solo == Sequential \/ ClaimedByDistinctSlots

OneResult ==
    /\ \A s \in Steps : \A i, j \in WithStatus(s, "completed") : i = j
    /\ pass # <<>> => \A s \in Steps :
          Open(pass[Len(pass)], s) => WithStatus(s, "completed") = {}

Verdicts == {p \in DOMAIN pass : pass[p].outcome = "failed"}

FewFailures ==
    /\ \A s \in Steps : FailedCount(s) + 1 <= MaxStepAttempts + Cardinality(Verdicts)
    /\ pass # <<>> => \A s \in Steps :
          Open(pass[Len(pass)], s) => FailedCount(s) <= pass[Len(pass)].failures[s]

SoloInv ==
    /\ Seats
    /\ \A p \in DOMAIN pass : Underway(pass[p]) /\ NothingLeftOver(pass[p])
    /\ Solo => OneResult
    /\ Sequential => FewFailures

-----------------------------------------------------------------------------
(* What a pass may do to its memory *)

SafeMove(p, mem) ==
    /\ mem \in Pass /\ mem.slot = pass[p].slot
    /\ pass[p].pc = "ended" => mem.pc = "ended"
    /\ pass[p].outcome = "failed" => mem.outcome = "failed"
    /\ Underway(mem) /\ NothingLeftOver(mem)
    /\ \A s \in Steps : Open(mem, s) =>
          \/ Open(pass[p], s) /\ mem.failures[s] = pass[p].failures[s]
          \/ WithStatus(s, "completed") = {} /\ FailedCount(s) <= mem.failures[s]

\* What is known of a pass.
LEMMA PassParts ==
    ASSUME IInv, SoloInv, NEW p \in DOMAIN pass
    PROVE  /\ pass \in Seq(Pass) /\ pass[p] \in Pass /\ attempts \in Seq(Attempt)
           /\ Underway(pass[p]) /\ NothingLeftOver(pass[p])
  BY DEF IInv, TypeOK, SoloInv

\* Of two steps of a sequential function one waits for the other's result.
LEMMA OneAtATime ==
    ASSUME Sequential, NEW mem, NEW s \in Steps, NEW t \in Steps, s # t,
           mem.result[s] = 0, \A n \in needs[s] : mem.result[n] # 0,
           mem.result[t] = 0, \A n \in needs[t] : mem.result[n] # 0
    PROVE  FALSE
  BY DEF Sequential

LEMMA ThrownMemory ==
    ASSUME NEW STATE mem, mem \in Pass, NEW p, NEW s \in Steps,
           NEW STATE outcome, outcome \in {"pending", "failed"}
    PROVE  /\ Thrown(p, mem, s, outcome) \in Pass
           /\ Thrown(p, mem, s, outcome).slot = mem.slot
           /\ Thrown(p, mem, s, outcome).result = mem.result
           /\ Thrown(p, mem, s, outcome).failures = mem.failures
           /\ Thrown(p, mem, s, outcome).branch = [mem.branch EXCEPT ![s] = "gone"]
           /\ IsActive(p) => /\ Thrown(p, mem, s, outcome).pc = "ending"
                             /\ Thrown(p, mem, s, outcome).outcome = outcome
           /\ ~IsActive(p) => /\ Thrown(p, mem, s, outcome).pc = mem.pc
                              /\ Thrown(p, mem, s, outcome).outcome = mem.outcome
<1> DEFINE gone == [mem EXCEPT !.branch[s] = "gone"]
<1>1. /\ gone \in Pass /\ gone.slot = mem.slot /\ gone.result = mem.result
      /\ gone.failures = mem.failures /\ gone.branch = [mem.branch EXCEPT ![s] = "gone"]
      /\ gone.pc = mem.pc /\ gone.outcome = mem.outcome
  BY DEF Pass, Branch
<1>2. Thrown(p, mem, s, outcome) = IF IsActive(p) THEN Ending(gone, outcome) ELSE gone
  BY DEF Thrown
<1> HIDE DEF gone
<1>3. /\ Ending(gone, outcome) \in Pass /\ Ending(gone, outcome).slot = gone.slot
      /\ Ending(gone, outcome).result = gone.result
      /\ Ending(gone, outcome).failures = gone.failures
      /\ Ending(gone, outcome).branch = gone.branch
      /\ Ending(gone, outcome).pc = "ending" /\ Ending(gone, outcome).outcome = outcome
  BY <1>1 DEF Ending, Pass, Outcome
<1>4. CASE IsActive(p)
  BY <1>1, <1>2, <1>3, <1>4
<1>5. CASE ~IsActive(p)
  BY <1>1, <1>2, <1>5
<1> QED
  BY <1>4, <1>5

\* The branch that ends its pass decides how.
LEMMA ThrownVerdict ==
    ASSUME NEW STATE mem, mem \in Pass, NEW p, NEW s \in Steps, NEW STATE outcome
    PROVE  IsActive(p) => Thrown(p, mem, s, outcome).outcome = outcome
<1> DEFINE gone == [mem EXCEPT !.branch[s] = "gone"]
<1>1. gone.outcome = mem.outcome /\ DOMAIN gone = DOMAIN mem
  OBVIOUS
<1>2. DOMAIN mem = {"slot", "pc", "result", "failures", "stepCount", "branch", "attempt", "outcome"}
  BY DEF Pass
<1>3. IsActive(p) => Thrown(p, mem, s, outcome) = Ending(gone, outcome)
  BY DEF Thrown
<1> HIDE DEF gone
<1> QED
  BY <1>1, <1>2, <1>3 DEF Ending

\* A branch that throws takes its pass with it, and no other is under way if the
\* function is sequential.
LEMMA ThrowingIsSafe ==
    ASSUME IInv, SoloInv, NEW p \in DOMAIN pass, NEW s \in Steps,
           Open(pass[p], s), pass[p].result[s] = 0, \A n \in needs[s] : pass[p].result[n] # 0,
           NEW STATE mem, mem \in Pass, mem.slot = pass[p].slot, mem.pc = pass[p].pc,
           mem.result = pass[p].result, mem.branch = pass[p].branch,
           mem.outcome = pass[p].outcome,
           \A t \in Steps : t # s => mem.failures[t] = pass[p].failures[t],
           NEW STATE outcome, outcome \in {"pending", "failed"}
    PROVE  /\ SafeMove(p, Thrown(p, mem, s, outcome))
           /\ ~Open(Thrown(p, mem, s, outcome), s)
<1> DEFINE new == Thrown(p, mem, s, outcome)
<1>1. /\ pass[p] \in Pass /\ Underway(pass[p]) /\ NothingLeftOver(pass[p])
  BY PassParts
<1>2. /\ new \in Pass /\ new.slot = pass[p].slot /\ new.result = pass[p].result
      /\ new.failures = mem.failures
      /\ new.branch = [pass[p].branch EXCEPT ![s] = "gone"]
      /\ IsActive(p) => new.pc = "ending" /\ new.outcome = outcome
      /\ ~IsActive(p) => new.pc = pass[p].pc /\ new.outcome = pass[p].outcome
  <2>1. /\ new \in Pass /\ new.slot = mem.slot /\ new.result = mem.result
        /\ new.failures = mem.failures /\ new.branch = [mem.branch EXCEPT ![s] = "gone"]
        /\ IsActive(p) => new.pc = "ending" /\ new.outcome = outcome
        /\ ~IsActive(p) => new.pc = mem.pc /\ new.outcome = mem.outcome
    BY ThrownMemory
  <2> HIDE DEF new
  <2> QED
    BY <2>1
<1> HIDE DEF new
<1>3. new.branch[s] = "gone" /\ \A t \in Steps : t # s => new.branch[t] = pass[p].branch[t]
  BY <1>1, <1>2 DEF Pass
<1>4. new.pc # "running" /\ new.pc # "loading"
  BY <1>1, <1>2 DEF IsActive, Underway, Open, Flying
<1>5. \A t \in Steps : new.branch[t] \in Flying => t # s /\ pass[p].branch[t] \in Flying
  BY <1>3 DEF Flying
<1>6. pass[p].outcome = "failed" => new.outcome = "failed"
  BY <1>1, <1>2 DEF IsActive, Underway
<1>7. pass[p].pc = "ended" => new.pc = "ended"
  BY <1>2 DEF IsActive
<1>8. Underway(new)
  BY <1>1, <1>2, <1>4, <1>5 DEF Underway
<1>9. NothingLeftOver(new)
  <2> SUFFICES ASSUME Sequential, NEW t \in Steps, new.branch[t] \in Flying PROVE FALSE
    BY DEF NothingLeftOver
  <2>1. /\ t # s /\ pass[p].result[t] = 0 /\ \A n \in needs[t] : pass[p].result[n] # 0
    BY <1>1, <1>5 DEF Underway
  <2> QED
    BY <2>1, OneAtATime
<1>10. \A t \in Steps : Open(new, t) => Open(pass[p], t) /\ new.failures[t] = pass[p].failures[t]
  BY <1>2, <1>4, <1>5 DEF Open
<1>11. ~Open(new, s)
  BY <1>3, <1>4 DEF Open, Flying
<1> QED
  BY <1>2, <1>6, <1>7, <1>8, <1>9, <1>10, <1>11 DEF SafeMove, new

\* A step without failures of its own, that begins nothing and keeps its results.
LEMMA QuietMoveIsSafe ==
    ASSUME IInv, SoloInv, NEW p \in DOMAIN pass,
           NEW STATE mem, mem \in Pass, mem.slot = pass[p].slot,
           mem.pc = pass[p].pc, pass[p].pc # "loading", mem.outcome = pass[p].outcome,
           mem.failures = pass[p].failures,
           \A s \in Steps : pass[p].result[s] # 0 => mem.result[s] # 0,
           \A s \in Steps : mem.branch[s] = "idle" =>
              pass[p].branch[s] = "idle" /\ mem.result[s] = pass[p].result[s],
           \A s \in Steps : mem.branch[s] \in Flying =>
              /\ mem.result[s] = pass[p].result[s]
              /\ \/ pass[p].branch[s] \in Flying
                 \/ /\ IsActive(p) /\ pass[p].branch[s] = "idle"
                    /\ pass[p].result[s] = 0 /\ \A n \in needs[s] : pass[p].result[n] # 0
    PROVE  SafeMove(p, mem)
<1>1. /\ pass[p] \in Pass /\ Underway(pass[p]) /\ NothingLeftOver(pass[p])
  BY PassParts
<1>2. needs \in [Steps -> SUBSET Steps]
  BY ProgramsAssumption DEF IInv, TypeOK
<1>3. Underway(mem)
  BY <1>1, <1>2 DEF Underway
<1>4. NothingLeftOver(mem)
  BY <1>1 DEF NothingLeftOver, IsActive
<1>5. \A s \in Steps : Open(mem, s) => Open(pass[p], s)
  BY <1>1 DEF Open, IsActive, Underway, Flying
<1> QED
  BY <1>3, <1>4, <1>5 DEF SafeMove

-----------------------------------------------------------------------------
(* A pass takes a safe step *)

\* Whoever of the latest claim's slot still has a branch under way is the latest claim.
LEMMA WriterIsLast ==
    ASSUME IInv, SoloInv, Solo, NEW p \in DOMAIN pass, NEW s \in Steps,
           pass[p].branch[s] \in Flying,
           run.status = "running", run.owner = pass[p].slot
    PROVE  pass # <<>> /\ p = Len(pass)
<1>1. /\ pass # <<>> /\ Len(pass) \in DOMAIN pass /\ p <= Len(pass)
      /\ pass[Len(pass)].slot = pass[p].slot
  BY DEF IInv, TypeOK, SoloInv, Seats
<1>2. ASSUME p # Len(pass), Sequential PROVE FALSE
  <2>1. p < Len(pass)
    BY <1>1, <1>2 DEF IInv, TypeOK
  <2>2. pass[p].pc = "ended"
    BY <1>1, <2>1 DEF SoloInv, Seats
  <2> QED
    BY <1>2, <2>2 DEF SoloInv, NothingLeftOver
<1>3. ASSUME p # Len(pass), ClaimedByDistinctSlots PROVE FALSE
  BY <1>1, <1>3 DEF ClaimedByDistinctSlots
<1> QED
  BY <1>1, <1>2, <1>3 DEF Solo

\* The passes after one of them has taken a step.
LEMMA AfterPassStep ==
    ASSUME IInv, NEW p \in DOMAIN pass, NEW STATE mem,
           pass' = [pass EXCEPT ![p] = mem]
    PROVE  /\ DOMAIN pass' = DOMAIN pass /\ Len(pass') = Len(pass) /\ Len(pass) \in DOMAIN pass
           /\ pass # <<>> /\ pass' # <<>> /\ pass'[p] = mem
           /\ \A q \in DOMAIN pass : q # p => pass'[q] = pass[q]
<1>1. pass \in Seq(Pass)
  BY DEF IInv, TypeOK
<1> QED
  BY <1>1

\* Seats and memories survive a safe step.
LEMMA SafeMoveKeepsSeats ==
    ASSUME IInv, SoloInv, NEW p \in DOMAIN pass, NEW STATE mem, SafeMove(p, mem),
           pass' = [pass EXCEPT ![p] = mem], needs' = needs,
           run' = run \/ run'.status # "running"
    PROVE  /\ Seats'
           /\ \A q \in DOMAIN pass' : Underway(pass[q])' /\ NothingLeftOver(pass[q])'
           /\ Solo' => Solo
           /\ Sequential' <=> Sequential
<1>1. /\ DOMAIN pass' = DOMAIN pass /\ Len(pass') = Len(pass) /\ Len(pass) \in DOMAIN pass
      /\ pass # <<>> /\ pass' # <<>> /\ pass'[p] = mem
      /\ \A q \in DOMAIN pass : q # p => pass'[q] = pass[q]
  BY AfterPassStep
<1>2. \A q \in DOMAIN pass :
         pass'[q].slot = pass[q].slot /\ (pass[q].pc = "ended" => pass'[q].pc = "ended")
  BY <1>1 DEF SafeMove
<1>3. Sequential' <=> Sequential
  BY DEF Sequential
<1>4. Seats'
  <2>1. run'.status = "running" => pass' # <<>> /\ run'.owner = pass'[Len(pass')].slot
    BY <1>1, <1>2 DEF SoloInv, Seats
  <2>2. \A q, r \in DOMAIN pass' :
           q < r /\ pass'[q].slot = pass'[r].slot => pass'[q].pc = "ended"
    BY <1>1, <1>2 DEF SoloInv, Seats
  <2> QED
    BY <2>1, <2>2 DEF Seats
<1>5. ASSUME NEW q \in DOMAIN pass'
      PROVE  Underway(pass[q])' /\ NothingLeftOver(pass[q])'
  <2>1. PICK m : m = pass'[q] /\ Underway(m) /\ NothingLeftOver(m)
    BY <1>1 DEF SafeMove, SoloInv
  <2> QED
    BY <1>3, <2>1 DEF Underway, NothingLeftOver
<1>6. Solo' => Solo
  BY <1>1, <1>2, <1>3 DEF Solo, ClaimedByDistinctSlots
<1> QED
  BY <1>3, <1>4, <1>5, <1>6

\* Only a pass that may still decide a step decides it, and only once.
LEMMA SafeMoveKeepsResults ==
    ASSUME IInv, OneResult, NEW p \in DOMAIN pass, NEW STATE mem, SafeMove(p, mem),
           pass' = [pass EXCEPT ![p] = mem],
           \A s \in Steps :
              \/ WithStatus(s, "completed")' = WithStatus(s, "completed")
              \/ /\ p = Len(pass) /\ ~Open(mem, s)
                 /\ \A i, j \in WithStatus(s, "completed")' : i = j
    PROVE  OneResult'
<1>1. /\ DOMAIN pass' = DOMAIN pass /\ Len(pass') = Len(pass) /\ Len(pass) \in DOMAIN pass
      /\ pass # <<>> /\ pass' # <<>> /\ pass'[p] = mem
      /\ \A q \in DOMAIN pass : q # p => pass'[q] = pass[q]
  BY AfterPassStep
<1>2. \A s \in Steps : \A i, j \in WithStatus(s, "completed")' : i = j
  BY DEF OneResult
<1>3. ASSUME NEW s \in Steps, Open(pass'[Len(pass')], s) PROVE WithStatus(s, "completed")' = {}
  <2>1. WithStatus(s, "completed")' = WithStatus(s, "completed")
    BY <1>1, <1>3
  <2>2. CASE p = Len(pass)
    BY <1>1, <1>3, <2>1, <2>2 DEF SafeMove, OneResult
  <2>3. CASE p # Len(pass)
    BY <1>1, <1>3, <2>1, <2>3 DEF OneResult
  <2> QED
    BY <2>2, <2>3
<1> QED
  BY <1>2, <1>3 DEF OneResult, Open

\* There are finitely many passes.
LEMMA PassesAreFinite ==
    ASSUME NEW passes \in Seq(Pass), NEW T \in SUBSET DOMAIN passes
    PROVE  IsFiniteSet(T) /\ Cardinality(T) \in Nat
<1>1. DOMAIN passes = 1 .. Len(passes) /\ Len(passes) \in Nat
  OBVIOUS
<1>2. IsFiniteSet(1 .. Len(passes))
  BY <1>1, FS_Interval
<1> QED
  BY <1>1, <1>2, FS_Subset, FS_CardinalityType

\* No pass takes back its verdict.
LEMMA VerdictsStay ==
    ASSUME IInv, NEW p \in DOMAIN pass, NEW STATE mem, SafeMove(p, mem),
           pass' = [pass EXCEPT ![p] = mem]
    PROVE  /\ Cardinality(Verdicts) \in Nat /\ Cardinality(Verdicts') \in Nat
           /\ Cardinality(Verdicts) <= Cardinality(Verdicts')
           /\ pass[p].outcome # "failed" /\ mem.outcome = "failed" =>
                 Cardinality(Verdicts) + 1 <= Cardinality(Verdicts')
<1>1. /\ DOMAIN pass' = DOMAIN pass /\ pass'[p] = mem
      /\ \A q \in DOMAIN pass : q # p => pass'[q] = pass[q]
  BY AfterPassStep
<1>2. pass \in Seq(Pass)
  BY DEF IInv, TypeOK
<1>4. Verdicts \subseteq DOMAIN pass /\ Verdicts' \subseteq DOMAIN pass
  BY <1>1 DEF Verdicts
<1>5. /\ IsFiniteSet(Verdicts) /\ Cardinality(Verdicts) \in Nat
      /\ IsFiniteSet(Verdicts') /\ Cardinality(Verdicts') \in Nat
  BY <1>2, <1>4, PassesAreFinite
<1>6. Verdicts \subseteq Verdicts'
  BY <1>1 DEF Verdicts, SafeMove
<1>7. Cardinality(Verdicts) <= Cardinality(Verdicts')
  BY <1>5, <1>6, FS_Subset
<1>8. ASSUME pass[p].outcome # "failed", mem.outcome = "failed"
      PROVE  Cardinality(Verdicts) + 1 <= Cardinality(Verdicts')
  <2>1. p \notin Verdicts /\ p \in Verdicts'
    BY <1>1, <1>8 DEF Verdicts
  <2>2. Cardinality(Verdicts \union {p}) = Cardinality(Verdicts) + 1
    BY <1>5, <2>1, FS_AddElement
  <2>3. Cardinality(Verdicts \union {p}) <= Cardinality(Verdicts')
    BY <1>5, <1>6, <2>1, FS_Subset
  <2> QED
    BY <2>2, <2>3
<1> QED
  BY <1>5, <1>7, <1>8

\* Only a pass that may still decide a step adds a failure to it, with a verdict if
\* it was the last one the policy allows.
LEMMA SafeMoveKeepsFailures ==
    ASSUME IInv, FewFailures, NEW p \in DOMAIN pass, NEW STATE mem, SafeMove(p, mem),
           pass' = [pass EXCEPT ![p] = mem],
           \A s \in Steps :
              \/ FailedCount(s)' = FailedCount(s)
              \/ /\ p = Len(pass) /\ ~Open(mem, s)
                 /\ FailedCount(s)' + 1 <= MaxStepAttempts + Cardinality(Verdicts')
    PROVE  FewFailures'
<1>1. /\ DOMAIN pass' = DOMAIN pass /\ Len(pass') = Len(pass) /\ Len(pass) \in DOMAIN pass
      /\ pass # <<>> /\ pass' # <<>> /\ pass'[p] = mem
      /\ \A q \in DOMAIN pass : q # p => pass'[q] = pass[q]
  BY AfterPassStep
<1>2. /\ Cardinality(Verdicts) \in Nat /\ Cardinality(Verdicts') \in Nat
      /\ Cardinality(Verdicts) <= Cardinality(Verdicts')
  BY VerdictsStay
<1>3. \A s \in Steps : FailedCount(s) \in Nat
  BY AttemptsAreCounted DEF IInv, TypeOK
<1>4. \A s \in Steps : FailedCount(s)' + 1 <= MaxStepAttempts + Cardinality(Verdicts')
  BY <1>2, <1>3, BoundsAssumption DEF FewFailures
<1>5. ASSUME NEW s \in Steps, Open(pass'[Len(pass')], s)
      PROVE  FailedCount(s)' <= pass'[Len(pass')].failures[s]
  <2>1. FailedCount(s)' = FailedCount(s)
    BY <1>1, <1>5
  <2>2. CASE p = Len(pass)
    BY <1>1, <1>5, <2>1, <2>2 DEF SafeMove, FewFailures
  <2>3. CASE p # Len(pass)
    BY <1>1, <1>5, <2>1, <2>3 DEF FewFailures
  <2> QED
    BY <2>2, <2>3
<1> QED
  BY <1>4, <1>5 DEF FewFailures, Open

\* A safe step that leaves the rows alone.
LEMMA SafeMoveKeepsSoloInv ==
    ASSUME IInv, SoloInv, NEW p \in DOMAIN pass, NEW STATE mem, SafeMove(p, mem),
           pass' = [pass EXCEPT ![p] = mem], needs' = needs,
           run' = run \/ run'.status # "running",
           \A s \in Steps :
              /\ WithStatus(s, "completed")' = WithStatus(s, "completed")
              /\ WithStatus(s, "failed")' = WithStatus(s, "failed")
    PROVE  SoloInv'
<1>1. \A s \in Steps : FailedCount(s)' = FailedCount(s)
  BY DEF FailedCount
<1>2. /\ Seats' /\ \A q \in DOMAIN pass' : Underway(pass[q])' /\ NothingLeftOver(pass[q])'
      /\ (Solo' => Solo) /\ (Sequential' <=> Sequential)
  BY SafeMoveKeepsSeats
<1>3. Solo => OneResult'
  BY SafeMoveKeepsResults DEF SoloInv
<1>4. ASSUME Sequential PROVE FewFailures'
  <2>1. FewFailures
    BY <1>4 DEF SoloInv
  <2>2. \A s \in Steps :
           \/ FailedCount(s)' = FailedCount(s)
           \/ /\ p = Len(pass) /\ ~Open(mem, s)
              /\ FailedCount(s)' + 1 <= MaxStepAttempts + Cardinality(Verdicts')
    BY <1>1
  <2> QED
    BY Zenon, <2>1, <2>2, SafeMoveKeepsFailures
<1> QED
  BY <1>2, <1>3, <1>4 DEF SoloInv

-----------------------------------------------------------------------------
(* The steps of a pass are safe *)

\* A step that leaves the rows and the run alone need only be safe.
LEMMA SafeMemoryStep ==
    ASSUME IInv, SoloInv, NEW p \in DOMAIN pass, NEW STATE mem, SafeMove(p, mem),
           pass' = [pass EXCEPT ![p] = mem], needs' = needs, attempts' = attempts,
           run' = run \/ run'.status # "running"
    PROVE  SoloInv'
<1>1. \A s \in Steps :
         /\ WithStatus(s, "completed")' = WithStatus(s, "completed")
         /\ WithStatus(s, "failed")' = WithStatus(s, "failed")
  BY DEF WithStatus
<1> QED
  BY <1>1, SafeMoveKeepsSoloInv

\* The history a pass is given shows every result and every failure there is.
LEMMA LoadKeepsSoloInv ==
    ASSUME IInv, SoloInv, NEW p \in DOMAIN pass, Load(p)
    PROVE  SoloInv'
<1> DEFINE loaded == [pass[p] EXCEPT !.pc = "running",
                                     !.result = [s \in Steps |-> CachedAttempt(s)],
                                     !.failures = [s \in Steps |-> FailedCount(s)],
                                     !.stepCount = Len(attempts)]
           refused == Ending(pass[p], "failed")
<1>1. /\ pass[p] \in Pass /\ attempts \in Seq(Attempt) /\ Len(attempts) \in Nat
      /\ Underway(pass[p]) /\ NothingLeftOver(pass[p])
  BY PassParts
<1>2. pass[p].pc = "loading" /\ needs' = needs /\ run' = run /\ attempts' = attempts
  BY DEF Load
<1>3. pass[p].outcome = "pending" /\ \A s \in Steps : pass[p].branch[s] = "idle"
  BY <1>1, <1>2 DEF Underway
<1>4. CASE Len(attempts) > StepLimit
  <2>1. pass' = [pass EXCEPT ![p] = refused]
    BY <1>4 DEF Load
  <2>2. /\ refused \in Pass /\ refused.slot = pass[p].slot /\ refused.outcome = "failed"
        /\ refused.pc = "ending" /\ refused.branch = pass[p].branch
    BY <1>1 DEF Ending, Pass, Outcome
  <2> HIDE DEF refused
  <2>3. SafeMove(p, refused)
    BY <1>2, <1>3, <2>2 DEF SafeMove, Underway, NothingLeftOver, Open, Flying
  <2> QED
    BY <1>2, <2>1, <2>3, SafeMemoryStep
<1>5. CASE ~(Len(attempts) > StepLimit)
  <2>1. pass' = [pass EXCEPT ![p] = loaded]
    BY <1>5 DEF Load
  <2>2. \A s \in Steps : FailedCount(s) \in Nat /\ CachedAttempt(s) \in Nat
    BY <1>1, AttemptsAreCounted
  <2>3. /\ loaded \in Pass /\ loaded.slot = pass[p].slot /\ loaded.outcome = "pending"
        /\ loaded.pc = "running" /\ loaded.branch = pass[p].branch
        /\ loaded.result = [s \in Steps |-> CachedAttempt(s)]
        /\ loaded.failures = [s \in Steps |-> FailedCount(s)]
    BY <1>1, <1>3, <2>2 DEF Pass
  <2> HIDE DEF loaded
  <2>4. Underway(loaded) /\ NothingLeftOver(loaded)
    BY <1>3, <2>3 DEF Underway, NothingLeftOver, Flying
  <2>5. ASSUME NEW s \in Steps, CachedAttempt(s) = 0 PROVE WithStatus(s, "completed") = {}
    <3>1. SUFFICES ASSUME WithStatus(s, "completed") # {} PROVE FALSE
      OBVIOUS
    <3>2. WithStatus(s, "completed") \in SUBSET (1 .. Len(attempts))
      BY <1>1 DEF WithStatus
    <3>3. \E i \in WithStatus(s, "completed") : \A j \in WithStatus(s, "completed") : j <= i
      BY <1>1, <3>1, <3>2, GreatestExists
    <3>4. CachedAttempt(s) \in WithStatus(s, "completed")
      BY <3>1, <3>3 DEF CachedAttempt
    <3> QED
      BY <1>5, <2>5, <3>2, <3>4
  <2>6. \A s \in Steps : Open(loaded, s) =>
           WithStatus(s, "completed") = {} /\ FailedCount(s) <= loaded.failures[s]
    BY <1>3, <2>2, <2>3, <2>5 DEF Open, Flying
  <2>7. SafeMove(p, loaded)
    BY <1>2, <1>3, <2>3, <2>4, <2>6 DEF SafeMove
  <2> QED
    BY <1>2, <2>1, <2>7, SafeMemoryStep
<1> QED
  BY <1>4, <1>5

LEMMA StartKeepsSoloInv ==
    ASSUME IInv, SoloInv, NEW p \in DOMAIN pass, NEW s \in Steps, Start(p, s)
    PROVE  SoloInv'
<1> DEFINE begun == [pass[p] EXCEPT !.branch[s] = "inserting"]
<1>1. /\ pass[p] \in Pass /\ Underway(pass[p]) /\ NothingLeftOver(pass[p])
  BY PassParts
<1>2. /\ IsActive(p) /\ pass[p].pc = "running" /\ pass[p].branch[s] = "idle"
      /\ pass[p].result[s] = 0 /\ \A n \in needs[s] : pass[p].result[n] # 0
      /\ needs' = needs /\ run' = run /\ attempts' = attempts
  BY DEF Start, IsActive, Reached
<1>3. CASE pass[p].stepCount >= StepLimit
  <2>1. pass' = [pass EXCEPT ![p] = Thrown(p, pass[p], s, "failed")]
    BY <1>3 DEF Start
  <2>2. Open(pass[p], s)
    BY <1>2 DEF Open
  <2>3. SafeMove(p, Thrown(p, pass[p], s, "failed"))
    BY <1>1, <1>2, <2>2, ThrowingIsSafe
  <2> QED
    BY <1>2, <2>1, <2>3, SafeMemoryStep
<1>4. CASE ~(pass[p].stepCount >= StepLimit)
  <2>1. pass' = [pass EXCEPT ![p] = begun]
    BY <1>4 DEF Start
  <2>2. /\ begun \in Pass /\ begun.slot = pass[p].slot /\ begun.pc = pass[p].pc
        /\ begun.outcome = pass[p].outcome /\ begun.failures = pass[p].failures
        /\ begun.result = pass[p].result /\ begun.branch[s] = "inserting"
        /\ \A t \in Steps : t # s => begun.branch[t] = pass[p].branch[t]
    BY <1>1 DEF Pass, Branch
  <2> HIDE DEF begun
  <2>3. SafeMove(p, begun)
    BY <1>1, <1>2, <2>2, QuietMoveIsSafe
  <2> QED
    BY <1>2, <2>1, <2>3, SafeMemoryStep
<1> QED
  BY <1>3, <1>4

\* A new row is neither a result nor a failure.
LEMMA InsertedRow ==
    ASSUME IInv, NEW s \in Steps,
           attempts' = Append(attempts, [step |-> s, status |-> "running"])
    PROVE  \A t \in Steps :
              /\ WithStatus(t, "completed")' = WithStatus(t, "completed")
              /\ WithStatus(t, "failed")' = WithStatus(t, "failed")
<1>1. /\ attempts \in Seq(Attempt) /\ DOMAIN attempts' = 1 .. Len(attempts) + 1
      /\ DOMAIN attempts = 1 .. Len(attempts) /\ Len(attempts) \in Nat
  BY DEF IInv, TypeOK
<1>2. /\ attempts'[Len(attempts) + 1].status = "running"
      /\ \A i \in DOMAIN attempts : attempts'[i] = attempts[i]
  BY <1>1
<1>3. \A i \in DOMAIN attempts' : i \in DOMAIN attempts \/ attempts'[i].status = "running"
  BY <1>1, <1>2
<1>4. DOMAIN attempts \subseteq DOMAIN attempts'
  BY <1>1
<1> QED
  BY <1>2, <1>3, <1>4 DEF WithStatus

LEMMA InsertKeepsSoloInv ==
    ASSUME IInv, SoloInv, NEW p \in DOMAIN pass, NEW s \in Steps, Insert(p, s)
    PROVE  SoloInv'
<1> DEFINE mem == [pass[p] EXCEPT !.branch[s] = "calling", !.attempt[s] = Len(attempts) + 1,
                                  !.stepCount = pass[p].stepCount + 1]
<1>1. /\ pass[p] \in Pass /\ Underway(pass[p]) /\ attempts \in Seq(Attempt)
  BY PassParts
<1>2. /\ pass[p].branch[s] = "inserting" /\ needs' = needs /\ run' = run
      /\ attempts' = Append(attempts, [step |-> s, status |-> "running"])
  BY DEF Insert
<1>3. pass' = [pass EXCEPT ![p] = mem]
  <2>1. Len(attempts') = Len(attempts) + 1
    BY <1>1, <1>2
  <2> QED
    BY <2>1 DEF Insert
<1>4. /\ mem \in Pass /\ mem.slot = pass[p].slot /\ mem.pc = pass[p].pc
      /\ mem.outcome = pass[p].outcome /\ mem.failures = pass[p].failures
      /\ mem.result = pass[p].result /\ mem.branch[s] = "calling"
      /\ \A t \in Steps : t # s => mem.branch[t] = pass[p].branch[t]
  <2>1. /\ Len(attempts) + 1 \in Nat /\ pass[p].stepCount + 1 \in Nat
        /\ [pass[p].branch EXCEPT ![s] = "calling"] \in [Steps -> Branch]
        /\ [pass[p].attempt EXCEPT ![s] = Len(attempts) + 1] \in [Steps -> Nat]
    BY <1>1 DEF Pass, Branch
  <2>2. mem = [pass[p] EXCEPT !.branch = [pass[p].branch EXCEPT ![s] = "calling"],
                              !.attempt = [pass[p].attempt EXCEPT ![s] = Len(attempts) + 1],
                              !.stepCount = pass[p].stepCount + 1]
    BY <1>1 DEF Pass
  <2>3. mem \in Pass
    BY <1>1, <2>1, <2>2 DEF Pass
  <2> QED
    BY <1>1, <2>2, <2>3 DEF Pass
<1> HIDE DEF mem
<1>5. pass[p].pc # "loading"
  BY <1>1, <1>2 DEF Underway
<1>6. SafeMove(p, mem)
  BY <1>1, <1>2, <1>4, <1>5, QuietMoveIsSafe DEF Flying
<1> QED
  BY <1>2, <1>3, <1>6, InsertedRow, SafeMoveKeepsSoloInv

LEMMA FailKeepsSoloInv ==
    ASSUME IInv, SoloInv, NEW p \in DOMAIN pass, NEW s \in Steps, Fail(p, s)
    PROVE  SoloInv'
<1> DEFINE mem == [pass[p] EXCEPT !.branch[s] = IF IsActive(p) THEN "failing" ELSE "gone"]
<1>1. pass[p] \in Pass /\ Underway(pass[p])
  BY PassParts
<1>2. /\ pass[p].branch[s] = "calling" /\ needs' = needs /\ run' = run
      /\ attempts' = attempts /\ pass' = [pass EXCEPT ![p] = mem]
  BY DEF Fail
<1>3. /\ mem \in Pass /\ mem.slot = pass[p].slot /\ mem.pc = pass[p].pc
      /\ mem.outcome = pass[p].outcome /\ mem.failures = pass[p].failures
      /\ mem.result = pass[p].result /\ mem.branch[s] \in {"failing", "gone"}
      /\ \A t \in Steps : t # s => mem.branch[t] = pass[p].branch[t]
  BY <1>1 DEF Pass, Branch
<1> HIDE DEF mem
<1>4. pass[p].pc # "loading"
  BY <1>1, <1>2 DEF Underway
<1>5. SafeMove(p, mem)
  BY <1>1, <1>2, <1>3, <1>4, QuietMoveIsSafe DEF Flying
<1> QED
  BY <1>2, <1>5, SafeMemoryStep

LEMMA FinishKeepsSoloInv ==
    ASSUME IInv, SoloInv, NEW p \in DOMAIN pass, Finish(p)
    PROVE  SoloInv'
<1> DEFINE mem == Ending(pass[p], "completed")
<1>1. pass[p] \in Pass /\ Underway(pass[p])
  BY PassParts
<1>2. /\ pass[p].pc = "running" /\ \A s \in Steps : pass[p].result[s] # 0
      /\ needs' = needs /\ run' = run /\ attempts' = attempts
      /\ pass' = [pass EXCEPT ![p] = mem]
  BY DEF Finish, IsActive
<1>3. /\ mem \in Pass /\ mem.slot = pass[p].slot /\ mem.pc = "ending"
      /\ mem.branch = pass[p].branch /\ mem.outcome = "completed"
  BY <1>1 DEF Ending, Pass, Outcome
<1> HIDE DEF mem
<1>4. pass[p].outcome = "pending" /\ \A s \in Steps : pass[p].branch[s] \notin Flying
  BY <1>1, <1>2 DEF Underway
<1>5. SafeMove(p, mem)
  BY <1>2, <1>3, <1>4 DEF SafeMove, Underway, NothingLeftOver, Open
<1> QED
  BY <1>2, <1>5, SafeMemoryStep

LEMMA EndKeepsSoloInv ==
    ASSUME IInv, SoloInv, NEW p \in DOMAIN pass, End(p)
    PROVE  SoloInv'
<1> DEFINE mem == [pass[p] EXCEPT !.pc = "ended"]
<1>1. pass[p] \in Pass /\ Underway(pass[p]) /\ NothingLeftOver(pass[p])
  BY PassParts
<1>2. /\ pass[p].pc = "ending" /\ needs' = needs /\ attempts' = attempts
      /\ pass' = [pass EXCEPT ![p] = mem]
  BY DEF End
<1>3. run' = run \/ run'.status # "running"
  BY <1>1 DEF End, AfterTransition, Pass, Outcome
<1>4. /\ mem \in Pass /\ mem.slot = pass[p].slot /\ mem.pc = "ended"
      /\ mem.branch = pass[p].branch /\ mem.outcome = pass[p].outcome
      /\ mem.result = pass[p].result /\ mem.failures = pass[p].failures
  BY <1>1 DEF Pass
<1> HIDE DEF mem
<1>5. SafeMove(p, mem)
  BY <1>1, <1>2, <1>4 DEF SafeMove, Underway, NothingLeftOver, Open
<1> QED
  BY <1>2, <1>3, <1>5, SafeMemoryStep

\* Ending an attempt adds it to the results or to the failures of its step.
LEMMA EndedRow ==
    ASSUME IInv, NEW i \in DOMAIN attempts, attempts[i].status = "running",
           NEW s \in Steps, attempts[i].step = s, NEW status \in {"completed", "failed"},
           attempts' = [attempts EXCEPT ![i].status = status]
    PROVE  /\ WithStatus(s, status)' = WithStatus(s, status) \union {i}
           /\ i \notin WithStatus(s, status)
           /\ \A t \in Steps :
                 /\ t # s \/ status = "failed" =>
                       WithStatus(t, "completed")' = WithStatus(t, "completed")
                 /\ t # s \/ status = "completed" =>
                       WithStatus(t, "failed")' = WithStatus(t, "failed")
<1>1. /\ DOMAIN attempts' = DOMAIN attempts
      /\ attempts'[i].step = attempts[i].step /\ attempts'[i].status = status
  BY RowEnds
<1>2. \A j \in DOMAIN attempts : j # i => attempts'[j] = attempts[j]
  BY DEF IInv, TypeOK
<1>3. WithStatus(s, status)' = WithStatus(s, status) \union {i}
  BY <1>1, <1>2 DEF WithStatus
<1>4. ASSUME NEW t \in Steps, NEW other \in {"completed", "failed"}, t # s \/ other # status
      PROVE  WithStatus(t, other)' = WithStatus(t, other)
  BY <1>1, <1>2, <1>4 DEF WithStatus
<1> QED
  BY <1>3, <1>4 DEF WithStatus

\* A branch whose statement is refused throws, and the rows stay.
LEMMA RefusedKeepsSoloInv ==
    ASSUME IInv, SoloInv, NEW p \in DOMAIN pass, NEW s \in Steps,
           pass[p].branch[s] \in Flying,
           pass' = [pass EXCEPT ![p] = Thrown(p, pass[p], s, "pending")],
           UNCHANGED <<needs, run, attempts>>
    PROVE  SoloInv'
<1>1. pass[p] \in Pass /\ Underway(pass[p])
  BY PassParts
<1>2. Open(pass[p], s) /\ pass[p].result[s] = 0 /\ \A n \in needs[s] : pass[p].result[n] # 0
  BY <1>1 DEF Underway, Open
<1>3. SafeMove(p, Thrown(p, pass[p], s, "pending"))
  BY <1>1, <1>2, ThrowingIsSafe
<1> QED
  BY <1>3, SafeMemoryStep

LEMMA ReturnKeepsSoloInv ==
    ASSUME IInv, SoloInv, NEW p \in DOMAIN pass, NEW s \in Steps, Return(p, s)
    PROVE  SoloInv'
<1> DEFINE i == pass[p].attempt[s]
           mem == [pass[p] EXCEPT !.branch[s] = "done", !.result[s] = i]
<1>1. /\ pass[p] \in Pass /\ Underway(pass[p]) /\ attempts \in Seq(Attempt)
      /\ DOMAIN attempts = 1 .. Len(attempts) /\ Len(attempts) \in Nat
  BY PassParts
<1>2. pass[p].branch[s] = "calling" /\ needs' = needs /\ run' = run
  BY DEF Return, EndAttempt
<1>3. i \in DOMAIN attempts /\ attempts[i].step = s /\ i \in Nat \ {0}
  BY <1>1, <1>2 DEF IInv, SoundPass, HasAttempts
<1>4. pass[p].pc # "loading" /\ pass[p].result[s] = 0 /\ Open(pass[p], s)
  BY <1>1, <1>2 DEF Underway, Open, Flying
<1>5. CASE ~OwnsAttempt(p, i)
  <2>1. pass' = [pass EXCEPT ![p] = Thrown(p, pass[p], s, "pending")] /\ attempts' = attempts
    BY <1>5 DEF Return
  <2> QED
    BY <1>2, <2>1, RefusedKeepsSoloInv DEF Flying
<1>6. CASE OwnsAttempt(p, i)
  <2>1. /\ attempts' = [attempts EXCEPT ![i].status = "completed"]
        /\ attempts[i].status = "running" /\ run.status = "running" /\ run.owner = pass[p].slot
        /\ pass' = [pass EXCEPT ![p] = mem]
    BY <1>6 DEF Return, EndAttempt, OwnsAttempt
  <2>2. /\ mem \in Pass /\ mem.slot = pass[p].slot /\ mem.pc = pass[p].pc
        /\ mem.outcome = pass[p].outcome /\ mem.failures = pass[p].failures
        /\ mem.result[s] = i /\ mem.branch[s] = "done"
        /\ \A t \in Steps : t # s =>
              mem.branch[t] = pass[p].branch[t] /\ mem.result[t] = pass[p].result[t]
    BY <1>1, <1>3 DEF Pass, Branch
  <2>3. /\ WithStatus(s, "completed")' = WithStatus(s, "completed") \union {i}
        /\ \A t \in Steps : t # s => WithStatus(t, "completed")' = WithStatus(t, "completed")
        /\ \A t \in Steps : WithStatus(t, "failed")' = WithStatus(t, "failed")
    BY <1>3, <2>1, EndedRow
  <2> HIDE DEF mem, i
  <2>4. SafeMove(p, mem)
    BY <1>1, <1>3, <1>4, <2>2, QuietMoveIsSafe DEF Flying
  <2>5. ~Open(mem, s)
    BY <2>2 DEF Open, Flying
  <2>6. /\ Seats' /\ \A q \in DOMAIN pass' : Underway(pass[q])' /\ NothingLeftOver(pass[q])'
        /\ (Solo' => Solo) /\ (Sequential' <=> Sequential)
    BY <1>2, <2>1, <2>4, SafeMoveKeepsSeats
  <2>7. ASSUME Solo PROVE OneResult'
    <3>1. p = Len(pass)
      BY <1>2, <2>1, <2>7, WriterIsLast DEF Flying
    <3>2. OneResult /\ WithStatus(s, "completed") = {}
      BY <1>4, <2>7, <3>1 DEF SoloInv, OneResult
    <3>3. \A t \in Steps :
             \/ WithStatus(t, "completed")' = WithStatus(t, "completed")
             \/ /\ p = Len(pass) /\ ~Open(mem, t)
                /\ \A j, k \in WithStatus(t, "completed")' : j = k
      BY <2>3, <2>5, <3>1, <3>2
    <3> QED
      BY Zenon, <2>1, <2>4, <3>2, <3>3, SafeMoveKeepsResults
  <2>8. ASSUME Sequential PROVE FewFailures'
    <3>1. FewFailures /\ \A t \in Steps : FailedCount(t)' = FailedCount(t)
      BY <2>3, <2>8 DEF SoloInv, FailedCount
    <3>2. \A t \in Steps :
             \/ FailedCount(t)' = FailedCount(t)
             \/ /\ p = Len(pass) /\ ~Open(mem, t)
                /\ FailedCount(t)' + 1 <= MaxStepAttempts + Cardinality(Verdicts')
      BY <3>1
    <3> QED
      BY Zenon, <2>1, <2>4, <3>1, <3>2, SafeMoveKeepsFailures
  <2> QED
    BY <2>6, <2>7, <2>8 DEF SoloInv
<1> QED
  BY <1>5, <1>6

LEMMA RecordFailureKeepsSoloInv ==
    ASSUME IInv, SoloInv, NEW p \in DOMAIN pass, NEW s \in Steps, RecordFailure(p, s)
    PROVE  SoloInv'
<1> DEFINE i == pass[p].attempt[s]
           count == pass[p].failures[s] + 1
           counted == [pass[p] EXCEPT !.failures[s] = count]
           mem == Thrown(p, counted, s, AfterFailures(count))
<1>1. /\ pass[p] \in Pass /\ Underway(pass[p]) /\ NothingLeftOver(pass[p])
      /\ attempts \in Seq(Attempt)
  BY PassParts
<1>2. pass[p].branch[s] = "failing" /\ needs' = needs /\ run' = run
  BY DEF RecordFailure, EndAttempt
<1>3. i \in DOMAIN attempts /\ attempts[i].step = s
  BY <1>2 DEF IInv, SoundPass, HasAttempts
<1>4. /\ pass[p].pc # "loading" /\ pass[p].result[s] = 0 /\ Open(pass[p], s)
      /\ \A n \in needs[s] : pass[p].result[n] # 0
  BY <1>1, <1>2 DEF Underway, Open, Flying
<1>5. CASE ~OwnsAttempt(p, i)
  <2>1. pass' = [pass EXCEPT ![p] = Thrown(p, pass[p], s, "pending")] /\ attempts' = attempts
    BY <1>5 DEF RecordFailure
  <2> QED
    BY <1>2, <2>1, RefusedKeepsSoloInv DEF Flying
<1>6. CASE OwnsAttempt(p, i)
  <2>1. /\ attempts' = [attempts EXCEPT ![i].status = "failed"]
        /\ attempts[i].status = "running" /\ run.status = "running" /\ run.owner = pass[p].slot
    BY <1>6 DEF RecordFailure, EndAttempt, OwnsAttempt
  <2>2. pass' = [pass EXCEPT ![p] = mem]
    BY <1>6 DEF RecordFailure
  <2>3. count \in Nat /\ AfterFailures(count) \in {"pending", "failed"}
    BY <1>1 DEF Pass, AfterFailures
  <2>4. /\ WithStatus(s, "failed")' = WithStatus(s, "failed") \union {i}
        /\ i \notin WithStatus(s, "failed")
        /\ \A t \in Steps : t # s => WithStatus(t, "failed")' = WithStatus(t, "failed")
        /\ \A t \in Steps : WithStatus(t, "completed")' = WithStatus(t, "completed")
    BY <1>3, <2>1, EndedRow
  <2>5. count = pass[p].failures[s] + 1
    OBVIOUS
  <2> HIDE DEF count
  <2>6. /\ counted \in Pass /\ counted.slot = pass[p].slot /\ counted.pc = pass[p].pc
        /\ counted.result = pass[p].result /\ counted.branch = pass[p].branch
        /\ counted.outcome = pass[p].outcome
        /\ \A t \in Steps : t # s => counted.failures[t] = pass[p].failures[t]
    BY <1>1, <2>3 DEF Pass
  <2> HIDE DEF counted, i
  <2>7. SafeMove(p, mem) /\ ~Open(mem, s)
    BY <1>4, <2>3, <2>6, ThrowingIsSafe
  <2>8. IsActive(p) => mem.outcome = AfterFailures(count)
    BY <2>3, <2>6, ThrownVerdict
  <2> HIDE DEF mem
  <2>9. /\ Seats' /\ \A q \in DOMAIN pass' : Underway(pass[q])' /\ NothingLeftOver(pass[q])'
        /\ (Solo' => Solo) /\ (Sequential' <=> Sequential)
    BY <1>2, <2>2, <2>7, SafeMoveKeepsSeats
  <2>10. ASSUME Solo PROVE OneResult'
    <3>1. OneResult
      BY <2>10 DEF SoloInv
    <3>2. \A t \in Steps :
             \/ WithStatus(t, "completed")' = WithStatus(t, "completed")
             \/ /\ p = Len(pass) /\ ~Open(mem, t)
                /\ \A j, k \in WithStatus(t, "completed")' : j = k
      BY <2>4
    <3> QED
      BY Zenon, <2>2, <2>7, <3>1, <3>2, SafeMoveKeepsResults
  <2>11. ASSUME Sequential PROVE FewFailures'
    <3>1. p = Len(pass) /\ pass # <<>> /\ FewFailures
      BY <1>2, <2>1, <2>11, WriterIsLast DEF Flying, Solo, SoloInv
    <3>2. /\ FailedCount(s) \in Nat /\ FailedCount(s)' = FailedCount(s) + 1
          /\ \A t \in Steps : t # s => FailedCount(t)' = FailedCount(t)
      <4>1. WithStatus(s, "failed") \subseteq DOMAIN attempts
        BY DEF WithStatus
      <4>2. IsFiniteSet(WithStatus(s, "failed")) /\ Cardinality(WithStatus(s, "failed")) \in Nat
        BY <1>1, <4>1, RowsAreFinite
      <4> QED
        BY <2>4, <4>2, FS_AddElement DEF FailedCount
    <3>3. /\ FailedCount(s) <= pass[p].failures[s]
          /\ FailedCount(s) + 1 <= MaxStepAttempts + Cardinality(Verdicts)
      BY <1>4, <3>1 DEF FewFailures
    <3>4. IsActive(p) /\ pass[p].outcome = "pending"
      BY <1>1, <1>2, <2>11 DEF NothingLeftOver, Flying, IsActive, Underway
    <3>5. /\ Cardinality(Verdicts) \in Nat /\ Cardinality(Verdicts') \in Nat
          /\ mem.outcome = "failed" => Cardinality(Verdicts) + 1 <= Cardinality(Verdicts')
      BY <2>2, <2>7, <3>4, VerdictsStay
    <3>6. FailedCount(s)' + 1 <= MaxStepAttempts + Cardinality(Verdicts')
      <4>1. pass[p].failures[s] \in Nat
        BY <1>1 DEF Pass
      <4>2. CASE count < MaxStepAttempts
        BY <2>5, <3>2, <3>3, <3>5, <4>1, <4>2, BoundsAssumption
      <4>3. CASE ~(count < MaxStepAttempts)
        <5>1. mem.outcome = "failed"
          BY <2>8, <3>4, <4>3 DEF AfterFailures
        <5> QED
          BY <3>2, <3>3, <3>5, <5>1, BoundsAssumption
      <4> QED
        BY <4>2, <4>3
    <3>7. \A t \in Steps :
             \/ FailedCount(t)' = FailedCount(t)
             \/ /\ p = Len(pass) /\ ~Open(mem, t)
                /\ FailedCount(t)' + 1 <= MaxStepAttempts + Cardinality(Verdicts')
      BY <2>7, <3>1, <3>2, <3>6
    <3> QED
      BY Zenon, <2>2, <2>7, <3>1, <3>7, SafeMoveKeepsFailures
  <2> QED
    BY <2>9, <2>10, <2>11 DEF SoloInv
<1> QED
  BY <1>5, <1>6

-----------------------------------------------------------------------------
(* Every step *)

\* A slot that claims the run has ended its passes, and the new one has begun nothing.
LEMMA ClaimKeepsSoloInv ==
    ASSUME IInv, SoloInv, NEW w \in Slots, Claim(w)
    PROVE  SoloInv'
<1> DEFINE n == Len(pass) + 1
<1>1. pass \in Seq(Pass) /\ DOMAIN pass = 1 .. Len(pass) /\ Len(pass) \in Nat
  BY DEF IInv, TypeOK
<1>2. /\ pass' = Append(pass, NewPass(w)) /\ run' = [status |-> "running", owner |-> w]
      /\ needs' = needs /\ attempts' = attempts
      /\ \A p \in DOMAIN pass : pass[p].slot = w => pass[p].pc = "ended"
  BY DEF Claim
<1>3. /\ DOMAIN pass' = DOMAIN pass \union {n} /\ n \notin DOMAIN pass
      /\ Len(pass') = n /\ pass' # <<>> /\ pass'[n] = NewPass(w)
      /\ \A p \in DOMAIN pass : pass'[p] = pass[p] /\ p < n
  BY <1>1, <1>2
<1>4. /\ NewPass(w).slot = w /\ NewPass(w).pc = "loading" /\ NewPass(w).outcome = "pending"
      /\ \A s \in Steps : NewPass(w).branch[s] = "idle"
  BY DEF NewPass
<1>5. /\ \A s \in Steps : WithStatus(s, "completed")' = WithStatus(s, "completed")
      /\ \A s \in Steps : FailedCount(s)' = FailedCount(s)
      /\ Sequential' <=> Sequential
  BY <1>2 DEF WithStatus, FailedCount, Sequential
<1> HIDE DEF n
<1>6. \A s \in Steps : ~Open(pass'[n], s)
  BY <1>3, <1>4 DEF Open, Flying
<1>7. Seats'
  <2>1. run'.status = "running" => pass' # <<>> /\ run'.owner = pass'[Len(pass')].slot
    BY <1>2, <1>3, <1>4
  <2>2. ASSUME NEW q \in DOMAIN pass', NEW r \in DOMAIN pass',
               q < r, pass'[q].slot = pass'[r].slot
        PROVE  pass'[q].pc = "ended"
    <3>1. q \in DOMAIN pass
      BY <1>1, <1>3, <2>2
    <3>2. CASE r \in DOMAIN pass
      BY <1>3, <2>2, <3>1, <3>2 DEF SoloInv, Seats
    <3>3. CASE r = n
      BY <1>2, <1>3, <1>4, <2>2, <3>1, <3>3
    <3> QED
      BY <1>3, <3>2, <3>3
  <2> QED
    BY <2>1, <2>2 DEF Seats
<1>8. ASSUME NEW q \in DOMAIN pass'
      PROVE  Underway(pass[q])' /\ NothingLeftOver(pass[q])'
  <2>1. PICK m : m = pass'[q] /\ Underway(m) /\ NothingLeftOver(m)
    <3>1. Underway(NewPass(w)) /\ NothingLeftOver(NewPass(w))
      BY <1>4 DEF Underway, NothingLeftOver, Flying
    <3> QED
      BY <1>3, <3>1 DEF SoloInv
  <2> QED
    BY <1>2, <1>5, <2>1 DEF Underway, NothingLeftOver
<1>9. Solo' => Solo
  BY <1>3, <1>5 DEF Solo, ClaimedByDistinctSlots
<1>10. Solo => OneResult'
  <2>1. Solo => \A s \in Steps : \A i, j \in WithStatus(s, "completed")' : i = j
    BY <1>5 DEF SoloInv, OneResult
  <2> QED
    BY <1>3, <1>6, <2>1 DEF OneResult, Open
<1>11. Sequential => FewFailures'
  <2>1. Verdicts' = Verdicts
    BY <1>3, <1>4 DEF Verdicts
  <2>2. Sequential => \A s \in Steps :
           FailedCount(s)' + 1 <= MaxStepAttempts + Cardinality(Verdicts')
    BY <1>5, <2>1 DEF SoloInv, FewFailures
  <2> QED
    BY <1>3, <1>6, <2>2 DEF FewFailures, Open
<1> QED
  BY <1>5, <1>7, <1>8, <1>9, <1>10, <1>11 DEF SoloInv

\* What becomes of the run otherwise does not matter to its passes.
LEMMA LostRunKeepsSoloInv ==
    ASSUME IInv, SoloInv, UNCHANGED <<needs, attempts, pass>>,
           run' = run \/ run'.status # "running"
    PROVE  SoloInv'
<1>1. Seats'
  BY DEF SoloInv, Seats
<1>2. \A p \in DOMAIN pass' : Underway(pass[p])' /\ NothingLeftOver(pass[p])'
  BY DEF SoloInv, Underway, NothingLeftOver, Sequential
<1>3. Solo' => OneResult'
  BY DEF SoloInv, Solo, Sequential, ClaimedByDistinctSlots, OneResult, WithStatus, Open
<1>4. Sequential' => FewFailures'
  BY DEF SoloInv, Sequential, FewFailures, FailedCount, WithStatus, Open, Verdicts
<1> QED
  BY <1>1, <1>2, <1>3, <1>4 DEF SoloInv

LEMMA InitEstablishesSoloInv == Init => SoloInv
<1> SUFFICES ASSUME Init PROVE SoloInv
  OBVIOUS
<1>1. /\ run.status = "pending" /\ attempts = <<>> /\ pass = <<>>
      /\ DOMAIN pass = {} /\ DOMAIN attempts = {}
  BY DEF Init
<1>2. Seats /\ \A p \in DOMAIN pass : Underway(pass[p]) /\ NothingLeftOver(pass[p])
  BY <1>1 DEF Seats
<1>3. OneResult
  BY <1>1 DEF OneResult, WithStatus
<1>4. FewFailures
  <2>1. \A s \in Steps : WithStatus(s, "failed") = {}
    BY <1>1 DEF WithStatus
  <2>2. Verdicts = {}
    BY <1>1 DEF Verdicts
  <2>3. Cardinality(Verdicts) = 0 /\ \A s \in Steps : FailedCount(s) = 0
    BY <2>1, <2>2, FS_EmptySet DEF FailedCount
  <2> QED
    BY <1>1, <2>3, BoundsAssumption DEF FewFailures
<1> QED
  BY <1>2, <1>3, <1>4 DEF SoloInv

LEMMA NextKeepsSoloInv == IInv /\ SoloInv /\ [Next]_vars => SoloInv'
<1> SUFFICES ASSUME IInv, SoloInv, [Next]_vars PROVE SoloInv'
  OBVIOUS
<1>1. CASE UNCHANGED vars
  BY <1>1, LostRunKeepsSoloInv DEF vars
<1>2. CASE Cancel
  <2>1. UNCHANGED <<needs, attempts, pass>> /\ run'.status # "running"
    BY <1>2 DEF Cancel
  <2> QED
    BY <2>1, LostRunKeepsSoloInv
<1>3. CASE \E w \in Slots : Claim(w)
  BY <1>3, ClaimKeepsSoloInv
<1>4. ASSUME NEW p \in DOMAIN pass, Load(p) \/ Finish(p) \/ End(p) PROVE SoloInv'
  BY <1>4, LoadKeepsSoloInv, FinishKeepsSoloInv, EndKeepsSoloInv
<1>5. ASSUME NEW p \in DOMAIN pass, NEW s \in Steps,
             Start(p, s) \/ Insert(p, s) \/ Return(p, s) \/ Fail(p, s) \/ RecordFailure(p, s)
      PROVE  SoloInv'
  BY <1>5, StartKeepsSoloInv, InsertKeepsSoloInv, ReturnKeepsSoloInv, FailKeepsSoloInv,
     RecordFailureKeepsSoloInv
<1> QED
  BY <1>1, <1>2, <1>3, <1>4, <1>5 DEF Next

LEMMA SoloInvariance == Spec => [](IInv /\ SoloInv)
  BY InitEstablishesSoloInv, NextKeepsSoloInv, Invariance, PTL DEF Spec

\* Whatever the function has seen of a step, every later replay shows it again, through
\* any number of lapsed leases and retries, if its steps come one after the other or no
\* slot claims the run twice (runningStepAttemptOwnedByWorkerWhere).
THEOREM ReplayIsStable == Spec => []StableReplayUnlessReclaimed
<1>1. IInv /\ SoloInv => StableReplayUnlessReclaimed
  <2> SUFFICES ASSUME IInv, SoloInv, Solo,
                      NEW p \in DOMAIN pass, NEW q \in DOMAIN pass, NEW s \in Steps,
                      pass[p].result[s] # 0, pass[q].result[s] # 0
               PROVE  pass[p].result[s] = pass[q].result[s]
    BY DEF StableReplayUnlessReclaimed, StableReplay, Solo
  <2>1. /\ pass[p].result[s] \in WithStatus(s, "completed")
        /\ pass[q].result[s] \in WithStatus(s, "completed")
    BY DEF IInv, SoundPass, HasResults
  <2> QED
    BY <2>1 DEF SoloInv, OneResult
<1> QED
  BY <1>1, SoloInvariance, PTL

\* A step of a sequential function fails no more often than its policy allows, and once
\* more for every worker that lost the run between its last failure and the run's.
THEOREM FailuresStayWithinPolicy == Spec => []FailuresWithinPolicy
<1>1. IInv /\ SoloInv => FailuresWithinPolicy
  <2> SUFFICES ASSUME IInv, SoloInv, Sequential, NEW s \in Steps
               PROVE  FailedCount(s) <= MaxStepAttempts + Cardinality(LostVerdicts)
    BY DEF FailuresWithinPolicy, FailedCount
  <2>1. pass \in Seq(Pass) /\ DOMAIN pass = 1 .. Len(pass) /\ Len(pass) \in Nat
    BY DEF IInv, TypeOK
  <2>2. Verdicts \subseteq DOMAIN pass /\ LostVerdicts \subseteq DOMAIN pass
    BY DEF Verdicts, LostVerdicts
  <2>3. /\ IsFiniteSet(LostVerdicts) /\ Cardinality(LostVerdicts) \in Nat
        /\ Cardinality(Verdicts) \in Nat
    BY <2>1, <2>2, PassesAreFinite
  <2>4. Verdicts \subseteq LostVerdicts \union {Len(pass)}
    BY <2>1 DEF Verdicts, LostVerdicts
  <2>5. Len(pass) \notin LostVerdicts
    BY <2>1 DEF LostVerdicts
  <2>6. /\ IsFiniteSet(LostVerdicts \union {Len(pass)})
        /\ Cardinality(LostVerdicts \union {Len(pass)}) = Cardinality(LostVerdicts) + 1
    BY <2>3, <2>5, FS_AddElement
  <2>7. Cardinality(Verdicts) <= Cardinality(LostVerdicts \union {Len(pass)})
    BY <2>4, <2>6, FS_Subset
  <2>8. FailedCount(s) + 1 <= MaxStepAttempts + Cardinality(Verdicts) /\ FailedCount(s) \in Nat
    BY AttemptsAreCounted DEF SoloInv, FewFailures, IInv, TypeOK
  <2> QED
    BY <2>3, <2>6, <2>7, <2>8, BoundsAssumption
<1> QED
  BY <1>1, SoloInvariance, PTL

==============================================================================
