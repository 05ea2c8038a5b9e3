--------------------------- MODULE WorkerLoop_proofs ---------------------------
(***************************************************************************)
(* Proofs about WorkerLoop for any number of slots, runs, stops and        *)
(* refused claims: types, one execution per slot, and that stop() waits,   *)
(* the last two as long as no claim was refused.                           *)
(*                                                                         *)
(* The argument: while no claim is refused, the claims in flight are those *)
(* of the tick the loop waits for, each for a slot of its own that was     *)
(* idle when the tick began and that nobody else can have filled           *)
(* (OneTickInFlight).                                                      *)
(***************************************************************************)
EXTENDS WorkerLoop, TLAPS

\* What a loop that waits for all its claims can rely on.
OneTickInFlight ==
  /\ \A c \in claims : pc = "ticking" /\ c.tick = tick
  /\ \A c1, c2 \in claims : c1.slot = c2.slot => c1 = c2
  /\ \A c \in claims : \A e \in executions : c.slot # e.slot
  /\ \A e1, e2 \in executions : e1.slot = e2.slot => e1 = e2
  /\ stop = "returned" => executions = {}

\* Nobody starts a loop beside another.
StoppedUntilStarted == stop = "none" /\ ~running => pc = "stopped"

IInv == TypeOK /\ StoppedUntilStarted /\ (rejections = 0 => OneTickInFlight)

LEMMA InitInv == Init => IInv
<1> SUFFICES ASSUME Init PROVE IInv
  OBVIOUS
<1>1. 0 \in 0 .. MaxStops /\ 0 \in 0 .. MaxRejections
  BY LoopAssumption
<1>2. TypeOK
  BY <1>1 DEF Init, TypeOK
<1>3. StoppedUntilStarted /\ OneTickInFlight
  BY DEF Init, StoppedUntilStarted, OneTickInFlight
<1> QED BY <1>2, <1>3 DEF IInv

LEMMA ClaimParts ==
  ASSUME TypeOK, NEW c \in claims
  PROVE  c.slot \in Slots /\ c.tick \in Ticks /\ c.tick # 0
<1>1. c.slot \in Slots /\ c.tick \in Ticks
  BY DEF TypeOK
<1>2. 0 \notin Ticks
  BY LoopAssumption DEF Ticks
<1> QED BY <1>1, <1>2

-----------------------------------------------------------------------------
(* One lemma for each group of actions *)

\* The steps of the loop and of stop() that send and answer no claim.
LEMMA QuietStep ==
  ASSUME IInv, Start \/ Stop \/ Stopping \/ Leave \/ TickBusy \/ TickEnds \/ BackoffEnds
  PROVE  IInv'
<1>1. UNCHANGED <<claims, executions, due, rejections>>
  BY DEF Start, Stop, Stopping, StopAwaitedLoop, StopReturns, Leave, TickBusy, TickEnds,
         BackoffEnds
<1>2. TypeOK'
  <2>1. CASE Start
    <3>1. pc = "stopped"
      BY <2>1 DEF IInv, TypeOK, StoppedUntilStarted, Start
    <3> QED BY <2>1, <3>1 DEF IInv, TypeOK, Start
  <2>2. CASE Stop
    <3>1. stops \in 0 .. MaxStops /\ stops < MaxStops /\ stops' = stops + 1
      BY <2>2 DEF IInv, TypeOK, Stop
    <3>2. stops' \in 0 .. MaxStops
      BY <3>1, LoopAssumption
    <3> QED BY <2>2, <3>2 DEF IInv, TypeOK, Stop
  <2>3. CASE Stopping
    BY <2>3 DEF IInv, TypeOK, Stopping, StopAwaitedLoop, StopReturns
  <2>4. CASE Leave
    BY <2>4 DEF IInv, TypeOK, Leave
  <2>5. CASE TickBusy \/ TickEnds \/ BackoffEnds
    BY <2>5 DEF IInv, TypeOK, TickBusy, TickEnds, BackoffEnds
  <2> QED BY <2>1, <2>2, <2>3, <2>4, <2>5
<1>3. ASSUME rejections = 0 PROVE OneTickInFlight'
  <2>1. OneTickInFlight
    BY <1>3 DEF IInv
  <2>2. \A c \in claims : pc' = "ticking" /\ c.tick = tick'
    <3>1. CASE claims = {}
      BY <3>1
    <3>2. CASE claims # {}
      <4>1. pc = "ticking"
        BY <2>1, <3>2 DEF OneTickInFlight
      <4>2. \E c \in claims : c.tick = tick
        BY <2>1, <3>2 DEF OneTickInFlight
      <4>3. ~Start
        BY <4>1 DEF IInv, TypeOK, StoppedUntilStarted, Start
      <4>4. pc' = pc /\ tick' = tick
        BY <4>1, <4>2, <4>3
        DEF Stop, Stopping, StopAwaitedLoop, StopReturns, Leave, TickBusy, TickEnds, BackoffEnds
      <4> QED BY <2>1, <4>4 DEF OneTickInFlight
    <3> QED BY <3>1, <3>2
  <2>3. stop' = "returned" => executions = {}
    BY <2>1 DEF OneTickInFlight, Start, Stop, Stopping, StopAwaitedLoop, StopReturns, Leave,
                TickBusy, TickEnds, BackoffEnds
  <2> QED BY <1>1, <2>1, <2>2, <2>3 DEF OneTickInFlight
<1>4. StoppedUntilStarted'
  BY DEF IInv, StoppedUntilStarted, Start, Stop, Stopping, StopAwaitedLoop, StopReturns,
         Leave, TickBusy, TickEnds, BackoffEnds, TypeOK
<1> QED BY <1>1, <1>2, <1>3, <1>4 DEF IInv

\* One claim for each slot that is idle.
LEMMA TickStep == IInv /\ Tick => IInv'
<1> SUFFICES ASSUME IInv, Tick PROVE IInv'
  OBVIOUS
<1>1. PICK t \in Ticks :
        /\ \A c \in claims : c.tick # t
        /\ tick' = t
        /\ claims' = claims \cup [slot : AvailableSlots, tick : {t}]
  BY DEF Tick
<1>2. /\ pc = "polling" /\ pc' = "ticking" /\ claimed' = FALSE
      /\ UNCHANGED <<running, executions, due, stop, stops, rejections>>
  BY DEF Tick
<1>3. AvailableSlots \subseteq Slots \ ActiveSlots
  BY DEF AvailableSlots
<1>4. t # 0
  BY LoopAssumption DEF Ticks
<1>5. TypeOK'
  BY <1>1, <1>2, <1>3, <1>4 DEF IInv, TypeOK
<1>6. ASSUME rejections = 0 PROVE OneTickInFlight'
  <2>1. claims = {}
    BY <1>2, <1>6 DEF IInv, OneTickInFlight
  <2>2. \A c \in claims' : c.slot \in AvailableSlots /\ c.tick = t
    BY <1>1, <2>1
  <2>3. \A c1, c2 \in claims' : c1.slot = c2.slot => c1 = c2
    BY <1>1, <2>1
  <2>4. \A c \in claims' : \A e \in executions : c.slot # e.slot
    BY <1>3, <2>2 DEF ActiveSlots
  <2> QED BY <1>1, <1>2, <1>6, <2>2, <2>3, <2>4 DEF IInv, OneTickInFlight
<1>7. StoppedUntilStarted'
  BY DEF Tick, StoppedUntilStarted
<1> QED BY <1>2, <1>5, <1>6, <1>7 DEF IInv

\* A claim that is answered without a run to execute.
LEMMA EmptyAnswer ==
  ASSUME IInv, NEW c \in claims,
         ClaimNone(c) \/ \E r \in Runs : ClaimUnregistered(c, r)
  PROVE  IInv'
<1>1. /\ claims' = claims \ {c} /\ due' \subseteq due
      /\ UNCHANGED <<running, pc, tick, claimed, executions, stop, stops, rejections>>
  BY DEF ClaimNone, ClaimUnregistered
<1>2. TypeOK'
  BY <1>1 DEF IInv, TypeOK
<1>3. rejections = 0 => OneTickInFlight'
  BY <1>1 DEF IInv, OneTickInFlight
<1>4. StoppedUntilStarted'
  BY <1>1 DEF IInv, StoppedUntilStarted
<1> QED BY <1>1, <1>2, <1>3, <1>4 DEF IInv

\* The run goes to the slot of its claim.
LEMMA ClaimStep ==
  ASSUME IInv, NEW c \in claims, NEW r \in Runs, Claim(c, r)
  PROVE  IInv'
<1> DEFINE new == [slot |-> c.slot, run |-> r]
<1>1. /\ r \in due /\ due' = due \ {r} /\ claims' = claims \ {c}
      /\ executions' = executions \cup {new}
      /\ UNCHANGED <<running, pc, tick, stop, stops, rejections>>
  BY DEF Claim
<1>2. TypeOK'
  <2>1. executions' \subseteq [slot : Slots, run : Runs]
    <3>1. new \in [slot : Slots, run : Runs]
      BY ClaimParts DEF IInv
    <3>2. executions \subseteq [slot : Slots, run : Runs]
      BY DEF IInv, TypeOK
    <3> HIDE DEF new
    <3> QED BY <1>1, <3>1, <3>2
  <2>2. \A e \in executions' : e.run \notin due'
    <3>1. new.run = r
      OBVIOUS
    <3>2. \A e \in executions : e.run \notin due
      BY DEF IInv, TypeOK
    <3> HIDE DEF new
    <3> QED BY <1>1, <3>1, <3>2
  <2>3. claimed' \in BOOLEAN
    BY Zenon DEF Claim
  <2> QED BY <1>1, <2>1, <2>2, <2>3 DEF IInv, TypeOK
<1>3. ASSUME rejections = 0 PROVE OneTickInFlight'
  <2>1. OneTickInFlight
    BY <1>3 DEF IInv
  <2>2. \A e \in executions : e.slot # new.slot
    BY <2>1 DEF OneTickInFlight
  <2>3. \A d \in claims' : d.slot # new.slot
    BY <1>1, <2>1 DEF OneTickInFlight
  <2>4. \A e1, e2 \in executions' : e1.slot = e2.slot => e1 = e2
    BY <1>1, <2>1, <2>2 DEF OneTickInFlight
  <2>5. stop # "returned"
    BY <2>1 DEF IInv, TypeOK, OneTickInFlight
  <2> QED BY <1>1, <2>1, <2>3, <2>4, <2>5 DEF OneTickInFlight
<1>4. StoppedUntilStarted'
  BY <1>1 DEF IInv, StoppedUntilStarted
<1> QED BY <1>1, <1>2, <1>3, <1>4 DEF IInv

\* With a refused claim the guarantees are off.
LEMMA RejectStep ==
  ASSUME IInv, NEW c \in claims, Reject(c)
  PROVE  IInv'
<1>1. /\ claims' = claims \ {c} /\ due' \subseteq due
      /\ UNCHANGED <<running, claimed, executions, stop, stops>>
  BY DEF Reject
<1>2. rejections' \in 0 .. MaxRejections /\ rejections' # 0
  <2>1. /\ rejections \in 0 .. MaxRejections /\ rejections < MaxRejections
        /\ rejections' = rejections + 1
    BY DEF IInv, TypeOK, Reject
  <2> QED BY <2>1, LoopAssumption
<1>3. /\ pc' = IF c.tick = tick THEN "backing off" ELSE pc
      /\ tick' = IF c.tick = tick THEN 0 ELSE tick
  BY DEF Reject
<1>4. c.tick # 0
  BY ClaimParts DEF IInv
<1>5. c.tick = tick => pc = "ticking"
  BY <1>4 DEF IInv, TypeOK
<1>6. TypeOK'
  BY <1>1, <1>3, <1>5, <1>2 DEF IInv, TypeOK
<1>7. StoppedUntilStarted'
  BY <1>1, <1>3, <1>5 DEF IInv, StoppedUntilStarted
<1> QED BY <1>6, <1>2, <1>7 DEF IInv

\* A run becomes due, or an execution ends.
LEMMA RunStep ==
  ASSUME IInv, (\E e \in executions : Finish(e)) \/ (\E r \in Runs : Arrive(r))
  PROVE  IInv'
<1>1. /\ executions' \subseteq executions
      /\ UNCHANGED <<running, pc, tick, claimed, claims, stop, stops, rejections>>
  BY DEF Finish, Arrive
<1>2. TypeOK'
  BY DEF IInv, TypeOK, Finish, Arrive
<1>3. rejections = 0 => OneTickInFlight'
  BY <1>1 DEF IInv, OneTickInFlight
<1>4. StoppedUntilStarted'
  BY <1>1 DEF IInv, StoppedUntilStarted
<1> QED BY <1>1, <1>2, <1>3, <1>4 DEF IInv

LEMMA NextInv == IInv /\ [Next]_vars => IInv'
<1> SUFFICES ASSUME IInv, [Next]_vars PROVE IInv'
  OBVIOUS
<1>1. CASE Start \/ Stop \/ Stopping
  BY <1>1, QuietStep
<1>2. CASE Loop
  BY <1>2, QuietStep, TickStep DEF Loop
<1>3. CASE \E c \in claims : Answer(c) \/ Reject(c)
  BY <1>3, EmptyAnswer, ClaimStep, RejectStep DEF Answer
<1>4. CASE (\E e \in executions : Finish(e)) \/ (\E r \in Runs : Arrive(r))
  BY <1>4, RunStep
<1>5. CASE UNCHANGED vars
  BY <1>5 DEF vars, IInv, TypeOK, OneTickInFlight, StoppedUntilStarted
<1> QED BY <1>1, <1>2, <1>3, <1>4, <1>5 DEF Next

LEMMA Invariance == Spec => []IInv
BY InitInv, NextInv, PTL DEF Spec

-----------------------------------------------------------------------------
(* The theorems *)

\* The loop awaits a tick exactly while it is ticking, a run that is executed is
\* not due, and stop() gets past the loop only when the loop has ended.
THEOREM TypeCorrect == Spec => []TypeOK
<1>1. IInv => TypeOK
  BY DEF IInv
<1> QED BY <1>1, Invariance, PTL

\* A slot executes one run at a time as long as the database refuses no claim,
\* for any number of slots.
THEOREM SlotsExecuteOne == Spec => []OneExecutionPerSlot
<1>1. IInv => OneExecutionPerSlot
  BY DEF IInv, OneTickInFlight, OneExecutionPerSlot
<1> QED BY <1>1, Invariance, PTL

\* stop() returns with no execution in progress, and none begins before the next
\* start, as long as the database refuses no claim.
THEOREM StopWaitsForAll == Spec => []StopWaitsUnlessRefused
<1>1. IInv => StopWaitsUnlessRefused
  BY DEF IInv, OneTickInFlight, StopWaitsUnlessRefused, StopWaits
<1> QED BY <1>1, Invariance, PTL
===============================================================================
