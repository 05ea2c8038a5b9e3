------------------------------ MODULE FencedRuns ------------------------------
(***************************************************************************)
(* What the workflow engine promises about the outcome of a run, without   *)
(* leases, timers, workers or rows.  Every claim of a run draws a fresh    *)
(* token; an execution carries the token of its claim, and only the        *)
(* execution that carries the newest token may give the run back to the    *)
(* queue or record its outcome.  An execution with an older token can only *)
(* end without a trace.  A client may cancel a run that is not finished,   *)
(* and a passed deadline fails it; nothing changes a finished run.         *)
(***************************************************************************)
EXTENDS Naturals

CONSTANT Runs   \* workflow runs

VARIABLES phase,  \* phase[r]: where run r is in its life
          token,  \* token[r]: the token of the newest claim of r
          live    \* the executions in progress: run and token

vars == <<phase, token, live>>

Init ==
  /\ phase = [r \in Runs |-> "absent"]
  /\ token = [r \in Runs |-> 0]
  /\ live = {}

Unfinished(r) == phase[r] \in {"waiting", "held"}

\* The phases once the runs of E, whose deadline has passed, have failed.
Expired(E) == [r \in Runs |-> IF r \in E THEN "failed" ELSE phase[r]]

\* A client submits a run.
Submit(r) ==
  /\ phase[r] = "absent"
  /\ phase' = [phase EXCEPT ![r] = "waiting"]
  /\ UNCHANGED <<token, live>>

\* A client cancels a run.
Cancel(r) ==
  /\ Unfinished(r)
  /\ phase' = [phase EXCEPT ![r] = "canceled"]
  /\ UNCHANGED <<token, live>>

\* Deadlines pass.
Expire(E) ==
  /\ \A r \in E : Unfinished(r)
  /\ phase' = Expired(E)
  /\ UNCHANGED <<token, live>>

\* A claim of r under a new token; overdue runs fail with it.  The previous
\* holder is not asked, it may still be executing.
Grant(E, r) ==
  /\ \A s \in E \cup {r} : Unfinished(s)
  /\ r \notin E
  /\ phase' = [Expired(E) EXCEPT ![r] = "held"]
  /\ token' = [token EXCEPT ![r] = token[r] + 1]
  /\ live' = live \cup {[run |-> r, token |-> token[r] + 1]}

\* The holder of the newest token gives the run back or records its outcome.
Return(l, p) ==
  /\ phase[l.run] = "held"
  /\ l.token = token[l.run]
  /\ phase' = [phase EXCEPT ![l.run] = p]
  /\ live' = live \ {l}
  /\ UNCHANGED token

\* An execution ends and leaves no trace: it was superseded, or it died.
Drop(l) ==
  /\ live' = live \ {l}
  /\ UNCHANGED <<phase, token>>

Next ==
  \/ \E r \in Runs : Submit(r) \/ Cancel(r)
  \/ \E E \in SUBSET Runs : Expire(E) \/ \E r \in Runs : Grant(E, r)
  \/ \E l \in live :
       Drop(l) \/ \E p \in {"waiting", "completed", "failed"} : Return(l, p)

Spec == Init /\ [][Next]_vars
===============================================================================
