------------------------------- MODULE ClaimOnce -------------------------------
(***************************************************************************)
(* What the cron dispatcher relies on (the interface ScheduleStore in      *)
(* packages/engine/src/runner/cron.ts): a cutoff of a schedule is granted  *)
(* to one caller, whoever asks for it and how often.                       *)
(***************************************************************************)
CONSTANT Cutoffs

VARIABLE granted   \* granted[c]: how many callers were granted cutoff c

Init == granted = [c \in Cutoffs |-> 0]

Grant(c) ==
  /\ granted[c] = 0
  /\ granted' = [granted EXCEPT ![c] = 1]

Next == \E c \in Cutoffs : Grant(c)

Spec == Init /\ [][Next]_granted
===============================================================================
