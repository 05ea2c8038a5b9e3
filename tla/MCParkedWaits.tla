----------------------------- MODULE MCParkedWaits -----------------------------
(* Small instances of ParkedWaits. *)
EXTENDS ParkedWaits, TLC

CONSTANTS sleep, nap, child, signal

MCKind == sleep :> "sleep" @@ nap :> "sleep" @@ child :> "workflow" @@ signal :> "signal"

MCKindOfWaits == [w \in Waits |-> MCKind[w]]

\* The sleeps end in time, the other waits are ended by what they wait for.
MCDuration == sleep :> 2 @@ nap :> 1 @@ child :> 9 @@ signal :> 9

MCDurationOfWaits == [w \in Waits |-> MCDuration[w]]

\* The wait for the signal runs out before the nap, which is then begun again.
MCRestartingSleep == nap :> 2 @@ child :> 9 @@ signal :> 1

\* Timeouts that race the result.
MCShortDuration == [w \in Waits |-> 1]

MCShortTimeouts == [w \in Waits |-> IF w = nap THEN 1 ELSE 2]
===============================================================================
