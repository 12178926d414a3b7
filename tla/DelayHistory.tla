----------------------------- MODULE DelayHistory -----------------------------
(***************************************************************************)
(* Reconciler with a history of the readings: since when every reading     *)
(* that was computed found the metric above (below) its watermark.  The    *)
(* controller itself only remembers this through the transition times in   *)
(* the status of the WPA, which it writes, loses and reads back.           *)
(***************************************************************************)
EXTENDS PolicyRefinement

VARIABLES aboveSeen, belowSeen

hvars == << vars, aboveSeen, belowSeen >>

\* The step computed a reading, and left its position in the worker's instance.
Computed == pc = "scaled" /\ pc' \in {"update", "record"}

Remember(seen, holds) ==
    IF ~Computed THEN seen
    ELSE IF ~holds THEN NoTime
    ELSE IF seen = NoTime THEN clock ELSE seen

HInit == Init /\ aboveSeen = NoTime /\ belowSeen = NoTime

HNext ==
    /\ Next
    /\ aboveSeen' = Remember(aboveSeen, inst'.status.aboveSince # NoTime)
    /\ belowSeen' = Remember(belowSeen, inst'.status.belowSince # NoTime)

HSpec == HInit /\ [][HNext]_hvars

Waited(since, delay) ==
    delay = 0 \/ (since # NoTime /\ clock - since > (delay - 1) * Second)

\* Once a WPA has had its first scaling event, the controller follows a metric out
\* of bounds only if every reading computed during the configured delay (rounded by
\* a second) found it there (canScaleAfterDelay, on the transition times that
\* setConditionInList keeps in the status across reconciliations).
DelayRespected ==
    [][/\ MetricScales /\ inst.status.lastScaleTime # NoTime
       /\ aboveSeen # NoTime \/ belowSeen # NoTime
       => IF target'.spec > target.spec THEN Waited(aboveSeen, inst.spec.upscaleDelay)
                                        ELSE Waited(belowSeen, inst.spec.downscaleDelay)]_hvars
================================================================================
