----------------------------- MODULE MCReconciler -----------------------------
(* The instances of Reconciler that TLC checks. *)
EXTENDS Reconciler, MCSpecs

\* A user raises maxReplicas, and the metric stays above the high watermark.
EditSpecs == { BaseSpec, [BaseSpec EXCEPT !.maxReplicas = 5] }
HighReading == { Reading(2, 200) }

\* A second spec with other bounds; one metric of each type, whose pods are all
\* pending in one of the readings.
RepairSpecs ==
    LET two == << BaseSpec.metrics[1], [type |-> "Resource", low |-> 20, high |-> 40] >>
    IN  { BaseSpec, [BaseSpec EXCEPT !.minReplicas = 4, !.maxReplicas = 5, !.metrics = two] }
RepairReadings ==
    LET AllPending == [Pods(2) EXCEPT !.ready = 0, !.ignored = 2, !.withMetrics = 0]
        both == [Reading(2, 60) EXCEPT !.sums = << 60, 60 >>]
    IN  { both, [both EXCEPT !.pods = AllPending] }
RepairReplicas == {1, 6}

\* A recommender without watermarks, which CheckWPAValidity accepts.
UnmarkedSpecs == { [BaseSpec EXCEPT !.recommender = TRUE, !.metrics = << >>] }
RecommendedReadings ==
    { [Reading(2, 0) EXCEPT !.reco = [replicas |-> 3, lower |-> 2, upper |-> 4]] }
================================================================================
