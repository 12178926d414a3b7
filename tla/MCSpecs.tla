------------------------------- MODULE MCSpecs -------------------------------
(* Specs and readings shared by the instances that TLC checks. *)
EXTENDS Integers, Sequences

\* One external metric with the watermarks 20 and 40, averaged over the ready pods.
BaseSpec ==
    [minReplicas |-> 2, maxReplicas |-> 4,
     scaleUpLimitFactor |-> 50000, scaleDownLimitFactor |-> 50000,
     upscaleForbiddenWindow |-> 1, downscaleForbiddenWindow |-> 2,
     upscaleDelay |-> 0, downscaleDelay |-> 0, dryRun |-> FALSE,
     modulo |-> 1, converge |-> "", tolerance |-> 100, algorithm |-> "average",
     minAvailable |-> 0, tolerateZero |-> FALSE, recommender |-> FALSE, recoMarks |-> FALSE,
     metrics |-> << [type |-> "External", low |-> 20, high |-> 40] >>]

\* n pods, all of them ready.
Pods(n) ==
    [listed |-> n, tolerated |-> n, incorrect |-> 0, ready |-> n, ignored |-> 0, withMetrics |-> n]

Reading(n, sum) ==
    [pods |-> Pods(n), sums |-> << sum >>, reco |-> [replicas |-> 0, lower |-> 0, upper |-> 0]]
================================================================================
