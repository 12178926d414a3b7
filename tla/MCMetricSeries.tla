---------------------------- MODULE MCMetricSeries ----------------------------
(* The instances of WpaLifecycle and MetricSeries that TLC checks. *)
EXTENDS MetricSeries

ExternalMetric ==
    [name |-> "requests", type |-> "External", source |-> TRUE, selector |-> TRUE, low |-> 20, high |-> Nil]

ResourceMetric ==
    [name |-> "cpu", type |-> "Resource", source |-> TRUE, selector |-> TRUE, low |-> 20, high |-> 40]

\* Everything that can be left out is; one watermark is given.
Partial ==
    [scaleTargetRef |-> "app", minReplicas |-> Nil, maxReplicas |-> 4, modulo |-> Nil,
     algorithm |-> "", tolerance |-> 0, scaleUpLimitFactor |-> Nil, scaleDownLimitFactor |-> Nil,
     downscaleForbiddenWindow |-> 0, upscaleForbiddenWindow |-> 0,
     upscaleDelay |-> 0, downscaleDelay |-> 0, dryRun |-> FALSE, tolerateZero |-> FALSE,
     minAvailable |-> 0, converge |-> "", recommender |-> FALSE, recoMarks |-> FALSE, metrics |-> << ExternalMetric >>]

\* Two metrics, one of them shared with Partial.
Complete ==
    DefaultWatermarkPodAutoscaler(
        [Partial EXCEPT !.minReplicas = 2, !.metrics = << ResourceMetric, ExternalMetric >>])

\* A metric without its block, after one that has it, in a spec that still has to be
\* defaulted and has another target.
Malformed ==
    [Partial EXCEPT !.scaleTargetRef = "other",
                    !.metrics = << ExternalMetric, [ResourceMetric EXCEPT !.source = FALSE] >>]

\* The bounds are swapped.
Swapped == [Partial EXCEPT !.minReplicas = 5]

LifecycleSpecs == { Partial, Complete, Malformed }

InvalidSpecs == { Swapped }
================================================================================
