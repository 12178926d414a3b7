-------------------------------- MODULE WpaSpec --------------------------------
(***************************************************************************)
(* A WatermarkPodAutoscalerSpec as a user writes it: what defaulting fills *)
(* in, which specs are refused, and the watermark that is filled in before *)
(* a reconciliation.  A pointer that is not set is Nil; other fields that  *)
(* are not set have the zero value of their Go type; scaleTargetRef is the *)
(* name of the target, Empty unless its kind and name are set.  A metric is*)
(*   name      the name of the metric                                      *)
(*   type      "External", "Resource" or something else                    *)
(*   source    its Resource (for another type: External) block is there    *)
(*   selector  ... with a MetricSelector                                   *)
(*   low, high its watermarks                                              *)
(***************************************************************************)
EXTENDS ScalingRules, Sequences

Nil == -1           \* a nil pointer: a quantity of the models is not -1
Empty == ""         \* a string that is not set

DefaultWatermarkPodAutoscaler(spec) ==
    LET default(value, unset, d) == IF value = unset THEN d ELSE value
    IN  [spec EXCEPT !.minReplicas              = default(@, Nil, 1),
                     !.modulo                   = default(@, Nil, 1),
                     !.algorithm                = default(@, Empty, "absolute"),
                     !.tolerance                = default(@, 0, 100),
                     !.scaleUpLimitFactor       = default(@, Nil, 50000),
                     !.scaleDownLimitFactor     = default(@, Nil, 20000),
                     !.downscaleForbiddenWindow = default(@, 0, 300),
                     !.upscaleForbiddenWindow   = default(@, 0, 60)]

IsDefaultWatermarkPodAutoscaler(spec) ==
    /\ spec.minReplicas # Nil /\ spec.modulo # Nil
    /\ spec.algorithm # Empty /\ spec.tolerance # 0
    /\ spec.scaleUpLimitFactor # Nil /\ spec.scaleDownLimitFactor # Nil
    /\ spec.downscaleForbiddenWindow # 0 /\ spec.upscaleForbiddenWindow # 0

--------------------------------------------------------------------------------
\* Equal watermarks are accepted, and so is one that is missing.
checkWPAMetricsValidity(spec) ==
    \A i \in DOMAIN spec.metrics :
        LET m == spec.metrics[i]
        IN  /\ m.type \in {"External", "Resource"}
            /\ m.source /\ m.selector
            /\ m.low # Nil \/ m.high # Nil
            /\ m.low # Nil /\ m.high # Nil => m.high >= m.low

CheckWPAValidity(spec) ==
    /\ spec.scaleTargetRef # Empty
    /\ spec.minReplicas # Nil /\ spec.maxReplicas >= spec.minReplicas
    /\ spec.tolerance >= 0 /\ spec.tolerance <= 1000
    /\ spec.scaleUpLimitFactor # Nil /\ spec.scaleDownLimitFactor # Nil
    /\ spec.scaleUpLimitFactor >= 0
    /\ spec.scaleDownLimitFactor >= 0 /\ spec.scaleDownLimitFactor < 100000
    /\ ~(spec.recommender /\ spec.metrics # << >>)
    /\ checkWPAMetricsValidity(spec)

\* Mutant: only a missing low watermark is filled in.
fillMissingLowWatermark(spec) ==
    [spec EXCEPT !.metrics = [i \in DOMAIN @ |->
        [@[i] EXCEPT !.low = IF @ = Nil THEN spec.metrics[i].high ELSE @]]]

\* A missing watermark is the same as the other one; the recommender's are left alone.
fillMissingWatermark(spec) ==
    LET filled(m) == [m EXCEPT !.low  = IF @ = Nil THEN m.high ELSE @,
                               !.high = IF @ = Nil THEN m.low ELSE @]
    IN  [spec EXCEPT !.metrics = [i \in DOMAIN @ |-> filled(@[i])]]

\* cleanupAssociatedMetrics dereferences the block of every metric.
CleanupPanics(spec) == \E i \in DOMAIN spec.metrics : ~spec.metrics[i].source

--------------------------------------------------------------------------------
\* The specs that the CRD's schema lets pass (+kubebuilder:validation), with watermarks
\* that are not negative.
MetricSpecs ==
    [name : STRING, type : STRING, source : BOOLEAN, selector : BOOLEAN,
     low : {Nil} \cup Nat, high : {Nil} \cup Nat]

CrdSchema ==
    [scaleTargetRef : STRING,
     minReplicas : {Nil} \cup (Nat \ {0}), maxReplicas : Nat, modulo : {Nil} \cup (Nat \ {0}),
     algorithm : {Empty, "absolute", "average", "other"}, converge : STRING, tolerance : Int,
     scaleUpLimitFactor : Int, scaleDownLimitFactor : Int,
     upscaleForbiddenWindow : Nat, downscaleForbiddenWindow : Nat,
     upscaleDelay : Nat, downscaleDelay : Nat,
     dryRun : BOOLEAN, tolerateZero : BOOLEAN, minAvailable : Int,
     recommender : BOOLEAN, recoMarks : BOOLEAN, metrics : Seq(MetricSpecs)]
================================================================================
