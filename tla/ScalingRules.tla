----------------------------- MODULE ScalingRules -----------------------------
(***************************************************************************)
(* The rules that turn a proposed replica count into a decision: velocity  *)
(* limits, minReplicas and maxReplicas, the two forbidden windows and the  *)
(* two delays.  `spec` is a WatermarkPodAutoscalerSpec: limit factors are  *)
(* in thousandths of a percent (MilliValue), windows and delays in         *)
(* seconds; recoMarks says that the recommender block has both watermarks. *)
(* Times are in ticks, Second of which make a second.                      *)
(***************************************************************************)
EXTENDS Math32

CONSTANT Second     \* clock ticks in a second
ASSUME SecondAssumption == Second \in Nat \ {0}

NoTime == -1        \* a nil time, or a condition that does not hold

\* metav1.Time is serialised with a resolution of one second.
Persisted(t) == IF t = NoTime THEN NoTime ELSE t - (t % Second)

\* What the rules and the calculator expect of a spec: it was defaulted, found
\* valid, and its missing watermarks were filled in.
SpecType(s) ==
    /\ s.minReplicas \in Nat \ {0} /\ s.maxReplicas \in Nat /\ s.minReplicas <= s.maxReplicas
    /\ s.scaleUpLimitFactor \in Nat
    /\ s.scaleDownLimitFactor \in Nat /\ s.scaleDownLimitFactor < 100000
    /\ s.upscaleForbiddenWindow \in Nat \ {0} /\ s.downscaleForbiddenWindow \in Nat \ {0}
    /\ s.upscaleDelay \in Nat /\ s.downscaleDelay \in Nat
    /\ s.dryRun \in BOOLEAN /\ s.tolerateZero \in BOOLEAN
    /\ s.recommender \in BOOLEAN /\ s.recoMarks \in BOOLEAN
    /\ s.modulo \in Nat \ {0} /\ s.tolerance \in Nat /\ s.tolerance <= 1000 /\ s.minAvailable \in Int
    /\ \A i \in DOMAIN s.metrics : /\ s.metrics[i].type \in {"External", "Resource"}
                                   /\ s.metrics[i].low \in Nat /\ s.metrics[i].high \in Nat

--------------------------------------------------------------------------------
\* Mutant: one replica more than the factor's share.
ScaleUpLimitOffByOne(spec, currentReplicas) ==
    IF spec.scaleUpLimitFactor = 0 THEN currentReplicas
    ELSE currentReplicas
         + Max32(1, (spec.scaleUpLimitFactor * currentReplicas) \div 100000 + 1)

\* The greatest count the controller may scale up TO, and the least it may
\* scale down to.  A factor of 0 disables the direction.
calculateScaleUpLimit(spec, currentReplicas) ==
    IF spec.scaleUpLimitFactor = 0 THEN currentReplicas
    ELSE currentReplicas
         + Max32(1, (spec.scaleUpLimitFactor * currentReplicas) \div 100000)

calculateScaleDownLimit(spec, currentReplicas) ==
    IF spec.scaleDownLimitFactor = 0 THEN currentReplicas
    ELSE currentReplicas
         - Max32(1, (spec.scaleDownLimitFactor * currentReplicas) \div 100000)

\* minimumAllowedReplicas.  A downscale that is capped is given up altogether
\* when fewer pods than that are known to be ready.
MinimumAllowed(spec, currentReplicas, desiredReplicas, readyReplicas) ==
    LET scaleDownLimit == calculateScaleDownLimit(spec, currentReplicas)
        capped         == Max32(scaleDownLimit, spec.minReplicas)
    IN  IF spec.minReplicas = 0 THEN 1
        ELSE IF desiredReplicas >= scaleDownLimit THEN spec.minReplicas
        ELSE IF readyReplicas < capped /\ readyReplicas > 0 THEN currentReplicas
        ELSE capped

\* maximumAllowedReplicas.
MaximumAllowed(spec, currentReplicas, desiredReplicas) ==
    LET scaleUpLimit == calculateScaleUpLimit(spec, currentReplicas)
    IN  IF desiredReplicas > scaleUpLimit
        THEN Min32(scaleUpLimit, spec.maxReplicas)
        ELSE spec.maxReplicas

convertDesiredReplicasWithRules(spec, currentReplicas, desiredReplicas, readyReplicas) ==
    LET minimum == MinimumAllowed(spec, currentReplicas, desiredReplicas, readyReplicas)
        maximum == MaximumAllowed(spec, currentReplicas, desiredReplicas)
    IN  IF desiredReplicas < minimum THEN minimum
        ELSE IF desiredReplicas > maximum THEN maximum
        ELSE desiredReplicas

normalizeDesiredReplicas(spec, currentReplicas, desiredReplicas, readyReplicas) ==
    convertDesiredReplicasWithRules(spec, currentReplicas, desiredReplicas, readyReplicas)

--------------------------------------------------------------------------------
\* A condition is kept as the time since which it holds: setConditionInList moves
\* LastTransitionTime only when the status changes.
setCondition(since, holds, t) ==
    IF ~holds THEN NoTime ELSE IF since = NoTime THEN t ELSE since

\* The window of `seconds` after the last scaling event is not over at time t.
Backoff(status, seconds, t) == status.lastScaleTime + seconds * Second > t

\* Mutant: with a delay to wait for, the forbidden window is all that counts.
canScaleWithoutDelay(isBackoff, outOfBoundsSince, decisionDelay, isStable, t) == ~isBackoff

\* Mutant: the forbidden window is forgotten.
canScaleDuringBackoff(isBackoff, outOfBoundsSince, decisionDelay, isStable, t) ==
    \/ decisionDelay = 0 \/ isStable
    \/ /\ outOfBoundsSince # NoTime
       /\ (t - outOfBoundsSince) \div Second >= decisionDelay

\* Seconds() is converted to int32, which drops the fraction.
canScaleAfterDelay(isBackoff, outOfBoundsSince, decisionDelay, isStable, t) ==
    IF decisionDelay = 0 \/ isStable THEN ~isBackoff
    ELSE /\ outOfBoundsSince # NoTime
         /\ (t - outOfBoundsSince) \div Second >= decisionDelay
         /\ ~isBackoff

\* `timestamp` was taken before the metrics were fetched, t is the time of the call.
shouldScale(spec, status, currentReplicas, desiredReplicas, timestamp, isStable, t) ==
    \/ status.lastScaleTime = NoTime
    \/ /\ desiredReplicas > currentReplicas
       /\ canScaleAfterDelay(Backoff(status, spec.upscaleForbiddenWindow, timestamp),
                             status.aboveSince, spec.upscaleDelay, isStable, t)
    \/ /\ desiredReplicas < currentReplicas
       /\ canScaleAfterDelay(Backoff(status, spec.downscaleForbiddenWindow, timestamp),
                             status.belowSince, spec.downscaleDelay, isStable, t)

--------------------------------------------------------------------------------
\* The switch of reconcileWPA that overrides the decision: a target at zero is
\* left alone, one outside minReplicas..maxReplicas is brought back, and one
\* that reports no replica is set to 1.
Disabled(scale) == scale.spec = 0

\* Mutant: a target below minReplicas is not brought back.
ForcedDownOnly(spec, scale) ==
    scale.spec # 0 /\ (scale.spec > spec.maxReplicas \/ scale.status = 0)

Forced(spec, scale) ==
    /\ scale.spec # 0
    /\ scale.spec > spec.maxReplicas \/ scale.spec < spec.minReplicas \/ scale.status = 0

ForcedReplicas(spec, scale) ==
    IF scale.spec > spec.maxReplicas THEN spec.maxReplicas
    ELSE IF scale.spec < spec.minReplicas THEN spec.minReplicas
    ELSE 1

--------------------------------------------------------------------------------
(* What the rules promise of a move from `current` to n replicas. *)

InBounds(spec, n) == spec.minReplicas <= n /\ n <= spec.maxReplicas

\* A move by n replicas is one replica, or no more than the factor's share of them.
Share(n, factor, current) == factor # 0 /\ (n = 1 \/ 100000 * n <= factor * current)

VelocityRespected(spec, current, n) ==
    /\ n > current => Share(n - current, spec.scaleUpLimitFactor, current)
    /\ n < current => Share(current - n, spec.scaleDownLimitFactor, current)

\* The forbidden window for a move from `current` to n replicas.
Window(spec, current, n) ==
    IF n > current THEN spec.upscaleForbiddenWindow ELSE spec.downscaleForbiddenWindow
================================================================================
