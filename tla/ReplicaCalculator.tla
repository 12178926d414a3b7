-------------------------- MODULE ReplicaCalculator --------------------------
(***************************************************************************)
(* The replica calculator: what a metric reading, or a recommendation,     *)
(* proposes for a target of `currentReplicas` replicas.                    *)
(*                                                                         *)
(* A reading is [pods, sums, reco]: the pods the lister reports, counted   *)
(* as in module PodReadiness; per metric of the spec the sum of its        *)
(* values; and the recommender's answer.  Quantities are milli-values.     *)
(* adjustedUsage is the quotient usage.num / usage.den, where den is the   *)
(* number of ready replicas for the algorithm "average" and 1 otherwise.   *)
(***************************************************************************)
EXTENDS Math32, Sequences

ReadingType(r) ==
    /\ \A n \in {"listed", "tolerated", "incorrect", "ready", "ignored", "withMetrics"} :
          r.pods[n] \in Nat
    /\ r.reco.replicas \in Nat /\ r.reco.lower \in Nat /\ r.reco.upper \in Nat

\* ReplicaCalculation; ok is FALSE when the Go function returns an error.
Calculation(replicaCount, readyReplicas, isAbove, isBelow) ==
    [ok |-> TRUE, replicaCount |-> replicaCount, readyReplicas |-> readyReplicas,
     isAbove |-> isAbove, isBelow |-> isBelow]

Failed ==
    [ok |-> FALSE, replicaCount |-> 0, readyReplicas |-> 0, isAbove |-> FALSE, isBelow |-> FALSE]

--------------------------------------------------------------------------------
\* Up to the next multiple of replicaScalingAbsoluteModulo.
roundReplicaCountToAbsoluteModulo(replicaCount, spec) ==
    LET remainder == Mod32(replicaCount, spec.modulo)
    IN  IF remainder > 0 THEN Add32(replicaCount, spec.modulo - remainder) ELSE replicaCount

\* Mutant: the current count is not a lower bound.
UpscaleUnbounded(currentReplicas, spec, replicaCount) ==
    roundReplicaCountToAbsoluteModulo(replicaCount, spec)

adjustReplicaCountForUpscale(currentReplicas, spec, replicaCount) ==
    Max32(roundReplicaCountToAbsoluteModulo(replicaCount, spec), currentReplicas)

adjustReplicaCountForDownscale(currentReplicas, spec, replicaCount) ==
    Min32(roundReplicaCountToAbsoluteModulo(replicaCount, spec), currentReplicas)

\* Mutant: the quotient is rounded down.
UpscaleRoundedDown(currentReplicas, ready, spec, usage, highMark) ==
    adjustReplicaCountForUpscale(currentReplicas, spec,
        Floor32(ready * usage.num, usage.den * highMark))

getReplicaCountUpscale(currentReplicas, ready, spec, usage, highMark) ==
    adjustReplicaCountForUpscale(currentReplicas, spec,
        Ceil32(ready * usage.num, usage.den * highMark))

getReplicaCountDownscale(currentReplicas, ready, spec, usage, lowMark) ==
    adjustReplicaCountForDownscale(currentReplicas, spec,
        Max32(Floor32(ready * usage.num, usage.den * lowMark), 1))

\* Mutant: the step is taken whatever usage is expected after it.
ConvergeUnbounded(currentReplicas, spec, lowerBound, upperBound) ==
    CASE spec.converge = "highwatermark" -> Max32(currentReplicas - spec.modulo, 1)
      [] spec.converge = "lowwatermark" -> currentReplicas + spec.modulo
      [] OTHER -> currentReplicas

\* One step of replicaScalingAbsoluteModulo towards a watermark, given up when the
\* count would leave the bounds within which the usage is expected to stay inside.
tryToConvergeToWatermark(currentReplicas, spec, lowerBound, upperBound) ==
    LET down == Max32(currentReplicas - spec.modulo, 1)
        up   == currentReplicas + spec.modulo
    IN  CASE spec.converge = "highwatermark" ->
                 IF down < lowerBound THEN currentReplicas ELSE down
          [] spec.converge = "lowwatermark" ->
                 IF up > upperBound THEN currentReplicas ELSE up
          [] OTHER -> currentReplicas

tryToConvergeToWatermarkForUsage(currentReplicas, ready, spec, usage, lowMark, highMark) ==
    LET minReplicas == Max32(spec.minReplicas, 1)
        lowerBound ==
            IF highMark = 0 THEN currentReplicas
            ELSE Cap(Ceil32(ready * usage.num, usage.den * highMark),
                     minReplicas, spec.maxReplicas)
        upperBound ==
            IF lowMark = 0 THEN currentReplicas
            ELSE Cap(Floor32(ready * usage.num, usage.den * lowMark),
                     minReplicas, spec.maxReplicas)
    IN  tryToConvergeToWatermark(currentReplicas, spec, lowerBound, upperBound)

--------------------------------------------------------------------------------
\* The tolerance widens the band; the products are int64 and their quotient is
\* truncated.  usage.den = 0 makes the usage +Inf, or NaN when num is 0 as well.
AboveHighMark(spec, usage, highMark) ==
    LET adjustedHM == highMark + (highMark * spec.tolerance) \div 1000
    IN  IF usage.den = 0 THEN usage.num > 0 ELSE usage.num > usage.den * adjustedHM

BelowLowMark(spec, usage, lowMark) ==
    LET adjustedLM == lowMark - (lowMark * spec.tolerance) \div 1000
    IN  usage.den # 0 /\ usage.num < usage.den * adjustedLM

getReplicaCount(currentReplicas, ready, spec, usage, lowMark, highMark) ==
    IF AboveHighMark(spec, usage, highMark)
    THEN Calculation(getReplicaCountUpscale(currentReplicas, ready, spec, usage, highMark),
                     ready, TRUE, FALSE)
    ELSE IF BelowLowMark(spec, usage, lowMark)
    THEN Calculation(getReplicaCountDownscale(currentReplicas, ready, spec, usage, lowMark),
                     ready, FALSE, TRUE)
    ELSE Calculation(tryToConvergeToWatermarkForUsage(currentReplicas, ready, spec, usage,
                                                      lowMark, highMark),
                     ready, FALSE, FALSE)

\* Mutant: the direction follows the recommender's bounds.
AdjustByBounds(currentReplicas, ready, spec, reco) ==
    LET isAbove == currentReplicas < reco.lower
        isBelow == currentReplicas > reco.upper
    IN  CASE isAbove -> Calculation(adjustReplicaCountForUpscale(currentReplicas, spec, reco.replicas),
                                    ready, isAbove, isBelow)
          [] isBelow -> Calculation(adjustReplicaCountForDownscale(currentReplicas, spec, reco.replicas),
                                    ready, isAbove, isBelow)
          [] OTHER -> Calculation(tryToConvergeToWatermark(currentReplicas, spec, reco.lower, reco.upper),
                                  ready, FALSE, FALSE)

\* The position of the metric follows the recommender's bounds, the direction its
\* recommendation; equal to the current count means inside the watermarks.
adjustReplicaCount(currentReplicas, ready, spec, reco) ==
    LET isAbove == currentReplicas < reco.lower
        isBelow == currentReplicas > reco.upper
    IN  IF reco.replicas > currentReplicas
        THEN Calculation(adjustReplicaCountForUpscale(currentReplicas, spec, reco.replicas),
                         ready, isAbove, isBelow)
        ELSE IF reco.replicas < currentReplicas
        THEN Calculation(adjustReplicaCountForDownscale(currentReplicas, spec, reco.replicas),
                         ready, isAbove, isBelow)
        ELSE Calculation(tryToConvergeToWatermark(currentReplicas, spec, reco.lower, reco.upper),
                         ready, FALSE, FALSE)

--------------------------------------------------------------------------------
Usage(spec, sum, ready) == [num |-> sum, den |-> IF spec.algorithm = "average" THEN ready ELSE 1]

\* Ready pods beyond what the target reports belong to somebody else.
CurrentReady(scale, pods) == Min32(pods.tolerated, scale.status)

\* Enough pods are available.  The quotient is only reached with tolerated > 0.
Available(spec, ready, counted) == (100 * ready) \div counted >= spec.minAvailable

PodsUsable(spec, scale, pods) ==
    /\ pods.listed > 0
    /\ pods.tolerated > 0
    /\ Available(spec, CurrentReady(scale, pods), pods.listed - pods.incorrect)

\* A value of 0 that is not tolerated proposes the number of ready replicas.
ZeroNotTolerated(ready) == Calculation(ready, ready, FALSE, FALSE)

GetExternalMetricReplicas(spec, metric, scale, pods, sum) ==
    LET ready == CurrentReady(scale, pods)
    IN  IF ~PodsUsable(spec, scale, pods) THEN Failed
        ELSE IF sum = 0 /\ ~spec.tolerateZero THEN ZeroNotTolerated(ready)
        ELSE getReplicaCount(scale.spec, ready, spec, Usage(spec, sum, ready),
                             metric.low, metric.high)

\* Resource metrics count the pods their own way and read 0 as any other value;
\* withMetrics are the pods that still have a metric once the ignored ones are
\* dropped.  The quotient panics when every listed pod is ignored, which leaves no
\* result either.
ResourcePanics(pods) == pods.listed > 0 /\ pods.listed = pods.ignored

GetResourceReplicas(spec, metric, scale, pods, sum) ==
    IF \/ pods.listed = 0 \/ ResourcePanics(pods)
       \/ ~Available(spec, pods.ready, pods.listed - pods.ignored)
       \/ pods.withMetrics = 0
    THEN Failed
    ELSE getReplicaCount(scale.spec, pods.ready, spec, Usage(spec, sum, pods.ready),
                         metric.low, metric.high)

GetRecommenderReplicas(spec, scale, pods, reco) ==
    LET ready == CurrentReady(scale, pods)
    IN  IF ~PodsUsable(spec, scale, pods) THEN Failed
        ELSE IF reco.replicas = 0 /\ ~spec.tolerateZero THEN ZeroNotTolerated(ready)
        ELSE adjustReplicaCount(scale.spec, ready, spec, reco)

--------------------------------------------------------------------------------
MetricCalculation(spec, scale, reading, i) ==
    IF spec.metrics[i].type = "External"
    THEN GetExternalMetricReplicas(spec, spec.metrics[i], scale, reading.pods, reading.sums[i])
    ELSE GetResourceReplicas(spec, spec.metrics[i], scale, reading.pods, reading.sums[i])

\* The gauges of the recommender's watermarks dereference both, once it has answered;
\* or the metrics before the first resource metric are computed and it divides by zero.
ComputePanics(spec, scale, reading) ==
    \/ /\ spec.recommender /\ ~spec.recoMarks
       /\ GetRecommenderReplicas(spec, scale, reading.pods, reading.reco).ok
    \/ /\ ~spec.recommender /\ ResourcePanics(reading.pods)
       /\ \E i \in DOMAIN spec.metrics :
             /\ spec.metrics[i].type = "Resource"
             /\ \A j \in 1..(i - 1) : /\ spec.metrics[j].type = "External"
                                      /\ MetricCalculation(spec, scale, reading, j).ok

\* A proposal of 0 is replaced by the next one, whatever that is.
Superseded(C, k) ==
    \E z \in k..(Len(C) - 1) : C[z].replicaCount = 0 /\ \A j \in 1..z : C[j].replicaCount <= 0

\* Every metric has to be computed; the first of the greatest proposals wins, and the
\* regime is above (below) when some metric is.
computeReplicasForMetrics(spec, scale, reading) ==
    LET C       == [i \in DOMAIN spec.metrics |-> MetricCalculation(spec, scale, reading, i)]
        kept    == {k \in DOMAIN C : ~Superseded(C, k)}
        winners == {k \in kept : \A j \in kept :
                       /\ C[j].replicaCount <= C[k].replicaCount
                       /\ C[j].replicaCount = C[k].replicaCount => k <= j}
    IN  IF spec.metrics = << >> THEN {Calculation(0, 0, FALSE, FALSE)}
        ELSE IF \E i \in DOMAIN C : ~C[i].ok THEN {}
        ELSE { Calculation(C[i].replicaCount, C[i].readyReplicas,
                           \E j \in DOMAIN C : C[j].isAbove, \E j \in DOMAIN C : C[j].isBelow) :
               i \in winners }

\* What computeReplicas returns: a set of one calculation, or none if it fails.
computeReplicas(spec, scale, reading) ==
    IF ~spec.recommender THEN computeReplicasForMetrics(spec, scale, reading)
    ELSE {c \in {GetRecommenderReplicas(spec, scale, reading.pods, reading.reco)} : c.ok}
================================================================================
