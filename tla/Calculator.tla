------------------------------ MODULE Calculator ------------------------------
(***************************************************************************)
(* One calculation: a spec, a target, the pods and the metric values that  *)
(* the calculator meets, and the proposal it makes of them.                *)
(***************************************************************************)
EXTENDS ScalingRules, ReplicaCalculator, PodReadiness

CONSTANTS Specs, Scales, PodLists, Values, Recommendations, TargetName

\* A resource metric is the sum over the pods that are left.
ResourceSum(list) ==
    LET counted == removeMetricsForPods(list, groupPods(list, TargetName, TRUE, FALSE).ignored)
    IN  SumFunctionOnSet([i \in DOMAIN list |-> list[i].metric], counted)

\* A spec was found valid, so it has no metrics beside a recommender; a target at zero
\* is not computed for; values are not negative.
ASSUME CalculatorAssumption ==
    /\ \A s \in Specs :
          /\ SpecType(s) /\ (s.recommender => s.metrics = << >>)
          /\ s.metrics \in Seq([type : {"External", "Resource"}, low : Nat, high : Nat])
    /\ \A s \in Scales : s.spec \in Nat \ {0} /\ s.status \in Nat
    /\ \A list \in PodLists :
          /\ Len(list) \in Nat /\ DOMAIN list = 1..Len(list)
          /\ \A i \in DOMAIN list : list[i].metric \in Nat \cup {NoMetric}
    /\ Values \subseteq Nat
    /\ \A r \in Recommendations : r.replicas \in Nat /\ r.lower \in Nat /\ r.upper \in Nat

VARIABLES spec, scale, pods, values, reco, phase, result

vars == << spec, scale, pods, values, reco, phase, result >>

Init ==
    /\ spec \in Specs
    /\ scale \in Scales
    /\ pods \in PodLists
    /\ values \in [DOMAIN spec.metrics -> Values]
    /\ reco \in IF spec.recommender THEN Recommendations ELSE {[replicas |-> 0, lower |-> 0, upper |-> 0]}
    /\ phase = "called" /\ result = Failed

ReadingOf(list) ==
    [pods |-> CountPods(list, TargetName, TRUE, FALSE),
     sums |-> [i \in DOMAIN spec.metrics |->
                  IF spec.metrics[i].type = "External" THEN values[i] ELSE ResourceSum(list)],
     reco |-> reco]

Reading == ReadingOf(pods)

Panics ==
    /\ ComputePanics(spec, scale, Reading)
    /\ phase' = "panicked" /\ result' = Failed

Fails ==
    /\ ~ComputePanics(spec, scale, Reading)
    /\ computeReplicas(spec, scale, Reading) = {}
    /\ phase' = "failed" /\ result' = Failed

Proposes ==
    /\ ~ComputePanics(spec, scale, Reading)
    /\ result' \in computeReplicas(spec, scale, Reading)
    /\ phase' = "proposed"

Compute ==
    /\ phase = "called"
    /\ Panics \/ Fails \/ Proposes
    /\ UNCHANGED << spec, scale, pods, values, reco >>

Spec == Init /\ [][Compute]_vars

--------------------------------------------------------------------------------
(* Properties. *)

Proposed == phase = "proposed"
Proposal == result.replicaCount

\* The calculator never works against a metric out of bounds: with one above its
\* high watermark the proposal is not below the current count, and with a single one,
\* below its low watermark, it is not above it, even when the quotient has no int32
\* (adjustReplicaCountForUpscale, adjustReplicaCountForDownscale, the maximum of
\* computeReplicasForMetrics).
NeverAgainstTheMetric ==
    Proposed /\ ~spec.recommender =>
        /\ result.isAbove => Proposal >= scale.spec
        /\ (result.isBelow /\ Len(spec.metrics) = 1) => Proposal <= scale.spec

Single == Proposed /\ Len(spec.metrics) = 1

\* What the calculator divides the metric by, and the total it expects to spread.
Load ==
    LET u == Usage(spec, Reading.sums[1], result.readyReplicas)
    IN  [num |-> result.readyReplicas * u.num, den |-> u.den]

\* n replicas would bring the usage down to the high watermark.
Suffices(n) == Load.num <= n * Load.den * spec.metrics[1].high

\* A proposal above the high watermark is the least multiple of the modulo that is
\* expected to bring the usage to the watermark, or the current count, if the watermark
\* is not 0 and there is an int32 for it (getReplicaCountUpscale,
\* roundReplicaCountToAbsoluteModulo).
UpscaleIsLeast ==
    (Single /\ result.isAbove /\ result.readyReplicas > 0 /\ spec.metrics[1].high > 0
            /\ Load.num \div (Load.den * spec.metrics[1].high) < Int32Max - spec.modulo) =>
        \/ Proposal = scale.spec /\ Suffices(Proposal)
        \/ /\ Proposal % spec.modulo = 0 /\ Suffices(Proposal)
           /\ \A n \in scale.spec..(Proposal - 1) : n % spec.modulo = 0 => ~Suffices(n)

\* Converging stays inside: inside the watermarks the proposal differs from the
\* current count by the modulo at most, a smaller count is not expected to push the
\* usage above the high watermark nor a greater one below the low watermark, for a
\* target inside minReplicas..maxReplicas with an int32 for twice its ready pods
\* (tryToConvergeToWatermarkForUsage).
ConvergenceStaysInside ==
    (Single /\ ~result.isAbove /\ ~result.isBelow
            /\ result.readyReplicas > 0 /\ 2 * result.readyReplicas <= Int32Max
            /\ (spec.metrics[1].type = "External" /\ values[1] = 0 => spec.tolerateZero)
            /\ spec.minReplicas <= scale.spec /\ scale.spec <= spec.maxReplicas) =>
        /\ Proposal < scale.spec => /\ scale.spec - Proposal <= spec.modulo
                                    /\ Suffices(Proposal)
        /\ Proposal > scale.spec => /\ Proposal - scale.spec = spec.modulo
                                    /\ Load.num >= Proposal * Load.den * spec.metrics[1].low

\* A recommendation other than the current count is followed up to the next multiple of
\* the modulo, without passing the current count on the way down; one that is the current
\* count lets the proposal converge by the modulo at most, within the recommender's bounds
\* (adjustReplicaCount, tryToConvergeToWatermark).
RecommendationFollowed ==
    (Proposed /\ spec.recommender /\ reco.replicas > 0
              /\ reco.replicas + spec.modulo <= Int32Max) =>
        /\ reco.replicas # scale.spec =>
              /\ reco.replicas <= Proposal /\ Proposal < reco.replicas + spec.modulo
              /\ Proposal % spec.modulo = 0 \/ Proposal = scale.spec
              /\ reco.replicas < scale.spec => Proposal <= scale.spec
        /\ reco.replicas = scale.spec =>
              /\ Proposal < scale.spec => Proposal >= reco.lower /\ scale.spec - Proposal <= spec.modulo
              /\ Proposal > scale.spec => Proposal <= reco.upper /\ Proposal - scale.spec <= spec.modulo

\* A ready share of the counted pods, in percent, that can be computed.
IsPercentage(ready, counted) == counted > 0 /\ (100 * ready) \div counted \in 0..100

\* The ratio of ready pods is a percentage wherever it is computed: no pod is counted
\* twice, so a pod that is ready leaves a divisor that is neither 0 nor less than the
\* ready pods (getReadyPodsCount, groupPods).
RatioIsAPercentage ==
    LET p == Reading.pods
    IN  /\ p.listed > 0 /\ p.tolerated > 0 =>
              IsPercentage(CurrentReady(scale, p), p.listed - p.incorrect)
        /\ p.listed > 0 /\ ~ResourcePanics(p) =>
              IsPercentage(p.ready, p.listed - p.ignored)

\* The pods of the target alone, in any order, as the lister returns them in any.
OwnPods ==
    { [k \in DOMAIN order |-> pods[order[k]]] :
        order \in SetToSeqs({i \in DOMAIN pods : Owned(pods[i], TargetName, FALSE)}) }

\* Pods of another workload under the same selector make no difference to a proposal
\* from external metrics or from the recommender, and neither does the order of the
\* pods (checkOwnerRef in getReadyPodsCount).
ForeignPodsDoNotCount ==
    (Proposed /\ \A i \in DOMAIN spec.metrics : spec.metrics[i].type = "External") =>
        \A list \in OwnPods : {result} = computeReplicas(spec, scale, ReadingOf(list))
================================================================================
