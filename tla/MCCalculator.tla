----------------------------- MODULE MCCalculator -----------------------------
(* The instances of Calculator that TLC checks. *)
EXTENDS Calculator

CalcSpec ==
    [minReplicas |-> 2, maxReplicas |-> 8,
     scaleUpLimitFactor |-> 50000, scaleDownLimitFactor |-> 50000,
     upscaleForbiddenWindow |-> 1, downscaleForbiddenWindow |-> 2,
     upscaleDelay |-> 0, downscaleDelay |-> 0, dryRun |-> FALSE,
     modulo |-> 1, converge |-> "", tolerance |-> 100, algorithm |-> "average",
     minAvailable |-> 0, tolerateZero |-> FALSE, recommender |-> FALSE, recoMarks |-> FALSE,
     metrics |-> << [type |-> "External", low |-> 20, high |-> 40] >>]

ResourceMetric == [type |-> "Resource", low |-> 20, high |-> 40]

CalcSpecs ==
    { [CalcSpec EXCEPT !.algorithm = a, !.converge = c, !.modulo = m] :
         a \in {"average", "absolute"}, c \in {"", "highwatermark", "lowwatermark"}, m \in {1, 2} }
    \cup
    { [CalcSpec EXCEPT !.metrics = << ResourceMetric >>, !.minAvailable = 50],
      [CalcSpec EXCEPT !.metrics = Append(@, ResourceMetric), !.tolerateZero = TRUE],
      [CalcSpec EXCEPT !.metrics = << >>, !.recommender = TRUE],
      [CalcSpec EXCEPT !.metrics = << >>, !.recommender = TRUE, !.recoMarks = TRUE],
      [CalcSpec EXCEPT !.metrics = << >>, !.recommender = TRUE, !.recoMarks = TRUE,
                       !.modulo = 2, !.converge = "highwatermark"],
      [CalcSpec EXCEPT !.metrics = << >>, !.recommender = TRUE, !.recoMarks = TRUE,
                       !.modulo = 2, !.converge = "lowwatermark"] }

\* Inside and outside of the bounds; the target reports all, some or none of its
\* replicas.
CalcScales ==
    { [spec |-> n, status |-> m] : n \in {1, 3, 5, 9}, m \in {0, 3} }

Owner(kind, name) == [kind |-> kind, name |-> name]

ReadyPod ==
    [owners |-> {Owner("ReplicaSet", << "app", "1" >>)}, phase |-> "Running", cond |-> "True",
     started |-> TRUE, deleting |-> FALSE, recent |-> FALSE, early |-> FALSE, metric |-> 50]

\* A ready pod, one that just started, one that does not get ready, one without a
\* metric, one of another deployment with the same selector, an evicted one.
PodKinds ==
    { ReadyPod,
      [ReadyPod EXCEPT !.phase = "Pending", !.cond = "False", !.recent = TRUE, !.metric = NoMetric],
      [ReadyPod EXCEPT !.cond = "False", !.metric = 10],
      [ReadyPod EXCEPT !.metric = NoMetric],
      [ReadyPod EXCEPT !.owners = {Owner("ReplicaSet", << "app", "canary", "1" >>)}],
      [ReadyPod EXCEPT !.phase = "Failed"] }

CalcPodLists == UNION { [1..n -> PodKinds] : n \in 0..3 }

\* Below, inside and above the watermarks for two or three pods; the last one has
\* no int32 quotient in these models.
CalcValues == {0, 30, 75, 110, 300, 4000}

CalcRecommendations ==
    { [replicas |-> n, lower |-> l, upper |-> u] : n \in {0, 3, 4, 7}, l \in {2, 4}, u \in {4, 6} }

CalcTarget == << "app" >>
================================================================================
