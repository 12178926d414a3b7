----------------------------- MODULE MetricSeries -----------------------------
(***************************************************************************)
(* The Prometheus series of one WPA, on top of module WpaLifecycle: the    *)
(* worker sets them while it reconciles, metric after metric, and they are *)
(* removed by the finalizer and, on the informer's goroutine, by           *)
(* updatePredicate when the spec changes.                                  *)
(*                                                                         *)
(* A series is << family, target >> or << family, target, metric >>, as    *)
(* its labels hold the name of the target:                                 *)
(*   "wpa"         what is labelled with the WPA alone (scaling_active,    *)
(*                 dry_run, the replica gauges, conditions, countdowns)    *)
(*   "watermarks"  the watermarks and the value of a metric                *)
(*   "proposal"    the replica proposal of a metric                        *)
(*   "info"        labels_info and the upscale and downscale counters: the *)
(*                 labels given to their Delete are not the ones they are  *)
(*                 set with, and nothing is removed                        *)
(***************************************************************************)
EXTENDS WpaLifecycle

CONSTANT MaxMetrics   \* bound on the number of metrics of a spec

ASSUME MetricsAssumption ==
    MaxMetrics \in Nat /\ \A s \in UserSpecs : Len(s.metrics) <= MaxMetrics

VARIABLES
    series,    \* the series in the registry
    answered   \* the metrics of the running reconcileWPA that have been evaluated

svars == << vars, series, answered >>

MetricNames(spec) ==
    { spec.metrics[i].name : i \in DOMAIN spec.metrics }
        \cup (IF spec.recommender THEN {"recommender"} ELSE {})

WpaSeries(spec) == { << "wpa", spec.scaleTargetRef >> }

InfoSeries(spec) == { << "info", spec.scaleTargetRef >> }

SeriesOf(spec, names) ==
    { << family, spec.scaleTargetRef, name >> : family \in {"watermarks", "proposal"}, name \in names }

\* Mutant: the clean-up never goes beyond the series of the metrics.
cleanupMetricsOnly(spec, onlyMetricsSpecific) == SeriesOf(spec, MetricNames(spec))

\* What cleanupAssociatedMetrics removes.
cleanupAssociatedMetrics(spec, onlyMetricsSpecific) ==
    SeriesOf(spec, MetricNames(spec)) \cup (IF onlyMetricsSpecific THEN {} ELSE WpaSeries(spec))

SeriesInit == Init /\ series = {} /\ answered = 0

\* The event handler cleans up for the old spec.
HandleEvent ==
    /\ Handle
    /\ LET e == Head(events)
       IN  series' = IF e.old.exists /\ e.new.exists /\ updatePredicate(e.old, e.new)
                     THEN series \ cleanupAssociatedMetrics(e.old.spec, TRUE) ELSE series
    /\ UNCHANGED answered

\* The registry is in memory.
Die ==
    /\ Crash \/ HandlePanics
    /\ series' = {} /\ answered' = 0

\* finalizeWPA comes before the update, so also before one that is refused.
FinalizeWPA ==
    /\ Finalize \/ (FinalizeFails /\ ~CleanupPanics(inst.spec))
    /\ series' = series \ cleanupAssociatedMetrics(inst.spec, FALSE)
    /\ UNCHANGED answered

\* The panic comes at the first metric without its block, after the series of the
\* WPA and of the metrics before it are gone.
FinalizePanics ==
    /\ FinalizeFails /\ CleanupPanics(inst.spec)
    /\ LET broken == { i \in DOMAIN inst.spec.metrics : ~inst.spec.metrics[i].source }
           before == { i \in DOMAIN inst.spec.metrics : \A j \in broken : i < j }
       IN  series' = series \ (WpaSeries(inst.spec)
                        \cup SeriesOf(inst.spec, { inst.spec.metrics[i].name : i \in before }))
    /\ UNCHANGED answered

\* updateConditionsMetrics, when Reconcile ends before reconcileWPA.
EndsEarly ==
    /\ ApplyDefaults \/ ApplyDefaultsFails \/ RejectInvalid
    /\ series' = series \cup WpaSeries(inst.spec)
    /\ UNCHANGED answered

\* reconcileWPA gets a value for the next metric, or for the recommender.
Asks(spec) == IF spec.recommender THEN << "recommender" >>
              ELSE [i \in DOMAIN spec.metrics |-> spec.metrics[i].name]

\* A watermark that is missing is dereferenced before a series of the recommender is set.
RecommenderPanics(spec) == spec.recommender /\ ~spec.recoMarks

Evaluate(i) ==
    /\ pc = "reconcile" /\ i = answered + 1 /\ i \in DOMAIN Asks(inst.spec)
    /\ ~RecommenderPanics(inst.spec)
    /\ answered' = i
    /\ series' = series \cup WpaSeries(inst.spec) \cup InfoSeries(inst.spec)
                        \cup SeriesOf(inst.spec, { Asks(inst.spec)[i] })
    /\ UNCHANGED vars

\* The next value may end in a panic: that of a resource metric when all pods are ignored.
MayPanic(spec) ==
    \/ RecommenderPanics(spec)
    \/ answered + 1 \in DOMAIN spec.metrics /\ spec.metrics[answered + 1].type = "Resource"

\* reconcileWPA ends: after the last metric, at a metric without a value, whose
\* proposal is removed, at a panic, which leaves the proposal, or, when nothing was
\* evaluated, before it looked at any.
Ends ==
    /\ reconcileWPA
    /\ answered' = 0
    /\ LET asks == Asks(inst.spec)
           unanswered == { << "proposal", inst.spec.scaleTargetRef, asks[i] >> :
                             i \in DOMAIN asks \cap {answered + 1} }
       IN  \/ \E gone \in SUBSET unanswered :
                 /\ gone # unanswered => MayPanic(inst.spec)
                 /\ series' = (series \ gone) \cup WpaSeries(inst.spec) \cup InfoSeries(inst.spec)
           \/ answered = 0 /\ series' = series \cup WpaSeries(inst.spec)

LeavesSeries ==
    /\ \/ Create \/ EditSpec \/ Delete \/ Deliver
       \/ Get \/ addFinalizer \/ addFinalizerFails \/ HasFinalizer \/ Admit
    /\ UNCHANGED << series, answered >>

SeriesNext ==
    \/ LeavesSeries \/ HandleEvent \/ Die \/ FinalizeWPA \/ FinalizePanics
    \/ EndsEarly \/ Ends \/ \E i \in 1..MaxMetrics : Evaluate(i)

SeriesSpec == SeriesInit /\ [][SeriesNext]_svars

\* A metric that is asked for again and again has a value in the end.
SeriesFairSpec ==
    SeriesSpec /\ Fairness /\ \A i \in 1..MaxMetrics : SF_svars(Evaluate(i))

--------------------------------------------------------------------------------
(* Properties. *)

\* A WPA that goes through its finalizer leaves no series behind that its last spec
\* stands for, whatever the cache showed and whichever updates were refused before
\* (handleFinalizer, finalizeWPA, cleanupAssociatedMetrics); the series named "info"
\* stay.
FinalizedLeavesNothing ==
    [][obj.exists /\ obj.finalizer /\ ~obj'.exists
          => series' \cap (WpaSeries(obj.spec) \cup SeriesOf(obj.spec, MetricNames(obj.spec))) = {}]_svars

Served == obj.exists /\ ~obj.deleting /\ WellFormed(obj.spec) /\ ~RecommenderPanics(obj.spec)

\* The series of a valid spec are all there in the end, and again after every time
\* they go: updatePredicate may remove the series of metrics that the old and the new
\* spec share after a worker has already set them from the new spec, and a metric
\* without a value takes its proposal away.  (A valid recommender that lacks a watermark
\* has no series: every reconciliation of it panics.)
SeriesComeBack ==
    Served ~> (~Served \/ WpaSeries(obj.spec) \cup SeriesOf(obj.spec, MetricNames(obj.spec)) \subseteq series)
================================================================================
