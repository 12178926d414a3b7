------------------------------ MODULE Reconciler ------------------------------
(***************************************************************************)
(* The reconcile loop for one WatermarkPodAutoscaler whose spec is         *)
(* defaulted and valid, from the read of the object in the informer cache  *)
(* to the last attempt to write its status.  Between two steps of the      *)
(* worker everybody else may act: users edit the WPA and scale the target, *)
(* the target's own controller follows its spec, the cache catches up, the *)
(* process dies.  (WpaLifecycle models the part of Reconcile in front of   *)
(* this: finalizer, defaulting, validity and the queue.)                   *)
(*                                                                         *)
(* The API server accepts a write only from the holder of the latest       *)
(* version of an object.  Versions are abstracted to whether a copy is the *)
(* latest one: cacheFresh, instFresh and scaleFresh.                       *)
(***************************************************************************)
EXTENDS ScalingRules, ReplicaCalculator

CONSTANTS
    Specs,       \* the specs users give the WPA
    Replicas,    \* the replica counts users give the target
    Readings,    \* the readings the metrics backend and the pod lister return
    Faults,      \* which of the faults below happen
    MaxClock,    \* bound on the clock
    MaxEdits     \* bound on the number of user interventions

\* crash: the process dies and restarts.  staleRead: the cache lags behind when
\* the object is read.  midEdit: the WPA is edited while it is reconciled.
\* apiError: a write is refused although it was made on the latest version.
\* lostReply: the scale is written but the client sees an error.
FaultKinds == {"crash", "staleRead", "midEdit", "apiError", "lostReply"}

ASSUME ReconcilerAssumption ==
    /\ \A s \in Specs : SpecType(s)
    /\ Specs # {}
    /\ Replicas \subseteq Nat
    /\ \A r \in Readings : ReadingType(r)
    /\ \A r \in Readings, s \in Specs : \A i \in DOMAIN s.metrics : r.sums[i] \in Nat
    /\ Faults \subseteq FaultKinds
    /\ MaxClock \in Nat /\ MaxEdits \in Nat

VARIABLES
    clock,        \* the time, in ticks
    wpa,          \* the object in the API server: [spec, status]
    cache,        \* the informer's copy of it
    cacheFresh,   \* ... is the latest version
    target,       \* the scale subresource: replicas of its spec and of its status
    pc,           \* where the worker is
    inst,         \* the worker's instance of the WPA
    instFresh,    \* ... has the latest resource version
    scale,        \* the worker's currentScale, then the one it asks for
    scaleFresh,   \* ... has the latest resource version
    now,          \* reconcileWPA's now
    rescale,      \* the decision
    edits,        \* user interventions so far
    offered,      \* history: the specs the WPA has had
    lastScaling   \* history: when the controller last changed the target

worker == << inst, instFresh, scale, scaleFresh, now, rescale >>
objects == << wpa, cache, cacheFresh, target >>
vars == << clock, objects, pc, worker, edits, offered, lastScaling >>

\* Only what a later decision reads: status.lastScaleTime and the transition times
\* of AboveHighWatermark and BelowLowWatermark.
NoStatus == [lastScaleTime |-> NoTime, aboveSince |-> NoTime, belowSince |-> NoTime]

Stored(status) == [lastScaleTime |-> Persisted(status.lastScaleTime),
                   aboveSince    |-> Persisted(status.aboveSince),
                   belowSince    |-> Persisted(status.belowSince)]

\* What the worker holds while it is idle.
NoScale == [spec |-> 0, status |-> 0]
NoInstance == [spec |-> CHOOSE s \in Specs : TRUE, status |-> NoStatus]

Init ==
    /\ clock = 0
    /\ wpa \in [spec : Specs, status : {NoStatus}]
    /\ cache = wpa /\ cacheFresh = TRUE
    /\ \E n \in Replicas, m \in Replicas \cup {0} :
          m \in {0, n} /\ target = [spec |-> n, status |-> m]
    /\ pc = "idle"
    /\ inst = NoInstance /\ instFresh = FALSE
    /\ scale = NoScale /\ scaleFresh = FALSE
    /\ now = 0 /\ rescale = FALSE
    /\ edits = 0 /\ offered = {wpa.spec}
    /\ lastScaling = NoTime

--------------------------------------------------------------------------------
(* The steps of one Reconcile. *)

\* The worker forgets everything it read: nothing survives a reconciliation.
Done ==
    /\ pc' = "idle"
    /\ inst' = NoInstance /\ instFresh' = FALSE
    /\ scale' = NoScale /\ scaleFresh' = FALSE
    /\ now' = 0 /\ rescale' = FALSE

\* r.Client.Get reads the informer cache.
Get ==
    /\ pc = "idle"
    /\ cacheFresh \/ "staleRead" \in Faults
    /\ inst' = cache /\ instFresh' = cacheFresh
    /\ pc' = "fetched"
    /\ UNCHANGED << clock, objects, scale, scaleFresh, now, rescale, edits, offered, lastScaling >>

\* The DatadogMonitor is missing, has no state or is not OK: ScalingBlocked is
\* set and the reconciliation ends with a write of the status.
BlockedByMonitor ==
    /\ pc = "fetched"
    /\ pc' = "aborted"
    /\ UNCHANGED << clock, objects, worker, edits, offered, lastScaling >>

\* getScaleForResourceMappings found the scale, and the time is taken.
GetScale ==
    /\ pc = "fetched"
    /\ scale' = target /\ scaleFresh' = TRUE
    /\ now' = clock
    /\ pc' = "scaled"
    /\ UNCHANGED << clock, objects, inst, instFresh, rescale, edits, offered, lastScaling >>

\* No mapping has the scale: reconcileWPA returns the error and Reconcile writes the status.
GetScaleFails ==
    /\ pc = "fetched"
    /\ pc' = "aborted"
    /\ UNCHANGED << clock, objects, worker, edits, offered, lastScaling >>

\* Metrics, recommender or pods do not yield a proposal: the status is written
\* without touching what the next decision reads.
ComputeFails ==
    /\ pc = "scaled"
    /\ pc' = "aborted"
    /\ UNCHANGED << clock, objects, worker, edits, offered, lastScaling >>

\* The recover of reconcileWPA swallows the panic and nothing is written.
ComputePanic ==
    /\ pc = "scaled"
    /\ \E r \in Readings : ComputePanics(inst.spec, scale, r)
    /\ Done
    /\ UNCHANGED << clock, objects, edits, offered, lastScaling >>

\* The two watermark conditions, as computeReplicas sets them.
WithPosition(status, c) ==
    [status EXCEPT !.aboveSince = setCondition(@, c.isAbove, clock),
                   !.belowSince = setCondition(@, c.isBelow, clock)]

\* desiredReplicas and rescale after normalisation, shouldScale and the overrides.
NormalizedReplicas(spec, c) ==
    normalizeDesiredReplicas(spec, scale.spec, Max32(c.replicaCount, 0), c.readyReplicas)

\* Mutant: the change is written instead of the count.
DesiredChange(spec, c) == NormalizedReplicas(spec, c) - scale.spec

DesiredReplicas(spec, c) ==
    IF Disabled(scale) THEN 0
    ELSE IF Forced(spec, scale) THEN ForcedReplicas(spec, scale)
    ELSE NormalizedReplicas(spec, c)

Rescale(spec, status, c) ==
    /\ ~Disabled(scale)
    /\ \/ Forced(spec, scale)
       \/ shouldScale(spec, status, scale.spec, NormalizedReplicas(spec, c), now,
                      ~c.isAbove /\ ~c.isBelow, clock)

\* The conditions, the decision, and either the scale is to be written or only the
\* status (no rescale, or dry run).  The observed scale is not read again.
Conclude(c) ==
    LET status == WithPosition(inst.status, c)
        scales == Rescale(inst.spec, status, c)
        writes == scales /\ ~inst.spec.dryRun
    IN  /\ inst' = [inst EXCEPT !.status = status]
        /\ rescale' = scales
        /\ scale' = IF writes THEN [scale EXCEPT !.spec = DesiredReplicas(inst.spec, c)]
                              ELSE NoScale
        /\ pc' = IF writes THEN "update" ELSE "record"

Decide ==
    /\ pc = "scaled"
    /\ \E r \in Readings :
          /\ ~ComputePanics(inst.spec, scale, r)
          /\ \E c \in computeReplicas(inst.spec, scale, r) : Conclude(c)
    /\ now' = 0
    /\ UNCHANGED << clock, objects, instFresh, scaleFresh, edits, offered, lastScaling >>

\* Mutant: the version of the scale is not checked.
WriteScaleBlindly ==
    /\ target' = [target EXCEPT !.spec = scale.spec]
    /\ lastScaling' = IF scale.spec # target.spec THEN clock ELSE lastScaling

\* The scale subresource takes the new count.
WriteScale ==
    /\ scaleFresh
    /\ target' = [target EXCEPT !.spec = scale.spec]
    /\ lastScaling' = IF scale.spec # target.spec THEN clock ELSE lastScaling

AfterUpdate ==
    /\ scale' = NoScale /\ scaleFresh' = FALSE
    /\ UNCHANGED << clock, wpa, cache, cacheFresh, inst, instFresh, now, rescale, edits, offered >>

UpdateScale ==
    /\ pc = "update"
    /\ WriteScale
    /\ pc' = "record"
    /\ AfterUpdate

\* The write is refused: FailedScale, and the status without a scaling event.
UpdateScaleFails ==
    /\ pc = "update"
    /\ ~scaleFresh \/ "apiError" \in Faults
    /\ pc' = "failed"
    /\ AfterUpdate
    /\ UNCHANGED << target, lastScaling >>

\* The write is done but its answer is lost, so it counts as refused.
UpdateScaleReplyLost ==
    /\ pc = "update"
    /\ "lostReply" \in Faults
    /\ WriteScale
    /\ pc' = "failed"
    /\ AfterUpdate

\* Mutant: the time of the scaling event is not recorded.
setStatusWithoutTime(status) == status

\* setStatus: a rescale, in dry run too, is a scaling event.
setStatus(status) ==
    IF rescale THEN [status EXCEPT !.lastScaleTime = clock] ELSE status

\* Mutant: the version of the WPA is not checked.
StoreStatusBlindly(status) ==
    /\ wpa' = [wpa EXCEPT !.status = Stored(status)]
    /\ cacheFresh' = FALSE

\* Status().Update is accepted.  updateStatusIfNeeded skips it when nothing changed, which
\* cannot be once a proposal was computed: ScalingActive went to False and back.
StoreStatus(status) ==
    /\ instFresh
    /\ wpa' = [wpa EXCEPT !.status = Stored(status)]
    /\ cacheFresh' = FALSE

\* The write at the end of reconcileWPA ...
RecordStatus ==
    /\ pc = "record"
    /\ StoreStatus(setStatus(inst.status))
    /\ Done
    /\ UNCHANGED << clock, cache, target, edits, offered, lastScaling >>

\* ... when it fails, Reconcile tries once more with the same instance.
RecordStatusFails ==
    /\ pc = "record"
    /\ ~instFresh \/ "apiError" \in Faults
    /\ inst' = [inst EXCEPT !.status = setStatus(inst.status)]
    /\ pc' = "retry"
    /\ UNCHANGED << clock, objects, instFresh, scale, scaleFresh, now, rescale,
                    edits, offered, lastScaling >>

\* The last attempt of a reconciliation to write its status.
LastWrite ==
    /\ pc \in {"aborted", "failed", "retry"}
    /\ StoreStatus(inst.status)
    /\ Done
    /\ UNCHANGED << clock, cache, target, edits, offered, lastScaling >>

\* It fails, or (after an early end) the status is unchanged and not written.
LastWriteFails ==
    /\ pc \in {"aborted", "failed", "retry"}
    /\ pc = "aborted" \/ ~instFresh \/ "apiError" \in Faults
    /\ Done
    /\ UNCHANGED << clock, objects, edits, offered, lastScaling >>

--------------------------------------------------------------------------------
(* Everybody else. *)

\* The process dies; the new one starts with a synchronised cache.
Crash ==
    /\ "crash" \in Faults
    /\ pc # "idle"
    /\ cache' = wpa /\ cacheFresh' = TRUE
    /\ Done
    /\ UNCHANGED << clock, wpa, target, edits, offered, lastScaling >>

\* The watch delivers the latest version.
CacheSync ==
    /\ ~cacheFresh
    /\ cache' = wpa /\ cacheFresh' = TRUE
    /\ UNCHANGED << clock, wpa, target, pc, worker, edits, offered, lastScaling >>

EditSpec ==
    /\ edits < MaxEdits
    /\ pc = "idle" \/ "midEdit" \in Faults
    /\ \E s \in Specs \ {wpa.spec} :
          wpa' = [wpa EXCEPT !.spec = s] /\ offered' = offered \cup {s}
    /\ cacheFresh' = FALSE /\ instFresh' = FALSE
    /\ edits' = edits + 1
    /\ UNCHANGED << clock, cache, target, pc, inst, scale, scaleFresh, now, rescale, lastScaling >>

ScaleByHand ==
    /\ edits < MaxEdits
    /\ \E n \in Replicas \ {target.spec} : target' = [target EXCEPT !.spec = n]
    /\ scaleFresh' = FALSE
    /\ edits' = edits + 1
    /\ UNCHANGED << clock, wpa, cache, cacheFresh, pc, inst, instFresh, scale, now, rescale,
                    offered, lastScaling >>

\* The target's controller creates or removes pods.
TargetFollows ==
    /\ target.status # target.spec
    /\ target' = [target EXCEPT !.status = target.spec]
    /\ scaleFresh' = FALSE
    /\ UNCHANGED << clock, wpa, cache, cacheFresh, pc, inst, instFresh, scale, now, rescale,
                    edits, offered, lastScaling >>

Tick ==
    /\ clock < MaxClock
    /\ clock' = clock + 1
    /\ UNCHANGED << objects, pc, worker, edits, offered, lastScaling >>

Work ==
    \/ Get \/ BlockedByMonitor \/ GetScale \/ GetScaleFails
    \/ ComputeFails \/ ComputePanic \/ Decide
    \/ UpdateScale \/ UpdateScaleFails \/ UpdateScaleReplyLost
    \/ RecordStatus \/ RecordStatusFails \/ LastWrite \/ LastWriteFails

Environment ==
    Crash \/ CacheSync \/ EditSpec \/ ScaleByHand \/ TargetFollows \/ Tick

Next == Work \/ Environment

Spec == Init /\ [][Next]_vars

\* The queue hands the object out again after every reconciliation (RequeueAfter or
\* the rate limiter), a started reconciliation runs to its end, the watch delivers,
\* the target's controller works.  The metrics backend, the scale subresource and
\* the monitor may fail, but not for ever, and a reading that makes the calculator
\* panic is not the only one.
Fairness ==
    /\ WF_vars(Work) /\ WF_vars(CacheSync) /\ WF_vars(TargetFollows)
    /\ SF_vars(GetScale) /\ SF_vars(Decide \/ ComputePanic) /\ SF_vars(Decide)
    /\ SF_vars(UpdateScale)

FairSpec == Spec /\ Fairness

--------------------------------------------------------------------------------
(* Properties. *)

Time == Nat \cup {NoTime}
StatusType == [lastScaleTime : Time, aboveSince : Time, belowSince : Time]
ObjectType == [spec : Specs, status : StatusType]
ScaleType == [spec : Nat, status : Nat]
Positions == {"idle", "fetched", "scaled", "update", "record", "failed", "aborted", "retry"}

\* Every variable of the reconciler keeps its type, whatever the readings and faults.
TypeOK ==
    /\ clock \in Nat
    /\ wpa \in ObjectType /\ cache \in ObjectType /\ cacheFresh \in BOOLEAN
    /\ target \in ScaleType
    /\ pc \in Positions
    /\ inst \in ObjectType /\ instFresh \in BOOLEAN
    /\ scale \in ScaleType /\ scaleFresh \in BOOLEAN
    /\ now \in Nat /\ rescale \in BOOLEAN
    /\ edits \in Nat /\ offered \in SUBSET Specs
    /\ lastScaling \in Time

\* The step in which the controller changes the replicas of the target.
ControllerScales == pc = "update" /\ pc' # "update" /\ target' # target

\* A scaling by the metrics: not one that the overrides of reconcileWPA forced.
MetricScales == ControllerScales /\ InBounds(inst.spec, target.spec) /\ target.status # 0

\* Whatever the controller writes over the count the target has at that moment, it
\* never scales a target at zero nor in dry run, and a target that reports replicas
\* ends between minReplicas and maxReplicas (normalizeDesiredReplicas and the
\* overrides of reconcileWPA, together with the version check of the scale).
WritesStayInBounds ==
    [][ControllerScales => /\ target.spec # 0
                           /\ ~inst.spec.dryRun
                           /\ target.status # 0 => InBounds(inst.spec, target'.spec)]_vars

\* A scaling by the metrics moves the count the target really has by one replica
\* or by no more than the limit factor's share of it, and not at all in a
\* direction whose factor is 0 (calculateScaleUpLimit, calculateScaleDownLimit).
VelocityLimited ==
    [][MetricScales => VelocityRespected(inst.spec, target.spec, target'.spec)]_vars

\* More than the window less the one second that LastScaleTime is rounded by has passed.
CooledDown ==
    clock - lastScaling > (Window(inst.spec, target.spec, target'.spec) - 1) * Second

\* After any scaling event the controller waits for the forbidden window of the new
\* direction before it scales again on the metrics (shouldScale).
Cooldown == [][MetricScales /\ lastScaling # NoTime => CooledDown]_vars

\* The same, as long as the status that the decision was made from had the last
\* scaling event: neither a conflict, a crash, a lost answer nor a stale cache hid it.
CooldownOnceRecorded ==
    [][/\ MetricScales /\ lastScaling # NoTime
       /\ inst.status.lastScaleTime # NoTime
       /\ inst.status.lastScaleTime >= Persisted(lastScaling)
       => CooledDown]_vars

\* The LastScaleTime in the API server never moves back, although reconciliations
\* that started from an old copy of the status write their own (the version check
\* of Status().Update in updateWPAStatus).
LastScaleTimeNeverGoesBack ==
    [][wpa'.status.lastScaleTime >= wpa.status.lastScaleTime]_vars

\* A target that runs, outside minReplicas..maxReplicas, is brought back, or the
\* user steps in (the overrides of reconcileWPA; README, FAQ on manual scaling).
BoundsRestored ==
    (target.spec # 0 /\ ~InBounds(wpa.spec, target.spec) /\ ~wpa.spec.dryRun)
        ~> (target.spec = 0 \/ InBounds(wpa.spec, target.spec) \/ wpa.spec.dryRun)
================================================================================
