-------------------------- MODULE DelayHistoryProofs --------------------------
(***************************************************************************)
(* Proofs about the delays, for a controller without faults: the times in  *)
(* the status of the WPA agree with the history of the readings, and a     *)
(* metric out of bounds is followed only after the delay.                  *)
(***************************************************************************)
EXTENDS DelayHistory, PolicyRefinementProofs

USE DEF NoTime

\* A number of whole seconds is no longer than the time it was taken from
\* (Seconds(), converted to int32).
LEMMA WholeSeconds ==
    ASSUME NEW x \in Int, NEW d \in Nat, x \div Second >= d
    PROVE  x >= d * Second
<1> DEFINE q == x \div Second
<1>1. q \in Int /\ q * Second <= x
    BY SecondAssumption, SMT
<1>2. d * Second <= q * Second
    <2> HIDE DEF q
    <2> SUFFICES q >= d => d * Second <= q * Second
        BY DEF q
    <2> QED
        BY <1>1, SecondAssumption, SMT
<1>3. d * Second \in Int /\ q * Second \in Int
    BY <1>1, SecondAssumption
<1> QED
    BY <1>1, <1>2, <1>3

--------------------------------------------------------------------------------
(* The inductive invariant, on top of those of the loop. *)

\* The status says what the history says, up to the fraction of a second.
SeenIn(status) ==
    /\ aboveSeen = NoTime <=> status.aboveSince = NoTime
    /\ belowSeen = NoTime <=> status.belowSince = NoTime
    /\ Persisted(aboveSeen) <= status.aboveSince
    /\ Persisted(belowSeen) <= status.belowSince

\* Without faults a reconciliation starts from the stored status, keeps it until a
\* reading is computed, and from then on it is the one that knows.
StatusKnows ==
    /\ aboveSeen \in Time /\ belowSeen \in Time
    /\ pc \in {"fetched", "scaled", "aborted"} => inst.status = wpa.status
    /\ pc \in {"idle", "fetched", "scaled", "aborted"} => SeenIn(wpa.status)
    /\ pc \in {"update", "record", "failed", "retry"} => SeenIn(inst.status)

Over(since, delay, time) == delay = 0 \/ (since # NoTime /\ time - since >= delay * Second)

\* The delay before a move from `current` to n replicas is over, unless the metric is
\* inside its watermarks.
DelayOver(spec, status, current, n, time) ==
    \/ status.lastScaleTime = NoTime \/ n = current
    \/ status.aboveSince = NoTime /\ status.belowSince = NoTime
    \/ n > current /\ Over(status.aboveSince, spec.upscaleDelay, time)
    \/ n < current /\ Over(status.belowSince, spec.downscaleDelay, time)

\* As long as nobody touched the scale, the delay of the decision is over.
DelayStands ==
    pc = "update" /\ scaleFresh /\ InBounds(inst.spec, target.spec) /\ target.status # 0 =>
        DelayOver(inst.spec, inst.status, target.spec, scale.spec, clock)

HInv == StatusKnows /\ DelayStands

\* A status is stored without losing what it knows.
LEMMA StoredKnows ==
    ASSUME NEW st \in StatusType, aboveSeen \in Time, belowSeen \in Time, SeenIn(st)
    PROVE  SeenIn(Stored(st))
<1>1. st.aboveSince \in Time /\ st.belowSince \in Time
    BY DEF StatusType
<1>2. /\ Persisted(aboveSeen) \in Time /\ Persisted(belowSeen) \in Time
      /\ Persisted(Persisted(aboveSeen)) = Persisted(aboveSeen)
      /\ Persisted(Persisted(belowSeen)) = Persisted(belowSeen)
    BY PersistedTime
<1>3. /\ Persisted(aboveSeen) <= Persisted(st.aboveSince)
      /\ Persisted(belowSeen) <= Persisted(st.belowSince)
    BY <1>1, <1>2, PersistedTime DEF SeenIn
<1>4. \A t \in Time : Persisted(t) = NoTime <=> t = NoTime
    BY SecondAssumption, SMT DEF Time, Persisted
<1> QED
    BY <1>1, <1>3, <1>4 DEF SeenIn, Stored

\* A reading is remembered in the same way by the status and by the history.
LEMMA ReadingKnown ==
    ASSUME NEW st \in StatusType, clock \in Nat, aboveSeen \in Time, belowSeen \in Time,
           SeenIn(st), NEW c, Computed, inst'.status = WithPosition(st, c),
           aboveSeen' = Remember(aboveSeen, inst'.status.aboveSince # NoTime),
           belowSeen' = Remember(belowSeen, inst'.status.belowSince # NoTime)
    PROVE  SeenIn(inst.status)' /\ aboveSeen' \in Time /\ belowSeen' \in Time
<1>1. /\ inst'.status.aboveSince = setCondition(st.aboveSince, c.isAbove, clock)
      /\ inst'.status.belowSince = setCondition(st.belowSince, c.isBelow, clock)
    BY DEF WithPosition, StatusType
<1>2. Persisted(clock) <= clock /\ Persisted(NoTime) = NoTime
    BY PersistedTime DEF Time, Persisted
<1> QED
    BY <1>1, <1>2 DEF SeenIn, Remember, setCondition, Time

\* shouldScale lets a move happen only after its delay.
LEMMA DecisionWaits ==
    ASSUME TypeOK, NEW r \in Readings, NEW c \in computeReplicas(inst.spec, scale, r),
           Rescale(inst.spec, WithPosition(inst.status, c), c),
           InBounds(inst.spec, scale.spec), scale.status # 0
    PROVE  DelayOver(inst.spec, WithPosition(inst.status, c), scale.spec,
                     DesiredReplicas(inst.spec, c), clock)
<1> DEFINE spec == inst.spec
           st == WithPosition(inst.status, c)
           n == DesiredReplicas(spec, c)
<1>1. /\ spec \in Specs /\ clock \in Nat /\ scale.spec \in Nat
      /\ inst.status \in StatusType /\ st \in StatusType
    BY PositionType DEF TypeOK, ObjectType, ScaleType
<1>2. /\ spec.upscaleDelay \in Nat /\ spec.downscaleDelay \in Nat
      /\ spec.minReplicas \in Nat /\ spec.maxReplicas \in Nat
    BY <1>1, ReconcilerAssumption DEF SpecType
<1>3. ~Forced(spec, scale) /\ ~Disabled(scale)
    BY <1>1, <1>2 DEF Forced, InBounds, Rescale
<1>4. n = NormalizedReplicas(spec, c)
    BY <1>3 DEF DesiredReplicas
<1>5. shouldScale(spec, st, scale.spec, n, now, ~c.isAbove /\ ~c.isBelow, clock)
    BY <1>3, <1>4 DEF Rescale
<1>6. /\ ~c.isAbove => st.aboveSince = NoTime
      /\ ~c.isBelow => st.belowSince = NoTime
    BY <1>1 DEF WithPosition, setCondition, StatusType
<1>7. st.aboveSince \in Int /\ st.belowSince \in Int
    BY <1>1 DEF StatusType, Time
<1>8. \A d \in Nat, s \in Int : (clock - s) \div Second >= d => clock - s >= d * Second
    BY <1>1, WholeSeconds
<1> HIDE DEF st, n, spec
<1> QED
    BY <1>2, <1>5, <1>6, <1>7, <1>8 DEF shouldScale, canScaleAfterDelay, DelayOver, Over, st, n, spec

\* The invariant holds when the controller starts.
LEMMA InitHInv == HInit => HInv
<1> SUFFICES ASSUME HInit PROVE HInv
    OBVIOUS
<1>1. wpa.status = NoStatus /\ pc = "idle" /\ aboveSeen = NoTime /\ belowSeen = NoTime
    BY DEF HInit, Init
<1> QED
    BY <1>1 DEF HInv, StatusKnows, DelayStands, SeenIn, NoStatus, Persisted, Time

\* A step that computes no reading leaves the history alone.
LEMMA OtherSteps ==
    ASSUME HNext, pc # "scaled" \/ pc' \notin {"update", "record"}
    PROVE  aboveSeen' = aboveSeen /\ belowSeen' = belowSeen
<1> QED
    BY DEF HNext, Remember, Computed

\* Every step keeps it, as long as there are no faults.
LEMMA NextHInv ==
    ASSUME Faults = {}, IInv, RInv, HInv, [HNext]_hvars
    PROVE  HInv'
<1>0. /\ clock \in Nat /\ wpa \in ObjectType /\ inst \in ObjectType /\ cache \in ObjectType
      /\ wpa.status \in StatusType /\ inst.status \in StatusType
      /\ target \in ScaleType /\ scale \in ScaleType /\ scale.spec \in Nat /\ target.spec \in Nat
      /\ inst.spec \in Specs
      /\ cacheFresh => cache = wpa
      /\ aboveSeen \in Time /\ belowSeen \in Time
    BY DEF IInv, TypeOK, CopiesAgree, ObjectType, ScaleType, HInv, StatusKnows
<1> USE DEF HInv
<1>1. ASSUME UNCHANGED << aboveSeen, belowSeen, pc, inst, wpa >> PROVE StatusKnows'
    BY <1>1 DEF StatusKnows, SeenIn
<1>2. CASE UNCHANGED hvars
    BY <1>1, <1>2 DEF hvars, vars, objects, worker, DelayStands
<1>3. CASE HNext /\ Get
    <2>1. inst' = wpa /\ UNCHANGED << wpa, aboveSeen, belowSeen >> /\ pc' = "fetched" /\ pc = "idle"
        BY <1>0, <1>3, OtherSteps DEF Get, objects
    <2> QED
        BY <1>0, <2>1 DEF StatusKnows, SeenIn, DelayStands
<1>4. CASE HNext /\ (BlockedByMonitor \/ GetScale \/ GetScaleFails \/ ComputeFails)
    <2>1. /\ UNCHANGED << wpa, inst, aboveSeen, belowSeen >>
          /\ pc \in {"fetched", "scaled"} /\ pc' \in {"scaled", "aborted"}
        BY <1>4, OtherSteps
        DEF BlockedByMonitor, GetScale, GetScaleFails, ComputeFails, objects, worker
    <2> QED
        BY <1>0, <2>1 DEF StatusKnows, SeenIn, DelayStands
<1>5. CASE HNext /\ (ComputePanic \/ LastWriteFails)
    <2>1. pc \in {"scaled", "aborted"}
        BY <1>5 DEF ComputePanic, LastWriteFails, RInv, InstanceIsLatest
    <2>2. pc' = "idle" /\ UNCHANGED << wpa, aboveSeen, belowSeen >>
        BY <1>5, OtherSteps DEF ComputePanic, LastWriteFails, Done, objects
    <2> QED
        BY <1>0, <2>1, <2>2 DEF StatusKnows, SeenIn, DelayStands
<1>6. CASE HNext /\ Decide
    <2>1. PICK r \in Readings : \E c \in computeReplicas(inst.spec, scale, r) : Conclude(c)
        BY <1>6 DEF Decide
    <2>2. PICK c \in computeReplicas(inst.spec, scale, r) : Conclude(c)
        BY <2>1
    <2> DEFINE status == WithPosition(inst.status, c)
               n == DesiredReplicas(inst.spec, c)
    <2>3. /\ pc = "scaled" /\ pc' \in {"update", "record"} /\ UNCHANGED << wpa, target, clock, scaleFresh >>
          /\ inst'.status = status /\ inst'.spec = inst.spec
          /\ pc' = "update" => /\ Rescale(inst.spec, status, c)
                               /\ scale' = [scale EXCEPT !.spec = n]
        BY <1>0, <1>6, <2>2 DEF Decide, Conclude, objects, ObjectType
    <2>4. StatusKnows'
        <3>1. SeenIn(inst.status)
            BY <2>3 DEF StatusKnows, SeenIn
        <3>2. SeenIn(inst.status)' /\ aboveSeen' \in Time /\ belowSeen' \in Time
            BY <1>0, <1>6, <2>3, <3>1, ReadingKnown DEF HNext, Computed
        <3> QED
            BY <2>3, <3>2 DEF StatusKnows
    <2>5. DelayStands'
        <3> SUFFICES ASSUME pc' = "update", scaleFresh', InBounds(inst'.spec, target'.spec),
                            target'.status # 0
                     PROVE  DelayOver(inst'.spec, inst'.status, target'.spec, scale'.spec, clock')
            BY DEF DelayStands
        <3>1. scale = target
            BY <2>3 DEF IInv, CopiesAgree
        <3>2. scale'.spec = n
            BY <1>0, <2>3 DEF ScaleType
        <3>3. DelayOver(inst.spec, status, scale.spec, n, clock)
            BY <2>3, <3>1, DecisionWaits DEF IInv
        <3> HIDE DEF status, n
        <3> QED
            BY <2>3, <3>1, <3>2, <3>3
    <2> QED
        BY <2>4, <2>5
<1>7. CASE HNext /\ (UpdateScale \/ UpdateScaleFails \/ UpdateScaleReplyLost)
    <2>1. /\ UNCHANGED << inst, wpa, aboveSeen, belowSeen >>
          /\ pc = "update" /\ pc' \in {"record", "failed"}
        BY <1>7, OtherSteps DEF UpdateScale, UpdateScaleFails, UpdateScaleReplyLost, AfterUpdate
    <2> QED
        BY <1>0, <2>1 DEF StatusKnows, SeenIn, DelayStands
<1>8. CASE HNext /\ (RecordStatus \/ LastWrite)
    <2> DEFINE st == IF pc = "record" THEN setStatus(inst.status) ELSE inst.status
    <2>1. /\ wpa'.status = Stored(st) /\ pc' = "idle" /\ UNCHANGED << aboveSeen, belowSeen >>
          /\ pc \in {"record", "aborted", "failed", "retry"}
        BY <1>0, <1>8, OtherSteps DEF RecordStatus, LastWrite, StoreStatus, Done, ObjectType
    <2>2. SeenIn(inst.status)
        BY <2>1 DEF StatusKnows, SeenIn
    <2>3. st \in StatusType /\ st.aboveSince = inst.status.aboveSince
          /\ st.belowSince = inst.status.belowSince
        BY <1>0 DEF setStatus, StatusType, Time
    <2>4. SeenIn(st)
        BY <2>2, <2>3 DEF SeenIn
    <2>5. SeenIn(Stored(st))
        BY <1>0, <2>3, <2>4, StoredKnows
    <2> HIDE DEF st
    <2> QED
        BY <1>0, <2>1, <2>5 DEF StatusKnows, SeenIn, DelayStands
<1>9. CASE HNext /\ (RecordStatusFails \/ Crash)
    BY <1>9 DEF RecordStatusFails, Crash, RInv, InstanceIsLatest
<1>10. CASE HNext /\ (CacheSync \/ ScaleByHand \/ TargetFollows)
    <2>1. UNCHANGED << aboveSeen, belowSeen, pc, inst, wpa, scale, clock >>
        BY <1>10, OtherSteps DEF CacheSync, ScaleByHand, TargetFollows, worker
    <2>2. ~scaleFresh' \/ UNCHANGED << target, scaleFresh >>
        BY <1>10 DEF CacheSync, ScaleByHand, TargetFollows, worker
    <2> QED
        BY <1>1, <2>1, <2>2 DEF DelayStands
<1>11. CASE HNext /\ EditSpec
    <2>1. /\ pc = "idle" /\ pc' = "idle" /\ wpa'.status = wpa.status
          /\ UNCHANGED << aboveSeen, belowSeen >>
        BY <1>0, <1>11, OtherSteps DEF EditSpec, ObjectType
    <2> QED
        BY <1>0, <2>1 DEF StatusKnows, SeenIn, DelayStands
<1>12. CASE HNext /\ Tick
    <2>1. /\ UNCHANGED << aboveSeen, belowSeen, pc, inst, wpa, target, scale, scaleFresh >>
          /\ clock' = clock + 1
        BY <1>12, OtherSteps DEF Tick, objects, worker
    <2>2. \A s \in Time, d \in Nat : Over(s, d, clock) => Over(s, d, clock + 1)
        BY <1>0, SecondAssumption DEF Over, Time
    <2>3. /\ inst.spec.upscaleDelay \in Nat /\ inst.spec.downscaleDelay \in Nat
          /\ inst.status.aboveSince \in Time /\ inst.status.belowSince \in Time
        BY <1>0, ReconcilerAssumption DEF SpecType, StatusType
    <2>4. DelayStands'
        BY <2>1, <2>2, <2>3 DEF DelayStands, DelayOver
    <2> QED
        BY <1>1, <2>1, <2>4
<1> QED
    BY <1>2, <1>3, <1>4, <1>5, <1>6, <1>7, <1>8, <1>9, <1>10, <1>11, <1>12
    DEF HNext, Next, Work, Environment

--------------------------------------------------------------------------------
(* The theorem. *)

\* The history adds nothing to the behaviour of the loop.
LEMMA HistoryOnly == HSpec => Spec
<1>1. HInit => Init
    BY DEF HInit
<1>2. [HNext]_hvars => [Next]_vars
    BY DEF HNext, hvars
<1> QED
    BY <1>1, <1>2, PTL DEF HSpec, Spec

\* A step that follows a metric out of bounds comes after the delay.
LEMMA DelayStep ==
    ASSUME IInv, HInv, [Next]_vars, MetricScales, inst.status.lastScaleTime # NoTime,
           aboveSeen # NoTime \/ belowSeen # NoTime
    PROVE  IF target'.spec > target.spec THEN Waited(aboveSeen, inst.spec.upscaleDelay)
                                         ELSE Waited(belowSeen, inst.spec.downscaleDelay)
<1>1. /\ pc = "update" /\ scaleFresh
      /\ target'.spec = scale.spec /\ target'.spec # target.spec
    BY ScalingStep DEF MetricScales
<1>2. DelayOver(inst.spec, inst.status, target.spec, target'.spec, clock)
    BY <1>1 DEF HInv, DelayStands, MetricScales
<1>3. /\ clock \in Nat /\ target.spec \in Nat /\ scale.spec \in Nat
      /\ inst.status.aboveSince \in Int /\ inst.status.belowSince \in Int
      /\ aboveSeen \in Time /\ belowSeen \in Time
      /\ inst.spec.upscaleDelay \in Nat /\ inst.spec.downscaleDelay \in Nat
    BY ReconcilerAssumption
    DEF IInv, TypeOK, ObjectType, StatusType, ScaleType, Time, SpecType, HInv, StatusKnows
<1>4. SeenIn(inst.status)
    BY <1>1 DEF HInv, StatusKnows
<1>5. ASSUME NEW seen \in Time, NEW since \in Int, NEW d \in Nat,
             Persisted(seen) <= since, since # NoTime => seen # NoTime, Over(since, d, clock)
      PROVE  Waited(seen, d)
    <2>1. seen \in Int /\ Persisted(seen) \in Int /\ seen < Persisted(seen) + Second
        BY PersistedTime DEF Time
    <2>2. d * Second \in Int /\ Second \in Int /\ (d - 1) * Second = d * Second - Second
        BY SecondAssumption
    <2> QED
        BY <1>3, <1>5, <2>1, <2>2 DEF Over, Waited
<1>6. /\ Over(inst.status.aboveSince, inst.spec.upscaleDelay, clock)
            => Waited(aboveSeen, inst.spec.upscaleDelay)
      /\ Over(inst.status.belowSince, inst.spec.downscaleDelay, clock)
            => Waited(belowSeen, inst.spec.downscaleDelay)
    BY <1>3, <1>4, <1>5 DEF SeenIn
<1> QED
    BY <1>1, <1>2, <1>3, <1>4, <1>6 DEF DelayOver, SeenIn

\* Without faults, and once a WPA has had its first scaling event, the controller follows
\* a metric out of bounds only if every reading computed during the configured delay
\* (rounded by a second) found it there.
THEOREM DelayTheorem ==
    ASSUME Faults = {}
    PROVE  HSpec => DelayRespected
<1>1. HInit => HInv
    BY InitHInv
<1>2. IInv /\ RInv /\ HInv /\ [HNext]_hvars => HInv'
    BY NextHInv
<1>3. IInv /\ HInv /\ [HNext]_hvars =>
        [/\ MetricScales /\ inst.status.lastScaleTime # NoTime
         /\ aboveSeen # NoTime \/ belowSeen # NoTime
         => IF target'.spec > target.spec THEN Waited(aboveSeen, inst.spec.upscaleDelay)
                                          ELSE Waited(belowSeen, inst.spec.downscaleDelay)]_hvars
    BY DelayStep DEF HNext, hvars
<1>4. HSpec => [](IInv /\ RInv)
    BY HistoryOnly, RefinementInvariance, PTL
<1> QED
    BY <1>1, <1>2, <1>3, <1>4, PTL DEF HSpec, DelayRespected
================================================================================
