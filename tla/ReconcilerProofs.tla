--------------------------- MODULE ReconcilerProofs ---------------------------
(***************************************************************************)
(* Proofs about the reconcile loop, for every set of specs, readings and   *)
(* faults and every bound: its type invariant, and what a step that scales *)
(* the target or writes the status may do.                                 *)
(***************************************************************************)
EXTENDS Reconciler, ReplicaCalculatorProofs

--------------------------------------------------------------------------------
(* The calculator proposes integers. *)

USE DEF NoTime

\* A proposal computed for a target is an integer, and so is the number of ready
\* replicas that comes with it (computeReplicas).
LEMMA ComputeType ==
    ASSUME NEW spec \in Specs, NEW s \in ScaleType, NEW r \in Readings,
           NEW c \in computeReplicas(spec, s, r)
    PROVE  IsCalculation(c)
BY ProposalType, ReconcilerAssumption DEF ScaleType

--------------------------------------------------------------------------------
(* The velocity limits and the bounds. *)

\* A normalised count is between the bounds and within the velocity limits, for a
\* target that is itself between the bounds (convertDesiredReplicasWithRules).
LEMMA NormalizedCount ==
    ASSUME NEW spec, SpecType(spec), NEW current \in Nat, InBounds(spec, current),
           NEW desired \in Nat, NEW ready \in Int
    PROVE  LET n == normalizeDesiredReplicas(spec, current, desired, ready)
           IN  n \in Nat /\ InBounds(spec, n) /\ VelocityRespected(spec, current, n)
<1> DEFINE up == spec.scaleUpLimitFactor * current
           down == spec.scaleDownLimitFactor * current
           upLimit == calculateScaleUpLimit(spec, current)
           downLimit == calculateScaleDownLimit(spec, current)
           n == normalizeDesiredReplicas(spec, current, desired, ready)
           min == MinimumAllowed(spec, current, desired, ready)
           max == MaximumAllowed(spec, current, desired)
<1>1. /\ spec.minReplicas \in Nat \ {0} /\ spec.maxReplicas \in Nat
      /\ spec.minReplicas <= current /\ current <= spec.maxReplicas
      /\ spec.scaleUpLimitFactor \in Nat /\ spec.scaleDownLimitFactor \in Nat
    BY DEF SpecType, InBounds
<1>2. up \in Nat /\ down \in Nat
    BY <1>1
<1>3. /\ up \div 100000 \in Int /\ 100000 * (up \div 100000) <= up
      /\ down \div 100000 \in Int /\ 100000 * (down \div 100000) <= down
    BY <1>2, SMT
<1>4. /\ upLimit \in Int /\ upLimit >= current
      /\ upLimit > current => Share(upLimit - current, spec.scaleUpLimitFactor, current)
    BY <1>1, <1>2, <1>3, SMT DEF calculateScaleUpLimit, Max32, Share
<1>5. /\ downLimit \in Int /\ downLimit <= current
      /\ downLimit < current => Share(current - downLimit, spec.scaleDownLimitFactor, current)
    BY <1>1, <1>2, <1>3, SMT DEF calculateScaleDownLimit, Max32, Share
<1> HIDE DEF up, down, upLimit, downLimit
<1>6. min \in Int /\ spec.minReplicas <= min /\ min <= current
      /\ (desired < min => min >= downLimit) /\ (desired >= min => desired >= downLimit)
    BY <1>1, <1>4, <1>5, SMT DEF MinimumAllowed, Max32, downLimit
<1>7. max \in Int /\ max <= spec.maxReplicas /\ current <= max
      /\ (desired > max => max <= upLimit) /\ (desired <= max => desired <= upLimit)
    BY <1>1, <1>4, <1>5, SMT DEF MaximumAllowed, Min32, upLimit
<1>8. n \in Nat /\ InBounds(spec, n) /\ (n < current => n >= downLimit) /\ (n > current => n <= upLimit)
    <2>1. n = IF desired < min THEN min ELSE IF desired > max THEN max ELSE desired
        BY DEF normalizeDesiredReplicas, convertDesiredReplicasWithRules
    <2> HIDE DEF n, min, max
    <2> QED
        BY <1>1, <1>4, <1>5, <1>6, <1>7, <2>1, SMT DEF InBounds
<1> HIDE DEF n
<1>9. n > current => Share(n - current, spec.scaleUpLimitFactor, current)
    BY <1>1, <1>2, <1>4, <1>8, SMT DEF Share, up
<1>10. n < current => Share(current - n, spec.scaleDownLimitFactor, current)
    BY <1>1, <1>2, <1>5, <1>8, SMT DEF Share, down
<1> QED
    BY <1>8, <1>9, <1>10 DEF VelocityRespected, n

--------------------------------------------------------------------------------
(* Times as they are stored, in whole seconds. *)

\* A stored time is not after the time itself, less than a second before it, and
\* stored again as it is; storing keeps the order (metav1.Time).
LEMMA PersistedTime ==
    ASSUME NEW s \in Time, NEW t \in Time
    PROVE  /\ Persisted(t) \in Time
           /\ Persisted(t) <= t /\ t < Persisted(t) + Second
           /\ Persisted(Persisted(t)) = Persisted(t)
           /\ s <= t => Persisted(s) <= Persisted(t)
<1> QED
    BY SecondAssumption, SMT DEF Time, Persisted

--------------------------------------------------------------------------------
(* The inductive invariant. *)

\* n is a count that a reconciliation may ask for at `time`, having observed the
\* scale t and read the given spec and status.
SoundDecision(spec, status, t, n, time) ==
    /\ t.spec # 0
    /\ t.status # 0 => InBounds(spec, n)
    /\ ~(InBounds(spec, t.spec) /\ t.status # 0) => n = ForcedReplicas(spec, t)
    /\ InBounds(spec, t.spec) /\ t.status # 0 =>
          /\ VelocityRespected(spec, t.spec, n)
          /\ status.lastScaleTime # NoTime /\ n # t.spec =>
                status.lastScaleTime + Window(spec, t.spec, n) * Second <= time

\* What a copy that is the latest version says of the object it is a copy of.
CopiesAgree ==
    /\ cacheFresh => cache = wpa
    /\ pc = "scaled" /\ scaleFresh => scale = target
    /\ instFresh => inst.status.lastScaleTime >= wpa.status.lastScaleTime

\* No time is in the future, and the object holds whole seconds.
TimesInOrder ==
    /\ pc = "scaled" => now <= clock
    /\ wpa.status.lastScaleTime <= clock
    /\ cache.status.lastScaleTime <= clock
    /\ inst.status.lastScaleTime <= clock
    /\ Persisted(wpa.status.lastScaleTime) = wpa.status.lastScaleTime

\* As long as nobody touched the scale, the count about to be written is right for it.
DecisionStands ==
    pc = "update" => /\ ~inst.spec.dryRun
                     /\ scaleFresh => SoundDecision(inst.spec, inst.status, target, scale.spec, clock)

IInv == TypeOK /\ CopiesAgree /\ TimesInOrder /\ DecisionStands

\* Every rescale that reconcileWPA decides on is sound for the scale it observed
\* (normalizeDesiredReplicas, shouldScale and the overrides).
LEMMA DecisionIsSound ==
    ASSUME TypeOK, pc = "scaled", now <= clock,
           NEW r \in Readings, NEW c \in computeReplicas(inst.spec, scale, r),
           Rescale(inst.spec, WithPosition(inst.status, c), c)
    PROVE  /\ DesiredReplicas(inst.spec, c) \in Nat
           /\ SoundDecision(inst.spec, inst.status, scale, DesiredReplicas(inst.spec, c), clock)
<1> DEFINE spec == inst.spec
           n == DesiredReplicas(spec, c)
           status == WithPosition(inst.status, c)
<1>1. /\ spec \in Specs /\ scale \in ScaleType /\ scale.spec \in Nat /\ scale.status \in Nat
      /\ clock \in Nat /\ now \in Nat /\ inst.status.lastScaleTime \in Time
    BY DEF TypeOK, ObjectType, ScaleType, StatusType
<1>2. SpecType(spec)
    BY <1>1, ReconcilerAssumption
<1>3. /\ spec.minReplicas \in Nat \ {0} /\ spec.maxReplicas \in Nat /\ spec.minReplicas <= spec.maxReplicas
      /\ spec.upscaleForbiddenWindow \in Nat /\ spec.downscaleForbiddenWindow \in Nat
    BY <1>2 DEF SpecType
<1>4. scale.spec # 0
    BY DEF Rescale, Disabled
<1>5. status.lastScaleTime = inst.status.lastScaleTime
    BY DEF WithPosition, TypeOK, ObjectType, StatusType
<1>6. CASE Forced(spec, scale)
    <2>1. n = ForcedReplicas(spec, scale)
        BY <1>4, <1>6 DEF DesiredReplicas, Disabled
    <2>2. n \in Nat /\ (scale.status # 0 => InBounds(spec, n))
        BY <1>1, <1>3, <1>6, <2>1 DEF ForcedReplicas, Forced, InBounds
    <2>3. ~(InBounds(spec, scale.spec) /\ scale.status # 0)
        BY <1>1, <1>3, <1>6 DEF Forced, InBounds
    <2> QED
        BY <1>4, <2>1, <2>2, <2>3 DEF SoundDecision
<1>7. CASE ~Forced(spec, scale)
    <2>1. n = NormalizedReplicas(spec, c)
        BY <1>4, <1>7 DEF DesiredReplicas, Disabled
    <2>2. InBounds(spec, scale.spec)
        BY <1>1, <1>3, <1>4, <1>7 DEF Forced, InBounds
    <2>3. Max32(c.replicaCount, 0) \in Nat /\ c.readyReplicas \in Int
        BY <1>1, ComputeType DEF IsCalculation, Max32
    <2>4. n \in Nat /\ InBounds(spec, n) /\ VelocityRespected(spec, scale.spec, n)
        BY <1>1, <1>2, <2>1, <2>2, <2>3, NormalizedCount DEF NormalizedReplicas
    <2>5. shouldScale(spec, status, scale.spec, n, now, ~c.isAbove /\ ~c.isBelow, clock)
        BY <1>7, <2>1 DEF Rescale
    <2> HIDE DEF n, status, spec
    <2>6. ASSUME inst.status.lastScaleTime # NoTime, n # scale.spec
          PROVE  inst.status.lastScaleTime + Window(spec, scale.spec, n) * Second <= clock
        <3> DEFINE w == Window(spec, scale.spec, n)
        <3>1. w \in Nat
            BY <1>3 DEF Window
        <3>2. ~Backoff(status, w, now)
            <4>1. CASE n > scale.spec
                BY <1>1, <1>5, <2>4, <2>5, <2>6, <4>1 DEF shouldScale, canScaleAfterDelay, Window
            <4>2. CASE n < scale.spec
                BY <1>1, <1>5, <2>4, <2>5, <2>6, <4>2 DEF shouldScale, canScaleAfterDelay, Window
            <4> QED
                BY <1>1, <2>4, <2>6, <4>1, <4>2
        <3>3. inst.status.lastScaleTime \in Int /\ w * Second \in Int
            BY <1>1, <3>1, SecondAssumption DEF Time
        <3> QED
            BY <1>1, <1>5, <3>2, <3>3 DEF Backoff
    <2> QED
        BY <1>1, <1>3, <1>4, <1>7, <2>2, <2>4, <2>6 DEF SoundDecision, Forced, n, spec
<1> QED
    BY <1>6, <1>7

\* A record with another LastScaleTime, and the values an idle worker holds, have their types.
LEMMA RecordTypes ==
    /\ NoInstance \in ObjectType /\ NoScale \in ScaleType
    /\ \A st \in StatusType :
          /\ Stored(st) \in StatusType
          /\ Stored(st).lastScaleTime = Persisted(st.lastScaleTime)
    /\ \A st \in StatusType, t \in Time :
          /\ [st EXCEPT !.lastScaleTime = t] \in StatusType
          /\ [st EXCEPT !.lastScaleTime = t].lastScaleTime = t
<1>1. NoInstance \in ObjectType
    <2>1. (CHOOSE s \in Specs : TRUE) \in Specs
        BY ReconcilerAssumption
    <2> QED
        BY <2>1 DEF NoInstance, ObjectType, NoStatus, StatusType, Time
<1>2. NoScale \in ScaleType
    BY DEF NoScale, ScaleType
<1>3. ASSUME NEW st \in StatusType
      PROVE  Stored(st) \in StatusType /\ Stored(st).lastScaleTime = Persisted(st.lastScaleTime)
    <2>1. st.lastScaleTime \in Time /\ st.aboveSince \in Time /\ st.belowSince \in Time
        BY DEF StatusType
    <2> QED
        BY <2>1, PersistedTime DEF Stored, StatusType
<1>4. ASSUME NEW st \in StatusType, NEW t \in Time
      PROVE  /\ [st EXCEPT !.lastScaleTime = t] \in StatusType
             /\ [st EXCEPT !.lastScaleTime = t].lastScaleTime = t
    BY DEF StatusType
<1> QED
    BY <1>1, <1>2, <1>3, <1>4

\* The conditions that computeReplicas sets keep a status's type and its LastScaleTime.
LEMMA PositionType ==
    ASSUME NEW st \in StatusType, clock \in Nat, NEW c
    PROVE  /\ WithPosition(st, c) \in StatusType
           /\ WithPosition(st, c).lastScaleTime = st.lastScaleTime
<1>1. st.aboveSince \in Time /\ st.belowSince \in Time /\ clock \in Time
    BY DEF StatusType, Time
<1>2. /\ setCondition(st.aboveSince, c.isAbove, clock) \in Time
      /\ setCondition(st.belowSince, c.isBelow, clock) \in Time
    BY <1>1 DEF setCondition, Time
<1> QED
    BY <1>2 DEF WithPosition, StatusType

\* The invariant holds when the controller starts.
LEMMA InitInvariant == Init => IInv
<1> SUFFICES ASSUME Init PROVE IInv
    OBVIOUS
<1>1. TypeOK
    <2>1. NoStatus \in StatusType
        BY DEF NoStatus, StatusType, Time
    <2>2. wpa \in ObjectType
        BY <2>1 DEF Init, ObjectType
    <2>3. target \in ScaleType
        BY ReconcilerAssumption DEF Init, ScaleType
    <2> QED
        BY <2>2, <2>3, RecordTypes DEF Init, TypeOK, Time, Positions
<1>2. CopiesAgree /\ DecisionStands
    BY DEF Init, CopiesAgree, DecisionStands
<1>3. TimesInOrder
    BY DEF Init, TimesInOrder, NoStatus, NoInstance, Persisted
<1> QED
    BY <1>1, <1>2, <1>3 DEF IInv

\* The end of a reconciliation.
LEMMA DonePreserves ==
    ASSUME IInv, Done, clock' = clock,
           wpa' \in ObjectType, cache' \in ObjectType, cacheFresh' \in BOOLEAN,
           target' \in ScaleType, edits' \in Nat, offered' \in SUBSET Specs,
           lastScaling' \in Time,
           cacheFresh' => cache' = wpa',
           wpa'.status.lastScaleTime <= clock, cache'.status.lastScaleTime <= clock,
           Persisted(wpa'.status.lastScaleTime) = wpa'.status.lastScaleTime
    PROVE  IInv'
<1>1. TypeOK'
    BY RecordTypes DEF IInv, TypeOK, Done, Positions
<1>2. CopiesAgree' /\ TimesInOrder' /\ DecisionStands'
    BY DEF IInv, TypeOK, Done, NoInstance, NoStatus, CopiesAgree, TimesInOrder, DecisionStands
<1> QED
    BY <1>1, <1>2 DEF IInv

\* An accepted status that is at least as recent as the stored one.
LEMMA StorePreserves ==
    ASSUME IInv, NEW st \in StatusType, StoreStatus(st), Done,
           st.lastScaleTime <= clock, wpa.status.lastScaleTime <= st.lastScaleTime,
           UNCHANGED << clock, cache, target, edits, offered, lastScaling >>
    PROVE  IInv' /\ wpa'.status.lastScaleTime >= wpa.status.lastScaleTime
<1>1. /\ wpa \in ObjectType /\ wpa.status \in StatusType /\ wpa.status.lastScaleTime \in Time
      /\ st.lastScaleTime \in Time /\ clock \in Nat
    BY DEF IInv, TypeOK, ObjectType, StatusType
<1>2. /\ wpa' \in ObjectType
      /\ wpa'.status.lastScaleTime = Persisted(st.lastScaleTime)
    BY <1>1, RecordTypes DEF StoreStatus, ObjectType
<1>3. /\ Persisted(st.lastScaleTime) <= st.lastScaleTime
      /\ Persisted(Persisted(st.lastScaleTime)) = Persisted(st.lastScaleTime)
      /\ Persisted(wpa.status.lastScaleTime) <= Persisted(st.lastScaleTime)
      /\ Persisted(st.lastScaleTime) \in Time
    BY <1>1, PersistedTime
<1>4. IInv'
    <2>1. wpa'.status.lastScaleTime <= clock
        BY <1>1, <1>2, <1>3 DEF Time
    <2> QED
        BY <1>2, <1>3, <2>1, DonePreserves DEF IInv, TypeOK, TimesInOrder, StoreStatus
<1>5. wpa'.status.lastScaleTime >= wpa.status.lastScaleTime
    BY <1>1, <1>2, <1>3 DEF IInv, TimesInOrder, Time
<1> QED
    BY <1>4, <1>5

\* Every step keeps the invariant, and never moves LastScaleTime back.
LEMMA NextInvariant ==
    ASSUME IInv, [Next]_vars
    PROVE  IInv' /\ wpa'.status.lastScaleTime >= wpa.status.lastScaleTime
<1> USE DEF IInv
<1>0. /\ wpa.status \in StatusType /\ inst.status \in StatusType /\ cache.status \in StatusType
      /\ wpa.status.lastScaleTime \in Time /\ inst.status.lastScaleTime \in Time
      /\ cache.status.lastScaleTime \in Time
      /\ wpa.status.lastScaleTime \in Int /\ inst.status.lastScaleTime \in Int
      /\ cache.status.lastScaleTime \in Int /\ clock \in Nat /\ clock \in Time
      /\ inst.spec \in Specs /\ target.spec \in Nat /\ scale.spec \in Nat
    BY DEF TypeOK, ObjectType, StatusType, ScaleType, Time
<1> DEFINE Kept == wpa'.status.lastScaleTime >= wpa.status.lastScaleTime
<1>1. CASE UNCHANGED vars
    BY <1>0, <1>1 DEF vars, objects, worker, TypeOK, CopiesAgree, TimesInOrder, DecisionStands
<1>2. CASE Get
    <2>1. TypeOK' /\ Kept
        BY <1>0, <1>2 DEF Get, objects, TypeOK, Positions
    <2>2. CopiesAgree'
        BY <1>0, <1>2 DEF Get, objects, CopiesAgree, TypeOK
    <2>3. TimesInOrder' /\ DecisionStands'
        BY <1>0, <1>2 DEF Get, objects, TimesInOrder, DecisionStands
    <2> QED
        BY <2>1, <2>2, <2>3
<1>3. CASE BlockedByMonitor \/ GetScaleFails \/ ComputeFails
    <2>1. TypeOK' /\ Kept
        BY <1>0, <1>3 DEF BlockedByMonitor, GetScaleFails, ComputeFails, objects, worker, TypeOK, Positions
    <2>2. CopiesAgree' /\ TimesInOrder' /\ DecisionStands'
        BY <1>0, <1>3 DEF BlockedByMonitor, GetScaleFails, ComputeFails, objects, worker,
                          CopiesAgree, TimesInOrder, DecisionStands
    <2> QED
        BY <2>1, <2>2
<1>4. CASE GetScale
    <2>1. TypeOK' /\ Kept
        BY <1>0, <1>4 DEF GetScale, objects, TypeOK, Positions
    <2>2. CopiesAgree' /\ TimesInOrder' /\ DecisionStands'
        BY <1>0, <1>4 DEF GetScale, objects, CopiesAgree, TimesInOrder, DecisionStands
    <2> QED
        BY <2>1, <2>2
<1>5. CASE ComputePanic
    BY <1>0, <1>5, DonePreserves DEF ComputePanic, objects, TypeOK, CopiesAgree, TimesInOrder
<1>6. CASE Decide
    <2>1. pc = "scaled" /\ now <= clock
        BY <1>6 DEF Decide, TimesInOrder
    <2>10. PICK r \in Readings : \E c \in computeReplicas(inst.spec, scale, r) : Conclude(c)
        BY <1>6 DEF Decide
    <2>2. PICK c \in computeReplicas(inst.spec, scale, r) : Conclude(c)
        BY <2>10
    <2> DEFINE status == WithPosition(inst.status, c)
               n == DesiredReplicas(inst.spec, c)
    <2>3. status \in StatusType /\ status.lastScaleTime = inst.status.lastScaleTime
        BY <1>0, PositionType
    <2>4. Rescale(inst.spec, status, c) =>
             n \in Nat /\ SoundDecision(inst.spec, inst.status, scale, n, clock)
        BY <2>1, DecisionIsSound
    <2> HIDE DEF status, n
    <2>5. inst' \in ObjectType /\ inst'.spec = inst.spec /\ inst'.status = status
        BY <1>0, <2>2, <2>3 DEF Conclude, TypeOK, ObjectType, status
    <2>6. scale' \in ScaleType /\ pc' \in {"update", "record"} /\ rescale' \in BOOLEAN
        <3>1. Rescale(inst.spec, status, c) \in BOOLEAN
            BY Zenon DEF Rescale
        <3>2. rescale' \in BOOLEAN
            BY <2>2, <3>1, Zenon DEF Conclude, status
        <3>3. Rescale(inst.spec, status, c) => [scale EXCEPT !.spec = n] \in ScaleType
            BY <2>4 DEF TypeOK, ScaleType
        <3>4. scale' \in ScaleType /\ pc' \in {"update", "record"}
            BY <2>2, <3>3, RecordTypes DEF Conclude, status, n
        <3> QED
            BY <3>2, <3>4
    <2>7. TypeOK' /\ Kept
        BY <1>0, <1>6, <2>5, <2>6 DEF Decide, objects, TypeOK, Positions
    <2>8. CopiesAgree' /\ TimesInOrder'
        BY <1>0, <1>6, <2>3, <2>5, <2>6 DEF Decide, objects, CopiesAgree, TimesInOrder
    <2>9. DecisionStands'
        <3> SUFFICES ASSUME pc' = "update"
                     PROVE  /\ ~inst'.spec.dryRun
                            /\ scaleFresh' => SoundDecision(inst'.spec, inst'.status, target', scale'.spec, clock')
            BY DEF DecisionStands
        <3>1. /\ Rescale(inst.spec, status, c) /\ ~inst.spec.dryRun
              /\ scale' = [scale EXCEPT !.spec = n]
            BY <2>2 DEF Conclude, status, n
        <3>2. scale'.spec = n
            BY <3>1 DEF TypeOK, ScaleType
        <3>3. UNCHANGED << clock, target, scaleFresh >>
            BY <1>6 DEF Decide, objects
        <3>4. scaleFresh => scale = target
            BY <2>1 DEF CopiesAgree
        <3>5. scaleFresh => SoundDecision(inst.spec, status, target, n, clock)
            BY <2>3, <2>4, <3>1, <3>4 DEF SoundDecision
        <3> QED
            BY <2>5, <3>1, <3>2, <3>3, <3>5
    <2> QED
        BY <2>7, <2>8, <2>9
<1>7. CASE UpdateScale \/ UpdateScaleFails \/ UpdateScaleReplyLost
    <2>1. AfterUpdate /\ pc' \in {"record", "failed"}
        BY <1>7 DEF UpdateScale, UpdateScaleFails, UpdateScaleReplyLost
    <2>2. target' \in ScaleType /\ lastScaling' \in Time
        BY <1>0, <1>7 DEF UpdateScale, UpdateScaleFails, UpdateScaleReplyLost, WriteScale, TypeOK, ScaleType
    <2>3. TypeOK' /\ Kept
        <3>1. TypeOK'
            BY <2>1, <2>2, RecordTypes DEF AfterUpdate, TypeOK, Positions
        <3>2. Kept
            BY <1>0, <2>1 DEF AfterUpdate
        <3> QED
            BY <3>1, <3>2
    <2>4. CopiesAgree' /\ TimesInOrder' /\ DecisionStands'
        BY <1>0, <2>1 DEF AfterUpdate, CopiesAgree, TimesInOrder, DecisionStands
    <2> QED
        BY <2>3, <2>4
<1>8. LET st == setStatus(inst.status)
      IN  /\ st \in StatusType /\ st.lastScaleTime <= clock
          /\ instFresh => wpa.status.lastScaleTime <= st.lastScaleTime
          /\ inst.status.lastScaleTime <= st.lastScaleTime
    BY <1>0, RecordTypes DEF setStatus, CopiesAgree, TimesInOrder, Time
<1>9. CASE RecordStatus
    BY <1>8, <1>9, StorePreserves DEF RecordStatus, StoreStatus
<1>10. CASE RecordStatusFails
    <2>1. /\ inst' \in ObjectType /\ inst'.spec = inst.spec
          /\ inst'.status = setStatus(inst.status)
        BY <1>8, <1>10 DEF RecordStatusFails, TypeOK, ObjectType
    <2>2. TypeOK' /\ Kept
        BY <1>0, <1>10, <2>1 DEF RecordStatusFails, objects, TypeOK, Positions
    <2>3. CopiesAgree' /\ TimesInOrder' /\ DecisionStands'
        BY <1>0, <1>8, <1>10, <2>1
        DEF RecordStatusFails, objects, CopiesAgree, TimesInOrder, DecisionStands
    <2> QED
        BY <2>2, <2>3
<1>11. CASE LastWrite
    <2>1. /\ inst.status.lastScaleTime <= clock
          /\ instFresh => wpa.status.lastScaleTime <= inst.status.lastScaleTime
        BY <1>0 DEF CopiesAgree, TimesInOrder, Time
    <2> QED
        BY <1>0, <1>11, <2>1, StorePreserves DEF LastWrite, StoreStatus
<1>12. CASE LastWriteFails
    BY <1>0, <1>12, DonePreserves DEF LastWriteFails, objects, TypeOK, CopiesAgree, TimesInOrder
<1>13. CASE Crash
    BY <1>0, <1>13, DonePreserves DEF Crash, TypeOK, CopiesAgree, TimesInOrder
<1>14. CASE CacheSync
    <2>1. TypeOK' /\ Kept
        BY <1>0, <1>14 DEF CacheSync, worker, TypeOK
    <2>2. CopiesAgree' /\ TimesInOrder' /\ DecisionStands'
        BY <1>0, <1>14 DEF CacheSync, worker, CopiesAgree, TimesInOrder, DecisionStands
    <2> QED
        BY <2>1, <2>2
<1>15. CASE EditSpec
    <2>1. wpa' \in ObjectType /\ wpa'.status = wpa.status
        BY <1>0, <1>15 DEF EditSpec, TypeOK, ObjectType
    <2>2. TypeOK' /\ Kept
        <3>1. edits' \in Nat /\ offered' \in SUBSET Specs
            BY <1>15 DEF EditSpec, TypeOK
        <3>2. TypeOK'
            BY <1>15, <2>1, <3>1 DEF EditSpec, TypeOK
        <3>3. Kept
            BY <1>0, <2>1
        <3> QED
            BY <3>2, <3>3
    <2>3. CopiesAgree' /\ TimesInOrder' /\ DecisionStands'
        BY <1>0, <1>15, <2>1 DEF EditSpec, CopiesAgree, TimesInOrder, DecisionStands
    <2> QED
        BY <2>2, <2>3
<1>16. CASE ScaleByHand \/ TargetFollows
    <2>1. target' \in ScaleType
        BY <1>0, <1>16, ReconcilerAssumption DEF ScaleByHand, TargetFollows, TypeOK, ScaleType
    <2>2. TypeOK' /\ Kept
        <3>1. edits' \in Nat /\ offered' \in SUBSET Specs
            BY <1>16 DEF ScaleByHand, TargetFollows, TypeOK
        <3>2. TypeOK'
            BY <1>16, <2>1, <3>1 DEF ScaleByHand, TargetFollows, TypeOK
        <3>3. Kept
            BY <1>0, <1>16 DEF ScaleByHand, TargetFollows
        <3> QED
            BY <3>2, <3>3
    <2>3. CopiesAgree' /\ TimesInOrder' /\ DecisionStands'
        BY <1>0, <1>16 DEF ScaleByHand, TargetFollows, CopiesAgree, TimesInOrder, DecisionStands
    <2> QED
        BY <2>2, <2>3
<1>17. CASE Tick
    <2>1. TypeOK' /\ Kept
        BY <1>0, <1>17 DEF Tick, objects, worker, TypeOK
    <2>2. CopiesAgree' /\ TimesInOrder'
        BY <1>0, <1>17 DEF Tick, objects, worker, CopiesAgree, TimesInOrder, TypeOK, Time
    <2>3. DecisionStands'
        <3>1. SoundDecision(inst.spec, inst.status, target, scale.spec, clock)
                 => SoundDecision(inst.spec, inst.status, target, scale.spec, clock + 1)
            <4> DEFINE w == Window(inst.spec, target.spec, scale.spec)
            <4>1. w \in Nat
                BY <1>0, ReconcilerAssumption DEF Window, SpecType
            <4>2. w * Second \in Int
                BY <4>1, SecondAssumption
            <4> HIDE DEF w
            <4>3. inst.status.lastScaleTime + w * Second <= clock
                     => inst.status.lastScaleTime + w * Second <= clock + 1
                BY <1>0, <4>2
            <4> QED
                BY <4>3 DEF SoundDecision, w
        <3> QED
            BY <1>17, <3>1 DEF Tick, objects, worker, DecisionStands
    <2> QED
        BY <2>1, <2>2, <2>3
<1> QED
    BY <1>1, <1>2, <1>3, <1>4, <1>5, <1>6, <1>7, <1>9, <1>10, <1>11, <1>12, <1>13, <1>14,
       <1>15, <1>16, <1>17 DEF Next, Work, Environment

--------------------------------------------------------------------------------
(* The theorems. *)

\* The invariant holds throughout.
THEOREM Invariance == Spec => []IInv
<1>1. Init => IInv
    BY InitInvariant
<1>2. IInv /\ [Next]_vars => IInv'
    BY NextInvariant
<1> QED
    BY <1>1, <1>2, PTL DEF Spec

\* Every variable of the reconciler keeps its type, for every set of specs, readings,
\* user interventions and faults.
THEOREM TypeCorrect == Spec => []TypeOK
<1>1. IInv => TypeOK
    BY DEF IInv
<1> QED
    BY <1>1, Invariance, PTL

\* The controller changes the target only by writing the count it decided on over the
\* version it observed, so the decision still stands (the update in reconcileWPA).
LEMMA ScalingStep ==
    ASSUME IInv, [Next]_vars, ControllerScales
    PROVE  /\ pc = "update" /\ scaleFresh
           /\ target'.spec = scale.spec /\ target'.spec # target.spec /\ ~inst.spec.dryRun
           /\ SoundDecision(inst.spec, inst.status, target, target'.spec, clock)
<1>1. pc = "update" /\ pc' # "update" /\ target' # target
    BY DEF ControllerScales
<1>2. UpdateScale \/ UpdateScaleReplyLost
    BY <1>1 DEF Next, Work, Environment, Get, BlockedByMonitor, GetScale, GetScaleFails,
                ComputeFails, ComputePanic, Decide, UpdateScaleFails, RecordStatus,
                RecordStatusFails, LastWrite, LastWriteFails, Crash, CacheSync, EditSpec,
                ScaleByHand, TargetFollows, Tick, vars, objects
<1>3. scaleFresh /\ target' = [target EXCEPT !.spec = scale.spec]
    BY <1>2 DEF UpdateScale, UpdateScaleReplyLost, WriteScale
<1>4. target'.spec = scale.spec /\ target'.spec # target.spec
    BY <1>1, <1>3 DEF IInv, TypeOK, ScaleType
<1> QED
    BY <1>1, <1>3, <1>4 DEF IInv, DecisionStands

\* A target at zero and a WPA in dry run are left alone, and a target that reports
\* replicas ends between the bounds of the spec the worker read, however users, the
\* target's controller and lost answers interleave with the reconciliation.
THEOREM WritesInBounds == Spec => WritesStayInBounds
<1>1. IInv /\ [Next]_vars =>
        [ControllerScales => /\ target.spec # 0
                             /\ ~inst.spec.dryRun
                             /\ target.status # 0 => InBounds(inst.spec, target'.spec)]_vars
    BY ScalingStep DEF SoundDecision
<1> QED
    BY <1>1, Invariance, PTL DEF Spec, WritesStayInBounds

\* No scaling by the metrics exceeds the velocity limits, measured on the count that
\* the target has when the write takes effect.
THEOREM VelocityTheorem == Spec => VelocityLimited
<1>1. IInv /\ [Next]_vars =>
        [MetricScales => VelocityRespected(inst.spec, target.spec, target'.spec)]_vars
    BY ScalingStep DEF SoundDecision, MetricScales
<1> QED
    BY <1>1, Invariance, PTL DEF Spec, VelocityLimited

\* The stored LastScaleTime only moves forward, although every reconciliation writes
\* the status it read earlier.
THEOREM LastScaleTimeMonotonic == Spec => LastScaleTimeNeverGoesBack
<1>1. IInv /\ [Next]_vars =>
        [wpa'.status.lastScaleTime >= wpa.status.lastScaleTime]_vars
    BY NextInvariant
<1> QED
    BY <1>1, Invariance, PTL DEF Spec, LastScaleTimeNeverGoesBack

\* If the status that a decision was made from had the last scaling event, the scaling
\* step comes after the window, up to the second lost when LastScaleTime is stored.
LEMMA CooldownStep ==
    ASSUME IInv, [Next]_vars, MetricScales, lastScaling # NoTime,
           inst.status.lastScaleTime # NoTime,
           inst.status.lastScaleTime >= Persisted(lastScaling)
    PROVE  CooledDown
<1> DEFINE last == inst.status.lastScaleTime
           w == Window(inst.spec, target.spec, target'.spec)
<1>1. /\ target'.spec # target.spec
      /\ SoundDecision(inst.spec, inst.status, target, target'.spec, clock)
    BY ScalingStep DEF MetricScales
<1>2. last + w * Second <= clock
    BY <1>1 DEF SoundDecision, MetricScales
<1>3. /\ clock \in Nat /\ last \in Int /\ lastScaling \in Int /\ lastScaling \in Time
      /\ inst.spec \in Specs
    BY DEF IInv, TypeOK, ObjectType, StatusType, Time
<1>4. w \in Nat
    BY <1>3, ReconcilerAssumption DEF Window, SpecType
<1>5. Persisted(lastScaling) \in Int /\ lastScaling < Persisted(lastScaling) + Second
    BY <1>3, PersistedTime DEF Time
<1> HIDE DEF w
<1>6. w * Second \in Int /\ Second \in Int /\ (w - 1) * Second = w * Second - Second
    BY <1>4, SecondAssumption
<1>7. clock - lastScaling > w * Second - Second
    BY <1>2, <1>3, <1>5, <1>6
<1> QED
    BY <1>6, <1>7 DEF CooledDown, w

\* If the status that a decision was made from had the last scaling event, no scaling
\* by the metrics falls into the forbidden window of its direction, up to the second
\* that is lost when LastScaleTime is stored.
THEOREM CooldownTheorem == Spec => CooldownOnceRecorded
<1>1. IInv /\ [Next]_vars =>
        [/\ MetricScales /\ lastScaling # NoTime
         /\ inst.status.lastScaleTime # NoTime
         /\ inst.status.lastScaleTime >= Persisted(lastScaling)
         => CooledDown]_vars
    BY CooldownStep
<1> QED
    BY <1>1, Invariance, PTL DEF Spec, CooldownOnceRecorded
================================================================================
