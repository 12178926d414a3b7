------------------------ MODULE PolicyRefinementProofs ------------------------
(***************************************************************************)
(* Proofs that the reconcile loop implements ScalingPolicy: the lax policy *)
(* with any set of faults, the strict one without.                         *)
(***************************************************************************)
EXTENDS PolicyRefinement, ReconcilerProofs

USE DEF NoTime

--------------------------------------------------------------------------------
(* The inductive invariant, on top of IInv. *)

\* Whatever copy of the WPA is around, its spec is one that users gave.
SpecsOffered ==
    /\ wpa.spec \in offered /\ cache.spec \in offered
    /\ pc # "idle" => inst.spec \in offered

\* Without faults nothing overtakes a reconciliation: it works on the latest object.
InstanceIsLatest ==
    Faults = {} /\ pc # "idle" => instFresh /\ inst.spec = wpa.spec

\* The last scaling event is not in the future and, without faults, either recorded in
\* the object or about to be.
EventRecorded ==
    /\ lastScaling <= clock
    /\ pc = "update" => rescale
    /\ Faults = {} /\ lastScaling # NoTime =>
          \/ wpa.status.lastScaleTime >= Persisted(lastScaling)
          \/ pc = "record" /\ rescale

RInv == SpecsOffered /\ InstanceIsLatest /\ EventRecorded

\* It holds when the controller starts.
LEMMA InitRInv == Init => RInv
<1> SUFFICES ASSUME Init PROVE RInv
    OBVIOUS
<1>1. SpecsOffered /\ InstanceIsLatest
    BY DEF Init, SpecsOffered, InstanceIsLatest
<1>2. EventRecorded
    BY DEF Init, EventRecorded
<1> QED
    BY <1>1, <1>2 DEF RInv

\* The specs of the copies come from one another, or from a user.
LEMMA SpecsStep ==
    ASSUME IInv, RInv, [Next]_vars
    PROVE  SpecsOffered' /\ InstanceIsLatest'
<1>0. /\ wpa \in ObjectType /\ cache \in ObjectType /\ inst \in ObjectType
      /\ cacheFresh => cache = wpa
    BY DEF IInv, TypeOK, CopiesAgree
<1> USE DEF RInv, SpecsOffered, InstanceIsLatest
<1>1. CASE UNCHANGED vars
    BY <1>1 DEF vars, objects, worker
<1>2. CASE Get
    BY <1>0, <1>2 DEF Get, objects
<1>3. CASE BlockedByMonitor \/ GetScale \/ GetScaleFails \/ ComputeFails
    BY <1>3 DEF BlockedByMonitor, GetScale, GetScaleFails, ComputeFails, objects, worker
<1>4. CASE ComputePanic \/ LastWriteFails
    BY <1>4 DEF ComputePanic, LastWriteFails, Done, objects
<1>5. CASE Decide
    <2>1. inst'.spec = inst.spec /\ pc = "scaled"
        BY <1>0, <1>5 DEF Decide, Conclude, ObjectType
    <2> QED
        BY <1>5, <2>1 DEF Decide, objects
<1>6. CASE UpdateScale \/ UpdateScaleFails \/ UpdateScaleReplyLost
    BY <1>6 DEF UpdateScale, UpdateScaleFails, UpdateScaleReplyLost, AfterUpdate
<1>7. CASE RecordStatus \/ LastWrite
    <2>1. wpa'.spec = wpa.spec /\ pc' = "idle" /\ cache' = cache /\ offered' = offered
        BY <1>0, <1>7 DEF RecordStatus, LastWrite, StoreStatus, Done, ObjectType
    <2> QED
        BY <2>1
<1>8. CASE RecordStatusFails
    <2>1. inst'.spec = inst.spec /\ pc = "record"
        BY <1>0, <1>8 DEF RecordStatusFails, ObjectType
    <2> QED
        BY <1>8, <2>1 DEF RecordStatusFails, objects
<1>9. CASE Crash
    BY <1>9 DEF Crash, Done
<1>10. CASE CacheSync
    BY <1>10 DEF CacheSync, worker
<1>11. CASE EditSpec
    <2>1. wpa'.spec \in offered' /\ offered \subseteq offered'
        BY <1>0, <1>11 DEF EditSpec, ObjectType
    <2> QED
        BY <1>11, <2>1 DEF EditSpec
<1>12. CASE ScaleByHand \/ TargetFollows \/ Tick
    BY <1>12 DEF ScaleByHand, TargetFollows, Tick, objects, worker
<1> QED
    BY <1>1, <1>2, <1>3, <1>4, <1>5, <1>6, <1>7, <1>8, <1>9, <1>10, <1>11, <1>12
    DEF Next, Work, Environment

\* A scaling event stays known: it is recorded by the reconciliation that caused it, or
\* by one that faults do not interrupt before it does.
LEMMA EventStep ==
    ASSUME IInv, RInv, [Next]_vars
    PROVE  EventRecorded'
<1>0. /\ clock \in Nat /\ lastScaling \in Time /\ lastScaling <= clock
      /\ wpa \in ObjectType /\ wpa.status.lastScaleTime \in Int
      /\ wpa'.status.lastScaleTime \in Int
      /\ wpa'.status.lastScaleTime >= wpa.status.lastScaleTime
      /\ Persisted(lastScaling) \in Int
    <2>1. IInv' /\ wpa'.status.lastScaleTime >= wpa.status.lastScaleTime
        BY NextInvariant
    <2>2. /\ clock \in Nat /\ lastScaling \in Time /\ wpa \in ObjectType
          /\ wpa.status.lastScaleTime \in Time /\ wpa'.status.lastScaleTime \in Time
        BY <2>1 DEF IInv, TypeOK, ObjectType, StatusType
    <2>3. Persisted(lastScaling) \in Time
        BY <2>2, PersistedTime
    <2> QED
        BY <2>1, <2>2, <2>3 DEF Time, RInv, EventRecorded
<1> USE DEF RInv, EventRecorded
<1>1. ASSUME UNCHANGED << clock, lastScaling >>, pc # "record", pc' # "update"
      PROVE  EventRecorded'
    BY <1>0, <1>1
<1>2. CASE UNCHANGED vars
    BY <1>0, <1>2 DEF vars, objects, worker
<1>3. CASE Get \/ BlockedByMonitor \/ GetScale \/ GetScaleFails \/ ComputeFails
             \/ ComputePanic \/ UpdateScaleFails \/ LastWrite \/ LastWriteFails
    <2>1. UNCHANGED << clock, lastScaling >> /\ pc # "record" /\ pc' # "update"
        BY <1>3 DEF Get, BlockedByMonitor, GetScale, GetScaleFails, ComputeFails, ComputePanic,
                    UpdateScaleFails, AfterUpdate, LastWrite, LastWriteFails, Done
    <2> QED
        BY <1>1, <2>1
<1>4. CASE Decide
    <2>1. pc = "scaled" /\ (pc' = "update" => rescale') /\ UNCHANGED << clock, lastScaling >>
        BY <1>4 DEF Decide, Conclude
    <2> QED
        BY <1>0, <2>1
<1>5. CASE UpdateScale \/ UpdateScaleReplyLost
    <2>1. /\ pc = "update" /\ clock' = clock /\ wpa' = wpa /\ rescale' = rescale
          /\ pc' \in {"record", "failed"} /\ lastScaling' \in {lastScaling, clock}
          /\ Faults = {} => pc' = "record"
        BY <1>5 DEF UpdateScale, UpdateScaleReplyLost, WriteScale, AfterUpdate
    <2> QED
        BY <1>0, <2>1
<1>6. CASE RecordStatus
    <2>1. pc' = "idle" /\ UNCHANGED << clock, lastScaling >>
        BY <1>6 DEF RecordStatus, Done
    <2>2. rescale /\ lastScaling # NoTime => wpa'.status.lastScaleTime >= Persisted(lastScaling)
        <3> SUFFICES ASSUME rescale, lastScaling # NoTime
                     PROVE  wpa'.status.lastScaleTime >= Persisted(lastScaling)
            OBVIOUS
        <3>1. inst.status \in StatusType /\ clock \in Time
            BY <1>0 DEF IInv, TypeOK, ObjectType, Time
        <3>2. /\ setStatus(inst.status) \in StatusType
              /\ setStatus(inst.status).lastScaleTime = clock
            BY <3>1, RecordTypes DEF setStatus
        <3>3. wpa'.status = Stored(setStatus(inst.status))
            BY <1>0, <1>6 DEF RecordStatus, StoreStatus, ObjectType
        <3>4. wpa'.status.lastScaleTime = Persisted(clock)
            BY <3>2, <3>3, RecordTypes
        <3>5. Persisted(lastScaling) <= Persisted(clock)
            BY <1>0, <3>1, PersistedTime
        <3> QED
            BY <1>0, <3>4, <3>5
    <2> QED
        BY <1>0, <2>1, <2>2
<1>7. CASE RecordStatusFails
    <2>1. pc' = "retry" /\ (Faults # {} \/ ~instFresh) /\ UNCHANGED << clock, lastScaling, wpa >>
        BY <1>7 DEF RecordStatusFails, objects
    <2>2. Faults # {}
        BY <1>7, <2>1 DEF InstanceIsLatest, RecordStatusFails
    <2>3. Faults' = Faults
        OBVIOUS
    <2> QED
        BY <1>0, <2>1, <2>2, <2>3
<1>8. CASE Crash
    BY <1>0, <1>8 DEF Crash, Done
<1>9. CASE CacheSync \/ EditSpec \/ ScaleByHand \/ TargetFollows
    <2>1. UNCHANGED << clock, lastScaling, pc, rescale >>
        BY <1>9 DEF CacheSync, EditSpec, ScaleByHand, TargetFollows, worker
    <2> QED
        BY <1>0, <2>1
<1>10. CASE Tick
    <2>1. clock' = clock + 1 /\ UNCHANGED << lastScaling, pc, rescale, wpa >>
        BY <1>10 DEF Tick, worker, objects
    <2> QED
        BY <1>0, <2>1 DEF Time
<1> QED
    BY <1>2, <1>3, <1>4, <1>5, <1>6, <1>7, <1>8, <1>9, <1>10 DEF Next, Work, Environment

\* Both invariants hold throughout.
THEOREM RefinementInvariance == Spec => [](IInv /\ RInv)
<1>1. Init => RInv
    BY InitRInv
<1>2. IInv /\ RInv /\ [Next]_vars => RInv'
    BY SpecsStep, EventStep DEF RInv
<1> QED
    BY <1>1, <1>2, Invariance, PTL DEF Spec

--------------------------------------------------------------------------------
(* The theorems. *)

\* Without faults the status that a decision was made from has the last scaling event.
LEMMA EventKnown ==
    ASSUME IInv, RInv, Faults = {}, pc = "update", lastScaling # NoTime
    PROVE  inst.status.lastScaleTime # NoTime /\ inst.status.lastScaleTime >= Persisted(lastScaling)
<1>1. /\ lastScaling \in Nat /\ lastScaling \in Time
      /\ inst.status.lastScaleTime \in Int /\ wpa.status.lastScaleTime \in Int
    BY DEF IInv, TypeOK, ObjectType, StatusType, Time
<1>2. Persisted(lastScaling) \in Nat
    <2>1. Persisted(lastScaling) = lastScaling - (lastScaling % Second)
        BY <1>1 DEF Persisted
    <2>2. lastScaling % Second \in 0..lastScaling
        BY <1>1, SecondAssumption
    <2> QED
        BY <1>1, <2>1, <2>2
<1>3. wpa.status.lastScaleTime >= Persisted(lastScaling)
    BY DEF RInv, EventRecorded
<1>4. inst.status.lastScaleTime >= wpa.status.lastScaleTime
    BY DEF IInv, CopiesAgree, RInv, InstanceIsLatest
<1> QED
    BY <1>1, <1>2, <1>3, <1>4

\* Without faults every forbidden window is kept: after any scaling event the controller
\* waits for the window of the new direction before it scales on the metrics again.
THEOREM StrictCooldown ==
    ASSUME Faults = {}
    PROVE  Spec => Cooldown
<1>1. IInv /\ RInv /\ [Next]_vars => [MetricScales /\ lastScaling # NoTime => CooledDown]_vars
    BY EventKnown, CooldownStep DEF MetricScales, ControllerScales
<1> QED
    BY <1>1, RefinementInvariance, PTL DEF Spec, Cooldown

\* A decision that still stands when it is written is a move of the policy.
LEMMA DecisionIsAMove ==
    ASSUME IInv, RInv, UpdateScale \/ UpdateScaleReplyLost, target' # target
    PROVE  Policy!Move
<1> DEFINE s == inst.spec
           n == target'.spec
<1>1. ControllerScales /\ [Next]_vars
    BY DEF ControllerScales, UpdateScale, UpdateScaleReplyLost, Next, Work
<1>2. /\ n = scale.spec /\ n # target.spec /\ ~s.dryRun /\ pc = "update"
      /\ SoundDecision(s, inst.status, target, n, clock)
    BY <1>1, ScalingStep DEF ControllerScales
<1>3. /\ target' = [target EXCEPT !.spec = n] /\ lastScaling' = clock
      /\ UNCHANGED << clock, wpa, offered, edits >>
    BY <1>2 DEF UpdateScale, UpdateScaleReplyLost, WriteScale, AfterUpdate
<1>4. s \in Specs /\ n \in Nat /\ target.spec \in Nat /\ target.status \in Nat
    BY <1>2 DEF IInv, TypeOK, ObjectType, ScaleType
<1>5. s.minReplicas \in Nat \ {0} /\ s.maxReplicas \in Nat /\ s.minReplicas <= s.maxReplicas
    BY <1>4, ReconcilerAssumption DEF SpecType
<1>6. target.spec # 0
    BY <1>2 DEF SoundDecision
<1>7. s \in IF Faults # {} THEN offered ELSE {wpa.spec}
    BY <1>2 DEF RInv, SpecsOffered, InstanceIsLatest
<1>8. ASSUME n \in 1..s.maxReplicas, Policy!Repairs(s, n) \/ Policy!Follows(s, n)
      PROVE  Policy!Move
    BY <1>2, <1>3, <1>6, <1>7, <1>8 DEF Policy!Move
<1>9. CASE InBounds(s, target.spec) /\ target.status # 0
    <2>1. InBounds(s, n) /\ VelocityRespected(s, target.spec, n)
        BY <1>2, <1>9 DEF SoundDecision
    <2>2. Policy!InBounds(s, target.spec) /\ Policy!InBounds(s, n)
        BY <1>9, <2>1 DEF InBounds, Policy!InBounds
    <2>3. Policy!VelocityRespected(s, target.spec, n)
        BY <2>1 DEF VelocityRespected, Share, Policy!VelocityRespected, Policy!Share
    <2>4. Faults = {} /\ lastScaling # NoTime =>
             clock - lastScaling > (Window(s, target.spec, n) - 1) * Second
        BY <1>1, <1>2, <1>9, EventKnown, CooldownStep DEF MetricScales, CooledDown
    <2>5. Policy!Rested(s, n)
        BY <2>4 DEF Policy!Rested, Policy!Window, Window, Policy!NoTime
    <2> QED
        BY <1>4, <1>5, <1>8, <1>9, <2>1, <2>2, <2>3, <2>5 DEF InBounds, Policy!Follows
<1>10. CASE ~(InBounds(s, target.spec) /\ target.status # 0)
    <2>1. n = ForcedReplicas(s, target)
        BY <1>2, <1>10 DEF SoundDecision
    <2>2. n \in 1..s.maxReplicas /\ Policy!Repairs(s, n)
        BY <1>4, <1>5, <1>10, <2>1 DEF ForcedReplicas, InBounds, Policy!Repairs, Policy!InBounds
    <2> QED
        BY <1>8, <2>2
<1> QED
    BY <1>9, <1>10

\* Every step of the loop is a step of the policy, or leaves all it speaks of alone.
LEMMA StepRefines ==
    ASSUME IInv, RInv, [Next]_vars
    PROVE  [Policy!Next]_(Policy!vars)
<1> USE DEF Policy!vars
<1>0. wpa \in ObjectType /\ target \in ScaleType
    BY DEF IInv, TypeOK
<1>1. ASSUME UNCHANGED << clock, target, offered, edits, lastScaling >>, wpa'.spec = wpa.spec
      PROVE  [Policy!Next]_(Policy!vars)
    BY <1>1
<1>2. CASE UNCHANGED vars
    BY <1>1, <1>2 DEF vars, objects
<1>3. CASE Get \/ BlockedByMonitor \/ GetScale \/ GetScaleFails \/ ComputeFails \/ ComputePanic
             \/ Decide \/ RecordStatusFails \/ LastWriteFails
    BY <1>1, <1>3 DEF Get, BlockedByMonitor, GetScale, GetScaleFails, ComputeFails, ComputePanic,
                      Decide, RecordStatusFails, LastWriteFails, objects
<1>4. CASE UpdateScaleFails \/ Crash \/ CacheSync
    BY <1>1, <1>4 DEF UpdateScaleFails, AfterUpdate, Crash, CacheSync
<1>5. CASE RecordStatus \/ LastWrite
    BY <1>0, <1>1, <1>5 DEF RecordStatus, LastWrite, StoreStatus, ObjectType
<1>6. CASE UpdateScale \/ UpdateScaleReplyLost
    <2>1. CASE target' # target
        BY <1>6, <2>1, DecisionIsAMove DEF Policy!Next
    <2>2. CASE target' = target
        <3>1. lastScaling' = lastScaling /\ UNCHANGED << clock, wpa, offered, edits >>
            BY <1>0, <1>6, <2>2 DEF UpdateScale, UpdateScaleReplyLost, WriteScale, AfterUpdate, ScaleType
        <3> QED
            BY <1>1, <2>2, <3>1
    <2> QED
        BY <2>1, <2>2
<1>7. CASE EditSpec
    BY <1>0, <1>7 DEF EditSpec, Policy!Next, Policy!Offer, ObjectType
<1>8. CASE ScaleByHand
    BY <1>8 DEF ScaleByHand, Policy!Next, Policy!OthersScale
<1>9. CASE TargetFollows
    BY <1>9 DEF TargetFollows, Policy!Next, Policy!TargetFollows
<1>10. CASE Tick
    BY <1>10 DEF Tick, objects, Policy!Next, Policy!Tick
<1> QED
    BY <1>2, <1>3, <1>4, <1>5, <1>6, <1>7, <1>8, <1>9, <1>10 DEF Next, Work, Environment

\* The reconcile loop implements the scaling policy: with faults the lax one, without
\* them the strict one, in which the latest spec decides and every window is kept.
THEOREM Refinement == Spec => ImplementsPolicy
<1>1. Init => Policy!Init
    BY DEF Init, Policy!Init, Policy!NoTime
<1>2. IInv /\ RInv /\ [Next]_vars => [Policy!Next]_(Policy!vars)
    BY StepRefines
<1> QED
    BY <1>1, <1>2, RefinementInvariance, PTL DEF Spec, ImplementsPolicy, Policy!Spec
================================================================================
