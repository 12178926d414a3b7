---------------------------- MODULE LifecycleProofs ----------------------------
(***************************************************************************)
(* Proofs about the life of a WPA, for every set of specs that the CRD's   *)
(* schema lets pass and every bound: the finalizer, the versions that the  *)
(* worker writes, the specs that reach reconcileWPA and the series that a  *)
(* finalized WPA leaves.                                                   *)
(***************************************************************************)
EXTENDS MetricSeries, TLAPS

--------------------------------------------------------------------------------
(* The inductive invariant. *)

Objects ==
    {Absent} \cup [exists : {TRUE}, spec : CrdSchema, finalizer : BOOLEAN, deleting : BOOLEAN,
                   reported : {"none", "invalid", "processed"}]

TypeOK ==
    /\ obj \in Objects /\ cache \in Objects /\ watch \in Seq(Objects)
    /\ events \in Seq([old : Objects, new : Objects])
    /\ queued \in BOOLEAN /\ pc \in {"idle", "fetched", "protected", "reconcile"}
    /\ inst \in Objects /\ (pc # "idle" => inst.exists) /\ instFresh \in BOOLEAN
    /\ edits \in Nat /\ crashes \in Nat

\* The versions that the informer has or will receive end with the stored object.
WatchEndsWithObject ==
    IF watch = << >> THEN cache = obj ELSE watch[Len(watch)] = obj

\* A fresh instance is the stored object, and one that has not been written since it
\* was read is also what the cache shows, with nothing under way.
FreshIsLatest ==
    /\ instFresh /\ pc = "fetched" => inst = obj /\ cache = obj /\ watch = << >>
    /\ instFresh /\ pc = "protected" => inst = obj

Active(version) == version.exists /\ version.finalizer /\ ~version.deleting

Protected == obj.exists /\ obj.finalizer

\* As long as somebody can still read a version with the finalizer and without the
\* deletion mark, the stored object has the finalizer.
ActiveIsProtected ==
    /\ Active(cache) => Protected
    /\ \A i \in 1..Len(watch) : Active(watch[i]) => Protected
    /\ pc = "fetched" /\ Active(inst) => Protected

LInv ==
    /\ TypeOK /\ WatchEndsWithObject /\ FreshIsLatest /\ ActiveIsProtected
    /\ FinalizerHeld /\ AdmittedSpecIsUsable

--------------------------------------------------------------------------------
(* Specs. *)

\* Defaulting keeps a spec inside the schema (DefaultWatermarkPodAutoscaler).
LEMMA DefaultInSchema ==
    ASSUME NEW s \in CrdSchema
    PROVE  DefaultWatermarkPodAutoscaler(s) \in CrdSchema
<1> DEFINE min  == IF s.minReplicas = Nil THEN 1 ELSE s.minReplicas
           mod  == IF s.modulo = Nil THEN 1 ELSE s.modulo
           alg  == IF s.algorithm = Empty THEN "absolute" ELSE s.algorithm
           tol  == IF s.tolerance = 0 THEN 100 ELSE s.tolerance
           up   == IF s.scaleUpLimitFactor = Nil THEN 50000 ELSE s.scaleUpLimitFactor
           down == IF s.scaleDownLimitFactor = Nil THEN 20000 ELSE s.scaleDownLimitFactor
           dfw  == IF s.downscaleForbiddenWindow = 0 THEN 300 ELSE s.downscaleForbiddenWindow
           ufw  == IF s.upscaleForbiddenWindow = 0 THEN 60 ELSE s.upscaleForbiddenWindow
<1>1. min \in {Nil} \cup (Nat \ {0}) /\ mod \in {Nil} \cup (Nat \ {0})
    BY DEF CrdSchema, Nil
<1>2. alg \in {Empty, "absolute", "average", "other"}
    BY DEF CrdSchema
<1>3. tol \in Int /\ up \in Int /\ down \in Int /\ dfw \in Nat /\ ufw \in Nat
    BY DEF CrdSchema, Nil
<1>4. DefaultWatermarkPodAutoscaler(s) =
        [s EXCEPT !.minReplicas = min, !.modulo = mod, !.algorithm = alg, !.tolerance = tol,
                  !.scaleUpLimitFactor = up, !.scaleDownLimitFactor = down,
                  !.downscaleForbiddenWindow = dfw, !.upscaleForbiddenWindow = ufw]
    BY DEF DefaultWatermarkPodAutoscaler
<1> HIDE DEF min, mod, alg, tol, up, down, dfw, ufw
<1>5. PICK a \in {Nil} \cup (Nat \ {0}), b \in {Nil} \cup (Nat \ {0}) : a = min /\ b = mod
    BY <1>1, Zenon
<1>6. PICK c \in {Empty, "absolute", "average", "other"} : c = alg
    BY <1>2, Zenon
<1>7. PICK d \in Int, e \in Int, f \in Int : d = tol /\ e = up /\ f = down
    BY <1>3, Zenon
<1>8. PICK g \in Nat, h \in Nat : g = dfw /\ h = ufw
    BY <1>3, Zenon
<1>9. DefaultWatermarkPodAutoscaler(s) =
        [s EXCEPT !.minReplicas = a, !.modulo = b, !.algorithm = c, !.tolerance = d,
                  !.scaleUpLimitFactor = e, !.scaleDownLimitFactor = f,
                  !.downscaleForbiddenWindow = g, !.upscaleForbiddenWindow = h]
    BY <1>4, <1>5, <1>6, <1>7, <1>8, Zenon
<1>10. [s EXCEPT !.minReplicas = a, !.modulo = b, !.algorithm = c, !.tolerance = d,
                  !.scaleUpLimitFactor = e, !.scaleDownLimitFactor = f,
                  !.downscaleForbiddenWindow = g, !.upscaleForbiddenWindow = h] \in CrdSchema
    BY DEF CrdSchema
<1> QED
    BY <1>9, <1>10, Zenon

\* The watermark that is filled in for one metric.
Filled(m) == [m EXCEPT !.low  = IF @ = Nil THEN m.high ELSE @,
                       !.high = IF @ = Nil THEN m.low ELSE @]

\* Filling in watermarks changes nothing but the metrics (fillMissingWatermark).
LEMMA FillMetrics ==
    ASSUME NEW s \in CrdSchema
    PROVE  /\ \E f \in Seq(MetricSpecs) : fillMissingWatermark(s) = [s EXCEPT !.metrics = f]
           /\ fillMissingWatermark(s) \in CrdSchema
           /\ DOMAIN fillMissingWatermark(s).metrics = DOMAIN s.metrics
           /\ \A i \in DOMAIN s.metrics : fillMissingWatermark(s).metrics[i] = Filled(s.metrics[i])
<1>1. s.metrics \in Seq(MetricSpecs)
    BY DEF CrdSchema
<1>2. \A i \in DOMAIN s.metrics : s.metrics[i] \in MetricSpecs
    BY <1>1
<1>3. \A m \in MetricSpecs : Filled(m) \in MetricSpecs
    BY DEF MetricSpecs, Filled
<1> DEFINE f == [i \in DOMAIN s.metrics |-> Filled(s.metrics[i])]
<1>4. f \in Seq(MetricSpecs)
    <2>1. DOMAIN s.metrics = 1..Len(s.metrics) /\ Len(s.metrics) \in Nat
        BY <1>1
    <2>2. f \in [1..Len(s.metrics) -> MetricSpecs]
        BY <1>2, <1>3, <2>1
    <2> QED
        BY <2>1, <2>2
<1>5. fillMissingWatermark(s) = [s EXCEPT !.metrics = f]
    BY DEF fillMissingWatermark, Filled
<1>6. [s EXCEPT !.metrics = f] \in CrdSchema /\ [s EXCEPT !.metrics = f].metrics = f
    BY <1>4 DEF CrdSchema
<1> HIDE DEF f
<1>7. \E g \in Seq(MetricSpecs) : fillMissingWatermark(s) = [s EXCEPT !.metrics = g]
    BY <1>4, <1>5, Zenon
<1> QED
    BY <1>5, <1>6, <1>7 DEF f

\* A spec with its defaults that passes the validity check is one that the rules and
\* the calculator are defined for, once the watermarks are filled in.
LEMMA AdmittedIsUsable ==
    ASSUME NEW s \in CrdSchema, IsDefaultWatermarkPodAutoscaler(s), CheckWPAValidity(s)
    PROVE  SpecType(fillMissingWatermark(s))
<1> DEFINE t == fillMissingWatermark(s)
<1>1. PICK f \in Seq(MetricSpecs) : t = [s EXCEPT !.metrics = f]
    BY FillMetrics
<1>2. \A i \in DOMAIN s.metrics : s.metrics[i] \in MetricSpecs
    BY DEF CrdSchema
<1>3. \A i \in DOMAIN t.metrics : /\ t.metrics[i].type \in {"External", "Resource"}
                                  /\ t.metrics[i].low \in Nat /\ t.metrics[i].high \in Nat
    <2> SUFFICES ASSUME NEW i \in DOMAIN s.metrics
                 PROVE  LET m == Filled(s.metrics[i])
                        IN  m.type \in {"External", "Resource"} /\ m.low \in Nat /\ m.high \in Nat
        BY FillMetrics
    <2> DEFINE m == s.metrics[i]
    <2>1. m \in MetricSpecs
        BY <1>2
    <2>2. checkWPAMetricsValidity(s)
        BY DEF CheckWPAValidity, CrdSchema
    <2>3. m.type \in {"External", "Resource"} /\ (m.low # Nil \/ m.high # Nil)
        BY <2>2, Zenon DEF checkWPAMetricsValidity
    <2> HIDE DEF m
    <2> QED
        BY <2>1, <2>3 DEF MetricSpecs, Filled, m
<1>4. /\ t.minReplicas = s.minReplicas /\ t.maxReplicas = s.maxReplicas
      /\ t.scaleUpLimitFactor = s.scaleUpLimitFactor
      /\ t.scaleDownLimitFactor = s.scaleDownLimitFactor
      /\ t.upscaleForbiddenWindow = s.upscaleForbiddenWindow
      /\ t.downscaleForbiddenWindow = s.downscaleForbiddenWindow
      /\ t.upscaleDelay = s.upscaleDelay /\ t.downscaleDelay = s.downscaleDelay
      /\ t.modulo = s.modulo /\ t.tolerance = s.tolerance
      /\ t \in CrdSchema
    BY <1>1, FillMetrics DEF CrdSchema
<1> HIDE DEF t
<1>5. /\ t.minReplicas \in Nat \ {0} /\ t.maxReplicas \in Nat /\ t.modulo \in Nat \ {0}
      /\ t.upscaleForbiddenWindow \in Nat \ {0} /\ t.downscaleForbiddenWindow \in Nat \ {0}
      /\ t.upscaleDelay \in Nat /\ t.downscaleDelay \in Nat
    BY <1>4 DEF CrdSchema, IsDefaultWatermarkPodAutoscaler
<1>6. /\ s.maxReplicas >= s.minReplicas /\ s.tolerance >= 0 /\ s.tolerance <= 1000
      /\ s.scaleUpLimitFactor >= 0
      /\ s.scaleDownLimitFactor >= 0 /\ s.scaleDownLimitFactor < 100000
    BY DEF CheckWPAValidity, CrdSchema
<1>7. /\ t.minReplicas <= t.maxReplicas /\ t.tolerance \in Nat /\ t.tolerance <= 1000
      /\ t.scaleUpLimitFactor \in Nat
      /\ t.scaleDownLimitFactor \in Nat /\ t.scaleDownLimitFactor < 100000
    BY <1>4, <1>5, <1>6 DEF CrdSchema
<1>8. /\ t.dryRun \in BOOLEAN /\ t.tolerateZero \in BOOLEAN /\ t.minAvailable \in Int
      /\ t.recommender \in BOOLEAN /\ t.recoMarks \in BOOLEAN
    BY <1>4 DEF CrdSchema
<1> QED
    BY <1>3, <1>5, <1>7, <1>8 DEF SpecType, t

--------------------------------------------------------------------------------
(* Versions. *)

\* Absent is an object that does not exist, and the only one.
LEMMA AbsentType ==
    /\ Absent \in Objects /\ Absent.exists = FALSE
    /\ \A o \in Objects : o.exists \in BOOLEAN /\ (~o.exists => o = Absent)
<1>1. Absent \in Objects /\ Absent.exists = FALSE
    BY DEF Objects, Absent
<1>2. ASSUME NEW o \in Objects, o # Absent PROVE o.exists = TRUE
    BY <1>2 DEF Objects
<1> QED
    BY <1>1, <1>2, Zenon

\* The writes of one field.
WithSpec(o, t) == [o EXCEPT !.spec = t]
WithFinalizer(o) == [o EXCEPT !.finalizer = TRUE]
Marked(o) == [o EXCEPT !.deleting = TRUE]
Reporting(o, r) == [o EXCEPT !.reported = r]

\* An object that exists has the fields of one, and stays an object when one of them
\* is written.
LEMMA ObjectFields ==
    ASSUME NEW o \in Objects, o.exists
    PROVE  /\ o.spec \in CrdSchema /\ o.finalizer \in BOOLEAN /\ o.deleting \in BOOLEAN
           /\ \A t \in CrdSchema : /\ WithSpec(o, t) \in Objects /\ WithSpec(o, t).exists
                                   /\ WithSpec(o, t).spec = t
                                   /\ WithSpec(o, t).finalizer = o.finalizer
                                   /\ WithSpec(o, t).deleting = o.deleting
           /\ WithFinalizer(o) \in Objects /\ WithFinalizer(o).exists
           /\ WithFinalizer(o).finalizer /\ WithFinalizer(o).spec = o.spec
           /\ WithFinalizer(o).deleting = o.deleting
           /\ Marked(o) \in Objects /\ Marked(o).exists /\ Marked(o).spec = o.spec
           /\ Marked(o).finalizer = o.finalizer /\ Marked(o).deleting
           /\ \A r \in {"invalid", "processed"} :
                 /\ Reporting(o, r) \in Objects /\ Reporting(o, r).exists
                 /\ Reporting(o, r).spec = o.spec
                 /\ Reporting(o, r).finalizer = o.finalizer
                 /\ Reporting(o, r).deleting = o.deleting
<1>1. o \in [exists : {TRUE}, spec : CrdSchema, finalizer : BOOLEAN, deleting : BOOLEAN,
             reported : {"none", "invalid", "processed"}]
    BY AbsentType, Zenon DEF Objects
<1>2. \A t \in CrdSchema : /\ WithSpec(o, t) \in Objects /\ WithSpec(o, t).exists
                           /\ WithSpec(o, t).spec = t
                           /\ WithSpec(o, t).finalizer = o.finalizer
                           /\ WithSpec(o, t).deleting = o.deleting
    BY <1>1 DEF Objects, WithSpec
<1>3. /\ WithFinalizer(o) \in Objects /\ WithFinalizer(o).exists
      /\ WithFinalizer(o).finalizer /\ WithFinalizer(o).spec = o.spec
      /\ WithFinalizer(o).deleting = o.deleting
    BY <1>1 DEF Objects, WithFinalizer
<1>4. /\ Marked(o) \in Objects /\ Marked(o).exists /\ Marked(o).spec = o.spec
      /\ Marked(o).finalizer = o.finalizer /\ Marked(o).deleting
    BY <1>1 DEF Objects, Marked
<1>5. \A r \in {"invalid", "processed"} : /\ Reporting(o, r) \in Objects /\ Reporting(o, r).exists
                                          /\ Reporting(o, r).spec = o.spec
                                          /\ Reporting(o, r).finalizer = o.finalizer
                                          /\ Reporting(o, r).deleting = o.deleting
    BY <1>1 DEF Objects, Reporting
<1>6. /\ o.spec \in CrdSchema /\ o.finalizer \in BOOLEAN /\ o.deleting \in BOOLEAN
    BY <1>1
<1> QED
    BY <1>2, <1>3, <1>4, <1>5, <1>6, Zenon

\* What a write adds to the watch (Store).
LEMMA StoreAppends ==
    ASSUME TypeOK, NEW v \in Objects, Store(v)
    PROVE  /\ obj' = v
           /\ watch' \in Seq(Objects) /\ watch' # << >> /\ watch'[Len(watch')] = v
           /\ \A i \in 1..Len(watch') : watch'[i] = v \/ \E j \in 1..Len(watch) : watch'[i] = watch[j]
<1>1. watch \in Seq(Objects) /\ watch' = Append(watch, v) /\ obj' = v
    BY DEF TypeOK, Store
<1>2. Len(watch') = Len(watch) + 1 /\ watch' \in Seq(Objects) /\ Len(watch) \in Nat
    BY <1>1
<1>3. \A i \in 1..Len(watch') : watch'[i] = IF i = Len(watch') THEN v ELSE watch[i]
    BY <1>1, <1>2
<1> QED
    BY <1>1, <1>2, <1>3

\* The part of the invariant that does not mention the worker.
VersionsFit ==
    /\ obj \in Objects /\ cache \in Objects /\ watch \in Seq(Objects)
    /\ WatchEndsWithObject
    /\ Active(cache) => Protected
    /\ \A i \in 1..Len(watch) : Active(watch[i]) => Protected

\* A write keeps it, unless it drops the finalizer of an active version (Store).
LEMMA StoreKeeps ==
    ASSUME LInv, NEW v \in Objects, Store(v), cache' = cache,
           Active(cache) \/ (\E i \in 1..Len(watch) : Active(watch[i])) \/ Active(v)
               => v.exists /\ v.finalizer
    PROVE  VersionsFit' /\ obj' = v
<1>1. TypeOK
    BY DEF LInv
<1>2. /\ obj' = v
      /\ watch' \in Seq(Objects) /\ watch' # << >> /\ watch'[Len(watch')] = v
      /\ \A i \in 1..Len(watch') : watch'[i] = v \/ \E j \in 1..Len(watch) : watch'[i] = watch[j]
    BY <1>1, StoreAppends
<1>3. WatchEndsWithObject'
    BY <1>2 DEF WatchEndsWithObject
<1>4. Active(cache)' => Protected'
    BY <1>2 DEF Active, Protected
<1>5. ASSUME NEW i \in 1..Len(watch'), Active(watch'[i]) PROVE Protected'
    BY <1>2, <1>5 DEF Active, Protected
<1>6. cache' \in Objects
    BY <1>1 DEF TypeOK
<1> QED
    BY <1>2, <1>3, <1>4, <1>5, <1>6 DEF VersionsFit, Active

\* A write that keeps the finalizer of a protected object does (Store).
LEMMA StoreProtects ==
    ASSUME LInv, NEW v \in Objects, Store(v), cache' = cache,
           Protected \/ Active(v) => v.exists /\ v.finalizer
    PROVE  VersionsFit' /\ obj' = v
BY StoreKeeps DEF LInv, ActiveIsProtected

--------------------------------------------------------------------------------
(* The invariant. *)

\* Initially nothing exists.
LEMMA InitLInv == Init => LInv
<1> SUFFICES ASSUME Init PROVE LInv
    OBVIOUS
<1>1. TypeOK
    <2>1. watch \in Seq(Objects) /\ events \in Seq([old : Objects, new : Objects])
        BY DEF Init
    <2>2. edits \in Nat /\ crashes \in Nat
        BY DEF Init
    <2> QED
        BY <2>1, <2>2, AbsentType, Zenon DEF Init, TypeOK
<1>2. WatchEndsWithObject /\ FreshIsLatest /\ FinalizerHeld /\ AdmittedSpecIsUsable
    BY DEF Init, WatchEndsWithObject, FreshIsLatest, FinalizerHeld, AdmittedSpecIsUsable
<1>3. ActiveIsProtected
    BY AbsentType DEF Init, ActiveIsProtected, Active
<1> QED
    BY <1>1, <1>2, <1>3 DEF LInv

\* The user's writes keep the invariant if they leave the finalizer alone.
LEMMA UserWritesLInv ==
    ASSUME LInv, NEW v \in Objects, UserWrites(v),
           Protected \/ Active(v) => v.exists /\ v.finalizer
    PROVE  LInv'
<1>1. /\ Store(v) /\ edits' = edits + 1 /\ instFresh' = FALSE
      /\ UNCHANGED << cache, events, queued, pc, inst, crashes, judged >>
    BY DEF UserWrites
<1>2. VersionsFit' /\ obj' = v
    BY <1>1, StoreProtects
<1>3. TypeOK'
    <2>1. edits' \in Nat
        BY <1>1 DEF LInv, TypeOK
    <2> QED
        BY <1>1, <1>2, <2>1, Zenon DEF LInv, TypeOK, VersionsFit
<1>4. FreshIsLatest' /\ AdmittedSpecIsUsable'
    BY <1>1 DEF LInv, FreshIsLatest, AdmittedSpecIsUsable
<1>5. ActiveIsProtected' /\ FinalizerHeld'
    BY <1>1, <1>2 DEF LInv, ActiveIsProtected, FinalizerHeld, VersionsFit, Protected, Active
<1> QED
    BY <1>2, <1>3, <1>4, <1>5 DEF LInv, VersionsFit

\* The end of a reconciliation keeps the invariant if what it wrote does (Return).
LEMMA ReturnLInv ==
    ASSUME LInv, NEW r \in BOOLEAN, Return(r), VersionsFit',
           UNCHANGED << cache, events, edits, crashes >>
    PROVE  LInv'
<1>1. /\ pc' = "idle" /\ inst' = Absent /\ instFresh' = FALSE /\ queued' = (queued \/ r)
    BY DEF Return
<1>2. TypeOK'
    <2>1. queued' \in BOOLEAN
        BY <1>1, Zenon DEF LInv, TypeOK
    <2> QED
        BY <1>1, <2>1, AbsentType, Zenon DEF LInv, TypeOK, VersionsFit
<1>3. FreshIsLatest' /\ AdmittedSpecIsUsable' /\ FinalizerHeld' /\ ActiveIsProtected'
    BY <1>1 DEF FreshIsLatest, AdmittedSpecIsUsable, FinalizerHeld, ActiveIsProtected, VersionsFit
<1> QED
    BY <1>2, <1>3 DEF LInv, VersionsFit

\* What is stored stays as it is.
LEMMA SameVersions ==
    ASSUME LInv, UNCHANGED << obj, watch, cache >>
    PROVE  VersionsFit'
BY DEF LInv, TypeOK, WatchEndsWithObject, ActiveIsProtected, VersionsFit, Active, Protected

\* updateStatusIfNeeded writes the status over the stored version, or nothing.
LEMMA UpdateStatusLInv ==
    ASSUME LInv, NEW r \in {"invalid", "processed"}, NEW requeue \in BOOLEAN,
           pc \in {"protected", "reconcile"}, UpdateStatus(r, requeue),
           UNCHANGED << cache, events, edits, crashes >>
    PROVE  LInv'
<1>1. \E q \in BOOLEAN : Return(q)
    BY DEF UpdateStatus
<1>2. CASE UNCHANGED << obj, watch >>
    <2>1. VersionsFit'
        BY <1>2, SameVersions
    <2> QED
        BY <1>1, <2>1, ReturnLInv
<1>3. CASE Store([obj EXCEPT !.reported = r])
    <2>1. obj \in Objects /\ obj.exists /\ obj.finalizer
        BY DEF LInv, TypeOK, FinalizerHeld
    <2>2. /\ Reporting(obj, r) \in Objects /\ Reporting(obj, r).exists
          /\ Reporting(obj, r).finalizer
        BY <2>1, ObjectFields, Zenon
    <2>3. Store(Reporting(obj, r))
        BY <1>3, Zenon DEF Reporting
    <2>4. VersionsFit'
        BY <2>1, <2>2, <2>3, StoreProtects
    <2> QED
        BY <1>1, <2>4, ReturnLInv
<1> QED
    BY <1>2, <1>3 DEF UpdateStatus

\* A fresh instance that has been read or protected is the stored object.
LEMMA FreshInstance ==
    ASSUME LInv, instFresh, pc \in {"fetched", "protected"}
    PROVE  inst = obj /\ obj \in Objects /\ obj.exists
BY DEF LInv, FreshIsLatest, TypeOK

\* Every step keeps the invariant.
LEMMA NextLInv == LInv /\ [Next]_vars => LInv'
<1> SUFFICES ASSUME LInv, [Next]_vars PROVE LInv'
    OBVIOUS
<1>0. TypeOK /\ WatchEndsWithObject /\ FreshIsLatest /\ ActiveIsProtected /\ FinalizerHeld
    BY DEF LInv
<1>1. CASE Create
    <2>1. PICK t \in UserSpecs : UserWrites(NewObject(t))
        BY <1>1 DEF Create
    <2>2. NewObject(t) \in Objects /\ ~NewObject(t).finalizer
        BY LifecycleAssumption DEF NewObject, Objects
    <2>3. ~Protected
        BY <1>1 DEF Create, Protected
    <2> QED
        BY <2>1, <2>2, <2>3, UserWritesLInv DEF Active
<1>2. CASE EditSpec
    <2>1. PICK t \in UserSpecs : UserWrites(WithSpec(obj, t))
        BY <1>2, Zenon DEF EditSpec, WithSpec
    <2>2. obj \in Objects /\ obj.exists /\ t \in CrdSchema
        BY <1>0, <1>2, LifecycleAssumption DEF EditSpec, TypeOK
    <2>3. /\ WithSpec(obj, t) \in Objects /\ WithSpec(obj, t).exists
          /\ WithSpec(obj, t).finalizer = obj.finalizer
        BY <2>2, ObjectFields
    <2> QED
        BY <2>1, <2>3, UserWritesLInv DEF Active, Protected
<1>3. CASE Delete
    <2>1. obj \in Objects /\ obj.exists
        BY <1>0, <1>3 DEF Delete, TypeOK
    <2>2. CASE obj.finalizer
        <3>1. UserWrites(Marked(obj))
            BY <1>3, <2>2, Zenon DEF Delete, Marked
        <3>2. Marked(obj) \in Objects /\ Marked(obj).exists /\ Marked(obj).finalizer
            BY <2>1, <2>2, ObjectFields, Zenon
        <3> QED
            BY <3>1, <3>2, UserWritesLInv
    <2>3. CASE ~obj.finalizer
        <3>1. UserWrites(Absent)
            BY <1>3, <2>3, Zenon DEF Delete
        <3> QED
            BY <2>3, <3>1, AbsentType, UserWritesLInv DEF Active, Protected
    <2> QED
        BY <2>2, <2>3
<1>4. CASE Deliver
    <2>1. /\ watch # << >> /\ cache' = Head(watch) /\ watch' = Tail(watch)
          /\ events' = Append(events, [old |-> cache, new |-> Head(watch)])
          /\ UNCHANGED << obj, queued, pc, inst, instFresh, edits, crashes, judged >>
        BY <1>4 DEF Deliver
    <2>2. /\ watch \in Seq(Objects) /\ Len(watch) \in Nat \ {0} /\ cache' = watch[1]
          /\ watch' \in Seq(Objects) /\ Len(watch') = Len(watch) - 1
          /\ \A i \in 1..Len(watch') : watch'[i] = watch[i + 1]
        BY <1>0, <2>1 DEF TypeOK
    <2>3. cache' \in Objects
        BY <2>2
    <2>4. events' \in Seq([old : Objects, new : Objects])
        BY <1>0, <2>1, <2>2, <2>3 DEF TypeOK
    <2>5. TypeOK'
        BY <1>0, <2>1, <2>2, <2>3, <2>4, Zenon DEF TypeOK
    <2>6. WatchEndsWithObject'
        BY <1>0, <2>1, <2>2 DEF WatchEndsWithObject
    <2>7. FreshIsLatest'
        BY <1>0, <2>1 DEF FreshIsLatest
    <2>8. ActiveIsProtected'
        <3>1. \A i \in 1..Len(watch') : i + 1 \in 1..Len(watch)
            BY <2>2
        <3> QED
            BY <1>0, <2>1, <2>2, <3>1 DEF ActiveIsProtected, Active, Protected
    <2>9. FinalizerHeld' /\ AdmittedSpecIsUsable'
        BY <1>0, <2>1 DEF LInv, FinalizerHeld, AdmittedSpecIsUsable
    <2> QED
        BY <2>5, <2>6, <2>7, <2>8, <2>9 DEF LInv
<1>5. CASE Handle
    <2>1. /\ events # << >> /\ events' = Tail(events)
          /\ queued' \in BOOLEAN
          /\ UNCHANGED << obj, watch, cache, pc, inst, instFresh, edits, crashes, judged >>
        BY <1>5 DEF Handle
    <2>2. events' \in Seq([old : Objects, new : Objects])
        BY <1>0, <2>1 DEF TypeOK
    <2>3. TypeOK'
        BY <1>0, <2>1, <2>2, Zenon DEF TypeOK
    <2> QED
        BY <1>0, <2>1, <2>3 DEF LInv, WatchEndsWithObject, FreshIsLatest, ActiveIsProtected,
                                Active, Protected, FinalizerHeld, AdmittedSpecIsUsable
<1>6. CASE Crash \/ HandlePanics
    <2>1. /\ cache' = obj /\ watch' = << >> /\ events' = << >> /\ queued' = obj.exists
          /\ pc' = "idle" /\ inst' = Absent /\ instFresh' = FALSE
          /\ UNCHANGED << obj, edits, judged >>
        BY <1>6 DEF Crash, HandlePanics, Restart
    <2>2. crashes' \in Nat
        BY <1>0, <1>6 DEF Crash, HandlePanics, TypeOK
    <2>3. watch' \in Seq(Objects) /\ events' \in Seq([old : Objects, new : Objects])
        BY <2>1
    <2>4. TypeOK'
        BY <1>0, <2>1, <2>2, <2>3, AbsentType, Zenon DEF TypeOK
    <2>5. WatchEndsWithObject' /\ FreshIsLatest' /\ FinalizerHeld' /\ AdmittedSpecIsUsable'
        BY <2>1 DEF WatchEndsWithObject, FreshIsLatest, FinalizerHeld, AdmittedSpecIsUsable
    <2>6. ActiveIsProtected'
        BY <2>1 DEF ActiveIsProtected, Active, Protected
    <2> QED
        BY <2>4, <2>5, <2>6 DEF LInv
<1>7. CASE Get
    <2>1. /\ pc = "idle" /\ queued' = FALSE /\ inst' = cache
          /\ instFresh' = (cache.exists /\ watch = << >>)
          /\ pc' = IF cache.exists THEN "fetched" ELSE "idle"
          /\ UNCHANGED << obj, watch, cache, events, edits, crashes, judged >>
        BY <1>7 DEF Get
    <2>2. TypeOK'
        <3>1. cache.exists \in BOOLEAN /\ instFresh' \in BOOLEAN
            BY <1>0, <2>1, AbsentType, Zenon DEF TypeOK
        <3> QED
            BY <1>0, <2>1, <3>1 DEF TypeOK
    <2>3. FreshIsLatest'
        BY <1>0, <2>1 DEF FreshIsLatest, WatchEndsWithObject
    <2>4. ActiveIsProtected'
        BY <1>0, <2>1 DEF ActiveIsProtected, Active, Protected
    <2>5. WatchEndsWithObject' /\ FinalizerHeld' /\ AdmittedSpecIsUsable'
        BY <1>0, <2>1 DEF WatchEndsWithObject, FinalizerHeld, AdmittedSpecIsUsable
    <2> QED
        BY <2>2, <2>3, <2>4, <2>5 DEF LInv
<1>8. CASE Finalize
    <2>1. /\ pc = "fetched" /\ inst.deleting /\ instFresh /\ Store(Absent) /\ Return(FALSE)
          /\ UNCHANGED << cache, events, edits, crashes, judged >>
        BY <1>8 DEF Finalize
    <2>2. cache.deleting /\ watch = << >>
        BY <1>0, <2>1 DEF FreshIsLatest
    <2>3. VersionsFit'
        BY <2>1, <2>2, AbsentType, StoreKeeps DEF Active
    <2> QED
        BY <2>1, <2>3, ReturnLInv
<1>9. CASE FinalizeFails \/ addFinalizerFails \/ ApplyDefaultsFails
    <2>1. Return(TRUE) /\ UNCHANGED << obj, watch, cache, events, edits, crashes, judged >>
        BY <1>9 DEF FinalizeFails, addFinalizerFails, ApplyDefaultsFails
    <2>2. VersionsFit'
        BY <2>1, SameVersions
    <2> QED
        BY <2>1, <2>2, ReturnLInv
<1>10. CASE addFinalizer
    <2>1. /\ pc = "fetched" /\ ~inst.deleting /\ instFresh
          /\ Store(WithFinalizer(inst)) /\ inst' = WithFinalizer(inst) /\ pc' = "protected"
          /\ UNCHANGED << cache, events, queued, instFresh, edits, crashes, judged >>
        BY <1>10, Zenon DEF addFinalizer, WithFinalizer
    <2>2. inst = obj /\ obj \in Objects /\ obj.exists
        BY <2>1, FreshInstance
    <2>3. /\ inst' \in Objects /\ inst'.exists /\ inst'.finalizer
        BY <2>1, <2>2, ObjectFields, Zenon
    <2>4. VersionsFit' /\ obj' = inst'
        BY <2>1, <2>3, StoreProtects
    <2>5. TypeOK'
        BY <1>0, <2>1, <2>3, <2>4, Zenon DEF TypeOK, VersionsFit
    <2>6. FreshIsLatest' /\ ActiveIsProtected' /\ FinalizerHeld' /\ AdmittedSpecIsUsable'
        BY <2>1, <2>3, <2>4 DEF FreshIsLatest, ActiveIsProtected, VersionsFit, FinalizerHeld,
                                AdmittedSpecIsUsable
    <2> QED
        BY <2>4, <2>5, <2>6 DEF LInv, VersionsFit
<1>11. CASE HasFinalizer
    <2>1. /\ pc = "fetched" /\ ~inst.deleting /\ inst.finalizer /\ pc' = "protected"
          /\ UNCHANGED << obj, watch, cache, events, queued, inst, instFresh, edits, crashes, judged >>
        BY <1>11 DEF HasFinalizer
    <2>2. inst.exists
        BY <1>0, <2>1 DEF TypeOK
    <2>3. TypeOK'
        BY <1>0, <2>1, <2>2, Zenon DEF TypeOK
    <2>4. FinalizerHeld'
        BY <1>0, <2>1, <2>2 DEF ActiveIsProtected, Active, Protected, FinalizerHeld
    <2>5. FreshIsLatest' /\ ActiveIsProtected' /\ WatchEndsWithObject' /\ AdmittedSpecIsUsable'
        BY <1>0, <2>1 DEF FreshIsLatest, ActiveIsProtected, Active, Protected,
                          WatchEndsWithObject, AdmittedSpecIsUsable
    <2> QED
        BY <2>3, <2>4, <2>5 DEF LInv
<1>12. CASE ApplyDefaults
    <2> DEFINE t == DefaultWatermarkPodAutoscaler(inst.spec)
    <2>1. /\ pc = "protected" /\ instFresh /\ Store(WithSpec(inst, t)) /\ Return(TRUE)
          /\ UNCHANGED << cache, events, edits, crashes, judged >>
        BY <1>12, Zenon DEF ApplyDefaults, WithSpec
    <2>2. inst = obj /\ obj \in Objects /\ obj.exists /\ obj.finalizer
        BY <1>0, <2>1, FreshInstance DEF FinalizerHeld
    <2>3. inst.spec \in CrdSchema
        BY <2>2, ObjectFields
    <2>4. t \in CrdSchema
        BY <2>3, DefaultInSchema
    <2> HIDE DEF t
    <2>5. /\ WithSpec(inst, t) \in Objects /\ WithSpec(inst, t).exists
          /\ WithSpec(inst, t).finalizer
        BY <2>2, <2>4, ObjectFields, Zenon
    <2>6. VersionsFit'
        BY <2>1, <2>5, StoreProtects
    <2> QED
        BY <2>1, <2>6, ReturnLInv
<1>13. CASE RejectInvalid
    BY <1>13, UpdateStatusLInv DEF RejectInvalid
<1>14. CASE Admit
    <2> DEFINE t == fillMissingWatermark(inst.spec)
    <2>1. /\ pc = "protected" /\ inst' = WithSpec(inst, t) /\ pc' = "reconcile"
          /\ UNCHANGED << obj, watch, cache, events, queued, instFresh, edits, crashes >>
        BY <1>14, Zenon DEF Admit, WithSpec
    <2>2. inst \in Objects /\ inst.exists
        BY <1>0, <2>1 DEF TypeOK
    <2>3. inst.spec \in CrdSchema
        BY <2>2, ObjectFields
    <2>4. t \in CrdSchema /\ SpecType(t)
        BY <1>14, <2>3, FillMetrics, AdmittedIsUsable DEF Admit
    <2> HIDE DEF t
    <2>5. inst' \in Objects /\ inst'.exists /\ inst'.spec = t
        BY <2>1, <2>2, <2>4, ObjectFields
    <2>6. TypeOK'
        BY <1>0, <2>1, <2>5, Zenon DEF TypeOK
    <2>7. AdmittedSpecIsUsable'
        BY <2>4, <2>5, Zenon DEF AdmittedSpecIsUsable
    <2>8. FinalizerHeld' /\ FreshIsLatest' /\ ActiveIsProtected' /\ WatchEndsWithObject'
        BY <1>0, <2>1 DEF FinalizerHeld, FreshIsLatest, ActiveIsProtected, Active, Protected,
                          WatchEndsWithObject
    <2> QED
        BY <2>6, <2>7, <2>8 DEF LInv
<1>15. CASE reconcileWPA
    BY <1>15, UpdateStatusLInv DEF reconcileWPA
<1>16. CASE UNCHANGED vars
    BY <1>0, <1>16 DEF vars, LInv, TypeOK, WatchEndsWithObject, FreshIsLatest,
        ActiveIsProtected, Active, Protected, FinalizerHeld, AdmittedSpecIsUsable
<1> QED
    BY <1>1, <1>2, <1>3, <1>4, <1>5, <1>6, <1>7, <1>8, <1>9, <1>10, <1>11, <1>12, <1>13,
       <1>14, <1>15, <1>16 DEF Next, Worker

--------------------------------------------------------------------------------
(* Wake-ups. *)

\* Every version that the informer has or will receive has the spec of the stored object,
\* or a later one will reach the queue.
SpecsFollow ==
    obj.exists => \A i \in 1..(Len(watch) + 1) :
        \/ Before(i).exists /\ Before(i).spec = obj.spec
        \/ \E j \in i..Len(watch) : Enqueues(Before(j), watch[j])

\* The object has to be looked at, and the worker does so.
Wanted == obj.exists /\ (obj.spec \notin judged \/ WellFormed(obj.spec))
AtWork == (pc \in {"fetched", "protected"} /\ inst.spec = obj.spec) \/ pc = "reconcile"

WakeInv == SpecsFollow /\ NoWakeUpIsLost

\* A spec that has its defaults is not changed by defaulting.
LEMMA DefaultFixed ==
    ASSUME NEW s \in CrdSchema, IsDefaultWatermarkPodAutoscaler(s)
    PROVE  DefaultWatermarkPodAutoscaler(s) = s
<1>1. DefaultWatermarkPodAutoscaler(s) =
        [s EXCEPT !.minReplicas = s.minReplicas, !.modulo = s.modulo, !.algorithm = s.algorithm,
                  !.tolerance = s.tolerance, !.scaleUpLimitFactor = s.scaleUpLimitFactor,
                  !.scaleDownLimitFactor = s.scaleDownLimitFactor,
                  !.downscaleForbiddenWindow = s.downscaleForbiddenWindow,
                  !.upscaleForbiddenWindow = s.upscaleForbiddenWindow]
    BY DEF DefaultWatermarkPodAutoscaler, IsDefaultWatermarkPodAutoscaler
<1>2. s = [x \in DOMAIN s |-> s[x]]
    BY DEF CrdSchema
<1> QED
    BY <1>1, <1>2, Zenon

\* A write adds one version at the end and leaves the others where they are (Store).
LEMMA StoreVersions ==
    ASSUME LInv, NEW v \in Objects, Store(v), cache' = cache, NEW n \in Nat, n = Len(watch)
    PROVE  /\ obj' = v /\ Len(watch') = n + 1
           /\ \A i \in 1..n : watch'[i] = watch[i]
           /\ watch'[n + 1] = v
           /\ \A i \in 1..(n + 1) : Before(i)' = Before(i)
           /\ Before(n + 1) = obj
           /\ Before(n + 2)' = v
<1>1. watch \in Seq(Objects) /\ watch' = Append(watch, v) /\ obj' = v /\ WatchEndsWithObject
    BY DEF LInv, TypeOK, Store
<1>2. /\ Len(watch') = n + 1 /\ watch'[n + 1] = v
      /\ \A i \in 1..n : watch'[i] = watch[i]
    BY <1>1
<1>3. \A i \in 1..(n + 1) : Before(i)' = Before(i)
    BY <1>2 DEF Before
<1>4. Before(n + 1) = obj
    <2>1. CASE watch = << >>
        BY <1>1, <2>1 DEF Before, WatchEndsWithObject
    <2>2. CASE watch # << >>
        <3>1. n > 0
            BY <1>1, <2>2
        <3> QED
            BY <1>1, <1>2, <2>2, <3>1 DEF Before, WatchEndsWithObject
    <2> QED
        BY <2>1, <2>2
<1>5. Before(n + 2)' = v
    BY <1>2 DEF Before
<1> QED
    BY <1>1, <1>2, <1>3, <1>4, <1>5

\* A write takes no wake-up away, adds one if it changes the spec, and keeps the order
\* of the versions (Store, updatePredicate).
LEMMA StoreWakes ==
    ASSUME LInv, SpecsFollow, NEW v \in Objects, Store(v), UNCHANGED << cache, events >>
    PROVE  /\ WakeUpUnderWay => WakeUpUnderWay'
           /\ v.exists /\ (obj.exists => v.spec # obj.spec) => WakeUpUnderWay'
           /\ SpecsFollow'
<1>0. watch \in Seq(Objects)
    BY DEF LInv, TypeOK
<1> PICK n \in Nat : n = Len(watch)
    BY <1>0
<1>1. /\ obj' = v /\ Len(watch') = n + 1
      /\ \A i \in 1..n : watch'[i] = watch[i]
      /\ watch'[n + 1] = v
      /\ \A i \in 1..(n + 1) : Before(i)' = Before(i)
      /\ Before(n + 1) = obj
      /\ Before(n + 2)' = v
    BY StoreVersions
<1>2. ASSUME NEW j \in 1..n, Enqueues(Before(j), watch[j])
      PROVE  j \in 1..Len(watch') /\ Enqueues(Before(j)', watch'[j])
    BY <1>1, <1>2
<1>3. ASSUME v.exists, obj.exists => v.spec # obj.spec
      PROVE  n + 1 \in 1..Len(watch') /\ Enqueues(Before(n + 1)', watch'[n + 1])
    <2>1. Before(n + 1)' = obj /\ watch'[n + 1] = v /\ n + 1 \in 1..Len(watch')
        BY <1>1
    <2>2. Enqueues(obj, v)
        BY <1>3 DEF Enqueues, updatePredicate
    <2> QED
        BY <2>1, <2>2
<1>4. ASSUME WakeUpUnderWay PROVE WakeUpUnderWay'
    <2>1. CASE \E i \in 1..Len(events) : Enqueues(events[i].old, events[i].new)
        BY <2>1 DEF WakeUpUnderWay
    <2>2. CASE \E i \in 1..Len(watch) : Enqueues(Before(i), watch[i])
        BY <1>2, <2>2 DEF WakeUpUnderWay
    <2> QED
        BY <1>4, <2>1, <2>2 DEF WakeUpUnderWay
<1>5. ASSUME v.exists, obj.exists => v.spec # obj.spec PROVE WakeUpUnderWay'
    BY <1>3, <1>5 DEF WakeUpUnderWay
<1>6. SpecsFollow'
    <2> SUFFICES ASSUME v.exists, NEW i \in 1..(n + 2)
                 PROVE  \/ Before(i)'.exists /\ Before(i)'.spec = v.spec
                        \/ \E j \in i..(n + 1) : Enqueues(Before(j)', watch'[j])
        BY <1>1 DEF SpecsFollow
    <2>1. CASE i = n + 2
        BY <1>1, <2>1
    <2>2. CASE i # n + 2 /\ (obj.exists => v.spec # obj.spec)
        <3>1. n + 1 \in i..(n + 1)
            BY <1>1, <2>2
        <3> QED
            BY <1>3, <2>2, <3>1
    <2>3. CASE i # n + 2 /\ obj.exists /\ v.spec = obj.spec
        <3>1. i \in 1..(n + 1)
            BY <1>1, <2>3
        <3>2. CASE Before(i).exists /\ Before(i).spec = obj.spec
            BY <1>1, <2>3, <3>1, <3>2
        <3>3. CASE \E j \in i..n : Enqueues(Before(j), watch[j])
            <4>1. PICK j \in i..n : Enqueues(Before(j), watch[j])
                BY <3>3
            <4>2. j \in 1..n /\ j \in i..(n + 1)
                BY <1>1, <3>1
            <4> QED
                BY <1>2, <4>1, <4>2
        <3> QED
            BY <2>3, <3>1, <3>2, <3>3 DEF SpecsFollow
    <2> QED
        BY <2>1, <2>2, <2>3
<1> QED
    BY <1>4, <1>5, <1>6

\* A write keeps the wake-ups, if whoever was at work goes on or asks for another turn.
LEMMA StoreKeepsWakeUps ==
    ASSUME LInv, WakeInv, NEW v \in Objects, Store(v), UNCHANGED << cache, events >>,
           queued => queued', judged \subseteq judged',
           AtWork /\ Wanted' /\ v.exists /\ obj.exists /\ v.spec = obj.spec => AtWork' \/ queued'
    PROVE  WakeInv'
<1>1. /\ WakeUpUnderWay => WakeUpUnderWay'
      /\ v.exists /\ (obj.exists => v.spec # obj.spec) => WakeUpUnderWay'
      /\ SpecsFollow'
    BY StoreWakes DEF WakeInv
<1>2. obj' = v
    BY DEF Store
<1>3. ASSUME Wanted' PROVE queued' \/ WakeUpUnderWay' \/ AtWork'
    <2>1. v.exists
        BY <1>2, <1>3 DEF Wanted
    <2>2. CASE obj.exists => v.spec # obj.spec
        BY <1>1, <2>1, <2>2
    <2>3. CASE obj.exists /\ v.spec = obj.spec
        <3>1. Wanted
            BY <1>2, <1>3, <2>3 DEF Wanted
        <3>2. queued \/ WakeUpUnderWay \/ AtWork
            BY <3>1 DEF WakeInv, NoWakeUpIsLost, Wanted, AtWork
        <3> QED
            BY <1>1, <1>3, <2>1, <2>3, <3>2
    <2> QED
        BY <2>2, <2>3
<1> QED
    BY <1>1, <1>3 DEF WakeInv, NoWakeUpIsLost, Wanted, AtWork

\* The same for a step that leaves all versions alone.
LEMMA SameKeepsWakeUps ==
    ASSUME WakeInv, UNCHANGED << obj, watch, cache, events >>,
           queued => queued', judged \subseteq judged',
           AtWork /\ Wanted' => AtWork' \/ queued'
    PROVE  WakeInv'
<1>1. SpecsFollow' /\ (WakeUpUnderWay => WakeUpUnderWay')
    BY DEF WakeInv, SpecsFollow, Before, WakeUpUnderWay
<1>2. Wanted' => Wanted
    BY DEF Wanted
<1>3. Wanted => queued \/ WakeUpUnderWay \/ AtWork
    BY DEF WakeInv, NoWakeUpIsLost, Wanted, AtWork
<1> QED
    BY <1>1, <1>2, <1>3 DEF WakeInv, NoWakeUpIsLost, Wanted, AtWork

\* A version that is delivered moves from the watch to the events (Deliver).
LEMMA DeliverKeepsWakeUps ==
    ASSUME LInv, WakeInv, Deliver
    PROVE  WakeInv'
<1>1. /\ watch # << >> /\ cache' = Head(watch) /\ watch' = Tail(watch)
      /\ events' = Append(events, [old |-> cache, new |-> Head(watch)])
      /\ UNCHANGED << obj, queued, pc, inst, judged >>
    BY DEF Deliver
<1>2. watch \in Seq(Objects) /\ events \in Seq([old : Objects, new : Objects])
    BY DEF LInv, TypeOK
<1>3. PICK n \in Nat : n = Len(watch')
    <2>1. watch' \in Seq(Objects)
        BY <1>1, <1>2
    <2> QED
        BY <2>1
<1>4. PICK m \in Nat : m = Len(events)
    BY <1>2
<1>5. /\ Len(watch) = n + 1 /\ cache' = watch[1]
      /\ \A i \in 1..n : watch'[i] = watch[i + 1]
    BY <1>1, <1>2, <1>3
<1>6. \A i \in 1..(n + 1) : Before(i)' = Before(i + 1)
    BY <1>5 DEF Before
<1>7. /\ Len(events') = m + 1 /\ \A i \in 1..m : events'[i] = events[i]
      /\ events'[m + 1].old = cache /\ events'[m + 1].new = watch[1]
    <2> DEFINE e == [old |-> cache, new |-> Head(watch)]
    <2>1. e \in [old : Objects, new : Objects] /\ e.old = cache /\ e.new = watch[1]
        BY <1>1, <1>2 DEF LInv, TypeOK
    <2>2. events' = Append(events, e)
        BY <1>1
    <2> HIDE DEF e
    <2> QED
        BY <1>2, <1>4, <2>1, <2>2
<1>8. ASSUME NEW j \in 2..(n + 1), Enqueues(Before(j), watch[j])
      PROVE  j - 1 \in 1..n /\ Enqueues(Before(j - 1)', watch'[j - 1])
    <2>1. j - 1 \in 1..n /\ j - 1 \in 1..(n + 1) /\ (j - 1) + 1 = j
        OBVIOUS
    <2>2. Before(j - 1)' = Before(j) /\ watch'[j - 1] = watch[j]
        BY <1>5, <1>6, <2>1
    <2> QED
        BY <1>8, <2>1, <2>2
<1>9. SpecsFollow'
    <2> SUFFICES ASSUME obj.exists, NEW i \in 1..(n + 1)
                 PROVE  \/ Before(i)'.exists /\ Before(i)'.spec = obj.spec
                        \/ \E j \in i..n : Enqueues(Before(j)', watch'[j])
        BY <1>1, <1>3 DEF SpecsFollow
    <2>1. i + 1 \in 1..(Len(watch) + 1)
        BY <1>5
    <2>2. CASE Before(i + 1).exists /\ Before(i + 1).spec = obj.spec
        BY <1>6, <2>2
    <2>3. CASE \E j \in (i + 1)..Len(watch) : Enqueues(Before(j), watch[j])
        <3>1. PICK j \in (i + 1)..(n + 1) : Enqueues(Before(j), watch[j])
            BY <1>5, <2>3
        <3>2. j \in 2..(n + 1) /\ j - 1 \in i..n
            OBVIOUS
        <3> QED
            BY <1>8, <3>1, <3>2
    <2> QED
        BY <2>1, <2>2, <2>3 DEF WakeInv, SpecsFollow
<1>10. ASSUME WakeUpUnderWay PROVE WakeUpUnderWay'
    <2>1. CASE \E i \in 1..Len(events) : Enqueues(events[i].old, events[i].new)
        <3>1. PICK i \in 1..m : Enqueues(events[i].old, events[i].new)
            BY <1>4, <2>1
        <3>2. i \in 1..Len(events') /\ events'[i] = events[i]
            BY <1>7
        <3> QED
            BY <3>1, <3>2 DEF WakeUpUnderWay
    <2>2. CASE \E i \in 1..Len(watch) : Enqueues(Before(i), watch[i])
        <3>1. PICK i \in 1..(n + 1) : Enqueues(Before(i), watch[i])
            BY <1>5, <2>2
        <3>2. CASE i = 1
            <4>1. Enqueues(events'[m + 1].old, events'[m + 1].new) /\ m + 1 \in 1..Len(events')
                BY <1>7, <3>1, <3>2 DEF Before
            <4> QED
                BY <4>1 DEF WakeUpUnderWay
        <3>3. CASE i # 1
            <4>1. i \in 2..(n + 1)
                BY <3>3
            <4>2. i - 1 \in 1..n /\ Enqueues(Before(i - 1)', watch'[i - 1])
                BY <1>8, <3>1, <4>1
            <4> QED
                BY <1>3, <4>2 DEF WakeUpUnderWay
        <3> QED
            BY <3>2, <3>3
    <2> QED
        BY <1>10, <2>1, <2>2 DEF WakeUpUnderWay
<1> QED
    BY <1>1, <1>9, <1>10 DEF WakeInv, NoWakeUpIsLost

\* The event that is handled fills the queue if it was a wake-up (Handle).
LEMMA HandleKeepsWakeUps ==
    ASSUME LInv, WakeInv, Handle
    PROVE  WakeInv'
<1>1. /\ events # << >> /\ events' = Tail(events)
      /\ queued' = (queued \/ Enqueues(Head(events).old, Head(events).new))
      /\ UNCHANGED << obj, watch, cache, pc, inst, judged >>
    BY DEF Handle
<1>2. events \in Seq([old : Objects, new : Objects])
    BY DEF LInv, TypeOK
<1>3. PICK m \in Nat : m = Len(events')
    BY <1>1, <1>2
<1>4. /\ Len(events) = m + 1 /\ Head(events) = events[1]
      /\ \A i \in 1..m : events'[i] = events[i + 1]
    BY <1>1, <1>2, <1>3
<1>5. SpecsFollow'
    BY <1>1 DEF WakeInv, SpecsFollow, Before
<1>6. ASSUME WakeUpUnderWay PROVE queued' \/ WakeUpUnderWay'
    <2>1. CASE \E i \in 1..Len(watch) : Enqueues(Before(i), watch[i])
        BY <1>1, <2>1 DEF WakeUpUnderWay, Before
    <2>2. CASE \E i \in 1..Len(events) : Enqueues(events[i].old, events[i].new)
        <3>1. PICK i \in 1..(m + 1) : Enqueues(events[i].old, events[i].new)
            BY <1>4, <2>2
        <3>2. CASE i = 1
            BY <1>1, <1>4, <3>1, <3>2
        <3>3. CASE i # 1
            <4>1. i - 1 \in 1..m /\ (i - 1) + 1 = i
                BY <3>3
            <4>2. events'[i - 1] = events[i]
                BY <1>4, <4>1
            <4> QED
                BY <1>3, <3>1, <4>1, <4>2 DEF WakeUpUnderWay
        <3> QED
            BY <3>2, <3>3
    <2> QED
        BY <1>6, <2>1, <2>2 DEF WakeUpUnderWay
<1> QED
    BY <1>1, <1>5, <1>6 DEF WakeInv, NoWakeUpIsLost

\* Whoever takes the object out of the queue reads the spec that is stored, or a change
\* of it is still to come (Get).
LEMMA GetKeepsWakeUps ==
    ASSUME LInv, WakeInv, Get
    PROVE  WakeInv'
<1>1. /\ inst' = cache /\ pc' = IF cache.exists THEN "fetched" ELSE "idle"
      /\ UNCHANGED << obj, watch, cache, events, judged >>
    BY DEF Get
<1>2. SpecsFollow' /\ (WakeUpUnderWay => WakeUpUnderWay')
    BY <1>1 DEF WakeInv, SpecsFollow, Before, WakeUpUnderWay
<1>3. watch \in Seq(Objects)
    BY DEF LInv, TypeOK
<1>4. ASSUME obj.exists, ~WakeUpUnderWay PROVE cache.exists /\ cache.spec = obj.spec
    <2>1. 1 \in 1..(Len(watch) + 1) /\ Before(1) = cache
        BY <1>3 DEF Before
    <2>2. ~\E j \in 1..Len(watch) : Enqueues(Before(j), watch[j])
        BY <1>4 DEF WakeUpUnderWay
    <2> QED
        BY <1>4, <2>1, <2>2 DEF WakeInv, SpecsFollow
<1> QED
    BY <1>1, <1>2, <1>4 DEF WakeInv, NoWakeUpIsLost

\* The end of a reconciliation keeps the wake-ups if the spec it was about is not wanted
\* any more, or the object is queued again (UpdateStatus).
LEMMA UpdateStatusKeepsWakeUps ==
    ASSUME LInv, WakeInv, NEW r \in {"invalid", "processed"}, NEW b \in BOOLEAN,
           pc \in {"protected", "reconcile"}, UpdateStatus(r, b),
           UNCHANGED << cache, events >>, judged \subseteq judged',
           ASSUME AtWork, Wanted', obj'.spec = obj.spec PROVE b
    PROVE  WakeInv'
<1>1. CASE Return(b) /\ UNCHANGED << obj, watch >>
    BY <1>1, SameKeepsWakeUps DEF Return
<1>2. CASE Return(TRUE) /\ UNCHANGED << obj, watch >>
    BY <1>2, SameKeepsWakeUps DEF Return
<1>3. CASE Store([obj EXCEPT !.reported = r]) /\ Return(b)
    <2>1. Store(Reporting(obj, r))
        BY <1>3 DEF Reporting
    <2>2. obj \in Objects /\ obj.exists
        BY DEF LInv, TypeOK, FinalizerHeld
    <2>3. Reporting(obj, r) \in Objects /\ Reporting(obj, r).spec = obj.spec
        BY <2>2, ObjectFields
    <2>4. obj' = Reporting(obj, r) /\ queued' = (queued \/ b)
        BY <1>3, <2>1 DEF Store, Return
    <2> QED
        BY <2>1, <2>3, <2>4, StoreKeepsWakeUps
<1> QED
    BY <1>1, <1>2, <1>3 DEF UpdateStatus

\* Every step keeps the wake-ups.
LEMMA NextKeepsWakeUps == LInv /\ WakeInv /\ [Next]_vars => WakeInv'
<1> SUFFICES ASSUME LInv, WakeInv, [Next]_vars PROVE WakeInv'
    OBVIOUS
<1>0. TypeOK
    BY DEF LInv
<1>1. ASSUME NEW v \in Objects, UserWrites(v) PROVE WakeInv'
    <2>1. /\ Store(v) /\ obj' = v
          /\ UNCHANGED << cache, events, queued, pc, inst, judged >>
        BY <1>1 DEF UserWrites, Store
    <2>2. AtWork /\ v.spec = obj.spec => AtWork'
        BY <2>1 DEF AtWork
    <2> QED
        BY <2>1, <2>2, StoreKeepsWakeUps
<1>2. CASE Create
    <2>1. \A t \in UserSpecs : NewObject(t) \in Objects
        BY LifecycleAssumption DEF NewObject, Objects
    <2> QED
        BY <1>1, <1>2, <2>1 DEF Create
<1>3. CASE EditSpec
    <2>1. PICK t \in UserSpecs : UserWrites(WithSpec(obj, t))
        BY <1>3, Zenon DEF EditSpec, WithSpec
    <2>2. WithSpec(obj, t) \in Objects
        BY <1>0, <1>3, ObjectFields, LifecycleAssumption DEF EditSpec, TypeOK
    <2> QED
        BY <1>1, <2>1, <2>2
<1>4. CASE Delete
    <2>1. UserWrites(Marked(obj)) \/ UserWrites(Absent)
        BY <1>4, Zenon DEF Delete, Marked
    <2>2. Marked(obj) \in Objects /\ Absent \in Objects
        BY <1>0, <1>4, ObjectFields, AbsentType DEF Delete, TypeOK
    <2> QED
        BY <1>1, <2>1, <2>2
<1>5. CASE Deliver
    BY <1>5, DeliverKeepsWakeUps
<1>6. CASE Handle
    BY <1>6, HandleKeepsWakeUps
<1>7. CASE Crash \/ HandlePanics
    <2>1. /\ cache' = obj /\ watch' = << >> /\ queued' = obj.exists /\ obj' = obj
        BY <1>7 DEF Crash, HandlePanics, Restart
    <2>2. Len(watch') = 0
        BY <2>1
    <2>3. SpecsFollow'
        BY <2>1, <2>2 DEF SpecsFollow, Before
    <2> QED
        BY <2>1, <2>3 DEF WakeInv, NoWakeUpIsLost
<1>8. CASE Get
    BY <1>8, GetKeepsWakeUps
<1>9. CASE Finalize
    <2>1. /\ Store(Absent) /\ Return(FALSE) /\ UNCHANGED << cache, events, judged >>
        BY <1>9 DEF Finalize
    <2>2. (queued => queued') /\ Absent \in Objects /\ ~Absent.exists
        BY <2>1, AbsentType DEF Return
    <2> QED
        BY <2>1, <2>2, StoreKeepsWakeUps
<1>10. CASE FinalizeFails \/ addFinalizerFails \/ ApplyDefaultsFails
    <2>1. queued' /\ UNCHANGED << obj, watch, cache, events, judged >>
        BY <1>10 DEF FinalizeFails, addFinalizerFails, ApplyDefaultsFails, Return
    <2> QED
        BY <2>1, SameKeepsWakeUps
<1>11. CASE addFinalizer
    <2>1. /\ pc = "fetched" /\ instFresh
          /\ Store(WithFinalizer(inst)) /\ inst' = WithFinalizer(inst) /\ pc' = "protected"
          /\ UNCHANGED << cache, events, queued, judged >>
        BY <1>11, Zenon DEF addFinalizer, WithFinalizer
    <2>2. inst = obj /\ obj \in Objects /\ obj.exists
        BY <2>1, FreshInstance
    <2>3. WithFinalizer(inst) \in Objects
        BY <2>2, ObjectFields
    <2>4. AtWork'
        BY <2>1 DEF AtWork, Store
    <2> QED
        BY <2>1, <2>3, <2>4, StoreKeepsWakeUps
<1>12. CASE HasFinalizer
    <2>1. /\ pc = "fetched" /\ pc' = "protected"
          /\ UNCHANGED << obj, watch, cache, events, queued, inst, judged >>
        BY <1>12 DEF HasFinalizer
    <2> QED
        BY <2>1, SameKeepsWakeUps DEF AtWork
<1>13. CASE ApplyDefaults
    <2> DEFINE t == DefaultWatermarkPodAutoscaler(inst.spec)
    <2>1. /\ pc = "protected" /\ instFresh /\ Store(WithSpec(inst, t))
          /\ queued' /\ UNCHANGED << cache, events, judged >>
        BY <1>13, Zenon DEF ApplyDefaults, WithSpec, Return
    <2>2. inst = obj /\ obj \in Objects /\ obj.exists
        BY <2>1, FreshInstance
    <2>3. t \in CrdSchema
        BY <2>2, ObjectFields, DefaultInSchema
    <2> HIDE DEF t
    <2>4. WithSpec(inst, t) \in Objects
        BY <2>2, <2>3, ObjectFields
    <2> QED
        BY <2>1, <2>4, StoreKeepsWakeUps
<1>14. CASE RejectInvalid
    <2>1. /\ pc = "protected" /\ IsDefaultWatermarkPodAutoscaler(inst.spec)
          /\ ~CheckWPAValidity(inst.spec) /\ UpdateStatus("invalid", FALSE)
          /\ judged' = judged \cup {inst.spec} /\ UNCHANGED << cache, events >>
        BY <1>14 DEF RejectInvalid
    <2>2. inst.spec \in CrdSchema
        BY <1>0, <2>1, ObjectFields DEF TypeOK
    <2>3. ~WellFormed(inst.spec) /\ inst.spec \in judged'
        BY <2>1, <2>2, DefaultFixed DEF WellFormed
    <2>4. ASSUME AtWork, Wanted', obj'.spec = obj.spec PROVE FALSE
        BY <2>1, <2>3, <2>4 DEF AtWork, Wanted
    <2> QED
        BY <2>1, <2>4, UpdateStatusKeepsWakeUps
<1>15. CASE Admit
    <2>1. /\ pc' = "reconcile" /\ judged \subseteq judged'
          /\ UNCHANGED << obj, watch, cache, events, queued >>
        BY <1>15 DEF Admit
    <2> QED
        BY <2>1, SameKeepsWakeUps DEF AtWork
<1>16. CASE reconcileWPA
    <2>1. pc = "reconcile" /\ UpdateStatus("processed", TRUE) /\ UNCHANGED << cache, events, judged >>
        BY <1>16 DEF reconcileWPA
    <2> QED
        BY <2>1, UpdateStatusKeepsWakeUps
<1>17. CASE UNCHANGED vars
    BY <1>17, SameKeepsWakeUps DEF vars, AtWork
<1> QED
    BY <1>2, <1>3, <1>4, <1>5, <1>6, <1>7, <1>8, <1>9, <1>10, <1>11, <1>12, <1>13, <1>14,
       <1>15, <1>16, <1>17 DEF Next, Worker

--------------------------------------------------------------------------------
(* The theorems about the lifecycle. *)

\* The versions, the finalizer and the admitted specs fit together in every reachable
\* state (Reconcile up to reconcileWPA, handleFinalizer).
THEOREM LifecycleInvariance == Spec => []LInv
BY InitLInv, NextLInv, PTL DEF Spec

\* A WPA that is valid, or whose spec has not been judged, is never forgotten: it is in
\* the queue, at work, or a change is under way that will queue it, for any specs and any
\* lag of cache and event handler (updatePredicate, the results of Reconcile).  Liveness
\* needs no more than that queue, worker, watch and event handler go on.
THEOREM WakeUpTheorem == Spec => []NoWakeUpIsLost
<1>1. Init => WakeInv
    BY AbsentType DEF Init, WakeInv, SpecsFollow, NoWakeUpIsLost
<1>2. WakeInv => NoWakeUpIsLost
    BY DEF WakeInv
<1> QED
    BY <1>1, <1>2, LifecycleInvariance, NextKeepsWakeUps, PTL DEF Spec

\* The stored object has the finalizer as long as the worker acts for it, however far
\* the cache is behind (handleFinalizer).
THEOREM FinalizerTheorem == Spec => []FinalizerHeld
<1>1. LInv => FinalizerHeld
    BY DEF LInv
<1> QED
    BY <1>1, LifecycleInvariance, PTL

\* Whatever passes the CRD's schema, defaulting and the validity check is a spec that
\* the rules and the calculator are defined for (CheckWPAValidity, fillMissingWatermark).
THEOREM UsableTheorem == Spec => []AdmittedSpecIsUsable
<1>1. LInv => AdmittedSpecIsUsable
    BY DEF LInv
<1> QED
    BY <1>1, LifecycleInvariance, PTL

\* The worker's writes: the defaults of the stored spec, or a spec as it was.
LEMMA WorkerStep ==
    ASSUME LInv, Next, edits' = edits, obj.exists, obj'.exists, obj'.spec # obj.spec
    PROVE  obj'.spec = DefaultWatermarkPodAutoscaler(obj.spec)
<1>1. CASE ApplyDefaults
    <2> DEFINE t == DefaultWatermarkPodAutoscaler(inst.spec)
    <2>1. pc = "protected" /\ instFresh /\ obj' = WithSpec(inst, t)
        BY <1>1, Zenon DEF ApplyDefaults, WithSpec, Store
    <2>2. inst = obj /\ obj \in Objects
        BY <2>1, FreshInstance
    <2>3. t \in CrdSchema
        BY <2>2, ObjectFields, DefaultInSchema
    <2> HIDE DEF t
    <2>4. obj'.spec = t
        BY <2>1, <2>2, <2>3, ObjectFields
    <2> QED
        BY <2>2, <2>4 DEF t
<1>2. CASE addFinalizer
    <2>1. pc = "fetched" /\ instFresh /\ obj' = WithFinalizer(inst)
        BY <1>2, Zenon DEF addFinalizer, WithFinalizer, Store
    <2>2. inst = obj /\ obj \in Objects
        BY <2>1, FreshInstance
    <2> QED
        BY <2>1, <2>2, ObjectFields
<1>3. ASSUME NEW r \in {"invalid", "processed"}, NEW q, UpdateStatus(r, q)
      PROVE  FALSE
    <2>1. obj' = obj \/ obj' = Reporting(obj, r)
        BY <1>3, Zenon DEF UpdateStatus, Reporting, Store
    <2>2. obj \in Objects
        BY DEF LInv, TypeOK
    <2> QED
        BY <2>1, <2>2, ObjectFields
<1>4. CASE RejectInvalid \/ reconcileWPA
    BY <1>3, <1>4 DEF RejectInvalid, reconcileWPA
<1>5. CASE Create \/ EditSpec \/ Delete
    <2>1. \E v : UserWrites(v)
        BY <1>5 DEF Create, EditSpec, Delete
    <2>2. edits' = edits + 1 /\ edits \in Nat
        BY <2>1 DEF UserWrites, LInv, TypeOK
    <2> QED
        BY <2>2
<1>6. CASE Finalize
    BY <1>6, AbsentType DEF Finalize, Store
<1>7. CASE \/ Deliver \/ Handle \/ HandlePanics \/ Crash \/ Get \/ FinalizeFails
           \/ addFinalizerFails \/ HasFinalizer \/ ApplyDefaultsFails \/ Admit
    BY <1>7 DEF Deliver, Handle, HandlePanics, Crash, Restart, Get, FinalizeFails,
        addFinalizerFails, HasFinalizer, ApplyDefaultsFails, Admit
<1> QED
    BY <1>1, <1>2, <1>4, <1>5, <1>6, <1>7 DEF Next, Worker

\* The controller changes a spec only by filling in the defaults of the one that is
\* stored, so that no user's edit is lost (the Update of Reconcile).
THEOREM UserEditsTheorem == Spec => UserEditsSurvive
<1>1. LInv /\ [Next]_vars =>
        [obj.exists /\ obj'.exists /\ obj'.spec # obj.spec /\ edits' = edits
            => obj'.spec = DefaultWatermarkPodAutoscaler(obj.spec)]_vars
    BY WorkerStep
<1> QED
    BY <1>1, LifecycleInvariance, PTL DEF Spec, UserEditsSurvive

--------------------------------------------------------------------------------
(* The series. *)

\* The module of the series adds to the lifecycle's steps, and evaluations that are
\* none of them.
LEMMA SeriesStep == [SeriesNext]_svars => [Next]_vars
<1> SUFFICES ASSUME SeriesNext PROVE Next \/ UNCHANGED vars
    BY DEF svars
<1> QED
    BY DEF SeriesNext, LeavesSeries, HandleEvent, Die, FinalizeWPA, FinalizePanics, EndsEarly,
           Evaluate, Ends, Next, Worker

\* With its series, a WPA lives as it does without them.
THEOREM SeriesLifecycle == SeriesSpec => Spec
<1>1. SeriesInit => Init
    BY DEF SeriesInit
<1> QED
    BY <1>1, SeriesStep, PTL DEF SeriesSpec, Spec

\* Only the finalizer takes a protected object away.
LEMMA OthersKeepObject ==
    ASSUME LInv, Protected,
           \/ Create \/ EditSpec \/ Delete \/ Deliver \/ Handle \/ HandlePanics \/ Crash
           \/ Get \/ FinalizeFails \/ addFinalizer \/ addFinalizerFails \/ HasFinalizer
           \/ ApplyDefaults \/ ApplyDefaultsFails \/ RejectInvalid \/ Admit \/ reconcileWPA
           \/ UNCHANGED vars
    PROVE  obj'.exists
<1>0. obj \in Objects /\ obj.exists /\ obj.finalizer
    BY DEF LInv, TypeOK, Protected
<1>1. CASE EditSpec
    <2>1. PICK t \in UserSpecs : obj' = WithSpec(obj, t)
        BY <1>1, Zenon DEF EditSpec, UserWrites, Store, WithSpec
    <2> QED
        BY <1>0, <2>1, LifecycleAssumption, ObjectFields
<1>2. CASE Delete
    <2>1. obj' = Marked(obj)
        BY <1>0, <1>2, Zenon DEF Delete, UserWrites, Store, Marked
    <2> QED
        BY <1>0, <2>1, ObjectFields, Zenon
<1>3. CASE addFinalizer
    <2>1. pc = "fetched" /\ instFresh /\ obj' = WithFinalizer(inst)
        BY <1>3, Zenon DEF addFinalizer, WithFinalizer, Store
    <2>2. inst = obj
        BY <2>1, FreshInstance
    <2> QED
        BY <1>0, <2>1, <2>2, ObjectFields, Zenon
<1>4. CASE ApplyDefaults
    <2> DEFINE t == DefaultWatermarkPodAutoscaler(inst.spec)
    <2>1. pc = "protected" /\ instFresh /\ obj' = WithSpec(inst, t)
        BY <1>4, Zenon DEF ApplyDefaults, WithSpec, Store
    <2>2. inst = obj
        BY <2>1, FreshInstance
    <2>3. t \in CrdSchema
        BY <1>0, <2>2, ObjectFields, DefaultInSchema
    <2> HIDE DEF t
    <2> QED
        BY <1>0, <2>1, <2>2, <2>3, ObjectFields
<1>5. ASSUME NEW r \in {"invalid", "processed"}, NEW q, UpdateStatus(r, q)
      PROVE  obj'.exists
    <2>1. obj' = obj \/ obj' = Reporting(obj, r)
        BY <1>5, Zenon DEF UpdateStatus, Reporting, Store
    <2> QED
        BY <1>0, <2>1, ObjectFields
<1>6. CASE RejectInvalid \/ reconcileWPA
    BY <1>5, <1>6 DEF RejectInvalid, reconcileWPA
<1>7. CASE Create
    BY <1>0, <1>7 DEF Create
<1>8. CASE \/ Deliver \/ Handle \/ HandlePanics \/ Crash \/ Get \/ FinalizeFails
           \/ addFinalizerFails \/ HasFinalizer \/ ApplyDefaultsFails \/ Admit \/ UNCHANGED vars
    BY <1>0, <1>8 DEF Deliver, Handle, HandlePanics, Crash, Restart, Get, FinalizeFails,
        addFinalizerFails, HasFinalizer, ApplyDefaultsFails, Admit, vars
<1> QED
    BY <1>1, <1>2, <1>3, <1>4, <1>6, <1>7, <1>8

\* ... and it acts for the stored spec.
LEMMA RemovalStep ==
    ASSUME LInv, SeriesNext, Protected, ~obj'.exists
    PROVE  series' \cap (WpaSeries(obj.spec) \cup SeriesOf(obj.spec, MetricNames(obj.spec))) = {}
<1>1. Finalize /\ series' = series \ cleanupAssociatedMetrics(inst.spec, FALSE)
    BY OthersKeepObject DEF SeriesNext, LeavesSeries, HandleEvent, Die, FinalizeWPA,
        FinalizePanics, EndsEarly, Evaluate, Ends
<1>2. pc = "fetched" /\ instFresh
    BY <1>1 DEF Finalize
<1>3. inst = obj
    BY <1>2, FreshInstance
<1> QED
    BY <1>1, <1>3, Zenon DEF cleanupAssociatedMetrics

\* A WPA that goes through its finalizer leaves none of the series that its last spec
\* stands for, except those named "info" (finalizeWPA, cleanupAssociatedMetrics).
THEOREM FinalizedTheorem == SeriesSpec => FinalizedLeavesNothing
<1>1. LInv /\ [SeriesNext]_svars =>
        [obj.exists /\ obj.finalizer /\ ~obj'.exists
          => series' \cap (WpaSeries(obj.spec) \cup SeriesOf(obj.spec, MetricNames(obj.spec))) = {}]_svars
    BY RemovalStep DEF Protected
<1> QED
    BY <1>1, SeriesLifecycle, LifecycleInvariance, PTL DEF SeriesSpec, FinalizedLeavesNothing
================================================================================
