----------------------------- MODULE WpaLifecycle -----------------------------
(***************************************************************************)
(* The front of Reconcile for one WatermarkPodAutoscaler: the watch that   *)
(* feeds the informer cache and the work queue, the finalizer, defaulting  *)
(* and the validity check, up to and including the call of reconcileWPA    *)
(* (whose inside is module Reconciler).                                    *)
(*                                                                         *)
(* Every change of the object is a new version, and the watch delivers the *)
(* versions in order; the event handler sees them after the cache has      *)
(* changed.  A copy read from the cache is the latest one when             *)
(* no version is under way, and stays so until somebody else writes.       *)
(***************************************************************************)
EXTENDS WpaSpec

CONSTANTS
    UserSpecs,    \* the specs users write
    MaxEdits,     \* bound on the number of user writes
    MaxLag,       \* bound on the number of versions the informer is behind
    MaxCrashes    \* bound on the number of crashes

ASSUME LifecycleAssumption ==
    /\ UserSpecs \subseteq CrdSchema
    /\ MaxEdits \in Nat /\ MaxLag \in Nat \ {0} /\ MaxCrashes \in Nat

VARIABLES
    obj,         \* the object in the API server, or Absent
    watch,       \* the versions that the informer has not received yet
    cache,       \* the informer's copy
    events,      \* the changes of the cache that the event handler has not seen yet
    queued,      \* the work queue holds the object, now or after a delay
    pc,          \* where the worker is
    inst,        \* the worker's instance
    instFresh,   \* ... is the latest version
    edits, crashes,
    judged       \* history: the specs that a reconciliation refused or admitted

vars == << obj, watch, cache, events, queued, pc, inst, instFresh, edits, crashes, judged >>

Absent == [exists |-> FALSE]

\* `reported` is what the status says: nothing yet, an invalid spec, or that the
\* WPA was processed.
NewObject(spec) ==
    [exists |-> TRUE, spec |-> spec, finalizer |-> FALSE, deleting |-> FALSE, reported |-> "none"]

Init ==
    /\ obj = Absent /\ watch = << >> /\ cache = Absent /\ events = << >>
    /\ queued = FALSE /\ pc = "idle" /\ inst = Absent /\ instFresh = FALSE
    /\ edits = 0 /\ crashes = 0 /\ judged = {}

\* A version of the object is stored and sent to the watchers.
Store(version) ==
    /\ Len(watch) + Len(events) < MaxLag
    /\ obj' = version
    /\ watch' = Append(watch, version)

--------------------------------------------------------------------------------
(* Users, the watch and crashes. *)

UserWrites(version) ==
    /\ edits < MaxEdits
    /\ Store(version)
    /\ edits' = edits + 1
    /\ instFresh' = FALSE
    /\ UNCHANGED << cache, events, queued, pc, inst, crashes, judged >>

Create == ~obj.exists /\ \E s \in UserSpecs : UserWrites(NewObject(s))

EditSpec ==
    /\ obj.exists
    /\ \E s \in UserSpecs \ {obj.spec} : UserWrites([obj EXCEPT !.spec = s])

\* An object with a finalizer is only marked.
Delete ==
    /\ obj.exists /\ ~obj.deleting
    /\ UserWrites(IF obj.finalizer THEN [obj EXCEPT !.deleting = TRUE] ELSE Absent)

\* Mutant: an update event reaches the queue only if the deletion mark has changed.
markPredicate(old, new) == new.deleting # old.deleting

\* An update event reaches the queue only if the spec has changed.
updatePredicate(old, new) == new.spec # old.spec

Enqueues(old, new) == old.exists /\ new.exists => updatePredicate(old, new)

\* The predicate also cleans up the series of the old spec, on the informer's goroutine.
PredicatePanics(old, new) ==
    old.exists /\ new.exists /\ updatePredicate(old, new) /\ CleanupPanics(old.spec)

\* The watch delivers a version to the cache ...
Deliver ==
    /\ watch # << >>
    /\ cache' = Head(watch) /\ watch' = Tail(watch)
    /\ events' = Append(events, [old |-> cache, new |-> Head(watch)])
    /\ UNCHANGED << obj, queued, pc, inst, instFresh, edits, crashes, judged >>

\* ... and then the event handler gets the change, on a goroutine of its own.
Handle ==
    /\ events # << >>
    /\ ~PredicatePanics(Head(events).old, Head(events).new)
    /\ events' = Tail(events)
    /\ queued' = (queued \/ Enqueues(Head(events).old, Head(events).new))
    /\ UNCHANGED << obj, watch, cache, pc, inst, instFresh, edits, crashes, judged >>

\* A new process lists the objects, and every object it finds is queued.
Restart ==
    /\ cache' = obj /\ watch' = << >> /\ events' = << >> /\ queued' = obj.exists
    /\ pc' = "idle" /\ inst' = Absent /\ instFresh' = FALSE
    /\ UNCHANGED << obj, edits, judged >>

Crash ==
    /\ crashes < MaxCrashes
    /\ Restart
    /\ crashes' = crashes + 1

\* Nothing recovers a panic of an event handler.
HandlePanics ==
    /\ events # << >>
    /\ PredicatePanics(Head(events).old, Head(events).new)
    /\ Restart
    /\ UNCHANGED crashes

--------------------------------------------------------------------------------
(* The worker. *)

\* Reconcile returns; it asks to be called again or not.
Return(requeue) ==
    /\ pc' = "idle" /\ inst' = Absent /\ instFresh' = FALSE
    /\ queued' = (queued \/ requeue)

\* The queue hands out the object; one that is not in the cache is forgotten.
Get ==
    /\ pc = "idle" /\ queued
    /\ queued' = FALSE
    /\ inst' = cache /\ instFresh' = (cache.exists /\ watch = << >>)
    /\ pc' = IF cache.exists THEN "fetched" ELSE "idle"
    /\ UNCHANGED << obj, watch, cache, events, edits, crashes, judged >>

\* finalizeWPA, then the finalizer is removed and with it the object.
Finalize ==
    /\ pc = "fetched" /\ inst.deleting
    /\ ~CleanupPanics(inst.spec) /\ instFresh
    /\ Store(Absent)
    /\ Return(FALSE)
    /\ UNCHANGED << cache, events, edits, crashes, judged >>

\* The update is refused, or the panic of the clean-up is recovered from: in both
\* cases the error puts the object back into the queue.
FinalizeFails ==
    /\ pc = "fetched" /\ inst.deleting
    /\ CleanupPanics(inst.spec) \/ ~instFresh
    /\ Return(TRUE)
    /\ UNCHANGED << obj, watch, cache, events, edits, crashes, judged >>

\* The finalizer is added, and the instance takes the version that was written.
addFinalizer ==
    /\ pc = "fetched" /\ ~inst.deleting /\ ~inst.finalizer
    /\ instFresh
    /\ Store([inst EXCEPT !.finalizer = TRUE])
    /\ inst' = [inst EXCEPT !.finalizer = TRUE]
    /\ pc' = "protected"
    /\ UNCHANGED << cache, events, queued, instFresh, edits, crashes, judged >>

\* Mutant: the refused finalizer is logged and the reconciliation goes on.
addFinalizerLogged ==
    /\ pc = "fetched" /\ ~inst.deleting /\ ~inst.finalizer
    /\ ~instFresh
    /\ pc' = "protected"
    /\ UNCHANGED << obj, watch, cache, events, queued, inst, instFresh, edits, crashes, judged >>

addFinalizerFails ==
    /\ pc = "fetched" /\ ~inst.deleting /\ ~inst.finalizer
    /\ ~instFresh
    /\ Return(TRUE)
    /\ UNCHANGED << obj, watch, cache, events, edits, crashes, judged >>

HasFinalizer ==
    /\ pc = "fetched" /\ ~inst.deleting /\ inst.finalizer
    /\ pc' = "protected"
    /\ UNCHANGED << obj, watch, cache, events, queued, inst, instFresh, edits, crashes, judged >>

\* Mutant: the defaults are written over whatever version is stored.
ApplyDefaultsBlindly ==
    /\ pc = "protected" /\ ~IsDefaultWatermarkPodAutoscaler(inst.spec)
    /\ obj.exists
    /\ Store([inst EXCEPT !.spec = DefaultWatermarkPodAutoscaler(@)])
    /\ Return(TRUE)
    /\ UNCHANGED << cache, events, edits, crashes, judged >>

\* The defaults are written, and shown to the next reconciliation.
ApplyDefaults ==
    /\ pc = "protected" /\ ~IsDefaultWatermarkPodAutoscaler(inst.spec)
    /\ instFresh
    /\ Store([inst EXCEPT !.spec = DefaultWatermarkPodAutoscaler(@)])
    /\ Return(TRUE)
    /\ UNCHANGED << cache, events, edits, crashes, judged >>

ApplyDefaultsFails ==
    /\ pc = "protected" /\ ~IsDefaultWatermarkPodAutoscaler(inst.spec)
    /\ ~instFresh
    /\ Return(TRUE)
    /\ UNCHANGED << obj, watch, cache, events, edits, crashes, judged >>

\* updateStatusIfNeeded, as the last thing a reconciliation does: the status is the
\* same, it is written, or the write is refused.
UpdateStatus(reported, requeue) ==
    \/ /\ inst.reported = reported
       /\ Return(requeue)
       /\ UNCHANGED << obj, watch >>
    \/ /\ inst.reported # reported /\ instFresh
       /\ Store([obj EXCEPT !.reported = reported])
       /\ Return(requeue)
    \/ /\ inst.reported # reported /\ ~instFresh
       /\ Return(TRUE)
       /\ UNCHANGED << obj, watch >>

\* An invalid spec is reported and the object is not queued again.
RejectInvalid ==
    /\ pc = "protected" /\ IsDefaultWatermarkPodAutoscaler(inst.spec)
    /\ ~CheckWPAValidity(inst.spec)
    /\ UpdateStatus("invalid", FALSE)
    /\ judged' = judged \cup {inst.spec}
    /\ UNCHANGED << cache, events, edits, crashes >>

Admit ==
    /\ pc = "protected" /\ IsDefaultWatermarkPodAutoscaler(inst.spec)
    /\ CheckWPAValidity(inst.spec)
    /\ inst' = [inst EXCEPT !.spec = fillMissingWatermark(@)]
    /\ judged' = judged \cup {inst.spec}
    /\ pc' = "reconcile"
    /\ UNCHANGED << obj, watch, cache, events, queued, instFresh, edits, crashes >>

\* Mutant: a processed WPA is not queued again.
reconcileOnce ==
    /\ pc = "reconcile"
    /\ UpdateStatus("processed", FALSE)
    /\ UNCHANGED << cache, events, edits, crashes, judged >>

\* reconcileWPA, or the monitor that blocks it: whatever happens, the object is
\* queued again.
reconcileWPA ==
    /\ pc = "reconcile"
    /\ UpdateStatus("processed", TRUE)
    /\ UNCHANGED << cache, events, edits, crashes, judged >>

Worker ==
    \/ Get \/ Finalize \/ FinalizeFails \/ addFinalizer \/ addFinalizerFails \/ HasFinalizer
    \/ ApplyDefaults \/ ApplyDefaultsFails \/ RejectInvalid \/ Admit \/ reconcileWPA

Next == Create \/ EditSpec \/ Delete \/ Deliver \/ Handle \/ HandlePanics \/ Crash \/ Worker

Spec == Init /\ [][Next]_vars

\* The watch delivers, the event handler and the queue's workers run.
Fairness == WF_vars(Deliver) /\ WF_vars(Handle \/ HandlePanics) /\ WF_vars(Worker)

--------------------------------------------------------------------------------
(* Properties. *)

\* While the controller acts for a WPA, the object in the API server carries the
\* finalizer, so that it cannot disappear under the worker: whatever the cache shows,
\* an object without it is written first (handleFinalizer).
FinalizerHeld ==
    pc \in {"protected", "reconcile"} => obj.exists /\ obj.finalizer

\* reconcileWPA only ever works on specs for which the rules and the calculator are
\* defined (CheckWPAValidity and fillMissingWatermark, on top of the CRD's schema).
AdmittedSpecIsUsable == pc = "reconcile" => SpecType(inst.spec)

\* The controller never takes back what a user wrote: it changes the spec only by
\* filling in the defaults of the spec that is stored at that moment (the version
\* check of the Update in Reconcile).
UserEditsSurvive ==
    [][obj.exists /\ obj'.exists /\ obj'.spec # obj.spec /\ edits' = edits
          => obj'.spec = DefaultWatermarkPodAutoscaler(obj.spec)]_vars

Doomed == obj.exists /\ obj.deleting

WellFormed(spec) == CheckWPAValidity(DefaultWatermarkPodAutoscaler(spec))

\* The version that the informer has before the i-th one of the watch.
Before(i) == IF i = 1 THEN cache ELSE watch[i - 1]

\* A change is under way that will reach the queue.
WakeUpUnderWay ==
    \/ \E i \in 1..Len(events) : Enqueues(events[i].old, events[i].new)
    \/ \E i \in 1..Len(watch) : Enqueues(Before(i), watch[i])

\* No wake-up is lost: a WPA that is valid, or whose spec no reconciliation has judged
\* yet, is in the queue, at work, or a change is under way that will put it there,
\* although only changes of the spec do, the worker may have read an older or a newer
\* version than the event handler has seen, and every refused write sends it back to the
\* queue (updatePredicate, the results of Reconcile).
NoWakeUpIsLost ==
    obj.exists /\ (obj.spec \notin judged \/ WellFormed(obj.spec)) =>
        \/ queued \/ WakeUpUnderWay
        \/ pc \in {"fetched", "protected"} /\ inst.spec = obj.spec
        \/ pc = "reconcile"

\* A WPA whose spec is valid, deleted by its user, is gone in the end (handleFinalizer,
\* and the requeue that every reconciliation of a valid WPA asks for).
DeletionCompletes == (Doomed /\ WellFormed(obj.spec)) ~> ~(Doomed /\ WellFormed(obj.spec))

\* Every deleted WPA is gone in the end (finalizer.go: once all finalizers have been
\* removed, the object will be deleted).
DeletionAlwaysCompletes == Doomed ~> ~Doomed

\* Every spec that stays is refused or admitted by a reconciliation: after a refusal
\* that is not queued again, the update event of a later edit is enough (Reconcile,
\* updatePredicate), and defaulting ends.
EverySpecIsJudged ==
    (obj.exists /\ ~obj.deleting) ~> (~obj.exists \/ obj.deleting \/ obj.spec \in judged)
================================================================================
