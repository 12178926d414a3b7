----------------------------- MODULE PodReadiness -----------------------------
(***************************************************************************)
(* How the replica calculator counts the pods that the lister returns for  *)
(* the target's selector.  `pods` is a sequence of pods:                   *)
(*   owners    owner references, [kind, name]; a name is the sequence of   *)
(*             its parts between dashes                                    *)
(*   phase     the pod phase                                               *)
(*   cond      the status of the PodReady condition, "none" if absent      *)
(*   started   StartTime is set        deleting  DeletionTimestamp is set  *)
(*   recent    the condition changed less than readinessDelay ago          *)
(*   early     ... or before the pod had run for readinessDelay            *)
(*   metric    the pod's resource metric, NoMetric if there is none        *)
(***************************************************************************)
EXTENDS Integers, Sequences, FiniteSets, SequencesExt

NoMetric == -1

\* A ReplicaSet carries the name of its Deployment and a suffix.
OwnerName(o) ==
    IF o.kind = "ReplicaSet" /\ Len(o.name) > 1 THEN Front(o.name) ELSE o.name

checkOwnerRef(ownerRef, targetName) == \E o \in ownerRef : OwnerName(o) = targetName

Owned(pod, targetName, skipOwnerCheck) ==
    skipOwnerCheck \/ checkOwnerRef(pod.owners, targetName)

--------------------------------------------------------------------------------
(* External metrics and the recommender. *)

\* Mutant: pods of other workloads are counted.
TerminatedPods(pods, targetName, skipOwnerCheck) ==
    {i \in DOMAIN pods : pods[i].phase \in {"Failed", "Succeeded"}}

IncorrectPods(pods, targetName, skipOwnerCheck) ==
    {i \in DOMAIN pods : \/ ~Owned(pods[i], targetName, skipOwnerCheck)
                         \/ pods[i].phase \in {"Failed", "Succeeded"}}

ToleratedAsReady(pod) ==
    /\ pod.cond # "none" /\ pod.started /\ ~pod.deleting
    /\ \/ pod.phase = "Running" /\ pod.cond = "True"
       \/ pod.phase = "Pending" /\ pod.recent

\* Mutant: an incorrect pod may count as ready as well.
ReadyPodsCountedTwice(pods, targetName, skipOwnerCheck) ==
    [tolerated |-> Cardinality({i \in DOMAIN pods : ToleratedAsReady(pods[i])}),
     incorrect |-> Cardinality(IncorrectPods(pods, targetName, skipOwnerCheck))]

getReadyPodsCount(pods, targetName, skipOwnerCheck) ==
    LET incorrect == IncorrectPods(pods, targetName, skipOwnerCheck)
    IN  [tolerated |-> Cardinality({i \in DOMAIN pods \ incorrect : ToleratedAsReady(pods[i])}),
         incorrect |-> Cardinality(incorrect)]

--------------------------------------------------------------------------------
(* Resource metrics. *)

IgnoredForCPU(pod) ==
    pod.cond = "none" \/ ~pod.started \/ pod.cond = "False" \/ pod.early

\* A pod of somebody else, or one without a metric, is in neither set.
groupPods(pods, targetName, isCPU, skipOwnerCheck) ==
    LET own       == {i \in DOMAIN pods : Owned(pods[i], targetName, skipOwnerCheck)}
        discarded == {i \in own : pods[i].phase \in {"Failed", "Pending"}}
        measured  == {i \in own \ discarded : pods[i].metric # NoMetric}
        unready   == {i \in measured : isCPU /\ IgnoredForCPU(pods[i])}
    IN  [ready |-> measured \ unready, ignored |-> discarded \cup unready]

\* The metrics left once those of the ignored pods are removed.
removeMetricsForPods(pods, ignored) ==
    {i \in DOMAIN pods : pods[i].metric # NoMetric} \ ignored

\* The counts that the calculator works with.
CountPods(pods, targetName, isCPU, skipOwnerCheck) ==
    LET counts == getReadyPodsCount(pods, targetName, skipOwnerCheck)
        groups == groupPods(pods, targetName, isCPU, skipOwnerCheck)
    IN  [listed      |-> Len(pods),
         tolerated   |-> counts.tolerated,
         incorrect   |-> counts.incorrect,
         ready       |-> Cardinality(groups.ready),
         ignored     |-> Cardinality(groups.ignored),
         withMetrics |-> Cardinality(removeMetricsForPods(pods, groups.ignored))]
================================================================================
