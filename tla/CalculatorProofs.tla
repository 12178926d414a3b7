--------------------------- MODULE CalculatorProofs ---------------------------
(***************************************************************************)
(* Proofs about the proposals of the replica calculator, for every spec,   *)
(* target, list of pods and metric value, and for either platform's        *)
(* conversion to int32.                                                    *)
(***************************************************************************)
EXTENDS Calculator, ReplicaCalculatorProofs, FiniteSetTheorems, WellFoundedInduction

--------------------------------------------------------------------------------
(* The inductive invariant. *)

\* What the calculator was called with.
Called ==
    /\ spec \in Specs /\ scale \in Scales /\ pods \in PodLists
    /\ values \in [DOMAIN spec.metrics -> Values]
    /\ spec.recommender => reco \in Recommendations
    /\ ~spec.recommender => reco = [replicas |-> 0, lower |-> 0, upper |-> 0]

\* A proposal is one that computeReplicas returns for what it was called with.
ResultIsComputed == Proposed => result \in computeReplicas(spec, scale, Reading)

CalcInv == Called /\ ResultIsComputed

--------------------------------------------------------------------------------
(* Sums.  The fold is a recursive function over the subsets of its indices; that there *)
(* is one, that there is only one, and that its values are naturals, is shown of a     *)
(* minimal set for which it would not hold.                                            *)

\* Among subsets of a finite set there is a minimal one.
LEMMA MinimalSubset ==
    ASSUME NEW S, IsFiniteSet(S), NEW F, F \subseteq SUBSET S, F # {}
    PROVE  \E T \in F : \A U \in F : U \subseteq T => U = T
<1>1. \A T \in SUBSET S : IsFiniteSet(T)
    BY FS_Subset
<1>2. F \subseteq FiniteSubsetsOf(S)
    BY <1>1 DEF FiniteSubsetsOf
<1>3. PICK T \in F : \A U \in F : ~(<<U, T>> \in StrictSubsetOrdering(S))
    BY <1>2, FS_StrictSubsetOrderingWellFounded, WFMin
<1> QED
    BY <1>3 DEF StrictSubsetOrdering

\* The index that the fold takes next, and those it leaves.
Next1(s) == CHOOSE x \in s : TRUE
Rest(s) == s \ {Next1(s)}

\* g is the sum of fun on the subsets of S.
IsSum(g, fun, S) ==
    \A s \in SUBSET S : g[s] = IF s = {} THEN 0 ELSE fun[Next1(s)] + g[Rest(s)]

\* What is left is smaller.
LEMMA RestIsSmaller ==
    ASSUME NEW s, s # {}
    PROVE  Next1(s) \in s /\ Rest(s) \subseteq s /\ Rest(s) # s
BY DEF Next1, Rest

\* Two sums agree where both are defined.
LEMMA SumUnique ==
    ASSUME NEW S, IsFiniteSet(S), NEW fun, NEW T \in SUBSET S, NEW U \in SUBSET S,
           NEW g, NEW h, IsSum(g, fun, T), IsSum(h, fun, U)
    PROVE  \A s \in SUBSET (T \cap U) : g[s] = h[s]
<1> DEFINE F == {s \in SUBSET (T \cap U) : g[s] # h[s]}
<1> SUFFICES ASSUME F # {} PROVE FALSE
    OBVIOUS
<1>1. PICK s \in F : \A u \in F : u \subseteq s => u = s
    <2>1. F \subseteq SUBSET S
        OBVIOUS
    <2> HIDE DEF F
    <2> QED
        BY <2>1, MinimalSubset
<1>2. s # {}
    BY <1>1 DEF IsSum
<1>3. Rest(s) \in SUBSET (T \cap U) /\ g[Rest(s)] = h[Rest(s)]
    BY <1>1, <1>2, RestIsSmaller
<1> QED
    BY <1>1, <1>2, <1>3 DEF IsSum

\* There is a sum, and its values are naturals.
LEMMA SumExists ==
    ASSUME NEW S, IsFiniteSet(S), NEW fun, \A i \in S : fun[i] \in Nat
    PROVE  \E g \in [SUBSET S -> Nat] : IsSum(g, fun, S)
<1> DEFINE Has(T) == \E g \in [SUBSET T -> Nat] : IsSum(g, fun, T)
           F == {T \in SUBSET S : ~Has(T)}
<1> SUFFICES ASSUME ~Has(S) PROVE FALSE
    OBVIOUS
<1>1. PICK T \in F : \A U \in F : U \subseteq T => U = T
    <2>1. F \subseteq SUBSET S /\ S \in F
        OBVIOUS
    <2> HIDE DEF F
    <2> QED
        BY <2>1, MinimalSubset
\* The sum on a smaller set, and the sum on T that is made of those.
<1> DEFINE H(U) == CHOOSE g \in [SUBSET U -> Nat] : IsSum(g, fun, U)
           G == [s \in SUBSET T |-> IF s = {} THEN 0 ELSE fun[Next1(s)] + H(Rest(s))[Rest(s)]]
<1>2. \A U \in SUBSET T : U # T => H(U) \in [SUBSET U -> Nat] /\ IsSum(H(U), fun, U)
    BY <1>1
<1>3. \A s \in SUBSET T : s # {} => Next1(s) \in s /\ Rest(s) \in SUBSET s /\ Rest(s) # T
    BY RestIsSmaller
<1> HIDE DEF H, Has, F
<1>4. G \in [SUBSET T -> Nat]
    <2>1. ASSUME NEW s \in SUBSET T, s # {}
          PROVE  fun[Next1(s)] + H(Rest(s))[Rest(s)] \in Nat
        <3>1. fun[Next1(s)] \in Nat
            BY <1>1, <1>3, <2>1 DEF F
        <3>2. H(Rest(s)) \in [SUBSET Rest(s) -> Nat] /\ Rest(s) \in SUBSET Rest(s)
            BY <1>2, <1>3, <2>1
        <3>3. H(Rest(s))[Rest(s)] \in Nat
            BY <3>2
        <3> QED
            BY <3>1, <3>3
    <2> QED
        BY <2>1
<1>5. IsSum(G, fun, T)
    <2> SUFFICES ASSUME NEW s \in SUBSET T, s # {}
                 PROVE  G[s] = fun[Next1(s)] + G[Rest(s)]
        BY DEF IsSum
    <2> DEFINE u == Rest(s)
               v == Rest(u)
    <2>1. G[s] = fun[Next1(s)] + H(u)[u]
        OBVIOUS
    <2>2. u \in SUBSET T /\ u # T /\ u \in SUBSET u
        BY <1>3
    <2>3. CASE u = {}
        BY <1>2, <2>1, <2>2, <2>3 DEF IsSum
    <2>4. CASE u # {}
        <3>1. v \in SUBSET u /\ v \in SUBSET T /\ v # T
            BY <1>3, <2>2, <2>4
        <3>2. H(u)[u] = fun[Next1(u)] + H(u)[v]
            BY <1>2, <2>2, <2>4 DEF IsSum
        <3>3. G[u] = fun[Next1(u)] + H(v)[v]
            BY <2>2, <2>4
        <3>4. H(u)[v] = H(v)[v]
            <4>1. IsSum(H(u), fun, u) /\ IsSum(H(v), fun, v) /\ u \in SUBSET S /\ v \in SUBSET S
                BY <1>1, <1>2, <2>2, <3>1 DEF F
            <4>2. v \in SUBSET (u \cap v)
                BY <3>1
            <4> HIDE DEF u, v
            <4> QED
                BY <4>1, <4>2, SumUnique
        <3> QED
            BY <2>1, <3>2, <3>3, <3>4
    <2> QED
        BY <2>3, <2>4
<1>6. Has(T)
    BY <1>4, <1>5 DEF Has
<1> QED
    BY <1>1, <1>6 DEF F

\* The sum of naturals is a natural.
LEMMA SumType ==
    ASSUME NEW S, IsFiniteSet(S), NEW fun, \A i \in S : fun[i] \in Nat
    PROVE  SumFunctionOnSet(fun, S) \in Nat
<1> DEFINE E(g) == [s \in SUBSET S |-> IF s = {} THEN 0 ELSE fun[Next1(s)] + g[Rest(s)]]
           iter == CHOOSE g : g = E(g)
<1>1. PICK g \in [SUBSET S -> Nat] : IsSum(g, fun, S)
    BY SumExists
<1>2. g = E(g)
    BY <1>1 DEF IsSum
<1>3. iter = E(iter)
    BY <1>2
<1>4. IsSum(iter, fun, S)
    BY <1>3 DEF IsSum
<1>5. iter[S] = g[S]
    BY <1>1, <1>4, SumUnique
<1>6. SumFunctionOnSet(fun, S) = iter[S]
    BY DEF SumFunctionOnSet, FoldFunctionOnSet, MapThenFoldSet, Next1, Rest
<1> QED
    BY <1>1, <1>5, <1>6

--------------------------------------------------------------------------------
(* Facts about the inputs. *)

\* The pods are finitely many, and their metrics add up to a natural.
LEMMA PodFacts ==
    ASSUME NEW list \in PodLists
    PROVE  /\ IsFiniteSet(DOMAIN list) /\ Cardinality(DOMAIN list) = Len(list)
           /\ ResourceSum(list) \in Nat
<1>1. /\ Len(list) \in Nat /\ DOMAIN list = 1..Len(list)
      /\ \A i \in DOMAIN list : list[i].metric \in Nat \cup {NoMetric}
    BY CalculatorAssumption
<1>2. IsFiniteSet(DOMAIN list) /\ Cardinality(DOMAIN list) = Len(list)
    <2> DEFINE n == Len(list)
    <2>1. n \in Nat /\ 1 \in Int /\ DOMAIN list = 1..n
        BY <1>1
    <2> HIDE DEF n
    <2>2. IsFiniteSet(1..n) /\ Cardinality(1..n) = IF 1 > n THEN 0 ELSE n - 1 + 1
        BY <2>1, FS_Interval
    <2>3. IsFiniteSet(DOMAIN list) /\ Cardinality(DOMAIN list) = n
        BY <2>1, <2>2
    <2> QED
        BY <2>3 DEF n
<1> DEFINE counted == removeMetricsForPods(list, groupPods(list, TargetName, TRUE, FALSE).ignored)
           fun == [i \in DOMAIN list |-> list[i].metric]
<1>3. counted \subseteq DOMAIN list /\ \A i \in counted : list[i].metric # NoMetric
    BY DEF removeMetricsForPods
<1> HIDE DEF counted
<1>4. IsFiniteSet(counted) /\ \A i \in counted : fun[i] \in Nat
    BY <1>1, <1>2, <1>3, FS_Subset
<1>5. ResourceSum(list) = SumFunctionOnSet(fun, counted)
    BY DEF ResourceSum, counted
<1> HIDE DEF fun
<1> QED
    BY <1>2, <1>4, <1>5, SumType

\* The counts of pods and the sums that the calculator works with are naturals
\* (getReadyPodsCount, groupPods, removeMetricsForPods).
LEMMA ReadingFacts ==
    ASSUME Called
    PROVE  /\ Reading.pods.tolerated \in Nat /\ Reading.pods.ready \in Nat
           /\ \A i \in DOMAIN spec.metrics : Reading.sums[i] \in Nat
<1>1. IsFiniteSet(DOMAIN pods) /\ ResourceSum(pods) \in Nat
    BY PodFacts DEF Called
<1>2. \A S : S \subseteq DOMAIN pods => Cardinality(S) \in Nat
    BY <1>1, FS_Subset, FS_CardinalityType
<1>3. Reading.pods.tolerated \in Nat
    <2> DEFINE T == {i \in DOMAIN pods \ IncorrectPods(pods, TargetName, FALSE) :
                        ToleratedAsReady(pods[i])}
    <2>1. Reading.pods.tolerated = Cardinality(T)
        BY DEF Reading, ReadingOf, CountPods, getReadyPodsCount
    <2>2. T \subseteq DOMAIN pods
        OBVIOUS
    <2> HIDE DEF T
    <2> QED
        BY <1>2, <2>1, <2>2
<1>4. Reading.pods.ready \in Nat
    <2> DEFINE T == groupPods(pods, TargetName, TRUE, FALSE).ready
    <2>1. Reading.pods.ready = Cardinality(T)
        BY DEF Reading, ReadingOf, CountPods
    <2>2. T \subseteq DOMAIN pods
        BY DEF groupPods
    <2> HIDE DEF T
    <2> QED
        BY <1>2, <2>1, <2>2
<1>5. ASSUME NEW i \in DOMAIN spec.metrics
      PROVE  Reading.sums[i] \in Nat
    <2>1. values[i] \in Nat
        BY CalculatorAssumption DEF Called
    <2>2. Reading.sums[i] = IF spec.metrics[i].type = "External" THEN values[i] ELSE ResourceSum(pods)
        BY DEF Reading, ReadingOf
    <2> QED
        BY <1>1, <2>1, <2>2
<1> QED
    BY <1>3, <1>4, <1>5

Metric(i) == MetricCalculation(spec, scale, Reading, i)

\* The number of ready replicas that a metric goes with.
ReadyFor(i) ==
    IF spec.metrics[i].type = "External" THEN CurrentReady(scale, Reading.pods)
    ELSE Reading.pods.ready

\* What a metric proposes, if it is computed, comes from its usage, or it is 0 and not
\* tolerated (GetExternalMetricReplicas, GetResourceReplicas).
LEMMA MetricFacts ==
    ASSUME Called, NEW i \in DOMAIN spec.metrics
    PROVE  /\ ReadyFor(i) \in Nat
           /\ \/ Metric(i) = Failed
              \/ /\ Metric(i) = ZeroNotTolerated(ReadyFor(i))
                 /\ spec.metrics[i].type = "External" /\ Reading.sums[i] = 0 /\ ~spec.tolerateZero
              \/ Metric(i) = getReplicaCount(scale.spec, ReadyFor(i), spec,
                                 Usage(spec, Reading.sums[i], ReadyFor(i)),
                                 spec.metrics[i].low, spec.metrics[i].high)
<1>1. Reading.pods.tolerated \in Nat /\ Reading.pods.ready \in Nat
    BY ReadingFacts
<1>2. scale.status \in Nat
    BY CalculatorAssumption DEF Called
<1>3. ReadyFor(i) \in Nat
    BY <1>1, <1>2 DEF ReadyFor, CurrentReady, Min32
<1> QED
    BY <1>3 DEF Metric, ReadyFor, MetricCalculation, GetExternalMetricReplicas, GetResourceReplicas

\* The inputs of getReplicaCount are as its lemmas need them.
LEMMA InputFacts ==
    ASSUME Called, NEW i \in DOMAIN spec.metrics
    PROVE  /\ SpecType(spec) /\ scale.spec \in Nat \ {0} /\ ReadyFor(i) \in Nat
           /\ Usage(spec, Reading.sums[i], ReadyFor(i)).num = Reading.sums[i]
           /\ Reading.sums[i] \in Nat
           /\ Usage(spec, Reading.sums[i], ReadyFor(i)).den \in Nat
           /\ ReadyFor(i) > 0 => Usage(spec, Reading.sums[i], ReadyFor(i)).den > 0
           /\ spec.metrics[i].low \in Nat /\ spec.metrics[i].high \in Nat
<1>1. SpecType(spec) /\ scale.spec \in Nat \ {0}
    BY CalculatorAssumption DEF Called
<1>2. ReadyFor(i) \in Nat /\ Reading.sums[i] \in Nat
    BY MetricFacts, ReadingFacts
<1>3. spec.metrics[i].low \in Nat /\ spec.metrics[i].high \in Nat
    BY <1>1 DEF SpecType
<1> QED
    BY <1>1, <1>2, <1>3 DEF Usage

--------------------------------------------------------------------------------
(* From the metrics to the proposal. *)

\* Every metric's proposal is an integer and on the right side of the current count.
LEMMA MetricDirection ==
    ASSUME Called, NEW i \in DOMAIN spec.metrics
    PROVE  /\ Metric(i).replicaCount \in Int
           /\ Metric(i).isAbove => Metric(i).replicaCount >= scale.spec
           /\ Metric(i).isBelow => Metric(i).replicaCount <= scale.spec
<1> DEFINE usage == Usage(spec, Reading.sums[i], ReadyFor(i))
           g == getReplicaCount(scale.spec, ReadyFor(i), spec, usage,
                                spec.metrics[i].low, spec.metrics[i].high)
<1>1. /\ SpecType(spec) /\ scale.spec \in Nat /\ ReadyFor(i) \in Nat
      /\ usage.num \in Nat /\ usage.den \in Nat
      /\ spec.metrics[i].low \in Nat /\ spec.metrics[i].high \in Nat
    BY InputFacts
<1> HIDE DEF usage
<1>2. /\ g.replicaCount \in Int
      /\ g.isAbove => g.replicaCount >= scale.spec
      /\ g.isBelow => g.replicaCount <= scale.spec
    BY <1>1, ReplicaCountType, RightDirection DEF IsCalculation
<1> HIDE DEF g
<1>3. Metric(i) = Failed \/ Metric(i) = ZeroNotTolerated(ReadyFor(i)) \/ Metric(i) = g
    BY MetricFacts DEF g, usage
<1> QED
    BY <1>1, <1>2, <1>3 DEF Failed, ZeroNotTolerated, Calculation

\* The proposal is that of a metric, and no metric with a proposal above 0 has a greater
\* one; its position is that of the metrics (computeReplicasForMetrics).
LEMMA ProposalFacts ==
    ASSUME CalcInv, Proposed, ~spec.recommender, spec.metrics # << >>
    PROVE  /\ \E i \in DOMAIN spec.metrics :
                 /\ Metric(i).ok /\ Proposal = Metric(i).replicaCount
                 /\ result.readyReplicas = Metric(i).readyReplicas
                 /\ \A j \in DOMAIN spec.metrics :
                       Metric(j).replicaCount > 0 => Metric(j).replicaCount <= Proposal
           /\ result.isAbove = \E j \in DOMAIN spec.metrics : Metric(j).isAbove
           /\ result.isBelow = \E j \in DOMAIN spec.metrics : Metric(j).isBelow
<1> DEFINE C == [i \in DOMAIN spec.metrics |-> Metric(i)]
           kept == {k \in DOMAIN C : ~Superseded(C, k)}
<1>1. DOMAIN C = DOMAIN spec.metrics /\ \A i \in DOMAIN spec.metrics : C[i] = Metric(i)
    OBVIOUS
<1>2. DOMAIN spec.metrics \subseteq Int
    BY CalculatorAssumption DEF CalcInv, Called
<1>3. result \in computeReplicasForMetrics(spec, scale, Reading)
    BY DEF CalcInv, ResultIsComputed, computeReplicas
<1>4. PICK i \in kept :
         /\ \A j \in DOMAIN C : C[j].ok
         /\ \A j \in kept : C[j].replicaCount <= C[i].replicaCount
         /\ result = Calculation(C[i].replicaCount, C[i].readyReplicas,
                         \E j \in DOMAIN C : C[j].isAbove, \E j \in DOMAIN C : C[j].isBelow)
    BY <1>3, Zenon DEF computeReplicasForMetrics, Metric
<1> HIDE DEF C
<1>5. ASSUME NEW j \in DOMAIN C, C[j].replicaCount > 0
      PROVE  j \in kept
    <2>1. C[j].replicaCount \in Int
        BY <1>1, MetricDirection DEF CalcInv
    <2>2. ~(C[j].replicaCount <= 0)
        BY <1>5, <2>1
    <2>3. \A z \in j..(Len(C) - 1) : j \in 1..z
        <3>1. j \in Int /\ j >= 1
            BY <1>1, CalculatorAssumption DEF CalcInv, Called
        <3> QED
            BY <3>1
    <2> QED
        BY <2>2, <2>3, Zenon DEF Superseded
<1>6. /\ result.replicaCount = C[i].replicaCount /\ result.readyReplicas = C[i].readyReplicas
      /\ result.isAbove = \E j \in DOMAIN C : C[j].isAbove
      /\ result.isBelow = \E j \in DOMAIN C : C[j].isBelow
    BY <1>4, Zenon DEF Calculation
<1>7. i \in DOMAIN spec.metrics /\ C[i] = Metric(i)
    BY <1>1, <1>4
<1>8. \A j \in DOMAIN spec.metrics :
         Metric(j).replicaCount > 0 => Metric(j).replicaCount <= Metric(i).replicaCount
    BY <1>1, <1>4, <1>5, <1>7, Zenon
<1>9. /\ result.isAbove = \E j \in DOMAIN spec.metrics : Metric(j).isAbove
      /\ result.isBelow = \E j \in DOMAIN spec.metrics : Metric(j).isBelow
    BY <1>1, <1>6, Zenon
<1>10. /\ Metric(i).ok /\ Proposal = Metric(i).replicaCount
       /\ result.readyReplicas = Metric(i).readyReplicas
    BY <1>1, <1>4, <1>6, <1>7, Zenon DEF Proposal
<1> QED
    BY <1>7, <1>8, <1>9, <1>10, Zenon

\* With one metric, the proposal is that of the metric.
LEMMA SingleFacts ==
    ASSUME CalcInv, Single
    PROVE  /\ 1 \in DOMAIN spec.metrics /\ ~spec.recommender /\ Metric(1).ok
           /\ Proposal = Metric(1).replicaCount /\ result.readyReplicas = Metric(1).readyReplicas
           /\ result.isAbove = Metric(1).isAbove /\ result.isBelow = Metric(1).isBelow
<1>1. spec.metrics # << >> /\ DOMAIN spec.metrics = {1} /\ ~spec.recommender
    <2>1. /\ spec.metrics \in Seq([type : {"External", "Resource"}, low : Nat, high : Nat])
          /\ Len(spec.metrics) = 1 /\ (spec.recommender => spec.metrics = << >>)
        BY CalculatorAssumption, Zenon DEF CalcInv, Called, Single
    <2>2. DOMAIN spec.metrics = 1..1 /\ spec.metrics # << >>
        BY <2>1
    <2>3. 1..1 = {1}
        OBVIOUS
    <2> QED
        BY <2>1, <2>2, <2>3
<1>2. /\ \E i \in DOMAIN spec.metrics :
            /\ Metric(i).ok /\ Proposal = Metric(i).replicaCount
            /\ result.readyReplicas = Metric(i).readyReplicas
      /\ result.isAbove = \E j \in DOMAIN spec.metrics : Metric(j).isAbove
      /\ result.isBelow = \E j \in DOMAIN spec.metrics : Metric(j).isBelow
    BY <1>1, ProposalFacts DEF Single
<1>3. Metric(1).isAbove \in BOOLEAN /\ Metric(1).isBelow \in BOOLEAN
    <2> DEFINE g == getReplicaCount(scale.spec, ReadyFor(1), spec,
                        Usage(spec, Reading.sums[1], ReadyFor(1)),
                        spec.metrics[1].low, spec.metrics[1].high)
    <2>1. g.isAbove \in BOOLEAN /\ g.isBelow \in BOOLEAN
        BY DEF getReplicaCount, Calculation
    <2>2. Metric(1) = Failed \/ Metric(1) = ZeroNotTolerated(ReadyFor(1)) \/ Metric(1) = g
        BY <1>1, MetricFacts DEF CalcInv
    <2> HIDE DEF g
    <2>3. /\ Failed.isAbove = FALSE /\ Failed.isBelow = FALSE
          /\ ZeroNotTolerated(ReadyFor(1)).isAbove = FALSE
          /\ ZeroNotTolerated(ReadyFor(1)).isBelow = FALSE
        BY DEF Failed, ZeroNotTolerated, Calculation
    <2> QED
        BY <2>1, <2>2, <2>3, Zenon
<1> QED
    BY <1>1, <1>2, <1>3, Zenon

--------------------------------------------------------------------------------
(* Theorems. *)

\* What was proposed is what computeReplicas returns for what it was called with.
THEOREM CalculatorInvariance == Spec => []CalcInv
<1>1. Init => CalcInv
    BY DEF Init, CalcInv, Called, ResultIsComputed, Proposed
<1>2. CalcInv /\ [Compute]_vars => CalcInv'
    <2> SUFFICES ASSUME CalcInv, [Compute]_vars PROVE CalcInv'
        OBVIOUS
    <2>1. UNCHANGED << spec, scale, pods, values, reco >>
        BY DEF Compute, vars
    <2>2. Called' /\ Reading' = Reading
        BY <2>1 DEF CalcInv, Called, Reading, ReadingOf
    <2>3. ResultIsComputed'
        BY <2>1, <2>2 DEF CalcInv, ResultIsComputed, Proposed, Compute, Panics, Fails, Proposes, vars
    <2> QED
        BY <2>2, <2>3 DEF CalcInv
<1> QED
    BY <1>1, <1>2, PTL DEF Spec

\* With a metric above its high watermark the proposal is not below the current count,
\* and with the only metric below its low watermark not above it, even when the
\* quotient has no int32 (computeReplicasForMetrics).
THEOREM DirectionTheorem == Spec => []NeverAgainstTheMetric
<1>1. CalcInv => NeverAgainstTheMetric
    <2> SUFFICES ASSUME CalcInv, Proposed, ~spec.recommender
                 PROVE  /\ result.isAbove => Proposal >= scale.spec
                        /\ (result.isBelow /\ Len(spec.metrics) = 1) => Proposal <= scale.spec
        BY DEF NeverAgainstTheMetric
    <2>1. scale.spec \in Nat \ {0} /\ \A i \in DOMAIN spec.metrics : Metric(i).replicaCount \in Int
        BY CalculatorAssumption, MetricDirection DEF CalcInv, Called
    <2>2. ASSUME result.isAbove
          PROVE  Proposal >= scale.spec
        <3>1. spec.metrics # << >>
            BY <2>2 DEF CalcInv, ResultIsComputed, computeReplicas, computeReplicasForMetrics,
                        Calculation
        <3>2. PICK j \in DOMAIN spec.metrics : Metric(j).isAbove
            BY <2>2, <3>1, ProposalFacts
        <3>3. Metric(j).replicaCount >= scale.spec
            BY <3>2, MetricDirection DEF CalcInv
        <3>4. Metric(j).replicaCount > 0
            BY <2>1, <3>3
        <3>5. Metric(j).replicaCount <= Proposal /\ Proposal \in Int
            BY <2>1, <3>1, <3>4, ProposalFacts
        <3> QED
            BY <2>1, <3>3, <3>5
    <2>3. ASSUME result.isBelow, Len(spec.metrics) = 1
          PROVE  Proposal <= scale.spec
        <3>1. Single
            BY <2>3 DEF Single
        <3> QED
            BY <2>3, <3>1, SingleFacts, MetricDirection DEF CalcInv
    <2> QED
        BY <2>2, <2>3
<1> QED
    BY <1>1, CalculatorInvariance, PTL

\* What one metric proposes is what getReplicaCount makes of the load.
LEMMA SingleProposal ==
    ASSUME CalcInv, Single, result.readyReplicas > 0,
           result.isAbove
              \/ (spec.metrics[1].type = "External" /\ values[1] = 0 => spec.tolerateZero)
    PROVE  LET usage == Usage(spec, Reading.sums[1], result.readyReplicas)
               g == getReplicaCount(scale.spec, result.readyReplicas, spec, usage,
                                    spec.metrics[1].low, spec.metrics[1].high)
           IN  /\ usage.num \in Nat /\ usage.den \in Nat \ {0}
               /\ Load = [num |-> result.readyReplicas * usage.num, den |-> usage.den]
               /\ result.readyReplicas \in Nat
               /\ Proposal = g.replicaCount /\ result.isAbove = g.isAbove /\ result.isBelow = g.isBelow
<1>1. 1 \in DOMAIN spec.metrics /\ Metric(1).ok
    BY SingleFacts
<1>2. Metric(1) # Failed
    BY <1>1 DEF Failed
<1>3. Metric(1) = ZeroNotTolerated(ReadyFor(1)) => Metric(1).readyReplicas = ReadyFor(1) /\ ~Metric(1).isAbove
    BY DEF ZeroNotTolerated, Calculation
<1> DEFINE g(r) == getReplicaCount(scale.spec, r, spec, Usage(spec, Reading.sums[1], r),
                                   spec.metrics[1].low, spec.metrics[1].high)
<1>4. g(ReadyFor(1)).readyReplicas = ReadyFor(1)
    BY DEF getReplicaCount, Calculation
<1>5. Metric(1) = g(ReadyFor(1))
    <2>1. spec.metrics[1].type = "External" => Reading.sums[1] = values[1]
        BY <1>1 DEF Reading, ReadingOf
    <2> QED
        BY <1>1, <1>2, <1>3, <2>1, MetricFacts, SingleFacts DEF CalcInv
<1>6. result.readyReplicas = ReadyFor(1)
    BY <1>4, <1>5, SingleFacts
<1> HIDE DEF g
<1>7. /\ ReadyFor(1) \in Nat /\ Reading.sums[1] \in Nat
      /\ Usage(spec, Reading.sums[1], ReadyFor(1)).num = Reading.sums[1]
      /\ Usage(spec, Reading.sums[1], ReadyFor(1)).den \in Nat \ {0}
    BY <1>1, <1>6, InputFacts DEF CalcInv
<1>8. /\ Proposal = g(result.readyReplicas).replicaCount
      /\ result.isAbove = g(result.readyReplicas).isAbove
      /\ result.isBelow = g(result.readyReplicas).isBelow
    BY <1>5, <1>6, SingleFacts
<1> QED
    BY <1>6, <1>7, <1>8 DEF g, Load

\* Above the high watermark the proposal is the current count or the least multiple of
\* the modulo that is enough (getReplicaCountUpscale).
THEOREM UpscaleTheorem == Spec => []UpscaleIsLeast
<1>1. CalcInv => UpscaleIsLeast
    <2> DEFINE n == scale.spec
               ready == result.readyReplicas
               usage == Usage(spec, Reading.sums[1], ready)
               high == spec.metrics[1].high
    <2> SUFFICES ASSUME CalcInv, Single, result.isAbove, ready > 0, high > 0,
                        Load.num \div (Load.den * high) < Int32Max - spec.modulo
                 PROVE  \/ Proposal = n /\ Suffices(Proposal)
                        \/ /\ Proposal % spec.modulo = 0 /\ Suffices(Proposal)
                           /\ \A k \in n..(Proposal - 1) : k % spec.modulo = 0 => ~Suffices(k)
        BY DEF UpscaleIsLeast
    <2>1. /\ usage.num \in Nat /\ usage.den \in Nat \ {0} /\ ready \in Nat
          /\ Load = [num |-> ready * usage.num, den |-> usage.den]
          /\ Proposal = getReplicaCount(n, ready, spec, usage, spec.metrics[1].low, high).replicaCount
          /\ result.isAbove = getReplicaCount(n, ready, spec, usage, spec.metrics[1].low, high).isAbove
        BY SingleProposal, Zenon
    <2>2. SpecType(spec) /\ n \in Nat /\ high \in Nat \ {0}
        BY SingleFacts, InputFacts DEF CalcInv
    <2> HIDE DEF usage, ready, n, high
    <2>3. Proposal = getReplicaCountUpscale(n, ready, spec, usage, high)
        BY <2>1 DEF getReplicaCount, Calculation
    <2>4. \A k : Suffices(k) <=> Enough(ready * usage.num, k, usage.den, high)
        BY <2>1 DEF Suffices, Enough, high
    <2>5. (ready * usage.num) \div (usage.den * high) < Int32Max - spec.modulo
        BY <2>1
    <2>6. LET p == getReplicaCountUpscale(n, ready, spec, usage, high)
          IN  \/ p = n /\ Enough(ready * usage.num, p, usage.den, high)
              \/ /\ p % spec.modulo = 0 /\ Enough(ready * usage.num, p, usage.den, high)
                 /\ \A k \in n..(p - 1) :
                       k % spec.modulo = 0 => ~Enough(ready * usage.num, k, usage.den, high)
        BY <2>1, <2>2, <2>5, UpscaleLeast, Zenon
    <2> QED
        BY <2>3, <2>4, <2>6, Zenon
<1> QED
    BY <1>1, CalculatorInvariance, PTL

\* Inside the watermarks a step towards one of them is expected to stay inside
\* (tryToConvergeToWatermarkForUsage).
THEOREM ConvergenceTheorem == Spec => []ConvergenceStaysInside
<1>1. CalcInv => ConvergenceStaysInside
    <2> DEFINE n == scale.spec
               ready == result.readyReplicas
               usage == Usage(spec, Reading.sums[1], ready)
               low == spec.metrics[1].low
               high == spec.metrics[1].high
               g == getReplicaCount(n, ready, spec, usage, low, high)
    <2> SUFFICES ASSUME CalcInv, Single, ~result.isAbove, ~result.isBelow,
                        ready > 0, 2 * ready <= Int32Max,
                        spec.metrics[1].type = "External" /\ values[1] = 0 => spec.tolerateZero,
                        spec.minReplicas <= n, n <= spec.maxReplicas
                 PROVE  /\ Proposal < n => n - Proposal <= spec.modulo /\ Suffices(Proposal)
                        /\ Proposal > n => /\ Proposal - n = spec.modulo
                                           /\ Load.num >= Proposal * Load.den * low
        BY DEF ConvergenceStaysInside
    <2>1. /\ usage.num \in Nat /\ usage.den \in Nat \ {0} /\ ready \in Nat
          /\ Load.num = ready * usage.num /\ Load.den = usage.den
          /\ Proposal = g.replicaCount /\ ~g.isAbove /\ ~g.isBelow
        BY SingleProposal
    <2>2. SpecType(spec) /\ n \in Nat /\ low \in Nat /\ high \in Nat
        BY SingleFacts, InputFacts DEF CalcInv
    <2>3. InBounds(spec, n)
        BY DEF InBounds
    <2> HIDE DEF usage, ready, n, low, high
    <2>4. /\ Proposal = tryToConvergeToWatermarkForUsage(n, ready, spec, usage, low, high)
          /\ ~AboveHighMark(spec, usage, high)
        BY <2>1 DEF getReplicaCount, Calculation
    <2>5. Suffices(Proposal) <=> Enough(ready * usage.num, Proposal, usage.den, high)
        BY <2>1 DEF Suffices, Enough, high
    <2>6. LET p == tryToConvergeToWatermarkForUsage(n, ready, spec, usage, low, high)
          IN  /\ p < n => n - p <= spec.modulo /\ Enough(ready * usage.num, p, usage.den, high)
              /\ p > n => p - n = spec.modulo /\ ready * usage.num >= p * usage.den * low
        BY <2>1, <2>2, <2>3, <2>4, ConvergeInside, Zenon
    <2>7. /\ Proposal < n => /\ n - Proposal <= spec.modulo
                             /\ Enough(ready * usage.num, Proposal, usage.den, high)
          /\ Proposal > n => /\ Proposal - n = spec.modulo
                             /\ ready * usage.num >= Proposal * usage.den * low
        BY <2>4, <2>6, Zenon
    <2> QED
        BY <2>1, <2>5, <2>7
<1> QED
    BY <1>1, CalculatorInvariance, PTL

--------------------------------------------------------------------------------
(* The recommender. *)

\* A proposal for a recommender with an answer other than 0 is what adjustReplicaCount
\* makes of it.
LEMMA RecommendedProposal ==
    ASSUME CalcInv, Proposed, spec.recommender, reco.replicas > 0
    PROVE  \E ready \in Nat : result = adjustReplicaCount(scale.spec, ready, spec, reco)
<1>1. Reading.pods.tolerated \in Nat /\ scale.status \in Nat /\ reco.replicas \in Nat
    BY ReadingFacts, CalculatorAssumption DEF CalcInv, Called
<1>2. CurrentReady(scale, Reading.pods) \in Nat
    BY <1>1 DEF CurrentReady, Min32
<1>3. result = GetRecommenderReplicas(spec, scale, Reading.pods, Reading.reco) /\ result.ok
    BY DEF CalcInv, ResultIsComputed, computeReplicas
<1>4. Reading.reco = reco /\ ~Failed.ok
    BY DEF Reading, ReadingOf, Failed
<1>5. result = adjustReplicaCount(scale.spec, CurrentReady(scale, Reading.pods), spec, reco)
    BY <1>1, <1>3, <1>4 DEF GetRecommenderReplicas
<1> QED
    BY <1>2, <1>5

\* A recommendation is followed up to the modulo, and one for the current count lets the
\* proposal converge within the recommender's bounds (adjustReplicaCount).
THEOREM RecommendationTheorem == Spec => []RecommendationFollowed
<1>1. CalcInv => RecommendationFollowed
    <2> DEFINE n == scale.spec
               m == spec.modulo
               r == reco.replicas
               y == roundReplicaCountToAbsoluteModulo(r, spec)
    <2> SUFFICES ASSUME CalcInv, Proposed, spec.recommender, r > 0, r + m <= Int32Max
                 PROVE  /\ r # n => /\ r <= Proposal /\ Proposal < r + m
                                    /\ Proposal % m = 0 \/ Proposal = n
                                    /\ r < n => Proposal <= n
                        /\ r = n => /\ Proposal < n => Proposal >= reco.lower /\ n - Proposal <= m
                                    /\ Proposal > n => Proposal <= reco.upper /\ Proposal - n <= m
        BY DEF RecommendationFollowed
    <2>1. /\ n \in Nat \ {0} /\ m \in Nat \ {0} /\ r \in Nat
          /\ reco.lower \in Nat /\ reco.upper \in Nat
        BY CalculatorAssumption DEF CalcInv, Called, SpecType
    <2>2. PICK ready \in Nat : result = adjustReplicaCount(n, ready, spec, reco)
        BY RecommendedProposal
    <2>3. y \in Nat /\ r <= y /\ y < r + m /\ y % m = 0
        BY <2>1, RoundedWithin
    <2> HIDE DEF y
    <2>4. CASE r > n
        <3>1. Proposal = Max32(y, n)
            BY <2>2, <2>4 DEF adjustReplicaCount, adjustReplicaCountForUpscale, Calculation, Proposal, y
        <3> QED
            BY <2>1, <2>3, <2>4, <3>1 DEF Max32
    <2>5. CASE r < n
        <3>1. Proposal = Min32(y, n)
            BY <2>1, <2>2, <2>5 DEF adjustReplicaCount, adjustReplicaCountForDownscale, Calculation,
                                    Proposal, y
        <3> QED
            BY <2>1, <2>3, <2>5, <3>1 DEF Min32
    <2>6. CASE r = n
        <3>1. Proposal = tryToConvergeToWatermark(n, spec, reco.lower, reco.upper)
            BY <2>1, <2>2, <2>6 DEF adjustReplicaCount, Calculation, Proposal
        <3> QED
            BY <2>1, <2>6, <3>1 DEF tryToConvergeToWatermark, Max32
    <2> QED
        BY <2>1, <2>4, <2>5, <2>6
<1> QED
    BY <1>1, CalculatorInvariance, PTL

--------------------------------------------------------------------------------
(* Pods of other workloads. *)

Own == {i \in DOMAIN pods : Owned(pods[i], TargetName, FALSE)}

\* As many indices are renumbered as have a property.
LEMMA Renumbered ==
    ASSUME NEW D, IsFiniteSet(D), NEW O, NEW order \in Bijection(D, O), NEW A \in SUBSET O
    PROVE  Cardinality({k \in D : order[k] \in A}) = Cardinality(A)
<1> DEFINE P == {k \in D : order[k] \in A}
           f == [k \in P |-> order[k]]
<1>1. IsFiniteSet(P)
    BY FS_Subset
<1>2. order \in [D -> O] /\ (\A a, b \in D : order[a] = order[b] => a = b)
      /\ \A t \in O : \E k \in D : order[k] = t
    BY DEF Bijection, Injection, Surjection, IsInjective
<1>3. f \in Bijection(P, A)
    BY <1>2 DEF Bijection, Injection, Surjection, IsInjective
<1> HIDE DEF P, f
<1>4. ExistsBijection(P, A)
    BY <1>3 DEF ExistsBijection
<1>5. Cardinality(A) = Cardinality(P)
    BY <1>1, <1>4, FS_Bijection
<1> QED
    BY <1>5 DEF P

\* The counts that external metrics and the recommender work with are those of the
\* target's own pods (getReadyPodsCount).
LEMMA OwnCounts ==
    ASSUME Called, NEW list \in OwnPods
    PROVE  LET P == Reading.pods
               Q == ReadingOf(list).pods
           IN  /\ Q.tolerated = P.tolerated
               /\ Q.listed - Q.incorrect = P.listed - P.incorrect
               /\ P.tolerated > 0 => Q.listed > 0
<1> DEFINE n == Cardinality(Own)
           D == 1..n
<1>1. /\ IsFiniteSet(DOMAIN pods) /\ Cardinality(DOMAIN pods) = Len(pods)
    BY PodFacts DEF Called
<1>2. \A S : S \subseteq DOMAIN pods => IsFiniteSet(S) /\ Cardinality(S) \in Nat
    BY <1>1, FS_Subset, FS_CardinalityType
<1>3. IsFiniteSet(Own) /\ n \in Nat /\ Own \subseteq DOMAIN pods
    BY <1>2 DEF Own
<1> HIDE DEF n
<1>4. IsFiniteSet(D) /\ Cardinality(D) = n
    <2>1. IsFiniteSet(1..n) /\ Cardinality(1..n) = IF 1 > n THEN 0 ELSE n - 1 + 1
        BY <1>3, FS_Interval
    <2> QED
        BY <1>3, <2>1
<1>5. PICK order \in [D -> Own] : /\ \A i, j \in D : i # j => order[i] # order[j]
                                  /\ list = [k \in D |-> pods[order[k]]]
    BY DEF OwnPods, SetToSeqs, Own, n
<1>6. order \in Bijection(D, Own)
    <2>1. order \in Injection(D, Own)
        BY <1>5 DEF Injection, IsInjective
    <2>2. order \in Surjection(D, Own)
        BY <1>3, <1>4, <2>1, FS_Injection DEF n
    <2> QED
        BY <2>1, <2>2 DEF Bijection
<1>7. DOMAIN list = D /\ Len(list) = n /\ \A k \in D : list[k] = pods[order[k]]
    BY <1>3, <1>5
<1>8. \A k \in D : order[k] \in Own /\ Owned(list[k], TargetName, FALSE)
    BY <1>5, <1>7 DEF Own
<1> DEFINE Ended == {i \in Own : pods[i].phase \in {"Failed", "Succeeded"}}
           Ready == {i \in Own \ Ended : ToleratedAsReady(pods[i])}
           Others == DOMAIN pods \ Own
<1>9. ReadingOf(list).pods.tolerated = Cardinality(Ready)
    <2>1. {k \in D : order[k] \in Ready} =
          {k \in DOMAIN list \ IncorrectPods(list, TargetName, FALSE) : ToleratedAsReady(list[k])}
        BY <1>7, <1>8 DEF IncorrectPods
    <2>2. Ready \in SUBSET Own
        OBVIOUS
    <2> HIDE DEF D, Ready
    <2>3. Cardinality({k \in D : order[k] \in Ready}) = Cardinality(Ready)
        BY <1>4, <1>6, <2>2, Renumbered
    <2> QED
        BY <2>1, <2>3 DEF ReadingOf, CountPods, getReadyPodsCount
<1>10. Reading.pods.tolerated = Cardinality(Ready)
    <2>1. Ready = {i \in DOMAIN pods \ IncorrectPods(pods, TargetName, FALSE) : ToleratedAsReady(pods[i])}
        BY DEF IncorrectPods, Own
    <2> HIDE DEF Ready
    <2> QED
        BY <2>1 DEF Reading, ReadingOf, CountPods, getReadyPodsCount
<1>11. ReadingOf(list).pods.incorrect = Cardinality(Ended) /\ ReadingOf(list).pods.listed = n
    <2>1. {k \in D : order[k] \in Ended} = IncorrectPods(list, TargetName, FALSE)
        BY <1>7, <1>8 DEF IncorrectPods
    <2>2. Ended \in SUBSET Own
        OBVIOUS
    <2> HIDE DEF D, Ended
    <2>3. Cardinality({k \in D : order[k] \in Ended}) = Cardinality(Ended)
        BY <1>4, <1>6, <2>2, Renumbered
    <2> QED
        BY <1>7, <2>1, <2>3 DEF ReadingOf, CountPods, getReadyPodsCount
<1>12. Reading.pods.listed - Reading.pods.incorrect = n - Cardinality(Ended)
    <2>1. IncorrectPods(pods, TargetName, FALSE) = Others \cup Ended /\ Others \cap Ended = {}
        BY <1>3 DEF IncorrectPods, Own
    <2>2. DOMAIN pods = Others \cup Own /\ Others \cap Own = {}
        BY <1>3
    <2>3. Others \subseteq DOMAIN pods /\ Ended \subseteq DOMAIN pods
        BY <1>3
    <2> HIDE DEF Others, Ended
    <2>4. /\ IsFiniteSet(Others) /\ IsFiniteSet(Ended) /\ Cardinality({}) = 0
          /\ Cardinality(Others) \in Nat /\ Cardinality(Ended) \in Nat
        BY <1>2, <2>3, FS_EmptySet
    <2>5. Cardinality(Others \cup Ended) = Cardinality(Others) + Cardinality(Ended) - Cardinality({})
        BY <2>1, <2>4, FS_Union
    <2>6. Cardinality(Others \cup Own) = Cardinality(Others) + n - Cardinality({})
        BY <1>3, <2>2, <2>4, FS_Union DEF n
    <2>7. Reading.pods.incorrect = Cardinality(Others) + Cardinality(Ended)
        <3>1. Reading.pods.incorrect = Cardinality(IncorrectPods(pods, TargetName, FALSE))
            BY Zenon DEF Reading, ReadingOf, CountPods, getReadyPodsCount
        <3>2. Reading.pods.incorrect = Cardinality(Others \cup Ended)
            BY <2>1, <3>1, Zenon
        <3> QED
            BY <2>4, <2>5, <3>2
    <2>8. Reading.pods.listed = Cardinality(Others) + n
        BY <1>1, <1>3, <2>2, <2>4, <2>6 DEF Reading, ReadingOf, CountPods
    <2> QED
        BY <1>3, <2>4, <2>7, <2>8
<1>13. Cardinality(Ready) <= n /\ Cardinality(Ready) \in Nat
    <2>1. Ready \in SUBSET Own
        OBVIOUS
    <2> HIDE DEF Ready
    <2> QED
        BY <1>3, <2>1, FS_Subset, FS_CardinalityType DEF n
<1> HIDE DEF Ready, Ended
<1> QED
    BY <1>3, <1>9, <1>10, <1>11, <1>12, <1>13

\* So every metric is computed alike.
LEMMA OwnCalculations ==
    ASSUME Called, NEW list \in OwnPods, PodsUsable(spec, scale, Reading.pods)
    PROVE  LET Q == ReadingOf(list)
           IN  /\ GetRecommenderReplicas(spec, scale, Q.pods, Q.reco)
                     = GetRecommenderReplicas(spec, scale, Reading.pods, Reading.reco)
               /\ \A i \in DOMAIN spec.metrics :
                     spec.metrics[i].type = "External" =>
                         MetricCalculation(spec, scale, Q, i) = Metric(i)
<1> DEFINE P == Reading.pods
           Q == ReadingOf(list)
<1>1. /\ Q.pods.tolerated = P.tolerated /\ Q.pods.listed - Q.pods.incorrect = P.listed - P.incorrect
      /\ Q.pods.listed > 0
    BY OwnCounts DEF PodsUsable
<1>2. /\ Q.reco = Reading.reco
      /\ \A i \in DOMAIN spec.metrics :
            spec.metrics[i].type = "External" => Q.sums[i] = Reading.sums[i]
    BY DEF Reading, ReadingOf
<1> HIDE DEF P, Q
<1>3. CurrentReady(scale, Q.pods) = CurrentReady(scale, P)
    BY <1>1 DEF CurrentReady
<1>4. PodsUsable(spec, scale, P)
    BY DEF P
<1>5. PodsUsable(spec, scale, Q.pods)
    BY <1>1, <1>3, <1>4, Zenon DEF PodsUsable
<1>6. GetRecommenderReplicas(spec, scale, Q.pods, Q.reco)
          = GetRecommenderReplicas(spec, scale, P, Reading.reco)
    BY <1>2, <1>3, <1>4, <1>5, Zenon DEF GetRecommenderReplicas
<1>7. ASSUME NEW i \in DOMAIN spec.metrics, spec.metrics[i].type = "External"
      PROVE  MetricCalculation(spec, scale, Q, i) = Metric(i)
    <2>1. Q.sums[i] = Reading.sums[i]
        BY <1>2, <1>7
    <2>2. MetricCalculation(spec, scale, Q, i)
              = GetExternalMetricReplicas(spec, spec.metrics[i], scale, Q.pods, Q.sums[i])
        BY <1>7 DEF MetricCalculation
    <2>3. Metric(i) = GetExternalMetricReplicas(spec, spec.metrics[i], scale, P, Reading.sums[i])
        BY <1>7 DEF MetricCalculation, Metric, P
    <2>4. GetExternalMetricReplicas(spec, spec.metrics[i], scale, Q.pods, Q.sums[i])
              = GetExternalMetricReplicas(spec, spec.metrics[i], scale, P, Reading.sums[i])
        BY <1>3, <1>4, <1>5, <2>1, Zenon DEF GetExternalMetricReplicas
    <2> QED
        BY <2>2, <2>3, <2>4, Zenon
<1> QED
    BY <1>6, <1>7 DEF P, Q

\* computeReplicas returns one calculation at most.
LEMMA OneProposal ==
    ASSUME CalcInv, Proposed
    PROVE  computeReplicas(spec, scale, Reading) = {result}
<1>1. result \in computeReplicas(spec, scale, Reading)
    BY DEF CalcInv, ResultIsComputed
<1>2. CASE spec.recommender
    BY <1>1, <1>2 DEF computeReplicas
<1>3. CASE ~spec.recommender /\ spec.metrics = << >>
    BY <1>1, <1>3 DEF computeReplicas, computeReplicasForMetrics
<1>4. CASE ~spec.recommender /\ spec.metrics # << >>
    <2> DEFINE C == [i \in DOMAIN spec.metrics |-> Metric(i)]
               kept == {k \in DOMAIN C : ~Superseded(C, k)}
               winners == {k \in kept : \A j \in kept :
                              /\ C[j].replicaCount <= C[k].replicaCount
                              /\ C[j].replicaCount = C[k].replicaCount => k <= j}
               Of(i) == Calculation(C[i].replicaCount, C[i].readyReplicas,
                            \E j \in DOMAIN C : C[j].isAbove, \E j \in DOMAIN C : C[j].isBelow)
    <2>1. kept \subseteq Int /\ \A k \in kept : C[k].replicaCount \in Int
        BY CalculatorAssumption, MetricDirection DEF CalcInv, Called
    <2>2. computeReplicas(spec, scale, Reading)
              = IF \E i \in DOMAIN C : ~C[i].ok THEN {} ELSE {Of(i) : i \in winners}
        BY <1>4, Zenon DEF computeReplicas, computeReplicasForMetrics, Metric
    <2> HIDE DEF C, kept
    <2>3. \A k, j \in winners : k = j
        BY <2>1
    <2> HIDE DEF winners, Of
    <2> QED
        BY <1>1, <2>2, <2>3
<1> QED
    BY <1>2, <1>3, <1>4

\* Pods of another workload under the same selector, and the order of the pods, make no
\* difference to a proposal from external metrics or from the recommender (checkOwnerRef
\* in getReadyPodsCount).
THEOREM ForeignTheorem == Spec => []ForeignPodsDoNotCount
<1>1. CalcInv => ForeignPodsDoNotCount
    <2> SUFFICES ASSUME CalcInv, Proposed, NEW list \in OwnPods,
                        \A i \in DOMAIN spec.metrics : spec.metrics[i].type = "External"
                 PROVE  computeReplicas(spec, scale, ReadingOf(list))
                            = computeReplicas(spec, scale, Reading)
        BY OneProposal DEF ForeignPodsDoNotCount
    <2>1. result \in computeReplicas(spec, scale, Reading) /\ ~Failed.ok
        BY DEF CalcInv, ResultIsComputed, Failed
    <2>2. CASE spec.recommender
        <3>1. GetRecommenderReplicas(spec, scale, Reading.pods, Reading.reco) # Failed
            BY <2>1, <2>2 DEF computeReplicas
        <3>2. PodsUsable(spec, scale, Reading.pods)
            BY <3>1 DEF GetRecommenderReplicas
        <3>3. GetRecommenderReplicas(spec, scale, ReadingOf(list).pods, ReadingOf(list).reco)
                  = GetRecommenderReplicas(spec, scale, Reading.pods, Reading.reco)
            BY <3>2, OwnCalculations DEF CalcInv
        <3> QED
            BY <2>2, <3>3, Zenon DEF computeReplicas
    <2>3. CASE ~spec.recommender /\ spec.metrics = << >>
        BY <2>3 DEF computeReplicas, computeReplicasForMetrics
    <2>4. CASE ~spec.recommender /\ spec.metrics # << >>
        <3>1. PICK i \in DOMAIN spec.metrics : Metric(i).ok
            BY <2>4, ProposalFacts
        <3>2. PodsUsable(spec, scale, Reading.pods)
            BY <2>1, <3>1 DEF Metric, MetricCalculation, GetExternalMetricReplicas
        <3>3. \A j \in DOMAIN spec.metrics :
                 MetricCalculation(spec, scale, ReadingOf(list), j) = MetricCalculation(spec, scale, Reading, j)
            BY <3>2, OwnCalculations DEF CalcInv, Metric
        <3>4. [j \in DOMAIN spec.metrics |-> MetricCalculation(spec, scale, ReadingOf(list), j)]
                  = [j \in DOMAIN spec.metrics |-> MetricCalculation(spec, scale, Reading, j)]
            BY <3>3, Zenon
        <3> DEFINE All(r) == [j \in DOMAIN spec.metrics |-> MetricCalculation(spec, scale, r, j)]
                   Greatest(C) ==
                       LET kept    == {k \in DOMAIN C : ~Superseded(C, k)}
                           winners == {k \in kept : \A j \in kept :
                                          /\ C[j].replicaCount <= C[k].replicaCount
                                          /\ C[j].replicaCount = C[k].replicaCount => k <= j}
                       IN  IF \E i1 \in DOMAIN C : ~C[i1].ok THEN {}
                           ELSE { Calculation(C[i1].replicaCount, C[i1].readyReplicas,
                                              \E j \in DOMAIN C : C[j].isAbove,
                                              \E j \in DOMAIN C : C[j].isBelow) : i1 \in winners }
        <3>5. \A r : computeReplicas(spec, scale, r) = Greatest(All(r))
            BY <2>4, Zenon DEF computeReplicas, computeReplicasForMetrics
        <3> HIDE DEF Greatest
        <3> QED
            BY <3>4, <3>5, Zenon
    <2> QED
        BY <2>2, <2>3, <2>4
<1> QED
    BY <1>1, CalculatorInvariance, PTL

--------------------------------------------------------------------------------
(* The readings. *)

\* A pod is tolerated or incorrect or neither, never both, and the same with ready and
\* ignored; the ready ones still have their metric (getReadyPodsCount, groupPods).
LEMMA CountFacts ==
    ASSUME Called
    PROVE  /\ \A n \in {"listed", "tolerated", "incorrect", "ready", "ignored", "withMetrics"} :
                 Reading.pods[n] \in Nat
           /\ Reading.pods.tolerated + Reading.pods.incorrect <= Reading.pods.listed
           /\ Reading.pods.ready + Reading.pods.ignored <= Reading.pods.listed
<1> DEFINE D == DOMAIN pods
           incorrect == IncorrectPods(pods, TargetName, FALSE)
           tolerated == {i \in D \ incorrect : ToleratedAsReady(pods[i])}
           groups == groupPods(pods, TargetName, TRUE, FALSE)
           ready == groups.ready
           ignored == groups.ignored
           measured == removeMetricsForPods(pods, ignored)
<1>1. IsFiniteSet(D) /\ Cardinality(D) = Len(pods) /\ Len(pods) \in Nat
    BY PodFacts, CalculatorAssumption DEF Called
<1>2. /\ Reading.pods.listed = Len(pods)
      /\ Reading.pods.tolerated = Cardinality(tolerated)
      /\ Reading.pods.incorrect = Cardinality(incorrect)
      /\ Reading.pods.ready = Cardinality(ready)
      /\ Reading.pods.ignored = Cardinality(ignored)
      /\ Reading.pods.withMetrics = Cardinality(measured)
    BY DEF Reading, ReadingOf, CountPods, getReadyPodsCount
<1>3. /\ incorrect \subseteq D /\ tolerated \subseteq D /\ tolerated \cap incorrect = {}
      /\ ready \subseteq D /\ ignored \subseteq D /\ ready \cap ignored = {}
      /\ measured \subseteq D
    BY DEF IncorrectPods, groupPods, removeMetricsForPods
<1> HIDE DEF D, incorrect, tolerated, groups, ready, ignored, measured
<1>4. ASSUME NEW S, NEW T, S \subseteq D, T \subseteq D, S \cap T = {}
      PROVE  /\ Cardinality(S) \in Nat /\ Cardinality(T) \in Nat
             /\ Cardinality(S) + Cardinality(T) <= Cardinality(D)
    <2>1. IsFiniteSet(S) /\ IsFiniteSet(T)
        BY <1>1, <1>4, FS_Subset
    <2>2. Cardinality(S) \in Nat /\ Cardinality(T) \in Nat /\ Cardinality({}) = 0
        BY <2>1, FS_CardinalityType, FS_EmptySet
    <2>3. Cardinality(S \cup T) = Cardinality(S) + Cardinality(T) - Cardinality(S \cap T)
        BY <2>1, FS_Union
    <2>4. Cardinality(S \cup T) <= Cardinality(D)
        <3>1. S \cup T \subseteq D
            BY <1>4
        <3> QED
            BY <1>1, <3>1, FS_Subset
    <2>5. S \cap T = {}
        BY <1>4
    <2>6. Cardinality(S \cup T) = Cardinality(S) + Cardinality(T) - 0
        BY <2>2, <2>3, <2>5
    <2> QED
        BY <2>2, <2>4, <2>6
<1>5. /\ Cardinality(tolerated) \in Nat /\ Cardinality(incorrect) \in Nat
      /\ Cardinality(tolerated) + Cardinality(incorrect) <= Cardinality(D)
    BY <1>3, <1>4
<1>6. /\ Cardinality(ready) \in Nat /\ Cardinality(ignored) \in Nat
      /\ Cardinality(ready) + Cardinality(ignored) <= Cardinality(D)
    BY <1>3, <1>4
<1>7. Cardinality(measured) \in Nat
    BY <1>1, <1>3, FS_Subset, FS_CardinalityType
<1> QED
    BY <1>1, <1>2, <1>5, <1>6, <1>7

\* A share is no more than the whole.
LEMMA ShareIsAPercentage ==
    ASSUME NEW n \in Nat, NEW counted \in Nat, counted > 0, n <= counted
    PROVE  IsPercentage(n, counted)
<1> DEFINE q == (100 * n) \div counted
           r == (100 * n) % counted
<1>1. q \in Int /\ r \in 0..(counted - 1) /\ 100 * n = counted * q + r
    OBVIOUS
<1> HIDE DEF r
<1>2. IsPercentage(n, counted) <=> q \in 0..100
    BY DEF IsPercentage
<1> HIDE DEF q
<1>3. q >= 0
    <2> SUFFICES ASSUME q <= -1 PROVE FALSE
        BY <1>1
    <2>1. counted * q <= counted * (-1)
        BY <1>1
    <2> QED
        BY <1>1, <2>1
<1>4. q <= 100
    <2> SUFFICES ASSUME q >= 101 PROVE FALSE
        BY <1>1
    <2>1. counted * q >= counted * 101
        BY <1>1
    <2> QED
        BY <1>1, <2>1
<1> QED
    BY <1>1, <1>2, <1>3, <1>4

\* Whatever the lister returns, the ratio of ready pods is a percentage wherever
\* GetExternalMetricReplicas, GetRecommenderReplicas and GetResourceReplicas compute it.
THEOREM RatioTheorem == Spec => []RatioIsAPercentage
<1>1. CalcInv => RatioIsAPercentage
    <2> SUFFICES ASSUME Called PROVE RatioIsAPercentage
        BY DEF CalcInv
    <2> DEFINE p == Reading.pods
    <2>1. /\ p.listed \in Nat /\ p.tolerated \in Nat /\ p.incorrect \in Nat
          /\ p.ready \in Nat /\ p.ignored \in Nat
          /\ p.tolerated + p.incorrect <= p.listed /\ p.ready + p.ignored <= p.listed
        BY CountFacts
    <2> HIDE DEF p
    <2>2. scale.status \in Nat
        BY CalculatorAssumption DEF Called
    <2>3. CurrentReady(scale, p) \in Nat /\ CurrentReady(scale, p) <= p.tolerated
        BY <2>1, <2>2 DEF CurrentReady, Min32
    <2>4. ASSUME p.listed > 0, p.tolerated > 0
          PROVE  IsPercentage(CurrentReady(scale, p), p.listed - p.incorrect)
        <3>1. /\ p.listed - p.incorrect \in Nat /\ p.listed - p.incorrect > 0
              /\ CurrentReady(scale, p) <= p.listed - p.incorrect
            BY <2>1, <2>3, <2>4
        <3> QED
            BY <2>3, <3>1, ShareIsAPercentage
    <2>5. ASSUME p.listed > 0, ~ResourcePanics(p)
          PROVE  IsPercentage(p.ready, p.listed - p.ignored)
        <3>1. /\ p.listed - p.ignored \in Nat /\ p.listed - p.ignored > 0
              /\ p.ready <= p.listed - p.ignored
            BY <2>1, <2>5 DEF ResourcePanics
        <3> QED
            BY <2>1, <3>1, ShareIsAPercentage
    <2> QED
        BY <2>4, <2>5 DEF RatioIsAPercentage, p
<1> QED
    BY <1>1, CalculatorInvariance, PTL

\* What the counting of pods and the summing of metrics hand to the calculation is what
\* module Reconciler assumes of a reading (ReconcilerAssumption).
THEOREM ReadingsTheorem ==
    Spec => [](ReadingType(Reading) /\ \A i \in DOMAIN spec.metrics : Reading.sums[i] \in Nat)
<1>1. CalcInv => ReadingType(Reading) /\ \A i \in DOMAIN spec.metrics : Reading.sums[i] \in Nat
    <2> SUFFICES ASSUME Called
                 PROVE  ReadingType(Reading) /\ \A i \in DOMAIN spec.metrics : Reading.sums[i] \in Nat
        BY DEF CalcInv
    <2>1. reco.replicas \in Nat /\ reco.lower \in Nat /\ reco.upper \in Nat
        BY CalculatorAssumption DEF Called
    <2>2. Reading.reco = reco
        BY DEF Reading, ReadingOf
    <2> QED
        BY <2>1, <2>2, CountFacts, ReadingFacts DEF ReadingType
<1> QED
    BY <1>1, CalculatorInvariance, PTL
================================================================================
