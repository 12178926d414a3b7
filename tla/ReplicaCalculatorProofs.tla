----------------------- MODULE ReplicaCalculatorProofs -----------------------
(***************************************************************************)
(* Lemmas about the operators of the replica calculator, for every spec,   *)
(* target and reading, and for either platform's conversion to int32.      *)
(***************************************************************************)
EXTENDS ScalingRules, ReplicaCalculator, TLAPS

--------------------------------------------------------------------------------
(* The calculator proposes integers. *)

\* Rounding a quotient of naturals yields an integer on either platform, whatever
\* the divisor (math32.Floor, math32.Ceil).
LEMMA RoundingType ==
    ASSUME NEW p \in Nat, NEW q \in Nat
    PROVE  Floor32(p, q) \in Int /\ Ceil32(p, q) \in Int
<1>1. Overflow32 \in Int /\ NaN32 \in Int /\ Int32Max \in Int
    BY Int32Assumption
<1>2. \A x \in Int : ToInt32(x) \in Int
    BY <1>1 DEF ToInt32
<1>3. CASE q = 0
    BY <1>1, <1>3 DEF Floor32, Ceil32
<1>4. CASE q # 0
    <2>1. q \in Int /\ q > 0
        BY <1>4
    <2>2. p \div q \in Int /\ (p + q - 1) \div q \in Int
        BY <2>1
    <2> QED
        BY <1>2, <1>4, <2>2 DEF Floor32, Ceil32
<1> QED
    BY <1>3, <1>4

\* So is the count rounded to the modulo (roundReplicaCountToAbsoluteModulo).
LEMMA ModuloType ==
    ASSUME NEW n \in Int, NEW spec, spec.modulo \in Nat \ {0}
    PROVE  roundReplicaCountToAbsoluteModulo(n, spec) \in Int
<1>1. Mod32(n, spec.modulo) \in Int
    BY DEF Mod32
<1>2. Int32Max \in Int
    BY Int32Assumption
<1> QED
    BY <1>1, <1>2 DEF roundReplicaCountToAbsoluteModulo, Add32

IsCalculation(c) == c.replicaCount \in Int /\ c.readyReplicas \in Int

\* A metric's proposal is an integer (getReplicaCount).
LEMMA ReplicaCountType ==
    ASSUME NEW spec, SpecType(spec), NEW n \in Nat, NEW ready \in Nat,
           NEW usage, usage.num \in Nat, usage.den \in Nat,
           NEW low \in Nat, NEW high \in Nat
    PROVE  IsCalculation(getReplicaCount(n, ready, spec, usage, low, high))
<1>1. /\ spec.modulo \in Nat \ {0} /\ spec.minReplicas \in Nat /\ spec.maxReplicas \in Nat
    BY DEF SpecType
<1>2. /\ ready * usage.num \in Nat /\ usage.den * high \in Nat /\ usage.den * low \in Nat
    OBVIOUS
<1>3. /\ Ceil32(ready * usage.num, usage.den * high) \in Int
      /\ Floor32(ready * usage.num, usage.den * low) \in Int
    BY <1>2, RoundingType
<1>4. getReplicaCountUpscale(n, ready, spec, usage, high) \in Int
    <2>1. roundReplicaCountToAbsoluteModulo(
              Ceil32(ready * usage.num, usage.den * high), spec) \in Int
        BY <1>1, <1>3, ModuloType
    <2> QED
        BY <2>1 DEF getReplicaCountUpscale, adjustReplicaCountForUpscale, Max32
<1>5. getReplicaCountDownscale(n, ready, spec, usage, low) \in Int
    <2> DEFINE floor == Max32(Floor32(ready * usage.num, usage.den * low), 1)
    <2>1. floor \in Int
        BY <1>3 DEF Max32
    <2>2. roundReplicaCountToAbsoluteModulo(floor, spec) \in Int
        BY <1>1, <2>1, ModuloType
    <2> QED
        BY <2>2 DEF getReplicaCountDownscale, adjustReplicaCountForDownscale, Min32
<1>6. tryToConvergeToWatermarkForUsage(n, ready, spec, usage, low, high) \in Int
    <2>1. \A a, b : tryToConvergeToWatermark(n, spec, a, b) \in Int
        BY <1>1 DEF tryToConvergeToWatermark, Max32
    <2> QED
        BY <2>1 DEF tryToConvergeToWatermarkForUsage
<1> QED
    BY <1>4, <1>5, <1>6 DEF getReplicaCount, Calculation, IsCalculation

\* A proposal computed for a target is an integer, and so is the number of ready
\* replicas that comes with it (computeReplicas).
LEMMA ProposalType ==
    ASSUME NEW spec, SpecType(spec), NEW s, s.spec \in Nat, s.status \in Nat,
           NEW r, ReadingType(r), \A i \in DOMAIN spec.metrics : r.sums[i] \in Nat,
           NEW c \in computeReplicas(spec, s, r)
    PROVE  IsCalculation(c)
<1>1. SpecType(spec) /\ ReadingType(r) /\ \A i \in DOMAIN spec.metrics : r.sums[i] \in Nat
    OBVIOUS
<1>2. s.spec \in Nat /\ s.status \in Nat
    OBVIOUS
<1>3. /\ r.pods.tolerated \in Nat /\ r.pods.ready \in Nat
      /\ r.reco.replicas \in Nat /\ r.reco.lower \in Nat /\ r.reco.upper \in Nat
    BY <1>1 DEF ReadingType
<1>4. CurrentReady(s, r.pods) \in Nat
    BY <1>2, <1>3 DEF CurrentReady, Min32
<1>5. IsCalculation(Failed)
    BY DEF IsCalculation, Failed
<1>6. IsCalculation(ZeroNotTolerated(CurrentReady(s, r.pods)))
    BY <1>4 DEF IsCalculation, ZeroNotTolerated, Calculation
<1>7. \A sum \in Nat, ready \in Nat : /\ Usage(spec, sum, ready).num \in Nat
                                      /\ Usage(spec, sum, ready).den \in Nat
    BY DEF Usage
<1>8. CASE spec.recommender
    <2>1. IsCalculation(adjustReplicaCount(s.spec, CurrentReady(s, r.pods), spec, r.reco))
        <3>1. spec.modulo \in Nat \ {0}
            BY <1>1 DEF SpecType
        <3>2. roundReplicaCountToAbsoluteModulo(r.reco.replicas, spec) \in Int
            BY <1>3, <3>1, ModuloType
        <3>3. /\ adjustReplicaCountForUpscale(s.spec, spec, r.reco.replicas) \in Int
              /\ adjustReplicaCountForDownscale(s.spec, spec, r.reco.replicas) \in Int
            BY <1>2, <3>2 DEF adjustReplicaCountForUpscale, adjustReplicaCountForDownscale,
                              Max32, Min32
        <3>4. \A a, b : tryToConvergeToWatermark(s.spec, spec, a, b) \in Int
            BY <1>2, <3>1 DEF tryToConvergeToWatermark, Max32
        <3> QED
            BY <1>4, <3>3, <3>4 DEF adjustReplicaCount, Calculation, IsCalculation
    <2>2. IsCalculation(GetRecommenderReplicas(spec, s, r.pods, r.reco))
        BY <1>5, <1>6, <2>1 DEF GetRecommenderReplicas
    <2> QED
        BY <1>8, <2>2 DEF computeReplicas
<1>9. CASE ~spec.recommender
    <2>1. \A i \in DOMAIN spec.metrics : IsCalculation(MetricCalculation(spec, s, r, i))
        <3> SUFFICES ASSUME NEW i \in DOMAIN spec.metrics
                     PROVE  IsCalculation(MetricCalculation(spec, s, r, i))
            OBVIOUS
        <3> DEFINE m == spec.metrics[i]
        <3>1. m.low \in Nat /\ m.high \in Nat /\ r.sums[i] \in Nat
            BY <1>1 DEF SpecType
        <3>2. \A ready \in Nat :
                 IsCalculation(getReplicaCount(s.spec, ready, spec, Usage(spec, r.sums[i], ready),
                                               m.low, m.high))
            BY <1>1, <1>2, <1>7, <3>1, ReplicaCountType
        <3>3. IsCalculation(GetExternalMetricReplicas(spec, m, s, r.pods, r.sums[i]))
            BY <1>4, <1>5, <1>6, <3>2 DEF GetExternalMetricReplicas
        <3>4. IsCalculation(GetResourceReplicas(spec, m, s, r.pods, r.sums[i]))
            BY <1>3, <1>5, <3>2 DEF GetResourceReplicas
        <3> QED
            BY <3>3, <3>4 DEF MetricCalculation
    <2>2. c \in computeReplicasForMetrics(spec, s, r)
        BY <1>9 DEF computeReplicas
    <2>3. CASE spec.metrics = << >>
        <3>1. c = Calculation(0, 0, FALSE, FALSE)
            BY <2>2, <2>3 DEF computeReplicasForMetrics
        <3> QED
            BY <3>1 DEF Calculation, IsCalculation
    <2>4. CASE spec.metrics # << >>
        <3>1. PICK i \in DOMAIN spec.metrics :
                 /\ c.replicaCount = MetricCalculation(spec, s, r, i).replicaCount
                 /\ c.readyReplicas = MetricCalculation(spec, s, r, i).readyReplicas
            BY <2>2, <2>4 DEF computeReplicasForMetrics, Calculation
        <3> QED
            BY <2>1, <3>1 DEF IsCalculation
    <2> QED
        BY <2>3, <2>4
<1> QED
    BY <1>8, <1>9

--------------------------------------------------------------------------------
(* Quotients and multiples. *)

\* Division of naturals: quotient and remainder.
LEMMA QuotientAndRemainder ==
    ASSUME NEW p \in Nat, NEW q \in Nat \ {0}
    PROVE  /\ p \div q \in Nat /\ p % q \in Nat /\ p % q < q
           /\ p = (p \div q) * q + (p % q)
<1>1. p % q \in 0..(q - 1) /\ p \div q \in Int
    OBVIOUS
<1>2. p = (p \div q) * q + (p % q) /\ p \div q >= 0
    BY SMT
<1> QED
    BY <1>1, <1>2

\* A smaller factor makes a smaller product, by a whole step.
LEMMA Monotone ==
    ASSUME NEW a \in Int, NEW b \in Int, NEW q \in Nat
    PROVE  /\ a <= b => a * q <= b * q
           /\ a < b => a * q + q <= b * q
OBVIOUS

\* Rounding up a quotient yields the least number that is not below it.
LEMMA CeilingIsLeast ==
    ASSUME NEW p \in Nat, NEW q \in Nat \ {0}
    PROVE  LET c == (p + q - 1) \div q
           IN  /\ c \in Nat /\ p <= c * q
               /\ \A n \in Int : p <= n * q => c <= n
<1> DEFINE c == (p + q - 1) \div q
           r == (p + q - 1) % q
<1>1. c \in Nat /\ r \in Nat /\ r < q /\ p + q - 1 = c * q + r
    BY QuotientAndRemainder
<1> HIDE DEF c, r
<1>2. c * q \in Int
    BY <1>1
<1>3. p <= c * q
    BY <1>1, <1>2
<1>4. ASSUME NEW n \in Int, p <= n * q
      PROVE  c <= n
    <2>1. n < c => n * q + q <= c * q
        BY <1>1, Monotone
    <2>2. n * q \in Int
        OBVIOUS
    <2> QED
        BY <1>1, <1>2, <1>4, <2>1, <2>2
<1> QED
    BY <1>1, <1>3, <1>4 DEF c

\* Rounding down yields a number that is not above the quotient.
LEMMA FloorIsBelow ==
    ASSUME NEW p \in Nat, NEW q \in Nat \ {0}
    PROVE  p \div q \in Nat /\ (p \div q) * q <= p
<1>1. (p \div q) * q \in Int
    BY QuotientAndRemainder
<1> QED
    BY <1>1, QuotientAndRemainder

\* A number that leaves no remainder is a multiple, and a multiple leaves none.
LEMMA Multiples ==
    ASSUME NEW n \in Nat, NEW m \in Nat \ {0}
    PROVE  /\ n % m = 0 => n = (n \div m) * m
           /\ (n * m) % m = 0
<1>1. (n \div m) * m \in Int
    BY QuotientAndRemainder
<1>2. n % m = 0 => n = (n \div m) * m
    BY <1>1, QuotientAndRemainder
<1>3. (n * m) % m = 0
    OBVIOUS
<1> QED
    BY <1>2, <1>3

\* Adding what is missing to the next multiple yields the least multiple that is not
\* below x.
LEMMA MultipleIsLeast ==
    ASSUME NEW x \in Nat, NEW m \in Nat \ {0}
    PROVE  LET y == IF x % m > 0 THEN x + (m - (x % m)) ELSE x
           IN  /\ y \in Nat /\ x <= y /\ y % m = 0
               /\ \A n \in Nat : n % m = 0 /\ x <= n => y <= n
<1> DEFINE k == x \div m
           r == x % m
           y == IF r > 0 THEN x + (m - r) ELSE x
           j == IF r > 0 THEN k + 1 ELSE k
<1>1. k \in Nat /\ r \in Nat /\ r < m /\ x = k * m + r
    BY QuotientAndRemainder
<1> HIDE DEF k, r
<1>2. k * m \in Nat /\ (k + 1) * m = k * m + m
    BY <1>1
<1>3. j \in Nat /\ y \in Nat /\ x <= y
    BY <1>1
<1>4. y = j * m
    BY <1>1, <1>2
<1>5. y % m = 0
    BY <1>3, <1>4, Multiples
<1>6. ASSUME NEW n \in Nat, n % m = 0, x <= n
      PROVE  y <= n
    <2> DEFINE i == n \div m
    <2>1. i \in Nat /\ n = i * m
        BY <1>6, Multiples, QuotientAndRemainder
    <2> HIDE DEF i
    <2>2. CASE j <= i
        <3> HIDE DEF j, y
        <3> QED
            BY <1>3, <1>4, <2>1, <2>2, Monotone
    <2>3. CASE i < j
        <3>1. i <= k
            BY <1>1, <2>1, <2>3
        <3>2. i < k => i * m + m <= k * m
            BY <1>1, <2>1, Monotone
        <3>3. i = k => r = 0
            BY <1>1, <1>2, <1>6, <2>1
        <3>4. i = k
            BY <1>1, <1>2, <1>6, <2>1, <3>1, <3>2
        <3> QED
            BY <1>1, <2>3, <3>3, <3>4
    <2> QED
        BY <1>3, <2>1, <2>2, <2>3
<1>7. \A n \in Nat : n % m = 0 /\ x <= n => y <= n
    BY <1>6
<1> HIDE DEF y
<1>8. /\ y \in Nat /\ x <= y /\ y % m = 0
      /\ \A n \in Nat : n % m = 0 /\ x <= n => y <= n
    BY <1>3, <1>5, <1>7
<1> QED
    BY <1>8, Zenon DEF r, y

\* Rounding to the modulo yields the least multiple that is not below the count, if
\* there is an int32 for it (roundReplicaCountToAbsoluteModulo).
LEMMA RoundedIsLeast ==
    ASSUME NEW spec, spec.modulo \in Nat \ {0}, NEW x \in Nat, x + spec.modulo <= Int32Max
    PROVE  LET y == roundReplicaCountToAbsoluteModulo(x, spec)
           IN  /\ y \in Nat /\ x <= y /\ y % spec.modulo = 0
               /\ \A n \in Nat : n % spec.modulo = 0 /\ x <= n => y <= n
<1> DEFINE r == x % spec.modulo
<1>1. r \in Nat /\ r < spec.modulo /\ Mod32(x, spec.modulo) = r
    BY QuotientAndRemainder DEF Mod32
<1> HIDE DEF r
<1>2. r > 0 => Add32(x, spec.modulo - r) = x + (spec.modulo - r)
    BY <1>1, Int32Assumption DEF Add32
<1>3. roundReplicaCountToAbsoluteModulo(x, spec) = IF r > 0 THEN x + (spec.modulo - r) ELSE x
    BY <1>1, <1>2 DEF roundReplicaCountToAbsoluteModulo
<1> DEFINE m == spec.modulo
<1>4. m \in Nat \ {0} /\ roundReplicaCountToAbsoluteModulo(x, spec) = IF x % m > 0 THEN x + (m - (x % m)) ELSE x
    BY <1>3 DEF r
<1> HIDE DEF m
<1>5. LET y == IF x % m > 0 THEN x + (m - (x % m)) ELSE x
      IN  /\ y \in Nat /\ x <= y /\ y % m = 0
          /\ \A n \in Nat : n % m = 0 /\ x <= n => y <= n
    BY <1>4, MultipleIsLeast, Zenon
<1>6. LET y == roundReplicaCountToAbsoluteModulo(x, spec)
      IN  /\ y \in Nat /\ x <= y /\ y % m = 0
          /\ \A n \in Nat : n % m = 0 /\ x <= n => y <= n
    BY <1>4, <1>5, Zenon
<1> QED
    BY <1>6 DEF m

\* ... which is less than a modulo away.
LEMMA RoundedWithin ==
    ASSUME NEW spec, spec.modulo \in Nat \ {0}, NEW x \in Nat, x + spec.modulo <= Int32Max
    PROVE  LET y == roundReplicaCountToAbsoluteModulo(x, spec)
           IN  y \in Nat /\ x <= y /\ y < x + spec.modulo /\ y % spec.modulo = 0
<1> DEFINE r == x % spec.modulo
<1>1. r \in Nat /\ r < spec.modulo /\ Mod32(x, spec.modulo) = r
    BY QuotientAndRemainder DEF Mod32
<1> HIDE DEF r
<1>2. roundReplicaCountToAbsoluteModulo(x, spec) = IF r > 0 THEN x + (spec.modulo - r) ELSE x
    BY <1>1, Int32Assumption DEF Add32, roundReplicaCountToAbsoluteModulo
<1>3. roundReplicaCountToAbsoluteModulo(x, spec) < x + spec.modulo
    BY <1>1, <1>2
<1> QED
    BY <1>3, RoundedIsLeast

--------------------------------------------------------------------------------
(* What one metric proposes. *)

\* A proposal for a metric above its high watermark is not below the current count,
\* and one for a metric below its low watermark not above it (getReplicaCount).
LEMMA RightDirection ==
    ASSUME NEW spec, SpecType(spec), NEW n \in Nat, NEW ready \in Nat,
           NEW usage, usage.num \in Nat, usage.den \in Nat,
           NEW low \in Nat, NEW high \in Nat
    PROVE  LET c == getReplicaCount(n, ready, spec, usage, low, high)
           IN  /\ c.isAbove => c.replicaCount >= n
               /\ c.isBelow => c.replicaCount <= n
<1> DEFINE up == roundReplicaCountToAbsoluteModulo(
                     Ceil32(ready * usage.num, usage.den * high), spec)
           down == roundReplicaCountToAbsoluteModulo(
                     Max32(Floor32(ready * usage.num, usage.den * low), 1), spec)
<1>1. spec.modulo \in Nat \ {0}
    BY DEF SpecType
<1>2. /\ ready * usage.num \in Nat /\ usage.den * high \in Nat /\ usage.den * low \in Nat
    OBVIOUS
<1>3. /\ Ceil32(ready * usage.num, usage.den * high) \in Int
      /\ Floor32(ready * usage.num, usage.den * low) \in Int
    BY <1>2, RoundingType
<1>4. up \in Int /\ down \in Int
    BY <1>1, <1>3, ModuloType DEF Max32
<1> HIDE DEF up, down
<1>5. Max32(up, n) >= n /\ Min32(down, n) <= n
    BY <1>4 DEF Max32, Min32
<1>6. /\ getReplicaCountUpscale(n, ready, spec, usage, high) = Max32(up, n)
      /\ getReplicaCountDownscale(n, ready, spec, usage, low) = Min32(down, n)
    BY DEF getReplicaCountUpscale, getReplicaCountDownscale, adjustReplicaCountForUpscale,
           adjustReplicaCountForDownscale, up, down
<1> QED
    BY <1>5, <1>6 DEF getReplicaCount, Calculation

\* n replicas bring a load down to a watermark.
Enough(load, n, den, mark) == load <= n * den * mark

\* Above the high watermark the proposal is the current count, or the least multiple
\* of the modulo that is enough, if there is an int32 for it (getReplicaCountUpscale).
LEMMA UpscaleLeast ==
    ASSUME NEW spec, SpecType(spec), NEW n \in Nat, NEW ready \in Nat,
           NEW usage, usage.num \in Nat, usage.den \in Nat \ {0}, NEW high \in Nat \ {0},
           (ready * usage.num) \div (usage.den * high) < Int32Max - spec.modulo
    PROVE  LET p == getReplicaCountUpscale(n, ready, spec, usage, high)
           IN  \/ p = n /\ Enough(ready * usage.num, p, usage.den, high)
               \/ /\ p % spec.modulo = 0 /\ Enough(ready * usage.num, p, usage.den, high)
                  /\ \A k \in n..(p - 1) :
                        k % spec.modulo = 0 => ~Enough(ready * usage.num, k, usage.den, high)
<1> DEFINE load == ready * usage.num
           q == usage.den * high
           c == (load + q - 1) \div q
           y == roundReplicaCountToAbsoluteModulo(c, spec)
           p == getReplicaCountUpscale(n, ready, spec, usage, high)
           E(k) == Enough(load, k, usage.den, high)
<1>1. load \in Nat /\ q \in Nat \ {0} /\ spec.modulo \in Nat \ {0}
      /\ load \div q < Int32Max - spec.modulo /\ Int32Max \in Nat
    BY Int32Assumption DEF SpecType
<1>2. \A k \in Int : E(k) <=> load <= k * q
    BY DEF Enough
<1>3. p = Max32(roundReplicaCountToAbsoluteModulo(Ceil32(load, q), spec), n)
    BY DEF getReplicaCountUpscale, adjustReplicaCountForUpscale
<1> HIDE DEF load, q, p, E
<1>4. /\ c \in Nat /\ load <= c * q
      /\ \A k \in Int : load <= k * q => c <= k
    BY <1>1, CeilingIsLeast
<1>5. c <= load \div q + 1
    <2> DEFINE d == load \div q
    <2>1. d \in Nat /\ load % q \in Nat /\ load % q < q /\ load = d * q + (load % q)
        BY <1>1, QuotientAndRemainder
    <2>2. (d + 1) * q = d * q + q /\ d * q \in Int
        BY <1>1, <2>1
    <2>3. load <= (d + 1) * q
        BY <1>1, <2>1, <2>2
    <2> QED
        BY <1>4, <2>1, <2>3
<1> HIDE DEF c
<1>6. c + spec.modulo <= Int32Max
    <2>1. load \div q \in Nat
        BY <1>1, QuotientAndRemainder
    <2> QED
        BY <1>1, <1>4, <1>5, <2>1
<1>7. Ceil32(load, q) = c
    BY <1>1, <1>4, <1>6 DEF Ceil32, ToInt32, c
<1>8. /\ y \in Nat /\ c <= y /\ y % spec.modulo = 0
      /\ \A k \in Nat : k % spec.modulo = 0 /\ c <= k => y <= k
    BY <1>1, <1>4, <1>6, RoundedIsLeast
<1> HIDE DEF y
<1>9. p = IF y < n THEN n ELSE y
    BY <1>3, <1>7 DEF Max32, y
<1>10. \A k \in Nat : c <= k => E(k)
    <2> SUFFICES ASSUME NEW k \in Nat, c <= k PROVE E(k)
        OBVIOUS
    <2>1. c * q <= k * q /\ c * q \in Int /\ k * q \in Int
        BY <1>1, <1>4, Monotone
    <2> QED
        BY <1>1, <1>2, <1>4, <2>1
<1>11. CASE y < n
    <2>1. p = n /\ E(p)
        BY <1>4, <1>8, <1>9, <1>10, <1>11
    <2> QED
        BY <2>1 DEF E, load, p
<1>12. CASE ~(y < n)
    <2>1. p = y /\ E(p)
        BY <1>4, <1>8, <1>9, <1>10, <1>12
    <2>2. \A k \in n..(p - 1) : k % spec.modulo = 0 => ~E(k)
        BY <1>2, <1>4, <1>8, <2>1
    <2>3. p % spec.modulo = 0
        BY <1>8, <2>1
    <2> QED
        BY <2>1, <2>2, <2>3 DEF E, load, p
<1> QED
    BY <1>11, <1>12

\* Inside the watermarks a step down leaves enough replicas for the high watermark, and
\* a step up not too many for the low one, for a target inside minReplicas..maxReplicas
\* and if there is an int32 for twice its ready pods
\* (tryToConvergeToWatermarkForUsage).
LEMMA ConvergeInside ==
    ASSUME NEW spec, SpecType(spec), NEW n \in Nat, NEW ready \in Nat,
           NEW usage, usage.num \in Nat, usage.den \in Nat \ {0},
           NEW low \in Nat, NEW high \in Nat, ~AboveHighMark(spec, usage, high),
           InBounds(spec, n), 2 * ready <= Int32Max
    PROVE  LET p == tryToConvergeToWatermarkForUsage(n, ready, spec, usage, low, high)
           IN  /\ p < n => n - p <= spec.modulo /\ Enough(ready * usage.num, p, usage.den, high)
               /\ p > n => p - n = spec.modulo /\ ready * usage.num >= p * usage.den * low
<1> DEFINE load == ready * usage.num
           min == Max32(spec.minReplicas, 1)
           qh == usage.den * high
           ql == usage.den * low
           lower == IF high = 0 THEN n ELSE Cap(Ceil32(load, qh), min, spec.maxReplicas)
           upper == IF low = 0 THEN n ELSE Cap(Floor32(load, ql), min, spec.maxReplicas)
           down == Max32(n - spec.modulo, 1)
           up == n + spec.modulo
           p == tryToConvergeToWatermarkForUsage(n, ready, spec, usage, low, high)
<1>1. /\ load \in Nat /\ qh \in Nat /\ ql \in Nat /\ spec.modulo \in Nat \ {0} /\ min \in Nat
      /\ min <= n /\ n # 0 /\ n <= spec.maxReplicas /\ spec.maxReplicas \in Nat
      /\ Int32Max \in Nat
    BY Int32Assumption DEF SpecType, InBounds, Max32
<1>2. \A k \in Int : /\ Enough(load, k, usage.den, high) <=> load <= k * qh
                     /\ k * usage.den * low = k * ql
    BY DEF Enough
<1>3. p = tryToConvergeToWatermark(n, spec, lower, upper)
    BY DEF tryToConvergeToWatermarkForUsage
<1> HIDE DEF lower, upper, p
<1>4. \/ p = n
      \/ p = down /\ ~(down < lower)
      \/ p = up /\ ~(up > upper)
    BY <1>3 DEF tryToConvergeToWatermark
<1>5. down \in Nat /\ down <= n /\ n - down <= spec.modulo /\ up \in Nat /\ up - n = spec.modulo
    BY <1>1 DEF Max32
<1> HIDE DEF down, up, load, qh, ql, min
<1>6. ASSUME p = down, ~(down < lower), p < n
      PROVE  load <= p * qh
    <2>1. high # 0 /\ qh \in Nat \ {0}
        BY <1>1, <1>6 DEF lower, qh
    <2> DEFINE c == (load + qh - 1) \div qh
    <2>2. /\ c \in Nat /\ load <= c * qh
          /\ \A k \in Int : load <= k * qh => c <= k
        BY <1>1, <2>1, CeilingIsLeast
    <2> HIDE DEF c
    <2>3. load <= (2 * ready) * qh
        <3> DEFINE t == (high * spec.tolerance) \div 1000
        <3>1. t \in Nat /\ t <= high
            <4>1. high * spec.tolerance \in Nat /\ high * spec.tolerance <= high * 1000
                BY DEF SpecType
            <4> QED
                BY <4>1
        <3>2. usage.num <= usage.den * (high + t)
            BY <3>1 DEF AboveHighMark
        <3> HIDE DEF t
        <3>3. usage.den * (high + t) <= 2 * qh
            BY <3>1 DEF qh
        <3>4. usage.num <= 2 * qh
            BY <1>1, <3>1, <3>2, <3>3
        <3>5. ready * usage.num <= ready * (2 * qh)
            BY <1>1, <3>4
        <3>6. ready * (2 * qh) = (2 * ready) * qh
            BY <1>1
        <3> QED
            BY <3>5, <3>6 DEF load
    <2>4. c <= 2 * ready
        BY <2>2, <2>3
    <2>5. Ceil32(load, qh) = c
        BY <1>1, <2>1, <2>2, <2>4 DEF Ceil32, ToInt32, c
    <2>6. c <= down
        BY <1>1, <1>5, <1>6, <2>1, <2>2, <2>5 DEF lower, Cap, Max32, Min32
    <2>7. c * qh <= down * qh /\ c * qh \in Int /\ down * qh \in Int
        BY <1>1, <1>5, <2>2, <2>6, Monotone
    <2> QED
        BY <1>1, <1>6, <2>2, <2>7
<1>7. ASSUME p = up, ~(up > upper), p > n
      PROVE  p * ql <= load
    <2>1. low # 0 /\ ql \in Nat \ {0}
        BY <1>1, <1>5, <1>7 DEF upper, ql
    <2> DEFINE f == load \div ql
    <2>2. f \in Nat /\ f * ql <= load
        BY <1>1, <2>1, FloorIsBelow
    <2> HIDE DEF f
    <2>3. Floor32(load, ql) = ToInt32(f)
        BY <2>1 DEF Floor32, f
    <2>4. up <= ToInt32(f)
        <3>1. ToInt32(f) \in Int
            BY <1>1, <2>2, Int32Assumption DEF ToInt32
        <3> QED
            BY <1>1, <1>5, <1>7, <2>1, <2>3, <3>1 DEF upper, Cap, Max32, Min32
    <2>5. up <= f
        BY <1>1, <1>5, <2>2, <2>4, Int32Assumption DEF ToInt32
    <2>6. up * ql <= f * ql /\ up * ql \in Int /\ f * ql \in Int
        BY <1>1, <1>5, <2>2, <2>5, Monotone
    <2> QED
        BY <1>1, <1>7, <2>2, <2>6
<1>8. p \in Int
    BY <1>1, <1>4, <1>5
<1>9. p < n => n - p <= spec.modulo /\ Enough(load, p, usage.den, high)
    BY <1>1, <1>2, <1>4, <1>5, <1>6, <1>8
<1>10. p > n => p - n = spec.modulo /\ load >= p * usage.den * low
    <2> SUFFICES ASSUME p > n
                 PROVE  p - n = spec.modulo /\ load >= p * usage.den * low
        OBVIOUS
    <2>1. p = up /\ ~(up > upper)
        BY <1>1, <1>4, <1>5
    <2>2. p * ql <= load /\ p * usage.den * low = p * ql
        BY <1>2, <1>7, <1>8, <2>1
    <2>3. p * ql \in Int
        BY <1>1, <1>8
    <2>4. load >= p * usage.den * low
        BY <1>1, <2>2, <2>3
    <2> QED
        BY <1>5, <2>1, <2>4
<1> QED
    BY <1>9, <1>10 DEF p, load
================================================================================
