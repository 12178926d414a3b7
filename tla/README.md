# WatermarkPodAutoscaler: models, checks and proofs

TLA+ models of the WatermarkPodAutoscaler (WPA) controller, model-checked with TLC
on small instances and proved with TLAPS where the result matters for every value of
the constants. Paths below are relative to the repository; `C` is
`controllers/datadoghq/watermarkpodautoscaler_controller.go` and `RC` is
`controllers/datadoghq/replica_calculator.go`.

## 1. Inventory

The controller watches WPA objects. For each, a worker reads the object from the
informer cache, makes sure it carries the finalizer and its defaults, refuses an invalid
spec, asks an optional DatadogMonitor, reads the scale of the target, computes a
proposal from metrics or from a recommender, limits it by the rules of the spec, writes
the scale and then the status, and asks to be called again after the sync period.

| Component | State it keeps | Operations | Module |
|---|---|---|---|
| Reconcile loop (`C`: `Reconcile`, `reconcileWPA`) | nothing between calls but the status it wrote | read, decide, update scale, update status | `Reconciler` |
| Scaling rules (`C`: `convertDesiredReplicasWithRules`, `shouldScale`, `canScaleAfterDelay`, the override switch) | none | limits, windows, delays, overrides | `ScalingRules` |
| Condition history (`C`: `setConditionInList`) | transition times in the status | remember since when a metric is out of bounds | `Reconciler`, `DelayHistory` |
| Replica calculator (`RC`, `computeReplicas*` of `C`) | none | proposals from external metrics, resource metrics, a recommender | `ReplicaCalculator`, `Calculator` |
| Pod readiness (`RC`: `getReadyPodsCount`, `groupPods`, `checkOwnerRef`) | none | count the pods | `PodReadiness` |
| int32 arithmetic (`pkg/math32`) | none | round, convert, modulo | `Math32` |
| Defaulting and validation (`apis/.../watermarkpodautoscaler_default.go`, `fillMissingWatermark`) | the spec | default, check, fill in | `WpaSpec` |
| Lifecycle (`finalizer.go`, `updatePredicate`, the front of `Reconcile`) | finalizer, deletion mark, work queue, cache | create, edit, delete, deliver, handle the event, finalize, default, refuse | `WpaLifecycle` |
| Prometheus metrics (`metrics.go`, the gauges set in `C` and `RC`) | the series in the registry | set per metric, remove on finalization, on a change of the spec, on a missing value | `MetricSeries` |
| TLS certificate cache (`tls.go`) | entries with their certificate or error and two times | look up, load, store, evict | `TlsCertificateCache` |
| Recommender client (`recommender.go`, `mergeTLSConfig`) | one transport, its TLS configuration and kept connections | request, dial, handshake, answer, fail | `RecommenderClient` |
| kubectl dry-run plugin (`cmd/kubectl-wpa/app/dryrun`) | the csv backup | list, enable, disable, revert | `DryRunPlugin` |
| `main.go`, metrics client, skeleton recommender, generated code | - | - | not modelled, section 8 |

**Interactions.** The worker shares with everybody else only objects in the API
server, and both its writes carry the version it read: the scale of the target, and
the status of the WPA. What one reconciliation knows of the previous ones is what the
status says, and it reads the status from a cache that lags. The event filter and the
queue decide whether there is a next reconciliation at all. Workers for different WPAs
share the Prometheus registry, the certificate cache and the HTTP transport; the event
handler of the informer removes series that a worker may be setting. The plugin is one
more client that edits `dryRun`.

**What is hard.** (1) Scale and status are two writes: a conflict, a crash or a lost
answer between them loses the scaling event. (2) The cache is stale exactly after the
controller's own writes. (3) Users edit the WPA and scale the target at any time. (4)
Timestamps are stored in whole seconds. (5) Quotients of usage and watermark may be
infinite, undefined or beyond int32. (6) Panics are swallowed by `reconcileWPA`, end the
process in an event handler, and become errors elsewhere. (7) An invalid WPA leaves the
queue, and the filter passes only changes of the spec. (8) Loading a key pair reads two
files that are being renewed, outside the lock of the cache, while entries are evicted.
(9) The TLS configuration is a field of a transport that all requests share. (10) The
plugin patches from copies that get old while it goes through its list.

**What makes it correct.** Writes within the bounds and the velocity limits of the spec
that the decision was made from, on the count the target really has; windows and delays
honoured once recorded; recorded times that never move back; out-of-bounds targets
repaired; proposals that never work against the metric and are minimal; users' edits
preserved; every spec looked at; deleted objects gone, and their series with them; the
series of a live spec always back in the end; certificates fresh and never torn; plugin
commands that take effect, touch nothing else and end wherever their input can be read. `PROJECT.json` lists each hazard
at its line.

## 2. Modules

```
Math32 <- ScalingRules <- WpaSpec <- WpaLifecycle <- MetricSeries <- MCMetricSeries
            ^      ^  \
            |      |   ScalingPolicy <.. (INSTANCE) .. PolicyRefinement
            |      |
  ReplicaCalculator   PodReadiness            TlsCertificateCache
     ^        ^          /                            ^
     |      Calculator <- MCCalculator         RecommenderClient <- MCRecommenderClient
     |
  Reconciler <- MCReconciler (with MCSpecs)
     ^
  PolicyRefinement <- MCPolicyRefinement
     ^
  DelayHistory <- MCDelayHistory              DryRunPlugin <- MCDryRunPlugin

Proofs:
  ReplicaCalculatorProofs <- ReconcilerProofs <- PolicyRefinementProofs <- DelayHistoryProofs
             ^
  CalculatorProofs        LifecycleProofs     RecommenderClientProofs     DryRunPluginProofs
```

Each proof module extends the module it is about (`LifecycleProofs` extends
`MetricSeries`, and so covers `WpaLifecycle` and `WpaSpec`; `RecommenderClientProofs`
covers `TlsCertificateCache`).

* **Math32** rounds exact quotients and converts them as the platform does (`NaN32`,
  `Overflow32`): amd64 turns what no int32 represents into the least int32, arm64
  saturates.
* **ScalingRules** and **ReplicaCalculator** are operators named after the Go functions.
  `computeReplicas` returns a set of one calculation, or the empty set when the Go
  function returns an error; `ComputePanics` says when it panics instead (a resource
  metric all of whose pods are ignored; a recommender without watermarks). `Superseded`
  is the loop of `computeReplicasForMetrics`, in which a proposal of 0 is replaced by
  whatever follows.
* **PodReadiness** counts pods; a name is the sequence of its parts between dashes,
  because the owner check strips the last one.
* **Calculator** is one calculation from any spec, scale, pods and values.
* **Reconciler** has one action per step of `Reconcile` between two points at which
  others can act. `pc` values: `fetched` (object read), `scaled` (scale read, `now`
  taken), `update` (decided to write the scale), `record` (status to be written by
  `reconcileWPA`), `retry` (that write failed and `Reconcile` tries again with the same
  instance), `failed` (scale write refused), `aborted` (an early return). `lastScaling`
  and `offered` are history: when the controller last changed the target, and the specs the
  WPA has had.
* **ScalingPolicy** is the abstract specification: no caches, versions, readings or
  worker, only a target that is moved by `Move`, and by others. A move repairs a target
  out of bounds or without replicas, or follows the metrics within bounds and velocity and
  after the forbidden window. **PolicyRefinement** states that `Reconciler` implements
  the policy under the mapping `spec <- wpa.spec`,
  `last <- lastScaling`, `Lax <- Faults # {}`. The strict policy (the latest spec decides,
  every window is kept) is what holds without faults. With them only the lax one does: a
  move may follow a superseded spec, and the window may be lost with the status write.
* **DelayHistory** adds to `PolicyRefinement` since when every computed reading was out of
  bounds.
* **WpaSpec** is a spec as a user writes it, with unset fields; **WpaLifecycle** the
  watch, the informer's cache and, behind it, its event handler with the filter, the queue,
  the finalizer, defaulting, refusal, and one call of `reconcileWPA`.
* **MetricSeries** conjoins to the actions of `WpaLifecycle` what they do to the series of
  the WPA, and makes `reconcileWPA` evaluate its metrics one by one (`Evaluate`), so that
  the event handler can remove series in between, and a panic can end the evaluation at
  a recommender without its watermarks or at a resource metric.
* **TlsCertificateCache** is the callback of a handshake in the steps between which the
  lock is not held (`Lookup`, `ReadCert`, `ReadKey`, `StoreEntry` or `Access`), the
  eviction loop (`Run`), and the files being renewed certificate first. A pointer to an entry that was
  replaced or evicted meanwhile is `current = FALSE`. A configuration may name no
  certificate; the load then fails, as reading the file "" does.
* **RecommenderClient** composes it with the requests: each replaces the configuration of
  the shared transport, then takes a kept connection to the same host or dials with
  whatever configuration is there by then, and a handshake that is asked for a certificate goes through the cache.
* **DryRunPlugin** reads copies and patches them later; a patch carries `dryRun` only if
  the copy has another value. `revert` reads its input line by line; where reading fails
  for another reason than a malformed line, the same read is tried again (`ReadError`), and
  `MediumChanges` lets that begin at any line, or end. `saved` and `disturbed` are history: what the backup stands
  for, and which WPAs a command cannot answer for.

The front (`WpaLifecycle`) and the back (`Reconciler`) are checked apart. They meet in
`SpecType`: that every spec that reaches `reconcileWPA` satisfies it is proved of
`WpaLifecycle` for the whole of `CrdSchema` (`UsableTheorem`), and `Reconciler` and
`Calculator` assume it of `Specs`. `Calculator` and `Reconciler` meet in the readings: what
`Calculator` counts and sums from pods and metric values has the type that `Reconciler`
assumes of its `Readings` (`ReadingsTheorem`).

## 3. Abstractions

* Resource versions are the Booleans "this copy is the latest" (`cacheFresh`,
  `instFresh`, `scaleFresh`): the API server accepts a write exactly when it is.
* The status is what later decisions read: `lastScaleTime` and the transition times of
  the two watermark conditions. A status is always written once a proposal was computed,
  because `ScalingActive` went to False and back with a new transition time; after an early
  return it may be unchanged and then it is not.
* A user's spec is a record of `CrdSchema`: what the API server lets pass, with `Nil` for
  unset pointers and `Empty` for an empty string.
* Quantities are milli-values; usage is an exact quotient instead of a float64. Metric
  values, watermarks and tolerances are not negative. Limit computations of
  `ScalingRules` stay within int32, which `maxReplicas` implies in practice.
* `Second` clock ticks make a second; `Persisted` cuts a time to whole seconds.
* A delayed requeue is a requeue. Refused updates in the lifecycle are conflicts; other
  API errors behave alike (error, requeue). There is no finalizer but the controller's.
* The API server, the watch, users, the target's controller, the CRD schema and the
  clock are modelled from how the code uses them and marked external.
* A certificate and its key are numbered pairs; what makes a load fail is a missing file
  or a mismatch. Unless `DiskFaults` has "slow", a renewal is over before the last of the
  five attempts of `retryLoadingX09Keypair` (200 ms), and the next one does not begin
  meanwhile: the premise of that function. A TLS configuration is its three files; server
  name, versions and InsecureSkipVerify (which `buildTLSConfig` does not pass on) are left out.
* A dial ends with its request. `net/http` may go on dialling for a request that was given
  up; for the cache that is one more handshake, like another worker's.
* A recommender that lacks only its high watermark sets the gauge of the low one before it
  panics; in `MetricSeries` neither is set.
* A series of family "wpa" stands for all that are labelled with the WPA alone,
  "watermarks" for the watermarks and the value of a metric.
* In `Calculator` the resource metric is CPU and the owner check is not skipped: the
  variants with more filtering.

## 4. Runs

| Run | Instance | Result |
|---|---|---|
| `faults` | two specs (one dry run), replicas 0/5, a reading above with some pods missing from the lister and one below, all five faults, clock 0..2, one intervention; 1.9 M states | the lax policy is implemented; bounds, velocity, recorded cooldown and monotonic `LastScaleTime` hold |
| `delay` | half-second clock 0..6, two specs with delays of 1 and 2 s, readings above, inside and below, one intervention, no faults; 554 k states | the strict policy is implemented; `Cooldown`, `DelayRespected` hold |
| `repair` | two specs with different bounds, external and resource metric, one reading that panics, replicas 1/6, every fault, crashes included; fair; 25 k states | `BoundsRestored` holds |
| `proposals` | 18 specs, 8 scales, all lists of up to 3 of 6 kinds of pods, 6 values, 16 recommendations, `Int32Max` = 30; 0.74 M states | `NeverAgainstTheMetric`, `UpscaleIsLeast`, `ConvergenceStaysInside`, `RecommendationFollowed`, `RatioIsAPercentage`, `ForeignPodsDoNotCount` hold |
| `lifecycle` | three specs (partial; complete with a second metric; malformed with another target), 3 user writes, 2 versions of lag, one crash; fair; 123 k states | finalizer, admission, edits, no wake-up lost, deletion of valid WPAs, every spec judged, series gone with the object and otherwise back in the end |
| `certificates` | two workers, a recommender with a certificate beside the CA file of the flags, three pairs (two renewals) of which two expire, three attempts, a file that may be missing, eviction; 3.1 M states | `FreshEnough`, `RenewalIsInvisible` hold |
| `plugin` | two WPAs, sequences of all commands, others' changes up to the bound, failing reads and patches, an input that cannot be read at first, or from some line on; fair; 99 k states | `CommandTakesEffect`, `OtherFieldsSurvive`, `CommandEnds` hold |
| `lost_cooldown` | one edit during a reconciliation | violated: finding 1 |
| `recommender_marks` | a recommender without watermarks; fair | violated: finding 2 |
| `invalid_deletion` | one invalid WPA, created and deleted; fair | violated: finding 3 |
| `cert_errors` | one worker, a renewal that takes longer than the retries | violated: finding 4 |
| `shared_transport` | two workers, the CA file of the flags, a recommender with a certificate and one without on one host | violated: finding 5 |

**Bounds.** `MaxClock` lets a window or delay start, run and be over with a scaling
inside it; `MaxEdits` = 1 in `Reconciler` puts one intervention at every point of every
reconciliation, and the controller's own writes and faults are not bounded. In `faults`
the crash may come at every step. `MaxEdits` = 3 and `MaxLag` = 2 in the lifecycle allow
create, edit and delete, or delete and create again, while the watch or the event handler
still holds versions from before. In `certificates` the clock passes the cache time, the
expiry of two certificates and an eviction, with two handshakes at any points of
their callbacks (three load attempts stand for the five of the code: a first, a middle and
a last one); the workers are interchangeable (symmetry), and the run checks no liveness.
Configurations without a certificate occur in `shared_transport` and in the proofs.
In `plugin` the input of `revert` changes at most `MaxEdits` times, so that in the end it
can be read or cannot. `Int32Max` = 30 makes quotients overflow with small numbers; the amd64
conversion is used, in which an overflow becomes negative and is hardest to survive. All
safety results of the passing runs are proved for all values of these constants (section 6). Deadlock is
not checked where the system may stop: a calculation that is over, a WPA that was
deleted or refused.

**Fairness.** `Reconciler`: the queue hands the object out again after every
reconciliation (`RequeueAfter` or the rate limiter), the steps of a started reconciliation
go on, the watch delivers, the target's controller follows (weak). Reading the scale,
computing a proposal and updating the scale may fail any number of times but not for
ever, and crashes do not hit the same step for ever (strong): the code retries for ever and
can promise nothing against a backend that never answers; and a reading that makes the calculator panic is not the only one that
ever comes. `WpaLifecycle`: the watch delivers, the event handler and the worker run
(weak); users and crashes are not fair. `MetricSeries` adds that a metric which is asked for
again and again has a value in the end (strong), for the same reason as above.
`DryRunPlugin`: a command that was started runs (weak); an input that cannot be read need
never become readable, and nothing is assumed of it.

## 5. Findings

1. **A conflict loses the cooldown** (`lost_cooldown`, `C:514`): `LastScaleTime` is written
   after the scale, and on a conflict the retry uses the same version.
2. **A recommender without its optional watermarks never scales** (`recommender_marks`,
   `C:842`): a nil dereference, swallowed in every reconciliation.
3. **A refused WPA cannot be deleted** (`invalid_deletion`, `C:216`): it is not in the
   queue, and the event filter drops the deletion mark; it would drop a resync as well.
4. **A certificate that failed to load once stays failed** (`cert_errors`, `tls.go:90`):
   entries with an error are not reloaded, and being used keeps them from eviction;
   `certificateErrorCacheTimeout` is not used.
5. **Requests travel with another recommender's TLS configuration** (`shared_transport`,
   `tls.go:45`): it is a field of the one transport all of them share.

The positive counterparts say how far the code does go: `CooldownOnceRecorded`,
`DeletionCompletes`, `FreshEnough`.

Some promises are stated with an exception because the code makes it, and the models
contain it:

* `WritesStayInBounds` and `Repairs` of the policy: a target that reports no replicas is
  set to 1, also below `minReplicas` (`C:463`), although the repository's README says
  that the bounds take precedence.
* `DelayRespected` begins after the first scaling event: before it `shouldScale` does not
  look at the delays (`C:553`), and the first reading out of bounds is followed at once.
* A metric of 0 that is not tolerated proposes the ready count (`RC:160`), which scales a
  target with unready pods down, although the comment there says it does not scale.
* `RecommendationFollowed` is about recommendations above 0 that can be rounded to the modulo
  within int32.
* `FinalizedLeavesNothing` is about the last spec and not about "info". `labels_info` and
  the upscale and downscale counters are never removed, as the labels of their `Delete` are
  not the ones they were set with. After a change of `scaleTargetRef` the series of the old
  target stay (`C:1056` says they "could not have changed"), and so does a dropped metric
  that a worker sets from its older instance after the event handler cleaned up.
* `CommandTakesEffect` leaves out WPAs that others switched after they were read, where the
  patch is empty: the plugin reports "now" a value the WPA does not have. A csv file whose
  first line has another number of fields than the rest makes every other line fail. `revert`
  insists on `-f`, although `docs/kubectl-plugin.md` pipes the backup into it.
* `CommandEnds` excepts an input of `revert` that stays unreadable: `runRevert` goes on after
  any error of `csvReader.Read` but the end of the file (`dryrun.go:337`), and so prints the
  same error for ever when `-f` names a directory or the disk fails. Without the exception
  TLC finds that loop. It is no finding of its own because no line of the repository says
  that `revert` ends.
* `SeriesComeBack` excepts a recommender without its watermarks (finding 2).

## 6. Proofs

Eight modules of proofs, all checked by TLAPS to the last leaf. Every theorem is about
every value of the constants; each inductive invariant was first checked by TLC on the
instances of section 4. The first table lists the properties of the runs.

| Theorem | Property | Beyond the run |
|---|---|---|
| `ReconcilerProofs`: `TypeCorrect`, `WritesInBounds`, `VelocityTheorem`, `CooldownTheorem`, `LastScaleTimeMonotonic` | `TypeOK`, `WritesStayInBounds`, `VelocityLimited`, `CooldownOnceRecorded`, `LastScaleTimeNeverGoesBack` | all specs with `SpecType`, counts, readings, subsets of the faults, clock resolutions and bounds |
| `PolicyRefinementProofs`: `Refinement` | `ImplementsPolicy` | the same; the strict and the lax policy in one theorem |
| `PolicyRefinementProofs`: `StrictCooldown` | `Cooldown` | the same, given `Faults = {}` |
| `DelayHistoryProofs`: `DelayTheorem` | `DelayRespected` | all delays, readings and clocks, given `Faults = {}` |
| `CalculatorProofs`: `DirectionTheorem`, `UpscaleTheorem`, `ConvergenceTheorem` | `NeverAgainstTheMetric`, `UpscaleIsLeast`, `ConvergenceStaysInside` | all specs, targets, pods and values; both platforms |
| `CalculatorProofs`: `RecommendationTheorem`, `RatioTheorem`, `ForeignTheorem` | `RecommendationFollowed`, `RatioIsAPercentage`, `ForeignPodsDoNotCount` | the same; all recommendations, lists of pods of any length |
| `LifecycleProofs`: `FinalizerTheorem`, `UsableTheorem`, `WakeUpTheorem`, `UserEditsTheorem`, `FinalizedTheorem` | `FinalizerHeld`, `AdmittedSpecIsUsable`, `NoWakeUpIsLost`, `UserEditsSurvive`, `FinalizedLeavesNothing` | every spec of `CrdSchema`, any number of edits, crashes and versions under way |
| `RecommenderClientProofs`: `FreshTheorem` | `FreshEnough` | any number of workers, files and pairs |
| `RecommenderClientProofs`: `RenewalTheorem` | `RenewalIsInvisible` | the same, for renewals faster than the retries, more than one attempt, and configurations that, where they name both files, name those of one pair (`KeysFit`) |
| `DryRunPluginProofs`: `EffectTheorem`, `SurviveTheorem` | `CommandTakesEffect`, `OtherFieldsSurvive` | any number of WPAs and of changes by others |

The hypotheses of a theorem are those under which its run passes, and where they fail a
run shows it: `lost_cooldown` is `Cooldown` with one conflict; "slow" in `DiskFaults` (as in `cert_errors`)
is a renewal that outlasts the retries.

**The reconcile loop** (`Invariance`, `Spec => []IInv`). `IInv` adds to the types:

* `CopiesAgree`: a fresh cache equals the stored object, a fresh scale the target, and a
  fresh instance has a `LastScaleTime` no older than the stored one: why the version check
  of a write says something about the count or status it replaces;
* `TimesInOrder`: no recorded time is ahead of the clock, and stored times are whole
  seconds, so that writing one back does not round it down again;
* `DecisionStands`: while a scale waits to be written, if the copy of the scale is still
  fresh, the count is the forced one of a target out of bounds, or respects bounds and
  velocity for the target as it is, and the window was over. It carries the facts
  established by `Decide` across the steps of others to `UpdateScale`.

`DecisionIsSound` derives from lemmas on the calculator (a proposal and its ready count are
integers) and on the rules (`NormalizedCount`) that `Decide` establishes `DecisionStands`;
the other actions keep it because they leave the worker alone or clear a freshness flag;
`ScalingStep` and `CooldownStep` read off what a write does. `PersistedTime` bounds the
rounding of times.

**The refinement** (`RefinementInvariance`). `RInv` adds to `IInv` that every copy's spec is
one that users gave (`SpecsOffered`: the lax policy lets a move follow a superseded spec,
never an invented one), that without faults the instance at work is the stored object
(`InstanceIsLatest`: the strict policy decides by the latest spec), and that without faults
the last scaling event is in the stored status or about to be written by the worker that
made it (`EventRecorded`: no window is lost). Then initial states map to initial states, a
scale update maps to `Move`, the steps of others to theirs, and everything else stutters.

**The delays.** `HInv` relates the history to the status: `StatusKnows` says that the stored
status, or from the computation of a reading until the status write the instance's, dates
an out-of-bounds condition no earlier than the history does, rounded to a second;
`DelayStands` keeps what `Decide` found until the scale is written.

**The calculator.** `ReplicaCalculatorProofs` holds lemmas about the operators: rounding up
a quotient yields the least count that is enough (`CeilingIsLeast`), rounding to the modulo
the least multiple (`RoundedIsLeast`), and from these `UpscaleLeast`, `ConvergeInside` and
`RightDirection`. `CalculatorProofs` adds `CalcInv` (a proposal is what `computeReplicas`
returns for the inputs), that the counts of pods are naturals, that there is at most one
proposal (`OneProposal`), and how the loop over several
metrics picks a proposal (`ProposalFacts`: a superseded proposal is not above 0, and a metric
above its watermark proposes more than that). The proofs showed two conditions that the
small instance had hidden and that the properties now state: with a high watermark of 0 the
quotient is infinite, and on amd64 the proposal stays at the current count whatever the
load; and
with more than `Int32Max / 2` ready pods the ceiling of a usage inside the tolerance may have
no int32, which on amd64 lets any step down pass.

Three results are about the pods behind the counts. A pod is in one group at most
(`CountFacts`), so the ready share is a percentage and its divisor not 0 wherever it is
computed. Dropping the pods of others renumbers the rest; the renumbering is a bijection
between the pods counted before and after, so all counts are the same
(`ForeignTheorem`). And a sum of naturals over a finite set is a natural: a set of indices
for which it is not would have a least subset like it, as strict inclusion of finite sets is
well founded, and taking one element from that leads to a contradiction. This takes the place of an
induction, and with it `ReadingsTheorem` shows that the calculator is called with readings
as `Reconciler` assumes them.

**The lifecycle.** `LInv` consists of: `WatchEndsWithObject` (what the informer has, or will
receive last, is the stored object); `FreshIsLatest` (a fresh instance is the stored object,
so an accepted write loses no edit); `ActiveIsProtected` (while a version with the
finalizer and without deletion mark can still be read, the stored object has the
finalizer: the object may be deleted and created again, but only once those versions have been
overtaken); and the two properties themselves. `UsableTheorem` goes through
defaulting, validation and the filling in of watermarks for all of `CrdSchema`.
`WakeUpTheorem` has an invariant of its own, `WakeInv`: `NoWakeUpIsLost` with `SpecsFollow`,
which says of every version that the informer has or will get that its spec is the stored
one or that a later version will reach the queue. It is needed where the worker reads the
object and the wake-up leaves the queue: what it reads is then the latest spec or not the
last wake-up. A refused write goes back to the queue, a spec that was read is judged or
requeued, and a valid one is requeued after every call, which is the part of
`EverySpecIsJudged` and `DeletionCompletes` that does not need fairness.
`SeriesLifecycle` shows that `MetricSeries` refines `WpaLifecycle`, so that `LInv` carries over
to `FinalizedTheorem`.

**Certificates and requests.** `CInv`: a pair is in one file at most (`DiskFits`); a cached
certificate was in its file when its entry is dated (`EntryFits`: the callback takes the
time before it reads, so a late store cannot make an old certificate look new); what a
callback holds was there during the callback or, from the cache, at most the cache time
before (`CallFits`). `MInv` says of the last attempt that the key still belongs to the
certificate it read, of earlier ones nothing. Nothing is proved of `OwnConfiguration`: it
does not hold.

**The plugin.** `PInv`: the lines of the backup are what was saved unless edited by hand
(`FileFits`), what a command has still to do is for the value it wants (`WorkFits`), its copies
show the WPA unless others switched it (`CopiesFit`), and where nothing is left to do the
value is the wanted one (`DoneFits`). An input that breaks off takes lines away and marks
their WPAs as skipped, which keeps all four.

Assumptions, which TLC evaluates in the runs: `Int32Assumption` (one of the two platforms),
`SecondAssumption`, `ReconcilerAssumption` (types, and specs with `SpecType`),
`CalculatorAssumption` (the same; no metrics beside a recommender, which `CheckWPAValidity`
refuses; a target that is not at zero, which `reconcileWPA` does not compute for; values, the pods'
metrics and recommendations are naturals), the assumption of `WpaLifecycle` (users' specs pass the
schema), `CertificateAssumption` (certificate and key files are different and have names, and no two
certificates have the same key file) and `RecommenderAssumption` (configurations name files
that exist in the model or none; flags count as a configuration when they name a CA or a
certificate, and `main` refuses a certificate without a key).

## 7. Only model-checked

* Liveness (`BoundsRestored`, `DeletionCompletes`, `EverySpecIsJudged`, `SeriesComeBack`,
  `CommandEnds`) and everything about fairness is out of the prover's reach. What of it
  is safety is proved for the lifecycle: `WakeUpTheorem`.
* The five violations, which are about one instance each.

## 8. Not modelled

* The metrics client (third-party code that fetches values: its results are the readings)
  and `main.go`: input/output and wiring. Several replicas of the controller are excluded
  by leader election.
* Values of Prometheus gauges, events and log lines: output. The metrics about requests to
  recommenders.
* Status conditions that no decision reads, among them the reason that
  `SkipNotScalingEvents` overwrites (`C:503`); `ScalingEventsCount`.
* Protobuf requests and answers of `recommender.go`; which roots are trusted when a CA file
  cannot be read (`tls.go:171`).
* Flags, help texts and output formats of the plugin other than csv.
* A watch that breaks and is listed again without a restart of the process.
* Skeleton recommender, generated and vendored code.

## 9. Plan

Done in this order: `Math32`, `ScalingRules`, `ReplicaCalculator`, `PodReadiness`,
`Reconciler`, `Calculator`, `DelayHistory`, `WpaSpec`, `WpaLifecycle`, `ReconcilerProofs`;
then `ScalingPolicy` and `PolicyRefinement`, `TlsCertificateCache` and `RecommenderClient`,
`DryRunPlugin`, `MetricSeries`; then the proofs of the refinement, the delays, the lifecycle,
certificates and requests, the plugin and the calculator; then recommendations, ready shares,
foreign pods and sums in the calculator, and wake-ups; then the input of `revert`, kept
connections by host, configurations without a certificate, and panics between the series.

Considered and left out:

* `DelayRespected` with faults. It does not hold: a lost status write may lose a transition
  time, which lengthens the delay, or the end of a stay out of bounds, which shortens it.
* `OwnConfiguration` with different configurations and one worker. `net/http` goes on dialling
  in the background for a request that was given up, and takes the configuration when the
  handshake begins; a claim for one worker would depend on that library's
  internals.
* Properties for three hazards: that a metric of 0 leaves the target alone (`RC:160`) and that
  no series of a former target stays (`C:1057`) do not hold, as section 5 says; which roots
  are trusted (`tls.go:171`) is not in the model.
