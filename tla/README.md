# Formal model of kube-accelerator-sim

TLA+ modules that model the run-time core of kube-accelerator-sim ("kasim"),
the TLC configurations that check them, and theorems about them proved with
TLAPS. Paths below are relative to the repository root (`src/`).

kasim makes a Kubernetes cluster look as if it had accelerator Nodes. A client
submits a *Scenario*; the *Scenario Control Plane* keeps it as a revision of a
`ScenarioInstance`; the *Instance Reconciler* converges *Synthetic Nodes*, their
Leases and their advertised resources towards the latest revision, stage by
stage; KWOK keeps the Nodes alive; the scheduler places unowned Pods on them.

## 1. Inventory

| Component | Source | State it keeps | Operations | Model |
|---|---|---|---|---|
| Instance Reconciler | `internal/reconcile/reconcile.go` | none between passes; a pass holds the record it read, the observation and the stage it executes | `Reconcile`: observe, choose one stage, execute, commit | `InstanceReconciler` (scheduling mode), `DRAReconciler` (DRA mode) |
| Kubernetes cluster adapter | `internal/cluster/kubernetes/adapter.go`, `internal/cluster/cluster.go` | the Nodes, Leases and DRA objects of the cluster | `Observe`, `Execute` (waves of single-object requests), `Discover`, `Connect` | the same two |
| Status writer, delivery | `internal/reconcile/kubernetes/*.go` | shared cache, workqueue | `Commit`, finalizer removal, `Reconcile` of a queue key, requeue | `InstanceReconciler` |
| Controller process | `cmd/kasim-controller/main.go` | the process | start, stop, overlap during a rollout | `InstanceReconciler` |
| Scenario Control Plane (Kubernetes) | `internal/controlplane/kubernetes/kubernetes.go` | the `ScenarioInstance`: spec, generation, UID, resourceVersion, finalizer | `Read`, `Submit`, `Delete`, `Watch` | `RevisionSubmission`, `InstanceWaits` |
| Scenario Control Plane (memory) | `internal/controlplane/memory/memory.go` | revision log, status, bounded watch history | the same | `ScenarioControlPlane`, `InstanceWaits` |
| Scenario Runtime | `internal/application/*.go` | none; a call holds what it read | `PreflightApply`, `Apply`, `Delete`, `Observe` and their waits | `RevisionSubmission`, `InstanceWaits` |
| Scenario compiler, `Revise` | `internal/scenario/compiler.go`, `internal/domain/scenario.go` | pure | compile, canonicalize, typed changes of health and scale | `ScenarioCompiler` |
| Catalog, profiles | `internal/catalog/catalog.go` | static data | load, validate, resolve | resolution in `ScenarioCompiler` |
| Projections | `internal/projection/**` | pure | project a Scenario on Nodes, pools, slices; assess | `Build` and what `Render` refuses in `ScenarioCompiler`; the assessments in the two reconcilers |
| Cluster inventory | `internal/inventory/**` | watched objects, a pending snapshot | list, watch, poll, publish | `InventoryStream`, `ConflatedFeed` |
| Inventory UI | `internal/ui/server.go` | the latest snapshot, open streams | snapshot and stream endpoints | `InventoryStream` |
| Vendor telemetry | `internal/telemetry/**`, `cmd/kasim-telemetry` | the rendered page and what is known of its source | refresh, join, expire, serve | `TelemetryRefresh` |
| KWOK runtime | `internal/runtime/kwok/**` | KWOK Stage objects | install, preflight | KWOK is environment; installation is not modelled |
| CLI, presentation | `internal/cli`, `internal/presentation`, `cmd/kasim` | none | flags, formatting | no (I/O) |
| Tools, oracles, API types | `internal/tools`, `test/oracle`, `api` | none | build, release, generated code | no |

**Interactions.** The Scenario Runtime (many clients) and the status writer
(one or more controllers) write the same `ScenarioInstance`, guarded by its
resourceVersion; the controller's cache learns of the writes later, through a
watch, and enqueues a key. A pass then talks to the cluster directly, one
request per object, each guarded by what the request itself re-reads. KWOK, the
scheduler, Pods, the garbage collector and administrators act on the same Nodes
and Leases between any two requests. Clients wait by reading and watching the
`ScenarioInstance`. Inventory and telemetry read the cluster on their own and
write nothing. The compiler runs twice: in the client, with the catalog of the
client's release, and in the controller, which compiles the stored text again
and compares the digest.

**What is hard.** An observation made of three lists is not a snapshot. A cached
instance lags. A stage half executed is all that a crashed process leaves. A
lost response leaves the caller not knowing whether a create or a delete was
executed. Two controllers overlap during a rollout (the chart's default has one
replica, no leader election and a rolling update). A Pod binding does not move
the Node's resourceVersion. A status commit moves the resourceVersion that a
client's submission depends on. A watch ends, breaks or expires, and the status it
would have shown may be of another generation or of another instance of the
name. A snapshot, a page or a status outlives the state it was made from.
`PROJECT.json` lists each of these at its line.

**What makes it correct** (specification identifiers of `docs/spec/v1.md`): generation
stamps are accepted generations (SAFE-001) and never go back (SAFE-001A); foreign
objects are never touched (SAFE-003/004); open Nodes are not deleted, nor Nodes whose
Pods a pass could know of (SAFE-005/006); the finalizer outlives every owned object
(SAFE-007); a retained Node keeps its identity (LIFE-008); Ready is true and current
(STAT-004); scheduling never sees a mixture of two inventories (section 6.2); the loop
converges and a deletion ends; a submission is accepted at most once and never
overwrites another client's revision (LIFE-002..006); a wait reports what happened,
and before its deadline (OUT-004, CLI-005); an inventory snapshot never goes back (ADR
0008); a simulated series expires with its Node (TEL-004, TEL-005); an allocated
device is not taken away (ADR 0003, DRA); canonical text is a fixed point (SCN-008)
and what is accepted can be built (SCN-012).

## 2. Plan

| # | Module | Subject | Composes / abstracts | Status |
|---|---|---|---|---|
| 1 | `InstanceReconciler` | passes of one or more controllers over the instance, its Nodes, Leases and Pods | environment: clients, KWOK, scheduler, garbage collector, faults | checked |
| 1a | `InstanceReconciler_proofs` | type invariant, fences, ownership, identity | extends 1 | proved |
| 1b | `SingleController_proofs` | what a pass knows: Ready, published inventory, replacement, deletion, Leases | extends 1a, 1c | proved |
| 1c | `BindingHistory` | the Pods as each pass listed them, a history variable | extends 1 | checked, proved (`SingleController_proofs`) |
| 2 | `ScenarioControlPlane` | abstract contract: every command is atomic | met by the memory adapter by construction | checked (as a property of 2a) |
| 2a | `RevisionSubmission` | clients: preflight, dry run, submission, retries, over the read-then-write Kubernetes adapter | implements 2 | checked |
| 2b | `RevisionSubmission_proofs` | type invariant, seven properties of 2a, the refinement 2a => 2 | extends 2a | proved |
| 3 | `InstanceWaits` | `waitForReady`, `waitForDeletion` over watches of either adapter | instance as in 1 and 2a, reduced to what a wait sees | checked, proved (`InstanceWaits_proofs`) |
| 4 | `ConflatedFeed` | abstract: a viewer may skip states and never goes back | | checked (as a property of 4a) |
| 4a | `InventoryStream` | source loops, publisher, server, viewers | implements 4 | checked, proved (`InventoryStream_proofs`) |
| 5 | `TelemetryRefresh` | refresh, staleness, join with desired generations | reconciler as environment | checked, proved (`TelemetryRefresh_proofs`) |
| 6 | `DRAReconciler` | the DRA stages of a pass, with the scheduler | what it adds to 1 | checked, proved (`DRAReconciler_proofs`) |
| 7 | `ScenarioCompiler` | compiler, typed changes, catalog resolution, `Build`, `Render` | clients of two releases and the controller | checked, proved (`ScenarioCompiler_proofs`) |

**Left.** Every safety and action property of the runs is proved, with the exceptions
that section 11.8 names. Installation of the KWOK stages (a prefix of them may be
applied) is not modelled.

## 3. `InstanceReconciler`: the convergence loop

One `ScenarioInstance`, the Nodes and Leases its Scenarios may name, and Pods
of other people.

| State | Code |
|---|---|
| `log`, `deleting`, `exists`, `status` | `spec.revisions`, `deletionTimestamp`, the ownership finalizer, `status` of the instance |
| `nodes`, `leases`, `births` | the objects of the cluster; an object is `Absent`, `Foreign` (not owned by the instance) or a record with its UID, generation label, identity labels, KWOK activation, cordon, readiness, extended resource and allocatable |
| `pods` | Pods the scheduler may bind |
| `cache[c]`, `queued[c]` | the shared informer cache of controller `c` and the key in its workqueue |
| `pc`, `record`, `seen`, `job`, `intent` | the pass of `c`: step, instance it read, observation, stage under execution, status it will commit |
| `faults` | faults still to inject |

A pass is `StartPass` (cached instance, list of Nodes), `ObserveLeases`,
`ObservePods` (list of Pods, choice of the stage), `Request(c, n)` for each
object of a wave, `EndWave`, `CommitStatus` or `CommitConflict`, and for a
finished deletion `RemoveFinalizer` or `FinalizerConflict`.

* `ConvergenceStages` and `DeletionStages` list the stages in the order in which
  `Reconcile` tries them; `FirstStage` takes the first that has a change, which
  is what the early returns of `Reconcile` do.
* A request re-reads the object, checks owner, generation and UID
  (`validateOwnedIdentity`, here `Exact`) and writes under the resourceVersion
  it has just read, so it is one step on the *current* object. What it writes
  was decided from the *observed* one.
* `EndWave` is the wave loop of `Execute` with `executeStage`: the first error
  ends the stage. A stale error requeues the key without committing anything;
  a retryable one commits `Failed` and requeues; a fatal one commits `Failed`
  and does not.
* `Commit` of the status writer compares the resourceVersion in the cached
  instance and at the API server; `fresh` says that a copy is the current one.
  A commit is itself an event that outdates the cache and wakes the queue.
  Times in a status have the granularity of a second, so a status may be written
  without being a change: `WriteStatus` allows both.
* `Crash` empties cache, queue and pass. `LoseResponse` applies a request or not
  and answers with a retryable error; `LoseObservation` fails a list.
* kube-scheduler chooses an open Node (`Schedule`) and binds the Pod by another
  request (`Bind`), which nothing stops when the Node is closed or gone meanwhile.
  `BindingHistory` adds `listed`, the Pods of each pass's observation, so that a
  deletion can be compared with what the pass could know
  (`OnlyBindingsInFlightAreLost`).
* External: `KwokReady`, `KwokLease` (KWOK creates an unowned Lease for an active
  Node that has none), `Schedule`, `Bind`, `FinishPod`, `CollectGarbage`,
  `Disturb` (manual changes).

Abstractions: quantities are the number of healthy devices; identity labels are
one catalog key per Node; taints and base capacity follow the labels and the
resource quantities in the code and are not separate state. `StartPass` fuses the
cached read and the Node list: the cache may lag arbitrarily, so nothing that
happens between the two is lost. Requests of a dead process that are still in
flight are covered by the runs with two controllers. Three paths are left out.
`Disturb` opens a Node by hand and never closes one, so an uncordon that is undone
between the list and the delete is not modelled. A request that meets one
conflict after the other exhausts `ownedMutationConflictBackoff` (`adapter.go:1087`,
`1466`) and fails; a pass fails the same way after a lost response that was not
applied. The second read before the finalizer is removed
(`reconcile/kubernetes/adapter.go:127`) may meet an instance that was created again
under the name: here an instance that is gone does not come back (`RevisionSubmission`
and `InstanceWaits` have the name reused).

## 4. `RevisionSubmission` and `ScenarioControlPlane`: changing an instance

`ScenarioControlPlane` is the promise of `internal/controlplane`: a command is
invoked, takes effect or is refused in **one** step, and is answered. It says when
a command may be accepted (`Acceptable`), is already done (`Redundant`) and which
errors are true (`Truthful`). The memory adapter does each command under its
mutex; the module's actions are its methods.

`RevisionSubmission` is what runs against Kubernetes. Clients call `apply`, a
typed change (`health`, `scale`) or `delete`. A call reads the instance
(`PreflightApply`, `ReadRevise`, `ReadDelete`), keeps it as the baseline, sends
the command as a dry run and then for good (`SubmitForGood`). The adapter
executes a command as a read with its checks (`Get`) and a guarded write (`Put`,
`PutRefused`); the receipt of a deletion comes from another read (`Reread`). When
the answer is a resourceVersion conflict of a revision, the runtime reads again,
compares with the baseline (`Undisturbed`) and retries (`Retry`) up to `Attempts`
times. `LoseAnswer` breaks the connection with the write applied or not.
`CommitStatus` and `CompleteDeletion` are the controller.

The variables of the contract (`object`, `births`, `version`, `command`,
`answer`) are variables of `RevisionSubmission` too, so the refinement mapping is
the identity: `AtomicCommands == Contract!Spec`. It says that the checks made
by `Get` still hold when `Put` writes, which is what the resourceVersion
precondition of the API request is for. `accepted` and `calls` are history and
bound.

Users name no instance (UID and generation absent) or one from any receipt ever
given, so names of instances that no longer exist and of superseded generations
are all tried. The creation identity is a constant of the command line and is
left out; so are connection, discovery and authorization, which have no state
of the instance, and cancellation by the user's timeout.

## 5. `InstanceWaits`: a client that waits

One waiting call (`apply`, `status --watch`, here `follow`, or `delete`) of
`internal/application/runtime.go` over one of the two control planes; other
clients and the controller change the instance meanwhile.

| State | Code |
|---|---|
| `object`, `events`, `births` | the stored instance; every event so far, numbered by resourceVersion; the UIDs given out |
| `compacted` | cursors below it have expired: the bounded history of `memory.go`, or compaction of etcd |
| `pc`, `wait` | the position in `waitForReady` or `waitForDeletion`, and its variables: `desired`, `latest`, `cursor`; `at` and `end` of the open stream |
| `late`, `verdict` | the context's deadline has passed; what the call returned |

`Judge` is what the loops do with a record: `readyState` (failure, blocked cleanup,
a later generation), then `isReady`. `OpenStream`, `Deliver` and `StreamEnds` are
`Watch`, `Next` with an event and `Next` with an error. `ReopenReady` and
`ReadForDeletion` are what the two loops do when a watch does not open or ends;
`StreamExpires` is `eventStream.expired`, which reads the instance and hands out its
version only. The memory adapter ignores the context, ends a stream after what its
history holds, and leaves no event of a completed deletion; the Kubernetes adapter
fails once the deadline has passed and may fail before (`Fails`).

The status is reduced to phase, `observedGeneration`, the condition
`CleanupBlocked`, and the generation it was committed for (`about`, in the code the
digest). `Statuses` is what `statusIntent` may commit. A revision leaves the status
of the generation before it in place, which is the hazard; it may be accepted of an
instance that is being deleted, since `Submit` does not ask.

## 6. `InventoryStream` and `ConflatedFeed`: the inventory

A loop per collection (`syncSource`) lists, watches, polls when watching is
forbidden, and backs off after an error. Each change of the shared state marks it
dirty; `publishLoop` waits (`Debounce`), copies (`Flush`) and replaces what the
collector has not taken yet; `Server.collect` replaces the latest snapshot
(`Collect`) and wakes the streams (`Look`). A collection is the number of states it
has had. A snapshot keeps the objects of a collection that stopped answering, and
what it says of them from themselves (readiness, capacity, the join with Scenarios)
stays known (`inventory.go:427`, `437`, `484`); requests and allocations are known only
while the Pods and the ResourceClaims are available (`inventory.go:382`). `Gated` are
these two collections, `known` those of them whose quantities a snapshot calls known,
and `available` the collections it reports available.
`ErrorState` is `sourceErrorState` with its three ages (`success`: never, recent,
old); `Age` is the passing of `staleAfter`.

`ConflatedFeed` is the promise: what a viewer is shown of a collection is a state the
collection had, not older than what it was shown before.
`SnapshotsMoveForward` says that the map `newest <- world`, `shown <-
view[v].objects` implements it.

What a snapshot says of each object (ownership, signals, devices, targets) is a
function of the objects and is left out, and so are HTTP, hosts and tokens.

## 7. `TelemetryRefresh`: simulated vendor telemetry

`Module.Run` refreshes on a ticker: `StartRefresh`, `ListInstances`, then
`ListNodes` with the join (`Joined`), the device budget and the new page, or
`RefreshFails`, which keeps the page and marks its source. A refresh also fails as a whole
when one instance with Nodes does not compile or build with the catalog of this
process (`Refused`, `Readable`). `Metrics`, `Readyz` and
`Shown` are what the handler answers, from the rendered state and its age. `Tick`
is one refresh interval; `StaleAfter` is at least two, as `parseOptions` demands. A
refresh may hang for `MaxDelay` intervals, since its context has no deadline of its own.

The environment revises and deletes instances and converges their Nodes as
`InstanceReconciler` does: `Changed` says which Nodes a generation changes, and a
Node that is left alone keeps its generation label. `gone` is a history variable.

## 8. `DRAReconciler`: the DRA mode

What `InstanceReconciler` does not have: one DeviceClass, ResourceSlices and
ResourceClaims. `class` is the generation the class was written for; a slice is its
Node, generation and shard, because its name contains them; `claims` are absent,
pending or the device they hold. `ConvergenceStages` and `DeletionStages` are the
stages in the order of `Reconcile` and `reconcileDeletion`: the inventory of the new
generation is published first, then Nodes that left are closed, then blockers are
looked for (`PodBlockers`, `ClaimBlockers`), and only then stale slices and Nodes go.
`Achieved` is `Assess`; it includes the assessment of the workloads.

A pass observes the inventory (`Observe`) and the claims (`ChooseStage`) in two
steps, since the code lists them one after the other and the scheduler allocates
in between. `Request` is one request of the stage, in any order; `Abort` is a failed
request or a restart. Labels, Leases, heartbeats and ownership are those of
`InstanceReconciler` and left out; there is one controller.

## 9. `ScenarioCompiler`: compile, revise, build

`Compile` is `compileRaw` with `compileGroup`, `compilePool` and
`compileAuxiliaryPool`: contracts are resolved against the catalog of a release, names
and resources must be unique in a group, counts in order, labels neither `Reserved`
nor those of a vendor identity, and the result is the canonical Scenario with its
groups and pools in the order of their names and every default written out. `Scale`
and `Health` are `Revise`, which changes one field of the current canonical document
and compiles it again.

`Project` is `Build` and `Render`, which the controller runs on an accepted revision.
A label of a contract has a key and a value: a static one, none (`Default`), or the
number of devices of the Node (`Total`). `VendorLabels` are those that the pools of a
group bring along: all of them when discovery is asked for, otherwise the keys of the
identity labels without values. `Buildable` is `checkVendorLabelCollisions` (labels with
a value must agree and must not be written in the group) with the checks of resources
and models; `Renderable` compares the labels without a value, too; `NodeLabels`
replaces what is written. Clients of two releases compile (`Apply`,
`TypedScale`, `TypedHealth`), one release being newer than the other (`Upgrade`).

Names are numbers in their order, resources and labels are model values; a digest is
the canonical document. Spelling of quantities and names, decoding and its limit of 1
MiB (`compiler.go:64`, which a canonical text may exceed when the written one does
not), node capacity, placement, taints and variants are copied by the code and left
out. What `slices.SortFunc` returns is stated by what it is (`ByName`: the elements of
the list with their names increasing), not by an algorithm; names that are unique make
it one list. `CompilerAssumption` says what decoding and the loading of the catalog
guarantee: documents and contracts are of the types `DocumentType` and `ContractType`,
and there are finitely many contracts.

## 10. Runs

| Run | Instance | Properties | What it shows |
|---|---|---|---|
| `core` (IRCore) | 1 controller, 2 names, 3 generations of scale, health and replacement, deletion, 1 Pod, 1 crash, lost response or foreign Node | `TypeOK`, `PublishedInventory`, `ReadyIsTrue`, `NoRuntimeLease`, `DeletionLeavesNothing`, `ReplacementBarrier` | staged convergence keeps its promises with one controller |
| `drift` (IRDrift) | 1 controller, 2 names of which one replaces the other, 2 generations, deletion, 1 Pod bound by a request of its own, `WaveSize` 1, 2 manual changes or crashes | `ForeignUntouched`, `OnlyBindingsInFlightAreLost` | drift and foreign objects; a delete spares open Nodes and every Pod that was listed |
| `live` (IRLive) | 1 controller, 2 names, 2 generations (scale up, scale down, replacement), `WaveSize` 1, 1 Pod, 1 crash or lost response, fairness | `Converges`, `DeletionEnds` | the loop comes to rest; a deletion ends |
| `overlap` (IROverlap) | 2 controllers, one name replaces the other | `FenceNeverRegresses`, `RetainedNodesSurvive`, `ReadyIsCurrent` | overlapping controllers respect the fence |
| `submission` (RSSubmission) | 2 clients, 4 calls, 3 Scenarios of 2 fidelity modes and 2 typed changes, 2 attempts, deletion and re-creation | `TypeOK`, `AcceptedRevisionsStay`, `NoRepeatedRevision`, `ReceiptsAreTrue`, `TypedRevisionsCompose`, `StatusDriftIsTolerated`, `WritesHitTheirTarget`, `DeletionIsNoticed`, `AtomicCommands` | no revision is lost, repeated, undone or misdirected; the adapter implements the contract although the name is reused |
| `waits` (IWWaits) | either adapter, any kind of call, 4 events, 2 instances of the name, history and batch of 2, 2 faults | `ReadyIsEarned`, `DeletionIsEarned`, `ReadyIsNoticed`, `DeletionIsNoticed`, `DeadlineEndsWaits` | success is true; what stays true is noticed; the deadline ends every wait |
| `inventory` (INInventory) | Nodes (watched or polled) and claims (missing or listed, gating allocations), 1 viewer, an outage or a broken watch | `SnapshotsMoveForward`, `ChangesAreShown`, `OutageIsShown` | refinement of the feed; changes and outages reach the viewer |
| `telemetry` (TRTelemetry) | 1 instance with 4 generations, one of which this process cannot compile, 2 Nodes, stale after 2 intervals, 1 fault, refreshes of up to 1 interval | `SeriesExpire`, `OutagesAreNoticed`, `RecoveryIsShown` | series expire, outages are marked, recovery is shown |
| `dra` (DRReconcile) | 2 names, 2 claims, 2 generations out of 3 Scenarios (two shards, two Nodes, another model with an unhealthy device), 1 failed pass | `TypeOK`, `AllocatedDevicesStay`, `ReadyInventoryIsExact`, `ConvergesWhenIdle` | no held device disappears; Ready is exact; the loop converges without claims |
| `compile` (SCCompile) | 2 releases, 4 contracts of 2 models with label values, documents of 1 or 2 groups, 3 revisions | `CanonicalIsFixed`, `SchedulingScenariosProject`, `TypedChangesAreExact` | compiler, typed changes, `Build` and `Render` agree |
| `relabel`, `dra_pending` | | `Converges`, `CompleteInventoryOpens` | violated: section 12 |

**Bounds.** `MaxGeneration` (3 or less) is enough for a pass of generation 1 to
meet objects of 2 and 3, and for a name to leave and return (A, B, A). `MaxFaults`
is 2 or less: one fault puts every step in doubt, the second hits the recovery.
`WaveSize` is 1 or 2 where the code has 32: what matters is that a stage may need
several waves (1) and that a wave has concurrent requests (2). Two names are
needed for a stage that is half done. The constraint `EarlyDeletion` of `overlap`
limits the incarnations of a name to 3, since two controllers may create and delete
it for ever, and looks at deletions that are requested before the second revision.
`Attempts` is 2 where the code has 8: the first retry and the exhausted budget both
occur. `MaxCalls` is the smallest number in which an instance is created, deleted
and created again while an old call is under way. In `waits` a history and a batch
of two make cursors expire and streams end with more to come; four events are
enough for create, revision, status and deletion, or for a second instance.
`MaxVersion` of a collection is enough for a viewer to skip a state (two for the Nodes).
`StaleAfter` is the least the code allows. In `dra` a pool of two devices with one
device per slice has two shards, so that a pool can be incomplete; an unhealthy
device is one the scheduler does not allocate. In `compile` two contracts of one
model make a model ambiguous and derive different values of a label in one release
and equal ones in the next, one label is derived without a value, and two models share
a resource. In `telemetry` the generation that does not compile is followed by one
that does, so that recovery is exercised. `live` and `drift` have two names with one
request per wave, so that a stage stops between its waves. Symmetry is over
clients, controllers and names, none of which a definition distinguishes; runs with
liveness use none.

**Fairness.** `live`: weak fairness of `CacheDeliver` (the informer's watch is
re-established), of `Pass` (workers take keys, requests are answered or time out),
of `KwokReady` and `CollectGarbage` (KWOK and the garbage collector run). Strong
fairness of a status commit that is not a change: the finalizer is removed in the
pass in which the cache still holds the current instance, which needs the commit
before it to be identical to the last one; the retries are fast, the time has the
granularity of a second, so it cannot be that the clock ticks between two passes
every time. `waits`: the client's goroutine goes on and its requests are answered
(`ClientStep /\ NoFault`); the deadline need not pass, faults need not happen.
`inventory`: the goroutines of loops, publisher and collector run, time passes
(`Age`), viewers read. `telemetry`: the loop runs, time passes, the controller
converges (which `live` justifies). `dra`: the controller works off its queue and
the scheduler serves a claim it can serve. No fairness of clients, Pods or faults.

**Deadlock** checking is off: when no key is queued, no call is allowed any more and
no fault is left, the system rests, which is what convergence means; a wait or
a chain of revisions that has ended rests as well.

## 11. Proofs

TLC finds every safety property below to hold of a small instance; the theorems hold
for every value of the constants that satisfies the named assumptions of the
modules, and the hypotheses stated here. In each module the property follows from
an inductive invariant, which `Init` implies and every action keeps.

### 11.1 The reconciler (`InstanceReconciler_proofs`)

For any set of names, controllers and Pods, any Scenarios, any number of
generations and faults, from the assumptions `ScenariosAssumption`,
`BoundsAssumption` and `ObjectsAssumption` of the model:

| Theorem | Property |
|---|---|
| `InductiveInvariant` | `Spec => []IInv` |
| `TypeCorrect` | `TypeOK` |
| `GenerationsAreAccepted` | `GenerationsBounded` (SAFE-001) |
| `FenceHolds` | `FenceNeverRegresses` (SAFE-001A) |
| `ForeignObjectsStay` | `ForeignUntouched` (SAFE-003/004) |
| `RetainedNodesStay` | `RetainedNodesSurvive` (LIFE-008) |

The properties are about one request; whether a request is justified was decided
steps earlier, from an observation, by a pass that may have been overtaken by other
generations. `IInv` therefore says of every controller what its pass may rely on
(`PassOK`): the record it works for is an accepted generation (0 before the first
read), what it has seen are objects with accepted generations, and each change
of its stage is one that generation asks for (`Justified`): a Node is updated or
created only if the generation wants it, deleted only if it does not or the
instance is being deleted. It adds that the objects carry accepted generations
(`GenerationsBounded`). `TypeOK` alone is not inductive for this: it does not
exclude a delete of a wanted Node left in a job.

The lemmas follow the pass: `ChosenStage` (what the first due stage asks for is
`Justified`), `RequestEffect` and `RequestOnNode` (what one request does to one
object, given `Exact`), `ObjectStep` (how any controller step may change an
object), `EnvironmentMoves` (which the other steps may). The four action
properties follow from `IInv` and these. `RetainedNodesSurvive` combines the
fence (a delete needs the stamp of the Node to be at most the generation of the
pass) with `Justified` (that generation does not want the Node), which
contradicts that every generation since the stamp wants it.

### 11.2 A single controller (`SingleController_proofs`)

A rollout may overlap two controllers; otherwise there is one. The module extends the
proof above with what a pass *knows*. Three hypotheses are named, and each theorem
has those without which it is false (section 12 has the counterexamples):

* `Solo`: there is one controller. A second one changes objects between an
  observation and the requests that follow from it.
* `Cordoned`: nobody opens a Node by hand (`kubectl uncordon`). A Node that is closed
  may be half converged.
* `Quiet`: only crashes and lost responses go wrong. When somebody deletes a Lease or
  makes a Node unready, an active Node is without its Lease, and Ready is not true,
  until the next pass.

| Theorem | Property | Hypotheses |
|---|---|---|
| `ReadyIsCurrentAlways` | `ReadyIsCurrent` | none |
| `OpenNodesArePublished` | `PublishedInventory` | `Solo`, `Cordoned` |
| `BarrierHolds` | `ReplacementBarrier` | `Solo`, `Cordoned` |
| `DeletionsSpareListedPods` | `OnlyBindingsInFlightAreLost` (SAFE-005; SAFE-006 as far as it holds) | `Solo` |
| `DeletionIsComplete` | `DeletionLeavesNothing` (SAFE-007) | `Solo` |
| `RuntimeLeasesNeverAppear` | `NoRuntimeLease` | `Solo`, `Quiet` |
| `ReadyMeansComplete` | `ReadyIsTrue` (STAT-004) | `Solo`, `Quiet` |

The invariants build on each other:

* `CInv` adds to `IInv` what a controller holds: a copy with the current
  resourceVersion *is* the instance, and the status it is about to commit is that of
  the generation it works for. `ReadyIsCurrent` follows, with any number of
  controllers.
* `FInv` says that an observation goes stale only in ways that are harmless
  (`NodeFollows`, `LeaseFollows`: what others may have done to an object since it was
  listed), and that each change a stage still has to make is `Due` by that
  observation. Without the second half a job left in the state could open a Node
  that was never seen converged.
* `DInv` adds the end of a deletion: once the finalizer is gone nothing is owned and
  each pass is one of the deletion, which creates nothing; a pass about to remove
  the finalizer has found nothing. The cache may still hold the instance then, and
  what excludes that such a pass creates an object is that its record says deleting.
* `Arrivals` is about the specification with history, `HSpec`: while a pass deletes
  Nodes, each of them that is still there is open (and its delete will be refused), or
  whatever Pod has it was on its way to it when the Pods were listed. The scheduler
  chooses open Nodes only (`PodStep`), so a Pod that arrives after the list can only be
  one whose Node was opened meanwhile. Nothing is assumed of binding or of manual
  changes; a Node that is opened and closed again is excluded by `Disturb` (section 3).
* `LInv` adds that an active Node has an owned Lease (`LeaseGuards`).
* `RInv` adds that, while the status says Ready for the last generation, the objects
  are at rest (`AtRest`) and whatever pass runs works for that generation and
  observes it (`ReadyOK`); `RestIsSatisfied` shows that such a pass has nothing to
  change. Without `ReadyOK` a pass that started earlier could still have requests.

### 11.3 Changing an instance (`RevisionSubmission_proofs`)

For any set of clients, Scenarios, typed changes and any numbers of attempts, calls
and status commits, from `SubmissionAssumption`: `Gone`, `NoContent`, `NoCommand`
and `NoChange` are not values of the sets they stand outside of, typed changes map
Scenarios to Scenarios of the same Fidelity Mode, and there is at least one attempt.

| Theorem | Property |
|---|---|
| `InductiveInvariant` | `Spec => []IInv` |
| `TypeCorrect` | `TypeOK` |
| `RevisionsStay` | `AcceptedRevisionsStay` (LIFE-003) |
| `RevisionsDiffer` | `NoRepeatedRevision` (LIFE-004) |
| `WritesHitTheirTargetAlways` | `WritesHitTheirTarget` (LIFE-005, CLI-010) |
| `TypedRevisionsComposeAlways` | `TypedRevisionsCompose` (ADR 0005) |
| `DeletionIsNoticedAlways` | `DeletionIsNoticed` |
| `ReceiptsAreTrueAlways` | `ReceiptsAreTrue` |
| `StatusDriftIsToleratedAlways` | `StatusDriftIsTolerated` |
| `CommandsAreAtomic` | `AtomicCommands`: `Spec => Contract!Spec` (LIFE-006) |

A client decides on a copy of the instance and writes later. What makes this sound
is `Remembered`: a copy that was read is an earlier state of the instance, so that
an instance with the same resourceVersion *is* the copy, and one with the same UID
has the copy's revisions as a prefix of its own. `RememberedStays` shows that every
move of the instance (`ObjectMoves`: unchanged, gone, or at the next
resourceVersion with the same UID and a longer log, or a new UID) keeps this for
every copy anyone holds. `PutIsCurrent` follows: when the precondition of the write
holds, the checks made on reading hold of the instance now (`Acceptable`), so the
write is the atomic command of the contract (`WriteMoves`). `Baseline` says the same
of the baseline of a call across retries: while the instance is at the
resourceVersion the call is bound to, no deletion began since the baseline was
read. `CheckIsTrue` and `RefusalIsTrue` show that a refusal names something that
does not hold at the moment of the answer. For receipts a second invariant, `RInv`,
relates the answers to the revisions that were accepted. For retries a third,
`DriftInv`, counts: a command is bound to a resourceVersion exactly when it names the
baseline, each attempt bound it to a later one (`Tracked`), and a conflict means
that the instance has another revision, is another one, or has moved past that
version (`Overtaken`). `IInv` alone does not exclude a conflict that comes from an
instance created under the name meanwhile, after which no retry would be allowed.

### 11.4 A client that waits (`InstanceWaits_proofs`)

From `WaitsAssumption` (the limits are positive; there are two adapters and three
kinds of wait). `WaitsHold` is `Spec => []IInv`; `ReadyWasEarned` and
`DeletionWasEarned` are `ReadyIsEarned` (OUT-004) and `DeletionIsEarned` (CLI-005).

`HistoryOK` is about the writers: an event is found at its version, the stored
record is the last event, no status observes a generation that is still to come, and
one that says Ready carries the digest of the generation it observes. `WaitOK` is
about the client: its cursor and the version of its stream are never before the
version at which the wait began (`CursorOK`), and the record an `apply` begins with
observes less than the generation it waits for (`StartIsTooEarly`). That last part
is the heart: an accepted revision leaves the old Ready in place, and the wait must
not take it for its own, however often the watch ends, expires or is opened again.
`Grows` (history is only appended to, UIDs are not reused) carries both over the
steps of other actors.

### 11.5 The feeds (`InventoryStream_proofs`, `TelemetryRefresh_proofs`)

`InventoryIsConflatedFeed` is `Spec => Feed!Spec`, the property
`SnapshotsMoveForward`, from `InventoryAssumption`. The invariant `Ordered`
(`CopiesAreOrdered`) orders the copies on the way to a viewer: view, latest
snapshot, copy in the channel, objects of the loops, collections. What could break
it is a loop that restarts and lists again; the proof uses that a loop moves its
objects only together with its version (`at = objects`). Each action then maps
to a step of the feed or stutters.

`SeriesAreBounded` is `SeriesExpire` (TEL-004/005), from `TelemetryAssumption`. A
page is joined from two reads up to `MaxDelay` intervals apart, while revisions,
deletions and the reconciler go on. `Joinable` says that what the second read would
join has been owned at some moment since the first one (`gone[n] <= took`), because
the join asks of an instance as listed what ownership asks of it as it is
(`JoinedWhenListed`), and only the reconciler makes a Node joinable afterwards, at a
moment at which the Node is owned (`ClusterStepKeeps`); `PageOK` then bounds `gone`
by the age of the page and one refresh.

### 11.6 The DRA mode (`DRAReconciler_proofs`)

From `DRAAssumption` (a positive slice size, at least one generation, and for each
pool a capacity in `Nat` of which at most all devices are healthy: what validation of a
pool guarantees).

| Theorem | Property |
|---|---|
| `TypeCorrect` | `TypeOK`, with the size of a slice and the disjointness of the slices of one generation |
| `DevicesStay` | `AllocatedDevicesStay` (ADR 0003) |
| `ReadyIsExact` | `ReadyInventoryIsExact` |

A pass reads the claims once and then deletes slices and Nodes while the scheduler
allocates. `AllocatedDevicesStay` is therefore not inductive. `DeletionsAreSafe`
supplies what is missing: while slices are deleted, an open Node is wanted, has all
its slices of the published generation and none of them is to go, so that the
scheduler, which uses the newest generation of a pool only, allocates what stays,
and every held device is in a slice that stays; while Nodes are deleted, they are
closed and hold no claim. `PassOK` and `JobOK` say what the observation still is
worth and where each kind of request comes from; `ReadyOK` does for Ready what
`RInv` does above. The order of the stages (publish, close, look for blockers,
delete) is exactly what the proof uses. That the slices of a generation are disjoint
and not larger than `SliceSize` is arithmetic of the shards (`SliceParts`,
`SlicesAreSmall`, `SlicesAreDisjoint`). TLC checked `IInv` on the constants of `dra`
(97,454 states).

### 11.7 The compiler (`ScenarioCompiler_proofs`)

For any documents, catalogs, releases and chains of revisions, from
`CompilerAssumption`:

| Theorem | Property |
|---|---|
| `RevisionsAreCompiled` | the invariant `CompilerInv`: each revision is `Sound` for some release |
| `CanonicalTextIsFixed` | `CanonicalIsFixed` (SCN-008, LIFE-004) |
| `AcceptedSchedulingProjects` | `SchedulingScenariosProject` (SCN-012) |
| `TypedChangesMoveWhatTheyName` | `TypedChangesAreExact` (ADR 0002, ADR 0003, SCN-010) |

*Sorting.* A list whose names differ has a sorted form: each element goes to the place
that the rank of its name gives (`RanksGrow`, `SortedFormExists`; an injection of a
finite set into itself is onto). It has one only (`SortedFormIsUnique`): of two that
differ, look at the first place where they do. So any order of the elements of a
sorted list is sorted to that list (`SortingUndoes`).

*One compilation.* `Canonical(s, r)` is the form of a Scenario that release `r` wrote:
groups, pools and auxiliary resources in order, each pool with its contract, its
revision and its healthy count explicit. `Valid` is what the compiler checks of a
group. `CompileIsSound`: what is returned is canonical and valid, that is, resolving
and writing out changes no answer of a check (`PoolIsWritten`). `RelistingCompiles`:
a document that lists the parts of a canonical Scenario in any order compiles to that
Scenario, or not at all, and it does compile when the Scenario is valid.

*The log.* A typed change edits one field, which leaves the canonical form
(`ScaledIsCanonical`, `HealedIsCanonical`); so it stores the edited document itself,
and only a client of the release that the pools are pinned to can (`CompiledAgain`).
That is the reason why nothing else moves. `SchedulingScenariosProject` needs both
halves of `Sound`: resources differ because the checks of the compiler hold of the
*stored* pools, whose offers are those of the release that it names
(`ResourcesDiffer`). Labels need a premise: the compiler does not look at what a
contract derives (section 12), so the property is about groups that do not write a
derived label and whose contracts give each key one value (`DerivedLabelsAgree`). The
premise is only asked of groups with discovery: without it the vendor labels are identity
keys without values, which agree, and the compiler has refused those keys in the group
(`LabelsAreOffered`, `VendorLabelsAreLabels`). TLC checked `CompilerInv` on the
constants of `compile` (30,748 states).

### 11.8 Only model-checked

* Liveness (`Converges`, `DeletionEnds`, `ConvergesWhenIdle`, `ReadyIsNoticed`,
  `DeletionIsNoticed` and `DeadlineEndsWaits` of `waits`, `ChangesAreShown`,
  `OutageIsShown`, `OutagesAreNoticed`, `RecoveryIsShown`) and everything with ENABLED
  is out of the prover's reach.
* The device budget of a page (`TypeOK` of `TelemetryRefresh`) is a sum over a set, a
  fold: what it computes for every input needs induction over data.
* The properties of section 12, which do not hold.

## 12. Disagreements found

Two runs keep a disagreement between the code and what is said of it;
`PROJECT.json` quotes the lines.

* `relabel` / `Converges`: a label that a Node was *created* with belongs to the
  field manager of the create request and is not removed by a later server-side
  apply: after a revision that changes the vendor identity key, the metadata
  stage repeats for ever.
* `dra_pending` / `CompleteInventoryOpens`: a claim that waits for a device counts as
  a workload that is not achieved, and no Node is opened (`dra.go:462`). The
  scheduler needs an open Node to allocate it: the instance stays Reconciling, with
  its complete inventory closed, until the claim is deleted. `ConvergesWhenIdle`
  is therefore about an instance without claims.

The modules state further properties that do not hold. They are not among the runs;
each can be seen violated with the constants given.

* `BusyResourceKept` (core module; `ReplaceScenarios`, 2 generations, `WaveSize` 1, no
  faults): replacing the resource of a Node closes it but does not wait for the
  Pods that use the old resource (`reconcile.go:1375`; ADR 0003, line 71).
* `NoRuntimeLease` with two controllers (`SwapScenarios`, 3 generations, no faults): an
  active Node can be without its Lease, and KWOK creates an unowned one
  (`reconcile.go:1191`). In the same instance `PublishedInventory` is violated.
* `DeletedNodesAreIdle` (core module; `ReplaceScenarios`, 1 name, 1 generation, no
  faults): a Node is deleted with a Pod that was bound after the Pods were listed. The
  delete reads the Node again and is guarded by its UID, its cordon and its
  resourceVersion, and a binding does not move that (`adapter.go:1459`; SAFE-006,
  `docs/spec/v1.md:352`, says that cleanup pauses while a Pod is bound).
  `OnlyBindingsInFlightAreLost` (run `drift`, proved) says what does hold.
* `VendorLabelsAreReserved` (constants of `compile`, `MaxRevisions` 1): the compiler
  accepts two pools of one model whose contracts derive different values of one label,
  and a written label that discovery derives; `node-discovery-labels.md:223` says that
  both fail compilation. `compileGroup` (`compiler.go:668`) looks at identity labels
  only, and compares them only between models; `Build` refuses both in the controller
  (`projection.go:351`), when the revision is already accepted. A derived label that has no
  value (`nvidia.com/gpu.deploy.nvsm` of the shipped catalog) is refused by neither
  when it is written, and replaces the written one on the Node.
* `DeletionReceiptsAreExact` (`NoTypedChange`, 3 calls): the receipt of an accepted
  deletion is built from a second read of the name and can carry the UID or the
  generation of what another client made meanwhile (`controlplane.go:204`).
* `FailuresAreCurrent` (Kubernetes adapter, `apply`, no faults): the wait for a new
  revision fails on the `Failed` status of the revision before it, which the
  acceptance leaves in place (`runtime.go:1213`; OUT-004, exit code 5, says the
  revision did not converge).
* `ResumeIsSafe` (Kubernetes adapter, `apply`, 1 fault): when an open watch expires, the
  cursor moves to a version whose record nobody looked at, and a Ready status at or
  before it is not seen until the next event or the deadline
  (`kubernetes.go:856`; `controlplane.go:258` calls the cursor safe).
* `CompleteIsComplete` (constants of `inventory`): a snapshot made before every
  collection was tried counts only those that have reported, and says `complete`
  (`inventory.go:575`; `docs/operators/cluster-inventory-ui.md`).
* `EveryNodeIsShown` (2 generations, no faults): a Node that a revision leaves alone
  keeps its generation label and drops out of the join for good
  (`telemetry/kubernetes/adapter.go:203`;
  `docs/operators/simulated-vendor-telemetry.md:3`).
* `AcceptedScenariosProject` (`TwoDraPools`, 1 release, `MaxRevisions` 1): two DRA pools
  of one contract compile, and `Build` refuses them, because both have the driver as
  their resource; with the constants of `compile`, likewise the labels that violate
  `VendorLabelsAreReserved`. The controller cannot converge the accepted revision
  (`projection.go:167`, `351`; `extended.go:82`; SCN-007).

## 13. Not modelled

Installation of the KWOK stages; probing, discovery, authorization and connection;
loading and validation of the catalog; the contents of statuses, snapshots and metrics
(lists, counters, labels, values); HTTP handling of the UI; command line,
presentation, API types, test doubles and build tools. None of them has run-time state
of its own that the properties depend on, except the KWOK stages. The width of the
status counters (`saturatingAdd`) is arithmetic of one function and is left to its
unit test. `DRAReconciler` has one controller and one pool per Node;
`ScenarioCompiler` has one profile and no limit on the size of a document. Sections 3
and 9 name the paths of the modelled parts that are left out. `PROJECT.json` lists
every component with its status, and under `hazards` why some have no property.
