------------------------- MODULE InstanceReconciler -------------------------
(***************************************************************************)
(* The convergence loop of one Scenario Instance: the Instance Reconciler  *)
(* (internal/reconcile/reconcile.go), the Kubernetes cluster adapter that  *)
(* executes its changes (internal/cluster/kubernetes/adapter.go), the      *)
(* status writer and the workqueue delivery                                *)
(* (internal/reconcile/kubernetes), in the scheduling fidelity mode.       *)
(*                                                                         *)
(* A reconcile pass reads the instance from a shared cache, lists the      *)
(* owned Nodes, the owned Leases and then the Pods (three requests, so the *)
(* observation is not a snapshot), picks ONE stage of changes, executes it *)
(* as concurrent single-object requests, and commits a status guarded by   *)
(* the resourceVersion it read.  Around it run the clients that accept     *)
(* revisions and request deletion, KWOK, the scheduler, Pods that end, and *)
(* a bounded number of faults (crashes, lost responses, manual changes).   *)
(*                                                                         *)
(* Not modelled here: DRA classes, slices and claims, taints and base      *)
(* capacity (they follow the identity labels and the resource quantities   *)
(* respectively), the bounded lists of the status, pagination.             *)
(***************************************************************************)
EXTENDS Naturals, Sequences, FiniteSets

CONSTANTS
    Names,          \* names a Scenario can give to a Synthetic Node
    Keys,           \* catalog identity label keys
    Resources,      \* catalog extended resource names
    Scenarios,      \* canonical Scenarios: functions [some names -> NodeSpec]
    Pods,           \* unowned Pods that the scheduler may bind
    Controllers,    \* controller processes (two while a rollout overlaps)
    MaxGeneration,  \* bound: accepted revisions
    MaxFaults,      \* bound: injected faults
    Faults,         \* the kinds of fault injected, a subset of FaultKinds
    WaveSize,       \* ownedMutationConcurrency
    NoResource,     \* "no extended resource is published yet"
    Absent,         \* "no object of this name"
    Foreign         \* "an object of this name that the instance does not own"

FaultKinds == {"crash", "lost-response", "uncordon", "not-ready",
               "delete-node", "delete-lease", "foreign-node", "foreign-lease"}

\* What a canonical Scenario asks of one Synthetic Node.
NodeSpec == [key : Keys, res : Resources, healthy : Nat]

NodeObject ==
    [uid : Nat, gen : Nat, keys : SUBSET Keys, born : Keys, active : BOOLEAN,
     open : BOOLEAN, ready : BOOLEAN, res : Resources \union {NoResource},
     alloc : Nat]
LeaseObject == [uid : Nat, gen : Nat]

ASSUME ScenariosAssumption ==
    /\ Scenarios # {}
    /\ \A s \in Scenarios : s \in [DOMAIN s -> NodeSpec] /\ DOMAIN s \subseteq Names

ASSUME BoundsAssumption ==
    /\ MaxGeneration \in Nat \ {0}
    /\ MaxFaults \in Nat
    /\ WaveSize \in Nat \ {0}
    /\ Faults \subseteq FaultKinds

ASSUME ObjectsAssumption ==
    /\ Absent # Foreign
    /\ Absent \notin NodeObject \union LeaseObject \union Names
    /\ Foreign \notin NodeObject \union LeaseObject
    /\ NoResource \notin Resources

VARIABLES
    \* the ScenarioInstance object
    log,        \* its revisions: log[g] is the Scenario of generation g
    deleting,   \* its deletionTimestamp is set
    exists,     \* it still carries its finalizer, hence exists
    status,     \* its status
    \* the objects named by Scenarios, and the Pods
    nodes, leases, births, pods,
    \* the controllers
    cache,      \* the instance as the informer of each controller holds it
    queued,     \* the instance's key is in the workqueue
    pc, record, seen, job, intent,
    \* faults left to inject
    faults

instanceVars == <<log, deleting, exists, status>>
clusterVars == <<nodes, leases, births>>
passVars == <<pc, record, seen, job, intent>>
vars == <<instanceVars, clusterVars, pods, cache, queued, passVars, faults>>

Generations == 1..MaxGeneration
Phases == {"", "Reconciling", "Ready", "Failed", "Deleting"}
Status == [phase : Phases, observed : Nat, blocked : BOOLEAN]

Steps == {"idle", "leases", "pods", "apply", "commit", "finalize"}
Record == [gen : Nat, deleting : BOOLEAN, exists : BOOLEAN, fresh : BOOLEAN,
           observed : Nat]
Operations == {"none", "repair", "create-lease", "create-node", "metadata",
               "lease-metadata", "close", "status", "close-seen", "blocked",
               "delete-node", "delete-lease", "open"}
Errors == {"stale", "fatal", "retry"}
Intent == [status : Status, final : BOOLEAN, requeue : BOOLEAN]

NothingSeen == [nodes |-> [n \in Names |-> Absent],
                leases |-> [n \in Names |-> Absent]]
NoJob == [op |-> "none", todo |-> {}, wave |-> {}, errors |-> {}]
NoRecord == [gen |-> 0, deleting |-> FALSE, exists |-> FALSE, fresh |-> FALSE,
             observed |-> 0]
NoIntent == [status |-> [phase |-> "", observed |-> 0, blocked |-> FALSE],
             final |-> FALSE, requeue |-> FALSE]

TypeOK ==
    /\ log \in Seq(Scenarios) /\ Len(log) \in Generations
    /\ deleting \in BOOLEAN /\ exists \in BOOLEAN
    /\ status \in Status
    /\ nodes \in [Names -> NodeObject \union {Absent, Foreign}]
    /\ leases \in [Names -> LeaseObject \union {Absent, Foreign}]
    /\ births \in [Names -> Nat]
    /\ pods \in [Pods -> [at : {"pending", "chosen", "bound", "done"},
                          node : Names \union {Absent}]]
    /\ cache \in [Controllers -> Record]
    /\ queued \in [Controllers -> BOOLEAN]
    /\ pc \in [Controllers -> Steps]
    /\ record \in [Controllers -> Record]
    /\ seen \in [Controllers -> [nodes : [Names -> NodeObject \union {Absent}],
                                 leases : [Names -> LeaseObject \union {Absent}]]]
    /\ job \in [Controllers -> [op : Operations, todo : SUBSET Names,
                                wave : SUBSET Names, errors : SUBSET Errors]]
    /\ intent \in [Controllers -> Intent]
    /\ faults \in 0..MaxFaults

-----------------------------------------------------------------------------
(***************************************************************************)
(* Choosing the stage of a pass.  Every operator below is a set of names   *)
(* computed from the desired generation g and the observation o.           *)
(***************************************************************************)

Wanted(g) == DOMAIN log[g]

\* Nodes whose owned Lease is gone while KWOK may still renew it.
Repairs(g, o) ==
    {n \in Wanted(g) : /\ o.nodes[n] # Absent
                       /\ o.leases[n] = Absent
                       /\ \/ o.nodes[n].open
                          \/ o.nodes[n].active}
LeasesMissing(g, o) == {n \in Wanted(g) : o.leases[n] = Absent}
NodesMissing(g, o) ==
    {n \in Wanted(g) : o.nodes[n] = Absent /\ o.leases[n] # Absent}

MetadataChanges(g, o) ==
    {n \in Wanted(g) : /\ o.nodes[n] # Absent
                       /\ \/ o.nodes[n].gen > g
                          \/ o.nodes[n].keys # {log[g][n].key}
                          \/ ~o.nodes[n].active}
LeaseMetadataChanges(g, o) ==
    {n \in Wanted(g) : /\ o.nodes[n] # Absent
                       /\ o.leases[n] # Absent
                       /\ o.leases[n].gen > g}

\* Mutation: a replacement does not close the Node.
NoReplacementCloses(g, o) == {}
\* An open Node that still publishes a catalog resource it should not.
ReplacementCloses(g, o) ==
    {n \in Wanted(g) : /\ o.nodes[n] # Absent
                       /\ o.nodes[n].open
                       /\ o.nodes[n].res \notin {NoResource, log[g][n].res}}

Converged(node, spec) == node.res = spec.res /\ node.alloc = spec.healthy
StatusChanges(g, o) ==
    {n \in Wanted(g) : o.nodes[n] # Absent /\ ~Converged(o.nodes[n], log[g][n])}

StaleNodes(g, o) == {n \in Names \ Wanted(g) : o.nodes[n] # Absent}
StaleLeases(g, o) == {n \in Names \ Wanted(g) : o.leases[n] # Absent}
OpenAmong(S, o) == {n \in S : o.nodes[n].open}

\* The extended-resource assessment of one Node.
Complete(g, o, n) ==
    /\ o.nodes[n] # Absent
    /\ log[g][n].key \in o.nodes[n].keys
    /\ Converged(o.nodes[n], log[g][n])
    /\ o.nodes[n].ready
    /\ o.leases[n] # Absent
MustClose(g, o) ==
    {n \in Wanted(g) : /\ ~Complete(g, o, n)
                       /\ o.nodes[n] # Absent
                       /\ o.nodes[n].open}
\* Scheduling opens only when every Node is complete and none is stale.
OpenNodes(g, o) ==
    IF StaleNodes(g, o) = {} /\ \A n \in Wanted(g) : Complete(g, o, n)
    THEN {n \in Wanted(g) : ~o.nodes[n].open}
    ELSE {}
FidelitySatisfied(g, o) ==
    /\ StaleNodes(g, o) = {}
    /\ \A n \in Wanted(g) : Complete(g, o, n) /\ o.nodes[n].open

\* Pods bound to a Node and not in a terminal phase block its removal.
BusyNodes == {pods[p].node : p \in {q \in Pods : pods[q].at = "bound"}}

Stage(op, S) == [op |-> op, on |-> S]

ConvergenceStages(g, o) ==
    << Stage("repair", Repairs(g, o)),
       Stage("create-lease", LeasesMissing(g, o)),
       Stage("create-node", NodesMissing(g, o)),
       Stage("metadata", MetadataChanges(g, o)),
       Stage("lease-metadata", LeaseMetadataChanges(g, o)),
       Stage("close", ReplacementCloses(g, o)),
       Stage("status", StatusChanges(g, o)),
       Stage("close-seen", OpenAmong(StaleNodes(g, o), o)),
       Stage("blocked", StaleNodes(g, o) \intersect BusyNodes),
       Stage("delete-node", StaleNodes(g, o)),
       Stage("delete-lease", StaleLeases(g, o)),
       Stage("close", MustClose(g, o)),
       Stage("open", OpenNodes(g, o)) >>

OwnedNodes(o) == {n \in Names : o.nodes[n] # Absent}
OwnedLeases(o) == {n \in Names : o.leases[n] # Absent}

\* Mutations: Leases are deleted first, or are forgotten.
DeletionStagesLeaseFirst(o) ==
    << Stage("close-seen", OpenAmong(OwnedNodes(o), o)),
       Stage("blocked", OwnedNodes(o) \intersect BusyNodes),
       Stage("delete-lease", OwnedLeases(o)),
       Stage("delete-node", OwnedNodes(o)) >>
DeletionStagesNoLease(o) ==
    << Stage("close-seen", OpenAmong(OwnedNodes(o), o)),
       Stage("blocked", OwnedNodes(o) \intersect BusyNodes),
       Stage("delete-node", OwnedNodes(o)) >>
DeletionStages(o) ==
    << Stage("close-seen", OpenAmong(OwnedNodes(o), o)),
       Stage("blocked", OwnedNodes(o) \intersect BusyNodes),
       Stage("delete-node", OwnedNodes(o)),
       Stage("delete-lease", OwnedLeases(o)) >>

\* One pass executes one ordered stage: the first that has a change.
FirstDue(stages) ==
    {i \in DOMAIN stages : stages[i].on # {} /\ \A j \in 1..(i - 1) : stages[j].on = {}}
FirstStage(stages) ==
    IF FirstDue(stages) = {} THEN Stage("none", {})
    ELSE stages[CHOOSE i \in FirstDue(stages) : TRUE]

-----------------------------------------------------------------------------
(***************************************************************************)
(* The passes of a controller.                                             *)
(***************************************************************************)

Init ==
    /\ \E s \in Scenarios : log = <<s>>
    /\ deleting = FALSE /\ exists = TRUE
    /\ status = [phase |-> "", observed |-> 0, blocked |-> FALSE]
    /\ nodes = [n \in Names |-> Absent]
    /\ leases = [n \in Names |-> Absent]
    /\ births = [n \in Names |-> 0]
    /\ pods = [p \in Pods |-> [at |-> "pending", node |-> Absent]]
    /\ cache = [c \in Controllers |-> NoRecord]
    /\ queued = [c \in Controllers |-> FALSE]
    /\ pc = [c \in Controllers |-> "idle"]
    /\ record = [c \in Controllers |-> NoRecord]
    /\ seen = [c \in Controllers |-> NothingSeen]
    /\ job = [c \in Controllers |-> NoJob]
    /\ intent = [c \in Controllers |-> NoIntent]
    /\ faults = MaxFaults

\* Every write to the instance moves its resourceVersion: what the caches and
\* the running passes hold is no longer current.
Outdated(records) == [c \in Controllers |-> [records[c] EXCEPT !.fresh = FALSE]]
InstanceWritten == /\ cache' = Outdated(cache)
                   /\ record' = Outdated(record)

\* The informer of c receives the current instance and enqueues its key.
CacheDeliver(c) ==
    /\ ~cache[c].fresh
    /\ cache' = [cache EXCEPT ![c] = [gen |-> Len(log), deleting |-> deleting,
                                      exists |-> exists, fresh |-> TRUE,
                                      observed |-> status.observed]]
    /\ queued' = [queued EXCEPT ![c] = TRUE]
    /\ UNCHANGED <<instanceVars, clusterVars, pods, passVars, faults>>

\* The instance is gone from the cache: nothing is left to do.
SkipPass(c) ==
    /\ queued[c] /\ pc[c] = "idle" /\ ~cache[c].exists
    /\ queued' = [queued EXCEPT ![c] = FALSE]
    /\ UNCHANGED <<instanceVars, clusterVars, pods, cache, passVars, faults>>

\* The ownership selector hides the objects the instance does not own.
OwnedOnly(objects) ==
    [n \in Names |-> IF objects[n] = Foreign THEN Absent ELSE objects[n]]

\* A worker takes the key, reads the instance from the shared cache and lists
\* the owned Nodes.  The cache may lag by any number of writes, so the two
\* reads lose no behaviour by being one step.
StartPass(c) ==
    /\ queued[c] /\ pc[c] = "idle" /\ cache[c].exists
    /\ queued' = [queued EXCEPT ![c] = FALSE]
    /\ record' = [record EXCEPT ![c] = cache[c]]
    /\ seen' = [seen EXCEPT ![c].nodes = OwnedOnly(nodes)]
    /\ pc' = [pc EXCEPT ![c] = "leases"]
    /\ UNCHANGED <<instanceVars, clusterVars, pods, cache, job, intent, faults>>

ObserveLeases(c) ==
    /\ pc[c] = "leases"
    /\ seen' = [seen EXCEPT ![c].leases = OwnedOnly(leases)]
    /\ pc' = [pc EXCEPT ![c] = "pods"]
    /\ UNCHANGED <<instanceVars, clusterVars, pods, cache, queued, record, job,
                   intent, faults>>

\* The commits that end a pass; `requeue' asks the delivery for another one.
Commit(phase, observed, blocked, final, requeue) ==
    [status |-> [phase |-> phase, observed |-> observed, blocked |-> blocked],
     final |-> final, requeue |-> requeue]

\* Mutation: a phase that is not one of the status.
UnknownBusyPhase(r) == IF r.deleting THEN "Terminating" ELSE "Reconciling"
BusyPhase(r) == IF r.deleting THEN "Deleting" ELSE "Reconciling"
\* Mutation: progress does not ask for another pass.
ProgressOnce(r, blocked) == Commit(BusyPhase(r), 0, blocked, FALSE, FALSE)
Progress(r, blocked) == Commit(BusyPhase(r), 0, blocked, FALSE, TRUE)
Failure(r, requeue) == Commit("Failed", r.observed, FALSE, FALSE, requeue)
\* Mutations: Ready without an assessment, and a finalizer that is kept.
OutcomeUnassessed(r, o) ==
    IF r.deleting THEN Commit("Deleting", 0, FALSE, TRUE, FALSE)
    ELSE Commit("Ready", r.gen, FALSE, FALSE, FALSE)
OutcomeRetained(r, o) ==
    IF r.deleting THEN Commit("Deleting", 0, FALSE, FALSE, TRUE)
    ELSE IF FidelitySatisfied(r.gen, o)
         THEN Commit("Ready", r.gen, FALSE, FALSE, FALSE)
         ELSE Progress(r, FALSE)
Outcome(r, o) ==
    IF r.deleting
    THEN Commit("Deleting", 0, FALSE, TRUE, FALSE)
    ELSE IF FidelitySatisfied(r.gen, o)
         THEN Commit("Ready", r.gen, FALSE, FALSE, FALSE)
         ELSE Progress(r, FALSE)

\* The changes of a stage are sorted by name and sent in waves of WaveSize.
FullWaves(S) == {wave \in SUBSET S : Cardinality(wave) = WaveSize}
Wave(S) == IF FullWaves(S) = {} THEN S ELSE CHOOSE wave \in FullWaves(S) : TRUE
NextWave(op, S) == [op |-> op, wave |-> Wave(S), todo |-> S \ Wave(S), errors |-> {}]

\* The Pods are listed last; the pass then chooses what to do.
ObservePods(c) ==
    LET r == record[c]
        o == seen[c]
        stage == FirstStage(IF r.deleting THEN DeletionStages(o)
                                          ELSE ConvergenceStages(r.gen, o))
    IN  /\ pc[c] = "pods"
        /\ IF stage.op \in {"none", "blocked"}
           THEN /\ intent' = [intent EXCEPT ![c] =
                        IF stage.op = "blocked" THEN Progress(r, TRUE)
                                                ELSE Outcome(r, o)]
                /\ pc' = [pc EXCEPT ![c] = "commit"]
                /\ seen' = [seen EXCEPT ![c] = NothingSeen]
                /\ job' = job
           ELSE /\ job' = [job EXCEPT ![c] = NextWave(stage.op, stage.on)]
                /\ pc' = [pc EXCEPT ![c] = "apply"]
                /\ UNCHANGED <<intent, seen>>
        /\ UNCHANGED <<instanceVars, clusterVars, pods, cache, queued, record, faults>>

-----------------------------------------------------------------------------
(***************************************************************************)
(* Executing a stage: waves of concurrent requests, one per object.  The   *)
(* adapter re-reads the object, validates its exact identity and writes it *)
(* under the resourceVersion it has just read, so each request is one      *)
(* atomic step on the CURRENT object, not on the observed one.             *)
(***************************************************************************)

\* Mutation: the fence is not checked.
ExactUnfenced(object, observed, g) ==
    /\ object \notin {Absent, Foreign}
    /\ object.uid = observed.uid
\* validateOwnedIdentity: exact owner, no newer generation, same UID.
Exact(object, observed, g) ==
    /\ object \notin {Absent, Foreign}
    /\ object.gen <= g
    /\ object.uid = observed.uid

\* Mutation: an existing object is overwritten.
VacantOrForeign(object) == object \in {Absent, Foreign}
\* A create fails with AlreadyExists unless nothing has the name.
Vacant(object) == object = Absent
\* Mutation: an open Node is deleted.
DeletableOpenNode(object, observed, g) ==
    object = Absent \/ Exact(object, observed, g)
\* A delete succeeds on an object that is gone, or on the exact object; a Node
\* must also be closed.
Deletable(object, observed, g) ==
    object = Absent \/ Exact(object, observed, g)
DeletableNode(object, observed, g) ==
    \/ object = Absent
    \/ Exact(object, observed, g) /\ ~object.open

\* Server-side apply of Node metadata and scheduling.  A label the Node was
\* created with stays owned by the creating field manager, so applying a
\* configuration without it does not remove it.
AppliedNode(node, g, keys, active, open) ==
    [node EXCEPT !.gen = g, !.keys = keys \union {node.born},
                 !.active = active, !.open = open]
CreatedNode(uid, g, key) ==
    [uid |-> uid, gen |-> g, keys |-> {key}, born |-> key, active |-> TRUE,
     open |-> FALSE, ready |-> FALSE, res |-> NoResource, alloc |-> 0]

\* Mutation: the status write does not carry the generation fence.
StatusAppliedUnfenced(node, g, spec) ==
    [node EXCEPT !.res = spec.res, !.alloc = spec.healthy]
\* The status write publishes resources and the fence in one request.
StatusApplied(node, g, spec) ==
    [node EXCEPT !.gen = g, !.res = spec.res, !.alloc = spec.healthy]

\* What the node operation of a stage leaves, given the current Node and the
\* Node the pass observed.
NodeAfter(op, node, observed, g, n) ==
    CASE op = "repair" -> AppliedNode(node, g, {log[g][n].key}, FALSE, FALSE)
      [] op \in {"metadata", "close"} ->
            AppliedNode(node, g, {log[g][n].key}, TRUE, FALSE)
      [] op = "open" -> AppliedNode(node, g, {log[g][n].key}, TRUE, TRUE)
      [] op = "close-seen" ->
            AppliedNode(node, g, observed.keys, observed.active, FALSE)
      [] op = "status" -> StatusApplied(node, g, log[g][n])

UpdatesNode == {"repair", "metadata", "close", "open", "close-seen", "status"}

\* One request ended for c: its error, if any, is kept for the whole stage.
Answer(c, n, errors) ==
    job' = [job EXCEPT ![c].wave = @ \ {n}, ![c].errors = @ \union errors]

RequestSucceeds(c, n) ==
    LET op == job[c].op
        g == record[c].gen
    IN  /\ \/ /\ op = "create-node" /\ Vacant(nodes[n])
              /\ nodes' = [nodes EXCEPT ![n] =
                               CreatedNode(births[n] + 1, g, log[g][n].key)]
              /\ births' = [births EXCEPT ![n] = @ + 1]
              /\ leases' = leases
           \/ /\ op = "create-lease" /\ Vacant(leases[n])
              /\ leases' = [leases EXCEPT ![n] = [uid |-> births[n] + 1, gen |-> g]]
              /\ births' = [births EXCEPT ![n] = @ + 1]
              /\ nodes' = nodes
           \/ /\ op \in UpdatesNode /\ Exact(nodes[n], seen[c].nodes[n], g)
              /\ nodes' = [nodes EXCEPT ![n] =
                               NodeAfter(op, @, seen[c].nodes[n], g, n)]
              /\ UNCHANGED <<leases, births>>
           \/ /\ op = "lease-metadata" /\ Exact(leases[n], seen[c].leases[n], g)
              /\ leases' = [leases EXCEPT ![n].gen = g]
              /\ UNCHANGED <<nodes, births>>
           \/ /\ op = "delete-node" /\ DeletableNode(nodes[n], seen[c].nodes[n], g)
              /\ nodes' = [nodes EXCEPT ![n] = Absent]
              /\ UNCHANGED <<leases, births>>
           \/ /\ op = "delete-lease" /\ Deletable(leases[n], seen[c].leases[n], g)
              /\ leases' = [leases EXCEPT ![n] = Absent]
              /\ UNCHANGED <<nodes, births>>

\* AlreadyExists on a create, NotFound on an update, another owner, a newer
\* generation or another UID: not retryable, and nothing is adopted.
RequestRefused(c, n) ==
    LET op == job[c].op
        g == record[c].gen
    IN  \/ op = "create-node" /\ ~Vacant(nodes[n])
        \/ op = "create-lease" /\ ~Vacant(leases[n])
        \/ op \in UpdatesNode /\ ~Exact(nodes[n], seen[c].nodes[n], g)
        \/ op = "lease-metadata" /\ ~Exact(leases[n], seen[c].leases[n], g)
        \/ op = "delete-node" /\ ~Deletable(nodes[n], seen[c].nodes[n], g)
        \/ op = "delete-lease" /\ ~Deletable(leases[n], seen[c].leases[n], g)

\* Scheduling reopened since the observation: the Node is not deleted.
RequestStale(c, n) ==
    /\ job[c].op = "delete-node"
    /\ Deletable(nodes[n], seen[c].nodes[n], record[c].gen)
    /\ ~DeletableNode(nodes[n], seen[c].nodes[n], record[c].gen)

Request(c, n) ==
    /\ pc[c] = "apply" /\ n \in job[c].wave
    /\ \/ RequestSucceeds(c, n) /\ Answer(c, n, {})
       \/ RequestRefused(c, n) /\ Answer(c, n, {"fatal"}) /\ UNCHANGED clusterVars
       \/ RequestStale(c, n) /\ Answer(c, n, {"stale"}) /\ UNCHANGED clusterVars
    /\ UNCHANGED <<instanceVars, pods, cache, queued, pc, record, seen, intent, faults>>

\* A transport error: the request may or may not have been applied.
LoseResponse(c, n) ==
    /\ "lost-response" \in Faults /\ faults > 0
    /\ faults' = faults - 1
    /\ pc[c] = "apply" /\ n \in job[c].wave
    /\ \/ RequestSucceeds(c, n)
       \/ UNCHANGED clusterVars
    /\ Answer(c, n, {"retry"})
    /\ UNCHANGED <<instanceVars, pods, cache, queued, pc, record, seen, intent>>

\* Every request of the wave answered.  The first error ends the stage and
\* the later waves are not started.
EndWave(c) ==
    LET r == record[c]
        retire == /\ job' = [job EXCEPT ![c] = NoJob]
                  /\ seen' = [seen EXCEPT ![c] = NothingSeen]
    IN  /\ pc[c] = "apply" /\ job[c].wave = {}
        /\ \/ /\ job[c].errors = {} /\ job[c].todo # {}
              /\ job' = [job EXCEPT ![c] = NextWave(@.op, @.todo)]
              /\ UNCHANGED <<pc, seen, intent, queued, record>>
           \/ /\ job[c].errors = {} /\ job[c].todo = {}
              /\ pc' = [pc EXCEPT ![c] = "commit"]
              /\ intent' = [intent EXCEPT ![c] = Progress(r, FALSE)]
              /\ retire /\ UNCHANGED <<queued, record>>
           \/ /\ "stale" \in job[c].errors
              /\ pc' = [pc EXCEPT ![c] = "idle"]
              /\ queued' = [queued EXCEPT ![c] = TRUE]
              /\ record' = [record EXCEPT ![c] = NoRecord]
              /\ retire /\ intent' = intent
           \/ \E e \in job[c].errors \ {"stale"} :
                /\ pc' = [pc EXCEPT ![c] = "commit"]
                /\ intent' = [intent EXCEPT ![c] = Failure(r, e = "retry")]
                /\ retire /\ UNCHANGED <<queued, record>>
        /\ UNCHANGED <<instanceVars, clusterVars, pods, cache, faults>>

\* A list request of the observation failed with a retryable error.
LoseObservation(c) ==
    /\ "lost-response" \in Faults /\ faults > 0
    /\ faults' = faults - 1
    /\ pc[c] \in {"leases", "pods"}
    /\ intent' = [intent EXCEPT ![c] = Failure(record[c], TRUE)]
    /\ seen' = [seen EXCEPT ![c] = NothingSeen]
    /\ pc' = [pc EXCEPT ![c] = "commit"]
    /\ UNCHANGED <<instanceVars, clusterVars, pods, cache, queued, record, job>>

-----------------------------------------------------------------------------
(***************************************************************************)
(* Committing the status, and the end of the pass.                         *)
(***************************************************************************)

\* The pass is over; `again' puts the key back into the workqueue.
EndPass(c, records, again) ==
    /\ pc' = [pc EXCEPT ![c] = "idle"]
    /\ queued' = [queued EXCEPT ![c] = @ \/ again]
    /\ record' = [records EXCEPT ![c] = NoRecord]
    /\ intent' = [intent EXCEPT ![c] = NoIntent]
    /\ UNCHANGED <<seen, job>>

\* The status carries the time in seconds: the same status committed again
\* within the second is not a write.
WriteStatus(c) ==
    /\ status' = intent[c].status
    /\ \/ cache' = Outdated(cache)
       \/ status' = status /\ cache' = cache

\* Mutation: the resourceVersion precondition is not checked.
MayCommitAnyway(c) == exists
MayCommit(c) == exists /\ record[c].fresh

CommitStatus(c) ==
    /\ pc[c] = "commit" /\ MayCommit(c)
    /\ WriteStatus(c)
    /\ LET records == IF cache' = cache THEN record ELSE Outdated(record)
       IN  IF intent[c].final
           THEN /\ pc' = [pc EXCEPT ![c] = "finalize"]
                /\ record' = records
                /\ UNCHANGED <<queued, seen, job, intent>>
           ELSE EndPass(c, records, intent[c].requeue)
    /\ UNCHANGED <<log, deleting, exists, clusterVars, pods, faults>>

\* The instance changed since the pass read it: the status is discarded.
CommitConflict(c) ==
    /\ pc[c] = "commit" /\ ~MayCommit(c)
    /\ EndPass(c, record, TRUE)
    /\ UNCHANGED <<instanceVars, clusterVars, pods, cache, faults>>

\* The finalizer is removed from the instance as the cache holds it.
RemoveFinalizer(c) ==
    /\ pc[c] = "finalize" /\ cache[c].fresh /\ exists
    /\ exists' = FALSE
    /\ cache' = Outdated(cache)
    /\ EndPass(c, Outdated(record), FALSE)
    /\ UNCHANGED <<log, deleting, status, clusterVars, pods, faults>>

FinalizerConflict(c) ==
    /\ pc[c] = "finalize" /\ ~(cache[c].fresh /\ exists)
    /\ EndPass(c, record, TRUE)
    /\ UNCHANGED <<instanceVars, clusterVars, pods, cache, faults>>

\* The process dies; its successor starts with an empty cache and queue.
Crash(c) ==
    /\ "crash" \in Faults /\ faults > 0
    /\ faults' = faults - 1
    /\ cache' = [cache EXCEPT ![c] = NoRecord]
    /\ queued' = [queued EXCEPT ![c] = FALSE]
    /\ pc' = [pc EXCEPT ![c] = "idle"]
    /\ record' = [record EXCEPT ![c] = NoRecord]
    /\ seen' = [seen EXCEPT ![c] = NothingSeen]
    /\ job' = [job EXCEPT ![c] = NoJob]
    /\ intent' = [intent EXCEPT ![c] = NoIntent]
    /\ UNCHANGED <<instanceVars, clusterVars, pods>>

-----------------------------------------------------------------------------
(***************************************************************************)
(* The environment: clients, KWOK, the scheduler, Pods, the garbage        *)
(* collector and manual changes.                                           *)
(***************************************************************************)

\* A client's Submit of a Scenario with another digest (the control plane does
\* not reject a revision of an instance that is being deleted).
AcceptRevision(s) ==
    /\ exists /\ Len(log) < MaxGeneration /\ s # log[Len(log)]
    /\ log' = Append(log, s)
    /\ InstanceWritten
    /\ UNCHANGED <<deleting, exists, status, clusterVars, pods, queued, pc, seen,
                   job, intent, faults>>

RequestDeletion ==
    /\ exists /\ ~deleting
    /\ deleting' = TRUE
    /\ InstanceWritten
    /\ UNCHANGED <<log, exists, status, clusterVars, pods, queued, pc, seen, job,
                   intent, faults>>

IsOwned(object) == object \notin {Absent, Foreign}

\* KWOK keeps the active Nodes Ready and their Leases present: a Lease it
\* creates carries no ownership.
KwokReady(n) ==
    /\ IsOwned(nodes[n]) /\ nodes[n].active /\ ~nodes[n].ready
    /\ nodes' = [nodes EXCEPT ![n].ready = TRUE]
    /\ UNCHANGED <<instanceVars, leases, births, pods, cache, queued, passVars, faults>>

KwokLease(n) ==
    /\ IsOwned(nodes[n]) /\ nodes[n].active /\ leases[n] = Absent
    /\ leases' = [leases EXCEPT ![n] = Foreign]
    /\ UNCHANGED <<instanceVars, nodes, births, pods, cache, queued, passVars, faults>>

Load(n) == Cardinality({p \in Pods : pods[p].at = "bound" /\ pods[p].node = n})

\* kube-scheduler filters on cordon, readiness and free extended resources.
Schedule(p, n) ==
    /\ pods[p].at = "pending"
    /\ IsOwned(nodes[n]) /\ nodes[n].open /\ nodes[n].ready
    /\ Load(n) < nodes[n].alloc
    /\ pods' = [pods EXCEPT ![p] = [at |-> "chosen", node |-> n]]
    /\ UNCHANGED <<instanceVars, clusterVars, cache, queued, passVars, faults>>

\* The binding arrives after the filters ran, whatever became of the Node.
Bind(p) ==
    /\ pods[p].at = "chosen"
    /\ pods' = [pods EXCEPT ![p].at = "bound"]
    /\ UNCHANGED <<instanceVars, clusterVars, cache, queued, passVars, faults>>

FinishPod(p) ==
    /\ pods[p].at = "bound"
    /\ pods' = [pods EXCEPT ![p] = [at |-> "done", node |-> Absent]]
    /\ UNCHANGED <<instanceVars, clusterVars, cache, queued, passVars, faults>>

\* Objects whose owner reference points at a deleted instance are collected.
CollectGarbage(n) ==
    /\ ~exists
    /\ \/ /\ IsOwned(nodes[n])
          /\ nodes' = [nodes EXCEPT ![n] = Absent]
          /\ leases' = leases
       \/ /\ IsOwned(leases[n])
          /\ leases' = [leases EXCEPT ![n] = Absent]
          /\ nodes' = nodes
    /\ UNCHANGED <<instanceVars, births, pods, cache, queued, passVars, faults>>

\* Someone else changes an object.
Disturb(kind, n) ==
    /\ kind \in Faults /\ faults > 0
    /\ faults' = faults - 1
    /\ \/ /\ kind = "uncordon" /\ IsOwned(nodes[n]) /\ ~nodes[n].open
          /\ nodes' = [nodes EXCEPT ![n].open = TRUE] /\ leases' = leases
       \/ /\ kind = "not-ready" /\ IsOwned(nodes[n]) /\ nodes[n].ready
          /\ nodes' = [nodes EXCEPT ![n].ready = FALSE] /\ leases' = leases
       \/ /\ kind = "delete-node" /\ IsOwned(nodes[n])
          /\ nodes' = [nodes EXCEPT ![n] = Absent] /\ leases' = leases
       \/ /\ kind = "foreign-node" /\ nodes[n] = Absent
          /\ nodes' = [nodes EXCEPT ![n] = Foreign] /\ leases' = leases
       \/ /\ kind = "delete-lease" /\ IsOwned(leases[n])
          /\ leases' = [leases EXCEPT ![n] = Absent] /\ nodes' = nodes
       \/ /\ kind = "foreign-lease" /\ leases[n] = Absent
          /\ leases' = [leases EXCEPT ![n] = Foreign] /\ nodes' = nodes
    /\ UNCHANGED <<instanceVars, births, pods, cache, queued, passVars>>

-----------------------------------------------------------------------------
Pass(c) ==
    \/ StartPass(c) \/ SkipPass(c)
    \/ ObserveLeases(c) \/ ObservePods(c)
    \/ (\E n \in Names : Request(c, n)) \/ EndWave(c)
    \/ CommitStatus(c) \/ CommitConflict(c)
    \/ RemoveFinalizer(c) \/ FinalizerConflict(c)

Upset(c) ==
    \/ Crash(c) \/ LoseObservation(c)
    \/ \E n \in Names : LoseResponse(c, n)

Environment ==
    \/ \E s \in Scenarios : AcceptRevision(s)
    \/ RequestDeletion
    \/ \E n \in Names : KwokReady(n) \/ KwokLease(n) \/ CollectGarbage(n)
    \/ \E p \in Pods : Bind(p) \/ FinishPod(p) \/ \E n \in Names : Schedule(p, n)
    \/ \E kind \in Faults, n \in Names : Disturb(kind, n)

Next ==
    \/ \E c \in Controllers : CacheDeliver(c) \/ Pass(c) \/ Upset(c)
    \/ Environment

Spec == Init /\ [][Next]_vars

\* Watch events arrive, workers run and requests are answered; KWOK serves its
\* Nodes.  The finalizer is removed once a repeated status commit is not a
\* write, which needs the clock not to tick between two passes every time.
Fairness ==
    /\ \A c \in Controllers :
         /\ WF_vars(CacheDeliver(c)) /\ WF_vars(Pass(c))
         /\ SF_vars(CommitStatus(c) /\ cache' = cache)
    /\ \A n \in Names : WF_vars(KwokReady(n)) /\ WF_vars(CollectGarbage(n))

LiveSpec == Spec /\ Fairness

-----------------------------------------------------------------------------
(***************************************************************************)
(* What the loop promises.                                                 *)
(***************************************************************************)

\* The step is one of a controller: only those move the state of a pass.
ByController == passVars' # passVars
SameNode(n) == IsOwned(nodes[n]) /\ IsOwned(nodes'[n]) /\ nodes'[n].uid = nodes[n].uid

\* No owned object carries a generation that the instance has not accepted
\* (SAFE-001): the stamp a pass writes comes from the instance it read.
GenerationsBounded ==
    \A n \in Names : /\ IsOwned(nodes[n]) => nodes[n].gen \in 1..Len(log)
                     /\ IsOwned(leases[n]) => leases[n].gen \in 1..Len(log)

\* A pass that still works for an older generation never overwrites what a
\* newer one wrote (SAFE-001A): the stamp of an object never goes back.
FenceNeverRegresses ==
    [][\A n \in Names : SameNode(n) => nodes'[n].gen >= nodes[n].gen]_vars

\* An object the instance does not own is never adopted, changed or deleted
\* (SAFE-003, SAFE-004), even when it appears between observation and write.
ForeignUntouched ==
    [][\A n \in Names : /\ nodes[n] = Foreign => nodes'[n] = Foreign
                        /\ leases[n] = Foreign => leases'[n] = Foreign]_vars

\* No pass deletes a Node that is open (SAFE-005) or that hosts a Pod that has
\* not ended (SAFE-006: "if one remains bound, cleanup MUST pause"), whatever
\* happened since the pass listed the Pods.
DeletedNodesAreIdle ==
    [][\A n \in Names : ByController /\ IsOwned(nodes[n]) /\ ~IsOwned(nodes'[n])
            => ~nodes[n].open /\ n \notin BusyNodes]_vars

\* Every generation accepted since the Node was last written wants it: no
\* retry, stale pass or crash takes it away and changes its identity (LIFE-008).
StillWanted(n, gen) == \A g \in gen..Len(log) : n \in Wanted(g)
RetainedNodesSurvive ==
    [][\A n \in Names : /\ ByController /\ IsOwned(nodes[n]) /\ ~deleting
                        /\ StillWanted(n, nodes[n].gen)
            => SameNode(n)]_vars

\* Scheduling is closed before one catalog resource replaces another (the
\* replacement barrier, 6.2 step 7): the name changes only on a closed Node.
ReplacementBarrier ==
    [][\A n \in Names : SameNode(n) /\ nodes[n].open
            => nodes'[n].res = nodes[n].res]_vars

\* An open Node publishes exactly the inventory of the generation it is
\* stamped with, and no Node that generation does not ask for is open (6.2
\* step 5).
PublishedInventory ==
    \A n \in Names : IsOwned(nodes[n]) /\ nodes[n].open =>
        /\ n \in Wanted(nodes[n].gen)
        /\ Converged(nodes[n], log[nodes[n].gen][n])

\* Ready for the desired generation is true of the objects, not only of the
\* observation it was computed from (STAT-004).
ReadyIsTrue ==
    status.phase = "Ready" /\ status.observed = Len(log) /\ ~deleting =>
        FidelitySatisfied(Len(log), [nodes |-> OwnedOnly(nodes),
                                     leases |-> OwnedOnly(leases)])

\* A status computed for a superseded generation, or before deletion was
\* requested, is discarded: Ready is only ever committed for the generation
\* that is current at that moment.
ReadyIsCurrent ==
    [][status'.phase = "Ready" /\ status' # status
            => status'.observed = Len(log') /\ ~deleting']_vars

\* The Lease exists before the active Node that KWOK would create one for, so
\* that the runtime never wins the race (6.2 and reconcile.go:1193).
NoRuntimeLease == \A n \in Names : leases[n] # Foreign

\* When the finalizer is gone no owned object is left (SAFE-007).
DeletionLeavesNothing ==
    ~exists => \A n \in Names : ~IsOwned(nodes[n]) /\ ~IsOwned(leases[n])

\* Unless deletion is requested the loop comes to rest, Ready for the last
\* accepted generation or reporting a Pod that really blocks it.
Converges ==
    <>[](\/ deleting
         \/ status.phase = "Ready" /\ status.observed = Len(log)
         \/ status.blocked /\ BusyNodes # {})

\* A requested deletion ends with the instance gone, or reports a Pod that
\* really blocks it.
DeletionEnds ==
    <>[](deleting => ~exists \/ (status.blocked /\ BusyNodes # {}))

\* A resource that still hosts a Pod is not taken away from its Node (ADR
\* 0003: a replacement "cannot remove a node or resource that still hosts
\* unowned Pods").
BusyResourceKept ==
    [][\A n \in Names : SameNode(n) /\ n \in BusyNodes
            => nodes'[n].res = nodes[n].res]_vars

=============================================================================
