--------------------------- MODULE DRAReconciler ---------------------------
(***************************************************************************)
(* The convergence loop of a Scenario Instance in the dra-control-plane    *)
(* mode: what it adds to InstanceReconciler.  A revision publishes the     *)
(* devices of every Node in ResourceSlices of its own generation, then     *)
(* removes those of older generations, unless a claim holds one of their   *)
(* devices; Nodes are opened when class, slices and workloads are as they  *)
(* should be.  The scheduler allocates devices at any moment.              *)
(*                                                                         *)
(* One group and one pool per Node: one DeviceClass.  Nodes are absent,    *)
(* closed or open; their labels, Leases and heartbeats are those of        *)
(* InstanceReconciler.  One controller; it alone writes the inventory.     *)
(***************************************************************************)
EXTENDS Naturals, SequencesExt

CONSTANTS
    Names,          \* Synthetic Nodes
    Claims,         \* ResourceClaims; each is used by one Pod of its own
    Scenarios,      \* [model, nodes: Name -> [capacity, healthy]]
    SliceSize,      \* maximumDevicesPerSlice
    MaxGeneration, MaxFaults,   \* bounds: revisions, failing passes
    Absent, Pending

VARIABLES
    log, instance,      \* the revisions; "active", "deleting" or "gone"
    status,             \* phase and generation of the last status
    nodes, class, slices,   \* the inventory
    claims,             \* Absent, Pending, or the device a claim holds
    pc, record, seen, job,  \* the pass of the controller
    faults

object == <<log, instance, status>>
inventory == <<nodes, class, slices>>
pass == <<pc, record, seen, job>>
vars == <<object, inventory, claims, pass, faults>>

Generations == 1..MaxGeneration

ASSUME DRAAssumption ==
    /\ SliceSize \in Nat \ {0} /\ MaxGeneration \in Nat \ {0} /\ MaxFaults \in Nat
    /\ \A s \in Scenarios : /\ DOMAIN s.nodes \subseteq Names
                            /\ \A n \in DOMAIN s.nodes :
                                 /\ s.nodes[n].capacity \in Nat
                                 /\ s.nodes[n].healthy \in 0..s.nodes[n].capacity

-----------------------------------------------------------------------------
(***************************************************************************)
(* The projection of generation g (Render).  A slice is named by its Node, *)
(* generation and shard; a device by its Node and index, whatever the      *)
(* generation.                                                             *)
(***************************************************************************)

Wanted(g) == DOMAIN log[g].nodes
Pool(n, g) == log[g].nodes[n]

\* An empty pool has one slice, without devices.
Shards(n, g) ==
    IF Pool(n, g).capacity = 0 THEN 1
    ELSE (Pool(n, g).capacity + SliceSize - 1) \div SliceSize

Slices(g) == UNION {{<<n, g, k>> : k \in 1..Shards(n, g)} : n \in Wanted(g)}

\* Mutation: shards overlap.
DevicesOverlapping(s) ==
    {<<s[1], i>> : i \in {i \in 1..Pool(s[1], s[2]).capacity :
                          i >= (s[3] - 1) * SliceSize /\ i <= s[3] * SliceSize}}
Devices(s) ==
    {<<s[1], i>> : i \in {i \in 1..Pool(s[1], s[2]).capacity :
                          i > (s[3] - 1) * SliceSize /\ i <= s[3] * SliceSize}}
DevicesOf(S) == UNION {Devices(s) : s \in S}
IsHealthy(device, g) == device[2] <= Pool(device[1], g).healthy

Held(claimed) == {claimed[c] : c \in {c \in Claims : claimed[c] \notin {Absent, Pending}}}

-----------------------------------------------------------------------------

TypeOK ==
    /\ log \in Seq(Scenarios) /\ Len(log) \in Generations
    /\ instance \in {"active", "deleting", "gone"}
    /\ status.phase \in {"", "Reconciling", "Ready", "Deleting"}
    /\ status.generation \in 0..MaxGeneration /\ status.blocked \in BOOLEAN
    /\ nodes \in [Names -> {"absent", "closed", "open"}]
    /\ class \in Generations \union {Absent}
    /\ \A s \in slices : /\ s[2] \in 1..Len(log) /\ s \in Slices(s[2])
                         /\ Cardinality(Devices(s)) <= SliceSize
    /\ \A s, t \in slices : s[2] = t[2] /\ s # t => Devices(s) \cap Devices(t) = {}
    /\ \A c \in Claims : claims[c] \in {Absent, Pending} \union (Names \X Nat)
    /\ pc \in {"idle", "workloads", "apply", "commit"} /\ faults \in 0..MaxFaults
    /\ record.generation \in 0..Len(log) /\ record.deleting \in BOOLEAN

NothingSeen == [nodes |-> [n \in Names |-> "absent"], class |-> Absent, slices |-> {}]
NoJob == [op |-> "none", on |-> {}]

Init ==
    /\ log \in {<<s>> : s \in Scenarios} /\ instance = "active"
    /\ status = [phase |-> "", generation |-> 0, blocked |-> FALSE]
    /\ nodes = [n \in Names |-> "absent"] /\ class = Absent /\ slices = {}
    /\ claims = [c \in Claims |-> Absent]
    /\ pc = "idle" /\ record = [generation |-> 0, deleting |-> FALSE]
    /\ seen = NothingSeen /\ job = NoJob /\ faults = MaxFaults

-----------------------------------------------------------------------------
(***************************************************************************)
(* What a pass chooses to do, from its observation o and the claims q.     *)
(***************************************************************************)

\* Mutation: only the class of a claim counts.
ClaimBlockersByClass(q, classGone, staleSlices) ==
    {c \in Claims : q[c] # Absent /\ classGone}
\* draClaimBlockers: claims that name a class or hold a device that would go.
ClaimBlockers(q, classGone, staleSlices) ==
    {c \in Claims : \/ q[c] # Absent /\ classGone
                    \/ q[c] \in DevicesOf(staleSlices)}
PodBlockers(q, names) ==
    {c \in Claims : q[c] \notin {Absent, Pending} /\ q[c][1] \in names}

OpenOf(o, names) == {n \in names : o.nodes[n] = "open"}
Present(o) == {n \in Names : o.nodes[n] # "absent"}

StaleSlices(g, o) == o.slices \ Slices(g)

\* assessSelectedWorkloads: the Pod of every claim is bound to the Node of the
\* allocated device, and the Scenario still has that device.
WorkloadRequired(g, q) ==
    \E c \in Claims : q[c] \in DevicesOf(Slices(g))
WorkloadAchieved(g, q) ==
    \A c \in Claims : q[c] # Absent => q[c] \in DevicesOf(Slices(g))

Complete(n, g, o) ==
    {s \in o.slices : s[1] = n} = {s \in Slices(g) : s[1] = n}
MustClose(g, o) == {n \in OpenOf(o, Wanted(g)) : ~Complete(n, g, o)}
\* Assess: allAchieved, for the Nodes to be opened and for the instance to be Ready.
Achieved(g, o, q) ==
    /\ o.class # Absent /\ log[o.class].model = log[g].model
    /\ Wanted(g) \subseteq Present(o) /\ \A n \in Wanted(g) : Complete(n, g, o)
    /\ \A s \in o.slices : s[1] \in Wanted(g)
    /\ WorkloadAchieved(g, q)
Openable(g, o, q) ==
    IF Achieved(g, o, q) THEN {n \in Wanted(g) : o.nodes[n] = "closed"} ELSE {}

Stage(op, on) == [op |-> op, on |-> on]
ConvergenceStages(g, o, q) ==
    LET staleNodes == Present(o) \ Wanted(g)
        stale == StaleSlices(g, o)
    IN  << Stage("create-node", Wanted(g) \ Present(o)),
           Stage("apply-class", IF o.class = g THEN {} ELSE {g}),
           Stage("apply-slice", Slices(g) \ o.slices),
           Stage("close", OpenOf(o, staleNodes)),
           Stage("blocked", PodBlockers(q, staleNodes)),
           Stage("blocked", ClaimBlockers(q, FALSE, stale)),
           Stage("delete-slice", stale),
           Stage("delete-node", staleNodes),
           Stage("close", MustClose(g, o)),
           Stage("open", Openable(g, o, q)) >>
DeletionStages(o, q) ==
    << Stage("close", OpenOf(o, Names)),
       Stage("blocked", PodBlockers(q, Present(o))),
       Stage("blocked", ClaimBlockers(q, o.class # Absent, o.slices)),
       Stage("delete-slice", o.slices),
       Stage("delete-class", {o.class} \ {Absent}),
       Stage("delete-node", Present(o)) >>

FirstStage(stages) ==
    LET i == SelectInSeq(stages, LAMBDA stage : stage.on # {})
    IN  IF i = 0 THEN NoJob ELSE stages[i]

-----------------------------------------------------------------------------
(***************************************************************************)
(* The pass.                                                               *)
(***************************************************************************)

\* The instance is read; Nodes, the class and the slices are listed ...
Observe ==
    /\ pc = "idle" /\ instance # "gone"
    /\ record' = [generation |-> Len(log), deleting |-> instance = "deleting"]
    /\ seen' = [nodes |-> nodes, class |-> class, slices |-> slices]
    /\ pc' = "workloads"
    /\ UNCHANGED <<object, inventory, claims, job, faults>>

\* ... then the claims and the Pods, and the stage is chosen.
ChooseStage ==
    /\ pc = "workloads"
    /\ LET g == record.generation
           owned == seen.class # Absent \/ seen.slices # {}
           q == IF owned THEN claims ELSE [c \in Claims |-> Absent]
           stage == FirstStage(IF record.deleting THEN DeletionStages(seen, q)
                               ELSE ConvergenceStages(g, seen, q))
       IN  IF stage.op \in {"none", "blocked"}
           THEN /\ pc' = "commit"
                /\ job' = [stage EXCEPT !.op =
                               IF stage.op = "none" /\ ~record.deleting /\ Achieved(g, seen, q)
                               THEN "ready" ELSE @]
           ELSE pc' = "apply" /\ job' = stage
    /\ UNCHANGED <<object, inventory, claims, record, seen, faults>>

\* One request of the stage; each is validated against the object as it is.
Request(x) ==
    /\ pc = "apply" /\ x \in job.on
    /\ job' = [job EXCEPT !.on = @ \ {x}]
    /\ CASE job.op \in {"create-node", "close"} ->
                /\ nodes' = [nodes EXCEPT ![x] = "closed"] /\ UNCHANGED <<class, slices>>
         [] job.op = "open" ->
                /\ nodes' = [nodes EXCEPT ![x] = "open"] /\ UNCHANGED <<class, slices>>
         [] job.op = "delete-node" ->
                /\ nodes' = [nodes EXCEPT ![x] = "absent"] /\ UNCHANGED <<class, slices>>
         [] job.op = "apply-class" -> class' = x /\ UNCHANGED <<nodes, slices>>
         [] job.op = "delete-class" -> class' = Absent /\ UNCHANGED <<nodes, slices>>
         [] job.op = "apply-slice" ->
                slices' = slices \union {x} /\ UNCHANGED <<nodes, class>>
         [] job.op = "delete-slice" ->
                slices' = slices \ {x} /\ UNCHANGED <<nodes, class>>
    /\ UNCHANGED <<object, claims, pc, record, seen, faults>>

Reset == pc' = "idle" /\ seen' = NothingSeen /\ job' = NoJob /\ UNCHANGED record

\* The stage is done: the status is committed as well, and the key is queued again.
EndStage ==
    /\ pc = "apply" /\ job.on = {}
    /\ pc' = "commit" /\ UNCHANGED <<object, inventory, claims, record, seen, job, faults>>

\* A status for another generation, or from before the deletion, is refused.
Current ==
    /\ record.generation = Len(log) /\ record.deleting = (instance = "deleting")

\* Mutation: the status is stamped with the generation it is committed under.
CommitStamping ==
    /\ pc = "commit"
    /\ IF record.deleting # (instance = "deleting") THEN UNCHANGED <<instance, status>>
       ELSE /\ status' = [phase |-> IF record.deleting THEN "Deleting"
                                    ELSE IF job.op = "ready" THEN "Ready" ELSE "Reconciling",
                          generation |-> Len(log), blocked |-> job.op = "blocked"]
            /\ instance' = IF record.deleting /\ job.op = "none" THEN "gone" ELSE instance
    /\ Reset /\ UNCHANGED <<log, inventory, claims, faults>>
Commit ==
    /\ pc = "commit"
    /\ IF ~Current THEN UNCHANGED <<instance, status>>
       ELSE /\ status' = [phase |-> IF record.deleting THEN "Deleting"
                                    ELSE IF job.op = "ready" THEN "Ready" ELSE "Reconciling",
                          generation |-> record.generation,
                          blocked |-> job.op = "blocked"]
            /\ instance' = IF record.deleting /\ job.op = "none"
                           THEN "gone" ELSE instance
    /\ Reset /\ UNCHANGED <<log, inventory, claims, faults>>

\* A request fails or the controller restarts; the key is queued again.
Abort ==
    /\ pc # "idle" /\ faults > 0 /\ faults' = faults - 1
    /\ Reset /\ UNCHANGED <<object, inventory, claims>>

Controller == Observe \/ ChooseStage \/ (\E x \in job.on : Request(x)) \/ EndStage \/ Commit

-----------------------------------------------------------------------------
(***************************************************************************)
(* Commands, and the cluster (external): Pods with claims, the scheduler.  *)
(***************************************************************************)

Revise ==
    /\ instance = "active" /\ Len(log) < MaxGeneration
    /\ \E s \in Scenarios \ {Last(log)} : log' = Append(log, s)
    /\ UNCHANGED <<instance, status, inventory, claims, pass, faults>>
Delete ==
    /\ instance = "active" /\ instance' = "deleting"
    /\ UNCHANGED <<log, status, inventory, claims, pass, faults>>

\* The scheduler uses the highest generation of a pool, if all its slices are there.
Offered(n) ==
    LET mine == {s \in slices : s[1] = n}
        g == CHOOSE g \in {s[2] : s \in mine} : \A s \in mine : s[2] <= g
        newest == {s \in mine : s[2] = g}
    IN  IF mine # {} /\ Cardinality(newest) = Shards(n, g) /\ log[g].model = log[class].model
        THEN {d \in DevicesOf(newest) : IsHealthy(d, g)} ELSE {}
Allocate(c) ==
    /\ claims[c] = Pending /\ class # Absent
    /\ \E n \in Names :
         /\ nodes[n] = "open"
         /\ \E d \in Offered(n) \ Held(claims) : claims' = [claims EXCEPT ![c] = d]
    /\ UNCHANGED <<object, inventory, pass, faults>>
Claim(c) ==
    /\ claims[c] = Absent /\ claims' = [claims EXCEPT ![c] = Pending]
    /\ UNCHANGED <<object, inventory, pass, faults>>
Release(c) ==
    /\ claims[c] # Absent /\ claims' = [claims EXCEPT ![c] = Absent]
    /\ UNCHANGED <<object, inventory, pass, faults>>

Next ==
    \/ Controller \/ Abort \/ Revise \/ Delete
    \/ \E c \in Claims : Allocate(c) \/ Claim(c) \/ Release(c)

\* The controller works off its queue; the scheduler serves what it can.
Spec ==
    /\ Init /\ [][Next]_vars
    /\ WF_vars(Controller) /\ \A c \in Claims : WF_vars(Allocate(c))

-----------------------------------------------------------------------------
(***************************************************************************)
(* Properties.                                                             *)
(***************************************************************************)

\* ADR 0003: a revision or deletion never takes the device of a claim away, nor its
\* Node, whenever the scheduler allocated it.
AllocatedDevicesStay ==
    \A device \in Held(claims) : device \in DevicesOf(slices) /\ nodes[device[1]] # "absent"

\* Ready for the desired generation: exactly its class, slices and Nodes are there, and
\* all its Nodes are open; older generations of a pool are gone.
ReadyInventoryIsExact ==
    status.phase = "Ready" /\ status.generation = Len(log) /\ instance = "active" =>
        /\ class = Len(log) /\ slices = Slices(Len(log))
        /\ \A n \in Names : nodes[n] = IF n \in Wanted(Len(log)) THEN "open" ELSE "absent"

\* Once no claim is left, an instance becomes Ready and stays so, or its deletion ends
\* with nothing left.
Idle == \A c \in Claims : claims[c] = Absent
ConvergesWhenIdle ==
    /\ <>[](Idle /\ instance = "active") =>
            <>[](status.phase = "Ready" /\ status.generation = Len(log))
    /\ <>[](Idle /\ instance # "active") =>
            <>[](instance = "gone" /\ slices = {} /\ class = Absent
                 /\ \A n \in Names : nodes[n] = "absent")

\* TestDRAReconcileConvergesClassThenCompleteInventoryBeforeOpening: a complete
\* inventory opens the Nodes.
InventoryComplete ==
    /\ instance = "active" /\ class = Len(log) /\ slices = Slices(Len(log))
    /\ \A n \in Names : nodes[n] # "absent" <=> n \in Wanted(Len(log))
CompleteInventoryOpens ==
    <>[]InventoryComplete => <>[](\A n \in Wanted(Len(log)) : nodes[n] = "open")
=============================================================================
