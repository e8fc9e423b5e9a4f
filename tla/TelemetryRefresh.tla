-------------------------- MODULE TelemetryRefresh --------------------------
(***************************************************************************)
(* Simulated Vendor Telemetry (internal/telemetry, cmd/kasim-telemetry):   *)
(* one loop lists the Scenario Instances, then the Nodes, joins them, and  *)
(* replaces the rendered page; scrapes are answered from that page only.   *)
(* A page outlives failed and hanging refreshes until it is stale.         *)
(*                                                                         *)
(* Time advances by refresh intervals (Tick).  A page is the devices of    *)
(* each Node; metric families, values and labels are functions of them and *)
(* are left out.                                                           *)
(***************************************************************************)
EXTENDS Naturals, FiniteSetsExt, TLC

CONSTANTS
    Instances,      \* UIDs of Scenario Instances
    Nodes,          \* names of Synthetic Nodes; each belongs to one UID
    Graph,          \* Graph[i][g]: the Nodes that generation g of i asks for
    Changed,        \* <<n, g>>: generation g asks for another n than g - 1 did
    Refused,        \* <<i, g>>: the catalog of this process does not compile
                    \* generation g of i, or its projection cannot be built
    MaximumDevices, \* the budget of a page
    StaleAfter,     \* refresh intervals until a page is stale
    MaxGeneration, MaxFaults,   \* bounds: revisions; outages and foreign writes
    MaxDelay,       \* bound: intervals a refresh may take
    NoNode, NoPage

ASSUME TelemetryAssumption ==
    /\ \A i \in Instances : DOMAIN Graph[i] = 1..MaxGeneration
    /\ StaleAfter \in Nat /\ StaleAfter >= 2
    /\ MaxDelay \in Nat /\ MaximumDevices \in Nat \ {0}
    /\ MaxGeneration \in Nat /\ MaxFaults \in Nat

VARIABLES
    instances,      \* desired generation (0: none) and deletion of each instance
    nodes,          \* the Nodes, by name: owner, generation label, device quantity
    up, faults,     \* the API server answers; faults that may still happen
    due, refresh, took,     \* the ticker, the running refresh and its duration
    listed,         \* the instances this refresh has listed
    page, sourceUp, ready,  \* the rendered state: the page and what it says of its source
    age,            \* intervals since the last success, up to stale
    gone            \* history: intervals since each Node was last owned

cluster == <<instances, nodes, up, faults>>
process == <<due, refresh, took, listed, page, sourceUp, ready, age>>
vars == <<cluster, process, gone>>

Stale == StaleAfter + 1
Forgotten == StaleAfter + MaxDelay + 1
Devices == 0..MaximumDevices + 1
Instance == [generation : 0..MaxGeneration, deleting : BOOLEAN]
Node == [owner : Instances, generation : 1..MaxGeneration, devices : Devices]
Page == UNION {[names -> Devices] : names \in SUBSET Nodes}

TypeOK ==
    /\ instances \in [Instances -> Instance]
    /\ nodes \in [Nodes -> Node \union {NoNode}]
    /\ up \in BOOLEAN /\ faults \in 0..MaxFaults
    /\ due \in BOOLEAN /\ refresh \in {"idle", "instances", "nodes"}
    /\ took \in 0..MaxDelay
    /\ listed \in [Instances -> Instance]
    /\ page \in Page \union {NoPage}
    /\ page # NoPage => SumSet({page[n] : n \in DOMAIN page}) <= MaximumDevices
    /\ sourceUp \in BOOLEAN /\ ready \in BOOLEAN
    /\ age \in 0..Stale /\ gone \in [Nodes -> 0..Forgotten]

Init ==
    /\ instances = [i \in Instances |-> [generation |-> 0, deleting |-> FALSE]]
    /\ nodes = [n \in Nodes |-> NoNode]
    /\ up = TRUE /\ faults = MaxFaults
    /\ due = TRUE /\ refresh = "idle" /\ took = 0 /\ listed = instances
    /\ page = NoPage /\ sourceUp = FALSE /\ ready = FALSE
    /\ age = Stale /\ gone = [n \in Nodes |-> Forgotten]

-----------------------------------------------------------------------------
(***************************************************************************)
(* What a refresh reads.                                                   *)
(***************************************************************************)

\* The Nodes of an instance as listed that carry its generation.
Joined ==
    {n \in Nodes :
        /\ nodes[n] # NoNode
        /\ LET i == listed[nodes[n].owner]
           IN  /\ i.generation > 0 /\ ~i.deleting
               /\ n \in Graph[nodes[n].owner][i.generation]
               /\ nodes[n].generation = i.generation}

\* appendDevices: quantities are not trusted; over the budget nothing is shown.
WithinBudget(names) ==
    MapThenSumSet(LAMBDA n : nodes[n].devices, names) <= MaximumDevices

\* One instance that has Nodes and cannot be projected fails the whole refresh.
Projects(i, instance) ==
    instance.generation > 0 /\ ~instance.deleting => <<i, instance.generation>> \notin Refused
Readable ==
    /\ WithinBudget(Joined)
    /\ \A n \in Nodes : nodes[n] # NoNode => Projects(nodes[n].owner, listed[nodes[n].owner])

Observation == [n \in Joined |-> nodes[n].devices]

-----------------------------------------------------------------------------
(***************************************************************************)
(* The refresh loop.                                                       *)
(***************************************************************************)

StartRefresh ==
    /\ refresh = "idle" /\ due
    /\ due' = FALSE /\ refresh' = "instances" /\ took' = 0
    /\ UNCHANGED <<cluster, listed, page, sourceUp, ready, age, gone>>

ListInstances ==
    /\ refresh = "instances" /\ up
    /\ listed' = instances /\ refresh' = "nodes"
    /\ UNCHANGED <<cluster, due, took, page, sourceUp, ready, age, gone>>

\* Mutation: the new observation is merged into the last page.
ListNodesMerged ==
    /\ refresh = "nodes" /\ up /\ Readable
    /\ page' = IF page = NoPage THEN Observation ELSE Observation @@ page
    /\ sourceUp' = TRUE /\ ready' = TRUE /\ age' = 0
    /\ refresh' = "idle"
    /\ UNCHANGED <<cluster, due, took, listed, gone>>

ListNodes ==
    /\ refresh = "nodes" /\ up /\ Readable
    /\ page' = Observation /\ sourceUp' = TRUE /\ ready' = TRUE /\ age' = 0
    /\ refresh' = "idle"
    /\ UNCHANGED <<cluster, due, took, listed, gone>>

\* Mutations: a failure renews the last page; a failure does not mark it.
RefreshFailsRenewed ==
    /\ \/ refresh \in {"instances", "nodes"} /\ ~up
       \/ refresh = "nodes" /\ ~Readable
    /\ sourceUp' = FALSE /\ ready' = FALSE /\ age' = 0 /\ refresh' = "idle"
    /\ UNCHANGED <<cluster, due, took, listed, page, gone>>
RefreshFailsUnmarked ==
    /\ \/ refresh \in {"instances", "nodes"} /\ ~up
       \/ refresh = "nodes" /\ ~Readable
    /\ refresh' = "idle"
    /\ UNCHANGED <<cluster, due, took, listed, page, sourceUp, ready, age, gone>>

\* The last page stays, marked, and keeps its age.
RefreshFails ==
    /\ \/ refresh \in {"instances", "nodes"} /\ ~up
       \/ refresh = "nodes" /\ ~Readable
    /\ sourceUp' = FALSE /\ ready' = FALSE /\ refresh' = "idle"
    /\ UNCHANGED <<cluster, due, took, listed, page, age, gone>>

Refresh == StartRefresh \/ ListInstances \/ ListNodes \/ RefreshFails

\* What /metrics and /readyz answer.
Metrics == IF page # NoPage /\ age <= StaleAfter THEN page ELSE NoPage
Readyz == ready /\ age <= StaleAfter
Shown == IF Metrics = NoPage THEN {} ELSE DOMAIN page

-----------------------------------------------------------------------------
(***************************************************************************)
(* The cluster: revisions and deletions of instances, and what the         *)
(* Instance Reconciler makes of them (module InstanceReconciler).          *)
(***************************************************************************)

Asked(i, n) ==
    /\ instances[i].generation > 0 /\ ~instances[i].deleting
    /\ n \in Graph[i][instances[i].generation]
Owned(n) == nodes[n] # NoNode /\ Asked(nodes[n].owner, n)
\* A Node that a revision leaves alone keeps its generation label.
UpToDate(i, n) ==
    /\ nodes[n] # NoNode
    /\ \A g \in nodes[n].generation + 1..instances[i].generation : <<n, g>> \notin Changed

Revise(i) ==
    /\ instances[i].generation < MaxGeneration /\ ~instances[i].deleting
    /\ instances' = [instances EXCEPT ![i].generation = @ + 1]
    /\ UNCHANGED nodes

Delete(i) ==
    /\ instances[i].generation > 0
    /\ instances' = [instances EXCEPT ![i].deleting = TRUE]
    /\ UNCHANGED nodes

Apply(i, n) ==
    /\ Asked(i, n) /\ ~UpToDate(i, n)
    /\ nodes' = [nodes EXCEPT ![n] = [owner |-> i, devices |-> 1,
                                      generation |-> instances[i].generation]]
    /\ UNCHANGED instances

Remove(n) ==
    /\ nodes[n] # NoNode /\ ~Owned(n)
    /\ nodes' = [nodes EXCEPT ![n] = NoNode]
    /\ UNCHANGED instances

Quiet == UNCHANGED <<up, faults, process>>
Reconcile ==
    /\ \/ \E i \in Instances, n \in Nodes : Apply(i, n)
       \/ \E n \in Nodes : Remove(n)
    /\ Quiet
Command == (\E i \in Instances : Revise(i) \/ Delete(i)) /\ Quiet

\* Someone else writes the quantity of a Node.
PatchStatus ==
    /\ faults > 0
    /\ \E n \in Nodes, d \in Devices :
         nodes[n] # NoNode /\ nodes' = [nodes EXCEPT ![n].devices = d]
    /\ faults' = faults - 1
    /\ UNCHANGED <<instances, up, process>>

Outage == up /\ faults > 0 /\ up' = FALSE /\ faults' = faults - 1
Recover == ~up /\ up' = TRUE /\ UNCHANGED faults

History == gone' = [n \in Nodes |-> IF Owned(n)' THEN 0 ELSE gone[n]]
Cluster ==
    /\ \/ Reconcile \/ Command \/ PatchStatus
       \/ (Outage \/ Recover) /\ UNCHANGED <<instances, nodes, process>>
    /\ History

\* A refresh interval passes.  A due refresh starts in less time, and takes MaxDelay
\* intervals at most.
Older(n, limit) == IF n < limit THEN n + 1 ELSE limit
Tick ==
    /\ IF refresh = "idle" THEN ~due ELSE took < MaxDelay
    /\ due' = TRUE
    /\ took' = IF refresh = "idle" THEN 0 ELSE took + 1
    /\ age' = Older(age, Stale)
    /\ gone' = [n \in Nodes |-> IF Owned(n) THEN 0 ELSE Older(gone[n], Forgotten)]
    /\ UNCHANGED <<cluster, refresh, listed, page, sourceUp, ready>>

Next == Refresh \/ Cluster \/ Tick

\* The loop runs, time passes, and the controller works.
Spec ==
    /\ Init /\ [][Next]_vars
    /\ WF_vars(Refresh) /\ WF_vars(Tick) /\ WF_vars(Reconcile /\ History)

-----------------------------------------------------------------------------
(***************************************************************************)
(* Properties.                                                             *)
(***************************************************************************)

\* TEL-004, TEL-005: however refreshes fail or hang, no series outlives its Node by
\* more than the stale interval and the duration of one refresh, and no other Node
\* has any.
SeriesExpire == \A n \in Shown : gone[n] <= StaleAfter + MaxDelay

\* TEL-005: when the API server stays away the endpoint stops being ready, drops the
\* native series and says that its source is down, whatever request was under way.
OutagesAreNoticed == <>[](~up) => <>[](~Readyz /\ Shown = {} /\ ~sourceUp)

\* Once the cluster settles with every Node up to date and within the budget, and every
\* instance can be projected, the endpoint is ready and shows exactly the owned Nodes, whatever failed before.
AllOwned == {n \in Nodes : Owned(n)}
Settled ==
    /\ up /\ WithinBudget(AllOwned)
    /\ \A i \in Instances : Projects(i, instances[i])
    /\ \A i \in Instances, n \in Nodes : Asked(i, n) => Owned(n)
AllShown == Readyz /\ Shown = AllOwned /\ \A n \in Shown : page[n] = nodes[n].devices
RecoveryIsShown ==
    <>[](Settled /\ \A n \in AllOwned :
            nodes[n].generation = instances[nodes[n].owner].generation) => <>[]AllShown

\* simulated-vendor-telemetry.md:3: every exactly owned Synthetic Node is shown.
EveryNodeIsShown == <>[]Settled => <>[]AllShown
=============================================================================
