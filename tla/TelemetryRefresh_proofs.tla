----------------------- MODULE TelemetryRefresh_proofs -----------------------
(***************************************************************************)
(* Proofs about module TelemetryRefresh: how long a series can outlive its *)
(* Synthetic Node, for every set of instances and Nodes, every stale       *)
(* interval and every duration of a refresh.                               *)
(*                                                                         *)
(* A page is joined from two reads that are up to MaxDelay intervals       *)
(* apart, and the second one may see a Node that was applied, and an       *)
(* instance that was revised or deleted, after the first.  What the        *)
(* argument needs of that is Joinable: whatever the second read would join *)
(* was owned at some moment since the first one.                           *)
(***************************************************************************)
EXTENDS TelemetryRefresh, TLAPS

\* The types the argument uses: those of the clocks and of the cluster.
Typed ==
    /\ instances \in [Instances -> Instance]
    /\ nodes \in [Nodes -> Node \union {NoNode}]
    /\ took \in 0..MaxDelay /\ age \in 0..Stale
    /\ gone \in [Nodes -> 0..Forgotten]
    /\ page # NoPage => DOMAIN page \subseteq Nodes

\* The clock of a Node stands still while the Node is owned.
OwnedNow == \A n \in Nodes : Owned(n) => gone[n] = 0

\* A Node that this refresh would show was owned since it began.
Joinable == refresh = "nodes" => \A n \in Joined : gone[n] <= took

\* A page is as old as its age says and as the reads it was made from.
PageOK ==
    page # NoPage /\ age <= StaleAfter =>
        \A n \in DOMAIN page : gone[n] <= age + MaxDelay

IInv == Typed /\ OwnedNow /\ Joinable /\ PageOK

-----------------------------------------------------------------------------

\* What the constants give.
LEMMA Constants ==
    /\ StaleAfter \in Nat /\ MaxDelay \in Nat
    /\ Stale = StaleAfter + 1 /\ Forgotten = StaleAfter + MaxDelay + 1
    /\ MaxGeneration \in Nat /\ 1 \in Devices
BY TelemetryAssumption DEF Stale, Forgotten, Devices

\* The join of a refresh asks of an instance as listed what ownership asks of it
\* as it is.
LEMMA JoinedWhenListed ==
    ASSUME Typed, listed = instances, NEW n \in Joined
    PROVE  n \in Nodes /\ Owned(n)
BY DEF Joined, Owned, Asked

\* A Node that keeps its owner and its label is joined as before.
LEMMA JoinedBefore ==
    ASSUME UNCHANGED listed, NEW n \in Joined',
           nodes[n] # NoNode, nodes'[n].owner = nodes[n].owner,
           nodes'[n].generation = nodes[n].generation
    PROVE  n \in Joined
BY DEF Joined

\* Clocks never jump.
LEMMA OlderIsNext ==
    ASSUME NEW limit \in Nat, NEW x \in 0..limit
    PROVE  Older(x, limit) \in 0..limit /\ Older(x, limit) <= x + 1
           /\ (x < limit => Older(x, limit) = x + 1)
           /\ (x >= limit => Older(x, limit) = limit)
BY DEF Older

-----------------------------------------------------------------------------
(***************************************************************************)
(* The refresh loop: the cluster and its history stay as they are.         *)
(***************************************************************************)

LEMMA InitHolds == Init => IInv
<1> SUFFICES ASSUME Init
             PROVE  IInv
  OBVIOUS
<1>1. Typed
  <2>1. [generation |-> 0, deleting |-> FALSE] \in Instance
    BY Constants DEF Instance
  <2>2. took \in 0..MaxDelay /\ age \in 0..Stale /\ gone \in [Nodes -> 0..Forgotten]
    BY Constants DEF Init
  <2> QED
    BY <2>1, <2>2 DEF Init, Typed
<1>2. OwnedNow /\ Joinable /\ PageOK
  BY DEF Init, OwnedNow, Owned, Joinable, PageOK
<1> QED
  BY <1>1, <1>2 DEF IInv

\* Ownership does not depend on the process.
LEMMA SameOwners ==
    ASSUME IInv, UNCHANGED <<cluster, gone>>
    PROVE  OwnedNow'
BY DEF IInv, OwnedNow, Owned, Asked, cluster

LEMMA RefreshKeeps ==
    ASSUME IInv, Refresh
    PROVE  IInv'
<1>1. UNCHANGED <<instances, nodes, gone>> /\ UNCHANGED cluster
  BY DEF Refresh, StartRefresh, ListInstances, ListNodes, RefreshFails, cluster
<1>2. OwnedNow'
  BY <1>1, SameOwners
<1>3. CASE StartRefresh
  <2>1. UNCHANGED <<page, age>> /\ took' = 0 /\ refresh' = "instances"
    BY <1>3 DEF StartRefresh
  <2> QED
    BY <1>1, <1>2, <2>1, Constants DEF IInv, Typed, Joinable, PageOK
<1>4. CASE ListInstances
  <2>1. UNCHANGED <<page, age, took>> /\ listed' = instances
    BY <1>4 DEF ListInstances
  <2>2. ASSUME NEW n \in Joined'
        PROVE  gone'[n] <= took'
    <3>1. n \in Nodes /\ Owned(n)
      BY <1>1, <2>1, <2>2 DEF Joined, Owned, Asked
    <3>2. gone[n] = 0
      BY <3>1 DEF IInv, OwnedNow
    <3> QED
      BY <1>1, <2>1, <3>2, Constants DEF IInv, Typed
  <2> QED
    BY <1>1, <1>2, <2>1, <2>2 DEF IInv, Typed, Joinable, PageOK
<1>5. CASE ListNodes
  <2>1. /\ refresh = "nodes" /\ refresh' = "idle" /\ page' = Observation /\ age' = 0
        /\ UNCHANGED took
    BY <1>5 DEF ListNodes
  <2>2. DOMAIN page' = Joined /\ Joined \subseteq Nodes
    BY <2>1 DEF Observation, Joined
  <2>3. \A n \in Joined : gone'[n] <= age' + MaxDelay
    BY <1>1, <2>1, <2>2, Constants DEF IInv, Typed, Joinable
  <2>4. Typed'
    BY <1>1, <2>1, <2>2, Constants DEF IInv, Typed
  <2> QED
    BY <1>2, <2>1, <2>2, <2>3, <2>4 DEF IInv, Joinable, PageOK
<1>6. CASE RefreshFails
  <2>1. UNCHANGED <<page, age, took>> /\ refresh' = "idle"
    BY <1>6 DEF RefreshFails
  <2> QED
    BY <1>1, <1>2, <2>1 DEF IInv, Typed, Joinable, PageOK
<1> QED
  BY <1>3, <1>4, <1>5, <1>6 DEF Refresh

-----------------------------------------------------------------------------
(***************************************************************************)
(* The cluster: the process stays as it is, and History is written.        *)
(***************************************************************************)

\* History never makes a Node older.
LEMMA NoOlder ==
    ASSUME IInv, History
    PROVE  /\ gone' \in [Nodes -> 0..Forgotten] /\ OwnedNow'
           /\ \A n \in Nodes : gone'[n] <= gone[n]
           /\ \A n \in Nodes : Owned(n)' => gone'[n] = 0
<1>1. gone \in [Nodes -> 0..Forgotten] /\ Forgotten \in Nat
  BY Constants DEF IInv, Typed
<1>2. gone' = [n \in Nodes |-> IF Owned(n)' THEN 0 ELSE gone[n]]
  BY DEF History
<1>3. \A n \in Nodes : Owned(n)' => gone'[n] = 0
  BY <1>2
<1>4. \A n \in Nodes : gone'[n] = 0 \/ gone'[n] = gone[n]
  BY <1>2
<1>5. gone' \in [Nodes -> 0..Forgotten]
  BY <1>1, <1>2
<1>6. \A n \in Nodes : gone'[n] <= gone[n]
  BY <1>1, <1>4
<1> QED
  BY <1>3, <1>5, <1>6 DEF OwnedNow

\* A step of the cluster after which every Node that could be joined could be
\* joined before, or is owned now.
LEMMA ClusterStepKeeps ==
    ASSUME IInv, History, UNCHANGED process,
           instances' \in [Instances -> Instance],
           nodes' \in [Nodes -> Node \union {NoNode}],
           \A n \in Joined' : n \in Joined \/ Owned(n)'
    PROVE  IInv'
<1>1. UNCHANGED <<refresh, took, page, age>>
  BY DEF process
<1>2. /\ gone' \in [Nodes -> 0..Forgotten] /\ OwnedNow'
      /\ \A n \in Nodes : gone'[n] <= gone[n]
      /\ \A n \in Nodes : Owned(n)' => gone'[n] = 0
  BY NoOlder
<1>3. /\ gone \in [Nodes -> 0..Forgotten] /\ took \in 0..MaxDelay /\ age \in 0..Stale
      /\ page # NoPage => DOMAIN page \subseteq Nodes
  BY DEF IInv, Typed
<1>4. Joinable'
  <2> SUFFICES ASSUME refresh = "nodes", NEW n \in Joined'
               PROVE  gone'[n] <= took
    BY <1>1 DEF Joinable
  <2>1. n \in Nodes
    BY DEF Joined
  <2>2. CASE n \in Joined
    <3>1. gone[n] <= took
      BY <2>2 DEF IInv, Joinable
    <3> QED
      BY <2>1, <3>1, <1>2, <1>3, Constants
  <2>3. CASE Owned(n)'
    BY <2>1, <2>3, <1>2, <1>3, Constants
  <2> QED
    BY <2>2, <2>3
<1>5. PageOK'
  <2> SUFFICES ASSUME page # NoPage, age <= StaleAfter, NEW n \in DOMAIN page
               PROVE  gone'[n] <= age + MaxDelay
    BY <1>1 DEF PageOK
  <2>1. gone[n] <= age + MaxDelay /\ n \in Nodes
    BY <1>3 DEF IInv, PageOK
  <2> QED
    BY <2>1, <1>2, <1>3, Constants
<1>6. Typed'
  BY <1>1, <1>2, <1>3 DEF Typed
<1> QED
  BY <1>2, <1>4, <1>5, <1>6 DEF IInv

\* When the Nodes stay as they are, so does what the refresh joins.
LEMMA SameNodes ==
    ASSUME UNCHANGED <<nodes, process>>
    PROVE  \A n \in Joined' : n \in Joined \/ Owned(n)'
BY DEF Joined, process

LEMMA ReviseKeeps ==
    ASSUME IInv, NEW i \in Instances, Revise(i)
    PROVE  instances' \in [Instances -> Instance] /\ UNCHANGED nodes
<1>1. /\ instances[i] \in Instance /\ instances[i].generation < MaxGeneration
      /\ instances \in [Instances -> Instance]
      /\ instances' = [instances EXCEPT ![i].generation = @ + 1]
  BY DEF Revise, IInv, Typed
<1>2. [instances[i] EXCEPT !.generation = @ + 1] \in Instance
  BY <1>1, Constants DEF Instance
<1> QED
  BY <1>1, <1>2 DEF Revise

LEMMA DeleteKeeps ==
    ASSUME IInv, NEW i \in Instances, Delete(i)
    PROVE  instances' \in [Instances -> Instance] /\ UNCHANGED nodes
<1>1. /\ instances[i] \in Instance /\ instances \in [Instances -> Instance]
      /\ instances' = [instances EXCEPT ![i].deleting = TRUE]
  BY DEF Delete, IInv, Typed
<1>2. [instances[i] EXCEPT !.deleting = TRUE] \in Instance
  BY <1>1 DEF Instance
<1> QED
  BY <1>1, <1>2 DEF Delete

\* The reconciler applies what is asked for: the Node is owned at that moment.
LEMMA ApplyKeeps ==
    ASSUME IInv, NEW i \in Instances, NEW m \in Nodes, Apply(i, m), UNCHANGED process
    PROVE  /\ nodes' \in [Nodes -> Node \union {NoNode}]
           /\ \A n \in Joined' : n \in Joined \/ Owned(n)'
<1> DEFINE new == [owner |-> i, devices |-> 1, generation |-> instances[i].generation]
<1>1. /\ Asked(i, m) /\ UNCHANGED instances /\ nodes' = [nodes EXCEPT ![m] = new]
      /\ nodes \in [Nodes -> Node \union {NoNode}] /\ instances[i] \in Instance
  BY DEF Apply, IInv, Typed
<1>2. instances[i].generation \in 1..MaxGeneration
  BY <1>1 DEF Asked, Instance
<1>3. new \in Node
  BY <1>2, Constants DEF Node
<1>4. nodes'[m] = new /\ new.owner = i
  BY <1>1
<1> HIDE DEF new
<1>5. nodes' \in [Nodes -> Node \union {NoNode}]
  BY <1>1, <1>3
<1>6. ASSUME NEW n \in Joined'
      PROVE  n \in Joined \/ Owned(n)'
  <2>1. n \in Nodes /\ nodes'[n] # NoNode /\ UNCHANGED listed
    BY <1>6 DEF Joined, process
  <2>2. CASE n = m
    BY <1>1, <1>4, <2>1, <2>2 DEF Owned, Asked
  <2>3. CASE n # m
    <3>1. nodes'[n] = nodes[n]
      BY <1>1, <2>1, <2>3
    <3> QED
      BY <1>6, <2>1, <3>1, JoinedBefore
  <2> QED
    BY <2>2, <2>3
<1> QED
  BY <1>5, <1>6

LEMMA RemoveKeeps ==
    ASSUME IInv, NEW m \in Nodes, Remove(m), UNCHANGED process
    PROVE  /\ nodes' \in [Nodes -> Node \union {NoNode}]
           /\ \A n \in Joined' : n \in Joined \/ Owned(n)'
<1>1. nodes' = [nodes EXCEPT ![m] = NoNode] /\ nodes \in [Nodes -> Node \union {NoNode}]
  BY DEF Remove, IInv, Typed
<1>2. ASSUME NEW n \in Joined'
      PROVE  n \in Joined
  <2>1. n \in Nodes /\ nodes'[n] # NoNode /\ UNCHANGED listed
    BY <1>2 DEF Joined, process
  <2>2. nodes'[n] = nodes[n]
    BY <1>1, <2>1
  <2> QED
    BY <1>2, <2>1, <2>2, JoinedBefore
<1> QED
  BY <1>1, <1>2

\* A foreign write changes the quantity only.
LEMMA PatchKeeps ==
    ASSUME IInv, PatchStatus
    PROVE  /\ nodes' \in [Nodes -> Node \union {NoNode}]
           /\ \A n \in Joined' : n \in Joined \/ Owned(n)'
<1>1. PICK m \in Nodes, d \in Devices :
        nodes[m] # NoNode /\ nodes' = [nodes EXCEPT ![m].devices = d]
  BY DEF PatchStatus
<1>2. nodes \in [Nodes -> Node \union {NoNode}] /\ nodes[m] \in Node
  BY <1>1 DEF IInv, Typed
<1> DEFINE new == [nodes[m] EXCEPT !.devices = d]
<1>3. new \in Node /\ new.owner = nodes[m].owner /\ new.generation = nodes[m].generation
  BY <1>2 DEF Node
<1>4. nodes' = [nodes EXCEPT ![m] = new]
  BY <1>1
<1> HIDE DEF new
<1>5. ASSUME NEW n \in Joined'
      PROVE  n \in Joined
  <2>1. n \in Nodes /\ nodes'[n] # NoNode /\ UNCHANGED listed
    BY <1>5 DEF Joined, process, PatchStatus
  <2>2. CASE n = m
    BY <1>1, <1>2, <1>3, <1>4, <1>5, <2>1, <2>2, JoinedBefore
  <2>3. CASE n # m
    <3>1. nodes'[n] = nodes[n]
      BY <1>2, <1>4, <2>1, <2>3
    <3> QED
      BY <1>5, <2>1, <3>1, JoinedBefore
  <2> QED
    BY <2>2, <2>3
<1> QED
  BY <1>2, <1>3, <1>4, <1>5

LEMMA ClusterKeeps ==
    ASSUME IInv, Cluster
    PROVE  IInv'
<1>1. History /\ UNCHANGED process
  BY DEF Cluster, Reconcile, Command, Quiet, PatchStatus
<1>2. /\ instances \in [Instances -> Instance]
      /\ nodes \in [Nodes -> Node \union {NoNode}]
  BY DEF IInv, Typed
<1>3. CASE Reconcile
  <2>1. UNCHANGED instances
    BY <1>3 DEF Reconcile, Apply, Remove
  <2>2. /\ nodes' \in [Nodes -> Node \union {NoNode}]
        /\ \A n \in Joined' : n \in Joined \/ Owned(n)'
    BY <1>1, <1>3, ApplyKeeps, RemoveKeeps DEF Reconcile
  <2> QED
    BY <1>1, <1>2, <2>1, <2>2, ClusterStepKeeps
<1>4. CASE Command
  <2>1. instances' \in [Instances -> Instance] /\ UNCHANGED nodes
    BY <1>4, ReviseKeeps, DeleteKeeps DEF Command
  <2>2. \A n \in Joined' : n \in Joined \/ Owned(n)'
    BY <1>1, <2>1, SameNodes
  <2> QED
    BY <1>1, <1>2, <2>1, <2>2, ClusterStepKeeps
<1>5. CASE PatchStatus
  <2>1. UNCHANGED instances
    BY <1>5 DEF PatchStatus
  <2> QED
    BY <1>1, <1>2, <1>5, <2>1, PatchKeeps, ClusterStepKeeps
<1>6. CASE UNCHANGED <<instances, nodes, process>>
  BY <1>1, <1>2, <1>6, SameNodes, ClusterStepKeeps
<1> QED
  BY <1>3, <1>4, <1>5, <1>6 DEF Cluster

-----------------------------------------------------------------------------
(***************************************************************************)
(* Time: every clock that moves, moves by one.                             *)
(***************************************************************************)

LEMMA TickKeeps ==
    ASSUME IInv, Tick
    PROVE  IInv'
<1>1. /\ UNCHANGED <<instances, nodes, refresh, listed, page>>
      /\ age' = Older(age, Stale)
      /\ gone' = [n \in Nodes |-> IF Owned(n) THEN 0 ELSE Older(gone[n], Forgotten)]
      /\ took' = IF refresh = "idle" THEN 0 ELSE took + 1
      /\ refresh # "idle" => took < MaxDelay
  BY DEF Tick, cluster
<1>2. /\ gone \in [Nodes -> 0..Forgotten] /\ took \in 0..MaxDelay /\ age \in 0..Stale
      /\ page # NoPage => DOMAIN page \subseteq Nodes
      /\ Stale \in Nat /\ Forgotten \in Nat
  BY Constants DEF IInv, Typed
<1>3. age' \in 0..Stale /\ (age' <= StaleAfter => age' = age + 1 /\ age <= StaleAfter)
  <2>1. /\ Older(age, Stale) \in 0..Stale
        /\ age < Stale => Older(age, Stale) = age + 1
        /\ age >= Stale => Older(age, Stale) = Stale
    BY <1>2, OlderIsNext
  <2>2. Stale = StaleAfter + 1 /\ StaleAfter \in Nat
    BY Constants
  <2> QED
    BY <1>1, <1>2, <2>1, <2>2
<1>4. ASSUME NEW n \in Nodes
      PROVE  gone'[n] \in 0..Forgotten /\ gone'[n] <= gone[n] + 1
             /\ (Owned(n) => gone'[n] = 0)
  <2>1. gone[n] \in 0..Forgotten
    BY <1>2
  <2>2. Older(gone[n], Forgotten) \in 0..Forgotten /\ Older(gone[n], Forgotten) <= gone[n] + 1
    BY <1>2, <2>1, OlderIsNext
  <2>3. gone'[n] = IF Owned(n) THEN 0 ELSE Older(gone[n], Forgotten)
    BY <1>1
  <2>4. CASE Owned(n)
    BY <2>1, <2>3, <2>4, <1>2
  <2>5. CASE ~Owned(n)
    BY <2>2, <2>3, <2>5
  <2> QED
    BY <2>4, <2>5
<1>5. took' \in 0..MaxDelay
  BY <1>1, <1>2, Constants
<1>6. OwnedNow'
  <2>1. \A n \in Nodes : Owned(n)' = Owned(n)
    BY <1>1 DEF Owned, Asked
  <2> QED
    BY <1>4, <2>1 DEF OwnedNow
<1>7. Joinable'
  <2> SUFFICES ASSUME refresh = "nodes", NEW n \in Joined'
               PROVE  gone'[n] <= took'
    BY <1>1 DEF Joinable
  <2>1. n \in Joined /\ n \in Nodes
    BY <1>1 DEF Joined
  <2>2. gone[n] <= took /\ took' = took + 1
    BY <1>1, <2>1 DEF IInv, Joinable
  <2> QED
    BY <1>2, <1>4, <2>1, <2>2
<1>8. PageOK'
  <2> SUFFICES ASSUME page # NoPage, age' <= StaleAfter, NEW n \in DOMAIN page
               PROVE  gone'[n] <= age' + MaxDelay
    BY <1>1 DEF PageOK
  <2>1. gone[n] <= age + MaxDelay /\ n \in Nodes
    BY <1>2, <1>3 DEF IInv, PageOK
  <2> QED
    BY <1>2, <1>3, <1>4, <2>1, Constants
<1>9. Typed'
  <2>1. gone' \in [Nodes -> 0..Forgotten]
    BY <1>1, <1>4
  <2> QED
    BY <1>1, <1>2, <1>3, <1>5, <2>1 DEF IInv, Typed
<1> QED
  BY <1>6, <1>7, <1>8, <1>9 DEF IInv

LEMMA NextKeeps == IInv /\ [Next]_vars => IInv'
<1> SUFFICES ASSUME IInv, [Next]_vars
             PROVE  IInv'
  OBVIOUS
<1>1. CASE UNCHANGED vars
  BY <1>1 DEF vars, cluster, process, IInv, Typed, OwnedNow, Owned, Asked, Joinable,
              Joined, PageOK
<1> QED
  BY <1>1, RefreshKeeps, ClusterKeeps, TickKeeps DEF Next

-----------------------------------------------------------------------------
(***************************************************************************)
(* The theorems.                                                           *)
(***************************************************************************)

\* A page that is shown is never older, measured at each of its Nodes, than its age
\* and one refresh (snapshot and appendDevices, Refresh and the stale interval of
\* the renderer).
THEOREM PagesAreBounded == Spec => []IInv
BY InitHolds, NextKeeps, PTL DEF Spec

\* TEL-004, TEL-005: no series outlives its Node by more than the stale interval and
\* the duration of one refresh, however refreshes fail or hang, and however revisions,
\* deletions and foreign writes fall between the two reads of a refresh.
THEOREM SeriesAreBounded == Spec => []SeriesExpire
<1>1. IInv => SeriesExpire
  <2> SUFFICES ASSUME IInv, NEW n \in Shown
               PROVE  gone[n] <= StaleAfter + MaxDelay
    BY DEF SeriesExpire
  <2>1. page # NoPage /\ age <= StaleAfter /\ n \in DOMAIN page
    BY DEF Shown, Metrics
  <2>2. gone[n] <= age + MaxDelay /\ n \in Nodes
    BY <2>1 DEF IInv, PageOK, Typed
  <2>3. gone[n] \in 0..Forgotten /\ age \in 0..Stale
    BY <2>2 DEF IInv, Typed
  <2> QED
    BY <2>1, <2>2, <2>3, Constants
<1> QED
  BY <1>1, PagesAreBounded, PTL
=============================================================================
