-------------------------- MODULE ScenarioCompiler --------------------------
(***************************************************************************)
(* The Scenario compiler (internal/scenario), the catalog it resolves      *)
(* against, and the projection of an accepted Scenario to Nodes            *)
(* (projection.Build).  Clients compile documents and typed changes with   *)
(* the catalog of their own release; the controller compiles the stored    *)
(* canonical text again (compileAndVerify) and builds the Nodes from it.   *)
(*                                                                         *)
(* Names are numbered in their order.  One profile; a release of the       *)
(* catalog is a revision of it.  Node capacity, placement, taints and      *)
(* variants are copied and left out; quantities and spelling are assumed   *)
(* well formed.  A digest is the canonical document itself.                *)
(***************************************************************************)
EXTENDS Naturals, SequencesExt

CONSTANTS
    Documents,      \* what users write
    Contracts,      \* what a catalog offers for an accelerator pool:
                    \*   [model, resource, modes, identity, derived], per release;
                    \*   identity and derived are Node labels, each with a value
    Reserved,       \* label keys that no Scenario may write
    Releases,       \* revisions of the catalog, in order
    MaxCount,       \* bound: counts and replicas of typed changes
    MaxRevisions,   \* bound: revisions
    Default,        \* a healthy count, a contract or a label value that is not written
    Total,          \* the value of a derived label: the devices of the Node
    Rejected

VARIABLES
    log,            \* the canonical Scenario of each revision
    client          \* the release of the next client

vars == <<log, client>>

PoolType == [name : Nat, model : STRING, contract : STRING \union {Default},
             revision : Nat, count : Nat, healthy : Nat \union {Default}]
AuxiliaryType == [name : Nat, resource : STRING, count : Nat, available : Nat,
                  with : SUBSET Nat]
GroupType == [name : Nat, replicas : Nat, labels : SUBSET STRING, discovery : BOOLEAN,
              pools : Seq(PoolType), auxiliary : Seq(AuxiliaryType)]
DocumentType == [mode : STRING, groups : Seq(GroupType)]
LabelType == [key : STRING, value : Nat \union {Default, Total}]
ContractType == [model : STRING, resource : STRING, modes : SUBSET STRING,
                 identity : SUBSET LabelType, derived : SUBSET LabelType]
NodeType == [group : Nat, replica : Nat, labels : SUBSET STRING, vendor : SUBSET LabelType,
             pools : Seq(PoolType), auxiliary : Seq(AuxiliaryType)]
ProjectionType == [nodes : SUBSET NodeType]

ASSUME CompilerAssumption ==
    /\ Releases \in Nat \ {0} /\ MaxCount \in Nat /\ MaxRevisions \in Nat \ {0}
    /\ IsFiniteSet(DOMAIN Contracts) /\ DOMAIN Contracts \subseteq STRING
    /\ Contracts \in [DOMAIN Contracts -> [1..Releases -> ContractType]]
    /\ Documents \subseteq DocumentType
    /\ Reserved \subseteq STRING
    /\ Default \notin STRING \union Nat
    /\ Rejected \notin ProjectionType

-----------------------------------------------------------------------------
(***************************************************************************)
(* Compile: resolve, validate, canonicalize.                               *)
(***************************************************************************)

UniqueNames(s) == \A i, j \in DOMAIN s : s[i].name = s[j].name => i = j
Increasing(s) == \A i, j \in DOMAIN s : i < j => s[i].name < s[j].name
ByName(s) == CHOOSE t \in [DOMAIN s -> Range(s)] : Range(t) = Range(s) /\ Increasing(t)
Has(s, name) == \E i \in DOMAIN s : s[i].name = name
At(s, name) == CHOOSE i \in DOMAIN s : s[i].name = name

Healthy(pool) == IF pool.healthy = Default THEN pool.count ELSE pool.healthy
Offer(pool, release) == Contracts[pool.contract][release]
Keys(labels) == {label.key : label \in labels}

\* Snapshot.Resolve: the contracts of the model in this mode that a pool may mean.
Candidates(pool, mode, release) ==
    {c \in DOMAIN Contracts : /\ pool.contract \in {c, Default}
                              /\ Contracts[c][release].model = pool.model
                              /\ mode \in Contracts[c][release].modes}

\* Mutation: the revision a pool is pinned to is replaced by that of the catalog.
ResolvesAnyRevision(pool, mode, release) == Cardinality(Candidates(pool, mode, release)) = 1
\* compilePool: the pinned revision is that of the catalog; no contract is ambiguous.
Resolves(pool, mode, release) ==
    pool.revision = release /\ Cardinality(Candidates(pool, mode, release)) = 1

\* The group with its contracts resolved.
Resolved(group, mode, release) ==
    [group EXCEPT !.pools = [i \in DOMAIN @ |->
        [@[i] EXCEPT !.contract = CHOOSE c \in Candidates(group.pools[i], mode, release) : TRUE]]]

\* compileGroup, of a group whose contracts are resolved.  Identity labels cannot
\* conflict between models, since a group has one; derived labels are not looked at.
ValidPools(group, mode, release) ==
    /\ group.labels \cap Reserved = {}
    /\ group.pools # <<>> /\ UniqueNames(group.pools)
    /\ \A pool \in Range(group.pools) :
         /\ Healthy(pool) <= pool.count
         /\ group.labels \cap Keys(Offer(pool, release).identity) = {}
    /\ \A p, q \in Range(group.pools) :
         /\ Offer(p, release).model = Offer(q, release).model
         /\ mode = "scheduling" /\ p # q => Offer(p, release).resource # Offer(q, release).resource

\* Mutation: a resource may be that of an accelerator pool.
ValidAuxiliaryAmongThemselves(group, mode, release) ==
    /\ UniqueNames(group.auxiliary)
    /\ \A aux \in Range(group.auxiliary) :
         /\ mode = "scheduling" /\ aux.available <= aux.count
         /\ aux.with # {} /\ aux.with \subseteq {pool.name : pool \in Range(group.pools)}
         /\ \A other \in Range(group.auxiliary) \ {aux} : aux.resource # other.resource
\* Auxiliary contracts exist for the scheduling mode only; the Scenario names the resource.
ValidAuxiliary(group, mode, release) ==
    /\ UniqueNames(group.auxiliary)
    /\ \A aux \in Range(group.auxiliary) :
         /\ mode = "scheduling" /\ aux.available <= aux.count
         /\ aux.with # {} /\ aux.with \subseteq {pool.name : pool \in Range(group.pools)}
         /\ \A other \in Range(group.auxiliary) \ {aux} : aux.resource # other.resource
         /\ \A pool \in Range(group.pools) : aux.resource # Offer(pool, release).resource

\* Mutation: the pools of a group keep the order in which they are written.
CanonicalGroupAsWritten(group, release) ==
    [group EXCEPT !.pools = [i \in DOMAIN @ |-> [@[i] EXCEPT !.healthy = Healthy(group.pools[i]),
                                                             !.revision = release]],
                  !.auxiliary = ByName(@)]
CanonicalGroup(group, release) ==
    [group EXCEPT !.pools = ByName([i \in DOMAIN @ |->
                                       [@[i] EXCEPT !.healthy = Healthy(group.pools[i]),
                                                    !.revision = release]]),
                  !.auxiliary = ByName(@)]

Compile(document, release) ==
    LET groups == [i \in DOMAIN document.groups |->
                       Resolved(document.groups[i], document.mode, release)]
    IN  IF /\ groups # <<>> /\ UniqueNames(groups)
           /\ \A group \in Range(document.groups) : \A pool \in Range(group.pools) :
                Resolves(pool, document.mode, release)
           /\ \A group \in Range(groups) : /\ ValidPools(group, document.mode, release)
                                          /\ ValidAuxiliary(group, document.mode, release)
        THEN [document EXCEPT !.groups =
                 ByName([i \in DOMAIN groups |-> CanonicalGroup(groups[i], release)])]
        ELSE Rejected

-----------------------------------------------------------------------------
(***************************************************************************)
(* Typed changes: one field of the current canonical Scenario.             *)
(***************************************************************************)

Scale(current, group, replicas, release) ==
    IF ~Has(current.groups, group) THEN Rejected
    ELSE Compile([current EXCEPT !.groups[At(current.groups, group)].replicas = replicas],
                 release)

Health(current, group, pool, healthy, release) ==
    IF ~Has(current.groups, group) THEN Rejected
    ELSE LET i == At(current.groups, group)
             pools == current.groups[i].pools
         IN  IF ~Has(pools, pool) THEN Rejected
             ELSE Compile([current EXCEPT !.groups[i].pools[At(pools, pool)].healthy = healthy],
                          release)

-----------------------------------------------------------------------------
(***************************************************************************)
(* Build: the Nodes of a compiled Scenario.                                *)
(***************************************************************************)

\* The label signals of a pool: vendor discovery is asked for, or the values of its
\* identity labels are not written and there are no others.
Signals(pool, discovery, release) ==
    LET offer == Offer(pool, release)
    IN  IF discovery THEN offer.identity \union offer.derived
        ELSE {[key |-> label.key, value |-> Default] : label \in offer.identity}
VendorLabels(group, release) ==
    UNION {Signals(pool, group.discovery, release) : pool \in Range(group.pools)}

\* The labels give each key one value; a total is a number.
Devices(group) == FoldSeq(LAMBDA pool, sum : pool.count + sum, 0, group.pools)
Agree(labels, group) ==
    \A l, m \in labels :
        l.key = m.key => l.value = m.value \/ {l.value, m.value} = {Total, Devices(group)}

Resources(group, release) ==
    [i \in DOMAIN group.pools |-> Offer(group.pools[i], release).resource]
        \o [i \in DOMAIN group.auxiliary |-> group.auxiliary[i].resource]

\* checkVendorLabelCollisions asks about the labels that have a value.
Buildable(group, release) ==
    LET told == {label \in VendorLabels(group, release) : label.value # Default}
    IN  /\ IsInjective(Resources(group, release))
        /\ \A p, q \in Range(group.pools) : Offer(p, release).model = Offer(q, release).model
        /\ Agree(told, group) /\ Keys(told) \cap group.labels = {}

\* Render, which only puts vendor labels on Nodes in the scheduling mode.
Renderable(group, mode, release) ==
    mode = "scheduling" => Agree(VendorLabels(group, release), group)

\* One Node per replica, named after its group and number; a vendor label replaces
\* one that is written.
NodeLabels(group, mode, release) ==
    IF mode = "scheduling" THEN VendorLabels(group, release) ELSE {}
Nodes(scenario, release) ==
    UNION {LET vendor == NodeLabels(group, scenario.mode, release)
           IN  {[group |-> group.name, replica |-> r,
                 labels |-> group.labels \ Keys(vendor), vendor |-> vendor,
                 pools |-> group.pools, auxiliary |-> group.auxiliary] :
                r \in 0..group.replicas - 1} : group \in Range(scenario.groups)}

Project(scenario, release) ==
    IF \A group \in Range(scenario.groups) : /\ Buildable(group, release)
                                             /\ Renderable(group, scenario.mode, release)
    THEN [nodes |-> Nodes(scenario, release)] ELSE Rejected

-----------------------------------------------------------------------------
(***************************************************************************)
(* Clients, and releases of the product.                                   *)
(***************************************************************************)

Init == log = <<>> /\ client = 1

\* A digest that is accepted already is a no-op; the mode of an instance stays.
Submit(scenario) ==
    /\ Len(log) < MaxRevisions /\ scenario # Rejected
    /\ log # <<>> => scenario.mode = Last(log).mode
    /\ log' = IF log # <<>> /\ scenario = Last(log) THEN log ELSE Append(log, scenario)
    /\ UNCHANGED client

Apply == \E document \in Documents : Submit(Compile(document, client))

TypedScale ==
    /\ log # <<>>
    /\ \E group \in Range(Last(log).groups), replicas \in 0..MaxCount :
         Submit(Scale(Last(log), group.name, replicas, client))
TypedHealth ==
    /\ log # <<>>
    /\ \E group \in Range(Last(log).groups), healthy \in 0..MaxCount :
         \E pool \in Range(group.pools) :
            Submit(Health(Last(log), group.name, pool.name, healthy, client))

Upgrade == client < Releases /\ client' = client + 1 /\ UNCHANGED log

Next == Apply \/ TypedScale \/ TypedHealth \/ Upgrade

Spec == Init /\ [][Next]_vars

-----------------------------------------------------------------------------
(***************************************************************************)
(* Properties.                                                             *)
(***************************************************************************)

\* The release a canonical Scenario was compiled with.
ReleaseOf(scenario) == scenario.groups[1].pools[1].revision

\* A document that lists the same groups and pools in another order.
Backwards(group) == [group EXCEPT !.pools = Reverse(@), !.auxiliary = Reverse(@)]
Relisted(scenario) ==
    [scenario EXCEPT !.groups = Reverse([i \in DOMAIN @ |-> Backwards(@[i])])]

\* SCN-008 and LIFE-004: the canonical text compiles to itself, however its parts are
\* listed; so a revision is stored once, and the controller of the same release finds
\* the digest that the client computed (compileAndVerify).
CanonicalIsFixed ==
    \A i \in DOMAIN log : LET release == ReleaseOf(log[i])
        IN  {Compile(log[i], release), Compile(Relisted(log[i]), release)} = {log[i]}

\* SCN-012: Build and Render accept what the compiler accepted in the scheduling mode,
\* whatever typed changes and releases led to it, when the derived labels that a group
\* asks for are not written in it and its contracts give each label key one value: no
\* resource of a Node has two owners, and no identity label two values.
DerivedLabelsAgree(group, release) ==
    \A p, q \in Range(group.pools) :
        LET some == Offer(p, release).identity \union Offer(p, release).derived
            others == Offer(q, release).identity \union Offer(q, release).derived
        IN  /\ group.labels \cap Keys(Offer(p, release).derived) = {}
            /\ \A l \in some, m \in others : l.key = m.key => l.value = m.value
SchedulingScenariosProject ==
    \A i \in DOMAIN log : LET release == ReleaseOf(log[i])
        IN  /\ log[i].mode = "scheduling"
            /\ \A group \in Range(log[i].groups) :
                 group.discovery => DerivedLabelsAgree(group, release)
            => Project(log[i], release) # Rejected

\* ADR 0002, ADR 0003 and SCN-010: a typed change moves what it names and nothing else.
\* No pool moves to another contract or release of the catalog (a newer client is
\* refused); Nodes that remain after a change of scale are the same, in every group;
\* a change of health keeps every Node and every count.
Pins(scenario) ==
    UNION {{<<group.name, pool.name, pool.contract, pool.revision>> : pool \in Range(group.pools)} :
           group \in Range(scenario.groups)}
Current(scenario) == Nodes(scenario, ReleaseOf(scenario))
Uniform(nodes) ==
    {[node EXCEPT !.pools = [i \in DOMAIN @ |-> [@[i] EXCEPT !.healthy = 0]]] : node \in nodes}
TypedChangesAreExact ==
    [][/\ TypedScale \/ TypedHealth => Pins(Last(log')) = Pins(Last(log))
       /\ TypedScale => \A m \in Current(Last(log)), n \in Current(Last(log')) :
                           m.group = n.group /\ m.replica = n.replica => m = n
       /\ TypedHealth => Uniform(Current(Last(log'))) = Uniform(Current(Last(log)))]_vars

\* docs/operators/node-discovery-labels.md: a written label that collides with one of
\* vendor discovery, and pools that disagree on one, fail compilation.
VendorLabelsAreReserved ==
    \A i \in DOMAIN log : \A group \in Range(log[i].groups) :
        LET vendor == VendorLabels(group, ReleaseOf(log[i]))
        IN  Agree(vendor, group) /\ Keys(vendor) \cap group.labels = {}

\* SCN-007: ambiguous resources and reserved labels fail compilation, so what a client
\* accepted can be projected by a controller of the same release.
AcceptedScenariosProject ==
    \A i \in DOMAIN log : Project(log[i], ReleaseOf(log[i])) # Rejected
=============================================================================
