------------------------ MODULE DRAReconciler_proofs ------------------------
(***************************************************************************)
(* Proofs about module DRAReconciler, for every set of Nodes, claims and   *)
(* Scenarios and every slice size: the types, that allocated devices stay, *)
(* and that Ready means the exact inventory.                               *)
(*                                                                         *)
(* A pass decides on claims that it read, and deletes while the scheduler  *)
(* goes on allocating.  DeletionsAreSafe says why that is right: while     *)
(* slices are being deleted, an open Node has all the slices of the        *)
(* generation that is being published and none of those is deleted, so the *)
(* scheduler, which uses the newest generation of a pool, allocates only   *)
(* what stays; while Nodes are being deleted, they are closed.             *)
(***************************************************************************)
EXTENDS DRAReconciler, FiniteSetTheorems, TLAPS

Inventory == [nodes |-> nodes, class |-> class, slices |-> slices]
NodeStates == {"absent", "closed", "open"}
Operations == {"create-node", "apply-class", "apply-slice", "close", "delete-slice",
               "delete-class", "delete-node", "open"}

Typed ==
    /\ log \in Seq(Scenarios) /\ Len(log) \in Generations
    /\ instance \in {"active", "deleting", "gone"}
    /\ status.phase \in {"", "Reconciling", "Ready", "Deleting"}
    /\ status.generation \in 0..MaxGeneration /\ status.blocked \in BOOLEAN
    /\ nodes \in [Names -> NodeStates]
    /\ class \in Generations \union {Absent}
    /\ \A s \in slices : s[2] \in 1..Len(log) /\ s \in Slices(s[2])
    /\ claims \in [Claims -> {Absent, Pending} \union (Names \X Nat)]
    /\ pc \in {"idle", "workloads", "apply", "commit"} /\ faults \in 0..MaxFaults
    /\ record.generation \in 0..Len(log) /\ record.deleting \in BOOLEAN

\* A pass knows the newest slices and, until it writes, the inventory.
PassOK ==
    pc # "idle" =>
        /\ record.generation \in 1..Len(log)
        /\ \A s \in slices : s[2] <= record.generation
        /\ pc = "workloads" => seen = Inventory

JobOK ==
    pc = "apply" =>
        /\ job = Stage(job.op, job.on) /\ job.op \in Operations
        /\ job.op \in {"create-node", "close", "open", "delete-node"} => job.on \subseteq Names
        /\ job.op = "apply-class" => job.on \subseteq {record.generation}
        /\ job.op = "apply-slice" => job.on \subseteq Slices(record.generation)

\* Whatever is deleted, no claim holds or will get.
DeletionsAreSafe ==
    pc = "apply" =>
        /\ job.op = "delete-slice" =>
             /\ Held(claims) \subseteq DevicesOf(slices \ job.on)
             /\ \A n \in Names : nodes[n] = "open" =>
                  n \in Wanted(record.generation)
                  /\ Slices(record.generation) \subseteq slices \ job.on
        /\ job.op = "delete-node" =>
             \A n \in job.on : nodes[n] # "open" /\ \A d \in Held(claims) : d[1] # n

Exact(g) ==
    /\ class = g /\ slices = Slices(g)
    /\ \A n \in Names : nodes[n] = IF n \in Wanted(g) THEN "open" ELSE "absent"
ReadyNow ==
    status.phase = "Ready" /\ status.generation = Len(log) /\ instance = "active"

\* Ready is said of an exact inventory, and no pass for that generation finds
\* anything to change in it.
ReadyOK ==
    /\ status.generation <= Len(log)
    /\ pc = "commit" /\ job.op = "ready" => Exact(record.generation)
    /\ ReadyNow =>
         /\ Exact(Len(log)) /\ pc # "apply"
         /\ pc # "idle" => record.generation = Len(log) /\ ~record.deleting

IInv == Typed /\ PassOK /\ JobOK /\ AllocatedDevicesStay /\ DeletionsAreSafe /\ ReadyOK

-----------------------------------------------------------------------------
(***************************************************************************)
(* The projection.                                                         *)
(***************************************************************************)

\* What the Scenario of an accepted generation is.
LEMMA ScenarioOf ==
    ASSUME log \in Seq(Scenarios), NEW g \in 1..Len(log)
    PROVE  /\ Wanted(g) \subseteq Names
           /\ \A n \in Wanted(g) : Pool(n, g).capacity \in Nat
<1>1. log[g] \in Scenarios
  OBVIOUS
<1> QED
  BY <1>1, DRAAssumption DEF Wanted, Pool

\* Multiplying by a natural number keeps the order.
LEMMA ProductsGrow ==
    ASSUME NEW p \in Nat, NEW q \in Nat, NEW m \in Nat, p <= q
    PROVE  p * m <= q * m
<1> DEFINE d == q - p
<1>1. d \in Nat /\ q = p + d
  OBVIOUS
<1> HIDE DEF d
<1>2. d * m \in Nat /\ p * m \in Nat
  BY <1>1
<1>3. (p + d) * m = p * m + d * m
  BY <1>1
<1>4. q * m = p * m + d * m
  BY <1>1, <1>3
<1> QED
  BY <1>2, <1>4

\* A positive multiple by a natural number is a multiple of a positive number.
LEMMA ProductsArePositive ==
    ASSUME NEW q \in Int, NEW m \in Nat, m * q > 0
    PROVE  q > 0
<1> SUFFICES ASSUME q <= 0
             PROVE  FALSE
  OBVIOUS
<1> DEFINE d == -q
<1>1. d \in Nat /\ q = 0 - d
  OBVIOUS
<1> HIDE DEF d
<1>2. m * d \in Nat
  BY <1>1
<1>3. m * (0 - d) = 0 - m * d
  BY <1>1
<1> QED
  BY <1>1, <1>2, <1>3

\* Every pool has a slice.
LEMMA ShardsArePositive ==
    ASSUME log \in Seq(Scenarios), NEW g \in 1..Len(log), NEW n \in Wanted(g)
    PROVE  Shards(n, g) \in Nat \ {0}
<1> DEFINE c == Pool(n, g).capacity
<1>1. c \in Nat /\ SliceSize \in Nat \ {0}
  BY ScenarioOf, DRAAssumption
<1> HIDE DEF c
<1>2. CASE c = 0
  BY <1>2 DEF Shards, c
<1>3. CASE c # 0
  <2> DEFINE q == (c + SliceSize - 1) \div SliceSize
             m == (c + SliceSize - 1) % SliceSize
  <2>1. /\ q \in Int /\ m \in 0..(SliceSize - 1)
        /\ c + SliceSize - 1 = SliceSize * q + m
    BY <1>1
  <2> HIDE DEF q, m
  <2>2. SliceSize * q > 0
    BY <2>1, <1>1, <1>3
  <2>3. q > 0
    <3>1. SliceSize \in Nat /\ q \in Int
      BY <2>1, <1>1
    <3> QED
      BY <2>2, <3>1, ProductsArePositive
  <2>4. Shards(n, g) = q
    BY <1>3 DEF Shards, c, q
  <2> QED
    BY <2>1, <2>3, <2>4
<1> QED
  BY <1>2, <1>3

\* The slices of a generation, each with its Node, its generation and its shard.
LEMMA SliceOf ==
    ASSUME NEW g, NEW s
    PROVE  s \in Slices(g) <=>
             \E n \in Wanted(g) : \E k \in 1..Shards(n, g) : s = <<n, g, k>>
BY DEF Slices

LEMMA SliceParts ==
    ASSUME log \in Seq(Scenarios), NEW g \in 1..Len(log), NEW s \in Slices(g)
    PROVE  /\ s = <<s[1], s[2], s[3]>> /\ s[1] \in Wanted(g) /\ s[1] \in Names
           /\ s[2] = g /\ s[3] \in Nat \ {0}
<1>1. PICK n \in Wanted(g) : \E k \in 1..Shards(n, g) : s = <<n, g, k>>
  BY SliceOf
<1>2. PICK k \in 1..Shards(n, g) : s = <<n, g, k>>
  BY <1>1
<1>3. Shards(n, g) \in Nat /\ n \in Names
  BY ShardsArePositive, ScenarioOf
<1> QED
  BY <1>2, <1>3

\* The devices of a slice are indices of its Node's pool.
LEMMA DeviceOf ==
    ASSUME NEW s, NEW d \in Devices(s)
    PROVE  \E i \in 1..Pool(s[1], s[2]).capacity :
             /\ d = <<s[1], i>> /\ i > (s[3] - 1) * SliceSize /\ i <= s[3] * SliceSize
BY DEF Devices

LEMMA DeviceParts ==
    ASSUME log \in Seq(Scenarios), NEW g \in 1..Len(log), NEW s \in Slices(g),
           NEW d \in Devices(s)
    PROVE  d[1] = s[1] /\ d \in Names \X Nat
<1>1. s[2] = g /\ s[1] \in Wanted(g) /\ s[1] \in Names
  BY SliceParts
<1>2. PICK i \in 1..Pool(s[1], s[2]).capacity : d = <<s[1], i>>
  BY DeviceOf
<1>3. Pool(s[1], s[2]).capacity \in Nat
  BY <1>1, ScenarioOf
<1> QED
  BY <1>1, <1>2, <1>3

LEMMA DevicesOfIs ==
    ASSUME NEW S, NEW d
    PROVE  d \in DevicesOf(S) <=> \E s \in S : d \in Devices(s)
BY DEF DevicesOf

\* No slice is larger than the API allows.
LEMMA SlicesAreSmall ==
    ASSUME log \in Seq(Scenarios), NEW g \in 1..Len(log), NEW s \in Slices(g)
    PROVE  Cardinality(Devices(s)) <= SliceSize
<1> DEFINE lo == (s[3] - 1) * SliceSize
           I == {i \in 1..Pool(s[1], s[2]).capacity : i > lo /\ i <= s[3] * SliceSize}
<1>1. /\ s[2] = g /\ s[1] \in Wanted(g) /\ s[3] \in Nat \ {0}
      /\ SliceSize \in Nat \ {0}
  BY SliceParts, DRAAssumption
<1>2. Pool(s[1], s[2]).capacity \in Nat
  BY <1>1, ScenarioOf
<1>3. s[3] * SliceSize = lo + SliceSize /\ lo \in Int
  BY <1>1
<1>4. I \subseteq (lo + 1)..(lo + SliceSize)
  BY <1>2, <1>3
<1>5. /\ IsFiniteSet((lo + 1)..(lo + SliceSize))
      /\ Cardinality((lo + 1)..(lo + SliceSize)) = SliceSize
  <2> HIDE DEF lo
  <2>1. lo + 1 \in Int /\ lo + SliceSize \in Int /\ ~(lo + 1 > lo + SliceSize)
    BY <1>1, <1>3
  <2>2. /\ IsFiniteSet((lo + 1)..(lo + SliceSize))
        /\ Cardinality((lo + 1)..(lo + SliceSize)) = (lo + SliceSize) - (lo + 1) + 1
    BY <2>1, FS_Interval
  <2>3. (lo + SliceSize) - (lo + 1) + 1 = SliceSize
    BY <1>1, <1>3
  <2> QED
    BY <2>2, <2>3
<1>6. IsFiniteSet(I) /\ Cardinality(I) <= SliceSize
  <2> HIDE DEF I, lo
  <2> QED
    BY <1>4, <1>5, FS_Subset
<1> DEFINE f == [i \in I |-> <<s[1], i>>]
<1>7. Devices(s) = {f[i] : i \in I}
  BY DEF Devices
<1>8. f \in Surjection(I, Devices(s))
  BY <1>7 DEF Surjection
<1>9. Cardinality(Devices(s)) <= Cardinality(I)
  <2> HIDE DEF I, f
  <2> QED
    BY <1>6, <1>8, FS_Surjection
<1>10. IsFiniteSet(Devices(s)) /\ Cardinality(Devices(s)) \in Nat /\ Cardinality(I) \in Nat
  <2> HIDE DEF I, f
  <2> QED
    BY <1>6, <1>8, FS_Surjection, FS_CardinalityType
<1> QED
  BY <1>1, <1>6, <1>9, <1>10

\* Slices of one generation share no device.
LEMMA SlicesAreDisjoint ==
    ASSUME log \in Seq(Scenarios), NEW g \in 1..Len(log),
           NEW s \in Slices(g), NEW t \in Slices(g), s # t
    PROVE  Devices(s) \cap Devices(t) = {}
<1> SUFFICES ASSUME NEW d \in Devices(s), d \in Devices(t)
             PROVE  FALSE
  OBVIOUS
<1>1. PICK i \in 1..Pool(s[1], s[2]).capacity :
        d = <<s[1], i>> /\ i > (s[3] - 1) * SliceSize /\ i <= s[3] * SliceSize
  BY DeviceOf
<1>2. PICK j \in 1..Pool(t[1], t[2]).capacity :
        d = <<t[1], j>> /\ j > (t[3] - 1) * SliceSize /\ j <= t[3] * SliceSize
  BY DeviceOf
<1>3. /\ s = <<s[1], s[2], s[3]>> /\ s[2] = g /\ s[3] \in Nat \ {0}
      /\ t = <<t[1], t[2], t[3]>> /\ t[2] = g /\ t[3] \in Nat \ {0}
      /\ s[1] \in Wanted(g) /\ SliceSize \in Nat \ {0}
  BY SliceParts, DRAAssumption
<1>4. s[1] = t[1] /\ i = j /\ s[3] # t[3]
  <2>1. <<s[1], i>> = <<t[1], j>>
    BY <1>1, <1>2
  <2>2. s[1] = t[1] /\ i = j
    BY <2>1
  <2>3. ASSUME s[3] = t[3]
        PROVE  FALSE
    <3>1. <<s[1], s[2], s[3]>> = <<t[1], t[2], t[3]>>
      BY <2>2, <2>3, <1>3
    <3> QED
      BY <3>1, <1>3
  <2> QED
    BY <2>2, <2>3
<1>5. Pool(s[1], s[2]).capacity \in Nat
  BY <1>3, ScenarioOf
<1>6. ASSUME NEW a \in Nat \ {0}, NEW b \in Nat \ {0}, a < b
      PROVE  a * SliceSize <= (b - 1) * SliceSize
  <2>1. a \in Nat /\ b - 1 \in Nat /\ a <= b - 1
    BY <1>6
  <2>2. SliceSize \in Nat
    BY <1>3
  <2> QED
    BY <2>1, <2>2, ProductsGrow
<1>7. CASE s[3] < t[3]
  <2>1. s[3] * SliceSize <= (t[3] - 1) * SliceSize
    BY <1>3, <1>6, <1>7
  <2>2. s[3] * SliceSize \in Int /\ (t[3] - 1) * SliceSize \in Int /\ i \in Int
    BY <1>3, <1>5
  <2> QED
    BY <1>1, <1>2, <1>4, <2>1, <2>2
<1>8. CASE t[3] < s[3]
  <2>1. t[3] * SliceSize <= (s[3] - 1) * SliceSize
    BY <1>3, <1>6, <1>8
  <2>2. t[3] * SliceSize \in Int /\ (s[3] - 1) * SliceSize \in Int /\ i \in Int
    BY <1>3, <1>5
  <2> QED
    BY <1>1, <1>2, <1>4, <2>1, <2>2
<1> QED
  BY <1>3, <1>4, <1>7, <1>8

\* What the check of the types asks of the slices follows from where they are.
LEMMA TypesFollow ==
    ASSUME Typed
    PROVE  TypeOK
<1>1. log \in Seq(Scenarios)
  BY DEF Typed
<1>2. \A s \in slices : /\ s[2] \in 1..Len(log) /\ s \in Slices(s[2])
                        /\ Cardinality(Devices(s)) <= SliceSize
  BY <1>1, SlicesAreSmall DEF Typed
<1>3. \A s, t \in slices : s[2] = t[2] /\ s # t => Devices(s) \cap Devices(t) = {}
  <2> SUFFICES ASSUME NEW s \in slices, NEW t \in slices, s[2] = t[2], s # t
               PROVE  Devices(s) \cap Devices(t) = {}
    OBVIOUS
  <2>1. s[2] \in 1..Len(log) /\ s \in Slices(s[2]) /\ t \in Slices(s[2])
    BY DEF Typed
  <2> QED
    BY <1>1, <2>1, SlicesAreDisjoint
<1>4. \A c \in Claims : claims[c] \in {Absent, Pending} \union (Names \X Nat)
  BY DEF Typed
<1> QED
  BY <1>2, <1>3, <1>4 DEF Typed, TypeOK, NodeStates

-----------------------------------------------------------------------------
(***************************************************************************)
(* What a pass chooses.                                                    *)
(***************************************************************************)

\* FirstStage: the first stage with something to do, if there is one.
LEMMA FirstStageIs ==
    ASSUME NEW stages, NEW m \in Nat, Len(stages) = m
    PROVE  \/ FirstStage(stages) = NoJob /\ \A i \in 1..m : stages[i].on = {}
           \/ \E i \in 1..m :
                /\ FirstStage(stages) = stages[i] /\ stages[i].on # {}
                /\ \A j \in 1..m : j < i => stages[j].on = {}
<1> DEFINE I == {i \in 1..m : stages[i].on # {}}
           first == IF I # {} THEN Min(I) ELSE 0
<1>1. FirstStage(stages) = IF first = 0 THEN NoJob ELSE stages[first]
  BY DEF FirstStage, SelectInSeq
<1>2. CASE I = {}
  BY <1>1, <1>2
<1>3. CASE I # {}
  <2>1. \E n \in I : \A i \in I : n <= i
    <3> DEFINE R == OpToRel(<, Nat)
    <3>1. I \subseteq Nat
      OBVIOUS
    <3>2. IsWellFoundedOn(R, Nat)
      BY NatLessThanWellFounded
    <3>3. \E n \in I : \A i \in I : <<i, n>> \notin R
      <4> HIDE DEF I, R
      <4> QED
        BY <1>3, <3>1, <3>2, WFMin
    <3> HIDE DEF I
    <3>4. PICK n \in I : \A i \in I : <<i, n>> \notin R
      BY <3>3
    <3>5. \A i \in I : ~(i < n)
      BY <3>1, <3>4 DEF OpToRel
    <3> QED
      BY <3>1, <3>5
  <2>2. first \in I /\ \A i \in I : first <= i
    <3> HIDE DEF I
    <3> QED
      BY <1>3, <2>1 DEF Min
  <2> HIDE DEF first
  <2>3. first \in 1..m /\ stages[first].on # {}
    BY <2>2
  <2>4. \A j \in 1..m : j < first => stages[j].on = {}
    BY <2>2, <2>3
  <2> QED
    BY <1>1, <2>3, <2>4
<1> QED
  BY <1>2, <1>3

\* ConvergenceStages: nothing is removed before what is asked for is there and what is
\* to go is closed and unused.
NothingToDo(g, o, q) ==
    /\ Wanted(g) \ Present(o) = {} /\ o.class = g /\ Slices(g) \ o.slices = {}
    /\ StaleSlices(g, o) = {} /\ Present(o) \ Wanted(g) = {} /\ Openable(g, o, q) = {}
MayRemove(g, o, q) ==
    /\ Slices(g) \ o.slices = {}
    /\ OpenOf(o, Present(o) \ Wanted(g)) = {} /\ PodBlockers(q, Present(o) \ Wanted(g)) = {}
    /\ ClaimBlockers(q, FALSE, StaleSlices(g, o)) = {}

\* What a pass that converges chooses.
Chosen(g, o, q, stage) ==
    \/ stage = NoJob /\ NothingToDo(g, o, q)
    \/ stage = Stage("create-node", Wanted(g) \ Present(o)) /\ stage.on # {}
    \/ stage = Stage("apply-class", {g}) /\ o.class # g
    \/ stage = Stage("apply-slice", Slices(g) \ o.slices) /\ stage.on # {}
    \/ stage = Stage("close", OpenOf(o, Present(o) \ Wanted(g))) /\ stage.on # {}
    \/ stage = Stage("blocked", stage.on)
    \/ /\ stage = Stage("delete-slice", StaleSlices(g, o)) /\ stage.on # {}
       /\ MayRemove(g, o, q)
    \/ /\ stage = Stage("delete-node", Present(o) \ Wanted(g)) /\ stage.on # {}
       /\ MayRemove(g, o, q)
    \/ stage = Stage("close", MustClose(g, o)) /\ stage.on # {}
    \/ stage = Stage("open", Openable(g, o, q)) /\ stage.on # {}

LEMMA ConvergenceChoice ==
    ASSUME NEW g, NEW o, NEW q, NEW stage, stage = FirstStage(ConvergenceStages(g, o, q))
    PROVE  Chosen(g, o, q, stage)
<1> DEFINE stages == ConvergenceStages(g, o, q)
           staleNodes == Present(o) \ Wanted(g)
           stale == StaleSlices(g, o)
           a == Wanted(g) \ Present(o)
           b == IF o.class = g THEN {} ELSE {g}
           c == Slices(g) \ o.slices
           d == OpenOf(o, staleNodes)
           e == PodBlockers(q, staleNodes)
           f == ClaimBlockers(q, FALSE, stale)
           h == MustClose(g, o)
           k == Openable(g, o, q)
<1>1. stages = << Stage("create-node", a), Stage("apply-class", b), Stage("apply-slice", c),
                  Stage("close", d), Stage("blocked", e), Stage("blocked", f),
                  Stage("delete-slice", stale), Stage("delete-node", staleNodes),
                  Stage("close", h), Stage("open", k) >>
  BY DEF ConvergenceStages
<1> HIDE DEF stages, staleNodes, stale, a, c, d, e, f, h, k
<1>2. /\ Len(stages) = 10
      /\ stages[1] = Stage("create-node", a) /\ stages[2] = Stage("apply-class", b)
      /\ stages[3] = Stage("apply-slice", c) /\ stages[4] = Stage("close", d)
      /\ stages[5] = Stage("blocked", e) /\ stages[6] = Stage("blocked", f)
      /\ stages[7] = Stage("delete-slice", stale)
      /\ stages[8] = Stage("delete-node", staleNodes)
      /\ stages[9] = Stage("close", h) /\ stages[10] = Stage("open", k)
  BY <1>1
<1>3. /\ stages[1].on = a /\ stages[2].on = b /\ stages[3].on = c /\ stages[4].on = d
      /\ stages[5].on = e /\ stages[6].on = f /\ stages[7].on = stale
      /\ stages[8].on = staleNodes /\ stages[9].on = h /\ stages[10].on = k
  BY <1>2 DEF Stage
<1>4. b = {} => o.class = g
  OBVIOUS
<1>5. b # {} => b = {g} /\ o.class # g
  OBVIOUS
<1> HIDE DEF b
<1>6. \/ stage = NoJob /\ \A i \in 1..10 : stages[i].on = {}
      \/ \E i \in 1..10 :
           /\ stage = stages[i] /\ stages[i].on # {}
           /\ \A j \in 1..10 : j < i => stages[j].on = {}
  BY <1>2, FirstStageIs DEF stages
<1>7. CASE stage = NoJob /\ \A i \in 1..10 : stages[i].on = {}
  <2>1. a = {} /\ b = {} /\ c = {} /\ stale = {} /\ staleNodes = {} /\ k = {}
    BY <1>3, <1>7
  <2> QED
    BY <1>4, <1>7, <2>1 DEF Chosen, NothingToDo, a, c, stale, staleNodes, k
<1>8. ASSUME NEW i \in 1..10, stage = stages[i], stages[i].on # {},
             \A j \in 1..10 : j < i => stages[j].on = {}
      PROVE  \/ stage = Stage("create-node", a) /\ a # {}
             \/ stage = Stage("apply-class", {g}) /\ o.class # g
             \/ stage = Stage("apply-slice", c) /\ c # {}
             \/ stage = Stage("close", d) /\ d # {}
             \/ stage = Stage("blocked", stage.on)
             \/ /\ stage = Stage("delete-slice", stale) /\ stale # {}
                /\ c = {} /\ d = {} /\ e = {} /\ f = {}
             \/ /\ stage = Stage("delete-node", staleNodes) /\ staleNodes # {}
                /\ c = {} /\ d = {} /\ e = {} /\ f = {}
             \/ stage = Stage("close", h) /\ h # {}
             \/ stage = Stage("open", k) /\ k # {}
  <2>1. CASE i = 1
    BY <1>2, <1>3, <1>8, <2>1
  <2>2. CASE i = 2
    BY <1>2, <1>3, <1>5, <1>8, <2>2
  <2>3. CASE i = 3
    BY <1>2, <1>3, <1>8, <2>3
  <2>4. CASE i = 4
    BY <1>2, <1>3, <1>8, <2>4
  <2>5. CASE i \in {5, 6}
    BY <1>2, <1>3, <1>8, <2>5
  <2>6. CASE i \in {7, 8}
    <3>1. c = {} /\ d = {} /\ e = {} /\ f = {}
      BY <1>3, <1>8, <2>6
    <3> QED
      BY <1>2, <1>3, <1>8, <2>6, <3>1
  <2>7. CASE i = 9
    BY <1>2, <1>3, <1>8, <2>7
  <2>8. CASE i = 10
    BY <1>2, <1>3, <1>8, <2>8
  <2> QED
    BY <2>1, <2>2, <2>3, <2>4, <2>5, <2>6, <2>7, <2>8
<1>9. CASE \E i \in 1..10 :
             /\ stage = stages[i] /\ stages[i].on # {}
             /\ \A j \in 1..10 : j < i => stages[j].on = {}
  <2>1. PICK i \in 1..10 :
          /\ stage = stages[i] /\ stages[i].on # {}
          /\ \A j \in 1..10 : j < i => stages[j].on = {}
    BY <1>9
  <2>3. c = {} /\ d = {} /\ e = {} /\ f = {} => MayRemove(g, o, q)
    BY DEF MayRemove, c, d, e, f, stale, staleNodes
  <2>4. stage.on # {}
    BY <2>1
  <2>5. \/ stage = Stage("create-node", a)
        \/ stage = Stage("apply-class", {g}) /\ o.class # g
        \/ stage = Stage("apply-slice", c)
        \/ stage = Stage("close", d)
        \/ stage = Stage("blocked", stage.on)
        \/ stage = Stage("delete-slice", stale) /\ MayRemove(g, o, q)
        \/ stage = Stage("delete-node", staleNodes) /\ MayRemove(g, o, q)
        \/ stage = Stage("close", h) \/ stage = Stage("open", k)
    BY <2>1, <2>3, <1>8
  <2> QED
    BY <2>4, <2>5 DEF Chosen, a, c, d, h, k, stale, staleNodes
<1> QED
  BY <1>6, <1>7, <1>9

\* A pass that converges and finds no stage has nothing to do.
LEMMA ConvergenceIdle ==
    ASSUME NEW g, NEW o, NEW q, NEW stage, stage = FirstStage(ConvergenceStages(g, o, q)),
           stage.op = "none"
    PROVE  stage = NoJob /\ NothingToDo(g, o, q)
<1>1. \A op, on : Stage(op, on).op = op
  BY DEF Stage
<1>2. Chosen(g, o, q, stage)
  BY ConvergenceChoice
<1> QED
  BY <1>1, <1>2 DEF Chosen

\* DeletionStages: nothing is removed before every Node is closed and nothing is used.
MayDelete(o, q) ==
    /\ OpenOf(o, Names) = {} /\ PodBlockers(q, Present(o)) = {}
    /\ ClaimBlockers(q, o.class # Absent, o.slices) = {}

LEMMA DeletionChoice ==
    ASSUME NEW o, NEW q, NEW stage, stage = FirstStage(DeletionStages(o, q))
    PROVE  \/ stage = NoJob
           \/ stage = Stage("close", OpenOf(o, Names)) /\ stage.on # {}
           \/ stage = Stage("blocked", stage.on)
           \/ stage = Stage("delete-slice", o.slices) /\ MayDelete(o, q)
           \/ stage = Stage("delete-class", {o.class} \ {Absent}) /\ stage.on # {}
           \/ stage = Stage("delete-node", Present(o)) /\ MayDelete(o, q)
<1> DEFINE stages == DeletionStages(o, q)
           a == OpenOf(o, Names)
           b == PodBlockers(q, Present(o))
           c == ClaimBlockers(q, o.class # Absent, o.slices)
           d == {o.class} \ {Absent}
           e == Present(o)
<1>1. stages = << Stage("close", a), Stage("blocked", b), Stage("blocked", c),
                  Stage("delete-slice", o.slices), Stage("delete-class", d),
                  Stage("delete-node", e) >>
  BY DEF DeletionStages
<1> HIDE DEF stages, a, b, c, d, e
<1>2. /\ Len(stages) = 6
      /\ stages[1] = Stage("close", a)
      /\ stages[2] = Stage("blocked", b) /\ stages[3] = Stage("blocked", c)
      /\ stages[4] = Stage("delete-slice", o.slices)
      /\ stages[5] = Stage("delete-class", d) /\ stages[6] = Stage("delete-node", e)
  BY <1>1
<1>3. /\ stages[1].on = a /\ stages[2].on = b /\ stages[3].on = c
  BY <1>2 DEF Stage
<1>4. \/ stage = NoJob
      \/ \E i \in 1..6 :
           /\ stage = stages[i] /\ stages[i].on # {}
           /\ \A j \in 1..6 : j < i => stages[j].on = {}
  BY <1>2, FirstStageIs DEF stages
<1>5. ASSUME NEW i \in 1..6, stage = stages[i], stages[i].on # {},
             \A j \in 1..6 : j < i => stages[j].on = {}
      PROVE  \/ stage = Stage("close", a) /\ stage.on # {}
             \/ stage = Stage("blocked", stage.on)
             \/ stage = Stage("delete-slice", o.slices) /\ a = {} /\ b = {} /\ c = {}
             \/ stage = Stage("delete-class", d) /\ stage.on # {}
             \/ stage = Stage("delete-node", e) /\ a = {} /\ b = {} /\ c = {}
  <2>1. CASE i = 1
    BY <1>2, <1>3, <1>5, <2>1
  <2>2. CASE i \in {2, 3}
    BY <1>2, <1>3, <1>5, <2>2
  <2>3. CASE i \in {4, 6}
    <3>1. a = {} /\ b = {} /\ c = {}
      BY <1>3, <1>5, <2>3
    <3> QED
      BY <1>2, <1>5, <2>3, <3>1
  <2>4. CASE i = 5
    BY <1>2, <1>5, <2>4
  <2> QED
    BY <2>1, <2>2, <2>3, <2>4
<1> QED
  BY <1>4, <1>5 DEF MayDelete, a, b, c, d, e

\* A pass of an instance whose inventory is exact changes nothing.
LEMMA ExactStays ==
    ASSUME Typed, NEW g \in 1..Len(log), Exact(g), NEW q, NEW stage,
           stage = FirstStage(ConvergenceStages(g, Inventory, q))
    PROVE  stage.op \in {"none", "blocked"}
<1> DEFINE o == Inventory
<1>1. o.nodes = nodes /\ o.class = class /\ o.slices = slices
  BY DEF Inventory
<1>2. stage = FirstStage(ConvergenceStages(g, o, q))
  OBVIOUS
<1> HIDE DEF o
<1>3. \A n \in Names : nodes[n] = IF n \in Wanted(g) THEN "open" ELSE "absent"
  BY DEF Exact
<1>4. Wanted(g) \subseteq Names
  BY ScenarioOf DEF Typed
<1>5. Wanted(g) = Present(o)
  BY <1>1, <1>3, <1>4 DEF Present
<1>6. OpenOf(o, Present(o) \ Wanted(g)) = {}
  BY <1>5 DEF OpenOf
<1>7. MustClose(g, o) = {}
  BY <1>1 DEF MustClose, Complete, Exact
<1>8. Openable(g, o, q) = {}
  BY <1>1, <1>3, <1>4 DEF Openable
<1>9. o.slices = Slices(g) /\ StaleSlices(g, o) = {} /\ o.class = g
  BY <1>1 DEF Exact, StaleSlices
<1>10. stage = NoJob \/ stage = Stage("blocked", stage.on)
  <2>1. \A op, on : Stage(op, on).on = on
    BY DEF Stage
  <2>2. Chosen(g, o, q, stage)
    BY <1>2, ConvergenceChoice
  <2>3. /\ Wanted(g) \ Present(o) = {} /\ Present(o) \ Wanted(g) = {}
        /\ Slices(g) \ o.slices = {}
    BY <1>5, <1>9
  <2> QED
    BY <1>6, <1>7, <1>8, <1>9, <2>1, <2>2, <2>3 DEF Chosen
<1> QED
  BY <1>10 DEF NoJob, Stage

\* When a pass finds nothing to do and everything achieved, the inventory is exact.
LEMMA NothingIsExact ==
    ASSUME Typed, NEW g \in 1..Len(log), NEW q,
           NothingToDo(g, Inventory, q), Achieved(g, Inventory, q)
    PROVE  Exact(g)
<1> DEFINE o == Inventory
<1>1. o.nodes = nodes /\ o.class = class /\ o.slices = slices
  BY DEF Inventory
<1>2. NothingToDo(g, o, q) /\ Achieved(g, o, q)
  OBVIOUS
<1> HIDE DEF o
<1>3. class = g /\ slices = Slices(g)
  BY <1>1, <1>2 DEF NothingToDo, StaleSlices
<1>4. ASSUME NEW n \in Names
      PROVE  nodes[n] = IF n \in Wanted(g) THEN "open" ELSE "absent"
  <2>1. nodes[n] \in NodeStates
    BY DEF Typed
  <2>2. CASE n \in Wanted(g)
    <3>1. nodes[n] # "absent"
      BY <1>1, <1>2, <2>2 DEF NothingToDo, Present
    <3>2. nodes[n] # "closed"
      BY <1>1, <1>2, <2>2 DEF NothingToDo, Openable
    <3> QED
      BY <2>1, <2>2, <3>1, <3>2 DEF NodeStates
  <2>3. CASE n \notin Wanted(g)
    BY <1>1, <1>2, <2>3 DEF NothingToDo, Present
  <2> QED
    BY <2>2, <2>3
<1> QED
  BY <1>3, <1>4 DEF Exact

\* What a claim holds is held in the claims that the pass reads.
LEMMA HeldIsSeen ==
    ASSUME NEW d \in Held(claims)
    PROVE  \E c \in Claims : claims[c] = d /\ claims[c] \notin {Absent, Pending}
BY DEF Held

\* The devices of the claims survive the removal of slices that block no claim.
LEMMA UnblockedStay ==
    ASSUME AllocatedDevicesStay, NEW classGone, NEW stale,
           ClaimBlockers(claims, classGone, stale) = {}
    PROVE  Held(claims) \subseteq DevicesOf(slices \ stale)
<1> SUFFICES ASSUME NEW d \in Held(claims)
             PROVE  d \in DevicesOf(slices \ stale)
  OBVIOUS
<1>1. PICK c \in Claims : claims[c] = d
  BY HeldIsSeen
<1>2. PICK s \in slices : d \in Devices(s)
  BY DevicesOfIs DEF AllocatedDevicesStay
<1>3. d \notin DevicesOf(stale)
  BY <1>1 DEF ClaimBlockers
<1>4. s \notin stale
  BY <1>2, <1>3, DevicesOfIs
<1> QED
  BY <1>2, <1>4, DevicesOfIs

\* No claim holds a device of a Node that no Pod blocks.
LEMMA UnblockedNodes ==
    ASSUME NEW names, PodBlockers(claims, names) = {}, NEW d \in Held(claims)
    PROVE  d[1] \notin names
<1>1. PICK c \in Claims : claims[c] = d /\ claims[c] \notin {Absent, Pending}
  BY HeldIsSeen
<1> QED
  BY <1>1 DEF PodBlockers

-----------------------------------------------------------------------------
(***************************************************************************)
(* ChooseStage keeps the invariant: it decides only.                       *)
(***************************************************************************)

\* What the pass is about to do is safe at the moment it decides.
LEMMA ConvergenceIsSafe ==
    ASSUME IInv, NEW g \in 1..Len(log), NEW q, q = claims \/ Held(claims) = {}, NEW stage,
           stage = FirstStage(ConvergenceStages(g, Inventory, q)),
           stage.op \notin {"none", "blocked"}
    PROVE  /\ stage = Stage(stage.op, stage.on) /\ stage.op \in Operations
           /\ stage.op \in {"create-node", "close", "open", "delete-node"} =>
                stage.on \subseteq Names
           /\ stage.op = "apply-class" => stage.on \subseteq {g}
           /\ stage.op = "apply-slice" => stage.on \subseteq Slices(g)
           /\ stage.op = "delete-slice" =>
                /\ Held(claims) \subseteq DevicesOf(slices \ stage.on)
                /\ \A n \in Names : nodes[n] = "open" =>
                     n \in Wanted(g) /\ Slices(g) \subseteq slices \ stage.on
           /\ stage.op = "delete-node" =>
                \A n \in stage.on : nodes[n] # "open" /\ \A d \in Held(claims) : d[1] # n
<1> DEFINE o == Inventory
           staleNodes == Present(o) \ Wanted(g)
           stale == StaleSlices(g, o)
<1>1. o.nodes = nodes /\ o.class = class /\ o.slices = slices
  BY DEF Inventory
<1>2. stage = FirstStage(ConvergenceStages(g, o, q))
  OBVIOUS
<1> HIDE DEF o
<1>3. Wanted(g) \subseteq Names /\ Present(o) \subseteq Names
  BY ScenarioOf DEF IInv, Typed, Present
<1>4. \A op, on : Stage(op, on).op = op /\ Stage(op, on).on = on
  BY DEF Stage
<1>5. MustClose(g, o) \subseteq Wanted(g) /\ Openable(g, o, q) \subseteq Wanted(g)
  BY DEF MustClose, Openable, OpenOf
<1>6. OpenOf(o, staleNodes) \subseteq Names
  BY <1>3 DEF OpenOf
<1>7. AllocatedDevicesStay
  BY DEF IInv
<1>8. ASSUME MayRemove(g, o, q)
      PROVE  /\ Held(claims) \subseteq DevicesOf(slices \ stale)
             /\ \A n \in Names : nodes[n] = "open" =>
                  n \in Wanted(g) /\ Slices(g) \subseteq slices \ stale
             /\ \A n \in staleNodes : nodes[n] # "open" /\ \A d \in Held(claims) : d[1] # n
  <2>1. ASSUME NEW n \in Names, nodes[n] = "open"
        PROVE  n \in Wanted(g)
    <3>1. n \in Present(o)
      BY <1>1, <2>1 DEF Present
    <3>2. OpenOf(o, staleNodes) = {}
      BY <1>8 DEF MayRemove
    <3> QED
      BY <1>1, <2>1, <3>1, <3>2 DEF OpenOf
  <2>2. Slices(g) \subseteq slices \ stale
    BY <1>1, <1>8 DEF MayRemove, StaleSlices
  <2>3. Held(claims) \subseteq DevicesOf(slices \ stale)
    <3>1. CASE q = claims
      <4>1. ClaimBlockers(claims, FALSE, stale) = {}
        BY <1>8, <3>1 DEF MayRemove
      <4> QED
        BY <1>7, <4>1, UnblockedStay
    <3> QED
      BY <3>1
  <2>4. ASSUME NEW n \in staleNodes
        PROVE  nodes[n] # "open" /\ \A d \in Held(claims) : d[1] # n
    <3>1. nodes[n] # "open"
      BY <1>3, <2>1
    <3>2. CASE q = claims
      <4>1. PodBlockers(claims, staleNodes) = {}
        BY <1>8, <3>2 DEF MayRemove
      <4>2. \A d \in Held(claims) : d[1] \notin staleNodes
        BY <4>1, UnblockedNodes
      <4> QED
        BY <3>1, <4>2
    <3> QED
      BY <3>1, <3>2
  <2> QED
    BY <2>1, <2>2, <2>3, <2>4
<1>9. Chosen(g, o, q, stage)
  BY <1>2, ConvergenceChoice
<1>10. stage # NoJob /\ stage # Stage("blocked", stage.on)
  BY <1>4 DEF NoJob
<1> HIDE DEF staleNodes, stale
<1>11. CASE stage = Stage("create-node", Wanted(g) \ Present(o))
  BY <1>3, <1>4, <1>11 DEF Operations
<1>12. CASE stage = Stage("apply-class", {g})
  BY <1>4, <1>12 DEF Operations
<1>13. CASE stage = Stage("apply-slice", Slices(g) \ o.slices)
  BY <1>4, <1>13 DEF Operations
<1>14. CASE \E on \in SUBSET Names : stage = Stage("close", on)
  BY <1>4, <1>14 DEF Operations
<1>15. CASE stage = Stage("delete-slice", stale) /\ MayRemove(g, o, q)
  <2>1. stage.op = "delete-slice" /\ stage.on = stale
    BY <1>4, <1>15
  <2> QED
    BY <1>8, <1>15, <2>1 DEF Operations
<1>16. CASE stage = Stage("delete-node", staleNodes) /\ MayRemove(g, o, q)
  <2>1. stage.op = "delete-node" /\ stage.on = staleNodes
    BY <1>4, <1>16
  <2>2. staleNodes \subseteq Names
    BY <1>3 DEF staleNodes
  <2> QED
    BY <1>8, <1>16, <2>1, <2>2 DEF Operations
<1>17. CASE stage = Stage("open", Openable(g, o, q))
  BY <1>3, <1>4, <1>5, <1>17 DEF Operations
<1>18. MustClose(g, o) \in SUBSET Names /\ OpenOf(o, staleNodes) \in SUBSET Names
  BY <1>3, <1>5, <1>6
<1> QED
  <2>1. \/ stage = Stage("create-node", Wanted(g) \ Present(o))
        \/ stage = Stage("apply-class", {g})
        \/ stage = Stage("apply-slice", Slices(g) \ o.slices)
        \/ stage = Stage("close", OpenOf(o, staleNodes))
        \/ stage = Stage("delete-slice", stale) /\ MayRemove(g, o, q)
        \/ stage = Stage("delete-node", staleNodes) /\ MayRemove(g, o, q)
        \/ stage = Stage("close", MustClose(g, o))
        \/ stage = Stage("open", Openable(g, o, q))
    BY <1>9, <1>10 DEF Chosen, staleNodes, stale
  <2> QED
    BY <2>1, <1>11, <1>12, <1>13, <1>14, <1>15, <1>16, <1>17, <1>18

LEMMA DeletionIsSafe ==
    ASSUME IInv, NEW g, NEW q, q = claims \/ Held(claims) = {}, NEW stage,
           stage = FirstStage(DeletionStages(Inventory, q)),
           stage.op \notin {"none", "blocked"}
    PROVE  /\ stage = Stage(stage.op, stage.on) /\ stage.op \in Operations
           /\ stage.op \in {"create-node", "close", "open", "delete-node"} =>
                stage.on \subseteq Names
           /\ stage.op = "apply-class" => stage.on \subseteq {g}
           /\ stage.op = "apply-slice" => stage.on \subseteq Slices(g)
           /\ stage.op = "delete-slice" =>
                /\ Held(claims) \subseteq DevicesOf(slices \ stage.on)
                /\ \A n \in Names : nodes[n] = "open" =>
                     n \in Wanted(g) /\ Slices(g) \subseteq slices \ stage.on
           /\ stage.op = "delete-node" =>
                \A n \in stage.on : nodes[n] # "open" /\ \A d \in Held(claims) : d[1] # n
<1> DEFINE o == Inventory
<1>1. o.nodes = nodes /\ o.class = class /\ o.slices = slices
  BY DEF Inventory
<1>2. stage = FirstStage(DeletionStages(o, q))
  OBVIOUS
<1> HIDE DEF o
<1>3. Present(o) \subseteq Names /\ OpenOf(o, Names) \subseteq Names
  BY DEF Present, OpenOf
<1>4. \A op, on : Stage(op, on).op = op /\ Stage(op, on).on = on
  BY DEF Stage
<1>5. AllocatedDevicesStay
  BY DEF IInv
<1>6. ASSUME MayDelete(o, q)
      PROVE  /\ Held(claims) \subseteq DevicesOf(slices \ slices)
             /\ \A n \in Names : nodes[n] # "open"
             /\ \A n \in Present(o) : \A d \in Held(claims) : d[1] # n
  <2>1. \A n \in Names : nodes[n] # "open"
    BY <1>1, <1>6 DEF MayDelete, OpenOf
  <2>2. CASE q = claims
    <3>1. ClaimBlockers(claims, o.class # Absent, slices) = {}
      BY <1>1, <1>6, <2>2 DEF MayDelete
    <3>2. Held(claims) \subseteq DevicesOf(slices \ slices)
      BY <1>5, <3>1, UnblockedStay
    <3>3. PodBlockers(claims, Present(o)) = {}
      BY <1>6, <2>2 DEF MayDelete
    <3> QED
      BY <2>1, <3>2, <3>3, UnblockedNodes
  <2> QED
    BY <2>1, <2>2
<1>7. \/ stage = NoJob
      \/ stage = Stage("close", OpenOf(o, Names)) /\ stage.on # {}
      \/ stage = Stage("blocked", stage.on)
      \/ stage = Stage("delete-slice", o.slices) /\ MayDelete(o, q)
      \/ stage = Stage("delete-class", {o.class} \ {Absent}) /\ stage.on # {}
      \/ stage = Stage("delete-node", Present(o)) /\ MayDelete(o, q)
  BY <1>2, DeletionChoice
<1>8. stage # NoJob /\ stage # Stage("blocked", stage.on)
  BY <1>4 DEF NoJob
<1>9. CASE stage = Stage("close", OpenOf(o, Names))
  BY <1>3, <1>4, <1>9 DEF Operations
<1>10. CASE stage = Stage("delete-slice", slices) /\ MayDelete(o, q)
  <2>1. stage.op = "delete-slice" /\ stage.on = slices
    BY <1>4, <1>10
  <2> QED
    BY <1>6, <1>10, <2>1 DEF Operations
<1>11. CASE stage = Stage("delete-class", {o.class} \ {Absent})
  BY <1>4, <1>11 DEF Operations
<1>12. CASE stage = Stage("delete-node", Present(o)) /\ MayDelete(o, q)
  <2>1. stage.op = "delete-node" /\ stage.on = Present(o)
    BY <1>4, <1>12
  <2> QED
    BY <1>3, <1>6, <1>12, <2>1 DEF Operations
<1> QED
  BY <1>1, <1>7, <1>8, <1>9, <1>10, <1>11, <1>12

\* While the log stays, so does the projection of every generation.
LEMMA SameLog ==
    ASSUME UNCHANGED log
    PROVE  /\ \A g : Wanted(g)' = Wanted(g) /\ Slices(g)' = Slices(g)
           /\ \A s : Devices(s)' = Devices(s)
BY DEF Wanted, Slices, Shards, Pool, Devices

LEMMA SameTypes ==
    ASSUME Typed, UNCHANGED <<object, inventory, claims>>,
           pc' \in {"idle", "workloads", "apply", "commit"}, faults' \in 0..MaxFaults,
           record'.generation \in 0..Len(log), record'.deleting \in BOOLEAN
    PROVE  Typed'
<1>1. \A g : Slices(g)' = Slices(g)
  BY SameLog DEF object
<1> QED
  BY <1>1 DEF Typed, object, inventory

LEMMA SameDevices ==
    ASSUME AllocatedDevicesStay, UNCHANGED <<log, nodes, slices, claims>>
    PROVE  AllocatedDevicesStay'
<1>1. \A s : Devices(s)' = Devices(s)
  BY SameLog
<1> QED
  BY <1>1 DEF AllocatedDevicesStay, DevicesOf, Held

LEMMA SameExact ==
    ASSUME UNCHANGED <<log, inventory>>
    PROVE  \A g : Exact(g)' <=> Exact(g)
<1>1. \A g : Wanted(g)' = Wanted(g) /\ Slices(g)' = Slices(g)
  BY SameLog
<1> QED
  BY <1>1 DEF Exact, inventory

LEMMA ChooseKeeps ==
    ASSUME IInv, ChooseStage
    PROVE  IInv'
<1> DEFINE g == record.generation
           owned == seen.class # Absent \/ seen.slices # {}
           q == IF owned THEN claims ELSE [c \in Claims |-> Absent]
           stage == FirstStage(IF record.deleting THEN DeletionStages(seen, q)
                               ELSE ConvergenceStages(g, seen, q))
<1>1. /\ pc = "workloads" /\ g \in 1..Len(log) /\ seen = Inventory
      /\ UNCHANGED <<object, inventory, claims, record, seen, faults>>
      /\ UNCHANGED <<log, instance, status, nodes, class, slices>>
  BY DEF ChooseStage, IInv, PassOK, object, inventory
<1>2. IF stage.op \in {"none", "blocked"}
      THEN /\ pc' = "commit"
           /\ job' = [stage EXCEPT !.op =
                          IF stage.op = "none" /\ ~record.deleting /\ Achieved(g, seen, q)
                          THEN "ready" ELSE @]
      ELSE pc' = "apply" /\ job' = stage
  BY DEF ChooseStage
<1>3. q = claims \/ Held(claims) = {}
  <2>1. CASE owned
    BY <2>1
  <2>2. CASE ~owned
    <3>1. slices = {}
      BY <1>1, <2>2 DEF Inventory
    <3>2. \A d : d \notin DevicesOf(slices)
      BY <3>1, DevicesOfIs
    <3> QED
      BY <3>2 DEF IInv, AllocatedDevicesStay
  <2> QED
    BY <2>1, <2>2
<1>4. /\ ~record.deleting => stage = FirstStage(ConvergenceStages(g, Inventory, q))
      /\ record.deleting => stage = FirstStage(DeletionStages(Inventory, q))
  BY <1>1
<1>5. record.generation \in 0..Len(log) /\ record.deleting \in BOOLEAN
  BY DEF IInv, Typed
<1>6. ~record.deleting /\ Exact(g) => stage.op \in {"none", "blocked"}
  BY <1>1, <1>4, ExactStays DEF IInv
<1>7. stage.op = "none" /\ ~record.deleting => stage = NoJob /\ NothingToDo(g, Inventory, q)
  <2> HIDE DEF stage, q, g
  <2> QED
    BY <1>4, ConvergenceIdle
<1> HIDE DEF stage, q, owned, g
<1>8. Typed'
  <2>1. pc' \in {"commit", "apply"} /\ faults' \in 0..MaxFaults
    BY <1>1, <1>2 DEF IInv, Typed
  <2> QED
    BY <1>1, <1>5, <2>1, SameTypes DEF IInv
<1>9. PassOK'
  BY <1>1, <1>2 DEF IInv, PassOK, g
<1>10. AllocatedDevicesStay'
  BY <1>1, SameDevices DEF IInv
<1>11. \A x : Exact(x)' <=> Exact(x)
  BY <1>1, SameExact
<1>12. \A x : Wanted(x)' = Wanted(x) /\ Slices(x)' = Slices(x)
  BY <1>1, SameLog
<1>13. \A s : Devices(s)' = Devices(s)
  BY <1>1, SameLog
<1>14. CASE stage.op \in {"none", "blocked"}
  <2>1. pc' = "commit"
    BY <1>2, <1>14
  <2>2. ASSUME job'.op = "ready"
        PROVE  Exact(g)
    <3>1. CASE stage.op = "none" /\ ~record.deleting /\ Achieved(g, seen, q)
      <4>1. NothingToDo(g, Inventory, q) /\ Achieved(g, Inventory, q)
        BY <1>1, <1>7, <3>1
      <4> QED
        BY <1>1, <4>1, NothingIsExact DEF IInv
    <3>2. CASE ~(stage.op = "none" /\ ~record.deleting /\ Achieved(g, seen, q))
      <4>1. job' = [stage EXCEPT !.op = @]
        BY <1>2, <1>14, <3>2
      <4>2. job'.op = stage.op
        BY <4>1
      <4> QED
        BY <1>14, <2>2, <4>2
    <3> QED
      BY <3>1, <3>2
  <2>3. ReadyOK'
    BY <1>1, <1>11, <2>1, <2>2 DEF IInv, ReadyOK, ReadyNow, g
  <2> QED
    BY <1>8, <1>9, <1>10, <2>1, <2>3 DEF IInv, JobOK, DeletionsAreSafe
<1>15. CASE stage.op \notin {"none", "blocked"}
  <2>1. pc' = "apply" /\ job' = stage
    BY <1>2, <1>15
  <2>2. /\ stage = Stage(stage.op, stage.on) /\ stage.op \in Operations
        /\ stage.op \in {"create-node", "close", "open", "delete-node"} =>
             stage.on \subseteq Names
        /\ stage.op = "apply-class" => stage.on \subseteq {g}
        /\ stage.op = "apply-slice" => stage.on \subseteq Slices(g)
        /\ stage.op = "delete-slice" =>
             /\ Held(claims) \subseteq DevicesOf(slices \ stage.on)
             /\ \A n \in Names : nodes[n] = "open" =>
                  n \in Wanted(g) /\ Slices(g) \subseteq slices \ stage.on
        /\ stage.op = "delete-node" =>
             \A n \in stage.on : nodes[n] # "open" /\ \A d \in Held(claims) : d[1] # n
    <3>1. CASE record.deleting
      BY <1>3, <1>4, <1>15, <3>1, DeletionIsSafe
    <3>2. CASE ~record.deleting
      BY <1>1, <1>3, <1>4, <1>15, <3>2, ConvergenceIsSafe
    <3> QED
      BY <3>1, <3>2
  <2>3. JobOK'
    BY <1>1, <1>12, <2>1, <2>2 DEF JobOK, g
  <2>4. DeletionsAreSafe'
    <3>1. Held(claims)' = Held(claims)
      BY <1>1 DEF Held
    <3>2. DevicesOf(slices \ job.on)' = DevicesOf(slices \ stage.on)
      BY <1>1, <1>13, <2>1 DEF DevicesOf
    <3> QED
      BY <1>1, <1>12, <2>1, <2>2, <3>1, <3>2 DEF DeletionsAreSafe, g
  <2>5. ~ReadyNow
    BY <1>1, <1>6, <1>15 DEF IInv, ReadyOK, g
  <2>6. ReadyOK'
    BY <1>1, <2>1, <2>5 DEF IInv, ReadyOK, ReadyNow
  <2> QED
    BY <1>8, <1>9, <1>10, <2>3, <2>4, <2>6 DEF IInv
<1> QED
  BY <1>14, <1>15

-----------------------------------------------------------------------------
(***************************************************************************)
(* Request: one object of the stage is written.                            *)
(***************************************************************************)

\* The rest of the stage is as it was.
LEMMA RequestFrame ==
    ASSUME IInv, NEW x, Request(x)
    PROVE  /\ pc = "apply" /\ pc' = "apply" /\ x \in job.on
           /\ job'.op = job.op /\ job'.on = job.on \ {x} /\ job' = Stage(job'.op, job'.on)
           /\ job.op \in Operations /\ record.generation \in 1..Len(log)
           /\ UNCHANGED <<log, instance, status, claims, record, faults, seen>>
<1>1. /\ pc = "apply" /\ pc' = pc /\ x \in job.on /\ job' = [job EXCEPT !.on = @ \ {x}]
      /\ UNCHANGED <<log, instance, status, claims, record, faults, seen>>
  BY DEF Request, object
<1>2. /\ job = [op |-> job.op, on |-> job.on] /\ job.op \in Operations
      /\ record.generation \in 1..Len(log)
  BY <1>1 DEF IInv, JobOK, PassOK, Stage
<1>3. job' = [op |-> job.op, on |-> job.on \ {x}]
  BY <1>1, <1>2
<1> QED
  BY <1>1, <1>2, <1>3 DEF Stage

\* What remains of the invariant once the inventory after the request is known.
LEMMA RequestRest ==
    ASSUME IInv, NEW x, Request(x),
           nodes' \in [Names -> NodeStates], class' \in Generations \union {Absent},
           \A s \in slices' : s \in slices \/ s \in Slices(record.generation),
           AllocatedDevicesStay', DeletionsAreSafe'
    PROVE  IInv'
<1>1. /\ pc = "apply" /\ pc' = "apply" /\ x \in job.on
      /\ job'.op = job.op /\ job'.on = job.on \ {x} /\ job' = Stage(job'.op, job'.on)
      /\ job.op \in Operations /\ record.generation \in 1..Len(log)
      /\ UNCHANGED <<log, instance, status, claims, record, faults, seen>>
  BY RequestFrame
<1>2. \A g : Slices(g)' = Slices(g)
  BY <1>1, SameLog
<1>3. log \in Seq(Scenarios)
  BY DEF IInv, Typed
<1>4. \A s \in slices' : s[2] \in 1..Len(log) /\ s \in Slices(s[2]) /\ s[2] <= record.generation
  <2> SUFFICES ASSUME NEW s \in slices'
               PROVE  s[2] \in 1..Len(log) /\ s \in Slices(s[2]) /\ s[2] <= record.generation
    OBVIOUS
  <2>1. CASE s \in slices
    BY <1>1, <2>1 DEF IInv, Typed, PassOK
  <2>2. CASE s \in Slices(record.generation)
    <3>1. s[2] = record.generation
      BY <1>1, <1>3, <2>2, SliceParts
    <3> QED
      BY <1>1, <2>2, <3>1
  <2> QED
    BY <2>1, <2>2
<1>5. Typed'
  BY <1>1, <1>2, <1>4 DEF IInv, Typed
<1>6. PassOK'
  BY <1>1, <1>4 DEF PassOK
<1>7. JobOK'
  BY <1>1, <1>2 DEF IInv, JobOK
<1>8. ReadyOK'
  BY <1>1 DEF IInv, ReadyOK, ReadyNow
<1> QED
  BY <1>5, <1>6, <1>7, <1>8 DEF IInv

\* Nodes are closed or opened, classes come and go, slices are added: no device and no
\* Node of a claim is lost.
LEMMA NothingIsLost ==
    ASSUME IInv, NEW x, Request(x), slices \subseteq slices',
           \A n \in Names : nodes[n] # "absent" => nodes'[n] # "absent",
           job.op \notin {"delete-slice", "delete-node"}
    PROVE  AllocatedDevicesStay' /\ DeletionsAreSafe'
<1>1. UNCHANGED log /\ UNCHANGED claims /\ job'.op = job.op
  BY RequestFrame
<1>2. \A s : Devices(s)' = Devices(s)
  BY <1>1, SameLog
<1>3. AllocatedDevicesStay'
  <2> SUFFICES ASSUME NEW d \in Held(claims)
               PROVE  /\ \E s \in slices' : d \in Devices(s)
                      /\ nodes'[d[1]] # "absent"
    BY <1>1, <1>2 DEF AllocatedDevicesStay, DevicesOf, Held
  <2>1. PICK s \in slices : d \in Devices(s)
    BY DevicesOfIs DEF IInv, AllocatedDevicesStay
  <2>2. d[1] \in Names
    <3>1. s[2] \in 1..Len(log) /\ s \in Slices(s[2]) /\ log \in Seq(Scenarios)
      BY DEF IInv, Typed
    <3>2. d \in Names \X Nat
      BY <2>1, <3>1, DeviceParts
    <3> QED
      BY <3>2
  <2> QED
    BY <2>1, <2>2 DEF IInv, AllocatedDevicesStay
<1>4. DeletionsAreSafe'
  BY <1>1 DEF DeletionsAreSafe
<1> QED
  BY <1>3, <1>4

LEMMA RequestKeeps ==
    ASSUME IInv, NEW x, Request(x)
    PROVE  IInv'
<1>1. /\ pc = "apply" /\ pc' = "apply" /\ x \in job.on
      /\ job'.op = job.op /\ job'.on = job.on \ {x} /\ job' = Stage(job'.op, job'.on)
      /\ job.op \in Operations /\ record.generation \in 1..Len(log)
      /\ UNCHANGED <<log, instance, status, claims, record, faults, seen>>
  BY RequestFrame
<1>2. /\ nodes \in [Names -> NodeStates] /\ class \in Generations \union {Absent}
      /\ log \in Seq(Scenarios) /\ Len(log) \in Generations /\ MaxGeneration \in Nat
  BY DRAAssumption DEF IInv, Typed
<1>3. /\ job.op \in {"create-node", "close", "open", "delete-node"} => x \in Names
      /\ job.op = "apply-class" => x = record.generation
      /\ job.op = "apply-slice" => x \in Slices(record.generation)
  BY <1>1 DEF IInv, JobOK
<1>4. CASE job.op \in {"create-node", "close"}
  <2>1. nodes' = [nodes EXCEPT ![x] = "closed"] /\ UNCHANGED <<class, slices>>
    BY <1>4 DEF Request
  <2>2. nodes' \in [Names -> NodeStates]
    BY <1>2, <1>3, <1>4, <2>1 DEF NodeStates
  <2>3. \A n \in Names : nodes[n] # "absent" => nodes'[n] # "absent"
    BY <1>2, <1>3, <1>4, <2>1
  <2> QED
    BY <1>2, <1>4, <2>1, <2>2, <2>3, NothingIsLost, RequestRest
<1>5. CASE job.op = "open"
  <2>1. nodes' = [nodes EXCEPT ![x] = "open"] /\ UNCHANGED <<class, slices>>
    BY <1>5 DEF Request
  <2>2. nodes' \in [Names -> NodeStates]
    BY <1>2, <1>3, <1>5, <2>1 DEF NodeStates
  <2>3. \A n \in Names : nodes[n] # "absent" => nodes'[n] # "absent"
    BY <1>2, <1>3, <1>5, <2>1
  <2> QED
    BY <1>2, <1>5, <2>1, <2>2, <2>3, NothingIsLost, RequestRest
<1>6. CASE job.op = "apply-class"
  <2>1. class' = x /\ UNCHANGED <<nodes, slices>>
    BY <1>6 DEF Request
  <2>2. class' \in Generations \union {Absent}
    BY <1>1, <1>2, <1>3, <1>6, <2>1 DEF Generations
  <2> QED
    BY <1>2, <1>6, <2>1, <2>2, NothingIsLost, RequestRest
<1>7. CASE job.op = "delete-class"
  <2>1. class' = Absent /\ UNCHANGED <<nodes, slices>>
    BY <1>7 DEF Request
  <2> QED
    BY <1>2, <1>7, <2>1, NothingIsLost, RequestRest
<1>8. CASE job.op = "apply-slice"
  <2>1. slices' = slices \union {x} /\ UNCHANGED <<nodes, class>>
    BY <1>8 DEF Request
  <2> QED
    BY <1>2, <1>3, <1>8, <2>1, NothingIsLost, RequestRest
<1>9. CASE job.op = "delete-node"
  <2>1. nodes' = [nodes EXCEPT ![x] = "absent"] /\ UNCHANGED <<class, slices>>
    BY <1>9 DEF Request
  <2>2. nodes' \in [Names -> NodeStates]
    BY <1>2, <1>3, <1>9, <2>1 DEF NodeStates
  <2>3. /\ Held(claims)' = Held(claims)
        /\ \A s : Devices(s)' = Devices(s)
    BY <1>1, SameLog DEF Held
  <2>4. \A n \in job.on : nodes[n] # "open" /\ \A d \in Held(claims) : d[1] # n
    BY <1>1, <1>9 DEF IInv, DeletionsAreSafe
  <2>5. job.on \subseteq Names
    BY <1>1, <1>9 DEF IInv, JobOK
  <2>6. \A d \in Held(claims) : d[1] \in Names
    <3> SUFFICES ASSUME NEW d \in Held(claims)
                 PROVE  d[1] \in Names
      OBVIOUS
    <3>1. PICK s \in slices : d \in Devices(s)
      BY DevicesOfIs DEF IInv, AllocatedDevicesStay
    <3>2. s[2] \in 1..Len(log) /\ s \in Slices(s[2])
      BY DEF IInv, Typed
    <3>3. d \in Names \X Nat
      BY <1>2, <3>1, <3>2, DeviceParts
    <3> QED
      BY <3>3
  <2>7. AllocatedDevicesStay'
    <3>1. DevicesOf(slices)' = DevicesOf(slices)
      BY <2>1, <2>3 DEF DevicesOf
    <3>2. \A d \in Held(claims) : nodes'[d[1]] = nodes[d[1]]
      BY <1>1, <1>2, <2>1, <2>4, <2>6
    <3> QED
      BY <2>3, <3>1, <3>2 DEF IInv, AllocatedDevicesStay
  <2>8. DeletionsAreSafe'
    <3>1. \A n \in job'.on : nodes'[n] = nodes[n]
      BY <1>1, <1>2, <2>1, <2>5
    <3> QED
      BY <1>1, <1>9, <2>3, <2>4, <3>1 DEF DeletionsAreSafe
  <2> QED
    BY <1>2, <2>1, <2>2, <2>7, <2>8, RequestRest
<1>10. CASE job.op = "delete-slice"
  <2>1. slices' = slices \ {x} /\ UNCHANGED <<nodes, class>>
    BY <1>10 DEF Request
  <2>2. slices' \ job'.on = slices \ job.on
    BY <1>1, <2>1
  <2>3. /\ Held(claims)' = Held(claims)
        /\ \A s : Devices(s)' = Devices(s)
        /\ \A g : Wanted(g)' = Wanted(g) /\ Slices(g)' = Slices(g)
    BY <1>1, SameLog DEF Held
  <2>4. /\ Held(claims) \subseteq DevicesOf(slices \ job.on)
        /\ \A n \in Names : nodes[n] = "open" =>
             n \in Wanted(record.generation)
             /\ Slices(record.generation) \subseteq slices \ job.on
    BY <1>1, <1>10 DEF IInv, DeletionsAreSafe
  <2>5. DevicesOf(slices \ job.on)' = DevicesOf(slices \ job.on)
    BY <2>2, <2>3 DEF DevicesOf
  <2>6. DeletionsAreSafe'
    BY <1>1, <1>10, <2>1, <2>2, <2>3, <2>4, <2>5 DEF DeletionsAreSafe
  <2>7. AllocatedDevicesStay'
    <3>1. \A d \in Held(claims) : d \in DevicesOf(slices)'
      <4> SUFFICES ASSUME NEW d \in Held(claims)
                   PROVE  \E s \in slices' : d \in Devices(s)
        BY <2>3 DEF DevicesOf
      <4>1. PICK s \in slices \ job.on : d \in Devices(s)
        BY <2>4, DevicesOfIs
      <4> QED
        BY <1>1, <2>1, <4>1
    <3> QED
      BY <2>1, <2>3, <3>1 DEF IInv, AllocatedDevicesStay
  <2> QED
    BY <1>2, <2>1, <2>6, <2>7, RequestRest
<1> QED
  BY <1>1, <1>4, <1>5, <1>6, <1>7, <1>8, <1>9, <1>10 DEF Operations

-----------------------------------------------------------------------------
(***************************************************************************)
(* The other steps of the controller.                                      *)
(***************************************************************************)

\* The bounds are numbers, and the types of what a status and a pass say.
LEMMA Bounds ==
    MaxGeneration \in Nat \ {0} /\ MaxFaults \in Nat /\ SliceSize \in Nat \ {0}
BY DRAAssumption

\* A range is part of a longer one.
LEMMA RangeGrows ==
    ASSUME NEW a \in Nat, NEW b \in Nat, a <= b, NEW x \in 0..a
    PROVE  x \in 0..b /\ x <= a
OBVIOUS

LEMMA StatusTypes ==
    ASSUME IInv
    PROVE  /\ Len(log) \in Nat \ {0} /\ Len(log) <= MaxGeneration
           /\ status.generation \in 0..Len(log)
           /\ instance \in {"active", "deleting", "gone"}
           /\ status.phase \in {"", "Reconciling", "Ready", "Deleting"}
           /\ status.blocked \in BOOLEAN /\ faults \in 0..MaxFaults
           /\ record.generation \in 0..Len(log) /\ record.deleting \in BOOLEAN
<1>1. Len(log) \in 1..MaxGeneration /\ status.generation \in 0..MaxGeneration
  BY DEF IInv, Typed, Generations
<1>2. status.generation <= Len(log)
  BY DEF IInv, ReadyOK
<1>3. Len(log) \in Nat \ {0} /\ Len(log) <= MaxGeneration /\ status.generation \in 0..Len(log)
  BY <1>1, <1>2, Bounds
<1>4. /\ instance \in {"active", "deleting", "gone"}
      /\ status.phase \in {"", "Reconciling", "Ready", "Deleting"}
      /\ status.blocked \in BOOLEAN /\ faults \in 0..MaxFaults
      /\ record.generation \in 0..Len(log) /\ record.deleting \in BOOLEAN
  BY DEF IInv, Typed
<1> QED
  BY <1>3, <1>4

LEMMA InitHolds == Init => IInv
<1> SUFFICES ASSUME Init
             PROVE  IInv
  OBVIOUS
<1>1. PICK s \in Scenarios : log = <<s>>
  BY DEF Init
<1>2. log \in Seq(Scenarios) /\ Len(log) = 1
  BY <1>1
<1>3. Held(claims) = {}
  BY DEF Init, Held
<1>4. Typed
  <2>1. Len(log) \in Generations /\ 0 \in 0..Len(log) /\ 0 \in 0..MaxGeneration
        /\ faults \in 0..MaxFaults
    <3>1. MaxGeneration \in Nat \ {0} /\ MaxFaults \in Nat
      BY Bounds
    <3>2. faults = MaxFaults
      BY DEF Init
    <3> QED
      BY <1>2, <3>1, <3>2 DEF Generations
  <2> QED
    BY <1>2, <2>1 DEF Init, Typed, NodeStates
<1>5. AllocatedDevicesStay
  BY <1>3 DEF AllocatedDevicesStay
<1>6. pc = "idle" /\ status.phase = "" /\ status.generation = 0
  BY DEF Init
<1>7. PassOK /\ JobOK /\ DeletionsAreSafe
  BY <1>6 DEF PassOK, JobOK, DeletionsAreSafe
<1>8. ReadyOK
  <2>1. status.generation <= Len(log)
    <3> DEFINE x == status.generation
    <3>1. x = 0
      BY <1>6
    <3> HIDE DEF x
    <3>2. x <= Len(log)
      BY <1>2, <3>1
    <3> QED
      BY <3>2 DEF x
  <2> QED
    BY <1>6, <2>1 DEF ReadyOK, ReadyNow
<1> QED
  BY <1>4, <1>5, <1>7, <1>8 DEF IInv

LEMMA ObserveKeeps ==
    ASSUME IInv, Observe
    PROVE  IInv'
<1>1. /\ pc' = "workloads" /\ UNCHANGED <<object, inventory, claims, job, faults>>
      /\ record' = [generation |-> Len(log), deleting |-> instance = "deleting"]
      /\ seen' = Inventory
      /\ UNCHANGED <<log, instance, status, nodes, class, slices>>
  BY DEF Observe, Inventory, object, inventory
<1>2. /\ Len(log) \in 1..MaxGeneration /\ faults \in 0..MaxFaults
      /\ \A s \in slices : s[2] \in 1..Len(log)
  BY DEF IInv, Typed, Generations
<1>3. record'.generation \in 0..Len(log) /\ record'.deleting \in BOOLEAN
  BY <1>1, <1>2
<1>4. Typed'
  BY <1>1, <1>2, <1>3, SameTypes DEF IInv
<1>5. PassOK'
  <2>1. Inventory' = Inventory
    BY <1>1 DEF Inventory
  <2> QED
    BY <1>1, <1>2, <2>1 DEF PassOK
<1>6. AllocatedDevicesStay'
  BY <1>1, SameDevices DEF IInv
<1>7. \A g : Exact(g)' <=> Exact(g)
  BY <1>1, SameExact
<1>8. ReadyOK'
  BY <1>1, <1>7 DEF IInv, ReadyOK, ReadyNow
<1> QED
  BY <1>1, <1>4, <1>5, <1>6, <1>8 DEF IInv, JobOK, DeletionsAreSafe

LEMMA EndStageKeeps ==
    ASSUME IInv, EndStage
    PROVE  IInv'
<1>1. /\ pc = "apply" /\ pc' = "commit"
      /\ UNCHANGED <<object, inventory, claims, record, seen, job, faults>>
      /\ UNCHANGED <<log, instance, status, nodes, class, slices>>
  BY DEF EndStage, object, inventory
<1>2. Typed'
  BY <1>1, SameTypes DEF IInv, Typed
<1>3. PassOK'
  BY <1>1 DEF IInv, PassOK
<1>4. AllocatedDevicesStay'
  BY <1>1, SameDevices DEF IInv
<1>5. job'.op # "ready"
  BY <1>1 DEF IInv, JobOK, Operations
<1>6. ReadyOK'
  BY <1>1, <1>5 DEF IInv, ReadyOK, ReadyNow
<1> QED
  BY <1>1, <1>2, <1>3, <1>4, <1>6 DEF IInv, JobOK, DeletionsAreSafe

\* A pass is over: what is left to show is that the status says the truth.
LEMMA ResetKeeps ==
    ASSUME IInv, pc' = "idle", UNCHANGED <<log, inventory, claims, record>>,
           instance' \in {"active", "deleting", "gone"},
           status'.phase \in {"", "Reconciling", "Ready", "Deleting"},
           status'.generation \in 0..Len(log), status'.blocked \in BOOLEAN,
           faults' \in 0..MaxFaults, ReadyNow' => Exact(Len(log))
    PROVE  IInv'
<1>1. UNCHANGED <<nodes, class, slices>>
  BY DEF inventory
<1>2. /\ \A g : Slices(g)' = Slices(g)
      /\ \A g : Exact(g)' <=> Exact(g)
  BY SameLog, SameExact
<1>3. status'.generation \in 0..MaxGeneration /\ status'.generation <= Len(log)
  <2>1. Len(log) \in Nat /\ Len(log) <= MaxGeneration
    BY StatusTypes
  <2>2. MaxGeneration \in Nat
    BY Bounds
  <2> DEFINE x == status'.generation
  <2>3. x \in 0..Len(log)
    OBVIOUS
  <2> HIDE DEF x
  <2>4. x \in 0..MaxGeneration /\ x <= Len(log)
    BY <2>1, <2>2, <2>3, RangeGrows
  <2> QED
    BY <2>4 DEF x
<1>4. Typed'
  BY <1>1, <1>2, <1>3 DEF IInv, Typed
<1>5. AllocatedDevicesStay'
  BY <1>1, SameDevices DEF IInv
<1>6. ReadyOK'
  BY <1>2, <1>3 DEF ReadyOK
<1> QED
  BY <1>4, <1>5, <1>6 DEF IInv, PassOK, JobOK, DeletionsAreSafe

LEMMA CommitKeeps ==
    ASSUME IInv, Commit
    PROVE  IInv'
<1>1. /\ pc = "commit" /\ pc' = "idle" /\ UNCHANGED <<log, inventory, claims, record, faults>>
  BY DEF Commit, Reset
<1>2. /\ record.generation \in 0..Len(log) /\ record.deleting \in BOOLEAN
      /\ instance \in {"active", "deleting", "gone"}
      /\ status.phase \in {"", "Reconciling", "Ready", "Deleting"}
      /\ status.generation \in 0..Len(log) /\ status.blocked \in BOOLEAN
      /\ faults \in 0..MaxFaults
  BY StatusTypes
<1>3. CASE ~Current
  <2>1. UNCHANGED <<instance, status>>
    BY <1>3 DEF Commit
  <2>2. ReadyNow' => Exact(Len(log))
    BY <1>1, <2>1 DEF IInv, ReadyOK, ReadyNow
  <2> QED
    BY <1>1, <1>2, <2>1, <2>2, ResetKeeps
<1>4. CASE Current
  <2> DEFINE phase == IF record.deleting THEN "Deleting"
                      ELSE IF job.op = "ready" THEN "Ready" ELSE "Reconciling"
  <2>1. /\ status' = [phase |-> phase, generation |-> record.generation,
                      blocked |-> job.op = "blocked"]
        /\ instance' = IF record.deleting /\ job.op = "none" THEN "gone" ELSE instance
    BY <1>4 DEF Commit
  <2>2. phase \in {"Reconciling", "Ready", "Deleting"} /\ (phase = "Ready" => job.op = "ready")
    OBVIOUS
  <2> HIDE DEF phase
  <2>3. ReadyNow' => Exact(Len(log))
    BY <1>1, <1>4, <2>1, <2>2 DEF IInv, ReadyOK, ReadyNow, Current
  <2>4. /\ status'.phase \in {"", "Reconciling", "Ready", "Deleting"}
        /\ status'.generation \in 0..Len(log) /\ status'.blocked \in BOOLEAN
    BY <1>2, <2>1, <2>2
  <2>5. instance' \in {"active", "deleting", "gone"}
    BY <1>2, <2>1
  <2> QED
    BY <1>1, <1>2, <2>3, <2>4, <2>5, ResetKeeps
<1> QED
  BY <1>3, <1>4

LEMMA AbortKeeps ==
    ASSUME IInv, Abort
    PROVE  IInv'
<1>1. /\ pc' = "idle" /\ UNCHANGED <<log, instance, status, inventory, claims, record>>
      /\ faults' = faults - 1 /\ faults > 0
  BY DEF Abort, Reset, object
<1>2. /\ instance \in {"active", "deleting", "gone"}
      /\ status.phase \in {"", "Reconciling", "Ready", "Deleting"}
      /\ status.generation \in 0..Len(log) /\ status.blocked \in BOOLEAN
      /\ faults \in 0..MaxFaults
  BY StatusTypes
<1>3. ReadyNow' => Exact(Len(log))
  BY <1>1 DEF IInv, ReadyOK, ReadyNow
<1>4. faults' \in 0..MaxFaults
  <2>1. faults \in 0..MaxFaults /\ faults' = faults - 1 /\ faults > 0
    BY <1>1, <1>2
  <2>2. MaxFaults \in Nat
    BY Bounds
  <2> QED
    BY <2>1, <2>2
<1> QED
  BY <1>1, <1>2, <1>3, <1>4, ResetKeeps

-----------------------------------------------------------------------------
(***************************************************************************)
(* Commands.                                                               *)
(***************************************************************************)

\* The projection of the generations so far does not depend on later ones.
LEMMA LogGrows ==
    ASSUME log \in Seq(Scenarios), NEW new \in Scenarios, log' = Append(log, new)
    PROVE  /\ log' \in Seq(Scenarios) /\ Len(log') = Len(log) + 1
           /\ \A g \in 1..Len(log) : Wanted(g)' = Wanted(g) /\ Slices(g)' = Slices(g)
           /\ \A s : s[2] \in 1..Len(log) => Devices(s)' = Devices(s)
<1>1. /\ log' \in Seq(Scenarios) /\ Len(log') = Len(log) + 1
      /\ \A g \in 1..Len(log) : log'[g] = log[g]
  OBVIOUS
<1>2. ASSUME NEW g \in 1..Len(log)
      PROVE  Wanted(g)' = Wanted(g) /\ Slices(g)' = Slices(g)
  <2>1. log'[g] = log[g]
    BY <1>1
  <2> QED
    BY <2>1 DEF Wanted, Slices, Shards, Pool
<1>3. ASSUME NEW s, s[2] \in 1..Len(log)
      PROVE  Devices(s)' = Devices(s)
  <2>1. log'[s[2]] = log[s[2]]
    BY <1>1, <1>3
  <2> QED
    BY <2>1 DEF Devices, Pool
<1> QED
  BY <1>1, <1>2, <1>3

LEMMA ReviseKeeps ==
    ASSUME IInv, Revise
    PROVE  IInv'
<1>1. PICK new \in Scenarios : log' = Append(log, new)
  BY DEF Revise
<1>2. /\ Len(log) < MaxGeneration /\ log \in Seq(Scenarios)
      /\ UNCHANGED <<instance, status, nodes, class, slices, claims, pc, record, seen, job,
                     faults>>
  BY DEF Revise, inventory, pass, IInv, Typed
<1>3. /\ log' \in Seq(Scenarios) /\ Len(log') = Len(log) + 1 /\ Len(log) \in Nat
      /\ \A g \in 1..Len(log) : Wanted(g)' = Wanted(g) /\ Slices(g)' = Slices(g)
      /\ \A s : s[2] \in 1..Len(log) => Devices(s)' = Devices(s)
  BY <1>1, <1>2, LogGrows
<1>4. \A s \in slices : s[2] \in 1..Len(log) /\ s \in Slices(s[2])
  BY DEF IInv, Typed
<1>5. Typed'
  <2>1. \A s \in slices : s[2] \in 1..Len(log') /\ s \in Slices(s[2])'
    BY <1>3, <1>4
  <2>2. Len(log') \in Generations
    BY <1>2, <1>3, DRAAssumption DEF Generations
  <2>3. record.generation \in 0..Len(log')
    <3>1. record.generation \in 0..Len(log)
      BY DEF IInv, Typed
    <3> QED
      BY <1>3, <3>1
  <2> QED
    BY <1>2, <1>3, <2>1, <2>2, <2>3 DEF IInv, Typed
<1>6. pc # "idle" => record.generation \in 1..Len(log) /\ record.generation \in 1..Len(log')
  BY <1>3 DEF IInv, PassOK
<1>7. PassOK'
  <2>1. Inventory' = Inventory
    BY <1>2 DEF Inventory
  <2> QED
    BY <1>2, <1>6, <2>1 DEF IInv, PassOK
<1>8. JobOK'
  BY <1>2, <1>3, <1>6 DEF IInv, JobOK
<1>9. \A S : S \subseteq slices => DevicesOf(S)' = DevicesOf(S)
  BY <1>3, <1>4 DEF DevicesOf
<1>10. Held(claims)' = Held(claims)
  BY <1>2 DEF Held
<1>11. AllocatedDevicesStay'
  <2>1. DevicesOf(slices)' = DevicesOf(slices)
    BY <1>2, <1>3, <1>4 DEF DevicesOf
  <2> QED
    BY <1>2, <1>10, <2>1 DEF IInv, AllocatedDevicesStay
<1>12. DeletionsAreSafe'
  <2>1. DevicesOf(slices \ job.on)' = DevicesOf(slices \ job.on)
    BY <1>2, <1>3, <1>4 DEF DevicesOf
  <2> QED
    BY <1>2, <1>3, <1>6, <1>10, <2>1 DEF IInv, DeletionsAreSafe
<1>13. ReadyOK'
  <2>1. status.generation \in 0..MaxGeneration /\ status.generation <= Len(log)
    BY DEF IInv, Typed, ReadyOK
  <2>2. ~ReadyNow'
    BY <1>2, <1>3, <2>1 DEF ReadyNow
  <2>3. \A g \in 1..Len(log) : Exact(g)' <=> Exact(g)
    BY <1>2, <1>3 DEF Exact
  <2>4. MaxGeneration \in Nat
    BY DRAAssumption
  <2> QED
    BY <1>2, <1>3, <1>6, <2>1, <2>2, <2>3, <2>4 DEF IInv, ReadyOK
<1> QED
  BY <1>5, <1>7, <1>8, <1>11, <1>12, <1>13 DEF IInv

LEMMA DeleteKeeps ==
    ASSUME IInv, Delete
    PROVE  IInv'
<1>1. /\ instance' = "deleting"
      /\ UNCHANGED <<log, status, nodes, class, slices, claims, pc, record, seen, job, faults>>
      /\ UNCHANGED inventory
  BY DEF Delete, inventory, pass
<1>2. /\ \A g : Wanted(g)' = Wanted(g) /\ Slices(g)' = Slices(g)
      /\ \A g : Exact(g)' <=> Exact(g)
      /\ \A s : Devices(s)' = Devices(s)
  BY <1>1, SameLog, SameExact
<1>3. Typed' /\ PassOK'
  BY <1>1, <1>2 DEF IInv, Typed, PassOK, Inventory
<1>8. JobOK' /\ ReadyOK'
  BY <1>1, <1>2 DEF IInv, JobOK, ReadyOK, ReadyNow
<1>4. AllocatedDevicesStay'
  BY <1>1, SameDevices DEF IInv
<1>5. DeletionsAreSafe'
  BY <1>1, <1>2 DEF IInv, DeletionsAreSafe, DevicesOf, Held
<1> QED
  BY <1>3, <1>4, <1>5, <1>8 DEF IInv

-----------------------------------------------------------------------------
(***************************************************************************)
(* The claims.                                                             *)
(***************************************************************************)

\* A change of the claims after which each claim holds what one held before, or a
\* device that is not about to go, on an open Node.
LEMMA ClaimsKeep ==
    ASSUME IInv, UNCHANGED <<object, inventory, pass, faults>>,
           claims' \in [Claims -> {Absent, Pending} \union (Names \X Nat)],
           \A d \in Held(claims)' :
             \/ d \in Held(claims)
             \/ /\ d \in DevicesOf(slices) /\ d[1] \in Names /\ nodes[d[1]] = "open"
                /\ pc = "apply" /\ job.op = "delete-slice" => d \in DevicesOf(slices \ job.on)
    PROVE  IInv'
<1>1. /\ UNCHANGED <<log, instance, status, nodes, class, slices, pc, record, seen, job,
                     faults>>
      /\ UNCHANGED inventory
  BY DEF object, inventory, pass
<1>2. /\ \A g : Wanted(g)' = Wanted(g) /\ Slices(g)' = Slices(g)
      /\ \A g : Exact(g)' <=> Exact(g)
      /\ \A s : Devices(s)' = Devices(s)
  BY <1>1, SameLog, SameExact
<1>3. Typed' /\ PassOK'
  BY <1>1, <1>2 DEF IInv, Typed, PassOK, Inventory
<1>8. JobOK' /\ ReadyOK'
  BY <1>1, <1>2 DEF IInv, JobOK, ReadyOK, ReadyNow
<1>4. DevicesOf(slices)' = DevicesOf(slices)
  BY <1>1, <1>2 DEF DevicesOf
<1>5. AllocatedDevicesStay'
  BY <1>1, <1>4 DEF IInv, AllocatedDevicesStay
<1>6. DevicesOf(slices \ job.on)' = DevicesOf(slices \ job.on)
  BY <1>1, <1>2 DEF DevicesOf
<1>7. DeletionsAreSafe'
  <2>1. ASSUME pc = "apply", job.op = "delete-slice"
        PROVE  /\ Held(claims)' \subseteq DevicesOf(slices \ job.on)
               /\ \A n \in Names : nodes[n] = "open" =>
                    n \in Wanted(record.generation)
                    /\ Slices(record.generation) \subseteq slices \ job.on
    BY <2>1 DEF IInv, DeletionsAreSafe
  <2>2. ASSUME pc = "apply", job.op = "delete-node", NEW n \in job.on
        PROVE  nodes[n] # "open" /\ \A d \in Held(claims)' : d[1] # n
    BY <2>2 DEF IInv, DeletionsAreSafe
  <2> QED
    BY <1>1, <1>2, <1>6, <2>1, <2>2 DEF DeletionsAreSafe
<1> QED
  BY <1>3, <1>5, <1>7, <1>8 DEF IInv

\* The scheduler uses the newest generation of a pool: while slices are being deleted
\* that is the generation that is being published.
LEMMA OfferIsSafe ==
    ASSUME IInv, NEW n \in Names, nodes[n] = "open", NEW d \in Offered(n)
    PROVE  /\ d \in DevicesOf(slices) /\ d[1] = n /\ d \in Names \X Nat
           /\ pc = "apply" /\ job.op = "delete-slice" => d \in DevicesOf(slices \ job.on)
<1> DEFINE mine == {s \in slices : s[1] = n}
           G == {s[2] : s \in mine}
           g == CHOOSE x \in G : \A s \in mine : s[2] <= x
           newest == {s \in mine : s[2] = g}
<1>1. mine # {} /\ d \in DevicesOf(newest)
  BY DEF Offered
<1>2. PICK s \in newest : d \in Devices(s)
  BY <1>1, DevicesOfIs
<1>3. s \in slices /\ s[1] = n /\ s[2] = g
  OBVIOUS
<1>4. s[2] \in 1..Len(log) /\ s \in Slices(s[2]) /\ log \in Seq(Scenarios)
  BY <1>3 DEF IInv, Typed
<1>5. d[1] = n /\ d \in Names \X Nat
  BY <1>2, <1>3, <1>4, DeviceParts
<1>6. d \in DevicesOf(slices)
  BY <1>2, <1>3, DevicesOfIs
<1>7. ASSUME pc = "apply", job.op = "delete-slice"
      PROVE  d \in DevicesOf(slices \ job.on)
  <2> DEFINE h == record.generation
             t == <<n, h, 1>>
  <2>1. /\ n \in Wanted(h) /\ Slices(h) \subseteq slices \ job.on
        /\ h \in 1..Len(log) /\ \A r \in slices : r[2] \in 1..Len(log) /\ r[2] <= h
    BY <1>7 DEF IInv, DeletionsAreSafe, PassOK, Typed
  <2>2. t \in Slices(h)
    BY <1>4, <2>1, ShardsArePositive DEF Slices
  <2>3. t \in mine /\ t[2] = h
    BY <2>1, <2>2
  <2>4. h \in G /\ \A r \in mine : r[2] <= h
    BY <2>1, <2>3
  <2>5. g \in G /\ \A r \in mine : r[2] <= g
    <3> HIDE DEF mine, G
    <3> QED
      BY <2>4
  <2>6. h <= g
    <3> HIDE DEF g
    <3> QED
      BY <2>3, <2>5
  <2>7. s[2] = h
    <3>1. s[2] <= h
      BY <1>3, <2>1
    <3> HIDE DEF g, h
    <3> QED
      BY <1>3, <1>4, <2>1, <2>6, <3>1
  <2>8. s \in slices \ job.on
    BY <1>4, <2>1, <2>7
  <2> QED
    BY <1>2, <2>8, DevicesOfIs
<1> QED
  BY <1>5, <1>6, <1>7

\* Every claim but c holds what it held.
LEMMA HeldAfter ==
    ASSUME IInv, NEW c \in Claims, NEW v, claims' = [claims EXCEPT ![c] = v],
           NEW d \in Held(claims)'
    PROVE  d \in Held(claims) \/ (d = v /\ v \notin {Absent, Pending})
<1>1. claims \in [Claims -> {Absent, Pending} \union (Names \X Nat)]
  BY DEF IInv, Typed
<1>2. PICK e \in Claims : claims'[e] = d /\ claims'[e] \notin {Absent, Pending}
  BY DEF Held
<1>3. CASE e = c
  BY <1>1, <1>2, <1>3
<1>4. CASE e # c
  <2>1. claims[e] = d /\ claims[e] \notin {Absent, Pending}
    BY <1>1, <1>2, <1>4
  <2> QED
    BY <2>1 DEF Held
<1> QED
  BY <1>3, <1>4

LEMMA AllocateKeeps ==
    ASSUME IInv, NEW c \in Claims, Allocate(c)
    PROVE  IInv'
<1>1. PICK n \in Names : nodes[n] = "open" /\ \E d \in Offered(n) \ Held(claims) :
                                                claims' = [claims EXCEPT ![c] = d]
  BY DEF Allocate
<1>2. PICK d \in Offered(n) : claims' = [claims EXCEPT ![c] = d]
  BY <1>1
<1>3. /\ d \in DevicesOf(slices) /\ d[1] = n /\ d \in Names \X Nat
      /\ pc = "apply" /\ job.op = "delete-slice" => d \in DevicesOf(slices \ job.on)
  BY <1>1, OfferIsSafe
<1>4. claims' \in [Claims -> {Absent, Pending} \union (Names \X Nat)]
  BY <1>2, <1>3 DEF IInv, Typed
<1>5. \A e \in Held(claims)' : e \in Held(claims) \/ e = d
  BY <1>2, HeldAfter
<1>6. UNCHANGED <<object, inventory, pass, faults>>
  BY DEF Allocate
<1> QED
  BY <1>1, <1>3, <1>4, <1>5, <1>6, ClaimsKeep

LEMMA ClaimKeeps ==
    ASSUME IInv, NEW c \in Claims, Claim(c) \/ Release(c)
    PROVE  IInv'
<1>1. PICK v \in {Absent, Pending} : claims' = [claims EXCEPT ![c] = v]
  BY DEF Claim, Release
<1>2. UNCHANGED <<object, inventory, pass, faults>>
  BY DEF Claim, Release
<1>3. claims' \in [Claims -> {Absent, Pending} \union (Names \X Nat)]
  BY <1>1 DEF IInv, Typed
<1>4. \A e \in Held(claims)' : e \in Held(claims)
  BY <1>1, HeldAfter
<1> QED
  BY <1>2, <1>3, <1>4, ClaimsKeep

-----------------------------------------------------------------------------
(***************************************************************************)
(* The theorems.                                                           *)
(***************************************************************************)

LEMMA NextKeeps == IInv /\ [Next]_vars => IInv'
<1> SUFFICES ASSUME IInv, [Next]_vars
             PROVE  IInv'
  OBVIOUS
<1>1. CASE UNCHANGED vars
  <2>1. UNCHANGED <<object, inventory, pass, faults, claims>>
    BY <1>1 DEF vars
  <2>2. Held(claims)' = Held(claims)
    BY <2>1 DEF Held
  <2>3. claims' \in [Claims -> {Absent, Pending} \union (Names \X Nat)]
    BY <2>1 DEF IInv, Typed
  <2> QED
    BY <2>1, <2>2, <2>3, ClaimsKeep
<1>2. CASE Controller
  BY <1>2, ObserveKeeps, ChooseKeeps, RequestKeeps, EndStageKeeps, CommitKeeps
     DEF Controller
<1>3. CASE Abort \/ Revise \/ Delete
  BY <1>3, AbortKeeps, ReviseKeeps, DeleteKeeps
<1>4. CASE \E c \in Claims : Allocate(c) \/ Claim(c) \/ Release(c)
  BY <1>4, AllocateKeeps, ClaimKeeps
<1> QED
  BY <1>1, <1>2, <1>3, <1>4 DEF Next

\* The inductive invariant holds in every state of every run.
LEMMA InvariantHolds == Spec => []IInv
<1>1. IInv /\ [Next]_vars => IInv'
  BY NextKeeps
<1> QED
  BY InitHolds, <1>1, PTL DEF Spec

\* The types of module DRAReconciler, and with them what Render promises of the
\* slices: none is larger than the API allows, and those of one generation share no
\* device.
THEOREM TypeCorrect == Spec => []TypeOK
<1>1. IInv => TypeOK
  BY TypesFollow DEF IInv
<1> QED
  BY <1>1, InvariantHolds, PTL

\* ADR 0003: whatever a revision or a deletion removes, and whenever the scheduler
\* allocates, a claim keeps its device and the Node of it (draClaimBlockers, the
\* order of the stages, and the deletion of slices in ApplyDRA).
THEOREM DevicesStay == Spec => []AllocatedDevicesStay
<1>1. IInv => AllocatedDevicesStay
  BY DEF IInv
<1> QED
  BY <1>1, InvariantHolds, PTL

\* Ready for the desired generation is said of exactly its class, slices and Nodes,
\* all of them open, and of nothing that an older generation left.
THEOREM ReadyIsExact == Spec => []ReadyInventoryIsExact
<1>1. IInv => ReadyInventoryIsExact
  BY DEF IInv, ReadyOK, ReadyNow, Exact, ReadyInventoryIsExact
<1> QED
  BY <1>1, InvariantHolds, PTL
=============================================================================
