-------------------- MODULE InstanceReconciler_proofs --------------------
(***************************************************************************)
(* Theorems about InstanceReconciler, for every number of names,           *)
(* controllers, Pods, accepted revisions and faults.                       *)
(***************************************************************************)
EXTENDS InstanceReconciler, TLAPS

-----------------------------------------------------------------------------
(***************************************************************************)
(* The operators that choose a stage and its waves.                        *)
(***************************************************************************)

\* Why a pass may change the object of name n: W are the names its generation
\* wants, o what it observed.
WantedOnly == {"repair", "create-lease", "create-node", "metadata", "lease-metadata",
               "close", "status", "open"}
Justified(op, n, W, o, forDeletion) ==
    /\ op \in WantedOnly => n \in W
    /\ op = "close-seen" => o.nodes[n] # Absent
    /\ op = "delete-node" => forDeletion \/ n \notin W

\* A stage that is due is one of the stages of the pass.
LEMMA FirstStageIsOne ==
    ASSUME NEW stages, NEW m \in Nat, DOMAIN stages = 1..m
    PROVE  \/ FirstStage(stages) = Stage("none", {})
           \/ \E i \in 1..m : FirstStage(stages) = stages[i]
BY DEF FirstStage, FirstDue

\* A wave takes its names from the changes that are left.
LEMMA WaveIsPart == ASSUME NEW S PROVE Wave(S) \subseteq S
<1>1. CASE FullWaves(S) = {}
  BY <1>1 DEF Wave
<1>2. CASE FullWaves(S) # {}
  BY <1>2 DEF Wave, FullWaves
<1>3. QED
  BY <1>1, <1>2

LEMMA NextWaveTyped ==
    ASSUME NEW op \in Operations, NEW S \in SUBSET Names
    PROVE  /\ NextWave(op, S) \in [op : Operations, todo : SUBSET Names,
                                   wave : SUBSET Names, errors : SUBSET Errors]
           /\ NextWave(op, S).op = op
           /\ NextWave(op, S).wave \union NextWave(op, S).todo \subseteq S
BY WaveIsPart DEF NextWave, Errors

\* The stages of a pass name only objects of the Scenario or observed ones,
\* and a pass that is not a deletion deletes Nodes its generation does not want.
LEMMA ConvergenceStageTyped ==
    ASSUME NEW g, NEW o, Wanted(g) \subseteq Names
    PROVE  LET stage == FirstStage(ConvergenceStages(g, o))
           IN  /\ stage.op \in Operations /\ stage.on \in SUBSET Names
               /\ \A n \in stage.on : Justified(stage.op, n, Wanted(g), o, FALSE)
<1> DEFINE stages == ConvergenceStages(g, o)
<1>1. DOMAIN stages = 1..13
  BY DEF ConvergenceStages
<1>2. \A i \in 1..13 : /\ stages[i].op \in Operations
                       /\ stages[i].on \subseteq Names
                       /\ \A n \in stages[i].on :
                             Justified(stages[i].op, n, Wanted(g), o, FALSE)
  <2>1. /\ Repairs(g, o) \subseteq Wanted(g) /\ LeasesMissing(g, o) \subseteq Wanted(g)
        /\ NodesMissing(g, o) \subseteq Wanted(g)
        /\ MetadataChanges(g, o) \subseteq Wanted(g)
        /\ LeaseMetadataChanges(g, o) \subseteq Wanted(g)
        /\ ReplacementCloses(g, o) \subseteq Wanted(g)
        /\ StatusChanges(g, o) \subseteq Wanted(g)
        /\ MustClose(g, o) \subseteq Wanted(g) /\ OpenNodes(g, o) \subseteq Wanted(g)
    BY DEF Repairs, LeasesMissing, NodesMissing, MetadataChanges,
           LeaseMetadataChanges, ReplacementCloses, StatusChanges, MustClose, OpenNodes
  <2>2. /\ StaleNodes(g, o) \subseteq Names \ Wanted(g)
        /\ StaleLeases(g, o) \subseteq Names
        /\ OpenAmong(StaleNodes(g, o), o) \subseteq Names
        /\ \A n \in OpenAmong(StaleNodes(g, o), o) : o.nodes[n] # Absent
    BY DEF StaleNodes, StaleLeases, OpenAmong
  <2>3. QED
    BY <2>1, <2>2 DEF ConvergenceStages, Stage, Operations, Justified, WantedOnly
<1>3. Stage("none", {}).op \in Operations /\ Stage("none", {}).on = {}
  BY DEF Stage, Operations
<1>4. \/ FirstStage(stages) = Stage("none", {})
      \/ \E i \in 1..13 : FirstStage(stages) = stages[i]
  BY <1>1, FirstStageIsOne
<1> HIDE DEF stages
<1>5. QED
  BY <1>2, <1>3, <1>4 DEF stages

LEMMA DeletionStageTyped ==
    ASSUME NEW o
    PROVE  LET stage == FirstStage(DeletionStages(o))
           IN  /\ stage.op \in Operations /\ stage.on \in SUBSET Names
               /\ \A n \in stage.on : \A W : Justified(stage.op, n, W, o, TRUE)
<1> DEFINE stages == DeletionStages(o)
<1>1. DOMAIN stages = 1..4
  BY DEF DeletionStages
<1>2. \A i \in 1..4 : /\ stages[i].op \in Operations
                      /\ stages[i].on \subseteq Names
                      /\ \A n \in stages[i].on : \A W :
                            Justified(stages[i].op, n, W, o, TRUE)
  <2>1. /\ OwnedNodes(o) \subseteq Names /\ OwnedLeases(o) \subseteq Names
        /\ OpenAmong(OwnedNodes(o), o) \subseteq Names
        /\ \A n \in OpenAmong(OwnedNodes(o), o) : o.nodes[n] # Absent
    BY DEF OwnedNodes, OwnedLeases, OpenAmong
  <2>2. QED
    BY <2>1 DEF DeletionStages, Stage, Operations, Justified, WantedOnly
<1>3. Stage("none", {}).op \in Operations /\ Stage("none", {}).on = {}
  BY DEF Stage, Operations
<1>4. \/ FirstStage(stages) = Stage("none", {})
      \/ \E i \in 1..4 : FirstStage(stages) = stages[i]
  BY <1>1, FirstStageIsOne
<1> HIDE DEF stages
<1>5. QED
  BY <1>2, <1>3, <1>4 DEF stages

-----------------------------------------------------------------------------
(***************************************************************************)
(* The inductive invariant.  A pass works for a generation the instance    *)
(* has accepted, and every change it has left is justified by what that    *)
(* generation wants.                                                       *)
(***************************************************************************)

PassOK(c) ==
    /\ cache[c].gen <= Len(log) /\ (cache[c].exists => cache[c].gen >= 1)
    /\ record[c].gen <= Len(log)
    /\ pc[c] \in {"leases", "pods", "apply"} => record[c].gen >= 1
    /\ cache[c].deleting => deleting
    /\ record[c].deleting => deleting
    /\ pc[c] # "apply" => job[c] = NoJob
    /\ \A n \in job[c].wave \union job[c].todo :
         Justified(job[c].op, n, Wanted(record[c].gen), seen[c], record[c].deleting)

IInv == /\ TypeOK
        /\ \A c \in Controllers : PassOK(c)
        /\ GenerationsBounded

\* A generation that was accepted keeps its Scenario; its names are Names.
LEMMA WantedTyped ==
    ASSUME TypeOK, NEW g \in 1..Len(log)
    PROVE  /\ Wanted(g) \subseteq Names
           /\ \A n \in Wanted(g) : log[g][n] \in NodeSpec
<1>1. log[g] \in Scenarios
  BY DEF TypeOK
<1>2. QED
  BY <1>1, ScenariosAssumption DEF Wanted

LEMMA InitIInv == Init => IInv
<1> SUFFICES ASSUME Init PROVE IInv
  OBVIOUS
<1>1. TypeOK
  <2>1. log \in Seq(Scenarios) /\ Len(log) \in Generations
    <3>1. PICK s \in Scenarios : log = <<s>>
      BY DEF Init
    <3>2. log \in Seq(Scenarios) /\ Len(log) = 1
      BY <3>1
    <3>3. QED
      BY <3>2, BoundsAssumption DEF Generations
  <2>2. job \in [Controllers -> [op : Operations, todo : SUBSET Names,
                                 wave : SUBSET Names, errors : SUBSET Errors]]
    BY DEF Init, NoJob, Operations, Errors
  <2>3. seen \in [Controllers -> [nodes : [Names -> NodeObject \union {Absent}],
                                  leases : [Names -> LeaseObject \union {Absent}]]]
    BY DEF Init, NothingSeen
  <2>4. /\ cache \in [Controllers -> Record] /\ record \in [Controllers -> Record]
        /\ intent \in [Controllers -> Intent] /\ status \in Status
        /\ pc \in [Controllers -> Steps] /\ queued \in [Controllers -> BOOLEAN]
    BY DEF Init, NoRecord, Record, NoIntent, Intent, Status, Phases, Steps
  <2>5. faults \in 0..MaxFaults
    <3>1. faults = MaxFaults
      BY DEF Init
    <3>2. QED
      BY <3>1, BoundsAssumption
  <2>6. /\ nodes \in [Names -> NodeObject \union {Absent, Foreign}]
        /\ leases \in [Names -> LeaseObject \union {Absent, Foreign}]
        /\ births \in [Names -> Nat]
        /\ pods \in [Pods -> [at : {"pending", "chosen", "bound", "done"},
                              node : Names \union {Absent}]]
        /\ deleting \in BOOLEAN /\ exists \in BOOLEAN
    BY DEF Init
  <2>7. QED
    BY <2>1, <2>2, <2>3, <2>4, <2>5, <2>6 DEF TypeOK
<1>2. ASSUME NEW c \in Controllers PROVE PassOK(c)
  <2>1. /\ cache[c] = NoRecord /\ record[c] = NoRecord
        /\ pc[c] = "idle" /\ job[c] = NoJob
    BY DEF Init
  <2>2. job[c].wave \union job[c].todo = {}
    BY <2>1 DEF NoJob
  <2>3. /\ cache[c].gen = 0 /\ record[c].gen = 0
        /\ cache[c].exists = FALSE /\ cache[c].deleting = FALSE
        /\ record[c].deleting = FALSE
    BY <2>1 DEF NoRecord
  <2>4. QED
    BY <1>1, <2>1, <2>2, <2>3 DEF PassOK, TypeOK, Generations
<1>3. GenerationsBounded
  BY DEF Init, GenerationsBounded, IsOwned
<1>4. QED
  BY <1>1, <1>2, <1>3 DEF IInv

-----------------------------------------------------------------------------
(***************************************************************************)
(* Every step preserves the invariant.                                     *)
(***************************************************************************)

\* A controller that a step leaves alone keeps its part of the invariant.
LEMMA PassOKFrame ==
    ASSUME NEW d, PassOK(d), log' = log, deleting' = deleting,
           cache'[d] = cache[d], record'[d] = record[d], pc'[d] = pc[d],
           job'[d] = job[d], seen'[d] = seen[d]
    PROVE  PassOK(d)'
BY DEF PassOK, Wanted, Justified

\* What a pass may observe.
SeenType == [nodes : [Names -> NodeObject \union {Absent}],
             leases : [Names -> LeaseObject \union {Absent}]]
JobType == [op : Operations, todo : SUBSET Names, wave : SUBSET Names,
            errors : SUBSET Errors]

LEMMA OwnedOnlyTyped ==
    /\ TypeOK => OwnedOnly(nodes) \in [Names -> NodeObject \union {Absent}]
    /\ TypeOK => OwnedOnly(leases) \in [Names -> LeaseObject \union {Absent}]
BY DEF TypeOK, OwnedOnly

LEMMA CacheDeliverKeeps ==
    ASSUME IInv, NEW c \in Controllers, CacheDeliver(c) PROVE IInv'
<1>1. TypeOK'
  BY DEF IInv, TypeOK, CacheDeliver, instanceVars, clusterVars, passVars, Record,
         Generations, Status
<1>2. ASSUME NEW d \in Controllers PROVE PassOK(d)'
  <2>1. CASE d # c
    BY <2>1, PassOKFrame DEF IInv, TypeOK, CacheDeliver, instanceVars, passVars
  <2>2. CASE d = c
    BY <2>2 DEF IInv, TypeOK, CacheDeliver, instanceVars, passVars, PassOK, Wanted,
                Justified, Generations
  <2>3. QED
    BY <2>1, <2>2
<1>3. GenerationsBounded'
  BY DEF IInv, CacheDeliver, GenerationsBounded, instanceVars, clusterVars
<1>4. QED
  BY <1>1, <1>2, <1>3 DEF IInv

LEMMA StartPassKeeps ==
    ASSUME IInv, NEW c \in Controllers, StartPass(c) PROVE IInv'
<1>1. TypeOK'
  <2>1. seen' \in [Controllers -> SeenType]
    <3>1. seen \in [Controllers -> SeenType]
      BY DEF IInv, TypeOK, SeenType
    <3>2. OwnedOnly(nodes) \in [Names -> NodeObject \union {Absent}]
      BY OwnedOnlyTyped DEF IInv
    <3>3. [seen[c] EXCEPT !.nodes = OwnedOnly(nodes)] \in SeenType
      BY <3>1, <3>2 DEF SeenType
    <3>4. seen' = [seen EXCEPT ![c] = [seen[c] EXCEPT !.nodes = OwnedOnly(nodes)]]
      BY DEF StartPass
    <3>5. QED
      BY <3>1, <3>3, <3>4
  <2>2. QED
    BY <2>1 DEF IInv, TypeOK, StartPass, instanceVars, clusterVars, Steps, SeenType
<1>2. ASSUME NEW d \in Controllers PROVE PassOK(d)'
  <2>1. CASE d # c
    BY <2>1, PassOKFrame DEF IInv, TypeOK, StartPass, instanceVars
  <2>2. CASE d = c
    <3>1. /\ job'[c] = NoJob /\ record'[c] = cache[c] /\ cache' = cache
          /\ log' = log /\ deleting' = deleting /\ cache[c].exists
      BY DEF IInv, TypeOK, StartPass, PassOK, instanceVars
    <3>2. job'[c].wave \union job'[c].todo = {}
      BY <3>1 DEF NoJob
    <3>3. PassOK(c)
      BY DEF IInv
    <3>4. QED
      BY <2>2, <3>1, <3>2, <3>3 DEF PassOK
  <2>3. QED
    BY <2>1, <2>2
<1>3. GenerationsBounded'
  BY DEF IInv, StartPass, GenerationsBounded, instanceVars, clusterVars
<1>4. QED
  BY <1>1, <1>2, <1>3 DEF IInv

LEMMA SkipPassKeeps ==
    ASSUME IInv, NEW c \in Controllers, SkipPass(c) PROVE IInv'
<1>1. TypeOK'
  BY DEF IInv, TypeOK, SkipPass, instanceVars, clusterVars, passVars
<1>2. ASSUME NEW d \in Controllers PROVE PassOK(d)'
  BY PassOKFrame DEF IInv, SkipPass, instanceVars, passVars
<1>3. GenerationsBounded'
  BY DEF IInv, SkipPass, GenerationsBounded, instanceVars, clusterVars
<1>4. QED
  BY <1>1, <1>2, <1>3 DEF IInv

LEMMA ObserveLeasesKeeps ==
    ASSUME IInv, NEW c \in Controllers, ObserveLeases(c) PROVE IInv'
<1>1. TypeOK'
  <2>1. seen' \in [Controllers -> SeenType]
    <3>1. seen \in [Controllers -> SeenType]
      BY DEF IInv, TypeOK, SeenType
    <3>2. OwnedOnly(leases) \in [Names -> LeaseObject \union {Absent}]
      BY OwnedOnlyTyped DEF IInv
    <3>3. [seen[c] EXCEPT !.leases = OwnedOnly(leases)] \in SeenType
      BY <3>1, <3>2 DEF SeenType
    <3>4. seen' = [seen EXCEPT ![c] = [seen[c] EXCEPT !.leases = OwnedOnly(leases)]]
      BY DEF ObserveLeases
    <3>5. QED
      BY <3>1, <3>3, <3>4
  <2>2. QED
    BY <2>1 DEF IInv, TypeOK, ObserveLeases, instanceVars, clusterVars, Steps, SeenType
<1>2. ASSUME NEW d \in Controllers PROVE PassOK(d)'
  <2>1. CASE d # c
    BY <2>1, PassOKFrame DEF IInv, TypeOK, ObserveLeases, instanceVars
  <2>2. CASE d = c
    <3>1. /\ job'[c] = NoJob /\ UNCHANGED <<log, deleting, cache, record>>
          /\ pc[c] = "leases"
      BY DEF IInv, TypeOK, ObserveLeases, PassOK, instanceVars
    <3>2. job'[c].wave \union job'[c].todo = {}
      BY <3>1 DEF NoJob
    <3>3. QED
      BY <2>2, <3>1, <3>2 DEF PassOK, IInv
  <2>3. QED
    BY <2>1, <2>2
<1>3. GenerationsBounded'
  BY DEF IInv, ObserveLeases, GenerationsBounded, instanceVars, clusterVars
<1>4. QED
  BY <1>1, <1>2, <1>3 DEF IInv

\* The commits a pass may end with.
LEMMA IntentsTyped ==
    ASSUME NEW r \in Record, NEW o
    PROVE  /\ \A blocked \in BOOLEAN : Progress(r, blocked) \in Intent
           /\ \A requeue \in BOOLEAN : Failure(r, requeue) \in Intent
           /\ Outcome(r, o) \in Intent
           /\ NoIntent \in Intent
<1>1. /\ \A blocked \in BOOLEAN : Progress(r, blocked) \in Intent
      /\ \A requeue \in BOOLEAN : Failure(r, requeue) \in Intent
  BY DEF Progress, Failure, Commit, BusyPhase, Record, Intent, Status, Phases
<1>2. Outcome(r, o) \in Intent
  BY <1>1 DEF Outcome, Commit, Record, Intent, Status, Phases
<1>3. NoIntent \in Intent
  BY DEF NoIntent, Intent, Status, Phases
<1>4. QED
  BY <1>1, <1>2, <1>3

LEMMA NothingSeenTyped == NothingSeen \in SeenType
BY DEF NothingSeen, SeenType

LEMMA NoJobTyped == NoJob \in JobType /\ NoJob.wave \union NoJob.todo = {}
BY DEF NoJob, JobType, Operations, Errors

\* The stage a pass chooses is typed and justified.
LEMMA ChosenStage ==
    ASSUME IInv, NEW c \in Controllers, pc[c] = "pods"
    PROVE  LET r == record[c]
               o == seen[c]
               stage == FirstStage(IF r.deleting THEN DeletionStages(o)
                                   ELSE ConvergenceStages(r.gen, o))
           IN  /\ stage.op \in Operations /\ stage.on \in SUBSET Names
               /\ \A n \in stage.on :
                    Justified(stage.op, n, Wanted(r.gen), o, r.deleting)
<1>1. record[c].gen \in 1..Len(log) /\ record[c].deleting \in BOOLEAN
  BY DEF IInv, PassOK, TypeOK, Record, Generations
<1>2. Wanted(record[c].gen) \subseteq Names
  BY <1>1, WantedTyped DEF IInv
<1>3. CASE record[c].deleting
  <2>1. record[c].deleting = TRUE
    BY <1>1, <1>3
  <2>2. QED
    BY <2>1, DeletionStageTyped
<1>4. CASE ~record[c].deleting
  <2>1. record[c].deleting = FALSE
    BY <1>1, <1>4
  <2>2. QED
    BY <2>1, <1>2, ConvergenceStageTyped
<1>5. QED
  BY <1>3, <1>4

LEMMA ObservePodsKeeps ==
    ASSUME IInv, NEW c \in Controllers, ObservePods(c) PROVE IInv'
<1> DEFINE r == record[c]
           o == seen[c]
           stage == FirstStage(IF r.deleting THEN DeletionStages(o)
                               ELSE ConvergenceStages(r.gen, o))
           ends == stage.op \in {"none", "blocked"}
<1>1. /\ stage.op \in Operations /\ stage.on \in SUBSET Names
      /\ \A n \in stage.on : Justified(stage.op, n, Wanted(r.gen), o, r.deleting)
  BY ChosenStage DEF ObservePods
<1>2. /\ pc[c] = "pods"
      /\ UNCHANGED <<instanceVars, clusterVars, pods, cache, queued, record, faults>>
      /\ ends => /\ intent' = [intent EXCEPT ![c] =
                                IF stage.op = "blocked" THEN Progress(r, TRUE)
                                                        ELSE Outcome(r, o)]
                 /\ pc' = [pc EXCEPT ![c] = "commit"]
                 /\ seen' = [seen EXCEPT ![c] = NothingSeen]
                 /\ job' = job
      /\ ~ends => /\ job' = [job EXCEPT ![c] = NextWave(stage.op, stage.on)]
                  /\ pc' = [pc EXCEPT ![c] = "apply"]
                  /\ UNCHANGED <<intent, seen>>
  BY DEF ObservePods
<1> HIDE DEF stage
<1>3. TypeOK'
  <2>1. r \in Record
    BY DEF IInv, TypeOK
  <2>2. intent' \in [Controllers -> Intent]
    <3>1. intent \in [Controllers -> Intent]
      BY DEF IInv, TypeOK
    <3>2. Progress(r, TRUE) \in Intent /\ Outcome(r, o) \in Intent
      BY <2>1, IntentsTyped
    <3>3. QED
      BY <1>2, <3>1, <3>2
  <2>3. job' \in [Controllers -> JobType]
    <3>1. job \in [Controllers -> JobType]
      BY DEF IInv, TypeOK, JobType
    <3>2. NextWave(stage.op, stage.on) \in JobType
      BY <1>1, NextWaveTyped DEF JobType
    <3>3. QED
      BY <1>2, <3>1, <3>2
  <2>4. seen' \in [Controllers -> SeenType]
    BY <1>2, NothingSeenTyped DEF IInv, TypeOK, SeenType
  <2>5. pc' \in [Controllers -> Steps]
    BY <1>2 DEF IInv, TypeOK, Steps
  <2>6. QED
    BY <1>2, <2>2, <2>3, <2>4, <2>5
       DEF IInv, TypeOK, instanceVars, clusterVars, JobType, SeenType
<1>4. ASSUME NEW d \in Controllers PROVE PassOK(d)'
  <2>1. CASE d # c
    BY <1>2, <2>1, PassOKFrame DEF IInv, TypeOK, instanceVars
  <2>2. CASE d = c
    <3>1. PassOK(c) /\ UNCHANGED <<log, deleting, cache, record>>
      BY <1>2 DEF IInv, instanceVars
    <3>2. CASE ends
      <4>1. job'[c] = NoJob /\ pc'[c] = "commit"
        BY <1>2, <3>1, <3>2 DEF PassOK, IInv, TypeOK
      <4>2. QED
        BY <2>2, <3>1, <4>1, NoJobTyped DEF PassOK
    <3>3. CASE ~ends
      <4>1. /\ job'[c] = NextWave(stage.op, stage.on)
            /\ pc'[c] = "apply" /\ seen'[c] = o
        BY <1>2, <3>3 DEF IInv, TypeOK
      <4>2. job'[c].op = stage.op /\ job'[c].wave \union job'[c].todo \subseteq stage.on
        BY <1>1, <4>1, NextWaveTyped
      <4>3. QED
        BY <1>1, <1>2, <2>2, <3>1, <4>1, <4>2 DEF PassOK, Wanted
    <3>4. QED
      BY <3>2, <3>3
  <2>3. QED
    BY <2>1, <2>2
<1>5. GenerationsBounded'
  BY <1>2 DEF IInv, GenerationsBounded, instanceVars, clusterVars
<1>6. QED
  BY <1>3, <1>4, <1>5 DEF IInv

LEMMA LoseObservationKeeps ==
    ASSUME IInv, NEW c \in Controllers, LoseObservation(c) PROVE IInv'
<1>1. TypeOK'
  <2>1. intent' \in [Controllers -> Intent]
    <3>1. record[c] \in Record /\ intent \in [Controllers -> Intent]
      BY DEF IInv, TypeOK
    <3>2. Failure(record[c], TRUE) \in Intent
      BY <3>1, IntentsTyped
    <3>3. QED
      BY <3>1, <3>2 DEF LoseObservation
  <2>2. seen' \in [Controllers -> SeenType]
    BY NothingSeenTyped DEF IInv, TypeOK, LoseObservation, SeenType
  <2>3. faults' \in 0..MaxFaults
    BY BoundsAssumption DEF IInv, TypeOK, LoseObservation
  <2>4. QED
    BY <2>1, <2>2, <2>3
       DEF IInv, TypeOK, LoseObservation, instanceVars, clusterVars, Steps, SeenType
<1>2. ASSUME NEW d \in Controllers PROVE PassOK(d)'
  <2>1. CASE d # c
    BY <2>1, PassOKFrame DEF IInv, TypeOK, LoseObservation, instanceVars
  <2>2. CASE d = c
    <3>1. /\ PassOK(c) /\ job'[c] = NoJob /\ pc'[c] = "commit"
          /\ UNCHANGED <<log, deleting, cache, record>>
      BY DEF IInv, TypeOK, LoseObservation, PassOK, instanceVars
    <3>2. QED
      BY <2>2, <3>1, NoJobTyped DEF PassOK
  <2>3. QED
    BY <2>1, <2>2
<1>3. GenerationsBounded'
  BY DEF IInv, LoseObservation, GenerationsBounded, instanceVars, clusterVars
<1>4. QED
  BY <1>1, <1>2, <1>3 DEF IInv

LEMMA EndWaveKeeps ==
    ASSUME IInv, NEW c \in Controllers, EndWave(c) PROVE IInv'
<1> DEFINE more == NextWave(job[c].op, job[c].todo)
           r == record[c]
<1>1. /\ UNCHANGED <<instanceVars, clusterVars, pods, cache, faults>>
      /\ pc[c] = "apply"
      /\ record' = record \/ record' = [record EXCEPT ![c] = NoRecord]
      /\ queued' = queued \/ queued' = [queued EXCEPT ![c] = TRUE]
  BY DEF EndWave
<1>2. \/ /\ job' = [job EXCEPT ![c] = more]
         /\ UNCHANGED <<pc, seen, intent, record>>
      \/ /\ job' = [job EXCEPT ![c] = NoJob]
         /\ seen' = [seen EXCEPT ![c] = NothingSeen]
         /\ pc' = [pc EXCEPT ![c] = "commit"] \/ pc' = [pc EXCEPT ![c] = "idle"]
         /\ \/ intent' = intent
            \/ intent' = [intent EXCEPT ![c] = Progress(r, FALSE)]
            \/ \E e \in Errors : intent' = [intent EXCEPT ![c] = Failure(r, e = "retry")]
  <2>1. job[c].errors \subseteq Errors
    BY DEF IInv, TypeOK
  <2>2. QED
    BY <2>1 DEF EndWave
<1>3. /\ job[c].op \in Operations /\ job[c].todo \in SUBSET Names
      /\ r \in Record /\ NoRecord \in Record
  BY DEF IInv, TypeOK, NoRecord, Record
<1>4. more \in JobType /\ more.op = job[c].op
      /\ more.wave \union more.todo \subseteq job[c].todo
  BY <1>3, NextWaveTyped DEF JobType
<1> HIDE DEF more
<1>5. TypeOK'
  <2>1. job' \in [Controllers -> JobType]
    <3>1. job \in [Controllers -> JobType]
      BY DEF IInv, TypeOK, JobType
    <3>2. QED
      BY <1>2, <1>4, <3>1, NoJobTyped
  <2>2. intent' \in [Controllers -> Intent]
    <3>1. intent \in [Controllers -> Intent]
      BY DEF IInv, TypeOK
    <3>2. Progress(r, FALSE) \in Intent
          /\ \A e \in Errors : Failure(r, e = "retry") \in Intent
      BY <1>3, IntentsTyped
    <3>3. QED
      BY <1>2, <3>1, <3>2
  <2>3. seen' \in [Controllers -> SeenType]
    BY <1>2, NothingSeenTyped DEF IInv, TypeOK, SeenType
  <2>4. /\ pc' \in [Controllers -> Steps] /\ record' \in [Controllers -> Record]
        /\ queued' \in [Controllers -> BOOLEAN]
    <3>1. /\ pc \in [Controllers -> Steps] /\ record \in [Controllers -> Record]
          /\ queued \in [Controllers -> BOOLEAN]
      BY DEF IInv, TypeOK
    <3>2. pc' \in [Controllers -> Steps]
      BY <1>2, <3>1 DEF Steps
    <3>3. record' \in [Controllers -> Record]
      BY <1>1, <1>3, <3>1
    <3>4. queued' \in [Controllers -> BOOLEAN]
      BY <1>1, <3>1
    <3>5. QED
      BY <3>2, <3>3, <3>4
  <2>5. QED
    BY <1>1, <2>1, <2>2, <2>3, <2>4
       DEF IInv, TypeOK, instanceVars, clusterVars, JobType, SeenType
<1>6. ASSUME NEW d \in Controllers PROVE PassOK(d)'
  <2>1. CASE d # c
    BY <1>1, <1>2, <2>1, PassOKFrame DEF IInv, TypeOK, instanceVars
  <2>2. CASE d = c
    <3>1. PassOK(c) /\ UNCHANGED <<log, deleting, cache>>
      BY <1>1 DEF IInv, instanceVars
    <3>2. CASE job' = [job EXCEPT ![c] = more] /\ UNCHANGED <<pc, seen, record>>
      <4>1. job'[c] = more
        BY <3>2 DEF IInv, TypeOK
      <4>2. QED
        BY <1>1, <1>4, <2>2, <3>1, <3>2, <4>1 DEF PassOK, Wanted
    <3>3. CASE /\ job' = [job EXCEPT ![c] = NoJob]
               /\ pc' = [pc EXCEPT ![c] = "commit"] \/ pc' = [pc EXCEPT ![c] = "idle"]
      <4>1. job'[c] = NoJob /\ pc'[c] \in {"commit", "idle"}
        BY <3>3 DEF IInv, TypeOK
      <4>2. record'[c] = record[c] \/ record'[c] = NoRecord
        BY <1>1 DEF IInv, TypeOK
      <4>3. /\ record'[c].gen <= Len(log)
            /\ record'[c].deleting => deleting
        BY <3>1, <4>2 DEF PassOK, NoRecord, IInv, TypeOK, Generations
      <4>4. QED
        BY <2>2, <3>1, <4>1, <4>3, NoJobTyped DEF PassOK
    <3>4. QED
      BY <1>1, <1>2, <3>2, <3>3 DEF EndWave
  <2>3. QED
    BY <2>1, <2>2
<1>7. GenerationsBounded'
  BY <1>1 DEF IInv, GenerationsBounded, instanceVars, clusterVars
<1>8. QED
  BY <1>5, <1>6, <1>7 DEF IInv

-----------------------------------------------------------------------------
\* A write to the instance changes only whether what is held of it is current.
LEMMA OutdatedTyped ==
    ASSUME NEW records \in [Controllers -> Record]
    PROVE  /\ Outdated(records) \in [Controllers -> Record]
           /\ \A c \in Controllers :
                /\ Outdated(records)[c].gen = records[c].gen
                /\ Outdated(records)[c].deleting = records[c].deleting
                /\ Outdated(records)[c].exists = records[c].exists
BY DEF Outdated, Record

\* A controller that holds the same generation keeps its part of the invariant.
LEMMA PassOKSame ==
    ASSUME NEW d, PassOK(d), log' = log, deleting' = deleting,
           cache'[d].gen = cache[d].gen, cache'[d].exists = cache[d].exists,
           cache'[d].deleting = cache[d].deleting,
           record'[d].gen = record[d].gen, record'[d].deleting = record[d].deleting,
           pc'[d] = pc[d], job'[d] = job[d], seen'[d] = seen[d]
    PROVE  PassOK(d)'
BY DEF PassOK, Wanted, Justified

\* A pass that has no stage left to execute.
LEMMA PassOKOver ==
    ASSUME NEW d, PassOK(d), log' = log, deleting' = deleting,
           cache'[d].gen = cache[d].gen, cache'[d].exists = cache[d].exists,
           cache'[d].deleting = cache[d].deleting,
           record'[d].gen <= Len(log), record'[d].deleting => deleting,
           pc'[d] \in {"idle", "commit", "finalize"}, job'[d] = NoJob
    PROVE  PassOK(d)'
BY NoJobTyped DEF PassOK

\* The fields of NoRecord.
LEMMA NoRecordTyped ==
    NoRecord \in Record /\ NoRecord.gen = 0 /\ NoRecord.deleting = FALSE
BY DEF NoRecord, Record

\* The end of a pass, after a write to the instance or without one.
LEMMA EndPassTyped ==
    ASSUME TypeOK, NEW c \in Controllers, NEW records \in [Controllers -> Record],
           NEW again \in BOOLEAN, EndPass(c, records, again)
    PROVE  /\ pc' \in [Controllers -> Steps] /\ pc'[c] = "idle"
           /\ queued' \in [Controllers -> BOOLEAN]
           /\ record' \in [Controllers -> Record] /\ record'[c] = NoRecord
           /\ intent' \in [Controllers -> Intent]
           /\ seen' = seen /\ job' = job
           /\ \A d \in Controllers \ {c} : pc'[d] = pc[d] /\ record'[d] = records[d]
<1>1. pc \in [Controllers -> Steps] /\ queued \in [Controllers -> BOOLEAN]
      /\ intent \in [Controllers -> Intent]
  BY DEF TypeOK
<1>2. NoIntent \in Intent
  BY DEF NoIntent, Intent, Status, Phases
<1>3. intent' \in [Controllers -> Intent]
  BY <1>1, <1>2 DEF EndPass
<1>4. queued' \in [Controllers -> BOOLEAN]
  BY <1>1 DEF EndPass
<1>5. record' \in [Controllers -> Record] /\ record'[c] = NoRecord
      /\ \A d \in Controllers \ {c} : record'[d] = records[d]
  BY NoRecordTyped DEF EndPass
<1>6. pc' \in [Controllers -> Steps] /\ pc'[c] = "idle"
      /\ \A d \in Controllers \ {c} : pc'[d] = pc[d]
  BY <1>1 DEF EndPass, Steps
<1>7. QED
  BY <1>3, <1>4, <1>5, <1>6 DEF EndPass

\* A step that ends the pass of c and touches no object keeps the invariant.
LEMMA EndPassKeeps ==
    ASSUME IInv, NEW c \in Controllers, NEW records, NEW again \in BOOLEAN,
           records \in {record, Outdated(record)},
           cache' \in {cache, Outdated(cache)},
           EndPass(c, records, again), pc[c] \in {"commit", "finalize"},
           exists' \in BOOLEAN, status' \in Status,
           UNCHANGED <<log, deleting, clusterVars, pods, faults>>
    PROVE  IInv'
<1>1. /\ record \in [Controllers -> Record] /\ cache \in [Controllers -> Record]
      /\ TypeOK
  BY DEF IInv, TypeOK
<1>2. records \in [Controllers -> Record] /\ cache' \in [Controllers -> Record]
  BY <1>1, OutdatedTyped
<1>3. TypeOK'
  <2>1. /\ pc' \in [Controllers -> Steps] /\ queued' \in [Controllers -> BOOLEAN]
        /\ record' \in [Controllers -> Record]
        /\ intent' \in [Controllers -> Intent]
        /\ seen' = seen /\ job' = job
    BY <1>1, <1>2, EndPassTyped
  <2>2. QED
    BY <1>1, <1>2, <2>1 DEF TypeOK, clusterVars
<1>4. ASSUME NEW d \in Controllers PROVE PassOK(d)'
  <2>1. /\ cache'[d].gen = cache[d].gen /\ cache'[d].exists = cache[d].exists
        /\ cache'[d].deleting = cache[d].deleting
        /\ records[d].gen = record[d].gen /\ records[d].deleting = record[d].deleting
    BY <1>1, OutdatedTyped
  <2>2. PassOK(d) /\ UNCHANGED <<log, deleting, job, seen>>
    BY <1>1, <1>2, EndPassTyped DEF IInv
  <2>3. CASE d # c
    <3>1. pc'[d] = pc[d] /\ record'[d] = records[d]
      BY <1>1, <1>2, <2>3, EndPassTyped
    <3>2. QED
      BY <2>1, <2>2, <3>1, PassOKSame
  <2>4. CASE d = c
    <3>1. pc'[c] = "idle" /\ record'[c] = NoRecord
      BY <1>1, <1>2, EndPassTyped
    <3>2. job'[c] = NoJob
      BY <2>2, <2>4 DEF PassOK
    <3>3. NoRecord.gen <= Len(log) /\ ~NoRecord.deleting
      BY <1>1, NoRecordTyped DEF TypeOK, Generations
    <3>4. QED
      BY <2>1, <2>2, <2>4, <3>1, <3>2, <3>3, PassOKOver
  <2>5. QED
    BY <2>3, <2>4
<1>5. GenerationsBounded'
  BY DEF IInv, GenerationsBounded, clusterVars
<1>6. QED
  BY <1>3, <1>4, <1>5 DEF IInv

LEMMA CommitConflictKeeps ==
    ASSUME IInv, NEW c \in Controllers, CommitConflict(c) PROVE IInv'
<1>1. exists \in BOOLEAN /\ status \in Status
  BY DEF IInv, TypeOK
<1>2. QED
  BY <1>1, EndPassKeeps DEF CommitConflict, instanceVars

LEMMA FinalizerConflictKeeps ==
    ASSUME IInv, NEW c \in Controllers, FinalizerConflict(c) PROVE IInv'
<1>1. exists \in BOOLEAN /\ status \in Status
  BY DEF IInv, TypeOK
<1>2. QED
  BY <1>1, EndPassKeeps DEF FinalizerConflict, instanceVars

LEMMA RemoveFinalizerKeeps ==
    ASSUME IInv, NEW c \in Controllers, RemoveFinalizer(c) PROVE IInv'
<1>1. status \in Status
  BY DEF IInv, TypeOK
<1>2. QED
  BY <1>1, EndPassKeeps DEF RemoveFinalizer

LEMMA CommitStatusKeeps ==
    ASSUME IInv, NEW c \in Controllers, CommitStatus(c) PROVE IInv'
<1> DEFINE records == IF cache' = cache THEN record ELSE Outdated(record)
<1>1. /\ intent[c] \in Intent /\ exists \in BOOLEAN /\ TypeOK
      /\ record \in [Controllers -> Record] /\ cache \in [Controllers -> Record]
  BY DEF IInv, TypeOK
<1>2. /\ status' \in Status /\ cache' \in {cache, Outdated(cache)}
      /\ exists' = exists /\ intent[c].requeue \in BOOLEAN
      /\ UNCHANGED <<log, deleting, clusterVars, pods, faults>>
      /\ pc[c] = "commit" /\ records \in {record, Outdated(record)}
  BY <1>1 DEF CommitStatus, WriteStatus, Intent
<1>3. CASE ~intent[c].final
  <2>1. EndPass(c, records, intent[c].requeue)
    BY <1>3 DEF CommitStatus
  <2>2. QED
    BY <1>1, <1>2, <2>1, EndPassKeeps
<1>4. CASE intent[c].final
  <2>1. /\ pc' = [pc EXCEPT ![c] = "finalize"] /\ record' = records
        /\ UNCHANGED <<queued, seen, job, intent>>
    BY <1>4 DEF CommitStatus
  <2> HIDE DEF records
  <2>2. records \in [Controllers -> Record] /\ cache' \in [Controllers -> Record]
    BY <1>1, <1>2, OutdatedTyped
  <2>3. TypeOK'
    BY <1>1, <1>2, <2>1, <2>2 DEF TypeOK, clusterVars, Steps
  <2>4. ASSUME NEW d \in Controllers PROVE PassOK(d)'
    <3>1. /\ cache'[d].gen = cache[d].gen /\ cache'[d].exists = cache[d].exists
          /\ cache'[d].deleting = cache[d].deleting
          /\ record'[d].gen = record[d].gen
          /\ record'[d].deleting = record[d].deleting
      BY <1>1, <1>2, <2>1, OutdatedTyped
    <3>2. PassOK(d)
      BY DEF IInv
    <3>3. CASE d # c
      <4>1. pc'[d] = pc[d]
        BY <1>1, <2>1, <3>3 DEF TypeOK
      <4>2. QED
        BY <1>2, <2>1, <3>1, <3>2, <4>1, PassOKSame
    <3>4. CASE d = c
      <4>1. pc'[c] = "finalize" /\ job'[c] = NoJob
        BY <1>1, <1>2, <2>1, <3>2, <3>4 DEF TypeOK, PassOK
      <4>2. QED
        BY <1>2, <3>1, <3>2, <3>4, <4>1, PassOKOver DEF PassOK
    <3>5. QED
      BY <3>3, <3>4
  <2>5. GenerationsBounded'
    BY <1>2 DEF IInv, GenerationsBounded, clusterVars
  <2>6. QED
    BY <2>3, <2>4, <2>5 DEF IInv
<1>5. QED
  BY <1>3, <1>4


LEMMA CrashKeeps ==
    ASSUME IInv, NEW c \in Controllers, Crash(c) PROVE IInv'
<1>1. TypeOK'
  <2>1. seen' \in [Controllers -> SeenType] /\ job' \in [Controllers -> JobType]
    BY NothingSeenTyped, NoJobTyped DEF IInv, TypeOK, Crash, SeenType, JobType
  <2>2. cache' \in [Controllers -> Record] /\ record' \in [Controllers -> Record]
    BY NoRecordTyped DEF IInv, TypeOK, Crash
  <2>3. NoIntent \in Intent
    BY DEF NoIntent, Intent, Status, Phases
  <2>4. /\ intent' \in [Controllers -> Intent] /\ queued' \in [Controllers -> BOOLEAN]
        /\ pc' \in [Controllers -> Steps]
    BY <2>3 DEF IInv, TypeOK, Crash, Steps
  <2>5. faults' \in 0..MaxFaults
    BY BoundsAssumption DEF IInv, TypeOK, Crash
  <2>6. QED
    BY <2>1, <2>2, <2>4, <2>5
       DEF IInv, TypeOK, Crash, instanceVars, clusterVars, SeenType, JobType
<1>2. ASSUME NEW d \in Controllers PROVE PassOK(d)'
  <2>1. CASE d # c
    BY <2>1, PassOKFrame DEF IInv, TypeOK, Crash, instanceVars
  <2>2. CASE d = c
    <3>1. /\ UNCHANGED <<log, deleting>> /\ Len(log) \in Nat
          /\ cache'[c] = NoRecord /\ record'[c] = NoRecord
          /\ pc'[c] = "idle" /\ job'[c] = NoJob
      BY DEF IInv, TypeOK, Crash, instanceVars, Generations
    <3>2. /\ cache'[c].gen = 0 /\ cache'[c].exists = FALSE
          /\ cache'[c].deleting = FALSE
          /\ record'[c].gen = 0 /\ record'[c].deleting = FALSE
      BY <3>1 DEF NoRecord
    <3>3. QED
      BY <2>2, <3>1, <3>2, NoJobTyped DEF PassOK
  <2>3. QED
    BY <2>1, <2>2
<1>3. GenerationsBounded'
  BY DEF IInv, Crash, GenerationsBounded, instanceVars, clusterVars
<1>4. QED
  BY <1>1, <1>2, <1>3 DEF IInv

-----------------------------------------------------------------------------
\* The log only grows: what a generation wants does not change.
LEMMA AcceptRevisionKeeps ==
    ASSUME IInv, NEW s \in Scenarios, AcceptRevision(s) PROVE IInv'
<1>1. /\ log \in Seq(Scenarios) /\ log' = Append(log, s)
      /\ Len(log) \in Generations /\ Len(log) < MaxGeneration
      /\ record \in [Controllers -> Record] /\ cache \in [Controllers -> Record]
  BY DEF IInv, TypeOK, AcceptRevision
<1>2. /\ log' \in Seq(Scenarios) /\ Len(log') = Len(log) + 1
      /\ \A g \in 1..Len(log) : log'[g] = log[g]
  BY <1>1
<1>3. Len(log') \in Generations
  BY <1>1, <1>2, BoundsAssumption DEF Generations
<1>4. TypeOK'
  <2>1. record' \in [Controllers -> Record] /\ cache' \in [Controllers -> Record]
    BY <1>1, OutdatedTyped DEF AcceptRevision, InstanceWritten
  <2>2. QED
    BY <1>2, <1>3, <2>1 DEF IInv, TypeOK, AcceptRevision, clusterVars
<1>5. ASSUME NEW d \in Controllers PROVE PassOK(d)'
  <2>1. /\ PassOK(d) /\ deleting' = deleting
        /\ UNCHANGED <<pc, job, seen>>
        /\ Len(log) \in Nat /\ record[d].gen \in Nat /\ cache[d].gen \in Nat
    BY <1>1 DEF IInv, AcceptRevision, Record, Generations
  <2>2. /\ cache'[d].gen = cache[d].gen /\ cache'[d].exists = cache[d].exists
        /\ cache'[d].deleting = cache[d].deleting
        /\ record'[d].gen = record[d].gen /\ record'[d].deleting = record[d].deleting
    BY <1>1, OutdatedTyped DEF AcceptRevision, InstanceWritten
  <2>3. cache[d].gen <= Len(log') /\ record[d].gen <= Len(log')
    BY <1>2, <2>1 DEF PassOK
  <2>4. CASE pc[d] = "apply"
    <3>1. record[d].gen \in 1..Len(log)
      BY <2>1, <2>4 DEF PassOK
    <3>2. Wanted(record[d].gen)' = Wanted(record[d].gen)
      BY <1>2, <2>2, <3>1 DEF Wanted
    <3>3. \A n \in job'[d].wave \union job'[d].todo :
             Justified(job'[d].op, n, Wanted(record[d].gen), seen'[d],
                       record'[d].deleting)
      BY <2>1, <2>2 DEF PassOK
    <3>4. QED
      BY <2>1, <2>2, <2>3, <3>2, <3>3 DEF PassOK
  <2>5. CASE pc[d] # "apply"
    <3>1. job'[d] = NoJob
      BY <2>1, <2>5 DEF PassOK
    <3>2. QED
      BY <2>1, <2>2, <2>3, <2>5, <3>1, NoJobTyped DEF PassOK
  <2>6. QED
    BY <2>4, <2>5
<1>6. GenerationsBounded'
  <2>1. Len(log) \in Nat /\ nodes' = nodes /\ leases' = leases /\ GenerationsBounded
    BY <1>1 DEF IInv, AcceptRevision, clusterVars, Generations
  <2>2. 1..Len(log) \subseteq 1..Len(log')
    BY <1>2, <2>1
  <2>3. QED
    BY <2>1, <2>2 DEF GenerationsBounded
<1>7. QED
  BY <1>4, <1>5, <1>6 DEF IInv

LEMMA RequestDeletionKeeps == ASSUME IInv, RequestDeletion PROVE IInv'
<1>1. record \in [Controllers -> Record] /\ cache \in [Controllers -> Record]
  BY DEF IInv, TypeOK
<1>2. record' \in [Controllers -> Record] /\ cache' \in [Controllers -> Record]
  BY <1>1, OutdatedTyped DEF RequestDeletion, InstanceWritten
<1>3. TypeOK'
  BY <1>2 DEF IInv, TypeOK, RequestDeletion, clusterVars
<1>4. ASSUME NEW d \in Controllers PROVE PassOK(d)'
  <2>1. PassOK(d) /\ UNCHANGED <<log, pc, job, seen>> /\ deleting'
    BY DEF IInv, RequestDeletion
  <2>2. /\ cache'[d].gen = cache[d].gen /\ cache'[d].exists = cache[d].exists
        /\ record'[d].gen = record[d].gen /\ record'[d].deleting = record[d].deleting
    BY <1>1, OutdatedTyped DEF RequestDeletion, InstanceWritten
  <2>3. QED
    BY <2>1, <2>2 DEF PassOK, Wanted, Justified
<1>5. GenerationsBounded'
  BY DEF IInv, RequestDeletion, GenerationsBounded, clusterVars
<1>6. QED
  BY <1>3, <1>4, <1>5 DEF IInv


-----------------------------------------------------------------------------
\* A step of the environment that moves only objects, Pods and faults.
LEMMA ObjectsKeep ==
    ASSUME IInv, UNCHANGED <<instanceVars, births, cache, queued, passVars>>,
           nodes' \in [Names -> NodeObject \union {Absent, Foreign}],
           leases' \in [Names -> LeaseObject \union {Absent, Foreign}],
           pods' \in [Pods -> [at : {"pending", "chosen", "bound", "done"},
                               node : Names \union {Absent}]],
           faults' \in 0..MaxFaults,
           \A n \in Names : IsOwned(nodes'[n]) =>
                IsOwned(nodes[n]) /\ nodes'[n].gen = nodes[n].gen,
           \A n \in Names : IsOwned(leases'[n]) => leases'[n] = leases[n]
    PROVE  IInv'
<1>1. TypeOK'
  BY DEF IInv, TypeOK, instanceVars, passVars
<1>2. ASSUME NEW d \in Controllers PROVE PassOK(d)'
  BY PassOKFrame DEF IInv, instanceVars, passVars
<1>3. GenerationsBounded'
  BY DEF IInv, GenerationsBounded, IsOwned, instanceVars
<1>4. QED
  BY <1>1, <1>2, <1>3 DEF IInv

\* What ObjectsKeep asks of the objects that a step leaves alone.
LEMMA ObjectsTyped ==
    ASSUME IInv
    PROVE  /\ nodes \in [Names -> NodeObject \union {Absent, Foreign}]
           /\ leases \in [Names -> LeaseObject \union {Absent, Foreign}]
           /\ pods \in [Pods -> [at : {"pending", "chosen", "bound", "done"},
                                 node : Names \union {Absent}]]
           /\ faults \in 0..MaxFaults
           /\ \A n \in Names : IsOwned(nodes[n]) => nodes[n] \in NodeObject
BY DEF IInv, TypeOK, IsOwned

LEMMA KwokKeeps ==
    ASSUME IInv, NEW n \in Names, KwokReady(n) \/ KwokLease(n) PROVE IInv'
<1>1. CASE KwokReady(n)
  <2>1. nodes[n] \in NodeObject
    BY <1>1, ObjectsTyped DEF KwokReady
  <2>2. /\ [nodes[n] EXCEPT !.ready = TRUE] \in NodeObject
        /\ [nodes[n] EXCEPT !.ready = TRUE].gen = nodes[n].gen
    BY <2>1 DEF NodeObject
  <2>3. nodes' = [nodes EXCEPT ![n] = [nodes[n] EXCEPT !.ready = TRUE]]
    BY <1>1 DEF KwokReady
  <2>4. /\ nodes' \in [Names -> NodeObject \union {Absent, Foreign}]
        /\ \A m \in Names : IsOwned(nodes'[m]) =>
                IsOwned(nodes[m]) /\ nodes'[m].gen = nodes[m].gen
    BY <1>1, <2>2, <2>3, ObjectsTyped DEF KwokReady
  <2>5. UNCHANGED <<instanceVars, births, cache, queued, passVars, leases, pods, faults>>
    BY <1>1 DEF KwokReady
  <2>6. QED
    BY <2>4, <2>5, ObjectsTyped, ObjectsKeep
<1>2. CASE KwokLease(n)
  <2>1. /\ leases' \in [Names -> LeaseObject \union {Absent, Foreign}]
        /\ \A m \in Names : IsOwned(leases'[m]) => leases'[m] = leases[m]
    BY <1>2, ObjectsTyped DEF KwokLease, IsOwned
  <2>2. UNCHANGED <<instanceVars, births, cache, queued, passVars, nodes, pods, faults>>
    BY <1>2 DEF KwokLease
  <2>3. QED
    BY <2>1, <2>2, ObjectsTyped, ObjectsKeep
<1>3. QED
  BY <1>1, <1>2

LEMMA PodsKeep ==
    ASSUME IInv, NEW p \in Pods,
           Bind(p) \/ FinishPod(p) \/ \E n \in Names : Schedule(p, n)
    PROVE  IInv'
<1>1. UNCHANGED <<instanceVars, births, cache, queued, passVars, nodes, leases, faults>>
  BY DEF Bind, FinishPod, Schedule, clusterVars
<1>2. pods' \in [Pods -> [at : {"pending", "chosen", "bound", "done"},
                          node : Names \union {Absent}]]
  BY ObjectsTyped DEF Bind, FinishPod, Schedule
<1>3. QED
  BY <1>1, <1>2, ObjectsTyped, ObjectsKeep

LEMMA CollectGarbageKeeps ==
    ASSUME IInv, NEW n \in Names, CollectGarbage(n) PROVE IInv'
<1>1. /\ nodes' \in [Names -> NodeObject \union {Absent, Foreign}]
      /\ leases' \in [Names -> LeaseObject \union {Absent, Foreign}]
      /\ \A m \in Names : IsOwned(nodes'[m]) => nodes'[m] = nodes[m]
      /\ \A m \in Names : IsOwned(leases'[m]) => leases'[m] = leases[m]
  BY ObjectsTyped DEF CollectGarbage, IsOwned
<1>2. UNCHANGED <<instanceVars, births, cache, queued, passVars, pods, faults>>
  BY DEF CollectGarbage
<1>3. QED
  BY <1>1, <1>2, ObjectsTyped, ObjectsKeep

LEMMA DisturbKeeps ==
    ASSUME IInv, NEW kind, NEW n \in Names, Disturb(kind, n) PROVE IInv'
<1>1. UNCHANGED <<instanceVars, births, cache, queued, passVars, pods>>
  BY DEF Disturb
<1>2. faults' \in 0..MaxFaults
  BY ObjectsTyped, BoundsAssumption DEF Disturb
<1>3. CASE leases' = leases /\ IsOwned(nodes[n]) /\ nodes' \in
               {[nodes EXCEPT ![n].open = TRUE], [nodes EXCEPT ![n].ready = FALSE]}
  <2>1. nodes[n] \in NodeObject
    BY <1>3, ObjectsTyped
  <2>2. /\ [nodes[n] EXCEPT !.open = TRUE] \in NodeObject
        /\ [nodes[n] EXCEPT !.ready = FALSE] \in NodeObject
        /\ [nodes[n] EXCEPT !.open = TRUE].gen = nodes[n].gen
        /\ [nodes[n] EXCEPT !.ready = FALSE].gen = nodes[n].gen
    BY <2>1 DEF NodeObject
  <2>3. \E node \in NodeObject : /\ node.gen = nodes[n].gen
                                 /\ nodes' = [nodes EXCEPT ![n] = node]
    BY <1>3, <2>2
  <2>4. /\ nodes' \in [Names -> NodeObject \union {Absent, Foreign}]
        /\ \A m \in Names : IsOwned(nodes'[m]) =>
                IsOwned(nodes[m]) /\ nodes'[m].gen = nodes[m].gen
    BY <1>3, <2>3, ObjectsTyped
  <2>5. QED
    BY <1>1, <1>2, <1>3, <2>4, ObjectsTyped, ObjectsKeep
<1>4. CASE \/ leases' = leases /\ nodes' \in
                {[nodes EXCEPT ![n] = Absent], [nodes EXCEPT ![n] = Foreign]}
           \/ nodes' = nodes /\ leases' \in
                {[leases EXCEPT ![n] = Absent], [leases EXCEPT ![n] = Foreign]}
  <2>1. /\ nodes' \in [Names -> NodeObject \union {Absent, Foreign}]
        /\ leases' \in [Names -> LeaseObject \union {Absent, Foreign}]
        /\ \A m \in Names : IsOwned(nodes'[m]) => nodes'[m] = nodes[m]
        /\ \A m \in Names : IsOwned(leases'[m]) => leases'[m] = leases[m]
    BY <1>4, ObjectsTyped DEF IsOwned
  <2>2. QED
    BY <1>1, <1>2, <2>1, ObjectsTyped, ObjectsKeep
<1>5. QED
  BY <1>3, <1>4 DEF Disturb


-----------------------------------------------------------------------------
\* A server-side apply of a Node keeps its identity and moves its fence.
LEMMA AppliedNodeTyped ==
    ASSUME NEW node \in NodeObject, NEW g \in Nat, NEW keys \in SUBSET Keys,
           NEW active \in BOOLEAN, NEW open \in BOOLEAN
    PROVE  /\ AppliedNode(node, g, keys, active, open) \in NodeObject
           /\ AppliedNode(node, g, keys, active, open).gen = g
           /\ AppliedNode(node, g, keys, active, open).uid = node.uid
BY DEF AppliedNode, NodeObject

LEMMA NodeAfterTyped ==
    ASSUME NEW op \in UpdatesNode, NEW node \in NodeObject, NEW g \in Nat, NEW n,
           NEW observed \in NodeObject \union {Absent},
           op = "close-seen" => observed # Absent,
           op # "close-seen" => log[g][n] \in NodeSpec
    PROVE  /\ NodeAfter(op, node, observed, g, n) \in NodeObject
           /\ NodeAfter(op, node, observed, g, n).gen = g
           /\ NodeAfter(op, node, observed, g, n).uid = node.uid
<1>1. CASE op = "close-seen"
  <2>1. observed.keys \in SUBSET Keys /\ observed.active \in BOOLEAN
    BY <1>1 DEF NodeObject
  <2>2. PICK keys \in SUBSET Keys, active \in BOOLEAN, open \in BOOLEAN :
            NodeAfter(op, node, observed, g, n) =
                AppliedNode(node, g, keys, active, open)
    BY <1>1, <2>1 DEF NodeAfter
  <2>3. QED
    BY <2>1, <2>2, AppliedNodeTyped
<1>2. CASE op = "status"
  <2>1. NodeAfter(op, node, observed, g, n) = StatusApplied(node, g, log[g][n])
    BY <1>2 DEF NodeAfter
  <2>2. QED
    BY <1>2, <2>1 DEF StatusApplied, NodeObject, NodeSpec
<1>3. CASE op \in {"repair", "metadata", "close", "open"}
  <2>1. {log[g][n].key} \in SUBSET Keys
    BY <1>3 DEF NodeSpec
  <2>2. PICK active \in BOOLEAN, open \in BOOLEAN :
            NodeAfter(op, node, observed, g, n) =
                AppliedNode(node, g, {log[g][n].key}, active, open)
    BY <1>3 DEF NodeAfter
  <2>3. QED
    BY <2>1, <2>2, AppliedNodeTyped
<1>4. QED
  BY <1>1, <1>2, <1>3 DEF UpdatesNode

\* What holds of the pass that sends a request.
LEMMA RequestContext ==
    ASSUME IInv, NEW c \in Controllers, NEW n \in job[c].wave, pc[c] = "apply"
    PROVE  /\ n \in Names
           /\ record[c].gen \in 1..Len(log) /\ Len(log) \in Nat
           /\ seen[c].nodes[n] \in NodeObject \union {Absent}
           /\ job[c].op \in WantedOnly =>
                /\ n \in Wanted(record[c].gen)
                /\ log[record[c].gen][n] \in NodeSpec
           /\ job[c].op = "close-seen" => seen[c].nodes[n] # Absent
           /\ job[c].op = "delete-node" =>
                record[c].deleting \/ n \notin Wanted(record[c].gen)
<1>1. n \in Names /\ seen[c].nodes[n] \in NodeObject \union {Absent}
  BY DEF IInv, TypeOK
<1>2. record[c].gen \in 1..Len(log) /\ Len(log) \in Nat
  BY DEF IInv, TypeOK, PassOK, Record, Generations
<1>3. Justified(job[c].op, n, Wanted(record[c].gen), seen[c], record[c].deleting)
  BY DEF IInv, PassOK
<1>4. \A m \in Wanted(record[c].gen) : log[record[c].gen][m] \in NodeSpec
  BY <1>2, WantedTyped DEF IInv
<1>5. QED
  BY <1>1, <1>2, <1>3, <1>4 DEF Justified

\* A request that succeeds leaves typed objects, and every object it changed
\* carries the generation of its pass.
LEMMA RequestEffect ==
    ASSUME IInv, NEW c \in Controllers, NEW n \in job[c].wave, pc[c] = "apply",
           RequestSucceeds(c, n)
    PROVE  /\ nodes' \in [Names -> NodeObject \union {Absent, Foreign}]
           /\ leases' \in [Names -> LeaseObject \union {Absent, Foreign}]
           /\ births' \in [Names -> Nat]
           /\ \A m \in Names : nodes'[m] # nodes[m] /\ IsOwned(nodes'[m]) =>
                nodes'[m].gen = record[c].gen
           /\ \A m \in Names : leases'[m] # leases[m] /\ IsOwned(leases'[m]) =>
                leases'[m].gen = record[c].gen
<1> DEFINE g == record[c].gen
           op == job[c].op
<1>1. /\ n \in Names /\ g \in Nat
      /\ seen[c].nodes[n] \in NodeObject \union {Absent}
      /\ op \in WantedOnly => log[g][n] \in NodeSpec
      /\ op = "close-seen" => seen[c].nodes[n] # Absent
  BY RequestContext
<1>2. /\ nodes \in [Names -> NodeObject \union {Absent, Foreign}]
      /\ leases \in [Names -> LeaseObject \union {Absent, Foreign}]
      /\ births \in [Names -> Nat]
  BY DEF IInv, TypeOK
<1>3. CASE /\ op = "create-node" /\ leases' = leases
           /\ nodes' = [nodes EXCEPT ![n] = CreatedNode(births[n] + 1, g, log[g][n].key)]
           /\ births' = [births EXCEPT ![n] = @ + 1]
  <2>1. births[n] + 1 \in Nat
    BY <1>1, <1>2
  <2>2. log[g][n].key \in Keys
    BY <1>1, <1>3 DEF WantedOnly, NodeSpec
  <2>3. /\ CreatedNode(births[n] + 1, g, log[g][n].key) \in NodeObject
        /\ CreatedNode(births[n] + 1, g, log[g][n].key).gen = g
    BY <1>1, <2>1, <2>2 DEF CreatedNode, NodeObject
  <2>4. QED
    BY <1>1, <1>2, <1>3, <2>1, <2>3
<1>4. CASE /\ op = "create-lease" /\ nodes' = nodes
           /\ leases' = [leases EXCEPT ![n] = [uid |-> births[n] + 1, gen |-> g]]
           /\ births' = [births EXCEPT ![n] = @ + 1]
  <2>1. births[n] + 1 \in Nat
    BY <1>1, <1>2
  <2>2. [uid |-> births[n] + 1, gen |-> g] \in LeaseObject
    BY <1>1, <2>1 DEF LeaseObject
  <2>3. QED
    BY <1>1, <1>2, <1>4, <2>1, <2>2
<1>5. CASE /\ op \in UpdatesNode /\ Exact(nodes[n], seen[c].nodes[n], g)
           /\ nodes' = [nodes EXCEPT ![n] = NodeAfter(op, @, seen[c].nodes[n], g, n)]
           /\ UNCHANGED <<leases, births>>
  <2>1. nodes[n] \in NodeObject
    BY <1>1, <1>2, <1>5 DEF Exact
  <2>2. op # "close-seen" => log[g][n] \in NodeSpec
    BY <1>1, <1>5 DEF UpdatesNode, WantedOnly
  <2>3. /\ NodeAfter(op, nodes[n], seen[c].nodes[n], g, n) \in NodeObject
        /\ NodeAfter(op, nodes[n], seen[c].nodes[n], g, n).gen = g
    BY <1>1, <1>5, <2>1, <2>2, NodeAfterTyped
  <2>4. QED
    BY <1>1, <1>2, <1>5, <2>3
<1>6. CASE /\ Exact(leases[n], seen[c].leases[n], g)
           /\ leases' = [leases EXCEPT ![n].gen = g]
           /\ UNCHANGED <<nodes, births>>
  <2>1. leases[n] \in LeaseObject
    BY <1>1, <1>2, <1>6 DEF Exact
  <2>2. /\ [leases[n] EXCEPT !.gen = g] \in LeaseObject
        /\ [leases[n] EXCEPT !.gen = g].gen = g
    BY <1>1, <2>1 DEF LeaseObject
  <2>3. QED
    BY <1>1, <1>2, <1>6, <2>2
<1>7. CASE \/ nodes' = [nodes EXCEPT ![n] = Absent] /\ UNCHANGED <<leases, births>>
           \/ leases' = [leases EXCEPT ![n] = Absent] /\ UNCHANGED <<nodes, births>>
  BY <1>1, <1>2, <1>7 DEF IsOwned
<1>8. QED
  BY <1>3, <1>4, <1>5, <1>6, <1>7 DEF RequestSucceeds

\* Whatever its outcome, a request keeps the invariant.
LEMMA AnsweredKeeps ==
    ASSUME IInv, NEW c \in Controllers, NEW n \in job[c].wave, pc[c] = "apply",
           NEW errors \in SUBSET Errors, Answer(c, n, errors),
           RequestSucceeds(c, n) \/ UNCHANGED clusterVars,
           faults' \in 0..MaxFaults,
           UNCHANGED <<instanceVars, pods, cache, queued, pc, record, seen, intent>>
    PROVE  IInv'
<1>1. /\ nodes' \in [Names -> NodeObject \union {Absent, Foreign}]
      /\ leases' \in [Names -> LeaseObject \union {Absent, Foreign}]
      /\ births' \in [Names -> Nat]
      /\ \A m \in Names : nodes'[m] # nodes[m] /\ IsOwned(nodes'[m]) =>
           nodes'[m].gen = record[c].gen
      /\ \A m \in Names : leases'[m] # leases[m] /\ IsOwned(leases'[m]) =>
           leases'[m].gen = record[c].gen
  <2>1. CASE UNCHANGED clusterVars
    BY <2>1 DEF IInv, TypeOK, clusterVars
  <2>2. CASE RequestSucceeds(c, n)
    BY <2>2, RequestEffect
  <2>3. QED
    BY <2>1, <2>2
<1>2. /\ job' \in [Controllers -> JobType]
      /\ job'[c].op = job[c].op
      /\ job'[c].wave \subseteq job[c].wave /\ job'[c].todo = job[c].todo
      /\ \A d \in Controllers \ {c} : job'[d] = job[d]
  <2>1. job \in [Controllers -> JobType]
    BY DEF IInv, TypeOK, JobType
  <2>2. job' = [job EXCEPT ![c] = [job[c] EXCEPT !.wave = job[c].wave \ {n},
                                                 !.errors = job[c].errors \union errors]]
    BY DEF Answer
  <2>3. [job[c] EXCEPT !.wave = job[c].wave \ {n},
                       !.errors = job[c].errors \union errors] \in JobType
    BY <2>1 DEF JobType
  <2>4. QED
    BY <2>1, <2>2, <2>3 DEF JobType
<1>3. TypeOK'
  BY <1>1, <1>2 DEF IInv, TypeOK, instanceVars, JobType
<1>4. ASSUME NEW d \in Controllers PROVE PassOK(d)'
  <2>1. PassOK(d) /\ UNCHANGED <<log, deleting, cache, record, pc, seen>>
    BY DEF IInv, instanceVars
  <2>2. CASE d # c
    BY <1>2, <2>1, <2>2, PassOKFrame
  <2>3. CASE d = c
    BY <1>2, <2>1, <2>3 DEF PassOK, Wanted
  <2>4. QED
    BY <2>2, <2>3
<1>5. GenerationsBounded'
  <2>1. record[c].gen \in 1..Len(log) /\ log' = log
    BY RequestContext DEF instanceVars
  <2>2. QED
    BY <1>1, <2>1 DEF IInv, GenerationsBounded, IsOwned
<1>6. QED
  BY <1>3, <1>4, <1>5 DEF IInv

LEMMA RequestKeeps ==
    ASSUME IInv, NEW c \in Controllers, NEW n, Request(c, n) PROVE IInv'
<1>1. /\ n \in job[c].wave /\ pc[c] = "apply"
      /\ RequestSucceeds(c, n) \/ UNCHANGED clusterVars
      /\ UNCHANGED <<instanceVars, pods, cache, queued, pc, record, seen, intent, faults>>
  BY DEF Request
<1>2. \E errors \in SUBSET Errors : Answer(c, n, errors)
  BY DEF Request, Errors
<1>3. faults' \in 0..MaxFaults
  BY <1>1, ObjectsTyped
<1>4. QED
  BY <1>1, <1>2, <1>3, AnsweredKeeps

LEMMA LoseResponseKeeps ==
    ASSUME IInv, NEW c \in Controllers, NEW n, LoseResponse(c, n) PROVE IInv'
<1>1. /\ n \in job[c].wave /\ pc[c] = "apply"
      /\ RequestSucceeds(c, n) \/ UNCHANGED clusterVars
      /\ Answer(c, n, {"retry"})
      /\ UNCHANGED <<instanceVars, pods, cache, queued, pc, record, seen, intent>>
  BY DEF LoseResponse
<1>2. faults' \in 0..MaxFaults
  BY ObjectsTyped, BoundsAssumption DEF LoseResponse
<1>3. QED
  BY <1>1, <1>2, AnsweredKeeps DEF Errors


LEMMA StutterKeeps == ASSUME IInv, UNCHANGED vars PROVE IInv'
<1>1. UNCHANGED <<log, deleting, exists, status, nodes, leases, births, pods, cache,
                  queued, pc, record, seen, job, intent, faults>>
  BY DEF vars, instanceVars, clusterVars, passVars
<1>2. TypeOK'
  BY <1>1 DEF IInv, TypeOK
<1>3. \A d \in Controllers : PassOK(d)'
  BY <1>1, PassOKFrame DEF IInv
<1>4. GenerationsBounded'
  BY <1>1 DEF IInv, GenerationsBounded
<1>5. QED
  BY <1>2, <1>3, <1>4 DEF IInv

\* The invariant is inductive.
LEMMA StepKeepsIInv == IInv /\ [Next]_vars => IInv'
<1> SUFFICES ASSUME IInv, [Next]_vars PROVE IInv'
  OBVIOUS
<1>1. CASE UNCHANGED vars
  BY <1>1, StutterKeeps
<1>2. ASSUME NEW c \in Controllers, CacheDeliver(c) PROVE IInv'
  BY <1>2, CacheDeliverKeeps
<1>3. ASSUME NEW c \in Controllers, Pass(c) PROVE IInv'
  <2>1. CASE StartPass(c)
    BY <2>1, StartPassKeeps
  <2>2. CASE SkipPass(c)
    BY <2>2, SkipPassKeeps
  <2>3. CASE ObserveLeases(c)
    BY <2>3, ObserveLeasesKeeps
  <2>4. CASE ObservePods(c)
    BY <2>4, ObservePodsKeeps
  <2>5. CASE \E n \in Names : Request(c, n)
    BY <2>5, RequestKeeps
  <2>6. CASE EndWave(c)
    BY <2>6, EndWaveKeeps
  <2>7. CASE CommitStatus(c)
    BY <2>7, CommitStatusKeeps
  <2>8. CASE CommitConflict(c)
    BY <2>8, CommitConflictKeeps
  <2>9. CASE RemoveFinalizer(c)
    BY <2>9, RemoveFinalizerKeeps
  <2>10. CASE FinalizerConflict(c)
    BY <2>10, FinalizerConflictKeeps
  <2>11. QED
    BY <1>3, <2>1, <2>2, <2>3, <2>4, <2>5, <2>6, <2>7, <2>8, <2>9, <2>10 DEF Pass
<1>4. ASSUME NEW c \in Controllers, Upset(c) PROVE IInv'
  BY <1>4, CrashKeeps, LoseObservationKeeps, LoseResponseKeeps DEF Upset
<1>5. CASE Environment
  <2>1. CASE \E s \in Scenarios : AcceptRevision(s)
    BY <2>1, AcceptRevisionKeeps
  <2>2. CASE RequestDeletion
    BY <2>2, RequestDeletionKeeps
  <2>3. CASE \E n \in Names : KwokReady(n) \/ KwokLease(n) \/ CollectGarbage(n)
    BY <2>3, KwokKeeps, CollectGarbageKeeps
  <2>4. CASE \E p \in Pods : Bind(p) \/ FinishPod(p) \/ \E n \in Names : Schedule(p, n)
    BY <2>4, PodsKeep
  <2>5. CASE \E kind \in Faults, n \in Names : Disturb(kind, n)
    BY <2>5, DisturbKeeps
  <2>6. QED
    BY <1>5, <2>1, <2>2, <2>3, <2>4, <2>5 DEF Environment
<1>6. QED
  BY <1>1, <1>2, <1>3, <1>4, <1>5 DEF Next

-----------------------------------------------------------------------------
(***************************************************************************)
(* The theorems.                                                           *)
(***************************************************************************)

\* Every reachable state satisfies the inductive invariant: whatever passes
\* overlap, crash or retry, they work for accepted generations only.
THEOREM InductiveInvariant == Spec => []IInv
<1>1. Init => IInv
  BY InitIInv
<1>2. IInv /\ [Next]_vars => IInv'
  BY StepKeepsIInv
<1>3. QED
  BY <1>1, <1>2, PTL DEF Spec

\* Type correctness of the reconciler and of the objects it manages.
THEOREM TypeCorrect == Spec => []TypeOK
<1>1. IInv => TypeOK
  BY DEF IInv
<1>2. QED
  BY <1>1, InductiveInvariant, PTL

\* SAFE-001: no owned object carries a generation that was not accepted, for
\* any number of overlapping controllers, crashes and lost responses.
THEOREM GenerationsAreAccepted == Spec => []GenerationsBounded
<1>1. IInv => GenerationsBounded
  BY DEF IInv
<1>2. QED
  BY <1>1, InductiveInvariant, PTL


-----------------------------------------------------------------------------
(***************************************************************************)
(* What a step may do to one object.                                       *)
(***************************************************************************)

\* A request of c for n is answered.
Requested(c, n) ==
    pc[c] = "apply" /\ n \in job[c].wave /\ RequestSucceeds(c, n)

\* KWOK, the garbage collector or someone else moves a Node.
MovedNode(n) ==
    /\ passVars' = passVars /\ nodes[n] # Foreign
    /\ IsOwned(nodes'[n]) => /\ IsOwned(nodes[n])
                             /\ nodes'[n].gen = nodes[n].gen
                             /\ nodes'[n].uid = nodes[n].uid

LEMMA EnvironmentMoves ==
    ASSUME IInv, Environment, NEW n \in Names
    PROVE  /\ nodes'[n] = nodes[n] \/ MovedNode(n)
           /\ leases[n] = Foreign => leases'[n] = Foreign
<1>1. CASE \E s \in Scenarios : AcceptRevision(s)
  BY <1>1 DEF AcceptRevision, clusterVars
<1>2. CASE RequestDeletion
  BY <1>2 DEF RequestDeletion, clusterVars
<1>3. ASSUME NEW m \in Names, KwokReady(m) \/ KwokLease(m) \/ CollectGarbage(m)
      PROVE  /\ nodes'[n] = nodes[n] \/ MovedNode(n)
             /\ leases[n] = Foreign => leases'[n] = Foreign
  <2>1. CASE KwokReady(m)
    <3>1. nodes[m] \in NodeObject
      BY <2>1, ObjectsTyped DEF KwokReady
    <3>2. /\ [nodes[m] EXCEPT !.ready = TRUE] \in NodeObject
          /\ [nodes[m] EXCEPT !.ready = TRUE].gen = nodes[m].gen
          /\ [nodes[m] EXCEPT !.ready = TRUE].uid = nodes[m].uid
      BY <3>1 DEF NodeObject
    <3>3. nodes' = [nodes EXCEPT ![m] = [nodes[m] EXCEPT !.ready = TRUE]]
      BY <2>1 DEF KwokReady
    <3>4. QED
      BY <2>1, <3>2, <3>3, ObjectsTyped DEF KwokReady, MovedNode, IsOwned
  <2>2. CASE KwokLease(m)
    BY <2>2, ObjectsTyped, ObjectsAssumption DEF KwokLease
  <2>3. CASE CollectGarbage(m)
    BY <2>3, ObjectsTyped DEF CollectGarbage, MovedNode, IsOwned
  <2>4. QED
    BY <1>3, <2>1, <2>2, <2>3
<1>4. CASE \E p \in Pods : Bind(p) \/ FinishPod(p) \/ \E m \in Names : Schedule(p, m)
  BY <1>4 DEF Bind, FinishPod, Schedule, clusterVars
<1>5. ASSUME NEW kind \in Faults, NEW m \in Names, Disturb(kind, m)
      PROVE  /\ nodes'[n] = nodes[n] \/ MovedNode(n)
             /\ leases[n] = Foreign => leases'[n] = Foreign
  <2>1. passVars' = passVars
    BY <1>5 DEF Disturb
  <2>2. CASE leases' = leases /\ IsOwned(nodes[m]) /\ nodes' \in
               {[nodes EXCEPT ![m].open = TRUE], [nodes EXCEPT ![m].ready = FALSE]}
    <3>1. nodes[m] \in NodeObject
      BY <2>2, ObjectsTyped
    <3>2. PICK node \in NodeObject : /\ node.gen = nodes[m].gen
                                     /\ node.uid = nodes[m].uid
                                     /\ nodes' = [nodes EXCEPT ![m] = node]
      <4>1. /\ [nodes[m] EXCEPT !.open = TRUE] \in NodeObject
            /\ [nodes[m] EXCEPT !.ready = FALSE] \in NodeObject
            /\ [nodes[m] EXCEPT !.open = TRUE].gen = nodes[m].gen
            /\ [nodes[m] EXCEPT !.ready = FALSE].gen = nodes[m].gen
            /\ [nodes[m] EXCEPT !.open = TRUE].uid = nodes[m].uid
            /\ [nodes[m] EXCEPT !.ready = FALSE].uid = nodes[m].uid
        BY <3>1 DEF NodeObject
      <4>2. QED
        BY <2>2, <4>1
    <3>3. QED
      BY <2>1, <2>2, <3>2, ObjectsTyped DEF MovedNode, IsOwned
  <2>3. CASE leases' = leases /\
             \/ IsOwned(nodes[m]) /\ nodes' = [nodes EXCEPT ![m] = Absent]
             \/ nodes[m] = Absent /\ nodes' = [nodes EXCEPT ![m] = Foreign]
    BY <2>1, <2>3, ObjectsTyped, ObjectsAssumption DEF MovedNode, IsOwned
  <2>4. CASE nodes' = nodes /\
             \/ IsOwned(leases[m]) /\ leases' = [leases EXCEPT ![m] = Absent]
             \/ leases[m] = Absent /\ leases' = [leases EXCEPT ![m] = Foreign]
    BY <2>4, ObjectsTyped DEF IsOwned
  <2>5. QED
    BY <1>5, <2>2, <2>3, <2>4 DEF Disturb
<1>6. QED
  BY <1>1, <1>2, <1>3, <1>4, <1>5 DEF Environment

\* A request reaches only the object of its own name.
LEMMA RequestIsLocal ==
    ASSUME IInv, NEW c \in Controllers, NEW m \in job[c].wave, pc[c] = "apply",
           RequestSucceeds(c, m), NEW n \in Names, n # m
    PROVE  nodes'[n] = nodes[n] /\ leases'[n] = leases[n]
BY ObjectsTyped DEF RequestSucceeds

\* A step moves an object by a request for it or by the environment.
LEMMA ObjectStep ==
    ASSUME IInv, [Next]_vars, NEW n \in Names
    PROVE  \/ \E c \in Controllers : Requested(c, n)
           \/ /\ nodes'[n] = nodes[n] \/ MovedNode(n)
              /\ leases[n] = Foreign => leases'[n] = Foreign
<1>1. CASE UNCHANGED vars
  BY <1>1 DEF vars, clusterVars
<1>2. ASSUME NEW c \in Controllers, NEW m, pc[c] = "apply", m \in job[c].wave,
             RequestSucceeds(c, m) \/ UNCHANGED clusterVars
      PROVE  Requested(c, n) \/ (nodes'[n] = nodes[n] /\ leases'[n] = leases[n])
  <2>1. CASE UNCHANGED clusterVars
    BY <2>1 DEF clusterVars
  <2>2. CASE RequestSucceeds(c, m) /\ m = n
    BY <1>2, <2>2 DEF Requested
  <2>3. CASE RequestSucceeds(c, m) /\ m # n
    BY <1>2, <2>3, RequestIsLocal
  <2>4. QED
    BY <1>2, <2>1, <2>2, <2>3
<1>3. ASSUME NEW c \in Controllers, CacheDeliver(c) \/ Pass(c) \/ Upset(c)
      PROVE  Requested(c, n) \/ (nodes'[n] = nodes[n] /\ leases'[n] = leases[n])
  <2>1. CASE \E m \in Names : Request(c, m) \/ LoseResponse(c, m)
    BY <1>2, <2>1 DEF Request, LoseResponse
  <2>2. CASE ~ \E m \in Names : Request(c, m) \/ LoseResponse(c, m)
    <3>1. UNCHANGED clusterVars
      BY <1>3, <2>2 DEF Pass, Upset, CacheDeliver, StartPass, SkipPass, ObserveLeases,
         ObservePods, EndWave, CommitStatus, CommitConflict, RemoveFinalizer,
         FinalizerConflict, Crash, LoseObservation
    <3>2. QED
      BY <3>1 DEF clusterVars
  <2>3. QED
    BY <2>1, <2>2
<1>4. CASE Environment
  BY <1>4, EnvironmentMoves
<1>5. QED
  BY <1>1, <1>3, <1>4 DEF Next


\* What a request may do to a Node of the instance: update it under the fence,
\* or delete it.
LEMMA RequestOnNode ==
    ASSUME IInv, NEW c \in Controllers, NEW n \in Names, Requested(c, n),
           IsOwned(nodes[n])
    PROVE  \/ nodes'[n] = nodes[n]
           \/ /\ nodes[n].gen <= record[c].gen
              /\ \/ /\ IsOwned(nodes'[n]) /\ nodes'[n].uid = nodes[n].uid
                    /\ nodes'[n].gen = record[c].gen
                 \/ job[c].op = "delete-node" /\ nodes'[n] = Absent
<1> DEFINE g == record[c].gen
           op == job[c].op
<1>1. /\ g \in Nat /\ seen[c].nodes[n] \in NodeObject \union {Absent}
      /\ op \in WantedOnly => log[g][n] \in NodeSpec
      /\ op = "close-seen" => seen[c].nodes[n] # Absent
      /\ nodes[n] \in NodeObject /\ nodes \in [Names -> NodeObject \union {Absent, Foreign}]
  BY RequestContext, ObjectsTyped DEF Requested
<1>2. CASE /\ op \in UpdatesNode /\ Exact(nodes[n], seen[c].nodes[n], g)
           /\ nodes' = [nodes EXCEPT ![n] = NodeAfter(op, @, seen[c].nodes[n], g, n)]
  <2>1. op # "close-seen" => log[g][n] \in NodeSpec
    BY <1>1, <1>2 DEF UpdatesNode, WantedOnly
  <2>2. /\ NodeAfter(op, nodes[n], seen[c].nodes[n], g, n) \in NodeObject
        /\ NodeAfter(op, nodes[n], seen[c].nodes[n], g, n).gen = g
        /\ NodeAfter(op, nodes[n], seen[c].nodes[n], g, n).uid = nodes[n].uid
    BY <1>1, <1>2, <2>1, NodeAfterTyped
  <2>3. nodes'[n] = NodeAfter(op, nodes[n], seen[c].nodes[n], g, n)
    BY <1>1, <1>2
  <2>4. IsOwned(nodes'[n])
    BY <2>2, <2>3, ObjectsAssumption DEF IsOwned
  <2>5. QED
    BY <1>2, <2>2, <2>3, <2>4 DEF Exact
<1>3. CASE /\ op = "delete-node" /\ DeletableNode(nodes[n], seen[c].nodes[n], g)
           /\ nodes' = [nodes EXCEPT ![n] = Absent]
  BY <1>1, <1>3 DEF DeletableNode, Exact, IsOwned
<1>4. CASE nodes' = nodes
  BY <1>4
<1>5. QED
  BY <1>2, <1>3, <1>4 DEF Requested, RequestSucceeds, Vacant, IsOwned

\* SAFE-001A: a pass of an older generation never overwrites a newer one.
THEOREM FenceHolds == Spec => FenceNeverRegresses
<1>1. ASSUME IInv, [Next]_vars, NEW n \in Names, SameNode(n)
      PROVE  nodes'[n].gen >= nodes[n].gen
  <2>1. nodes[n].gen \in Nat /\ IsOwned(nodes[n]) /\ IsOwned(nodes'[n])
    BY <1>1, ObjectsTyped DEF SameNode, NodeObject
  <2>2. CASE \E c \in Controllers : Requested(c, n)
    <3>1. PICK c \in Controllers : Requested(c, n)
      BY <2>2
    <3>2. \/ nodes'[n] = nodes[n]
          \/ nodes[n].gen <= record[c].gen /\ nodes'[n].gen = record[c].gen
      BY <1>1, <2>1, <3>1, RequestOnNode DEF IsOwned
    <3>3. record[c].gen \in Nat
      BY <1>1 DEF IInv, TypeOK, Record
    <3>4. QED
      BY <2>1, <3>2, <3>3
  <2>3. CASE nodes'[n] = nodes[n] \/ MovedNode(n)
    BY <2>1, <2>3 DEF MovedNode
  <2>4. QED
    BY <1>1, <2>2, <2>3, ObjectStep
<1>2. IInv /\ [Next]_vars =>
        [\A n \in Names : SameNode(n) => nodes'[n].gen >= nodes[n].gen]_vars
  BY <1>1
<1>3. QED
  BY <1>2, InductiveInvariant, PTL DEF Spec, FenceNeverRegresses

\* SAFE-003, SAFE-004: an object of somebody else is never touched.
THEOREM ForeignObjectsStay == Spec => ForeignUntouched
<1>1. ASSUME IInv, [Next]_vars, NEW n \in Names
      PROVE  /\ nodes[n] = Foreign => nodes'[n] = Foreign
             /\ leases[n] = Foreign => leases'[n] = Foreign
  <2>1. CASE \E c \in Controllers : Requested(c, n)
    <3>1. PICK c \in Controllers : RequestSucceeds(c, n)
      BY <2>1 DEF Requested
    <3>2. QED
      BY <1>1, <3>1, ObjectsTyped, ObjectsAssumption
         DEF RequestSucceeds, Vacant, Exact, Deletable, DeletableNode
  <2>2. CASE /\ nodes'[n] = nodes[n] \/ MovedNode(n)
             /\ leases[n] = Foreign => leases'[n] = Foreign
    BY <2>2 DEF MovedNode
  <2>3. QED
    BY <1>1, <2>1, <2>2, ObjectStep
<1>2. IInv /\ [Next]_vars =>
        [\A n \in Names : /\ nodes[n] = Foreign => nodes'[n] = Foreign
                          /\ leases[n] = Foreign => leases'[n] = Foreign]_vars
  BY <1>1
<1>3. QED
  BY <1>2, InductiveInvariant, PTL DEF Spec, ForeignUntouched

\* LIFE-008: a Node that every generation since its last write wants is never
\* deleted by a pass and keeps its identity.
THEOREM RetainedNodesStay == Spec => RetainedNodesSurvive
<1>1. ASSUME IInv, [Next]_vars, NEW n \in Names, ByController, IsOwned(nodes[n]),
             ~deleting, StillWanted(n, nodes[n].gen)
      PROVE  SameNode(n)
  <2>1. CASE \E c \in Controllers : Requested(c, n)
    <3>1. PICK c \in Controllers : Requested(c, n)
      BY <2>1
    <3>2. /\ record[c].gen \in 1..Len(log) /\ Len(log) \in Nat
          /\ job[c].op = "delete-node" =>
               record[c].deleting \/ n \notin Wanted(record[c].gen)
      BY <1>1, <3>1, RequestContext DEF Requested
    <3>3. ~record[c].deleting
      BY <1>1 DEF IInv, PassOK
    <3>4. nodes[n].gen \in Nat
      BY <1>1, ObjectsTyped DEF NodeObject
    <3>5. CASE nodes[n].gen <= record[c].gen
      <4>1. record[c].gen \in nodes[n].gen..Len(log)
        BY <3>2, <3>4, <3>5
      <4>2. n \in Wanted(record[c].gen)
        BY <1>1, <4>1 DEF StillWanted
      <4>3. job[c].op # "delete-node"
        BY <3>2, <3>3, <4>2
      <4>4. QED
        BY <1>1, <3>1, <4>3, RequestOnNode DEF SameNode
    <3>6. CASE nodes'[n] = nodes[n]
      BY <1>1, <3>6 DEF SameNode
    <3>7. QED
      BY <1>1, <3>1, <3>5, <3>6, RequestOnNode
  <2>2. CASE nodes'[n] = nodes[n]
    BY <1>1, <2>2 DEF SameNode
  <2>3. QED
    BY <1>1, <2>1, <2>2, ObjectStep DEF MovedNode, ByController
<1>2. IInv /\ [Next]_vars =>
        [\A n \in Names : /\ ByController /\ IsOwned(nodes[n]) /\ ~deleting
                          /\ StillWanted(n, nodes[n].gen)
              => SameNode(n)]_vars
  BY <1>1
<1>3. QED
  BY <1>2, InductiveInvariant, PTL DEF Spec, RetainedNodesSurvive


=============================================================================
