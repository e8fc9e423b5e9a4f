---------------------- MODULE SingleController_proofs ----------------------
(***************************************************************************)
(* Theorems about InstanceReconciler that rest on what a pass knows: what  *)
(* it holds of the instance, and, with a single controller, what its       *)
(* observation still says of the objects when its requests arrive.         *)
(*                                                                         *)
(* Two controllers overlap during a rollout only.  The theorems after      *)
(* ReadyIsCurrentAlways are about one controller (Solo); the README says   *)
(* what an overlap does to them.                                           *)
(***************************************************************************)
EXTENDS InstanceReconciler_proofs, BindingHistory

\* What is assumed of an instance of the model: one controller; nobody opens Nodes by
\* hand; nothing but crashes and lost responses goes wrong.
Solo == \A c, d \in Controllers : c = d
Cordoned == "uncordon" \notin Faults
Quiet == Faults \subseteq {"crash", "lost-response"}

-----------------------------------------------------------------------------
(***************************************************************************)
(* What a controller holds of the instance.  A copy with the current       *)
(* resourceVersion says what the instance is, and an intended status is    *)
(* that of the generation the pass works for.                              *)
(***************************************************************************)

IsCurrent(r) == r.gen = Len(log) /\ r.deleting = deleting /\ r.exists = exists
Committing(c) == pc[c] \in {"commit", "finalize"}
IntentOK(c) ==
    Committing(c) =>
        /\ intent[c].status.phase = "Ready" =>
             intent[c].status.observed = record[c].gen /\ ~record[c].deleting
        /\ intent[c].final => record[c].deleting
        /\ pc[c] = "finalize" => intent[c].final
CurrentOK(c) ==
    /\ cache[c].fresh => IsCurrent(cache[c])
    /\ record[c].fresh => IsCurrent(record[c])
    /\ IntentOK(c)

CInv == IInv /\ \A c \in Controllers : CurrentOK(c)

\* The parts of the state, typed, that the proofs below need.
LEMMA HoldingsTyped ==
    ASSUME IInv
    PROVE  /\ cache \in [Controllers -> Record] /\ record \in [Controllers -> Record]
           /\ pc \in [Controllers -> Steps] /\ intent \in [Controllers -> Intent]
           /\ seen \in [Controllers -> SeenType] /\ job \in [Controllers -> JobType]
           /\ queued \in [Controllers -> BOOLEAN]
           /\ log \in Seq(Scenarios) /\ Len(log) \in Nat
           /\ deleting \in BOOLEAN /\ exists \in BOOLEAN /\ status \in Status
BY DEF IInv, TypeOK, SeenType, JobType

\* What the commits of a pass say.
LEMMA IntentsSay ==
    ASSUME NEW r \in Record, NEW o
    PROVE  /\ \A blocked \in BOOLEAN : /\ Progress(r, blocked).status.phase # "Ready"
                                       /\ ~Progress(r, blocked).final
           /\ \A requeue : /\ Failure(r, requeue).status.phase # "Ready"
                           /\ ~Failure(r, requeue).final
           /\ Outcome(r, o).status.phase = "Ready" =>
                /\ ~r.deleting /\ Outcome(r, o).status.observed = r.gen
                /\ FidelitySatisfied(r.gen, o)
           /\ Outcome(r, o).final <=> r.deleting
BY DEF Progress, Failure, Outcome, Commit, BusyPhase, Record

\* Any of them fits the pass.
LEMMA IntentsFit ==
    ASSUME NEW r \in Record, NEW o, NEW i,
           \/ \E blocked \in BOOLEAN : i = Progress(r, blocked)
           \/ \E requeue : i = Failure(r, requeue)
           \/ i = Outcome(r, o)
    PROVE  /\ i.status.phase = "Ready" => i.status.observed = r.gen /\ ~r.deleting
           /\ i.final => r.deleting
<1>1. CASE i = Outcome(r, o)
  BY <1>1, IntentsSay
<1>2. CASE \E blocked \in BOOLEAN : i = Progress(r, blocked)
  BY <1>2, IntentsSay
<1>3. CASE \E requeue : i = Failure(r, requeue)
  BY <1>3, IntentsSay
<1>4. QED
  BY <1>1, <1>2, <1>3

LEMMA OutdatedIsStale ==
    ASSUME NEW records \in [Controllers -> Record], NEW c \in Controllers
    PROVE  ~Outdated(records)[c].fresh
BY DEF Outdated, Record

LEMMA NoRecordIsStale == ~NoRecord.fresh
BY DEF NoRecord

\* A controller whose copies stay or become stale, and which intends what it did.
LEMMA CurrentFrame ==
    ASSUME NEW d, CurrentOK(d),
           cache'[d] = cache[d] \/ ~cache'[d].fresh,
           \/ record'[d] = record[d]
           \/ ~record'[d].fresh /\ (pc'[d] = "idle" \/ /\ record'[d].gen = record[d].gen
                                                       /\ record'[d].deleting = record[d].deleting),
           cache'[d].fresh \/ record'[d].fresh => UNCHANGED <<log, deleting, exists>>,
           pc'[d] = "idle" \/ (pc'[d] = pc[d] /\ intent'[d] = intent[d])
    PROVE  CurrentOK(d)'
<1>1. cache'[d].fresh => IsCurrent(cache[d])'
  BY DEF CurrentOK, IsCurrent
<1>2. record'[d].fresh => IsCurrent(record[d])'
  BY DEF CurrentOK, IsCurrent
<1>3. IntentOK(d)'
  BY DEF CurrentOK, IntentOK, Committing
<1>4. QED
  BY <1>1, <1>2, <1>3 DEF CurrentOK

LEMMA CacheDeliverCurrent ==
    ASSUME CInv, NEW c \in Controllers, CacheDeliver(c), NEW d \in Controllers
    PROVE  CurrentOK(d)'
<1>1. CurrentOK(d) /\ UNCHANGED <<log, deleting, exists, record, pc, intent>>
  BY DEF CInv, CacheDeliver, instanceVars, passVars
<1>2. CASE d # c
  <2>1. cache'[d] = cache[d]
    BY <1>2, HoldingsTyped DEF CInv, CacheDeliver
  <2>2. QED
    BY <1>1, <2>1, CurrentFrame
<1>3. CASE d = c
  <2>1. IsCurrent(cache[c])'
    BY <1>1, HoldingsTyped DEF CInv, CacheDeliver, IsCurrent
  <2>2. QED
    BY <1>1, <1>3, <2>1 DEF CurrentOK, IsCurrent, IntentOK, Committing
<1>4. QED
  BY <1>2, <1>3

\* The steps of a pass before its commit.
LEMMA PassCurrent ==
    ASSUME CInv, NEW c \in Controllers, NEW d \in Controllers,
           \/ StartPass(c) \/ SkipPass(c) \/ ObserveLeases(c) \/ ObservePods(c)
           \/ EndWave(c) \/ LoseObservation(c)
    PROVE  CurrentOK(d)'
<1>1. /\ CurrentOK(d) /\ UNCHANGED <<log, deleting, exists, cache>>
      /\ pc \in [Controllers -> Steps] /\ intent \in [Controllers -> Intent]
      /\ record \in [Controllers -> Record] /\ record[c] \in Record
  BY HoldingsTyped DEF CInv, StartPass, SkipPass, ObserveLeases, ObservePods, EndWave,
     LoseObservation, instanceVars
<1>2. CASE StartPass(c)
  <2>1. CASE d = c
    BY <1>1, <1>2, <2>1 DEF StartPass, CurrentOK, IsCurrent, IntentOK, Committing
  <2>2. CASE d # c
    BY <1>1, <1>2, <2>2, CurrentFrame DEF StartPass
  <2>3. QED
    BY <2>1, <2>2
<1>3. CASE SkipPass(c)
  BY <1>1, <1>3, CurrentFrame DEF SkipPass, passVars
<1>4. CASE ObserveLeases(c)
  <2>1. CASE d = c
    BY <1>1, <1>4, <2>1 DEF ObserveLeases, CurrentOK, IsCurrent, IntentOK, Committing
  <2>2. CASE d # c
    BY <1>1, <1>4, <2>2, CurrentFrame DEF ObserveLeases
  <2>3. QED
    BY <2>1, <2>2
<1>5. CASE ObservePods(c)
  <2>1. CASE d = c
    <3>1. /\ record' = record
          /\ \/ /\ pc'[c] = "commit"
                /\ \/ intent'[c] = Progress(record[c], TRUE)
                   \/ intent'[c] = Outcome(record[c], seen[c])
             \/ pc'[c] = "apply"
      BY <1>1, <1>5 DEF ObservePods
    <3>2. pc'[c] = "commit" =>
            /\ intent'[c].status.phase = "Ready" =>
                 intent'[c].status.observed = record[c].gen /\ ~record[c].deleting
            /\ intent'[c].final => record[c].deleting
      BY <1>1, <3>1, IntentsFit
    <3>3. IntentOK(c)'
      BY <3>1, <3>2 DEF IntentOK, Committing
    <3>4. QED
      BY <1>1, <2>1, <3>1, <3>3 DEF CurrentOK, IsCurrent
  <2>2. CASE d # c
    <3>1. record' = record /\ pc'[d] = pc[d] /\ intent'[d] = intent[d]
      BY <1>1, <1>5, <2>2 DEF ObservePods
    <3>2. QED
      BY <1>1, <3>1, CurrentFrame
  <2>3. QED
    BY <2>1, <2>2
<1>6. CASE EndWave(c)
  <2>1. \/ UNCHANGED <<pc, intent, record>>
        \/ /\ pc' = [pc EXCEPT ![c] = "commit"] /\ record' = record
           /\ \/ intent' = [intent EXCEPT ![c] = Progress(record[c], FALSE)]
              \/ \E again : intent' = [intent EXCEPT ![c] = Failure(record[c], again)]
        \/ /\ pc' = [pc EXCEPT ![c] = "idle"] /\ intent' = intent
           /\ record' = [record EXCEPT ![c] = NoRecord]
    BY <1>6 DEF EndWave
  <2>2. CASE d = c
    <3>1. CASE pc' = [pc EXCEPT ![c] = "commit"] /\ record' = record
      <4>1. /\ pc'[c] = "commit"
            /\ \/ intent'[c] = Progress(record[c], FALSE)
               \/ \E again : intent'[c] = Failure(record[c], again)
               \/ pc[c] = "commit"
        BY <1>1, <2>1, <3>1
      <4>2. pc[c] = "apply"
        BY <1>6 DEF EndWave
      <4>3. /\ intent'[c].status.phase = "Ready" =>
                 intent'[c].status.observed = record[c].gen /\ ~record[c].deleting
            /\ intent'[c].final => record[c].deleting
        BY <1>1, <4>1, <4>2, IntentsFit
      <4>4. IntentOK(c)'
        BY <3>1, <4>1, <4>3 DEF IntentOK, Committing
      <4>5. QED
        BY <1>1, <2>2, <3>1, <4>4 DEF CurrentOK, IsCurrent
    <3>2. CASE UNCHANGED <<pc, intent, record>>
      BY <1>1, <3>2, CurrentFrame
    <3>3. CASE /\ pc' = [pc EXCEPT ![c] = "idle"] /\ intent' = intent
               /\ record' = [record EXCEPT ![c] = NoRecord]
      BY <1>1, <2>2, <3>3, CurrentFrame, NoRecordIsStale
    <3>4. QED
      BY <2>1, <3>1, <3>2, <3>3
  <2>3. CASE d # c
    <3>1. record'[d] = record[d] /\ pc'[d] = pc[d] /\ intent'[d] = intent[d]
      BY <1>1, <2>1, <2>3
    <3>2. QED
      BY <1>1, <3>1, CurrentFrame
  <2>4. QED
    BY <2>2, <2>3
<1>7. CASE LoseObservation(c)
  <2>1. CASE d = c
    <3>1. record' = record /\ pc'[c] = "commit" /\ intent'[c] = Failure(record[c], TRUE)
      BY <1>1, <1>7 DEF LoseObservation
    <3>2. pc'[c] = "commit" =>
            /\ intent'[c].status.phase = "Ready" =>
                 intent'[c].status.observed = record[c].gen /\ ~record[c].deleting
            /\ intent'[c].final => record[c].deleting
      BY <1>1, <3>1, IntentsFit
    <3>3. IntentOK(c)'
      BY <3>1, <3>2 DEF IntentOK, Committing
    <3>4. QED
      BY <1>1, <2>1, <3>1, <3>3 DEF CurrentOK, IsCurrent
  <2>2. CASE d # c
    <3>1. record' = record /\ pc'[d] = pc[d] /\ intent'[d] = intent[d]
      BY <1>1, <1>7, <2>2 DEF LoseObservation
    <3>2. QED
      BY <1>1, <3>1, CurrentFrame
  <2>3. QED
    BY <2>1, <2>2
<1>8. QED
  BY <1>2, <1>3, <1>4, <1>5, <1>6, <1>7

\* The end of a pass, after a write to the instance or without one.
LEMMA EndPassCurrent ==
    ASSUME CInv, NEW c \in Controllers, NEW d \in Controllers,
           NEW records, NEW again \in BOOLEAN, EndPass(c, records, again),
           \/ records = record /\ cache' = cache /\ UNCHANGED <<log, deleting, exists>>
           \/ records = Outdated(record) /\ cache' = Outdated(cache)
    PROVE  CurrentOK(d)'
<1>1. /\ CurrentOK(d) /\ TypeOK
      /\ cache \in [Controllers -> Record] /\ record \in [Controllers -> Record]
      /\ intent \in [Controllers -> Intent]
  BY HoldingsTyped DEF CInv, IInv
<1>2. records \in [Controllers -> Record]
  BY <1>1, OutdatedTyped
<1>3. /\ pc'[c] = "idle" /\ record'[c] = NoRecord
      /\ d # c => pc'[d] = pc[d] /\ record'[d] = records[d] /\ intent'[d] = intent[d]
  BY <1>1, <1>2, EndPassTyped DEF EndPass
<1>4. CASE records = record /\ cache' = cache /\ UNCHANGED <<log, deleting, exists>>
  BY <1>1, <1>3, <1>4, NoRecordIsStale, CurrentFrame
<1>5. CASE records = Outdated(record) /\ cache' = Outdated(cache)
  <2>1. /\ ~cache'[d].fresh /\ ~record'[d].fresh
        /\ d # c => /\ record'[d].gen = record[d].gen
                    /\ record'[d].deleting = record[d].deleting
    BY <1>1, <1>3, <1>5, OutdatedTyped, OutdatedIsStale, NoRecordIsStale
  <2>2. QED
    BY <1>1, <1>3, <2>1, CurrentFrame
<1>6. QED
  BY <1>4, <1>5

LEMMA CommitCurrent ==
    ASSUME CInv, NEW c \in Controllers, NEW d \in Controllers,
           \/ CommitStatus(c) \/ CommitConflict(c) \/ RemoveFinalizer(c)
           \/ FinalizerConflict(c)
    PROVE  CurrentOK(d)'
<1>1. /\ CurrentOK(d) /\ CurrentOK(c) /\ pc \in [Controllers -> Steps]
      /\ cache \in [Controllers -> Record] /\ record \in [Controllers -> Record]
      /\ intent \in [Controllers -> Intent] /\ intent[c].requeue \in BOOLEAN
  BY HoldingsTyped DEF CInv, Intent
<1>2. CASE CommitStatus(c)
  <2> DEFINE records == IF cache' = cache THEN record ELSE Outdated(record)
  <2>1. /\ UNCHANGED <<log, deleting, exists>> /\ pc[c] = "commit"
        /\ cache' = cache \/ cache' = Outdated(cache)
    BY <1>2 DEF CommitStatus, WriteStatus
  <2>2. CASE ~intent[c].final
    <3>1. EndPass(c, records, intent[c].requeue)
      BY <1>2, <2>2 DEF CommitStatus
    <3>2. QED
      BY <1>1, <2>1, <3>1, EndPassCurrent
  <2>3. CASE intent[c].final
    <3>1. pc' = [pc EXCEPT ![c] = "finalize"] /\ record' = records /\ intent' = intent
      BY <1>2, <2>3 DEF CommitStatus
    <3>2. /\ record'[d].gen = record[d].gen /\ record'[d].deleting = record[d].deleting
          /\ record'[d] = record[d] \/ ~record'[d].fresh
          /\ cache'[d] = cache[d] \/ ~cache'[d].fresh
      BY <1>1, <2>1, <3>1, OutdatedTyped, OutdatedIsStale
    <3>3. IntentOK(d)'
      BY <1>1, <2>1, <2>3, <3>1, <3>2 DEF CurrentOK, IntentOK, Committing
    <3>4. QED
      BY <1>1, <2>1, <3>2, <3>3 DEF CurrentOK, IsCurrent
  <2>4. QED
    BY <2>2, <2>3
<1>3. CASE CommitConflict(c) \/ FinalizerConflict(c)
  BY <1>3, EndPassCurrent DEF CommitConflict, FinalizerConflict, instanceVars
<1>4. CASE RemoveFinalizer(c)
  BY <1>4, EndPassCurrent DEF RemoveFinalizer
<1>5. QED
  BY <1>2, <1>3, <1>4

LEMMA CrashCurrent ==
    ASSUME CInv, NEW c \in Controllers, Crash(c), NEW d \in Controllers
    PROVE  CurrentOK(d)'
<1>1. CurrentOK(d) /\ UNCHANGED <<log, deleting, exists>>
  BY DEF CInv, Crash, instanceVars
<1>2. CASE d = c
  <2>1. ~cache'[c].fresh /\ ~record'[c].fresh /\ pc'[c] = "idle"
    BY HoldingsTyped, NoRecordIsStale DEF CInv, Crash
  <2>2. QED
    BY <1>1, <1>2, <2>1, CurrentFrame
<1>3. CASE d # c
  <2>1. /\ cache'[d] = cache[d] /\ record'[d] = record[d]
        /\ pc'[d] = pc[d] /\ intent'[d] = intent[d]
    BY <1>3, HoldingsTyped DEF CInv, Crash
  <2>2. QED
    BY <1>1, <2>1, CurrentFrame
<1>4. QED
  BY <1>2, <1>3

\* A write of a client makes every copy stale.
LEMMA ClientCurrent ==
    ASSUME CInv, RequestDeletion \/ \E s \in Scenarios : AcceptRevision(s),
           NEW d \in Controllers
    PROVE  CurrentOK(d)'
<1>1. /\ CurrentOK(d) /\ UNCHANGED <<pc, intent>>
      /\ cache' = Outdated(cache) /\ record' = Outdated(record)
  BY DEF CInv, RequestDeletion, AcceptRevision, InstanceWritten
<1>2. cache \in [Controllers -> Record] /\ record \in [Controllers -> Record]
  BY HoldingsTyped DEF CInv
<1>3. /\ ~cache'[d].fresh /\ ~record'[d].fresh
      /\ record'[d].gen = record[d].gen /\ record'[d].deleting = record[d].deleting
  BY <1>1, <1>2, OutdatedTyped, OutdatedIsStale
<1>4. QED
  BY <1>1, <1>3, CurrentFrame

LEMMA StepKeepsCInv == CInv /\ [Next]_vars => CInv'
<1> SUFFICES ASSUME CInv, [Next]_vars PROVE CInv'
  OBVIOUS
<1>1. IInv'
  BY StepKeepsIInv DEF CInv
<1>2. ASSUME NEW d \in Controllers PROVE CurrentOK(d)'
  <2>1. CASE UNCHANGED <<log, deleting, exists, cache, record, pc, intent>>
    BY <2>1, CurrentFrame DEF CInv
  <2>2. ASSUME NEW c \in Controllers, CacheDeliver(c) \/ Pass(c) \/ Upset(c)
        PROVE  CurrentOK(d)'
    <3>1. CASE \E n \in Names : Request(c, n) \/ LoseResponse(c, n)
      BY <2>1, <3>1 DEF Request, LoseResponse, instanceVars
    <3>2. CASE ~ \E n \in Names : Request(c, n) \/ LoseResponse(c, n)
      BY <2>2, <3>2, CacheDeliverCurrent, PassCurrent, CommitCurrent, CrashCurrent
         DEF Pass, Upset
    <3>3. QED
      BY <3>1, <3>2
  <2>3. CASE Environment
    <3>1. CASE RequestDeletion \/ \E s \in Scenarios : AcceptRevision(s)
      BY <3>1, ClientCurrent
    <3>2. CASE ~(RequestDeletion \/ \E s \in Scenarios : AcceptRevision(s))
      BY <2>1, <2>3, <3>2 DEF Environment, KwokReady, KwokLease, CollectGarbage, Bind,
         FinishPod, Schedule, Disturb, instanceVars, passVars
    <3>3. QED
      BY <3>1, <3>2
  <2>4. CASE UNCHANGED vars
    BY <2>1, <2>4 DEF vars, instanceVars, passVars
  <2>5. QED
    BY <2>2, <2>3, <2>4 DEF Next
<1>3. QED
  BY <1>1, <1>2 DEF CInv

LEMMA InitCInv == Init => CInv
<1> SUFFICES ASSUME Init, NEW c \in Controllers PROVE CurrentOK(c)
  BY InitIInv DEF CInv
<1>1. cache[c] = NoRecord /\ record[c] = NoRecord /\ pc[c] = "idle"
  BY DEF Init
<1>2. QED
  BY <1>1, NoRecordIsStale DEF CurrentOK, IntentOK, Committing

LEMMA CopiesAreCurrent == Spec => []CInv
BY InitCInv, StepKeepsCInv, PTL DEF Spec

\* OUT-004: Ready is only committed for the generation that is current then, and not
\* after a deletion was requested; by any number of controllers.
THEOREM ReadyIsCurrentAlways == Spec => ReadyIsCurrent
<1>1. ASSUME CInv, [Next]_vars, status' # status, status'.phase = "Ready"
      PROVE  status'.observed = Len(log') /\ ~deleting'
  <2>1. \E c \in Controllers : CommitStatus(c)
    <3>1. \/ \E c \in Controllers : CacheDeliver(c) \/ Pass(c) \/ Upset(c)
          \/ Environment
      BY <1>1 DEF Next, vars, instanceVars
    <3>2. ASSUME NEW c \in Controllers, CacheDeliver(c) \/ Upset(c)
          PROVE  status' = status
      BY <3>2 DEF CacheDeliver, Upset, Crash, LoseObservation, LoseResponse, instanceVars
    <3>3. Environment => status' = status
      BY DEF Environment, AcceptRevision, RequestDeletion, KwokReady, KwokLease,
         CollectGarbage, Bind, FinishPod, Schedule, Disturb, instanceVars
    <3>4. ASSUME NEW c \in Controllers, Pass(c), ~CommitStatus(c)
          PROVE  status' = status
      BY <3>4 DEF Pass, StartPass, SkipPass, ObserveLeases, ObservePods, Request, EndWave,
         CommitConflict, RemoveFinalizer, FinalizerConflict, instanceVars
    <3>5. QED
      BY <1>1, <3>1, <3>2, <3>3, <3>4
  <2>2. PICK c \in Controllers : CommitStatus(c)
    BY <2>1
  <2>3. /\ status' = intent[c].status /\ pc[c] = "commit" /\ record[c].fresh
        /\ UNCHANGED <<log, deleting>>
    BY <2>2 DEF CommitStatus, WriteStatus, MayCommit
  <2>4. QED
    BY <1>1, <2>3 DEF CInv, CurrentOK, IntentOK, Committing, IsCurrent
<1>2. CInv /\ [Next]_vars =>
        [status'.phase = "Ready" /\ status' # status
            => status'.observed = Len(log') /\ ~deleting']_vars
  BY <1>1
<1>3. QED
  BY <1>2, CopiesAreCurrent, PTL DEF Spec, ReadyIsCurrent


-----------------------------------------------------------------------------
(***************************************************************************)
(* The kinds of steps.                                                     *)
(***************************************************************************)

\* The parts of a Node that only a request changes.
Alike(x, s) == /\ x.gen = s.gen /\ x.keys = s.keys /\ x.active = s.active
               /\ x.res = s.res /\ x.alloc = s.alloc

\* What the garbage collector, KWOK and manual changes do to a Node and a Lease.
NodeMoves(n) ==
    \/ nodes'[n] = nodes[n]
    \/ /\ IsOwned(nodes[n]) /\ nodes'[n] = Absent
       /\ exists => "delete-node" \in Faults
    \/ nodes[n] = Absent /\ nodes'[n] = Foreign /\ "foreign-node" \in Faults
    \/ /\ IsOwned(nodes[n]) /\ IsOwned(nodes'[n]) /\ Alike(nodes'[n], nodes[n])
       /\ nodes'[n].uid = nodes[n].uid
       /\ \/ nodes'[n].open = nodes[n].open
          \/ "uncordon" \in Faults /\ nodes'[n].open
       /\ nodes[n].ready => nodes'[n].ready \/ "not-ready" \in Faults
LeaseMoves(n) ==
    \/ leases'[n] = leases[n]
    \/ /\ IsOwned(leases[n]) /\ leases'[n] = Absent
       /\ exists => "delete-lease" \in Faults
    \/ /\ leases[n] = Absent /\ leases'[n] = Foreign
       /\ \/ "foreign-lease" \in Faults
          \/ IsOwned(nodes[n]) /\ nodes[n].active

Outside == /\ UNCHANGED <<instanceVars, births, cache, queued, passVars>>
           /\ \A n \in Names : NodeMoves(n) /\ LeaseMoves(n)

\* One request of the wave of c ended.
Answered(c, n) ==
    /\ pc[c] = "apply" /\ n \in job[c].wave
    /\ \E errors \in SUBSET Errors : Answer(c, n, errors)
    /\ RequestSucceeds(c, n) \/ UNCHANGED clusterVars
    /\ UNCHANGED <<instanceVars, pods, cache, queued, pc, record, seen, intent>>

\* The steps that leave the objects alone: of a controller, and of a client.
Inner(c) ==
    /\ \/ CacheDeliver(c) \/ StartPass(c) \/ SkipPass(c) \/ ObserveLeases(c)
       \/ ObservePods(c) \/ EndWave(c) \/ LoseObservation(c) \/ CommitStatus(c)
       \/ CommitConflict(c) \/ RemoveFinalizer(c) \/ FinalizerConflict(c) \/ Crash(c)
    /\ UNCHANGED <<clusterVars, pods>>
ByClient == /\ RequestDeletion \/ \E s \in Scenarios : AcceptRevision(s)
            /\ UNCHANGED <<clusterVars, pods, pc, seen, job, intent>>

LEMMA KwokOutside ==
    ASSUME IInv, NEW m \in Names, KwokReady(m) \/ KwokLease(m) \/ CollectGarbage(m)
    PROVE  Outside
<1>1. UNCHANGED <<instanceVars, births, cache, queued, passVars>>
  BY DEF KwokReady, KwokLease, CollectGarbage
<1>2. ASSUME NEW n \in Names PROVE NodeMoves(n) /\ LeaseMoves(n)
  <2>1. CASE KwokReady(m)
    <3>1. nodes[m] \in NodeObject
      BY <2>1, ObjectsTyped DEF KwokReady
    <3>2. PICK node \in NodeObject : /\ Alike(node, nodes[m]) /\ node.uid = nodes[m].uid
                                     /\ node.open = nodes[m].open /\ node.ready
                                     /\ nodes' = [nodes EXCEPT ![m] = node]
      <4>1. LET node == [nodes[m] EXCEPT !.ready = TRUE]
            IN  /\ node \in NodeObject /\ Alike(node, nodes[m]) /\ node.uid = nodes[m].uid
                /\ node.open = nodes[m].open /\ node.ready
        BY <3>1 DEF NodeObject, Alike
      <4>2. QED
        BY <2>1, <4>1 DEF KwokReady
    <3>3. QED
      BY <2>1, <3>2, ObjectsTyped, ObjectsAssumption DEF KwokReady, NodeMoves, LeaseMoves, IsOwned
  <2>2. CASE KwokLease(m)
    BY <2>2, ObjectsTyped DEF KwokLease, NodeMoves, LeaseMoves
  <2>3. CASE CollectGarbage(m)
    BY <2>3, ObjectsTyped DEF CollectGarbage, NodeMoves, LeaseMoves
  <2>4. QED
    BY <2>1, <2>2, <2>3
<1>3. QED
  BY <1>1, <1>2 DEF Outside

LEMMA DisturbOutside ==
    ASSUME IInv, NEW kind \in Faults, NEW m \in Names, Disturb(kind, m)
    PROVE  Outside
<1>1. UNCHANGED <<instanceVars, births, cache, queued, passVars>>
  BY DEF Disturb
<1>2. ASSUME NEW n \in Names PROVE NodeMoves(n) /\ LeaseMoves(n)
  <2>1. CASE /\ kind = "uncordon" /\ IsOwned(nodes[m]) /\ leases' = leases
             /\ nodes' = [nodes EXCEPT ![m].open = TRUE]
    <3>1. nodes[m] \in NodeObject
      BY <2>1, ObjectsTyped
    <3>2. PICK node \in NodeObject : /\ Alike(node, nodes[m]) /\ node.uid = nodes[m].uid
                                     /\ node.ready = nodes[m].ready /\ node.open
                                     /\ nodes' = [nodes EXCEPT ![m] = node]
      <4>1. LET node == [nodes[m] EXCEPT !.open = TRUE]
            IN  /\ node \in NodeObject /\ Alike(node, nodes[m]) /\ node.uid = nodes[m].uid
                /\ node.ready = nodes[m].ready /\ node.open
        BY <3>1 DEF NodeObject, Alike
      <4>2. QED
        BY <2>1, <4>1
    <3>3. QED
      BY <2>1, <3>2, ObjectsTyped, ObjectsAssumption DEF NodeMoves, LeaseMoves, IsOwned
  <2>2. CASE /\ kind = "not-ready" /\ IsOwned(nodes[m]) /\ leases' = leases
             /\ nodes' = [nodes EXCEPT ![m].ready = FALSE]
    <3>1. nodes[m] \in NodeObject
      BY <2>2, ObjectsTyped
    <3>2. PICK node \in NodeObject : /\ Alike(node, nodes[m]) /\ node.uid = nodes[m].uid
                                     /\ node.open = nodes[m].open
                                     /\ nodes' = [nodes EXCEPT ![m] = node]
      <4>1. LET node == [nodes[m] EXCEPT !.ready = FALSE]
            IN  /\ node \in NodeObject /\ Alike(node, nodes[m]) /\ node.uid = nodes[m].uid
                /\ node.open = nodes[m].open
        BY <3>1 DEF NodeObject, Alike
      <4>2. QED
        BY <2>2, <4>1
    <3>3. QED
      BY <2>2, <3>2, ObjectsTyped, ObjectsAssumption DEF NodeMoves, LeaseMoves, IsOwned
  <2>3. CASE leases' = leases /\
             \/ kind = "delete-node" /\ IsOwned(nodes[m]) /\ nodes' = [nodes EXCEPT ![m] = Absent]
             \/ kind = "foreign-node" /\ nodes[m] = Absent /\ nodes' = [nodes EXCEPT ![m] = Foreign]
    BY <2>3, ObjectsTyped DEF NodeMoves, LeaseMoves
  <2>4. CASE nodes' = nodes /\
             \/ kind = "delete-lease" /\ IsOwned(leases[m]) /\ leases' = [leases EXCEPT ![m] = Absent]
             \/ kind = "foreign-lease" /\ leases[m] = Absent /\ leases' = [leases EXCEPT ![m] = Foreign]
    BY <2>4, ObjectsTyped DEF NodeMoves, LeaseMoves
  <2>5. QED
    BY <2>1, <2>2, <2>3, <2>4 DEF Disturb
<1>3. QED
  BY <1>1, <1>2 DEF Outside

\* Every step is of one kind.
LEMMA StepKinds ==
    ASSUME IInv, [Next]_vars
    PROVE  \/ \E c \in Controllers : Inner(c) \/ \E n \in Names : Answered(c, n)
           \/ ByClient
           \/ Outside
<1>1. CASE UNCHANGED vars
  BY <1>1 DEF vars, clusterVars, Outside, NodeMoves, LeaseMoves
<1>2. ASSUME NEW c \in Controllers, CacheDeliver(c) \/ Pass(c) \/ Upset(c)
      PROVE  Inner(c) \/ \E n \in Names : Answered(c, n)
  <2>1. CASE \E n \in Names : Request(c, n) \/ LoseResponse(c, n)
    BY <2>1 DEF Request, LoseResponse, Answered, Errors
  <2>2. CASE ~ \E n \in Names : Request(c, n) \/ LoseResponse(c, n)
    BY <1>2, <2>2 DEF Inner, Pass, Upset, CacheDeliver, StartPass, SkipPass, ObserveLeases,
       ObservePods, EndWave, CommitStatus, CommitConflict, RemoveFinalizer,
       FinalizerConflict, Crash, LoseObservation
  <2>3. QED
    BY <2>1, <2>2
<1>3. CASE Environment
  <2>1. CASE RequestDeletion \/ \E s \in Scenarios : AcceptRevision(s)
    BY <2>1 DEF ByClient, RequestDeletion, AcceptRevision
  <2>2. CASE \E p \in Pods : Bind(p) \/ FinishPod(p) \/ \E n \in Names : Schedule(p, n)
    BY <2>2 DEF Bind, FinishPod, Schedule, clusterVars, Outside, NodeMoves, LeaseMoves
  <2>3. QED
    BY <1>3, <2>1, <2>2, KwokOutside, DisturbOutside DEF Environment
<1>4. QED
  BY <1>1, <1>2, <1>3 DEF Next

-----------------------------------------------------------------------------
(***************************************************************************)
(* What is known of the observation when a stage is chosen: the stages     *)
(* before it had nothing to change.                                        *)
(***************************************************************************)

Empty(stages, i) == stages[i].on = {}

LEMMA NothingDue ==
    ASSUME NEW stages, NEW m \in 1..13, DOMAIN stages = 1..m, FirstDue(stages) = {}
    PROVE  \A i \in 1..m : Empty(stages, i)
<1>0. \A i \in 1..13 : /\ i <= m
                       /\ \A j \in 1..13 : j < i => Empty(stages, j)
                       => Empty(stages, i)
  <2> SUFFICES ASSUME NEW i \in 1..13, i <= m, stages[i].on # {},
                      \A j \in 1..13 : j < i => Empty(stages, j)
               PROVE  FALSE
    BY DEF Empty
  <2>1. i \in DOMAIN stages
    OBVIOUS
  <2>2. \A j \in 1..(i - 1) : j \in 1..13 /\ j < i
    OBVIOUS
  <2>3. \A j \in 1..(i - 1) : stages[j].on = {}
    BY <2>2 DEF Empty
  <2>4. i \in FirstDue(stages)
    BY <2>1, <2>3 DEF FirstDue
  <2>5. QED
    BY <2>4
<1> DEFINE E(i) == i <= m => Empty(stages, i)
<1> HIDE DEF Empty
<1>1. E(1)
  BY <1>0
<1>2. E(2)
  BY <1>0, <1>1
<1>3. E(3)
  BY <1>0, <1>1, <1>2
<1>4. E(4)
  BY <1>0, <1>1, <1>2, <1>3
<1>5. E(5)
  BY <1>0, <1>1, <1>2, <1>3, <1>4
<1>6. E(6)
  BY <1>0, <1>1, <1>2, <1>3, <1>4, <1>5
<1>7. E(7)
  BY <1>0, <1>1, <1>2, <1>3, <1>4, <1>5, <1>6
<1>8. E(8)
  BY <1>0, <1>1, <1>2, <1>3, <1>4, <1>5, <1>6, <1>7
<1>9. E(9)
  BY <1>0, <1>1, <1>2, <1>3, <1>4, <1>5, <1>6, <1>7, <1>8
<1>10. E(10)
  BY <1>0, <1>1, <1>2, <1>3, <1>4, <1>5, <1>6, <1>7, <1>8, <1>9
<1>11. E(11)
  BY <1>0, <1>1, <1>2, <1>3, <1>4, <1>5, <1>6, <1>7, <1>8, <1>9, <1>10
<1>12. E(12)
  BY <1>0, <1>1, <1>2, <1>3, <1>4, <1>5, <1>6, <1>7, <1>8, <1>9, <1>10, <1>11
<1>13. E(13)
  BY <1>0, <1>1, <1>2, <1>3, <1>4, <1>5, <1>6, <1>7, <1>8, <1>9, <1>10, <1>11, <1>12
<1>14. QED
  BY <1>1, <1>2, <1>3, <1>4, <1>5, <1>6, <1>7, <1>8, <1>9, <1>10, <1>11, <1>12, <1>13

\* The stage of a pass is the first that has a change, if there is one.
LEMMA FirstStageIsFirst ==
    ASSUME NEW stages, NEW m \in 1..13, DOMAIN stages = 1..m
    PROVE  \/ /\ FirstStage(stages) = Stage("none", {})
              /\ \A i \in 1..m : stages[i].on = {}
           \/ \E i \in 1..m : /\ FirstStage(stages) = stages[i] /\ stages[i].on # {}
                              /\ \A j \in 1..(i - 1) : stages[j].on = {}
<1>1. CASE FirstDue(stages) = {}
  BY <1>1, NothingDue DEF FirstStage, Empty
<1>2. CASE FirstDue(stages) # {}
  <2>1. PICK i \in FirstDue(stages) : FirstStage(stages) = stages[i]
    BY <1>2 DEF FirstStage
  <2>2. QED
    BY <2>1 DEF FirstDue
<1>3. QED
  BY <1>1, <1>2

\* What the observation o says of every object that a stage of the pass changes.
Due(op, n, g, o, forDeletion) ==
    /\ forDeletion => op \in {"close-seen", "delete-node", "delete-lease"}
    /\ op \in {"create-node", "metadata", "close", "open"} => o.leases[n] # Absent
    /\ op = "status" => /\ o.nodes[n] # Absent
                        /\ o.nodes[n].open => o.nodes[n].res \in {NoResource, log[g][n].res}
    /\ op = "open" => o.nodes[n] # Absent /\ Converged(o.nodes[n], log[g][n])
    /\ op = "delete-lease" => o.nodes[n] = Absent
Unoccupied(op, n) == op = "delete-node" => n \notin BusyNodes

LEMMA ConvergenceDue ==
    ASSUME NEW g, NEW o, Wanted(g) \subseteq Names
    PROVE  LET stage == FirstStage(ConvergenceStages(g, o))
           IN  stage.op \notin {"none", "blocked"} =>
                 \A n \in stage.on : Due(stage.op, n, g, o, FALSE) /\ Unoccupied(stage.op, n)
<1> DEFINE stages == ConvergenceStages(g, o)
           stage == FirstStage(stages)
<1>1. DOMAIN stages = 1..13
  BY DEF ConvergenceStages
<1>2. \/ FirstStage(stages) = Stage("none", {})
      \/ \E i \in 1..13 : /\ FirstStage(stages) = stages[i]
                          /\ \A j \in 1..(i - 1) : stages[j].on = {}
  <2>1. 13 \in 1..13
    OBVIOUS
  <2> HIDE DEF stages
  <2>2. QED
    BY <1>1, <2>1, FirstStageIsFirst
<1>3. /\ stages[1] = Stage("repair", Repairs(g, o))
      /\ stages[2] = Stage("create-lease", LeasesMissing(g, o))
      /\ stages[3] = Stage("create-node", NodesMissing(g, o))
      /\ stages[4] = Stage("metadata", MetadataChanges(g, o))
      /\ stages[5] = Stage("lease-metadata", LeaseMetadataChanges(g, o))
      /\ stages[6] = Stage("close", ReplacementCloses(g, o))
      /\ stages[7] = Stage("status", StatusChanges(g, o))
      /\ stages[8] = Stage("close-seen", OpenAmong(StaleNodes(g, o), o))
      /\ stages[9] = Stage("blocked", StaleNodes(g, o) \intersect BusyNodes)
      /\ stages[10] = Stage("delete-node", StaleNodes(g, o))
      /\ stages[11] = Stage("delete-lease", StaleLeases(g, o))
      /\ stages[12] = Stage("close", MustClose(g, o))
      /\ stages[13] = Stage("open", OpenNodes(g, o))
  BY DEF ConvergenceStages
<1> HIDE DEF stages
<1> SUFFICES ASSUME stage.op \notin {"none", "blocked"}, NEW n \in stage.on
             PROVE  Due(stage.op, n, g, o, FALSE) /\ Unoccupied(stage.op, n)
  BY DEF stages
<1>4. PICK i \in 1..13 : stage = stages[i] /\ \A j \in 1..(i - 1) : stages[j].on = {}
  <2>1. Stage("none", {}).op = "none"
    BY DEF Stage
  <2>2. stage # Stage("none", {})
    BY <2>1
  <2>3. QED
    BY <1>2, <2>2
<1>5. CASE i \in {1, 2, 5, 8, 9}
  BY <1>3, <1>4, <1>5 DEF Stage, Due, Unoccupied
<1>6. CASE i = 3
  BY <1>3, <1>4, <1>6 DEF Stage, Due, Unoccupied, NodesMissing
<1>7. CASE i \in {4, 6, 12}
  <2>1. n \in Wanted(g) /\ stage.op \in {"metadata", "close"}
    BY <1>3, <1>4, <1>7 DEF Stage, MetadataChanges, ReplacementCloses, MustClose
  <2>2. LeasesMissing(g, o) = {}
    BY <1>3, <1>4, <1>7 DEF Stage
  <2>3. QED
    BY <2>1, <2>2 DEF LeasesMissing, Due, Unoccupied
<1>8. CASE i = 7
  <2>1. n \in StatusChanges(g, o) /\ stage.op = "status" /\ ReplacementCloses(g, o) = {}
    BY <1>3, <1>4, <1>8 DEF Stage
  <2>2. QED
    BY <2>1 DEF StatusChanges, ReplacementCloses, Due, Unoccupied
<1>9. CASE i = 10
  <2>1. /\ n \in StaleNodes(g, o) /\ stage.op = "delete-node"
        /\ StaleNodes(g, o) \intersect BusyNodes = {}
    BY <1>3, <1>4, <1>9 DEF Stage
  <2>2. QED
    BY <2>1 DEF Due, Unoccupied
<1>10. CASE i = 11
  <2>1. n \in StaleLeases(g, o) /\ stage.op = "delete-lease" /\ StaleNodes(g, o) = {}
    BY <1>3, <1>4, <1>10 DEF Stage
  <2>2. QED
    BY <2>1 DEF StaleLeases, StaleNodes, Due, Unoccupied
<1>11. CASE i = 13
  <2>1. n \in OpenNodes(g, o) /\ stage.op = "open" /\ LeasesMissing(g, o) = {}
    BY <1>3, <1>4, <1>11 DEF Stage
  <2>2. n \in Wanted(g) /\ Complete(g, o, n)
    BY <2>1 DEF OpenNodes
  <2>3. QED
    BY <2>1, <2>2 DEF Complete, LeasesMissing, Due, Unoccupied
<1>12. \/ i \in {1, 2, 5, 8, 9} \/ i = 3 \/ i \in {4, 6, 12} \/ i = 7
       \/ i = 10 \/ i = 11 \/ i = 13
  BY <1>4
<1>13. QED
  BY <1>12, <1>5, <1>6, <1>7, <1>8, <1>9, <1>10, <1>11

\* A pass has nothing left to do: every stage is empty.
LEMMA ConvergenceOver ==
    ASSUME NEW g, NEW o, Wanted(g) \subseteq Names
    PROVE  LET stage == FirstStage(ConvergenceStages(g, o))
           IN  (stage.op = "none") <=>
                 /\ Repairs(g, o) = {} /\ LeasesMissing(g, o) = {}
                 /\ NodesMissing(g, o) = {} /\ MetadataChanges(g, o) = {}
                 /\ LeaseMetadataChanges(g, o) = {} /\ ReplacementCloses(g, o) = {}
                 /\ StatusChanges(g, o) = {} /\ StaleNodes(g, o) = {}
                 /\ StaleLeases(g, o) = {} /\ MustClose(g, o) = {} /\ OpenNodes(g, o) = {}
<1> DEFINE stages == ConvergenceStages(g, o)
           stage == FirstStage(stages)
<1>1. DOMAIN stages = 1..13
  BY DEF ConvergenceStages
<1>2. \/ stage = Stage("none", {}) /\ \A i \in 1..13 : stages[i].on = {}
      \/ \E i \in 1..13 : stage = stages[i] /\ stages[i].on # {}
  <2>1. 13 \in 1..13
    OBVIOUS
  <2> HIDE DEF stages
  <2>2. QED
    BY <1>1, <2>1, FirstStageIsFirst
<1>3. /\ stages[1] = Stage("repair", Repairs(g, o))
      /\ stages[2] = Stage("create-lease", LeasesMissing(g, o))
      /\ stages[3] = Stage("create-node", NodesMissing(g, o))
      /\ stages[4] = Stage("metadata", MetadataChanges(g, o))
      /\ stages[5] = Stage("lease-metadata", LeaseMetadataChanges(g, o))
      /\ stages[6] = Stage("close", ReplacementCloses(g, o))
      /\ stages[7] = Stage("status", StatusChanges(g, o))
      /\ stages[8] = Stage("close-seen", OpenAmong(StaleNodes(g, o), o))
      /\ stages[9] = Stage("blocked", StaleNodes(g, o) \intersect BusyNodes)
      /\ stages[10] = Stage("delete-node", StaleNodes(g, o))
      /\ stages[11] = Stage("delete-lease", StaleLeases(g, o))
      /\ stages[12] = Stage("close", MustClose(g, o))
      /\ stages[13] = Stage("open", OpenNodes(g, o))
  BY DEF ConvergenceStages
<1> HIDE DEF stages
<1>4. CASE stage = Stage("none", {}) /\ \A i \in 1..13 : stages[i].on = {}
  BY <1>3, <1>4 DEF Stage, stages
<1>5. ASSUME NEW i \in 1..13, stage = stages[i], stages[i].on # {}
      PROVE  /\ stage.op # "none"
             /\ ~(/\ Repairs(g, o) = {} /\ LeasesMissing(g, o) = {}
                 /\ NodesMissing(g, o) = {} /\ MetadataChanges(g, o) = {}
                 /\ LeaseMetadataChanges(g, o) = {} /\ ReplacementCloses(g, o) = {}
                 /\ StatusChanges(g, o) = {} /\ StaleNodes(g, o) = {}
                 /\ StaleLeases(g, o) = {} /\ MustClose(g, o) = {} /\ OpenNodes(g, o) = {})
  <2>1. stage.op # "none"
    BY <1>3, <1>5 DEF Stage
  <2>2. StaleNodes(g, o) = {} => OpenAmong(StaleNodes(g, o), o) = {}
    BY DEF OpenAmong
  <2>3. QED
    BY <1>3, <1>5, <2>1, <2>2 DEF Stage
<1>6. QED
  BY <1>2, <1>4, <1>5 DEF stages

LEMMA DeletionDue ==
    ASSUME NEW o, NEW g
    PROVE  LET stage == FirstStage(DeletionStages(o))
           IN  /\ stage.op \notin {"none", "blocked"} =>
                    \A n \in stage.on : Due(stage.op, n, g, o, TRUE) /\ Unoccupied(stage.op, n)
               /\ stage.op = "none" => OwnedNodes(o) = {} /\ OwnedLeases(o) = {}
<1> DEFINE stages == DeletionStages(o)
           stage == FirstStage(stages)
<1>1. DOMAIN stages = 1..4
  BY DEF DeletionStages
<1>2. \/ stage = Stage("none", {}) /\ \A i \in 1..4 : stages[i].on = {}
      \/ \E i \in 1..4 : /\ stage = stages[i] /\ stages[i].on # {}
                         /\ \A j \in 1..(i - 1) : stages[j].on = {}
  <2>1. 4 \in 1..13
    OBVIOUS
  <2> HIDE DEF stages
  <2>2. QED
    BY <1>1, <2>1, FirstStageIsFirst
<1>3. /\ stages[1] = Stage("close-seen", OpenAmong(OwnedNodes(o), o))
      /\ stages[2] = Stage("blocked", OwnedNodes(o) \intersect BusyNodes)
      /\ stages[3] = Stage("delete-node", OwnedNodes(o))
      /\ stages[4] = Stage("delete-lease", OwnedLeases(o))
  BY DEF DeletionStages
<1> HIDE DEF stages
<1>4. ASSUME stage = Stage("none", {}), \A i \in 1..4 : stages[i].on = {}
      PROVE  stage.op = "none" /\ OwnedNodes(o) = {} /\ OwnedLeases(o) = {}
  BY <1>3, <1>4 DEF Stage
<1>5. ASSUME NEW i \in 1..4, stage = stages[i], \A j \in 1..(i - 1) : stages[j].on = {}
      PROVE  /\ stage.op # "none"
             /\ stage.op # "blocked" =>
                    \A n \in stage.on : Due(stage.op, n, g, o, TRUE) /\ Unoccupied(stage.op, n)
  <2>1. CASE i \in {1, 2}
    BY <1>3, <1>5, <2>1 DEF Stage, Due, Unoccupied
  <2>2. CASE i = 3
    <3>1. stage = Stage("delete-node", OwnedNodes(o)) /\ OwnedNodes(o) \intersect BusyNodes = {}
      BY <1>3, <1>5, <2>2 DEF Stage
    <3>2. QED
      BY <3>1 DEF Stage, Due, Unoccupied
  <2>3. CASE i = 4
    <3>1. stage = Stage("delete-lease", OwnedLeases(o)) /\ OwnedNodes(o) = {}
      BY <1>3, <1>5, <2>3 DEF Stage
    <3>2. QED
      BY <3>1 DEF Stage, Due, Unoccupied, OwnedNodes, OwnedLeases
  <2>4. i \in {1, 2} \/ i = 3 \/ i = 4
    BY <1>5
  <2>5. QED
    BY <2>1, <2>2, <2>3, <2>4
<1>6. /\ stage.op \notin {"none", "blocked"} =>
           \A n \in stage.on : Due(stage.op, n, g, o, TRUE) /\ Unoccupied(stage.op, n)
      /\ stage.op = "none" => OwnedNodes(o) = {} /\ OwnedLeases(o) = {}
  <2>1. CASE stage = Stage("none", {}) /\ \A i \in 1..4 : stages[i].on = {}
    BY <1>4, <2>1
  <2>2. CASE \E i \in 1..4 : /\ stage = stages[i] /\ stages[i].on # {}
                             /\ \A j \in 1..(i - 1) : stages[j].on = {}
    BY <1>5, <2>2
  <2>3. QED
    BY <1>2, <2>1, <2>2
<1>7. QED
  BY <1>6 DEF stages

-----------------------------------------------------------------------------
(***************************************************************************)
(* With one controller the observation of a pass stays true of the objects *)
(* the pass has not written yet, but for what others may do to them.       *)
(***************************************************************************)

\* The names whose objects the pass of c has not written since it listed them.
Watched(c) == IF pc[c] = "apply" THEN job[c].wave \union job[c].todo ELSE Names

NodeFollows(c, n) ==
    LET s == seen[c].nodes[n]
    IN  /\ IsOwned(nodes[n]) => /\ s # Absent /\ Alike(nodes[n], s)
                                /\ Cordoned => nodes[n].open = s.open
        /\ Quiet /\ exists /\ s # Absent =>
             IsOwned(nodes[n]) /\ (s.ready => nodes[n].ready)
LeaseFollows(c, n) ==
    LET s == seen[c].leases[n]
    IN  /\ IsOwned(leases[n]) => leases[n] = s
        /\ Quiet /\ exists /\ s # Absent => IsOwned(leases[n])

Follows(c) ==
    /\ pc[c] \in {"leases", "pods", "apply"} => \A n \in Watched(c) : NodeFollows(c, n)
    /\ pc[c] \in {"pods", "apply"} => \A n \in Watched(c) : LeaseFollows(c, n)
    /\ pc[c] = "apply" =>
         /\ job[c].wave \intersect job[c].todo = {}
         /\ \A n \in Watched(c) :
              Due(job[c].op, n, record[c].gen, seen[c], record[c].deleting)

FInv == CInv /\ \A c \in Controllers : Follows(c)

\* The observation of a Node at the moment it is listed.
LEMMA ListedNodeFollows ==
    ASSUME IInv, NEW n \in Names
    PROVE  LET s == OwnedOnly(nodes)[n]
           IN  /\ IsOwned(nodes[n]) => s = nodes[n] /\ s # Absent
               /\ s # Absent => IsOwned(nodes[n]) /\ s = nodes[n]
BY DEF OwnedOnly, IsOwned

LEMMA ListedLeaseFollows ==
    ASSUME IInv, NEW n \in Names
    PROVE  LET s == OwnedOnly(leases)[n]
           IN  /\ IsOwned(leases[n]) => s = leases[n] /\ s # Absent
               /\ s # Absent => IsOwned(leases[n]) /\ s = leases[n]
BY DEF OwnedOnly, IsOwned

\* Others move a Node or a Lease without contradicting what was observed.
LEMMA FollowsMoves ==
    ASSUME IInv, NEW c \in Controllers, NEW n \in Names, seen' = seen,
           exists' => exists, NodeMoves(n), LeaseMoves(n)
    PROVE  /\ NodeFollows(c, n) => NodeFollows(c, n)'
           /\ LeaseFollows(c, n) => LeaseFollows(c, n)'
<1>1. ASSUME NodeFollows(c, n) PROVE NodeFollows(c, n)'
  <2> DEFINE s == seen[c].nodes[n]
  <2>1. /\ IsOwned(nodes[n]) => /\ s # Absent /\ Alike(nodes[n], s)
                                /\ Cordoned => nodes[n].open = s.open
        /\ Quiet /\ exists /\ s # Absent =>
             IsOwned(nodes[n]) /\ (s.ready => nodes[n].ready)
    BY <1>1 DEF NodeFollows
  <2>2. s' = s
    OBVIOUS
  <2> HIDE DEF s
  <2>3. IsOwned(nodes'[n]) => /\ s # Absent /\ Alike(nodes'[n], s)
                              /\ Cordoned => nodes'[n].open = s.open
    BY <2>1 DEF NodeMoves, Alike, Cordoned, IsOwned
  <2>4. Quiet /\ exists' /\ s # Absent => IsOwned(nodes'[n]) /\ (s.ready => nodes'[n].ready)
    BY <2>1 DEF NodeMoves, Quiet, IsOwned
  <2>5. QED
    BY <2>2, <2>3, <2>4 DEF NodeFollows, s, IsOwned, Alike
<1>2. ASSUME LeaseFollows(c, n) PROVE LeaseFollows(c, n)'
  <2>1. \/ leases'[n] = leases[n]
        \/ /\ IsOwned(leases[n]) /\ ~IsOwned(leases'[n])
           /\ Quiet => ~exists
        \/ ~IsOwned(leases[n]) /\ ~IsOwned(leases'[n])
    BY DEF LeaseMoves, IsOwned, Quiet
  <2>2. QED
    BY <1>2, <2>1 DEF LeaseFollows, IsOwned
<1>3. QED
  BY <1>1, <1>2

\* What a chosen stage finds in the observation.
LEMMA ChosenDue ==
    ASSUME IInv, NEW c \in Controllers, pc[c] = "pods"
    PROVE  LET r == record[c]
               o == seen[c]
               stage == FirstStage(IF r.deleting THEN DeletionStages(o)
                                   ELSE ConvergenceStages(r.gen, o))
           IN  stage.op \notin {"none", "blocked"} =>
                 \A n \in stage.on : /\ Due(stage.op, n, r.gen, o, r.deleting)
                                     /\ Unoccupied(stage.op, n)
<1>1. record[c].gen \in 1..Len(log) /\ record[c].deleting \in BOOLEAN
  BY DEF IInv, PassOK, TypeOK, Record, Generations
<1>2. Wanted(record[c].gen) \subseteq Names
  BY <1>1, WantedTyped DEF IInv
<1>3. CASE record[c].deleting
  <2>1. record[c].deleting = TRUE
    BY <1>1, <1>3
  <2>2. QED
    BY <2>1, DeletionDue
<1>4. CASE ~record[c].deleting
  <2>1. record[c].deleting = FALSE
    BY <1>1, <1>4
  <2>2. QED
    BY <2>1, <1>2, ConvergenceDue
<1>5. QED
  BY <1>3, <1>4

\* What ObservePods does, in terms of the stage it chose.
LEMMA PodsObserved ==
    ASSUME IInv, NEW c \in Controllers, ObservePods(c)
    PROVE  /\ pc[c] = "pods" /\ record' = record
           /\ \/ /\ pc'[c] = "commit"
                 /\ \/ intent'[c] = Progress(record[c], TRUE)
                    \/ /\ intent'[c] = Outcome(record[c], seen[c])
                       /\ FirstStage(IF record[c].deleting THEN DeletionStages(seen[c])
                                     ELSE ConvergenceStages(record[c].gen, seen[c])).op = "none"
              \/ /\ pc'[c] = "apply" /\ seen' = seen /\ intent' = intent
                 /\ job'[c].wave \intersect job'[c].todo = {}
                 /\ FirstStage(IF record[c].deleting THEN DeletionStages(seen[c])
                               ELSE ConvergenceStages(record[c].gen, seen[c])).op \notin {"none", "blocked"}
                 /\ \A n \in job'[c].wave \union job'[c].todo :
                      /\ n \in Names
                      /\ Due(job'[c].op, n, record[c].gen, seen[c], record[c].deleting)
                      /\ Unoccupied(job'[c].op, n)
<1> DEFINE r == record[c]
           o == seen[c]
           stage == FirstStage(IF r.deleting THEN DeletionStages(o)
                               ELSE ConvergenceStages(r.gen, o))
           ends == stage.op \in {"none", "blocked"}
<1>1. /\ stage.op \in Operations /\ stage.on \in SUBSET Names
  BY ChosenStage DEF ObservePods
<1>2. ~ends => \A n \in stage.on : Due(stage.op, n, r.gen, o, r.deleting) /\ Unoccupied(stage.op, n)
  BY ChosenDue DEF ObservePods
<1>3. /\ pc[c] = "pods" /\ record' = record
      /\ ends => /\ intent' = [intent EXCEPT ![c] =
                                IF stage.op = "blocked" THEN Progress(r, TRUE)
                                                        ELSE Outcome(r, o)]
                 /\ pc' = [pc EXCEPT ![c] = "commit"]
      /\ ~ends => /\ job' = [job EXCEPT ![c] = NextWave(stage.op, stage.on)]
                  /\ pc' = [pc EXCEPT ![c] = "apply"]
                  /\ UNCHANGED <<intent, seen>>
  BY DEF ObservePods
<1> HIDE DEF stage
<1>4. pc \in [Controllers -> Steps] /\ intent \in [Controllers -> Intent]
      /\ job \in [Controllers -> JobType]
  BY HoldingsTyped
<1>5. CASE ends
  BY <1>3, <1>4, <1>5 DEF stage
<1>6. CASE ~ends
  <2>1. job'[c] = NextWave(stage.op, stage.on) /\ pc'[c] = "apply" /\ seen' = seen /\ intent' = intent
    BY <1>3, <1>4, <1>6
  <2>2. /\ job'[c].op = stage.op /\ job'[c].wave \intersect job'[c].todo = {}
        /\ job'[c].wave \union job'[c].todo \subseteq stage.on
    BY <1>1, <2>1, NextWaveTyped DEF NextWave
  <2>3. QED
    BY <1>1, <1>2, <1>3, <1>6, <2>1, <2>2 DEF stage
<1>7. QED
  BY <1>5, <1>6

\* A step that moves neither the objects nor what c knows of them keeps what c
\* follows, for fewer names.
LEMMA FollowsFrame ==
    ASSUME IInv, NEW c \in Controllers, Follows(c), UNCHANGED <<nodes, leases>>,
           exists' => exists, seen'[c] = seen[c],
           \/ pc'[c] \notin {"leases", "pods", "apply"}
           \/ /\ pc'[c] = pc[c] /\ job'[c] = job[c]
              /\ record'[c].gen = record[c].gen /\ record'[c].deleting = record[c].deleting
              /\ \A g \in 1..Len(log) : log'[g] = log[g]
    PROVE  Follows(c)'
<1>1. CASE pc'[c] \notin {"leases", "pods", "apply"}
  BY <1>1 DEF Follows
<1>2. CASE /\ pc'[c] = pc[c] /\ job'[c] = job[c]
           /\ record'[c].gen = record[c].gen /\ record'[c].deleting = record[c].deleting
           /\ \A g \in 1..Len(log) : log'[g] = log[g]
  <2>1. \A n : /\ NodeFollows(c, n) => NodeFollows(c, n)'
               /\ LeaseFollows(c, n) => LeaseFollows(c, n)'
    BY DEF NodeFollows, LeaseFollows, Alike
  <2>2. Watched(c)' = Watched(c)
    BY <1>2 DEF Watched
  <2>3. ASSUME pc[c] = "apply", NEW n \in Watched(c)
        PROVE  Due(job[c].op, n, record[c].gen, seen[c], record[c].deleting)'
    <3>1. record[c].gen \in 1..Len(log)
      BY <2>3 DEF IInv, PassOK, TypeOK, Record, Generations
    <3>2. Due(job[c].op, n, record[c].gen, seen[c], record[c].deleting)
      BY <2>3 DEF Follows
    <3>3. QED
      BY <1>2, <3>1, <3>2 DEF Due, Converged
  <2>4. QED
    BY <1>2, <2>1, <2>2, <2>3 DEF Follows
<1>3. QED
  BY <1>1, <1>2

\* A step that leaves n and the observation alone keeps what was observed of n.
LEMMA FollowsSame ==
    ASSUME NEW c, NEW n, seen'[c] = seen[c], exists' = exists,
           nodes'[n] = nodes[n], leases'[n] = leases[n],
           NodeFollows(c, n), LeaseFollows(c, n)
    PROVE  NodeFollows(c, n)' /\ LeaseFollows(c, n)'
BY DEF NodeFollows, LeaseFollows, Alike

LEMMA DueSame ==
    ASSUME NEW c, NEW n, log' = log, seen'[c] = seen[c], record'[c] = record[c],
           Due(job'[c].op, n, record[c].gen, seen[c], record[c].deleting)
    PROVE  Due(job[c].op, n, record[c].gen, seen[c], record[c].deleting)'
BY DEF Due, Converged

\* The steps of the pass itself.
LEMMA PassFollows ==
    ASSUME FInv, NEW c \in Controllers, Inner(c), IInv'
    PROVE  Follows(c)'
<1>1. /\ IInv /\ Follows(c) /\ UNCHANGED <<nodes, leases>>
      /\ pc \in [Controllers -> Steps] /\ seen \in [Controllers -> SeenType]
      /\ record \in [Controllers -> Record] /\ job \in [Controllers -> JobType]
      /\ cache \in [Controllers -> Record]
  BY HoldingsTyped DEF FInv, CInv, Inner, clusterVars
<1>2. CASE CacheDeliver(c) \/ SkipPass(c)
  BY <1>1, <1>2, FollowsFrame DEF CacheDeliver, SkipPass, instanceVars, passVars
<1>3. CASE StartPass(c)
  <2>1. /\ pc'[c] = "leases" /\ seen'[c].nodes = OwnedOnly(nodes) /\ exists' = exists
    BY <1>1, <1>3 DEF StartPass, instanceVars, SeenType
  <2>2. ASSUME NEW n \in Names PROVE NodeFollows(c, n)'
    BY <1>1, <2>1, ListedNodeFollows DEF NodeFollows, IsOwned, Alike
  <2>3. QED
    BY <2>1, <2>2 DEF Follows, Watched
<1>4. CASE ObserveLeases(c)
  <2>1. /\ pc[c] = "leases" /\ pc'[c] = "pods" /\ seen'[c].nodes = seen[c].nodes
        /\ seen'[c].leases = OwnedOnly(leases) /\ exists' = exists
    BY <1>1, <1>4 DEF ObserveLeases, instanceVars, SeenType
  <2>2. ASSUME NEW n \in Names PROVE NodeFollows(c, n)'
    BY <1>1, <2>1 DEF Follows, Watched, NodeFollows, IsOwned, Alike
  <2>3. ASSUME NEW n \in Names PROVE LeaseFollows(c, n)'
    BY <1>1, <2>1, ListedLeaseFollows DEF LeaseFollows, IsOwned
  <2>4. QED
    BY <2>1, <2>2, <2>3 DEF Follows, Watched
<1>5. CASE ObservePods(c)
  <2>1. CASE pc'[c] = "commit"
    BY <2>1 DEF Follows
  <2>2. CASE /\ pc'[c] = "apply" /\ seen' = seen
             /\ job'[c].wave \intersect job'[c].todo = {}
             /\ \A n \in job'[c].wave \union job'[c].todo :
                  n \in Names /\ Due(job'[c].op, n, record[c].gen, seen[c], record[c].deleting)
    <3>1. pc[c] = "pods" /\ UNCHANGED <<record, log, exists>>
      BY <1>5 DEF ObservePods, instanceVars
    <3>2. ASSUME NEW n \in Watched(c)'
          PROVE  /\ NodeFollows(c, n)' /\ LeaseFollows(c, n)'
                 /\ Due(job[c].op, n, record[c].gen, seen[c], record[c].deleting)'
      <4>1. /\ n \in Watched(c)
            /\ Due(job'[c].op, n, record[c].gen, seen[c], record[c].deleting)
        BY <2>2, <3>1 DEF Watched
      <4>2. NodeFollows(c, n) /\ LeaseFollows(c, n)
        BY <1>1, <3>1, <4>1 DEF Follows
      <4>3. NodeFollows(c, n)' /\ LeaseFollows(c, n)'
        BY <1>1, <2>2, <3>1, <4>2, FollowsSame
      <4>4. Due(job[c].op, n, record[c].gen, seen[c], record[c].deleting)'
        BY <2>2, <3>1, <4>1, DueSame
      <4>5. QED
        BY <4>3, <4>4
    <3>3. QED
      BY <2>2, <3>2 DEF Follows
  <2>3. QED
    BY <1>1, <1>5, <2>1, <2>2, PodsObserved
<1>6. CASE EndWave(c)
  <2>1. CASE pc'[c] \notin {"leases", "pods", "apply"}
    BY <2>1 DEF Follows
  <2>2. CASE /\ job' = [job EXCEPT ![c] = NextWave(@.op, @.todo)]
             /\ UNCHANGED <<pc, seen, record>>
    <3>1. /\ job'[c].op = job[c].op /\ job'[c].wave \intersect job'[c].todo = {}
          /\ job'[c].wave \union job'[c].todo \subseteq job[c].todo
      <4>1. job'[c] = NextWave(job[c].op, job[c].todo)
        BY <1>1, <2>2
      <4>2. job[c].op \in Operations /\ job[c].todo \in SUBSET Names
        BY <1>1 DEF JobType
      <4>3. QED
        BY <4>1, <4>2, NextWaveTyped DEF NextWave
    <3>2. pc[c] = "apply" /\ UNCHANGED <<log, exists>>
      BY <1>6 DEF EndWave, instanceVars
    <3>3. ASSUME NEW n \in Watched(c)'
          PROVE  /\ NodeFollows(c, n)' /\ LeaseFollows(c, n)'
                 /\ Due(job[c].op, n, record[c].gen, seen[c], record[c].deleting)'
      <4>1. n \in Watched(c)
        BY <2>2, <3>1, <3>2 DEF Watched
      <4>2. /\ NodeFollows(c, n) /\ LeaseFollows(c, n)
            /\ Due(job[c].op, n, record[c].gen, seen[c], record[c].deleting)
        BY <1>1, <3>2, <4>1 DEF Follows
      <4>3. NodeFollows(c, n)' /\ LeaseFollows(c, n)'
        BY <1>1, <2>2, <3>2, <4>2, FollowsSame
      <4>4. Due(job[c].op, n, record[c].gen, seen[c], record[c].deleting)'
        BY <2>2, <3>1, <3>2, <4>2, DueSame
      <4>5. QED
        BY <4>3, <4>4
    <3>4. QED
      BY <2>2, <3>1, <3>2, <3>3 DEF Follows
  <2>3. \/ /\ job' = [job EXCEPT ![c] = NextWave(@.op, @.todo)]
           /\ UNCHANGED <<pc, seen, record>>
        \/ pc' = [pc EXCEPT ![c] = "commit"] \/ pc' = [pc EXCEPT ![c] = "idle"]
    BY <1>6 DEF EndWave
  <2>4. QED
    BY <1>1, <2>1, <2>2, <2>3
<1>7. CASE LoseObservation(c) \/ Crash(c) \/ CommitStatus(c) \/ CommitConflict(c)
           \/ RemoveFinalizer(c) \/ FinalizerConflict(c)
  <2>1. pc'[c] \notin {"leases", "pods", "apply"}
    BY <1>1, <1>7 DEF LoseObservation, Crash, CommitStatus, CommitConflict, RemoveFinalizer,
       FinalizerConflict, EndPass
  <2>2. QED
    BY <2>1 DEF Follows
<1>8. QED
  BY <1>2, <1>3, <1>4, <1>5, <1>6, <1>7 DEF Inner

\* A request that ended leaves one name less to watch, and the objects of the others.
LEMMA AnsweredWatch ==
    ASSUME FInv, NEW c \in Controllers, NEW m \in Names, Answered(c, m)
    PROVE  /\ pc[c] = "apply" /\ UNCHANGED <<log, exists, deleting, record, seen, pc>>
           /\ job'[c].op = job[c].op /\ job'[c].todo = job[c].todo
           /\ job'[c].wave = job[c].wave \ {m}
           /\ Watched(c)' = Watched(c) \ {m}
           /\ m \in Watched(c) /\ Watched(c) \subseteq Names
           /\ \A n \in Names \ {m} : nodes'[n] = nodes[n] /\ leases'[n] = leases[n]
<1>1. /\ job \in [Controllers -> JobType] /\ IInv /\ Follows(c) /\ pc[c] = "apply"
      /\ m \in job[c].wave
  BY HoldingsTyped DEF FInv, CInv, Answered
<1>2. UNCHANGED <<log, exists, deleting, record, seen, pc>>
  BY DEF Answered, instanceVars
<1>3. PICK errors \in SUBSET Errors : Answer(c, m, errors)
  BY DEF Answered
<1>4. /\ job'[c].op = job[c].op /\ job'[c].todo = job[c].todo
      /\ job'[c].wave = job[c].wave \ {m}
  BY <1>1, <1>3 DEF Answer, JobType
<1>5. /\ Watched(c)' = Watched(c) \ {m} /\ m \in Watched(c)
  BY <1>1, <1>2, <1>4 DEF Watched, Follows
<1>6. Watched(c) \subseteq Names
  BY <1>1 DEF Watched, JobType
<1>7. \A n \in Names \ {m} : nodes'[n] = nodes[n] /\ leases'[n] = leases[n]
  BY <1>1, RequestIsLocal DEF Answered, clusterVars
<1>8. QED
  BY <1>1, <1>2, <1>4, <1>5, <1>6, <1>7

LEMMA AnsweredFollows ==
    ASSUME FInv, NEW c \in Controllers, NEW m \in Names, Answered(c, m)
    PROVE  Follows(c)'
<1>1. /\ IInv /\ Follows(c)
  BY DEF FInv, CInv
<1>2. ASSUME NEW n \in Watched(c)'
      PROVE  /\ NodeFollows(c, n)' /\ LeaseFollows(c, n)'
             /\ Due(job[c].op, n, record[c].gen, seen[c], record[c].deleting)'
  <2>1. /\ n \in Watched(c) /\ n \in Names \ {m} /\ pc[c] = "apply"
        /\ nodes'[n] = nodes[n] /\ leases'[n] = leases[n]
        /\ UNCHANGED <<log, exists, record, seen>> /\ job'[c].op = job[c].op
    BY <1>2, AnsweredWatch
  <2>2. /\ NodeFollows(c, n) /\ LeaseFollows(c, n)
        /\ Due(job[c].op, n, record[c].gen, seen[c], record[c].deleting)
    BY <1>1, <2>1 DEF Follows
  <2>3. NodeFollows(c, n)' /\ LeaseFollows(c, n)'
    BY <2>1, <2>2, FollowsSame
  <2>4. Due(job[c].op, n, record[c].gen, seen[c], record[c].deleting)'
    BY <2>1, <2>2, DueSame
  <2>5. QED
    BY <2>3, <2>4
<1>3. (job[c].wave \intersect job[c].todo = {})'
  BY <1>1, AnsweredWatch DEF Follows
<1>4. QED
  BY <1>2, <1>3 DEF Follows

LEMMA StepKeepsFInv == ASSUME Solo PROVE FInv /\ [Next]_vars => FInv'
<1> SUFFICES ASSUME FInv, [Next]_vars PROVE FInv'
  OBVIOUS
<1>1. CInv' /\ IInv' /\ IInv
  BY StepKeepsCInv DEF FInv, CInv
<1>2. ASSUME NEW c \in Controllers PROVE Follows(c)'
  <2>1. CASE \E d \in Controllers : Inner(d) \/ \E n \in Names : Answered(d, n)
    <3>1. Inner(c) \/ \E n \in Names : Answered(c, n)
      BY <2>1 DEF Solo
    <3>2. QED
      BY <1>1, <3>1, PassFollows, AnsweredFollows
  <2>2. CASE ByClient
    <3>1. /\ UNCHANGED <<nodes, leases, pc, seen, job, exists>>
          /\ record' = Outdated(record)
          /\ log' = log \/ \E s \in Scenarios : log' = Append(log, s)
      BY <2>2 DEF ByClient, RequestDeletion, AcceptRevision, InstanceWritten, clusterVars
    <3>2. /\ record'[c].gen = record[c].gen /\ record'[c].deleting = record[c].deleting
          /\ \A g \in 1..Len(log) : log'[g] = log[g]
      <4>1. record \in [Controllers -> Record] /\ log \in Seq(Scenarios)
        BY <1>1, HoldingsTyped
      <4>2. record'[c].gen = record[c].gen /\ record'[c].deleting = record[c].deleting
        BY <3>1, <4>1, OutdatedTyped
      <4>3. \A g \in 1..Len(log) : log'[g] = log[g]
        BY <3>1, <4>1
      <4>4. QED
        BY <4>2, <4>3
    <3>3. QED
      BY <1>1, <3>1, <3>2, FollowsFrame DEF FInv
  <2>3. CASE Outside
    <3>1. UNCHANGED <<log, deleting, exists, pc, record, seen, job>>
      BY <2>3 DEF Outside, instanceVars, passVars
    <3>2. Watched(c)' = Watched(c)
      BY <3>1 DEF Watched
    <3>3. Watched(c) \subseteq Names
      BY <1>1, HoldingsTyped DEF Watched, JobType
    <3>4. \A n \in Watched(c) : /\ NodeFollows(c, n) => NodeFollows(c, n)'
                                /\ LeaseFollows(c, n) => LeaseFollows(c, n)'
      BY <1>1, <2>3, <3>1, <3>3, FollowsMoves DEF Outside
    <3>5. \A n \in Watched(c) :
             Due(job[c].op, n, record[c].gen, seen[c], record[c].deleting)'
               <=> Due(job[c].op, n, record[c].gen, seen[c], record[c].deleting)
      BY <3>1 DEF Due, Converged
    <3>6. QED
      BY <3>1, <3>2, <3>4, <3>5 DEF FInv, Follows
  <2>4. QED
    BY <1>1, <2>1, <2>2, <2>3, StepKinds
<1>3. QED
  BY <1>1, <1>2 DEF FInv

LEMMA InitFInv == Init => FInv
<1> SUFFICES ASSUME Init PROVE FInv
  OBVIOUS
<1>1. \A c \in Controllers : Follows(c)
  BY DEF Init, Follows
<1>2. QED
  BY <1>1, InitCInv DEF FInv

\* With one controller, whatever the faults, an observation stays true of what the
\* pass has not written yet.
LEMMA ObservationsHold == ASSUME Solo PROVE Spec => []FInv
<1>1. FInv /\ [Next]_vars => FInv'
  BY StepKeepsFInv
<1>2. QED
  BY <1>1, InitFInv, PTL DEF Spec

-----------------------------------------------------------------------------
(***************************************************************************)
(* The published inventory and the replacement barrier.                    *)
(***************************************************************************)

\* What the node operation of a stage leaves, field by field.
LEMMA NodeAfterFields ==
    ASSUME NEW op \in UpdatesNode, NEW node \in NodeObject, NEW g \in Nat, NEW n,
           NEW observed
    PROVE  LET after == NodeAfter(op, node, observed, g, n)
           IN  /\ after.ready = node.ready
               /\ op # "status" => after.res = node.res /\ after.alloc = node.alloc
               /\ op = "status" => /\ after.res = log[g][n].res
                                   /\ after.alloc = log[g][n].healthy
                                   /\ after.open = node.open /\ after.active = node.active
                                   /\ after.keys = node.keys
               /\ op \in {"repair", "metadata", "close", "close-seen"} => ~after.open
               /\ op \in {"metadata", "close", "open"} => after.active
               /\ op = "repair" => ~after.active
               /\ op = "close-seen" => after.active = observed.active
<1>1. CASE op = "status"
  <2>1. NodeAfter(op, node, observed, g, n) = StatusApplied(node, g, log[g][n])
    BY <1>1 DEF NodeAfter
  <2>2. QED
    BY <1>1, <2>1 DEF StatusApplied, NodeObject
<1>2. CASE op = "close-seen"
  <2>1. NodeAfter(op, node, observed, g, n)
          = AppliedNode(node, g, observed.keys, observed.active, FALSE)
    BY <1>2 DEF NodeAfter
  <2>2. QED
    BY <1>2, <2>1 DEF AppliedNode, NodeObject
<1>3. CASE op \in {"repair", "metadata", "close", "open"}
  <2>1. NodeAfter(op, node, observed, g, n)
          = AppliedNode(node, g, {log[g][n].key}, op # "repair", op = "open")
    BY <1>3 DEF NodeAfter
  <2>2. QED
    BY <1>3, <2>1 DEF AppliedNode, NodeObject
<1>4. QED
  BY <1>1, <1>2, <1>3 DEF UpdatesNode

\* How a request that succeeds moves the object of its name.
LEMMA NodeWritten ==
    ASSUME IInv, NEW c \in Controllers, NEW n \in Names, Requested(c, n)
    PROVE  LET op == job[c].op
               g == record[c].gen
           IN  \/ nodes'[n] = nodes[n] /\ op \notin UpdatesNode
               \/ op = "delete-node" /\ nodes'[n] = Absent /\ Vacant(leases[n]) = Vacant(leases'[n])
                    /\ DeletableNode(nodes[n], seen[c].nodes[n], g)
               \/ /\ op = "create-node" /\ nodes[n] = Absent
                  /\ nodes'[n] = CreatedNode(births[n] + 1, g, log[g][n].key)
               \/ /\ op \in UpdatesNode /\ IsOwned(nodes[n]) /\ nodes[n] \in NodeObject
                  /\ nodes'[n] \in NodeObject /\ IsOwned(nodes'[n])
                  /\ nodes'[n] = NodeAfter(op, nodes[n], seen[c].nodes[n], g, n)
                  /\ nodes'[n].gen = g /\ nodes'[n].uid = nodes[n].uid
<1> DEFINE g == record[c].gen
           op == job[c].op
<1>1. /\ g \in Nat /\ seen[c].nodes[n] \in NodeObject \union {Absent}
      /\ op \in WantedOnly => log[g][n] \in NodeSpec
      /\ op = "close-seen" => seen[c].nodes[n] # Absent
      /\ nodes \in [Names -> NodeObject \union {Absent, Foreign}]
  BY RequestContext, ObjectsTyped DEF Requested
<1>2. CASE /\ op \in UpdatesNode /\ Exact(nodes[n], seen[c].nodes[n], g)
           /\ nodes' = [nodes EXCEPT ![n] = NodeAfter(op, @, seen[c].nodes[n], g, n)]
  <2>1. op # "close-seen" => log[g][n] \in NodeSpec
    BY <1>1, <1>2 DEF UpdatesNode, WantedOnly
  <2>2. nodes[n] \in NodeObject /\ IsOwned(nodes[n])
    BY <1>1, <1>2 DEF Exact, IsOwned
  <2>3. /\ NodeAfter(op, nodes[n], seen[c].nodes[n], g, n) \in NodeObject
        /\ NodeAfter(op, nodes[n], seen[c].nodes[n], g, n).gen = g
        /\ NodeAfter(op, nodes[n], seen[c].nodes[n], g, n).uid = nodes[n].uid
    BY <1>1, <1>2, <2>1, <2>2, NodeAfterTyped
  <2>4. nodes'[n] = NodeAfter(op, nodes[n], seen[c].nodes[n], g, n)
    BY <1>1, <1>2
  <2>5. IsOwned(nodes'[n])
    BY <2>3, <2>4, ObjectsAssumption DEF IsOwned
  <2>6. QED
    BY <1>2, <2>2, <2>3, <2>4, <2>5
<1>3. CASE /\ op = "delete-node" /\ DeletableNode(nodes[n], seen[c].nodes[n], g)
           /\ nodes' = [nodes EXCEPT ![n] = Absent] /\ leases' = leases
  BY <1>1, <1>3
<1>4. CASE /\ op = "create-node" /\ Vacant(nodes[n])
           /\ nodes' = [nodes EXCEPT ![n] = CreatedNode(births[n] + 1, g, log[g][n].key)]
  BY <1>1, <1>4 DEF Vacant
<1>5. CASE nodes' = nodes /\ op \notin UpdatesNode
  BY <1>5
<1>6. QED
  BY <1>2, <1>3, <1>4, <1>5 DEF Requested, RequestSucceeds, UpdatesNode

\* What holds of the name of a request that is answered.
LEMMA RequestFollows ==
    ASSUME FInv, NEW c \in Controllers, NEW n \in Names, Requested(c, n)
    PROVE  /\ IInv /\ NodeFollows(c, n) /\ LeaseFollows(c, n)
           /\ Due(job[c].op, n, record[c].gen, seen[c], record[c].deleting)
           /\ job[c].op \in WantedOnly =>
                /\ n \in Wanted(record[c].gen)
                /\ log[record[c].gen][n] \in NodeSpec
           /\ record[c].gen \in 1..Len(log) /\ record[c].gen \in Nat
<1>1. pc[c] = "apply" /\ n \in Watched(c) /\ n \in job[c].wave /\ IInv /\ Follows(c)
  BY DEF Requested, Watched, FInv, CInv
<1>2. record[c].gen \in 1..Len(log) /\ Len(log) \in Nat
  BY <1>1, RequestContext
<1>3. record[c].gen \in Nat
  BY <1>2
<1>4. QED
  BY <1>1, <1>2, <1>3, RequestContext DEF Follows

PublishedNode(n) == IsOwned(nodes[n]) /\ nodes[n].open =>
                        /\ n \in Wanted(nodes[n].gen)
                        /\ Converged(nodes[n], log[nodes[n].gen][n])

LEMMA RequestPublished ==
    ASSUME FInv, NEW c \in Controllers, NEW n \in Names, Requested(c, n), log' = log,
           PublishedNode(n)
    PROVE  PublishedNode(n)'
<1> DEFINE g == record[c].gen
           op == job[c].op
<1>1. /\ IInv /\ NodeFollows(c, n) /\ Due(op, n, g, seen[c], record[c].deleting)
      /\ op \in WantedOnly => n \in Wanted(g) /\ log[g][n] \in NodeSpec
      /\ g \in Nat
  BY RequestFollows
<1>2. CASE nodes'[n] = nodes[n] \/ nodes'[n] = Absent
  BY <1>2 DEF PublishedNode, Wanted, Converged, IsOwned
<1>3. CASE nodes'[n] = CreatedNode(births[n] + 1, g, log[g][n].key)
  BY <1>3 DEF CreatedNode, PublishedNode
<1>4. CASE /\ op \in UpdatesNode /\ IsOwned(nodes[n]) /\ nodes[n] \in NodeObject
           /\ nodes'[n] = NodeAfter(op, nodes[n], seen[c].nodes[n], g, n)
           /\ nodes'[n].gen = g
  <2>0. /\ op # "status" => /\ nodes'[n].res = nodes[n].res
                            /\ nodes'[n].alloc = nodes[n].alloc
        /\ op = "status" => /\ nodes'[n].res = log[g][n].res
                            /\ nodes'[n].alloc = log[g][n].healthy
        /\ op \in {"repair", "metadata", "close", "close-seen"} => ~nodes'[n].open
    <3> DEFINE after == NodeAfter(op, nodes[n], seen[c].nodes[n], g, n)
    <3>1. /\ op # "status" => after.res = nodes[n].res /\ after.alloc = nodes[n].alloc
          /\ op = "status" => after.res = log[g][n].res /\ after.alloc = log[g][n].healthy
          /\ op \in {"repair", "metadata", "close", "close-seen"} => ~after.open
      BY <1>1, <1>4, NodeAfterFields
    <3> HIDE DEF after
    <3>2. nodes'[n] = after
      BY <1>4 DEF after
    <3>3. QED
      BY <3>1, <3>2
  <2>1. CASE op \in {"repair", "metadata", "close", "close-seen"}
    BY <2>0, <2>1 DEF PublishedNode
  <2>2. CASE op = "status"
    <3>1. nodes'[n].res = log[g][n].res /\ nodes'[n].alloc = log[g][n].healthy
      BY <2>0, <2>2
    <3>2. n \in Wanted(g)
      BY <1>1, <2>2 DEF WantedOnly
    <3>3. QED
      BY <1>4, <3>1, <3>2 DEF PublishedNode, Wanted, Converged
  <2>3. CASE op = "open"
    <3>1. nodes'[n].res = nodes[n].res /\ nodes'[n].alloc = nodes[n].alloc
      BY <2>0, <2>3
    <3>2. n \in Wanted(g) /\ Converged(seen[c].nodes[n], log[g][n])
      BY <1>1, <2>3 DEF WantedOnly, Due
    <3>3. Alike(nodes[n], seen[c].nodes[n])
      BY <1>1, <1>4 DEF NodeFollows
    <3>4. QED
      BY <1>4, <3>1, <3>2, <3>3 DEF PublishedNode, Wanted, Converged, Alike
  <2>4. QED
    BY <1>4, <2>1, <2>2, <2>3 DEF UpdatesNode
<1>5. QED
  BY <1>1, <1>2, <1>3, <1>4, NodeWritten

LEMMA StepKeepsPublished ==
    ASSUME Solo, Cordoned
    PROVE  FInv /\ PublishedInventory /\ [Next]_vars => PublishedInventory'
<1> SUFFICES ASSUME FInv, PublishedInventory, [Next]_vars, NEW n \in Names
             PROVE  PublishedNode(n)'
  BY DEF PublishedInventory, PublishedNode
<1>1. IInv /\ PublishedNode(n)
  BY DEF FInv, CInv, PublishedInventory, PublishedNode
<1>2. CASE UNCHANGED <<nodes, leases, births>>
  <2>1. \A g \in 1..Len(log) : log'[g] = log[g]
    <3>1. log' = log \/ \E s \in Scenarios : log' = Append(log, s)
      BY <1>1, StepKinds DEF Inner, ByClient, Outside, Answered, CacheDeliver, StartPass, SkipPass,
         ObserveLeases, ObservePods, EndWave, CommitStatus, CommitConflict, RemoveFinalizer,
         FinalizerConflict, Crash, LoseObservation, RequestDeletion, AcceptRevision, instanceVars
    <3>2. QED
      BY <1>1, <3>1, HoldingsTyped
  <2>2. IsOwned(nodes[n]) => nodes[n].gen \in 1..Len(log)
    BY <1>1 DEF IInv, GenerationsBounded
  <2>3. QED
    BY <1>1, <1>2, <2>1, <2>2 DEF PublishedNode, Wanted, Converged, IsOwned
<1>3. ASSUME NEW c \in Controllers, NEW m \in Names, Answered(c, m), RequestSucceeds(c, m)
      PROVE  PublishedNode(n)'
  <2>1. log' = log
    BY <1>3 DEF Answered, instanceVars
  <2>2. CASE m = n
    BY <1>1, <1>3, <2>1, <2>2, RequestPublished DEF Requested, Answered
  <2>3. CASE m # n
    <3>1. nodes'[n] = nodes[n]
      BY <1>1, <1>3, <2>3, RequestIsLocal DEF Answered
    <3>2. QED
      BY <1>1, <2>1, <3>1 DEF PublishedNode, Wanted, Converged, IsOwned
  <2>4. QED
    BY <2>2, <2>3
<1>4. CASE Outside
  <2>1. log' = log /\ NodeMoves(n)
    BY <1>4 DEF Outside, instanceVars
  <2>2. QED
    BY <1>1, <2>1 DEF NodeMoves, Cordoned, PublishedNode, Wanted, Converged, IsOwned, Alike
<1>5. QED
  BY <1>1, <1>2, <1>3, <1>4, StepKinds DEF Inner, ByClient, Answered, clusterVars

\* 6.2: an open Node publishes exactly the inventory of the generation it is stamped
\* with, with one controller that crashes and loses responses, on Nodes that anybody
\* may delete, make unready or replace, for every number of Nodes and revisions.
THEOREM OpenNodesArePublished ==
    ASSUME Solo, Cordoned PROVE Spec => []PublishedInventory
<1>1. Init => PublishedInventory
  BY DEF Init, PublishedInventory, IsOwned
<1>2. QED
  BY <1>1, StepKeepsPublished, ObservationsHold, PTL DEF Spec

\* 6.2 step 7, the replacement barrier: the resource of a Node changes only while the
\* Node is closed.
THEOREM BarrierHolds ==
    ASSUME Solo, Cordoned PROVE Spec => ReplacementBarrier
<1>1. ASSUME FInv, PublishedInventory, [Next]_vars, NEW n \in Names, SameNode(n), nodes[n].open
      PROVE  nodes'[n].res = nodes[n].res
  <2>1. IInv /\ IsOwned(nodes[n]) /\ nodes[n] \in NodeObject
    BY <1>1, ObjectsTyped DEF FInv, CInv, SameNode
  <2>2. ASSUME NEW c \in Controllers, Requested(c, n)
        PROVE  nodes'[n].res = nodes[n].res
    <3> DEFINE g == record[c].gen
               op == job[c].op
               s == seen[c].nodes[n]
    <3>1. /\ NodeFollows(c, n) /\ Due(op, n, g, seen[c], record[c].deleting)
          /\ op \in WantedOnly => n \in Wanted(g) /\ log[g][n] \in NodeSpec
          /\ g \in Nat
      BY <1>1, <2>2, RequestFollows
    <3>2. CASE nodes'[n] = nodes[n]
      BY <3>2
    <3>3. CASE /\ op \in UpdatesNode
               /\ nodes'[n] = NodeAfter(op, nodes[n], s, g, n)
      <4>1. CASE op # "status"
        BY <2>1, <3>1, <3>3, <4>1, NodeAfterFields
      <4>2. CASE op = "status"
        <5>1. nodes'[n].res = log[g][n].res
          BY <2>1, <3>1, <3>3, <4>2, NodeAfterFields
        <5>2. s.open /\ s.res = nodes[n].res
          BY <1>1, <2>1, <3>1 DEF NodeFollows, Alike
        <5>3. s.res \in {NoResource, log[g][n].res}
          BY <3>1, <4>2, <5>2 DEF Due
        <5>4. nodes[n].res # NoResource
          <6>1. /\ nodes[n].gen \in 1..Len(log) /\ n \in Wanted(nodes[n].gen)
                /\ nodes[n].res = log[nodes[n].gen][n].res
            BY <1>1, <2>1 DEF PublishedInventory, Converged, IInv, GenerationsBounded
          <6>2. log[nodes[n].gen][n] \in NodeSpec
            BY <2>1, <6>1, WantedTyped DEF IInv
          <6>3. QED
            BY <6>1, <6>2, ObjectsAssumption DEF NodeSpec
        <5>5. QED
          BY <5>1, <5>2, <5>3, <5>4
      <4>3. QED
        BY <4>1, <4>2
    <3>4. nodes'[n] # Absent /\ nodes[n] # Absent
      BY <1>1 DEF SameNode, IsOwned
    <3>5. QED
      BY <2>1, <2>2, <3>2, <3>3, <3>4, NodeWritten
  <2>3. CASE Outside
    BY <1>1, <2>1, <2>3 DEF Outside, NodeMoves, SameNode, IsOwned, Alike
  <2>4. ASSUME NEW c \in Controllers, NEW m \in Names, Answered(c, m)
        PROVE  Requested(c, n) \/ nodes'[n] = nodes[n]
    BY <2>1, <2>4, RequestIsLocal DEF Answered, Requested, clusterVars
  <2>5. QED
    BY <2>1, <2>2, <2>3, <2>4, <1>1, StepKinds DEF Inner, ByClient, clusterVars
<1>2. FInv /\ PublishedInventory /\ [Next]_vars =>
        [\A n \in Names : SameNode(n) /\ nodes[n].open => nodes'[n].res = nodes[n].res]_vars
  BY <1>1
<1>3. QED
  BY <1>2, OpenNodesArePublished, ObservationsHold, PTL DEF Spec, ReplacementBarrier

-----------------------------------------------------------------------------
(***************************************************************************)
(* Deletion: of Nodes, and of the instance.                                *)
(***************************************************************************)

\* A Pod has a Node from the choice of the scheduler until it ends.
Placed == \A p \in Pods : pods[p].at \in {"pending", "done"} => pods[p].node = Absent

\* What the pass of c is about to delete is open, so that the delete is refused, or whoever
\* has it was on its way when the Pods were listed.
Explained(c, n) ==
    IsOwned(nodes[n]) =>
        nodes[n].open \/ \A p \in Pods : pods[p].node = n => InFlight(p, n, listed[c])
Removing(c) == pc[c] = "apply" /\ job[c].op = "delete-node"
Arrivals == Placed /\ \A c \in Controllers : Removing(c) => \A n \in Watched(c) : Explained(c, n)

\* The scheduler chooses open Nodes only.
LEMMA PodStep ==
    ASSUME IInv, [Next]_vars, Placed
    PROVE  /\ Placed'
           /\ \/ pods' = pods
              \/ /\ UNCHANGED <<clusterVars, passVars>>
                 /\ \A p \in Pods, n \in Names :
                        pods'[p].node = n => pods[p].node = n \/ nodes[n].open
<1>0. pods \in [Pods -> [at : {"pending", "chosen", "bound", "done"},
                         node : Names \union {Absent}]]
  BY ObjectsTyped
<1>1. CASE \E p \in Pods, m \in Names : Schedule(p, m)
  <2>1. PICK p \in Pods, m \in Names : Schedule(p, m)
    BY <1>1
  <2>2. /\ nodes[m].open /\ pods' = [pods EXCEPT ![p] = [at |-> "chosen", node |-> m]]
        /\ UNCHANGED <<clusterVars, passVars>>
    BY <2>1 DEF Schedule
  <2>3. \A q \in Pods : pods'[q] = IF q = p THEN [at |-> "chosen", node |-> m] ELSE pods[q]
    BY <1>0, <2>2
  <2>4. \A q \in Pods, n \in Names : pods'[q].node = n => pods[q].node = n \/ n = m
    BY <2>3
  <2>5. Placed'
    BY <2>3 DEF Placed
  <2>6. QED
    BY <2>2, <2>4, <2>5
<1>2. CASE \E p \in Pods : FinishPod(p)
  <2>1. PICK p \in Pods : FinishPod(p)
    BY <1>2
  <2>2. /\ \A q \in Pods : pods'[q] = IF q = p THEN [at |-> "done", node |-> Absent] ELSE pods[q]
        /\ UNCHANGED <<clusterVars, passVars>>
    BY <1>0, <2>1 DEF FinishPod
  <2>3. \A q \in Pods, n \in Names : pods'[q].node = n => pods[q].node = n
    BY <2>2, ObjectsAssumption
  <2>4. Placed'
    BY <2>2 DEF Placed
  <2>5. QED
    BY <2>2, <2>3, <2>4
<1>3. CASE \E p \in Pods : Bind(p)
  <2>1. PICK p \in Pods : Bind(p)
    BY <1>3
  <2>2. /\ \A q \in Pods : /\ pods'[q].node = pods[q].node
                           /\ pods'[q].at = IF q = p THEN "bound" ELSE pods[q].at
        /\ UNCHANGED <<clusterVars, passVars>>
    BY <1>0, <2>1 DEF Bind
  <2>3. Placed'
    BY <2>2 DEF Placed
  <2>4. QED
    BY <2>2, <2>3
<1>4. CASE pods' = pods
  BY <1>4 DEF Placed
<1>5. ASSUME NEW c \in Controllers, CacheDeliver(c) \/ Pass(c) \/ Upset(c)
      PROVE  pods' = pods
  BY <1>5 DEF CacheDeliver, Pass, StartPass, SkipPass, ObserveLeases, ObservePods, Request,
     EndWave, CommitStatus, CommitConflict, RemoveFinalizer, FinalizerConflict, Upset, Crash,
     LoseObservation, LoseResponse
<1>6. ASSUME Environment
      PROVE  \/ \E p \in Pods, m \in Names : Schedule(p, m)
             \/ \E p \in Pods : Bind(p) \/ FinishPod(p)
             \/ pods' = pods
  BY <1>6 DEF Environment, AcceptRevision, RequestDeletion, KwokReady, KwokLease,
     CollectGarbage, Disturb
<1>7. QED
  BY <1>1, <1>2, <1>3, <1>4, <1>5, <1>6 DEF Next, vars

LEMMA StepKeepsArrivals ==
    ASSUME Solo PROVE FInv /\ Arrivals /\ [HNext]_historyVars => Arrivals'
<1> SUFFICES ASSUME FInv, Arrivals, [HNext]_historyVars PROVE Arrivals'
  OBVIOUS
<1>0. /\ [Next]_vars
      /\ \A c \in Controllers : Removing(c)' =>
            listed'[c] = IF pc[c] = "pods" /\ pc' # pc THEN pods ELSE listed[c]
  BY DEF HNext, Remember, historyVars, vars, passVars, Removing
<1>1. /\ IInv /\ Placed' /\ Placed
      /\ \/ pods' = pods
         \/ /\ UNCHANGED <<clusterVars, passVars>>
            /\ \A p \in Pods, n \in Names :
                   pods'[p].node = n => pods[p].node = n \/ nodes[n].open
  BY <1>0, PodStep DEF FInv, CInv, Arrivals
<1>2. ASSUME NEW c \in Controllers, Removing(c)', NEW n \in Watched(c)'
      PROVE  Explained(c, n)'
  <2>0. job \in [Controllers -> JobType] /\ pc \in [Controllers -> Steps]
    BY <1>1, HoldingsTyped
  <2>1. ASSUME pods' = pods, Removing(c), n \in Watched(c),
               nodes'[n] = nodes[n] \/ NodeMoves(n)
        PROVE  Explained(c, n)'
    <3>1. Explained(c, n) /\ listed'[c] = listed[c]
      BY <1>0, <1>2, <2>1 DEF Arrivals, Removing
    <3>2. IsOwned(nodes'[n]) => IsOwned(nodes[n]) /\ (nodes[n].open => nodes'[n].open)
      BY <2>1 DEF NodeMoves, IsOwned
    <3>3. QED
      BY <2>1, <3>1, <3>2 DEF Explained, InFlight
  <2>2. CASE pods' # pods
    <3>1. /\ UNCHANGED <<nodes, pc, job>> /\ Removing(c) /\ n \in Watched(c)
          /\ \A p \in Pods, m \in Names :
                 pods'[p].node = m => pods[p].node = m \/ nodes[m].open
      BY <1>1, <1>2, <2>2 DEF clusterVars, passVars, Watched, Removing
    <3>2. Explained(c, n) /\ listed'[c] = listed[c] /\ n \in Names
      BY <1>0, <1>2, <2>0, <3>1 DEF Arrivals, Removing, Watched, JobType
    <3>3. QED
      BY <3>1, <3>2 DEF Explained, InFlight
  <2>3. CASE pods' = pods /\ \E m \in Names : Answered(c, m)
    <3>1. PICK m \in Names : Answered(c, m)
      BY <2>3
    <3>2. Removing(c) /\ n \in Watched(c) /\ nodes'[n] = nodes[n]
      BY <1>2, <3>1, AnsweredWatch DEF Removing
    <3>3. QED
      BY <2>1, <2>3, <3>2
  <2>4. CASE pods' = pods /\ UNCHANGED nodes /\ Inner(c)
    <3>1. CASE ObservePods(c)
      <4>1. pc[c] = "pods" /\ pc'[c] = "apply" /\ n \in Names /\ n \notin BusyNodes
        BY <1>1, <1>2, <3>1, PodsObserved DEF Unoccupied, Watched, Removing
      <4>2. listed'[c] = pods
        BY <1>0, <1>2, <4>1
      <4>3. \A p \in Pods : pods[p].node = n => InFlight(p, n, pods)
        BY <1>1, <4>1, ObjectsTyped, ObjectsAssumption DEF BusyNodes, Placed, InFlight
      <4>4. QED
        BY <2>4, <4>2, <4>3 DEF Explained
    <3>2. CASE EndWave(c)
      <4>1. /\ pc[c] = "apply" /\ job' = [job EXCEPT ![c] = NextWave(@.op, @.todo)]
        BY <1>2, <2>0, <3>2 DEF EndWave, Removing
      <4>2. /\ job[c].op \in Operations /\ job[c].todo \in SUBSET Names
            /\ job'[c] = NextWave(job[c].op, job[c].todo)
        BY <2>0, <4>1 DEF JobType
      <4>3. Removing(c) /\ n \in Watched(c)
        BY <1>2, <4>1, <4>2, NextWaveTyped DEF Watched, Removing
      <4>4. QED
        BY <2>1, <2>4, <4>3
    <3>3. CASE CacheDeliver(c) \/ SkipPass(c)
      <4>1. pc' = pc /\ job' = job
        BY <3>3 DEF CacheDeliver, SkipPass, passVars
      <4>2. QED
        BY <1>2, <2>1, <2>4, <4>1 DEF Watched, Removing
    <3>4. QED
      BY <1>2, <2>0, <2>4, <3>1, <3>2, <3>3 DEF Inner, StartPass, ObserveLeases, LoseObservation,
         CommitStatus, CommitConflict, RemoveFinalizer, FinalizerConflict, Crash, EndPass, Removing
  <2>5. CASE pods' = pods /\ ByClient
    BY <1>2, <2>1, <2>5 DEF ByClient, Watched, clusterVars, Removing
  <2>6. CASE pods' = pods /\ Outside
    <3>1. n \in Watched(c) /\ Removing(c)
      BY <1>2, <2>6 DEF Outside, passVars, Watched, Removing
    <3>2. n \in Names
      BY <2>0, <3>1 DEF Watched, JobType, Removing
    <3>3. QED
      BY <2>1, <2>6, <3>1, <3>2 DEF Outside
  <2>7. Inner(c) \/ (\E m \in Names : Answered(c, m)) \/ ByClient \/ Outside
    BY <1>0, <1>1, StepKinds DEF Solo
  <2>8. Inner(c) => UNCHANGED nodes
    BY DEF Inner, clusterVars
  <2>9. QED
    BY <2>2, <2>3, <2>4, <2>5, <2>6, <2>7, <2>8
<1>3. QED
  BY <1>1, <1>2 DEF Arrivals

\* SAFE-005 and SAFE-006, as far as they hold: whatever happens between the lists and the
\* deletes of a pass, openings by hand included, it deletes closed Nodes only, and no Pod
\* loses its Node but one whose binding was on its way when the Pods were listed.
THEOREM DeletionsSpareListedPods ==
    ASSUME Solo PROVE HSpec => OnlyBindingsInFlightAreLost
<1>1. ASSUME HInit PROVE Arrivals
  <2>1. Placed
    BY <1>1 DEF HInit, Init, Placed
  <2>2. \A c \in Controllers : pc[c] = "idle"
    BY <1>1 DEF HInit, Init
  <2>3. QED
    BY <2>1, <2>2 DEF Arrivals, Removing
<1>2. ASSUME FInv, Arrivals, [HNext]_historyVars, NEW c \in Controllers, NEW n \in Names,
             Deletes(c, n)
      PROVE  /\ ~nodes[n].open
             /\ \A p \in Pods : pods[p].node = n => InFlight(p, n, listed[c])
  <2>1. IInv /\ [Next]_vars /\ passVars' # passVars
    BY <1>2 DEF FInv, CInv, HNext, historyVars, vars, Deletes, passVars
  <2>2. ASSUME NEW d \in Controllers, Requested(d, n)
        PROVE  d = c /\ ~nodes[n].open /\ Removing(c) /\ n \in Watched(c)
    <3>1. /\ job[d].op = "delete-node"
          /\ DeletableNode(nodes[n], seen[d].nodes[n], record[d].gen)
      BY <1>2, <2>1, <2>2, NodeWritten DEF IsOwned, Deletes
    <3>2. ~nodes[n].open
      BY <1>2, <3>1 DEF DeletableNode, IsOwned, Deletes
    <3>3. n \in Watched(d) /\ pc[d] = "apply"
      BY <2>2 DEF Requested, Watched
    <3>4. d = c
      BY DEF Solo
    <3>5. QED
      BY <3>1, <3>2, <3>3, <3>4 DEF Removing
  <2>3. \E d \in Controllers : Requested(d, n)
    BY <1>2, <2>1, ObjectStep DEF MovedNode, Deletes
  <2>4. QED
    BY <1>2, <2>2, <2>3 DEF Arrivals, Explained, Deletes
<1>3. FInv /\ Arrivals /\ [HNext]_historyVars =>
        [\A c \in Controllers, n \in Names : Deletes(c, n) =>
            /\ ~nodes[n].open
            /\ \A p \in Pods : pods[p].node = n => InFlight(p, n, listed[c])]_historyVars
  BY <1>2
<1>4. HSpec => Spec
  <2>1. HInit => Init
    BY DEF HInit
  <2>2. [HNext]_historyVars => [Next]_vars
    BY DEF HNext, historyVars
  <2>3. QED
    BY <2>1, <2>2, PTL DEF HSpec, Spec
<1>5. QED
  BY <1>1, <1>3, <1>4, StepKeepsArrivals, ObservationsHold, PTL
     DEF HSpec, OnlyBindingsInFlightAreLost

NothingOwned == \A n \in Names : ~IsOwned(nodes[n]) /\ ~IsOwned(leases[n])
\* Once the finalizer is gone every pass is one of the deletion, which creates
\* nothing; and a pass that is about to remove it found nothing left.
LastPass(c) ==
    /\ ~exists => /\ cache[c].exists => cache[c].deleting
                  /\ pc[c] # "idle" => record[c].deleting
    /\ Committing(c) /\ intent[c].final => NothingOwned

DInv == /\ FInv
        /\ ~exists => deleting /\ NothingOwned
        /\ \A c \in Controllers : LastPass(c)

\* How a request that succeeds moves the Lease of its name.
LEMMA LeaseWritten ==
    ASSUME IInv, NEW c \in Controllers, NEW n \in Names, Requested(c, n)
    PROVE  LET op == job[c].op
           IN  \/ leases'[n] = leases[n]
               \/ op = "create-lease" /\ leases[n] = Absent /\ IsOwned(leases'[n])
               \/ op = "lease-metadata" /\ IsOwned(leases[n]) /\ IsOwned(leases'[n])
               \/ /\ op = "delete-lease" /\ leases'[n] = Absent
                  /\ leases[n] = Absent \/ IsOwned(leases[n])
<1> DEFINE g == record[c].gen
           op == job[c].op
<1>1. /\ g \in Nat /\ leases \in [Names -> LeaseObject \union {Absent, Foreign}]
      /\ births \in [Names -> Nat]
  BY RequestContext DEF Requested, IInv, TypeOK
<1>2. CASE /\ op = "create-lease" /\ Vacant(leases[n])
           /\ leases' = [leases EXCEPT ![n] = [uid |-> births[n] + 1, gen |-> g]]
  <2>1. [uid |-> births[n] + 1, gen |-> g] \in LeaseObject
    BY <1>1 DEF LeaseObject
  <2>2. QED
    BY <1>1, <1>2, <2>1, ObjectsAssumption DEF Vacant, IsOwned
<1>3. CASE /\ op = "lease-metadata" /\ Exact(leases[n], seen[c].leases[n], g)
           /\ leases' = [leases EXCEPT ![n].gen = g]
  <2>1. leases[n] \in LeaseObject /\ IsOwned(leases[n])
    BY <1>1, <1>3 DEF Exact, IsOwned
  <2>2. [leases[n] EXCEPT !.gen = g] \in LeaseObject
    BY <1>1, <2>1 DEF LeaseObject
  <2>3. leases'[n] = [leases[n] EXCEPT !.gen = g]
    BY <1>1, <1>3
  <2>4. QED
    BY <1>3, <2>1, <2>2, <2>3, ObjectsAssumption DEF IsOwned
<1>4. CASE /\ op = "delete-lease" /\ Deletable(leases[n], seen[c].leases[n], g)
           /\ leases' = [leases EXCEPT ![n] = Absent]
  BY <1>1, <1>4 DEF Deletable, Exact, IsOwned
<1>5. CASE leases' = leases
  BY <1>5
<1>6. QED
  BY <1>2, <1>3, <1>4, <1>5 DEF Requested, RequestSucceeds

\* A pass of the deletion creates nothing, and nobody else does.
LEMMA NothingIsCreated ==
    ASSUME FInv, [Next]_vars, NothingOwned,
           \A c \in Controllers : pc[c] = "apply" => record[c].deleting
    PROVE  NothingOwned'
<1> SUFFICES ASSUME NEW n \in Names PROVE ~IsOwned(nodes'[n]) /\ ~IsOwned(leases'[n])
  BY DEF NothingOwned, IsOwned
<1>1. IInv /\ ~IsOwned(nodes[n]) /\ ~IsOwned(leases[n])
  BY DEF FInv, CInv, NothingOwned
<1>2. ASSUME NEW c \in Controllers, Requested(c, n)
      PROVE  ~IsOwned(nodes'[n]) /\ ~IsOwned(leases'[n])
  <2>1. job[c].op \in {"close-seen", "delete-node", "delete-lease"}
    BY <1>2, RequestFollows DEF Due, Requested
  <2>2. ~IsOwned(nodes'[n])
    BY <1>1, <1>2, <2>1, NodeWritten DEF IsOwned
  <2>3. ~IsOwned(leases'[n])
    BY <1>1, <1>2, <2>1, LeaseWritten DEF IsOwned
  <2>4. QED
    BY <2>2, <2>3
<1>3. CASE Outside
  BY <1>1, <1>3 DEF Outside, NodeMoves, LeaseMoves, IsOwned
<1>4. CASE UNCHANGED clusterVars
  BY <1>1, <1>4 DEF clusterVars
<1>5. ASSUME NEW c \in Controllers, NEW m \in Names, Answered(c, m)
      PROVE  \/ Requested(c, n) \/ UNCHANGED clusterVars
             \/ nodes'[n] = nodes[n] /\ leases'[n] = leases[n]
  BY <1>1, <1>5, RequestIsLocal DEF Answered, Requested
<1>6. QED
  BY <1>1, <1>2, <1>3, <1>4, <1>5, StepKinds DEF Inner, ByClient

\* A pass that keeps its place and its intent.
LEMMA LastPassFrame ==
    ASSUME NEW c, LastPass(c), exists' = exists,
           cache'[c].exists => cache[c].exists /\ cache'[c].deleting = cache[c].deleting,
           pc'[c] # "idle" => pc[c] # "idle" /\ record'[c].deleting = record[c].deleting,
           Committing(c)' /\ intent'[c].final => NothingOwned'
    PROVE  LastPass(c)'
BY DEF LastPass

LEMMA PassIsLast ==
    ASSUME Solo, DInv, NEW c \in Controllers, Inner(c)
    PROVE  LastPass(c)' /\ (~exists' => deleting' /\ NothingOwned')
<1>1. /\ IInv /\ Follows(c) /\ CurrentOK(c) /\ LastPass(c) /\ (~exists => deleting /\ NothingOwned)
      /\ NothingOwned' = NothingOwned
  BY DEF DInv, FInv, CInv, Inner, clusterVars, NothingOwned, IsOwned
<1>2. /\ pc \in [Controllers -> Steps] /\ seen \in [Controllers -> SeenType]
      /\ record \in [Controllers -> Record] /\ job \in [Controllers -> JobType]
      /\ cache \in [Controllers -> Record] /\ intent \in [Controllers -> Intent]
      /\ deleting \in BOOLEAN /\ exists \in BOOLEAN
  BY <1>1, HoldingsTyped
<1>3. CASE CacheDeliver(c)
  <2>1. /\ cache'[c].exists = exists /\ UNCHANGED <<exists, deleting, pc, record, intent>>
    BY <1>2, <1>3 DEF CacheDeliver, instanceVars, passVars
  <2>2. QED
    BY <1>1, <2>1 DEF LastPass, Committing
<1>4. CASE StartPass(c)
  <2>1. /\ cache[c].exists /\ record'[c] = cache[c] /\ pc'[c] = "leases"
        /\ UNCHANGED <<exists, deleting, cache>>
    BY <1>2, <1>4 DEF StartPass, instanceVars
  <2>2. QED
    BY <1>1, <2>1 DEF LastPass, Committing
<1>5. CASE SkipPass(c) \/ ObserveLeases(c)
  <2>1. /\ UNCHANGED <<exists, deleting, cache, record, intent>>
        /\ \/ pc'[c] = pc[c]
           \/ pc[c] = "leases" /\ pc'[c] = "pods"
    <3>1. CASE SkipPass(c)
      <4>1. UNCHANGED <<exists, deleting, cache, pc, record, intent>>
        BY <3>1 DEF SkipPass, instanceVars, passVars
      <4>2. QED
        BY <4>1
    <3>2. CASE ObserveLeases(c)
      BY <1>2, <3>2 DEF ObserveLeases, instanceVars
    <3>3. QED
      BY <1>5, <3>1, <3>2
  <2>2. QED
    BY <1>1, <2>1, LastPassFrame DEF Committing, LastPass
<1>6. CASE ObservePods(c)
  <2>1. /\ UNCHANGED <<exists, deleting, cache, record>> /\ pc[c] = "pods"
    BY <1>6 DEF ObservePods, instanceVars
  <2>2. ASSUME pc'[c] = "commit", intent'[c].final PROVE NothingOwned
    <3> DEFINE stage == FirstStage(IF record[c].deleting THEN DeletionStages(seen[c])
                                   ELSE ConvergenceStages(record[c].gen, seen[c]))
    <3>0. \/ intent'[c] = Progress(record[c], TRUE)
          \/ intent'[c] = Outcome(record[c], seen[c]) /\ stage.op = "none"
      BY <1>1, <1>6, <2>2, PodsObserved
    <3> HIDE DEF stage
    <3>a. record[c] \in Record
      BY <1>2
    <3>b. intent'[c] # Progress(record[c], TRUE)
      BY <2>2, <3>a, IntentsSay
    <3>c. record[c].deleting /\ stage.op = "none"
      BY <2>2, <3>0, <3>a, <3>b, IntentsSay
    <3>1. /\ record[c].deleting
          /\ FirstStage(IF record[c].deleting THEN DeletionStages(seen[c])
                        ELSE ConvergenceStages(record[c].gen, seen[c])).op = "none"
      BY <3>c DEF stage
    <3>2. FirstStage(DeletionStages(seen[c])).op = "none"
      BY <3>1
    <3>3. OwnedNodes(seen[c]) = {} /\ OwnedLeases(seen[c]) = {}
      BY <3>2, DeletionDue
    <3>4. ASSUME NEW n \in Names PROVE ~IsOwned(nodes[n]) /\ ~IsOwned(leases[n])
      <4>1. NodeFollows(c, n) /\ LeaseFollows(c, n)
        BY <1>1, <2>1 DEF Follows, Watched
      <4>2. seen[c].nodes[n] = Absent /\ seen[c].leases[n] = Absent
        BY <3>3 DEF OwnedNodes, OwnedLeases
      <4>3. QED
        BY <4>1, <4>2 DEF NodeFollows, LeaseFollows, IsOwned
    <3>5. QED
      BY <3>4 DEF NothingOwned
  <2>3. pc'[c] \in {"commit", "apply"}
    BY <1>1, <1>6, PodsObserved
  <2>4. QED
    BY <1>1, <2>1, <2>2, <2>3, LastPassFrame DEF Committing
<1>7. CASE EndWave(c)
  <2>1. /\ pc[c] = "apply" /\ UNCHANGED <<exists, deleting, cache>>
        /\ \/ UNCHANGED <<pc, intent, record>>
           \/ /\ pc'[c] = "commit" /\ record' = record
              /\ \/ intent'[c] = Progress(record[c], FALSE)
                 \/ \E again : intent'[c] = Failure(record[c], again)
           \/ pc'[c] = "idle"
    <3>1. /\ pc[c] = "apply" /\ UNCHANGED <<exists, deleting, cache>>
          /\ \/ UNCHANGED <<pc, intent, record>>
             \/ /\ pc' = [pc EXCEPT ![c] = "commit"] /\ record' = record
                /\ \/ intent' = [intent EXCEPT ![c] = Progress(record[c], FALSE)]
                   \/ \E again : intent' = [intent EXCEPT ![c] = Failure(record[c], again)]
             \/ pc' = [pc EXCEPT ![c] = "idle"]
      BY <1>7 DEF EndWave, instanceVars
    <3>2. QED
      BY <1>2, <3>1
  <2>2. ASSUME pc'[c] = "commit" PROVE ~intent'[c].final
    BY <1>2, <2>1, <2>2, IntentsSay
  <2>3. pc'[c] \in {"apply", "commit", "idle"}
    BY <2>1
  <2>4. QED
    BY <1>1, <2>1, <2>2, <2>3, LastPassFrame DEF Committing
<1>8. CASE LoseObservation(c)
  <2>1. /\ pc[c] \in {"leases", "pods"} /\ UNCHANGED <<exists, deleting, cache, record>>
        /\ pc'[c] = "commit" /\ intent'[c] = Failure(record[c], TRUE)
    BY <1>2, <1>8 DEF LoseObservation, instanceVars
  <2>2. ~intent'[c].final
    BY <1>2, <2>1, IntentsSay
  <2>3. QED
    BY <1>1, <2>1, <2>2, LastPassFrame DEF Committing
<1>9. CASE CommitStatus(c)
  <2>1. /\ UNCHANGED <<exists, deleting>> /\ pc[c] = "commit"
        /\ cache' = cache \/ cache' = Outdated(cache)
        /\ \/ pc'[c] = "idle"
           \/ /\ pc'[c] = "finalize" /\ intent' = intent /\ intent[c].final
              /\ record' = record \/ record' = Outdated(record)
    BY <1>2, <1>9 DEF CommitStatus, WriteStatus, EndPass
  <2>2. /\ cache'[c].exists = cache[c].exists /\ cache'[c].deleting = cache[c].deleting
        /\ pc'[c] # "idle" => record'[c].deleting = record[c].deleting
    BY <1>2, <2>1, OutdatedTyped
  <2>3. pc'[c] # "idle" => NothingOwned
    BY <1>1, <2>1 DEF LastPass, Committing
  <2>4. QED
    BY <1>1, <2>1, <2>2, <2>3, LastPassFrame DEF Committing
<1>10. CASE CommitConflict(c) \/ FinalizerConflict(c)
  <2>1. UNCHANGED <<exists, deleting, cache>> /\ pc'[c] = "idle"
    BY <1>2, <1>10 DEF CommitConflict, FinalizerConflict, EndPass, instanceVars
  <2>2. QED
    BY <1>1, <2>1, LastPassFrame DEF Committing
<1>11. CASE RemoveFinalizer(c)
  <2>1. /\ pc[c] = "finalize" /\ cache[c].fresh /\ cache' = Outdated(cache)
        /\ pc'[c] = "idle" /\ deleting' = deleting
    BY <1>2, <1>11 DEF RemoveFinalizer, EndPass
  <2>2. intent[c].final /\ record[c].deleting
    BY <1>1, <2>1 DEF CurrentOK, IntentOK, Committing
  <2>3. deleting /\ NothingOwned
    BY <1>1, <2>1, <2>2 DEF LastPass, Committing, IInv, PassOK
  <2>4. cache'[c].deleting
    BY <1>1, <1>2, <2>1, <2>3, OutdatedTyped DEF CurrentOK, IsCurrent
  <2>5. QED
    BY <1>1, <2>1, <2>3, <2>4 DEF LastPass, Committing
<1>12. CASE Crash(c)
  <2>1. UNCHANGED <<exists, deleting>> /\ pc'[c] = "idle" /\ cache'[c] = NoRecord
    BY <1>2, <1>12 DEF Crash, instanceVars
  <2>2. ~NoRecord.exists
    BY DEF NoRecord
  <2>3. QED
    BY <1>1, <2>1, <2>2, LastPassFrame DEF Committing
<1>13. QED
  BY <1>3, <1>4, <1>5, <1>6, <1>7, <1>8, <1>9, <1>10, <1>11, <1>12 DEF Inner

LEMMA StepKeepsDInv == ASSUME Solo PROVE DInv /\ [Next]_vars => DInv'
<1> SUFFICES ASSUME DInv, [Next]_vars PROVE DInv'
  OBVIOUS
<1>1. FInv' /\ FInv /\ IInv
  BY StepKeepsFInv DEF DInv, FInv, CInv
<1>2. /\ pc \in [Controllers -> Steps] /\ record \in [Controllers -> Record]
      /\ cache \in [Controllers -> Record]
  BY <1>1, HoldingsTyped
<1>3. ASSUME NothingOwned,
             ~exists \/ \E c \in Controllers : Committing(c)
      PROVE  NothingOwned'
  <2>1. \A c \in Controllers : pc[c] = "apply" => record[c].deleting
    BY <1>3 DEF DInv, LastPass, Committing, Solo
  <2>2. QED
    BY <1>1, <1>3, <2>1, NothingIsCreated
<1>4. CASE \E c \in Controllers : Inner(c)
  <2>1. PICK c \in Controllers : Inner(c)
    BY <1>4
  <2>2. \A d \in Controllers : LastPass(d)'
    BY <2>1, PassIsLast DEF Solo
  <2>3. QED
    BY <1>1, <2>1, <2>2, PassIsLast DEF DInv
<1>5. CASE \E c \in Controllers, m \in Names : Answered(c, m)
  <2>1. /\ UNCHANGED <<exists, deleting, cache, pc, record, intent>>
    BY <1>5 DEF Answered, instanceVars
  <2>2. ASSUME NEW d \in Controllers PROVE LastPass(d)'
    <3>1. LastPass(d)
      BY DEF DInv
    <3>2. Committing(d)' /\ intent'[d].final => NothingOwned'
      BY <1>3, <2>1, <3>1 DEF LastPass, Committing
    <3>3. QED
      BY <2>1, <3>1, <3>2, LastPassFrame
  <2>3. QED
    BY <1>1, <1>3, <2>1, <2>2 DEF DInv
<1>6. CASE ByClient
  <2>1. /\ UNCHANGED <<pc, intent>> /\ exists /\ exists'
        /\ cache' = Outdated(cache) /\ record' = Outdated(record)
        /\ NothingOwned' = NothingOwned
    BY <1>6 DEF ByClient, RequestDeletion, AcceptRevision, InstanceWritten, clusterVars,
       NothingOwned, IsOwned
  <2>2. ASSUME NEW d \in Controllers PROVE LastPass(d)'
    BY <2>1 DEF DInv, LastPass, Committing
  <2>3. QED
    BY <1>1, <2>1, <2>2 DEF DInv
<1>7. CASE Outside
  <2>1. /\ UNCHANGED <<exists, deleting, cache, pc, record, intent>>
    BY <1>7 DEF Outside, instanceVars, passVars
  <2>2. ASSUME NEW d \in Controllers PROVE LastPass(d)'
    <3>1. LastPass(d)
      BY DEF DInv
    <3>2. Committing(d)' /\ intent'[d].final => NothingOwned'
      BY <1>3, <2>1, <3>1 DEF LastPass, Committing
    <3>3. QED
      BY <2>1, <3>1, <3>2, LastPassFrame
  <2>3. QED
    BY <1>1, <1>3, <2>1, <2>2 DEF DInv
<1>8. QED
  BY <1>1, <1>4, <1>5, <1>6, <1>7, StepKinds

LEMMA InitDInv == Init => DInv
<1> SUFFICES ASSUME Init PROVE DInv
  OBVIOUS
<1>1. exists /\ \A c \in Controllers : pc[c] = "idle"
  BY DEF Init
<1>2. QED
  BY <1>1, InitFInv DEF DInv, LastPass, Committing

LEMMA DeletionHolds == ASSUME Solo PROVE Spec => []DInv
BY InitDInv, StepKeepsDInv, PTL DEF Spec

\* SAFE-007: when the finalizer is gone no owned object is left, and none appears
\* again, whatever passes were interrupted and whatever others did to the objects.
THEOREM DeletionIsComplete == ASSUME Solo PROVE Spec => []DeletionLeavesNothing
<1>1. DInv => DeletionLeavesNothing
  BY DEF DInv, NothingOwned, DeletionLeavesNothing
<1>2. QED
  BY <1>1, DeletionHolds, PTL

-----------------------------------------------------------------------------
(***************************************************************************)
(* The Lease of an active Node.  Objects are only removed by passes here   *)
(* (Quiet), so what a pass saw of a Lease when it activated the Node is    *)
(* still so when the Node becomes active.                                  *)
(***************************************************************************)

LeaseGuards(n) ==
    /\ nodes[n] # Foreign /\ leases[n] # Foreign
    /\ IsOwned(nodes[n]) /\ nodes[n].active => IsOwned(leases[n])
LInv == DInv /\ \A n \in Names : LeaseGuards(n)

\* A request of c leaves an active Node guarded.
LEMMA RequestGuards ==
    ASSUME Quiet, LInv, NEW c \in Controllers, NEW n \in Names, Requested(c, n), IInv'
    PROVE  LeaseGuards(n)'
<1> DEFINE op == job[c].op
           g == record[c].gen
<1>1. /\ IInv /\ NodeFollows(c, n) /\ LeaseFollows(c, n) /\ LeaseGuards(n)
      /\ Due(op, n, g, seen[c], record[c].deleting) /\ g \in Nat
  BY RequestFollows DEF LInv, DInv
<1>2. /\ nodes[n] \in NodeObject \union {Absent, Foreign}
      /\ nodes'[n] \in NodeObject \union {Absent, Foreign}
  BY <1>1, ObjectsTyped DEF IInv, TypeOK
<1>3. ~exists => record[c].deleting /\ ~IsOwned(nodes[n]) /\ ~IsOwned(leases[n])
  <2>1. pc[c] # "idle" /\ LastPass(c) /\ (~exists => NothingOwned)
    BY DEF LInv, DInv, Requested
  <2>2. ~exists => record[c].deleting
    BY <2>1 DEF LastPass
  <2>3. ~exists => ~IsOwned(nodes[n]) /\ ~IsOwned(leases[n])
    BY <2>1 DEF NothingOwned
  <2>4. QED
    BY <2>2, <2>3
<1>4. /\ leases'[n] # Foreign
      /\ IsOwned(leases[n]) => IsOwned(leases'[n]) \/ op = "delete-lease"
  BY <1>1, LeaseWritten, ObjectsAssumption DEF LeaseGuards, IsOwned
<1>5. op \in {"create-node", "metadata", "close", "open"} => IsOwned(leases[n])
  BY <1>1, <1>3 DEF Due, LeaseFollows
<1>6. CASE op = "create-node"
  <2>1. IsOwned(leases'[n])
    BY <1>4, <1>5, <1>6
  <2>2. nodes'[n] # Foreign
    <3>1. \/ nodes'[n] = nodes[n]
          \/ nodes'[n] = CreatedNode(births[n] + 1, g, log[g][n].key)
      BY <1>1, <1>6, NodeWritten DEF UpdatesNode
    <3>2. CASE nodes'[n] = CreatedNode(births[n] + 1, g, log[g][n].key)
      <4>1. births[n] \in Nat /\ log[g][n].key \in Keys
        <5>1. births \in [Names -> Nat]
          BY <1>1 DEF IInv, TypeOK
        <5>2. FInv /\ op \in WantedOnly
          BY <1>6 DEF LInv, DInv, WantedOnly
        <5>3. log[g][n] \in NodeSpec
          BY <5>2, RequestFollows
        <5>4. QED
          BY <5>1, <5>3 DEF NodeSpec
      <4>2. CreatedNode(births[n] + 1, g, log[g][n].key) \in NodeObject
        BY <1>1, <4>1 DEF CreatedNode, NodeObject
      <4>3. QED
        BY <3>2, <4>2, ObjectsAssumption
    <3>3. QED
      BY <1>1, <3>1, <3>2 DEF LeaseGuards
  <2>3. QED
    BY <1>4, <2>1, <2>2 DEF LeaseGuards
<1>7. CASE op \in UpdatesNode /\ IsOwned(nodes[n]) /\ nodes[n] \in NodeObject
           /\ IsOwned(nodes'[n]) /\ nodes'[n] = NodeAfter(op, nodes[n], seen[c].nodes[n], g, n)
  <2> DEFINE after == NodeAfter(op, nodes[n], seen[c].nodes[n], g, n)
  <2>1. /\ op = "status" => after.active = nodes[n].active
        /\ op = "repair" => ~after.active
        /\ op = "close-seen" => after.active = seen[c].nodes[n].active
    BY <1>1, <1>7, NodeAfterFields
  <2>2. nodes'[n] = after
    BY <1>7
  <2> HIDE DEF after
  <2>3. Alike(nodes[n], seen[c].nodes[n])
    BY <1>1, <1>7 DEF NodeFollows
  <2>4. nodes'[n].active => IsOwned(leases[n])
    BY <1>1, <1>5, <1>7, <2>1, <2>2, <2>3 DEF UpdatesNode, LeaseGuards, Alike
  <2>5. QED
    BY <1>4, <1>7, <2>4 DEF LeaseGuards, IsOwned, UpdatesNode
<1>8. CASE nodes'[n] = Absent
  BY <1>4, <1>8, ObjectsAssumption DEF LeaseGuards, IsOwned
<1>9. CASE nodes'[n] = nodes[n] /\ op # "delete-lease"
  BY <1>1, <1>4, <1>9 DEF LeaseGuards, IsOwned
<1>10. CASE nodes'[n] = nodes[n] /\ op = "delete-lease"
  <2>1. ~IsOwned(nodes[n])
    BY <1>1, <1>10 DEF Due, NodeFollows
  <2>2. QED
    BY <1>1, <1>4, <1>10, <2>1 DEF LeaseGuards, IsOwned
<1>11. QED
  BY <1>1, <1>6, <1>7, <1>8, <1>9, <1>10, NodeWritten

LEMMA StepKeepsLInv == ASSUME Solo, Quiet PROVE LInv /\ [Next]_vars => LInv'
<1> SUFFICES ASSUME LInv, [Next]_vars, NEW n \in Names PROVE LeaseGuards(n)'
  BY StepKeepsDInv DEF LInv
<1>1. IInv /\ LeaseGuards(n) /\ IInv'
  BY StepKeepsDInv DEF LInv, DInv, FInv, CInv
<1>2. CASE nodes'[n] = nodes[n] /\ leases'[n] = leases[n]
  BY <1>1, <1>2 DEF LeaseGuards, IsOwned
<1>3. CASE \E c \in Controllers, m \in Names : Answered(c, m)
  <2>1. \/ \E c \in Controllers : Requested(c, n)
        \/ nodes'[n] = nodes[n] /\ leases'[n] = leases[n]
    BY <1>1, <1>3, RequestIsLocal DEF Answered, Requested, clusterVars
  <2>2. QED
    BY <1>1, <1>2, <2>1, RequestGuards
<1>4. CASE Outside
  <2>1. NodeMoves(n) /\ LeaseMoves(n) /\ (~exists => ~IsOwned(nodes[n]) /\ ~IsOwned(leases[n]))
    BY <1>4 DEF Outside, LInv, DInv, NothingOwned
  <2>2. QED
    BY <1>1, <2>1, ObjectsAssumption DEF NodeMoves, LeaseMoves, LeaseGuards, Quiet, IsOwned, Alike
<1>5. QED
  BY <1>1, <1>2, <1>3, <1>4, StepKinds DEF Inner, ByClient, clusterVars

LEMMA InitLInv == Init => LInv
<1> SUFFICES ASSUME Init, NEW n \in Names PROVE LeaseGuards(n)
  BY InitDInv DEF LInv
<1>1. nodes[n] = Absent /\ leases[n] = Absent
  BY DEF Init
<1>2. QED
  BY <1>1, ObjectsAssumption DEF LeaseGuards, IsOwned

LEMMA LeasesGuard == ASSUME Solo, Quiet PROVE Spec => []LInv
BY InitLInv, StepKeepsLInv, PTL DEF Spec

\* 6.2: KWOK never gets to create a Lease of its own, because an active Node has an
\* owned Lease in every state: repair, creation, closing and removal keep their order
\* across crashes, lost responses and revisions.
THEOREM RuntimeLeasesNeverAppear == ASSUME Solo, Quiet PROVE Spec => []NoRuntimeLease
<1>1. LInv => NoRuntimeLease
  BY DEF LInv, LeaseGuards, NoRuntimeLease
<1>2. QED
  BY <1>1, LeasesGuard, PTL

-----------------------------------------------------------------------------
(***************************************************************************)
(* An observation at rest: every stage of generation g is empty and the    *)
(* assessment of extended resources is satisfied.                          *)
(***************************************************************************)

NodeInPlace(n, g, x) ==
    IF n \in Wanted(g)
    THEN /\ x # Absent /\ x.gen <= g /\ x.keys = {log[g][n].key} /\ x.active
         /\ Converged(x, log[g][n]) /\ x.ready /\ x.open
    ELSE x = Absent
LeaseInPlace(n, g, x) ==
    IF n \in Wanted(g) THEN x # Absent /\ x.gen <= g ELSE x = Absent

NodesInPlace(g, objects) == \A n \in Names : NodeInPlace(n, g, objects[n])
LeasesInPlace(g, objects) == \A n \in Names : LeaseInPlace(n, g, objects[n])
AtRest(g) == NodesInPlace(g, OwnedOnly(nodes)) /\ LeasesInPlace(g, OwnedOnly(leases))

\* A pass that observes it has nothing to do, and reports Ready.
LEMMA RestIsSatisfied ==
    ASSUME IInv, NEW g \in 1..Len(log), NEW o, NodesInPlace(g, o.nodes),
           LeasesInPlace(g, o.leases)
    PROVE  /\ FidelitySatisfied(g, o)
           /\ \A n \in Wanted(g) : Complete(g, o, n)
           /\ StaleNodes(g, o) = {} /\ StaleLeases(g, o) = {}
<1>1. Wanted(g) \subseteq Names
  BY WantedTyped DEF IInv
<1>2. \A n \in Wanted(g) : NodeInPlace(n, g, o.nodes[n]) /\ LeaseInPlace(n, g, o.leases[n])
  BY <1>1 DEF NodesInPlace, LeasesInPlace
<1>3. \A n \in Wanted(g) : Complete(g, o, n) /\ o.nodes[n].open
  BY <1>2 DEF NodeInPlace, LeaseInPlace, Complete
<1>4. StaleNodes(g, o) = {}
  BY DEF StaleNodes, NodesInPlace, NodeInPlace
<1>5. StaleLeases(g, o) = {}
  BY DEF StaleLeases, LeasesInPlace, LeaseInPlace
<1>6. QED
  BY <1>3, <1>4, <1>5 DEF FidelitySatisfied

LEMMA RestIsOver ==
    ASSUME IInv, NEW g \in 1..Len(log), NEW o \in SeenType, NodesInPlace(g, o.nodes),
           LeasesInPlace(g, o.leases)
    PROVE  FirstStage(ConvergenceStages(g, o)).op = "none"
<1>1. Wanted(g) \subseteq Names
  BY WantedTyped DEF IInv
<1>2. ASSUME NEW n \in Wanted(g)
      PROVE  /\ o.nodes[n] # Absent /\ o.nodes[n].gen <= g
             /\ o.nodes[n].keys = {log[g][n].key} /\ o.nodes[n].active
             /\ Converged(o.nodes[n], log[g][n]) /\ o.nodes[n].open
             /\ o.leases[n] # Absent /\ o.leases[n].gen <= g
             /\ o.nodes[n].gen \in Nat /\ o.leases[n].gen \in Nat /\ g \in Nat
  <2>1. NodeInPlace(n, g, o.nodes[n]) /\ LeaseInPlace(n, g, o.leases[n])
    BY <1>1, <1>2 DEF NodesInPlace, LeasesInPlace
  <2>2. /\ o.nodes[n] \in NodeObject \union {Absent}
        /\ o.leases[n] \in LeaseObject \union {Absent}
    BY <1>1, <1>2 DEF SeenType
  <2>3. QED
    BY <1>2, <2>1, <2>2 DEF NodeInPlace, LeaseInPlace, NodeObject, LeaseObject
<1>3. /\ Repairs(g, o) = {} /\ LeasesMissing(g, o) = {} /\ NodesMissing(g, o) = {}
      /\ StatusChanges(g, o) = {} /\ OpenNodes(g, o) = {}
  BY <1>2 DEF Repairs, LeasesMissing, NodesMissing, StatusChanges, OpenNodes
<1>4. MetadataChanges(g, o) = {} /\ LeaseMetadataChanges(g, o) = {}
  BY <1>2 DEF MetadataChanges, LeaseMetadataChanges
<1>5. ReplacementCloses(g, o) = {}
  BY <1>2 DEF ReplacementCloses, Converged
<1>6. MustClose(g, o) = {} /\ StaleNodes(g, o) = {} /\ StaleLeases(g, o) = {}
  BY RestIsSatisfied DEF MustClose
<1>7. QED
  BY <1>1, <1>3, <1>4, <1>5, <1>6, ConvergenceOver

\* A pass that reports Ready observes it.
LEMMA OverIsRest ==
    ASSUME IInv, NEW g \in 1..Len(log), NEW o \in SeenType, FidelitySatisfied(g, o),
           FirstStage(ConvergenceStages(g, o)).op = "none"
    PROVE  NodesInPlace(g, o.nodes) /\ LeasesInPlace(g, o.leases)
<1>1. Wanted(g) \subseteq Names
  BY WantedTyped DEF IInv
<1>2. /\ MetadataChanges(g, o) = {} /\ LeaseMetadataChanges(g, o) = {}
      /\ StaleNodes(g, o) = {} /\ StaleLeases(g, o) = {}
  BY <1>1, ConvergenceOver
<1>3. ASSUME NEW n \in Names PROVE NodeInPlace(n, g, o.nodes[n]) /\ LeaseInPlace(n, g, o.leases[n])
  <2>1. CASE n \notin Wanted(g)
    BY <1>2, <2>1 DEF StaleNodes, StaleLeases, NodeInPlace, LeaseInPlace
  <2>2. CASE n \in Wanted(g)
    <3>1. /\ o.nodes[n] # Absent /\ Converged(o.nodes[n], log[g][n])
          /\ o.nodes[n].ready /\ o.leases[n] # Absent /\ o.nodes[n].open
      BY <2>2 DEF FidelitySatisfied, Complete
    <3>2. o.nodes[n] \in NodeObject /\ o.leases[n] \in LeaseObject
      BY <3>1 DEF SeenType
    <3>3. o.nodes[n].gen \in Nat /\ o.leases[n].gen \in Nat /\ g \in Nat
      BY <3>2 DEF NodeObject, LeaseObject
    <3>4. ~(o.nodes[n].gen > g) /\ o.nodes[n].keys = {log[g][n].key} /\ o.nodes[n].active
      BY <1>2, <2>2, <3>1 DEF MetadataChanges
    <3>5. ~(o.leases[n].gen > g)
      BY <1>2, <2>2, <3>1 DEF LeaseMetadataChanges
    <3>6. o.nodes[n].gen <= g /\ o.leases[n].gen <= g
      BY <3>3, <3>4, <3>5
    <3>7. QED
      BY <2>2, <3>1, <3>4, <3>6 DEF NodeInPlace, LeaseInPlace
  <2>3. QED
    BY <2>1, <2>2
<1>4. QED
  BY <1>3 DEF NodesInPlace, LeasesInPlace

\* What a pass saw of objects nobody takes away still holds of them.
LEMMA FollowedRest ==
    ASSUME Quiet, IInv, exists, NEW g \in 1..Len(log), NEW c \in Controllers,
           \A n \in Names : NodeFollows(c, n) /\ LeaseFollows(c, n),
           NodesInPlace(g, seen[c].nodes), LeasesInPlace(g, seen[c].leases)
    PROVE  AtRest(g)
<1>1. ASSUME NEW n \in Names
      PROVE  /\ NodeInPlace(n, g, OwnedOnly(nodes)[n])
             /\ LeaseInPlace(n, g, OwnedOnly(leases)[n])
  <2> DEFINE x == OwnedOnly(nodes)[n]
             y == OwnedOnly(leases)[n]
             s == seen[c].nodes[n]
             t == seen[c].leases[n]
  <2>1. /\ IsOwned(nodes[n]) => x = nodes[n] /\ x # Absent
        /\ x # Absent => IsOwned(nodes[n]) /\ x = nodes[n]
        /\ IsOwned(leases[n]) => y = leases[n] /\ y # Absent
        /\ y # Absent => IsOwned(leases[n]) /\ y = leases[n]
    BY ListedNodeFollows, ListedLeaseFollows
  <2>2. NodeFollows(c, n) /\ LeaseFollows(c, n)
    OBVIOUS
  <2>3. /\ IsOwned(nodes[n]) => s # Absent /\ Alike(nodes[n], s) /\ nodes[n].open = s.open
        /\ s # Absent => IsOwned(nodes[n]) /\ (s.ready => nodes[n].ready)
        /\ IsOwned(leases[n]) => leases[n] = t
        /\ t # Absent => IsOwned(leases[n])
    BY <2>2 DEF NodeFollows, LeaseFollows, Quiet, Cordoned
  <2>4. NodeInPlace(n, g, s) /\ LeaseInPlace(n, g, t)
    BY DEF NodesInPlace, LeasesInPlace
  <2> HIDE DEF x, y, s, t
  <2>5. NodeInPlace(n, g, x)
    BY <2>1, <2>3, <2>4 DEF NodeInPlace, Alike, Converged
  <2>6. LeaseInPlace(n, g, y)
    BY <2>1, <2>3, <2>4 DEF LeaseInPlace, IsOwned
  <2>7. QED
    BY <2>5, <2>6 DEF x, y
<1>2. QED
  BY <1>1 DEF AtRest, NodesInPlace, LeasesInPlace

\* What others do to objects at rest leaves them at rest.
LEMMA MovesKeepRest ==
    ASSUME Quiet, IInv, IInv', exists, NEW g \in 1..Len(log), AtRest(g), log' = log,
           \A n \in Names : NodeMoves(n) /\ LeaseMoves(n)
    PROVE  AtRest(g)'
<1>1. ASSUME NEW n \in Names
      PROVE  /\ NodeInPlace(n, g, OwnedOnly(nodes')[n])
             /\ LeaseInPlace(n, g, OwnedOnly(leases')[n])
  <2> DEFINE x == OwnedOnly(nodes)[n]
             y == OwnedOnly(leases)[n]
             z == OwnedOnly(nodes')[n]
             w == OwnedOnly(leases')[n]
  <2>1. /\ IsOwned(nodes[n]) => x = nodes[n] /\ x # Absent
        /\ x # Absent => IsOwned(nodes[n]) /\ x = nodes[n]
        /\ IsOwned(leases[n]) => y = leases[n] /\ y # Absent
        /\ y # Absent => IsOwned(leases[n]) /\ y = leases[n]
        /\ IsOwned(nodes'[n]) => z = nodes'[n] /\ z # Absent
        /\ z # Absent => IsOwned(nodes'[n]) /\ z = nodes'[n]
        /\ IsOwned(leases'[n]) => w = leases'[n] /\ w # Absent
        /\ w # Absent => IsOwned(leases'[n]) /\ w = leases'[n]
    BY DEF OwnedOnly, IsOwned
  <2>2. /\ NodeInPlace(n, g, x) /\ LeaseInPlace(n, g, y)
    BY DEF AtRest, NodesInPlace, LeasesInPlace
  <2> HIDE DEF x, y, z, w
  <2>3. NodeMoves(n) /\ LeaseMoves(n)
    OBVIOUS
  <2>4. \/ nodes'[n] = nodes[n]
        \/ ~IsOwned(nodes[n]) /\ ~IsOwned(nodes'[n])
        \/ /\ IsOwned(nodes[n]) /\ IsOwned(nodes'[n]) /\ Alike(nodes'[n], nodes[n])
           /\ nodes'[n].open = nodes[n].open /\ (nodes[n].ready => nodes'[n].ready)
    BY <2>3 DEF NodeMoves, Quiet, IsOwned
  <2>5. \/ leases'[n] = leases[n]
        \/ ~IsOwned(leases[n]) /\ ~IsOwned(leases'[n])
    BY <2>3 DEF LeaseMoves, Quiet, IsOwned
  <2>6. NodeInPlace(n, g, z)
    BY <2>1, <2>2, <2>4 DEF NodeInPlace, Alike, Converged, IsOwned
  <2>7. LeaseInPlace(n, g, w)
    BY <2>1, <2>2, <2>5 DEF LeaseInPlace, IsOwned
  <2>8. QED
    BY <2>6, <2>7 DEF z, w
<1>2. QED
  BY <1>1 DEF AtRest, NodesInPlace, LeasesInPlace, NodeInPlace, LeaseInPlace, Wanted, Converged, OwnedOnly

-----------------------------------------------------------------------------
(***************************************************************************)
(* Ready is true.  A status Ready for the last generation leaves nothing   *)
(* for any pass to change: the pass that is running works for that         *)
(* generation and observes objects at rest.                                *)
(***************************************************************************)

IsReady == status.phase = "Ready" /\ status.observed = Len(log) /\ ~deleting

ReadyOK(c) ==
    /\ pc[c] # "idle" => record[c].gen <= cache[c].gen
    /\ pc[c] = "commit" /\ intent[c].status.phase = "Ready" /\ ~deleting =>
         record[c].gen \in 1..Len(log) /\ AtRest(record[c].gen)
    /\ IsReady =>
         /\ cache[c].exists => cache[c].gen = Len(log)
         /\ pc[c] # "idle" => record[c].gen = Len(log)
         /\ pc[c] # "apply"
         /\ pc[c] \in {"leases", "pods"} => NodesInPlace(Len(log), seen[c].nodes)
         /\ pc[c] = "pods" => LeasesInPlace(Len(log), seen[c].leases)

RInv == /\ DInv
        /\ status.phase = "Ready" => status.observed <= Len(log)
        /\ IsReady => AtRest(Len(log))
        /\ \A c \in Controllers : ReadyOK(c)

LEMMA RestFrame ==
    ASSUME NEW g, AtRest(g), UNCHANGED <<nodes, leases>>, log'[g] = log[g]
    PROVE  AtRest(g)'
BY DEF AtRest, NodesInPlace, LeasesInPlace, NodeInPlace, LeaseInPlace, Wanted, OwnedOnly,
   Converged

\* A step that leaves the place of the pass, and what it means, alone or ends it.
LEMMA ReadyFrame ==
    ASSUME NEW c, ReadyOK(c), UNCHANGED <<log, deleting, status, nodes, leases>>,
           cache'[c].exists => cache[c].exists /\ cache'[c].gen = cache[c].gen,
           \/ pc'[c] = "idle"
           \/ /\ pc'[c] = pc[c] /\ UNCHANGED <<cache, record, seen, intent>>
           \/ /\ pc[c] \in {"leases", "pods"} /\ pc'[c] = "commit"
              /\ UNCHANGED <<cache, record>> /\ intent'[c].status.phase # "Ready"
    PROVE  ReadyOK(c)'
<1>1. IsReady' = IsReady
  BY DEF IsReady
<1>2. CASE pc'[c] = "idle"
  BY <1>1, <1>2 DEF ReadyOK
<1>3. CASE pc'[c] = pc[c] /\ UNCHANGED <<cache, record, seen, intent>>
  <2>1. /\ NodesInPlace(Len(log), seen[c].nodes)' <=> NodesInPlace(Len(log), seen[c].nodes)
        /\ LeasesInPlace(Len(log), seen[c].leases)' <=> LeasesInPlace(Len(log), seen[c].leases)
    BY <1>3 DEF NodesInPlace, LeasesInPlace, NodeInPlace, LeaseInPlace, Wanted, Converged
  <2>2. AtRest(record[c].gen) => AtRest(record[c].gen)'
    BY <1>3 DEF AtRest, NodesInPlace, LeasesInPlace, NodeInPlace, LeaseInPlace, Wanted, OwnedOnly,
       Converged
  <2>3. QED
    BY <1>1, <1>3, <2>1, <2>2 DEF ReadyOK
<1>4. CASE /\ pc[c] \in {"leases", "pods"} /\ pc'[c] = "commit"
           /\ UNCHANGED <<cache, record>> /\ intent'[c].status.phase # "Ready"
  BY <1>1, <1>4 DEF ReadyOK
<1>5. QED
  BY <1>2, <1>3, <1>4

\* A pass that observed objects at rest reports Ready, and one that is about to report
\* it observed them.
LEMMA PodsReady ==
    ASSUME Solo, Quiet, RInv, NEW c \in Controllers, ObservePods(c)
    PROVE  ReadyOK(c)'
<1> DEFINE g == record[c].gen
           o == seen[c]
           stage == FirstStage(IF record[c].deleting THEN DeletionStages(o)
                               ELSE ConvergenceStages(g, o))
<1>1. /\ IInv /\ Follows(c) /\ ReadyOK(c) /\ PassOK(c) /\ (~exists => deleting)
      /\ UNCHANGED <<log, deleting, status, nodes, leases, cache, record>>
      /\ record[c] \in Record /\ o \in SeenType /\ pc[c] = "pods"
  BY HoldingsTyped DEF RInv, DInv, FInv, CInv, IInv, ObservePods, instanceVars, clusterVars
<1>2. g \in 1..Len(log) /\ g \in Nat /\ Len(log) \in Nat
  BY <1>1, HoldingsTyped DEF PassOK, Record
<1>3. \A h : AtRest(h) => AtRest(h)'
  BY <1>1, RestFrame
<1>4. IsReady' = IsReady
  BY <1>1 DEF IsReady
<1>5. /\ \/ /\ pc'[c] = "commit"
            /\ \/ intent'[c] = Progress(record[c], TRUE)
               \/ intent'[c] = Outcome(record[c], o) /\ stage.op = "none"
         \/ pc'[c] = "apply" /\ stage.op \notin {"none", "blocked"}
  BY <1>1, PodsObserved
<1> HIDE DEF stage
<1>6. ASSUME pc'[c] = "commit", intent'[c].status.phase = "Ready", ~deleting
      PROVE  AtRest(g)
  <2>1. intent'[c] # Progress(record[c], TRUE)
    BY <1>1, <1>6, IntentsSay
  <2>2. /\ intent'[c] = Outcome(record[c], o) /\ stage.op = "none"
        /\ ~record[c].deleting
    BY <1>1, <1>5, <1>6, <2>1 DEF PassOK
  <2>3. FidelitySatisfied(g, o)
    BY <1>1, <1>6, <2>2, IntentsSay
  <2>4. FirstStage(ConvergenceStages(g, o)).op = "none"
    <3>1. record[c].deleting = FALSE
      BY <1>1, <2>2 DEF Record
    <3>2. QED
      BY <2>2, <3>1 DEF stage
  <2>5. NodesInPlace(g, o.nodes) /\ LeasesInPlace(g, o.leases)
    BY <1>1, <1>2, <2>3, <2>4, OverIsRest
  <2>6. \A n \in Names : NodeFollows(c, n) /\ LeaseFollows(c, n)
    BY <1>1 DEF Follows, Watched
  <2>7. exists
    BY <1>1, <1>6
  <2>8. QED
    BY <1>1, <1>2, <2>5, <2>6, <2>7, FollowedRest
<1>7. IsReady => pc'[c] = "commit"
  <2> SUFFICES ASSUME IsReady PROVE pc'[c] = "commit"
    OBVIOUS
  <2>1. g = Len(log) /\ NodesInPlace(g, o.nodes) /\ LeasesInPlace(g, o.leases)
    BY <1>1 DEF ReadyOK
  <2>2. FirstStage(ConvergenceStages(g, o)).op = "none"
    BY <1>1, <1>2, <2>1, RestIsOver
  <2>3. record[c].deleting = FALSE
    BY <1>1 DEF PassOK, IsReady, Record
  <2>4. stage.op = "none"
    BY <2>2, <2>3 DEF stage
  <2>5. QED
    BY <1>5, <2>4
<1>8. pc'[c] \in {"commit", "apply"}
  BY <1>5
<1>9. record'[c].gen = g /\ cache'[c] = cache[c] /\ Len(log)' = Len(log)
  BY <1>1
<1>10. (pc'[c] = "commit" /\ intent'[c].status.phase = "Ready" /\ ~deleting' =>
         record'[c].gen \in 1..Len(log)' /\ AtRest(record[c].gen)')
  BY <1>1, <1>2, <1>3, <1>6, <1>9
<1>11. QED
  BY <1>1, <1>4, <1>7, <1>8, <1>9, <1>10 DEF ReadyOK

\* The commit makes Ready true of objects at rest, or says something else.
LEMMA CommitReady ==
    ASSUME RInv, NEW c \in Controllers, CommitStatus(c)
    PROVE  /\ ReadyOK(c)'
           /\ status'.phase = "Ready" => status'.observed <= Len(log')
           /\ IsReady' => AtRest(Len(log))'
<1> DEFINE g == record[c].gen
<1>1. /\ IInv /\ ReadyOK(c) /\ PassOK(c) /\ CurrentOK(c)
      /\ record \in [Controllers -> Record] /\ cache \in [Controllers -> Record]
      /\ pc \in [Controllers -> Steps] /\ intent \in [Controllers -> Intent]
      /\ deleting \in BOOLEAN
  BY HoldingsTyped DEF RInv, DInv, FInv, CInv, IInv
<1>2. /\ UNCHANGED <<log, deleting, exists, nodes, leases>>
      /\ pc[c] = "commit" /\ record[c].fresh /\ status' = intent[c].status
      /\ cache' = cache \/ cache' = Outdated(cache)
      /\ \/ ~intent[c].final /\ pc'[c] = "idle"
         \/ /\ intent[c].final /\ pc'[c] = "finalize"
            /\ record' = record \/ record' = Outdated(record)
  BY <1>1 DEF CommitStatus, WriteStatus, EndPass, MayCommit, clusterVars
<1>3. /\ cache'[c].gen = cache[c].gen
      /\ pc'[c] # "idle" => record'[c].gen = g
  BY <1>1, <1>2, OutdatedTyped
<1>4. g = Len(log) /\ record[c].deleting = deleting /\ cache[c].gen <= Len(log)
  BY <1>1, <1>2 DEF CurrentOK, IsCurrent, PassOK
<1>5. /\ status'.phase = "Ready" => status'.observed = g /\ ~deleting
      /\ intent[c].final => deleting
  BY <1>1, <1>2, <1>4 DEF CurrentOK, IntentOK, Committing
<1>6. Len(log) \in Nat /\ cache[c].gen \in Nat
  BY <1>1, HoldingsTyped DEF Record
<1>7. cache[c].gen = Len(log)
  BY <1>1, <1>2, <1>4, <1>6 DEF ReadyOK
<1>8. IsReady' => AtRest(Len(log))'
  <2> SUFFICES ASSUME IsReady' PROVE AtRest(Len(log))'
    OBVIOUS
  <2>1. status'.phase = "Ready" /\ ~deleting
    BY <1>2 DEF IsReady
  <2>2. AtRest(Len(log))
    BY <1>1, <1>2, <1>4, <2>1 DEF ReadyOK
  <2>3. QED
    BY <1>2, <2>2 DEF AtRest, NodesInPlace, LeasesInPlace, NodeInPlace, LeaseInPlace, Wanted,
       OwnedOnly, Converged
<1>9. ReadyOK(c)'
  <2>1. CASE pc'[c] = "idle"
    BY <1>2, <1>3, <1>7, <2>1 DEF ReadyOK
  <2>2. CASE pc'[c] = "finalize"
    <3>1. deleting' /\ ~IsReady'
      BY <1>2, <1>5, <2>2 DEF IsReady
    <3>2. QED
      BY <1>3, <1>4, <1>7, <2>2, <3>1, <1>6 DEF ReadyOK
  <2>3. QED
    BY <1>2, <2>1, <2>2
<1>10. QED
  BY <1>2, <1>4, <1>5, <1>6, <1>8, <1>9

LEMMA PassReady ==
    ASSUME Solo, Quiet, RInv, NEW c \in Controllers, Inner(c), ~CommitStatus(c)
    PROVE  ReadyOK(c)' /\ UNCHANGED <<log, deleting, status, nodes, leases>>
<1>1. /\ IInv /\ ReadyOK(c) /\ PassOK(c) /\ (IsReady => AtRest(Len(log)))
      /\ record \in [Controllers -> Record] /\ cache \in [Controllers -> Record]
      /\ pc \in [Controllers -> Steps] /\ intent \in [Controllers -> Intent]
      /\ seen \in [Controllers -> SeenType] /\ Len(log) \in Nat
  BY HoldingsTyped DEF RInv, DInv, FInv, CInv, IInv
<1>2. UNCHANGED <<log, deleting, status, nodes, leases>>
  BY DEF Inner, CacheDeliver, StartPass, SkipPass, ObserveLeases, ObservePods, EndWave,
     CommitConflict, RemoveFinalizer, FinalizerConflict, Crash, LoseObservation,
     instanceVars, clusterVars
<1>3. /\ IsReady' = IsReady
      /\ NodesInPlace(Len(log), OwnedOnly(nodes))' = NodesInPlace(Len(log), OwnedOnly(nodes))
      /\ LeasesInPlace(Len(log), OwnedOnly(leases))' = LeasesInPlace(Len(log), OwnedOnly(leases))
  BY <1>2 DEF IsReady, NodesInPlace, LeasesInPlace, NodeInPlace, LeaseInPlace, Wanted, Converged,
     OwnedOnly
<1>4. CASE CacheDeliver(c)
  <2>1. /\ cache'[c].gen = Len(log) /\ UNCHANGED <<pc, record, seen, intent>>
    BY <1>1, <1>4 DEF CacheDeliver, passVars
  <2>2. /\ NodesInPlace(Len(log), seen[c].nodes)' = NodesInPlace(Len(log), seen[c].nodes)
        /\ LeasesInPlace(Len(log), seen[c].leases)' = LeasesInPlace(Len(log), seen[c].leases)
        /\ AtRest(record[c].gen) => AtRest(record[c].gen)'
    BY <1>2, <2>1 DEF AtRest, NodesInPlace, LeasesInPlace, NodeInPlace, LeaseInPlace, Wanted,
       Converged, OwnedOnly
  <2>3. QED
    BY <1>1, <1>2, <1>3, <2>1, <2>2 DEF ReadyOK, PassOK
<1>5. CASE StartPass(c)
  <2>1. /\ cache[c].exists /\ record'[c] = cache[c] /\ cache' = cache /\ pc'[c] = "leases"
        /\ seen'[c].nodes = OwnedOnly(nodes)
    BY <1>1, <1>5 DEF StartPass, SeenType
  <2>2. IsReady => NodesInPlace(Len(log), seen[c].nodes)'
    BY <1>1, <1>2, <2>1 DEF AtRest, NodesInPlace, NodeInPlace, Wanted, Converged
  <2>3. QED
    BY <1>1, <1>2, <1>3, <2>1, <2>2 DEF ReadyOK, Record
<1>6. CASE SkipPass(c)
  <2>1. UNCHANGED <<pc, cache, record, seen, intent>>
    BY <1>6 DEF SkipPass, passVars
  <2>2. QED
    BY <1>1, <1>2, <2>1, ReadyFrame
<1>7. CASE ObserveLeases(c)
  <2>1. /\ pc[c] = "leases" /\ pc'[c] = "pods" /\ UNCHANGED <<cache, record>>
        /\ seen'[c].nodes = seen[c].nodes /\ seen'[c].leases = OwnedOnly(leases)
    BY <1>1, <1>7 DEF ObserveLeases, SeenType
  <2>2. /\ IsReady => NodesInPlace(Len(log), seen[c].nodes)'
        /\ IsReady => LeasesInPlace(Len(log), seen[c].leases)'
    BY <1>1, <1>2, <2>1 DEF ReadyOK, AtRest, NodesInPlace, LeasesInPlace, NodeInPlace, LeaseInPlace,
       Wanted, Converged
  <2>3. QED
    BY <1>1, <1>2, <1>3, <2>1, <2>2 DEF ReadyOK
<1>8. CASE ObservePods(c)
  BY <1>2, <1>8, PodsReady
<1>9. CASE EndWave(c)
  <2>1. /\ pc[c] = "apply" /\ UNCHANGED cache
        /\ \/ UNCHANGED <<pc, intent, record>>
           \/ /\ pc' = [pc EXCEPT ![c] = "commit"] /\ record' = record
              /\ \/ intent' = [intent EXCEPT ![c] = Progress(record[c], FALSE)]
                 \/ \E again : intent' = [intent EXCEPT ![c] = Failure(record[c], again)]
           \/ pc' = [pc EXCEPT ![c] = "idle"]
    BY <1>9 DEF EndWave
  <2>2. ~IsReady /\ ~IsReady'
    BY <1>1, <1>3, <2>1 DEF ReadyOK
  <2>3. CASE UNCHANGED <<pc, intent, record>>
    BY <1>1, <1>2, <2>1, <2>2, <2>3 DEF ReadyOK
  <2>4. CASE pc' = [pc EXCEPT ![c] = "commit"] /\ record' = record
    <3>1. /\ pc'[c] = "commit" /\ pc[c] # "commit"
          /\ \/ intent'[c] = Progress(record[c], FALSE)
             \/ \E again : intent'[c] = Failure(record[c], again)
             \/ pc[c] = "commit"
      BY <1>1, <2>1, <2>4
    <3>2. record[c] \in Record
      BY <1>1
    <3>3. intent'[c].status.phase # "Ready"
      <4>1. CASE intent'[c] = Progress(record[c], FALSE)
        BY <3>2, <4>1, IntentsSay
      <4>2. CASE \E again : intent'[c] = Failure(record[c], again)
        BY <3>2, <4>2, IntentsSay
      <4>3. QED
        BY <3>1, <4>1, <4>2
    <3>4. QED
      BY <1>1, <1>2, <2>1, <2>2, <2>4, <3>1, <3>3 DEF ReadyOK
  <2>5. CASE pc' = [pc EXCEPT ![c] = "idle"]
    <3>1. pc'[c] = "idle"
      BY <1>1, <2>5
    <3>2. QED
      BY <1>2, <2>2, <3>1 DEF ReadyOK
  <2>6. QED
    BY <1>2, <2>1, <2>3, <2>4, <2>5
<1>10. CASE LoseObservation(c)
  <2>1. /\ pc[c] \in {"leases", "pods"} /\ UNCHANGED <<cache, record>>
        /\ pc'[c] = "commit" /\ intent'[c] = Failure(record[c], TRUE)
    BY <1>1, <1>10 DEF LoseObservation
  <2>2. intent'[c].status.phase # "Ready"
    <3>1. record[c] \in Record
      BY <1>1
    <3>2. Failure(record[c], TRUE).status.phase # "Ready"
      BY <3>1, IntentsSay
    <3>3. QED
      BY <2>1, <3>2
  <2>3. QED
    BY <1>1, <1>2, <2>1, <2>2, ReadyFrame
<1>11. CASE \/ CommitConflict(c) \/ FinalizerConflict(c) \/ RemoveFinalizer(c) \/ Crash(c)
  <2>1. pc'[c] = "idle"
    BY <1>1, <1>11 DEF CommitConflict, FinalizerConflict, RemoveFinalizer, Crash, EndPass
  <2>2. cache' = cache \/ cache' = Outdated(cache) \/ cache'[c] = NoRecord
    BY <1>1, <1>11 DEF CommitConflict, FinalizerConflict, RemoveFinalizer, Crash, EndPass
  <2>3. cache'[c].exists => cache[c].exists /\ cache'[c].gen = cache[c].gen
    BY <1>1, <2>2, OutdatedTyped DEF NoRecord
  <2>4. QED
    BY <1>1, <1>2, <2>1, <2>3, ReadyFrame
<1>12. QED
  BY <1>4, <1>5, <1>6, <1>7, <1>8, <1>9, <1>10, <1>11 DEF Inner

LEMMA StepKeepsRInv == ASSUME Solo, Quiet PROVE RInv /\ [Next]_vars => RInv'
<1> SUFFICES ASSUME RInv, [Next]_vars PROVE RInv'
  OBVIOUS
<1>1. /\ DInv' /\ IInv /\ IInv' /\ (~exists => deleting) /\ (IsReady => AtRest(Len(log)))
      /\ status.phase = "Ready" => status.observed <= Len(log)
  BY StepKeepsDInv DEF RInv, DInv, FInv, CInv
<1>2. /\ log \in Seq(Scenarios) /\ Len(log) \in 1..Len(log) /\ Len(log) \in Nat
      /\ pc \in [Controllers -> Steps] /\ record \in [Controllers -> Record]
      /\ cache \in [Controllers -> Record] /\ status.observed \in Nat
  BY <1>1 DEF IInv, TypeOK, Generations, Status
<1>3. CASE \E c \in Controllers : Inner(c)
  <2>1. PICK c \in Controllers : Inner(c)
    BY <1>3
  <2>2. \A d \in Controllers : d = c
    BY DEF Solo
  <2>3. CASE CommitStatus(c)
    BY <1>1, <2>2, <2>3, CommitReady DEF RInv
  <2>4. CASE ~CommitStatus(c)
    <3>1. ReadyOK(c)' /\ UNCHANGED <<log, deleting, status, nodes, leases>>
      BY <2>1, <2>4, PassReady
    <3>2. IsReady' => IsReady
      BY <3>1 DEF IsReady
    <3>3. AtRest(Len(log)) => AtRest(Len(log))'
      BY <3>1 DEF AtRest, NodesInPlace, LeasesInPlace, NodeInPlace, LeaseInPlace, Wanted,
         OwnedOnly, Converged
    <3>4. QED
      BY <1>1, <2>2, <3>1, <3>2, <3>3 DEF RInv
  <2>5. QED
    BY <2>3, <2>4
<1>4. CASE \E c \in Controllers, m \in Names : Answered(c, m)
  <2>1. PICK c \in Controllers : \E m \in Names : Answered(c, m)
    BY <1>4
  <2>2. /\ pc[c] = "apply" /\ UNCHANGED <<log, deleting, status, cache, pc, record, intent>>
    BY <2>1 DEF Answered, instanceVars
  <2>3. ~IsReady /\ ~IsReady'
    BY <2>2 DEF RInv, ReadyOK, IsReady
  <2>4. ReadyOK(c)'
    BY <2>2, <2>3 DEF RInv, ReadyOK
  <2>5. QED
    BY <1>1, <2>2, <2>3, <2>4 DEF RInv, Solo
<1>5. CASE ByClient
  <2>1. /\ UNCHANGED <<status, nodes, leases, pc, seen, intent>>
        /\ cache' = Outdated(cache) /\ record' = Outdated(record)
        /\ \/ log' = log /\ deleting'
           \/ deleting' = deleting /\ \E s \in Scenarios : log' = Append(log, s)
    BY <1>5 DEF ByClient, RequestDeletion, AcceptRevision, InstanceWritten, clusterVars
  <2>2. /\ Len(log') \in Nat /\ Len(log') >= Len(log)
        /\ \/ deleting'
           \/ Len(log') = Len(log) + 1 /\ deleting' = deleting
        /\ \A g \in 1..Len(log) : log'[g] = log[g]
    BY <1>2, <2>1
  <2>3. ~IsReady' /\ (status'.phase = "Ready" => status'.observed <= Len(log'))
    BY <1>1, <1>2, <2>1, <2>2 DEF IsReady
  <2>4. ASSUME NEW c \in Controllers PROVE ReadyOK(c)'
    <3>1. cache'[c].gen = cache[c].gen /\ record'[c].gen = record[c].gen
      BY <1>2, <2>1, OutdatedTyped
    <3>2. ReadyOK(c)
      BY DEF RInv
    <3>3. ASSUME record[c].gen \in 1..Len(log), AtRest(record[c].gen)
          PROVE  AtRest(record[c].gen)'
      <4> DEFINE g == record[c].gen
      <4>1. log'[g] = log[g] /\ record'[c].gen = g
        BY <2>2, <3>1, <3>3
      <4>2. QED
        BY <2>1, <3>3, <4>1 DEF AtRest, NodesInPlace, LeasesInPlace, NodeInPlace, LeaseInPlace,
           Wanted, OwnedOnly, Converged
    <3>4. /\ ~deleting' => ~deleting
          /\ 1..Len(log) \subseteq 1..Len(log')
      BY <1>2, <2>1, <2>2
    <3>5. QED
      BY <2>1, <2>3, <3>1, <3>2, <3>3, <3>4 DEF ReadyOK
  <2>5. QED
    BY <1>1, <2>3, <2>4 DEF RInv
<1>6. CASE Outside
  <2>1. /\ UNCHANGED <<log, deleting, exists, status, cache, pc, record, seen, intent>>
        /\ \A n \in Names : NodeMoves(n) /\ LeaseMoves(n)
    BY <1>6 DEF Outside, instanceVars, passVars
  <2>2. IsReady' = IsReady /\ (IsReady => exists)
    BY <1>1, <2>1 DEF IsReady
  <2>3. ASSUME ~deleting, NEW g \in 1..Len(log), AtRest(g) PROVE AtRest(g)'
    BY <1>1, <2>1, <2>3, MovesKeepRest
  <2>4. IsReady => AtRest(Len(log))'
    <3>1. IsReady => ~deleting
      BY DEF IsReady
    <3>2. \A g \in 1..Len(log) : ~deleting /\ AtRest(g) => AtRest(g)'
      BY <2>3
    <3>3. AtRest(Len(log))' <=> (\E g \in 1..Len(log) : g = Len(log) /\ AtRest(g)')
      BY <1>2, <2>1 DEF AtRest, NodesInPlace, LeasesInPlace, NodeInPlace, LeaseInPlace,
         Wanted, Converged
    <3>4. QED
      BY <1>1, <1>2, <3>1, <3>2, <3>3
  <2>5. ASSUME NEW c \in Controllers PROVE ReadyOK(c)'
    <3>1. ReadyOK(c)
      BY DEF RInv
    <3>2. ASSUME ~deleting, record[c].gen \in 1..Len(log), AtRest(record[c].gen)
          PROVE  AtRest(record[c].gen)'
      <4>1. \A g \in 1..Len(log) : AtRest(g) => AtRest(g)'
        BY <2>3, <3>2
      <4>2. AtRest(record[c].gen)' <=> (\E g \in 1..Len(log) : g = record[c].gen /\ AtRest(g)')
        BY <2>1, <3>2 DEF AtRest, NodesInPlace, LeasesInPlace, NodeInPlace, LeaseInPlace,
           Wanted, Converged
      <4>3. QED
        BY <3>2, <4>1, <4>2
    <3>3. /\ NodesInPlace(Len(log), seen[c].nodes)' = NodesInPlace(Len(log), seen[c].nodes)
          /\ LeasesInPlace(Len(log), seen[c].leases)' = LeasesInPlace(Len(log), seen[c].leases)
      BY <2>1 DEF NodesInPlace, LeasesInPlace, NodeInPlace, LeaseInPlace, Wanted, Converged
    <3>4. QED
      BY <2>1, <2>2, <3>1, <3>2, <3>3 DEF ReadyOK
  <2>6. QED
    BY <1>1, <2>1, <2>2, <2>4, <2>5 DEF RInv
<1>7. QED
  BY <1>1, <1>3, <1>4, <1>5, <1>6, StepKinds

LEMMA InitRInv == Init => RInv
<1> SUFFICES ASSUME Init PROVE RInv
  OBVIOUS
<1>1. status.phase # "Ready" /\ \A c \in Controllers : pc[c] = "idle"
  BY DEF Init
<1>2. QED
  BY <1>1, InitDInv DEF RInv, ReadyOK, IsReady

LEMMA ReadyHolds == ASSUME Solo, Quiet PROVE Spec => []RInv
BY InitRInv, StepKeepsRInv, PTL DEF Spec

\* STAT-004: while the status says Ready for the last generation, the objects themselves
\* are complete, open and all there is, in every state and not only when the pass that
\* reported it listed them.
THEOREM ReadyMeansComplete == ASSUME Solo, Quiet PROVE Spec => []ReadyIsTrue
<1>1. ASSUME RInv PROVE ReadyIsTrue
  <2> DEFINE o == [nodes |-> OwnedOnly(nodes), leases |-> OwnedOnly(leases)]
  <2>1. IInv /\ Len(log) \in 1..Len(log)
    BY <1>1 DEF RInv, DInv, FInv, CInv, IInv, TypeOK, Generations
  <2>2. ASSUME IsReady PROVE FidelitySatisfied(Len(log), o)
    <3>1. NodesInPlace(Len(log), o.nodes) /\ LeasesInPlace(Len(log), o.leases)
      BY <1>1, <2>2 DEF RInv, AtRest
    <3>2. QED
      BY <2>1, <3>1, RestIsSatisfied
  <2>3. QED
    BY <2>2 DEF ReadyIsTrue, IsReady
<1>2. QED
  BY <1>1, ReadyHolds, PTL
=============================================================================
