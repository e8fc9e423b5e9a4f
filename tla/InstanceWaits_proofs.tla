------------------------ MODULE InstanceWaits_proofs ------------------------
(***************************************************************************)
(* Proofs about module InstanceWaits: what the success of a wait rests on, *)
(* for every adapter, history limit, batch limit and number of faults.     *)
(*                                                                         *)
(* The argument has two halves.  HistoryOK says of the stored instance and *)
(* its events what the writers maintain: an event is found at its version, *)
(* the stored record is the last event, no status observes a generation    *)
(* that does not exist yet.  WaitOK says of the client where its cursor    *)
(* can be: never before the version at which the wait began, and what lies *)
(* there does not satisfy an apply, because the revision it waits for is   *)
(* younger than the status that the record carries.                        *)
(***************************************************************************)
EXTENDS InstanceWaits, TLAPS

Event == [kind : {"put", "deleted"}, record : Record]

\* A status is Ready for the generation whose digest it carries, and observes
\* none that is still to come.
Truthful(r) ==
    /\ r.observed <= r.gen
    /\ r.phase = "Ready" => r.about = r.observed

HistoryOK ==
    /\ events \in Seq(Event) /\ births \in Nat
    /\ \A i \in 1..Len(events) :
         events[i].record.rv = i /\ Truthful(events[i].record)
    /\ object # Absent =>
         /\ object \in Record /\ object.uid <= births
         /\ Len(events) >= 1 /\ object = events[Len(events)].record

\* The cursor of a call that has begun is in the history, not before its start.
CursorOK ==
    pc # "idle" =>
        /\ wait.since \in 1..Len(events) /\ wait.cursor \in wait.since..Len(events)
        /\ pc = "next" => wait.at >= wait.since

\* The record an apply begins with is older than the revision it waits for.
StartIsTooEarly ==
    pc # "idle" /\ wait.kind = "apply" =>
        events[wait.since].record.observed < wait.desired

WaitOK ==
    /\ wait \in Wait /\ wait.uid <= births
    /\ CursorOK /\ StartIsTooEarly
    /\ verdict = "success" => pc = "done"
    /\ ReadyIsEarned /\ DeletionIsEarned

IInv == HistoryOK /\ WaitOK

-----------------------------------------------------------------------------
(***************************************************************************)
(* The instance and its history.                                           *)
(***************************************************************************)

\* Nothing of the history is rewritten, and UIDs are not reused: whatever bears
\* the name after a step is what bore it before, or is new.
Grows ==
    /\ Len(events') >= Len(events) /\ births' >= births
    /\ \A i \in 1..Len(events) : events'[i] = events[i]
    /\ \/ object' = Absent
       \/ object # Absent /\ object'.uid = object.uid
       \/ object'.uid > births

\* Log: one event is appended, at the version that its record bears.
LEMMA Logging ==
    ASSUME HistoryOK, NEW kind \in {"put", "deleted"}, NEW r \in Record, Truthful(r),
           Log(kind, r)
    PROVE  /\ events' \in Seq(Event) /\ Len(events') = Len(events) + 1
           /\ [r EXCEPT !.rv = Version + 1] \in Record
           /\ events'[Len(events')].record = [r EXCEPT !.rv = Version + 1]
           /\ \A i \in 1..Len(events) : events'[i] = events[i]
           /\ \A i \in 1..Len(events') :
                events'[i].record.rv = i /\ Truthful(events'[i].record)
<1> DEFINE n == Len(events) + 1
           s == [r EXCEPT !.rv = n]
           e == [kind |-> kind, record |-> s]
<1>1. events \in Seq(Event) /\ n \in Nat \ {0}
  BY DEF HistoryOK
<1>2. s \in Record /\ s.rv = n /\ Truthful(s)
  BY <1>1 DEF Record, Truthful
<1>3. e \in Event /\ e.record = s
  BY <1>2 DEF Event
<1>4. events' = Append(events, e)
  BY DEF Log, Version
<1> HIDE DEF s, e
<1>5. /\ events' \in Seq(Event) /\ Len(events') = n /\ events'[n] = e
      /\ \A i \in 1..Len(events) : events'[i] = events[i]
  BY <1>1, <1>3, <1>4
<1>6. ASSUME NEW i \in 1..n
      PROVE  events'[i].record.rv = i /\ Truthful(events'[i].record)
  <2>1. CASE i = n
    BY <2>1, <1>5, <1>3, <1>2
  <2>2. CASE i \in 1..Len(events)
    BY <2>2, <1>5 DEF HistoryOK
  <2>3. i = n \/ i \in 1..Len(events)
    BY <1>1
  <2> QED
    BY <2>1, <2>2, <2>3
<1> QED
  BY <1>2, <1>3, <1>5, <1>6 DEF s, Version

\* Store: the stored record is the last event.
LEMMA Storing ==
    ASSUME HistoryOK, NEW r \in Record, Truthful(r), Store(r),
           births' \in Nat, births' >= births, r.uid <= births',
           \/ object # Absent /\ r.uid = object.uid
           \/ r.uid > births
    PROVE  /\ HistoryOK' /\ Grows
           /\ object' = [r EXCEPT !.rv = Version + 1] /\ object' \in Record
<1>1. Log("put", r) /\ object' = [r EXCEPT !.rv = Version + 1]
  BY DEF Store
<1>2. /\ events' \in Seq(Event) /\ Len(events') = Len(events) + 1
      /\ object' \in Record /\ events'[Len(events')].record = object'
      /\ \A i \in 1..Len(events) : events'[i] = events[i]
      /\ \A i \in 1..Len(events') :
           events'[i].record.rv = i /\ Truthful(events'[i].record)
  BY <1>1, Logging
<1>3. object'.uid = r.uid
  BY <1>1 DEF Record
<1>4. Len(events) \in Nat
  BY DEF HistoryOK
<1> QED
  BY <1>1, <1>2, <1>3, <1>4 DEF HistoryOK, Grows

\* What the stored record promises.
LEMMA StoredRecord ==
    ASSUME HistoryOK, object # Absent
    PROVE  /\ object \in Record /\ Truthful(object) /\ object.uid <= births
           /\ object.rv = Len(events) /\ Len(events) \in Nat \ {0}
           /\ object = events[object.rv].record
BY DEF HistoryOK

\* Create: a UID that was never used.
LEMMA Creating ==
    ASSUME HistoryOK, Create
    PROVE  HistoryOK' /\ Grows /\ object' \in Record /\ object'.rv = Len(events')
           /\ object' = events'[Len(events')].record
           /\ object'.uid <= births' /\ object'.observed < object'.gen
<1> DEFINE r == [rv |-> 1, uid |-> births + 1, gen |-> 1, deleting |-> FALSE,
                 phase |-> "none", observed |-> 0, blocked |-> FALSE, about |-> 0]
<1>1. births \in Nat /\ births' = births + 1 /\ Store(r)
  BY DEF HistoryOK, Create
<1>2. r \in Record /\ Truthful(r) /\ r.uid = births + 1
  BY <1>1 DEF Record, Phases, Truthful
<1>3. r.observed < r.gen
  OBVIOUS
<1> HIDE DEF r
<1>4. HistoryOK' /\ Grows /\ object' = [r EXCEPT !.rv = Version + 1] /\ object' \in Record
  BY <1>1, <1>2, Storing
<1>5. Log("put", r) /\ Version \in Nat
  BY <1>1 DEF Store, HistoryOK, Version
<1>6. /\ Len(events') = Len(events) + 1
      /\ events'[Len(events')].record = [r EXCEPT !.rv = Version + 1]
  BY <1>5, <1>2, Logging
<1>7. /\ object'.rv = Version + 1 /\ object'.uid = r.uid
      /\ object'.observed = r.observed /\ object'.gen = r.gen
  BY <1>4, <1>2, <1>5 DEF Record
<1> QED
  BY <1>1, <1>2, <1>3, <1>4, <1>6, <1>7 DEF Version

\* Revise: a generation that no status has observed.
LEMMA Revising ==
    ASSUME HistoryOK, Revise
    PROVE  HistoryOK' /\ Grows /\ object' \in Record /\ object'.rv = Len(events')
           /\ object' = events'[Len(events')].record
           /\ object'.uid <= births' /\ object'.observed < object'.gen
<1> DEFINE r == [object EXCEPT !.gen = @ + 1]
<1>1. object # Absent /\ births' = births /\ Store(r)
  BY DEF Revise
<1>2. object \in Record /\ Truthful(object) /\ object.uid <= births /\ births \in Nat
  BY <1>1, StoredRecord DEF HistoryOK
<1>3. /\ r \in Record /\ Truthful(r) /\ r.uid = object.uid
      /\ r.observed < r.gen
  BY <1>2 DEF Record, Truthful
<1> HIDE DEF r
<1>4. HistoryOK' /\ Grows /\ object' = [r EXCEPT !.rv = Version + 1] /\ object' \in Record
  BY <1>1, <1>2, <1>3, Storing
<1>5. Log("put", r) /\ Version \in Nat
  BY <1>1 DEF Store, HistoryOK, Version
<1>6. /\ Len(events') = Len(events) + 1
      /\ events'[Len(events')].record = [r EXCEPT !.rv = Version + 1]
  BY <1>5, <1>3, Logging
<1>7. /\ object'.rv = Version + 1 /\ object'.uid = r.uid
      /\ object'.observed = r.observed /\ object'.gen = r.gen
  BY <1>4, <1>3, <1>5 DEF Record
<1> QED
  BY <1>1, <1>2, <1>3, <1>4, <1>6, <1>7 DEF Version

LEMMA RequestingDeletion ==
    ASSUME HistoryOK, RequestDeletion
    PROVE  HistoryOK' /\ Grows
<1> DEFINE r == [object EXCEPT !.deleting = TRUE]
<1>1. object # Absent /\ births' = births /\ Store(r)
  BY DEF RequestDeletion
<1>2. object \in Record /\ Truthful(object) /\ object.uid <= births /\ births \in Nat
  BY <1>1, StoredRecord DEF HistoryOK
<1>3. r \in Record /\ Truthful(r) /\ r.uid = object.uid
  BY <1>2 DEF Record, Truthful
<1> HIDE DEF r
<1> QED
  BY <1>1, <1>2, <1>3, Storing

\* Statuses: each is about the generation it is committed for.
LEMMA StatusesAreTruthful ==
    ASSUME NEW o \in Record, Truthful(o), NEW next \in Statuses(o)
    PROVE  next \in Record /\ Truthful(next) /\ next.uid = o.uid
<1>1. CASE next \in {[o EXCEPT !.phase = IF o.deleting THEN "Deleting" ELSE "Reconciling",
                               !.observed = 0, !.blocked = b, !.about = o.gen] : b \in BOOLEAN}
  <2> DEFINE p == IF o.deleting THEN "Deleting" ELSE "Reconciling"
  <2>1. PICK b \in BOOLEAN : next = [o EXCEPT !.phase = p, !.observed = 0, !.blocked = b,
                                             !.about = o.gen]
    BY <1>1
  <2>2. p \in Phases /\ p # "Ready"
    BY DEF Phases
  <2> HIDE DEF p
  <2>3. next.phase = p /\ next.observed = 0 /\ next.gen = o.gen
    BY <2>1 DEF Record
  <2>4. next \in Record /\ next.uid = o.uid
    BY <2>1, <2>2 DEF Record
  <2> QED
    BY <2>2, <2>3, <2>4 DEF Truthful, Record
<1>2. CASE next = [o EXCEPT !.phase = "Failed", !.blocked = FALSE, !.about = o.gen]
  BY <1>2 DEF Record, Phases, Truthful
<1>3. CASE next = [o EXCEPT !.phase = "Ready", !.observed = o.gen, !.blocked = FALSE,
                            !.about = o.gen]
  <2>1. "Ready" \in Phases
    BY DEF Phases
  <2>2. next.observed = o.gen /\ next.about = o.gen /\ next.gen = o.gen
    BY <1>3 DEF Record
  <2>3. next \in Record /\ next.uid = o.uid
    BY <1>3, <2>1 DEF Record
  <2> QED
    BY <2>2, <2>3 DEF Truthful, Record
<1> QED
  BY <1>1, <1>2, <1>3 DEF Statuses

LEMMA Committing ==
    ASSUME HistoryOK, CommitStatus
    PROVE  HistoryOK' /\ Grows
<1>1. PICK next \in Statuses(object) : Store(next)
  BY DEF CommitStatus
<1>2. object # Absent /\ births' = births
  BY DEF CommitStatus
<1>3. object \in Record /\ Truthful(object) /\ object.uid <= births /\ births \in Nat
  BY <1>2, StoredRecord DEF HistoryOK
<1>4. next \in Record /\ Truthful(next) /\ next.uid = object.uid
  BY <1>3, StatusesAreTruthful
<1> QED
  BY <1>1, <1>2, <1>3, <1>4, Storing

LEMMA Completing ==
    ASSUME HistoryOK, CompleteDeletion
    PROVE  HistoryOK' /\ Grows
<1>1. object # Absent /\ object' = Absent /\ births' = births
  BY DEF CompleteDeletion
<1>2. births \in Nat /\ Len(events) \in Nat
  BY DEF HistoryOK
<1>3. CASE UNCHANGED events
  BY <1>1, <1>2, <1>3 DEF HistoryOK, Grows
<1>4. CASE Log("deleted", object)
  <2>1. object \in Record /\ Truthful(object)
    BY <1>1, StoredRecord
  <2>2. /\ events' \in Seq(Event) /\ Len(events') = Len(events) + 1
        /\ \A i \in 1..Len(events) : events'[i] = events[i]
        /\ \A i \in 1..Len(events') :
             events'[i].record.rv = i /\ Truthful(events'[i].record)
    BY <2>1, <1>4, Logging
  <2> QED
    BY <2>2, <1>1, <1>2 DEF HistoryOK, Grows
<1> QED
  BY <1>3, <1>4 DEF CompleteDeletion

\* When neither the instance nor its history changes.
LEMMA NothingWritten ==
    ASSUME HistoryOK, UNCHANGED <<object, events, births>>
    PROVE  HistoryOK' /\ Grows
BY DEF HistoryOK, Grows

\* The other clients, the controller and etcd keep the history.
LEMMA EnvironmentKeepsHistory ==
    ASSUME HistoryOK, Environment
    PROVE  HistoryOK' /\ Grows
<1>1. CASE Create
  BY <1>1, Creating
<1>2. CASE Revise
  BY <1>2, Revising
<1>3. CASE RequestDeletion
  BY <1>3, RequestingDeletion
<1>4. CASE CommitStatus
  BY <1>4, Committing
<1>5. CASE CompleteDeletion
  BY <1>5, Completing
<1>6. CASE Compact
  BY <1>6, NothingWritten DEF Compact
<1> QED
  BY <1>1, <1>2, <1>3, <1>4, <1>5, <1>6 DEF Environment

-----------------------------------------------------------------------------
(***************************************************************************)
(* The client.                                                             *)
(***************************************************************************)

\* What the client has seen and noted holds whatever others do meanwhile.
LEMMA WaitSurvives ==
    ASSUME IInv, HistoryOK', Grows, UNCHANGED client
    PROVE  WaitOK'
<1>1. /\ events \in Seq(Event) /\ events' \in Seq(Event)
      /\ births \in Nat /\ births' \in Nat /\ wait \in Wait
  BY DEF IInv, HistoryOK, WaitOK
<1>2. pc' = pc /\ wait' = wait /\ verdict' = verdict
  BY DEF client
<1>3. /\ Len(events) \in Nat /\ Len(events') \in Nat /\ Len(events') >= Len(events)
      /\ births' >= births /\ wait.uid \in Nat /\ wait.cursor \in Nat /\ wait.since \in Nat
  BY <1>1 DEF Grows, Wait
<1>4. wait' \in Wait /\ wait'.uid <= births'
  BY <1>1, <1>2, <1>3 DEF IInv, WaitOK
<1>5. CursorOK'
  BY <1>2, <1>3 DEF IInv, WaitOK, CursorOK
<1>6. StartIsTooEarly'
  BY <1>2 DEF IInv, WaitOK, CursorOK, StartIsTooEarly, Grows
<1>7. ReadyIsEarned'
  <2>1. {events[i].record : i \in DOMAIN events} \subseteq
        {events'[i].record : i \in DOMAIN events'}
    <3>1. DOMAIN events = 1..Len(events) /\ DOMAIN events' = 1..Len(events')
      BY <1>1
    <3> QED
      BY <3>1, <1>3 DEF Grows
  <2> QED
    BY <2>1, <1>2 DEF IInv, WaitOK, ReadyIsEarned, Succeeded
<1>8. DeletionIsEarned'
  <2> SUFFICES ASSUME verdict = "success", wait.kind = "delete", object' # Absent
               PROVE  object'.uid # wait.uid
    BY <1>2 DEF DeletionIsEarned, Succeeded
  <2>1. object = Absent \/ object.uid # wait.uid
    BY DEF IInv, WaitOK, DeletionIsEarned, Succeeded
  <2>2. wait.uid <= births
    BY DEF IInv, WaitOK
  <2>3. object'.uid \in Nat
    BY DEF HistoryOK, Record
  <2>4. CASE object # Absent /\ object'.uid = object.uid
    BY <2>1, <2>4
  <2>5. CASE object'.uid > births
    BY <2>2, <2>3, <2>5, <1>1, <1>3
  <2> QED
    BY <2>4, <2>5 DEF Grows
<1>9. verdict' = "success" => pc' = "done"
  BY <1>2 DEF IInv, WaitOK
<1> QED
  BY <1>4, <1>5, <1>6, <1>7, <1>8, <1>9 DEF WaitOK

\* A step of a call that has begun; its success is argued separately.
LEMMA Moving ==
    ASSUME IInv, UNCHANGED <<object, events, births>>, pc # "idle",
           wait' \in Wait, wait'.uid = wait.uid, wait'.kind = wait.kind,
           wait'.since = wait.since, wait.kind = "apply" => wait'.desired = wait.desired,
           wait'.cursor \in wait.since..Len(events),
           pc' = "next" => wait'.at >= wait.since,
           verdict' = "success" => pc' = "done" /\ ReadyIsEarned' /\ DeletionIsEarned'
    PROVE  WaitOK'
<1>1. events' = events /\ births' = births
  OBVIOUS
<1>2. wait'.uid <= births'
  BY <1>1 DEF IInv, WaitOK
<1>3. CursorOK'
  BY <1>1 DEF IInv, WaitOK, CursorOK
<1>4. StartIsTooEarly'
  BY <1>1 DEF IInv, WaitOK, StartIsTooEarly
<1>5. ReadyIsEarned' /\ DeletionIsEarned'
  BY DEF ReadyIsEarned, DeletionIsEarned, Succeeded
<1> QED
  BY <1>2, <1>3, <1>4, <1>5 DEF WaitOK

\* A call that has not ended has not succeeded.
LEMMA NotYet ==
    ASSUME IInv, pc # "done"
    PROVE  verdict # "success"
BY DEF IInv, WaitOK

\* readyState on a record of the history, at or after the version at which the wait
\* began: "success" is about the awaited generation, and what an apply began with
\* does not give it.
LEMMA SuccessRests ==
    ASSUME IInv, pc # "idle",
           NEW v \in wait.since..Len(events), NEW next \in Wait,
           next.kind = wait.kind, next.since = wait.since,
           next.desired = (IF wait.kind = "follow" THEN events[v].record.gen
                                                   ELSE wait.desired),
           VerdictOn(next, events[v].record) = "success"
    PROVE  /\ next.kind # "delete"
           /\ events[v].record \in {events[i].record : i \in DOMAIN events}
           /\ events[v].record.phase = "Ready" /\ events[v].record.about = next.desired
           /\ next.kind = "apply" => events[v].record.rv > next.since
<1> DEFINE r == events[v].record
<1>1. events \in Seq(Event) /\ wait.since \in 1..Len(events)
  BY DEF IInv, HistoryOK, WaitOK, CursorOK
<1>2. v \in 1..Len(events) /\ DOMAIN events = 1..Len(events) /\ Len(events) \in Nat
  BY <1>1
<1>3. r \in Record /\ r.rv = v /\ Truthful(r)
  <2>1. events[v] \in Event
    BY <1>1, <1>2
  <2>2. r \in Record
    BY <2>1 DEF Event
  <2> QED
    BY <2>2, <1>2 DEF IInv, HistoryOK
<1>4. next.kind # "delete" /\ IsReady(r, next.desired)
  <2>1. VerdictOn(next, r) = "success"
    OBVIOUS
  <2> HIDE DEF r
  <2>2. CASE next.kind = "delete"
    BY <2>1, <2>2 DEF VerdictOn
  <2>3. CASE next.kind # "delete"
    BY <2>1, <2>3 DEF VerdictOn
  <2> QED
    BY <2>2, <2>3
<1>5. r.phase = "Ready" /\ r.observed = next.desired /\ r.about = r.observed
  BY <1>3, <1>4 DEF IsReady, Truthful
<1>6. ASSUME next.kind = "apply"
      PROVE  r.rv > next.since
  <2>1. events[wait.since].record.observed < wait.desired /\ next.desired = wait.desired
    BY <1>6 DEF IInv, WaitOK, StartIsTooEarly
  <2>2. v # wait.since
    BY <2>1, <1>5, <1>3 DEF Record
  <2> QED
    BY <2>2, <1>1, <1>2, <1>3
<1> QED
  BY <1>2, <1>4, <1>5, <1>6

\* Judge: the stored record, whatever the client does when that is not the end.
LEMMA Judged ==
    ASSUME IInv, UNCHANGED <<object, events, births>>, pc \notin {"idle", "done"},
           object # Absent, wait' = Seeing(wait, object), pc' # "next",
           \/ verdict' \in {verdict, "timeout"}
           \/ verdict' = VerdictOn(wait', object) /\ pc' = "done"
    PROVE  WaitOK'
<1>1. /\ object \in Record /\ object.rv = Len(events) /\ Len(events) \in Nat \ {0}
      /\ object = events[object.rv].record
  BY StoredRecord DEF IInv
<1>2. wait \in Wait /\ wait.since \in 1..Len(events)
  BY DEF IInv, WaitOK, CursorOK
<1>3. /\ wait' \in Wait /\ wait'.uid = wait.uid /\ wait'.kind = wait.kind
      /\ wait'.since = wait.since /\ wait'.cursor = object.rv /\ wait'.latest = object
      /\ wait'.desired = (IF wait.kind = "follow" THEN object.gen ELSE wait.desired)
  BY <1>1, <1>2 DEF Seeing, Wait, Record
<1>4. object.rv \in wait.since..Len(events)
  BY <1>1, <1>2
<1>5. ASSUME verdict' = "success"
      PROVE  pc' = "done" /\ ReadyIsEarned' /\ DeletionIsEarned'
  <2>1. verdict' = VerdictOn(wait', object) /\ pc' = "done"
    BY <1>5, NotYet
  <2>2. /\ wait'.kind # "delete"
        /\ object \in {events[i].record : i \in DOMAIN events}
        /\ object.phase = "Ready" /\ object.about = wait'.desired
        /\ wait'.kind = "apply" => object.rv > wait'.since
    BY <2>1, <1>5, <1>1, <1>3, <1>4, SuccessRests
  <2> QED
    BY <2>1, <2>2, <1>3 DEF ReadyIsEarned, DeletionIsEarned, Succeeded
<1> QED
  BY <1>3, <1>4, <1>5, Moving

-----------------------------------------------------------------------------
(***************************************************************************)
(* The steps of the client, in the order of the module.                    *)
(***************************************************************************)

\* A step that learns nothing and does not succeed.
LEMMA Idling ==
    ASSUME IInv, UNCHANGED <<object, events, births, wait>>, pc # "idle",
           pc' \notin {"idle", "next"}, verdict' # "success"
    PROVE  WaitOK'
<1>1. wait \in Wait /\ wait.cursor \in wait.since..Len(events)
  BY DEF IInv, WaitOK, CursorOK
<1> QED
  BY <1>1, Moving

\* The smaller of two numbers.
LEMMA MinOfTwo ==
    ASSUME NEW a \in Nat, NEW b \in Nat
    PROVE  Min({a, b}) \in {a, b} /\ Min({a, b}) <= a /\ Min({a, b}) <= b
<1>1. \E x \in {a, b} : \A y \in {a, b} : x <= y
  <2>1. a <= b \/ b <= a
    OBVIOUS
  <2> QED
    BY <2>1
<1> QED
  BY <1>1 DEF Min

\* Begin: the wait starts at the last record of the history.
LEMMA Beginning ==
    ASSUME HistoryOK', NEW k \in {"apply", "follow", "delete"}, NEW r \in Record,
           Begin(k, r), r.rv = Len(events'), r = events'[r.rv].record, r.uid <= births',
           k = "apply" => r.observed < r.gen,
           pc' # "next", verdict' # "success"
    PROVE  WaitOK'
<1>1. Len(events') \in Nat /\ r.rv \in Nat \ {0}
  BY DEF HistoryOK, Record
<1>2. /\ wait' \in Wait /\ wait'.uid = r.uid /\ wait'.kind = k /\ wait'.desired = r.gen
      /\ wait'.since = r.rv /\ wait'.cursor = r.rv
  BY <1>1 DEF Begin, NoWait, Wait, Record
<1>3. CursorOK'
  BY <1>1, <1>2 DEF CursorOK
<1>4. StartIsTooEarly'
  BY <1>2 DEF StartIsTooEarly
<1>5. ReadyIsEarned' /\ DeletionIsEarned'
  BY DEF ReadyIsEarned, DeletionIsEarned, Succeeded
<1> QED
  BY <1>2, <1>3, <1>4, <1>5 DEF WaitOK

LEMMA StartKeeps ==
    ASSUME IInv, Start
    PROVE  IInv'
<1>1. verdict' # "success"
  <2>1. verdict' = verdict /\ pc = "idle"
    BY DEF Start, StartApply, StartFollow, StartDelete, GoOn
  <2> QED
    BY <2>1, NotYet
<1>2. CASE StartApply
  <2>1. Begin("apply", object') /\ pc' # "next"
    BY <1>2 DEF StartApply, GoOn
  <2>2. /\ HistoryOK' /\ object' \in Record /\ object'.rv = Len(events')
        /\ object' = events'[Len(events')].record
        /\ object'.uid <= births' /\ object'.observed < object'.gen
    BY <1>2, Creating, Revising DEF StartApply, IInv
  <2> QED
    BY <1>1, <2>1, <2>2, Beginning DEF IInv
<1>3. ASSUME NEW k \in {"follow", "delete"}, Begin(k, object), object # Absent,
             UNCHANGED environment, pc' # "next"
      PROVE  IInv'
  <2>1. UNCHANGED <<object, events, births>>
    BY <1>3 DEF environment
  <2>2. HistoryOK'
    BY <2>1, NothingWritten DEF IInv
  <2>3. /\ object \in Record /\ object.uid <= births /\ object.rv = Len(events)
        /\ object = events[object.rv].record
    BY <1>3, StoredRecord DEF IInv
  <2> QED
    BY <1>1, <1>3, <2>1, <2>2, <2>3, Beginning DEF IInv
<1>4. CASE StartFollow
  BY <1>3, <1>4 DEF StartFollow, GoOn
<1>5. CASE StartDelete
  BY <1>3, <1>5 DEF StartDelete, GoOn
<1> QED
  BY <1>2, <1>4, <1>5 DEF Start

\* AcceptDelete: a request that writes the deletion, or none.
LEMMA AcceptDeleteKeeps ==
    ASSUME IInv, AcceptDelete
    PROVE  IInv'
<1>1. pc = "accept" /\ wait' = wait /\ verdict' # "success" /\ pc' \in {"open", "done"}
  BY NotYet DEF AcceptDelete, End, GoOn
<1>2. HistoryOK' /\ Grows
  BY RequestingDeletion, NothingWritten DEF AcceptDelete, environment, IInv
<1>3. /\ Len(events) \in Nat /\ Len(events') \in Nat /\ Len(events') >= Len(events)
      /\ births \in Nat /\ births' \in Nat /\ births' >= births
      /\ wait \in Wait /\ wait.uid <= births /\ wait.uid \in Nat
      /\ wait.since \in 1..Len(events) /\ wait.cursor \in wait.since..Len(events)
  BY <1>1, <1>2 DEF Grows, HistoryOK, IInv, WaitOK, CursorOK, Wait
<1>4. CursorOK' /\ wait'.uid <= births'
  BY <1>1, <1>3 DEF CursorOK
<1>5. StartIsTooEarly'
  BY <1>1, <1>2, <1>3 DEF IInv, WaitOK, StartIsTooEarly, Grows
<1>6. ReadyIsEarned' /\ DeletionIsEarned'
  BY <1>1 DEF ReadyIsEarned, DeletionIsEarned, Succeeded
<1> QED
  BY <1>1, <1>2, <1>3, <1>4, <1>5, <1>6 DEF IInv, WaitOK


LEMMA FirstReadKeeps ==
    ASSUME IInv, FirstRead
    PROVE  WaitOK'
<1>1. /\ pc = "read" /\ verdict # "success" /\ UNCHANGED <<object, events, births>>
  BY NotYet DEF FirstRead, environment
<1>2. CASE object # Absent /\ Judge(object, GoOn("open"))
  <2>1. wait' = Seeing(wait, object)
    BY <1>2 DEF Judge
  <2>2. \/ pc' = "open" /\ verdict' = verdict
        \/ pc' = "done" /\ verdict' = VerdictOn(wait', object)
    BY <1>2 DEF Judge, GoOn, End
  <2> QED
    BY <1>1, <1>2, <2>1, <2>2, Judged
<1>3. CASE End("error") /\ UNCHANGED wait
  BY <1>1, <1>3, Idling DEF End
<1> QED
  BY <1>2, <1>3 DEF FirstRead

LEMMA OpenStreamKeeps ==
    ASSUME IInv, OpenStream
    PROVE  WaitOK'
<1>1. /\ pc = "open" /\ verdict' # "success" /\ UNCHANGED <<object, events, births>>
      /\ pc' = "next"
  BY NotYet DEF OpenStream, environment, GoOn
<1>2. /\ wait \in Wait /\ wait.cursor \in wait.since..Len(events)
      /\ wait.since \in 1..Len(events) /\ Len(events) \in Nat
  BY <1>1 DEF IInv, HistoryOK, WaitOK, CursorOK
<1> DEFINE end == IF adapter = "memory" THEN Min({Version, wait.cursor + BatchLimit})
                                        ELSE wait.cursor + BatchLimit
<1>3. wait' = [wait EXCEPT !.at = wait.cursor, !.end = end]
  BY DEF OpenStream
<1>4. end \in Nat
  <2>1. Version \in Nat /\ wait.cursor + BatchLimit \in Nat
    BY <1>2, WaitsAssumption DEF Version, Wait
  <2>2. Min({Version, wait.cursor + BatchLimit}) \in {Version, wait.cursor + BatchLimit}
    BY <2>1, MinOfTwo
  <2> QED
    BY <2>1, <2>2
<1> HIDE DEF end
<1>5. /\ wait' \in Wait /\ wait'.uid = wait.uid /\ wait'.kind = wait.kind
      /\ wait'.since = wait.since /\ wait'.desired = wait.desired
      /\ wait'.cursor = wait.cursor /\ wait'.at = wait.cursor
  BY <1>2, <1>3, <1>4 DEF Wait
<1> QED
  BY <1>1, <1>2, <1>5, Moving

LEMMA ReopenReadyKeeps ==
    ASSUME IInv, pc = "open", UNCHANGED <<object, events, births>>, ReopenReady
    PROVE  WaitOK'
<1>1. verdict # "success"
  BY NotYet
<1>2. CASE object # Absent /\ Judge(object, GoOn("open"))
  <2>1. wait' = Seeing(wait, object)
    BY <1>2 DEF Judge
  <2>2. \/ pc' = "open" /\ verdict' = verdict
        \/ pc' = "done" /\ verdict' = VerdictOn(wait', object)
    BY <1>2 DEF Judge, GoOn, End
  <2> QED
    BY <1>2, <2>1, <2>2, Judged
<1>3. CASE wait' = [wait EXCEPT !.latest = Absent] /\ PauseOrEnd
  <2>1. wait \in Wait /\ wait.cursor \in wait.since..Len(events)
    BY DEF IInv, WaitOK, CursorOK
  <2>2. /\ wait' \in Wait /\ wait'.uid = wait.uid /\ wait'.kind = wait.kind
        /\ wait'.since = wait.since /\ wait'.desired = wait.desired
        /\ wait'.cursor = wait.cursor
    BY <1>3, <2>1 DEF Wait
  <2>3. verdict' # "success" /\ pc' # "next"
    BY <1>1, <1>3 DEF PauseOrEnd, End, GoOn
  <2> QED
    BY <2>1, <2>2, <2>3, Moving
<1>4. CASE UNCHANGED wait /\ PauseOrEnd
  BY <1>1, <1>4, Idling DEF PauseOrEnd, End, GoOn
<1> QED
  BY <1>2, <1>3, <1>4 DEF ReopenReady

\* waitForDeletion succeeds on nothing but a read that finds no instance.
LEMMA ReadForDeletionKeeps ==
    ASSUME IInv, pc \notin {"idle", "done"}, UNCHANGED <<object, events, births>>,
           NEW timely, ReadForDeletion(timely)
    PROVE  WaitOK'
<1>1. verdict # "success" /\ wait.kind = "delete"
  BY NotYet DEF ReadForDeletion
<1>2. CASE object = Absent /\ End("success") /\ UNCHANGED wait
  <2>1. wait \in Wait /\ wait.cursor \in wait.since..Len(events)
    BY DEF IInv, WaitOK, CursorOK
  <2>2. ReadyIsEarned' /\ DeletionIsEarned' /\ pc' = "done"
    BY <1>1, <1>2 DEF ReadyIsEarned, DeletionIsEarned, Succeeded, End
  <2> QED
    BY <1>2, <2>1, <2>2, Moving
<1>3. CASE object # Absent /\ Judge(object, PauseOrEnd)
  <2>1. wait' = Seeing(wait, object)
    BY <1>3 DEF Judge
  <2>2. \/ pc' # "next" /\ verdict' \in {verdict, "timeout"}
        \/ pc' = "done" /\ verdict' = VerdictOn(wait', object)
    BY <1>3 DEF Judge, PauseOrEnd, GoOn, End
  <2> QED
    BY <1>3, <2>1, <2>2, Judged
<1>4. CASE PauseOrEnd /\ UNCHANGED wait
  BY <1>1, <1>4, Idling DEF PauseOrEnd, End, GoOn
<1> QED
  BY <1>2, <1>3, <1>4 DEF ReadForDeletion

LEMMA OpenFailsKeeps ==
    ASSUME IInv, OpenFails
    PROVE  WaitOK'
<1>1. pc = "open" /\ UNCHANGED <<object, events, births>>
  BY DEF OpenFails, environment
<1> QED
  BY <1>1, ReopenReadyKeeps, ReadForDeletionKeeps DEF OpenFails

\* Deliver: an event after the last one, which is after the start.
LEMMA DeliverKeeps ==
    ASSUME IInv, Deliver
    PROVE  WaitOK'
<1> DEFINE v == wait.at + 1
           r == events[v].record
           next == [Seeing(wait, r) EXCEPT !.at = @ + 1]
<1>1. /\ pc = "next" /\ UNCHANGED <<object, events, births>>
      /\ verdict # "success" /\ Available /\ wait' = next
  BY NotYet DEF Deliver, environment
<1>2. \/ pc' = "next" /\ verdict' = verdict
      \/ pc' = "done" /\ verdict' = VerdictOn(next, r)
  BY DEF Deliver, End, GoOn
<1>3. /\ wait \in Wait /\ wait.since \in 1..Len(events) /\ wait.at >= wait.since
      /\ events \in Seq(Event) /\ Len(events) \in Nat /\ wait.at \in Nat /\ wait.end \in Nat
  BY <1>1 DEF IInv, HistoryOK, WaitOK, CursorOK, Wait
<1>4. v \in wait.since..Len(events)
  <2> DEFINE m == Min({wait.end, Len(events)})
  <2>1. m \in {wait.end, Len(events)} /\ m <= Len(events)
    BY <1>3, MinOfTwo
  <2>2. wait.at < m
    BY <1>1 DEF Available, Version
  <2> HIDE DEF m
  <2>3. m \in Nat
    BY <2>1, <1>3
  <2> QED
    BY <2>1, <2>2, <2>3, <1>3
<1>5. r \in Record /\ r.rv = v
  <2>1. v \in 1..Len(events)
    BY <1>3, <1>4
  <2>2. events[v] \in Event
    BY <1>3, <2>1
  <2> QED
    BY <2>1, <2>2 DEF Event, IInv, HistoryOK
<1> HIDE DEF r
<1>6. /\ next \in Wait /\ next.uid = wait.uid /\ next.kind = wait.kind
      /\ next.since = wait.since /\ next.cursor = v /\ next.latest = r /\ next.at = v
      /\ next.desired = (IF wait.kind = "follow" THEN r.gen ELSE wait.desired)
  BY <1>3, <1>5 DEF Seeing, Wait, Record
<1> HIDE DEF next
<1>7. ASSUME verdict' = "success"
      PROVE  pc' = "done" /\ ReadyIsEarned' /\ DeletionIsEarned'
  <2>1. VerdictOn(next, r) = "success" /\ pc' = "done"
    BY <1>1, <1>2, <1>7
  <2>2. /\ next.kind # "delete"
        /\ r \in {events[i].record : i \in DOMAIN events}
        /\ r.phase = "Ready" /\ r.about = next.desired
        /\ next.kind = "apply" => r.rv > next.since
    BY <2>1, <1>1, <1>4, <1>6, SuccessRests DEF r
  <2> QED
    BY <2>1, <2>2, <1>1, <1>6 DEF ReadyIsEarned, DeletionIsEarned, Succeeded
<1> QED
  BY <1>1, <1>3, <1>4, <1>6, <1>7, Moving

LEMMA StreamEndsKeeps ==
    ASSUME IInv, StreamEnds
    PROVE  WaitOK'
<1>1. pc = "next" /\ UNCHANGED <<object, events, births, wait>>
      /\ pc' = "ended" /\ verdict' = verdict
  BY DEF StreamEnds, environment, GoOn
<1> QED
  BY <1>1, NotYet, Idling

LEMMA AfterStreamKeeps ==
    ASSUME IInv, AfterStream
    PROVE  WaitOK'
<1>1. pc = "ended" /\ verdict # "success" /\ UNCHANGED <<object, events, births>>
  BY NotYet DEF AfterStream, environment
<1>2. CASE ReadForDeletion(TRUE)
  BY <1>1, <1>2, ReadForDeletionKeeps
<1>3. CASE AfterReady
  <2>1. pc' \in {"done", "pause"} /\ verdict' # "success"
    BY <1>1, <1>3 DEF AfterReady, End, GoOn
  <2>2. CASE UNCHANGED wait
    BY <1>1, <2>1, <2>2, Idling
  <2>3. CASE object # Absent /\ wait' = [wait EXCEPT !.latest = object]
    <3>1. object \in Record
      BY <2>3, StoredRecord DEF IInv
    <3>2. wait \in Wait /\ wait.cursor \in wait.since..Len(events)
      BY <1>1 DEF IInv, WaitOK, CursorOK
    <3>3. /\ wait' \in Wait /\ wait'.uid = wait.uid /\ wait'.kind = wait.kind
          /\ wait'.since = wait.since /\ wait'.desired = wait.desired
          /\ wait'.cursor = wait.cursor
      BY <2>3, <3>1, <3>2 DEF Wait
    <3> QED
      BY <1>1, <2>1, <3>2, <3>3, Moving
  <2> QED
    BY <1>3, <2>2, <2>3 DEF AfterReady
<1> QED
  BY <1>2, <1>3 DEF AfterStream

\* StreamExpires: the cursor moves to the last version, unread.
LEMMA StreamExpiresKeeps ==
    ASSUME IInv, StreamExpires
    PROVE  WaitOK'
<1>1. /\ pc \in {"open", "next"} /\ pc' = "pause" /\ verdict' = verdict
      /\ UNCHANGED <<object, events, births>>
      /\ wait' = [wait EXCEPT !.cursor = IF object = Absent THEN @ ELSE object.rv]
  BY DEF StreamExpires, environment, GoOn
<1>2. /\ wait \in Wait /\ wait.cursor \in wait.since..Len(events)
      /\ wait.since \in 1..Len(events) /\ Len(events) \in Nat
  BY <1>1 DEF IInv, HistoryOK, WaitOK, CursorOK
<1> DEFINE c == IF object = Absent THEN wait.cursor ELSE object.rv
<1>3. c \in wait.since..Len(events) /\ c \in Nat
  BY <1>2, StoredRecord DEF IInv
<1>4. wait' = [wait EXCEPT !.cursor = c]
  BY <1>1
<1> HIDE DEF c
<1>5. /\ wait' \in Wait /\ wait'.uid = wait.uid /\ wait'.kind = wait.kind
      /\ wait'.since = wait.since /\ wait'.desired = wait.desired /\ wait'.cursor = c
  BY <1>2, <1>3, <1>4 DEF Wait
<1> QED
  BY <1>1, <1>3, <1>5, NotYet, Moving

LEMMA ReconnectKeeps ==
    ASSUME IInv, Reconnect
    PROVE  WaitOK'
<1>1. /\ pc = "pause" /\ UNCHANGED <<object, events, births, wait>>
      /\ pc' \in {"open", "done"} /\ verdict' \in {verdict, "timeout"}
  BY DEF Reconnect, environment, GoOn, End
<1> QED
  BY <1>1, NotYet, Idling

-----------------------------------------------------------------------------
(***************************************************************************)
(* The theorems.                                                           *)
(***************************************************************************)

LEMMA InitHolds == Init => IInv
<1> SUFFICES ASSUME Init
             PROVE  IInv
  OBVIOUS
<1>1. HistoryOK
  BY DEF Init, HistoryOK
<1>2. wait \in Wait /\ wait.uid <= births
  BY DEF Init, NoWait, Wait
<1> QED
  BY <1>1, <1>2 DEF Init, IInv, WaitOK, CursorOK, StartIsTooEarly, ReadyIsEarned,
                    DeletionIsEarned, Succeeded

LEMMA NextKeeps == IInv /\ [Next]_vars => IInv'
<1> SUFFICES ASSUME IInv, [Next]_vars
             PROVE  IInv'
  OBVIOUS
<1>1. CASE Environment
  <2>1. HistoryOK' /\ Grows
    BY <1>1, EnvironmentKeepsHistory DEF IInv
  <2>2. UNCHANGED client
    BY <1>1 DEF Environment
  <2> QED
    BY <2>1, <2>2, WaitSurvives DEF IInv
<1>2. CASE Start
  BY <1>2, StartKeeps
<1>3. CASE AcceptDelete
  BY <1>3, AcceptDeleteKeeps
<1>4. CASE Deadline \/ UNCHANGED vars
  <2>1. UNCHANGED <<object, events, births, pc, wait, verdict>>
    BY <1>4 DEF Deadline, vars, environment, client
  <2>2. HistoryOK'
    BY <2>1, NothingWritten DEF IInv
  <2>3. WaitOK'
    BY <2>1 DEF IInv, WaitOK, CursorOK, StartIsTooEarly, ReadyIsEarned,
                DeletionIsEarned, Succeeded
  <2> QED
    BY <2>2, <2>3 DEF IInv
<1>5. CASE \/ FirstRead \/ OpenStream \/ OpenFails \/ Deliver
           \/ StreamEnds \/ AfterStream \/ StreamExpires \/ Reconnect
  <2>1. UNCHANGED <<object, events, births>>
    BY <1>5 DEF FirstRead, OpenStream, OpenFails, Deliver, StreamEnds, AfterStream,
                StreamExpires, Reconnect, environment
  <2>2. HistoryOK'
    BY <2>1, NothingWritten DEF IInv
  <2>3. WaitOK'
    BY <1>5, FirstReadKeeps, OpenStreamKeeps, OpenFailsKeeps, DeliverKeeps,
       StreamEndsKeeps, AfterStreamKeeps, StreamExpiresKeeps, ReconnectKeeps
  <2> QED
    BY <2>2, <2>3 DEF IInv
<1> QED
  BY <1>1, <1>2, <1>3, <1>4, <1>5 DEF Next, ClientStep

\* The inductive invariant holds in every state of every run.
THEOREM WaitsHold == Spec => []IInv
BY InitHolds, NextKeeps, PTL DEF Spec

\* OUT-004: a wait for Ready that succeeds has seen a status that was committed, and
\* committed for the awaited generation; an apply saw one from after its acceptance,
\* never the Ready of the generation before, which an accepted revision leaves in
\* place (waitForReady, readyState, and the guards of the status writers).
THEOREM ReadyWasEarned == Spec => []ReadyIsEarned
<1>1. IInv => ReadyIsEarned
  BY DEF IInv, WaitOK
<1> QED
  BY <1>1, WaitsHold, PTL

\* CLI-005: a wait for a deletion that succeeds was accepted for an instance that is
\* gone, whatever bears the name since (waitForDeletion ends on a read that finds no
\* instance, never on an error or on the end of a watch).
THEOREM DeletionWasEarned == Spec => []DeletionIsEarned
<1>1. IInv => DeletionIsEarned
  BY DEF IInv, WaitOK
<1> QED
  BY <1>1, WaitsHold, PTL
=============================================================================
