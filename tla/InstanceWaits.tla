--------------------------- MODULE InstanceWaits ---------------------------
(***************************************************************************)
(* A client that waits (internal/application/runtime.go): apply waits for  *)
(* the revision it had accepted, status --watch for whatever revision is   *)
(* the latest, delete for the end of the instance.  The wait reads the     *)
(* instance once, then follows a watch from a cursor; a watch that ends is *)
(* opened again after a delay, and one whose cursor is too old starts from *)
(* another read.  The wait is over when a status says so or at the         *)
(* deadline.                                                               *)
(*                                                                         *)
(* Below it is one of the two adapters of the Scenario Control Plane.  The *)
(* Kubernetes adapter follows a live watch, which may be closed, may fail  *)
(* and may report that its version has expired; a deletion is an event.    *)
(* The in-memory adapter hands out what its bounded history holds, at most *)
(* one batch, and ends; a deletion leaves no event.                        *)
(*                                                                         *)
(* One waiting client; other clients and the controller change the         *)
(* instance as RevisionSubmission and InstanceReconciler describe.         *)
(***************************************************************************)
EXTENDS Integers, Sequences, FiniteSetsExt

CONSTANTS
    Adapters,       \* a subset of {"kubernetes", "memory"}
    Kinds,          \* a subset of {"apply", "follow", "delete"}
    HistoryLimit,   \* events the memory adapter keeps
    BatchLimit,     \* watchBatchLimit
    Absent,         \* "there is no instance", and the record of a failed read
    MaxEvents,      \* bound: events in the history of the instance
    MaxGeneration,  \* bound: revisions of an instance
    MaxBirths,      \* bound: instances created under the name
    MaxFaults       \* bound: requests that fail and watches that break

VARIABLES
    adapter,        \* the control plane of this run
    object,         \* the stored instance, or Absent
    events,         \* every event so far: its place is its resourceVersion
    births,         \* instances created under the name: the last UID
    compacted,      \* a cursor below this version has expired
    faults,         \* faults that may still happen
    pc, wait,       \* the client
    late,           \* the deadline has passed
    verdict         \* how the wait ended

environment == <<object, events, births, compacted>>
client == <<pc, wait, late, verdict>>
vars == <<adapter, environment, faults, client>>

ASSUME WaitsAssumption ==
    /\ Adapters \subseteq {"kubernetes", "memory"}
    /\ Kinds \subseteq {"apply", "follow", "delete"}
    /\ HistoryLimit \in Nat \ {0} /\ BatchLimit \in Nat \ {0}
    /\ MaxEvents \in Nat /\ MaxGeneration \in Nat \ {0}
    /\ MaxBirths \in Nat /\ MaxFaults \in Nat

Phases == {"none", "Reconciling", "Ready", "Failed", "Deleting"}

\* "about" is the generation whose digest the status carries.
Record == [rv : Nat \ {0}, uid : Nat \ {0}, gen : Nat \ {0}, deleting : BOOLEAN,
           phase : Phases, observed : Nat, blocked : BOOLEAN, about : Nat]

\* "since" is the version at which the wait began, "at" the last version the
\* open watch delivered and "end" the last one it may deliver.
Wait == [kind : {"apply", "follow", "delete"}, uid : Nat, desired : Nat, since : Nat,
         latest : Record \union {Absent}, cursor : Nat, at : Nat, end : Nat]
NoWait == [kind |-> "follow", uid |-> 0, desired |-> 0, since |-> 0,
           latest |-> Absent, cursor |-> 0, at |-> 0, end |-> 0]

TypeOK ==
    /\ adapter \in Adapters
    /\ object \in Record \union {Absent}
    /\ \A i \in DOMAIN events :
         events[i].kind \in {"put", "deleted"} /\ events[i].record \in Record
    /\ births \in 0..MaxBirths
    /\ compacted \in 0..Len(events)
    /\ faults \in 0..MaxFaults
    /\ pc \in {"idle", "accept", "read", "open", "next", "ended",
              "pause", "done"}
    /\ wait \in Wait
    /\ late \in BOOLEAN
    /\ verdict \in {"none", "success", "failed", "timeout", "error"}

Init ==
    /\ adapter \in Adapters
    /\ object = Absent /\ events = <<>> /\ births = 0 /\ compacted = 0
    /\ faults = MaxFaults
    /\ pc = "idle" /\ wait = NoWait /\ late = FALSE /\ verdict = "none"

-----------------------------------------------------------------------------
(***************************************************************************)
(* The instance and its history.                                           *)
(***************************************************************************)

Version == Len(events)

\* The memory adapter drops its oldest events; etcd is compacted at any time.
Retain(es) ==
    IF adapter = "memory" THEN Max({compacted, Len(es) - HistoryLimit}) ELSE compacted

Log(kind, r) ==
    /\ Version < MaxEvents
    /\ events' = Append(events, [kind |-> kind, record |-> [r EXCEPT !.rv = Version + 1]])
    /\ compacted' = Retain(events')

Store(r) ==
    /\ Log("put", r)
    /\ object' = [r EXCEPT !.rv = Version + 1]

Create ==
    /\ object = Absent /\ births < MaxBirths
    /\ births' = births + 1
    /\ Store([rv |-> 1, uid |-> births + 1, gen |-> 1, deleting |-> FALSE,
              phase |-> "none", observed |-> 0, blocked |-> FALSE, about |-> 0])

\* A revision leaves the status of the generation before it in place; one is accepted
\* of an instance that is being deleted, too.
Revise ==
    /\ object # Absent /\ object.gen < MaxGeneration
    /\ Store([object EXCEPT !.gen = @ + 1])
    /\ UNCHANGED births

RequestDeletion ==
    /\ object # Absent /\ ~object.deleting
    /\ Store([object EXCEPT !.deleting = TRUE])
    /\ UNCHANGED births

\* What the controller commits: progress drops the observed generation, Ready
\* sets it, a failure keeps it.
Statuses(o) ==
    {[o EXCEPT !.phase = IF o.deleting THEN "Deleting" ELSE "Reconciling",
               !.observed = 0, !.blocked = b, !.about = o.gen] : b \in BOOLEAN}
    \union {[o EXCEPT !.phase = "Failed", !.blocked = FALSE, !.about = o.gen]}
    \union {[o EXCEPT !.phase = "Ready", !.observed = o.gen, !.blocked = FALSE,
                      !.about = o.gen] : ready \in {TRUE} \ {o.deleting}}

CommitStatus ==
    /\ object # Absent
    /\ \E next \in Statuses(object) :
         /\ [next EXCEPT !.rv = 1] # [object EXCEPT !.rv = 1]
         /\ Store(next)
    /\ UNCHANGED births

\* The finalizer is removed; only the API server records it as an event.
CompleteDeletion ==
    /\ object # Absent /\ object.deleting
    /\ object' = Absent
    /\ IF adapter = "memory" THEN UNCHANGED <<events, compacted>>
                             ELSE Log("deleted", object)
    /\ UNCHANGED births

Compact ==
    /\ adapter = "kubernetes"
    /\ compacted' \in (compacted + 1)..Version
    /\ UNCHANGED <<object, events, births>>

Environment ==
    /\ Create \/ Revise \/ RequestDeletion \/ CommitStatus \/ CompleteDeletion \/ Compact
    /\ UNCHANGED <<adapter, faults, client>>

-----------------------------------------------------------------------------
(***************************************************************************)
(* What ends a wait.                                                       *)
(***************************************************************************)

\* Mutation: whatever generation the status is about.
IsReadyOfAny(r, desired) == r.phase = "Ready"
IsReady(r, desired) == r.phase = "Ready" /\ r.observed = desired

\* readyState: a failure, a blocked cleanup, or a later generation.
HasFailed(r, desired) == r.phase = "Failed" \/ r.blocked \/ r.observed > desired

VerdictOn(w, r) ==
    IF w.kind = "delete" THEN IF HasFailed(r, r.gen) THEN "failed" ELSE "none"
    ELSE IF HasFailed(r, w.desired) THEN "failed"
    ELSE IF IsReady(r, w.desired) THEN "success"
    ELSE "none"

\* The wait after the client has seen the record r.
Seeing(w, r) ==
    [w EXCEPT !.latest = r, !.cursor = r.rv,
              !.desired = IF w.kind = "follow" THEN r.gen ELSE @]

End(outcome) == pc' = "done" /\ verdict' = outcome
GoOn(where) == pc' = where /\ verdict' = verdict

\* Mutation: what a read returns is only a place to watch from.
JudgeUnread(r, otherwise) == wait' = Seeing(wait, r) /\ otherwise
\* The client judges what it has seen; when that is not the end, "otherwise".
Judge(r, otherwise) ==
    LET next == Seeing(wait, r)
        outcome == VerdictOn(next, r)
    IN  /\ wait' = next
        /\ IF outcome = "none" THEN otherwise ELSE End(outcome)

Fault == faults > 0 /\ faults' = faults - 1
NoFault == faults' = faults

\* A request under the wait's own deadline; the memory adapter ignores it.
InTime == adapter = "memory" \/ ~late
\* A request of the Kubernetes adapter may fail.
Fails == adapter = "kubernetes" /\ IF late THEN NoFault ELSE Fault

\* After a failed step: the deadline, or a pause before the next watch.
PauseOrEnd == IF late THEN End("timeout") ELSE GoOn("pause")

-----------------------------------------------------------------------------
(***************************************************************************)
(* The beginning of a call.                                                *)
(***************************************************************************)

Begin(kind, r) ==
    wait' = [NoWait EXCEPT !.kind = kind, !.uid = r.uid, !.desired = r.gen,
                           !.since = r.rv, !.latest = r, !.cursor = r.rv]

\* Apply: the revision is accepted, then the wait reads.
StartApply ==
    /\ "apply" \in Kinds
    /\ Create \/ Revise
    /\ Begin("apply", object')
    /\ GoOn("read") /\ NoFault /\ UNCHANGED <<adapter, late>>

\* Observe has read the instance for its receipt; the wait reads again.
StartFollow ==
    /\ "follow" \in Kinds /\ object # Absent
    /\ Begin("follow", object)
    /\ GoOn("read") /\ NoFault /\ UNCHANGED <<adapter, environment, late>>

\* Delete reads and asks for the deletion of exactly that; the wait starts from
\* what was read.  A deletion that is already under way is waited for too.
StartDelete ==
    /\ "delete" \in Kinds /\ object # Absent
    /\ Begin("delete", object)
    /\ GoOn("accept") /\ NoFault /\ UNCHANGED <<adapter, environment, late>>

Start == pc = "idle" /\ (StartApply \/ StartFollow \/ StartDelete)

AcceptDelete ==
    /\ pc = "accept"
    /\ IF object # Absent /\ object.uid = wait.uid /\ object.gen = wait.desired
       THEN /\ IF object.deleting THEN UNCHANGED environment ELSE RequestDeletion
            /\ GoOn("open")
       ELSE UNCHANGED environment /\ End("error")
    /\ NoFault /\ UNCHANGED <<adapter, wait, late>>

\* waitForReady begins with a read; when it fails the wait does not begin.
FirstRead ==
    /\ pc = "read"
    /\ \/ object # Absent /\ InTime /\ Judge(object, GoOn("open")) /\ NoFault
       \/ object = Absent /\ NoFault /\ End("error") /\ UNCHANGED wait
       \/ Fails /\ End("error") /\ UNCHANGED wait
    /\ UNCHANGED <<adapter, environment, late>>

-----------------------------------------------------------------------------
(***************************************************************************)
(* The watch.                                                              *)
(***************************************************************************)

CursorExpired == wait.cursor < compacted

\* A stream delivers at most a batch; in memory, of what is there already.
OpenStream ==
    /\ pc = "open" /\ InTime /\ ~CursorExpired
    /\ wait' = [wait EXCEPT !.at = wait.cursor,
                            !.end = IF adapter = "memory"
                                    THEN Min({Version, wait.cursor + BatchLimit})
                                    ELSE wait.cursor + BatchLimit]
    /\ GoOn("next") /\ NoFault
    /\ UNCHANGED <<adapter, environment, late>>

\* waitForReady, Watch failed: an expired cursor is replaced by a read, and a
\* read that fails forgets the record.
ReopenReady ==
    /\ wait.kind # "delete"
    /\ \/ /\ CursorExpired /\ InTime /\ object # Absent /\ NoFault
          /\ Judge(object, GoOn("open"))
       \/ /\ CursorExpired /\ InTime
          /\ IF object = Absent THEN NoFault ELSE Fails
          /\ wait' = [wait EXCEPT !.latest = Absent] /\ PauseOrEnd
       \/ Fails /\ UNCHANGED wait /\ PauseOrEnd

\* Mutation: any error of the read means that the instance is gone.
ReadForDeletionAnyError(timely) ==
    /\ wait.kind = "delete"
    /\ \/ timely /\ object = Absent /\ NoFault /\ End("success") /\ UNCHANGED wait
       \/ timely /\ object # Absent /\ NoFault /\ Judge(object, PauseOrEnd)
       \/ /\ adapter = "kubernetes" /\ IF timely THEN Fault ELSE NoFault
          /\ End("success") /\ UNCHANGED wait
\* waitForDeletion, a watch did not open or ended: a read tells more.
ReadForDeletion(timely) ==
    /\ wait.kind = "delete"
    /\ \/ timely /\ object = Absent /\ NoFault /\ End("success") /\ UNCHANGED wait
       \/ timely /\ object # Absent /\ NoFault /\ Judge(object, PauseOrEnd)
       \/ /\ adapter = "kubernetes" /\ IF timely THEN Fault ELSE NoFault
          /\ PauseOrEnd /\ UNCHANGED wait

OpenFails ==
    /\ pc = "open"
    /\ CursorExpired \/ adapter = "kubernetes"
    /\ ReopenReady \/ ReadForDeletion(InTime)
    /\ UNCHANGED <<adapter, environment, late>>

Available == wait.at < Min({wait.end, Version})

\* Next returns an event, whether or not its version was compacted meanwhile.
Deliver ==
    /\ pc = "next" /\ Available
    /\ adapter = "kubernetes" \/ ~late
    /\ events[wait.at + 1].kind = "put"
    /\ LET r == events[wait.at + 1].record
           next == [Seeing(wait, r) EXCEPT !.at = @ + 1]
           outcome == VerdictOn(next, r)
       IN  /\ wait' = next
           /\ IF outcome = "none" THEN GoOn("next") ELSE End(outcome)
    /\ NoFault /\ UNCHANGED <<adapter, environment, late>>

\* Next returns an error: the end of the batch, the deadline, the event of a
\* deletion, or a watch that was closed or broke.
StreamEnds ==
    /\ pc = "next"
    /\ \/ NoFault /\ (wait.at = wait.end \/ late)
       \/ NoFault /\ Available /\ events[wait.at + 1].kind = "deleted"
       \/ adapter = "kubernetes" /\ Fault
    /\ GoOn("ended")
    /\ UNCHANGED <<adapter, environment, wait, late>>

\* Mutation: the deadline is left to the pause.
AfterReadyNoDeadline ==
    wait.kind # "delete" /\ GoOn("pause") /\ NoFault /\ UNCHANGED wait
\* waitForReady reads at the deadline only, and then without it.
AfterReady ==
    /\ wait.kind # "delete"
    /\ IF late
       THEN /\ End("timeout")
            /\ \/ object # Absent /\ NoFault /\ wait' = [wait EXCEPT !.latest = object]
               \/ object = Absent /\ NoFault /\ UNCHANGED wait
               \/ adapter = "kubernetes" /\ Fault /\ UNCHANGED wait
       ELSE GoOn("pause") /\ NoFault /\ UNCHANGED wait

\* Mutation: a deletion waits for an event.
AfterStreamNoRead ==
    /\ pc = "ended"
    /\ AfterReady \/ (wait.kind = "delete" /\ PauseOrEnd /\ NoFault /\ UNCHANGED wait)
    /\ UNCHANGED <<adapter, environment, late>>
AfterStream ==
    /\ pc = "ended"
    /\ AfterReady \/ ReadForDeletion(TRUE)
    /\ UNCHANGED <<adapter, environment, late>>

\* An open Kubernetes watch reports that its version has expired, at once or later:
\* the adapter reads the instance and hands out its version, not its contents.
\* (When that read fails, this is StreamEnds.)
StreamExpires ==
    /\ adapter = "kubernetes" /\ ~late /\ wait.kind # "delete"
    /\ \/ pc = "open" /\ CursorExpired /\ NoFault
       \/ pc = "next" /\ Fault
    /\ wait' = [wait EXCEPT !.cursor = IF object = Absent THEN @ ELSE object.rv]
    /\ GoOn("pause")
    /\ UNCHANGED <<adapter, environment, late>>

\* waitBeforeReconnect: the delay or the deadline, whichever is noticed.
Reconnect ==
    /\ pc = "pause"
    /\ GoOn("open") \/ (late /\ End("timeout"))
    /\ UNCHANGED <<adapter, environment, faults, wait, late>>

Deadline ==
    /\ ~late /\ pc \notin {"idle", "accept", "done"}
    /\ late' = TRUE
    /\ UNCHANGED <<adapter, environment, faults, pc, wait, verdict>>

ClientStep ==
    \/ AcceptDelete \/ FirstRead \/ OpenStream \/ OpenFails
    \/ Deliver \/ StreamEnds \/ AfterStream \/ StreamExpires \/ Reconnect

Next == Environment \/ Start \/ ClientStep \/ Deadline

\* Requests are answered and events arrive; no fault has to happen, and the
\* deadline does not have to pass.
Spec == Init /\ [][Next]_vars /\ WF_vars(ClientStep /\ NoFault)

-----------------------------------------------------------------------------
(***************************************************************************)
(* Properties.                                                             *)
(***************************************************************************)

Waiting == pc \in {"read", "open", "next", "ended", "pause"}
Succeeded(kinds) == verdict = "success" /\ wait.kind \in kinds

\* OUT-004: success of a wait for Ready rests on a status that was committed for
\* the awaited generation, and for apply after the acceptance of the revision,
\* although an accepted revision leaves the old status in place.
ReadyIsEarned ==
    Succeeded({"apply", "follow"}) =>
        /\ wait.latest \in {events[i].record : i \in DOMAIN events}
        /\ wait.latest.phase = "Ready" /\ wait.latest.about = wait.desired
        /\ wait.kind = "apply" => wait.latest.rv > wait.since

\* CLI-005: a deletion succeeds only when the instance it was accepted for is
\* gone, whatever now bears the name and whatever errors the wait met.
DeletionIsEarned ==
    Succeeded({"delete"}) => object = Absent \/ object.uid # wait.uid

\* The cursor is that of a record the client has not seen.
PassedOver ==
    wait.cursor = object.rv /\ (wait.latest = Absent \/ wait.latest.rv < object.rv)

\* The instance the wait began with, when it stays Ready, is noticed before the
\* deadline, unless an open watch expired and moved the cursor past what the client
\* has seen.  (One created again under the name may be missed: a watch is resumed
\* before the event of the deletion, again and again.)
ReadyIsNoticed ==
    ~<>[](/\ Waiting /\ wait.kind # "delete" /\ object # Absent
          /\ object.uid = wait.uid
          /\ IsReady(object, IF wait.kind = "follow" THEN object.gen ELSE wait.desired)
          /\ ~PassedOver)

\* An instance that is gone for good is noticed before the deadline.
DeletionIsNoticed == ~<>[](Waiting /\ wait.kind = "delete" /\ object = Absent)

\* CLI-005: the deadline ends every wait, also in the middle of a reconnect, and
\* whether or not the requests under way still answer.
DeadlineEndsWaits == late ~> pc = "done"

\* controlplane.go calls the cursor of an expiry safe to resume from: nothing the
\* wait would end with lies at or before it unseen.
ResumeIsSafe ==
    Waiting /\ pc # "read" /\ wait.kind # "delete" =>
        VerdictOn(wait, events[wait.cursor].record) = "none"

\* OUT-004, exit code 5: a revision that is said to have failed to converge was
\* tried; the failure of the generation before it is not its own.
FailuresAreCurrent ==
    verdict = "failed" /\ wait.kind = "apply" => wait.latest.about >= wait.desired
=============================================================================
