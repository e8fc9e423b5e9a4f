------------------------- MODULE RevisionSubmission -------------------------
(***************************************************************************)
(* Clients that change one Scenario Instance: the Scenario Runtime's       *)
(* apply, typed change (health, scale) and delete                          *)
(* (internal/application/{preflight,runtime,revision}.go) over the         *)
(* Kubernetes control-plane adapter (internal/controlplane/kubernetes),    *)
(* while the controller commits statuses and removes the finalizer.        *)
(*                                                                         *)
(* A call reads the instance and keeps it as its baseline, submits a       *)
(* server dry run, then submits for good.  A submission is itself a read   *)
(* (Get) and a guarded write (Put); when only the resourceVersion moved,   *)
(* the runtime reads again, compares with the baseline and retries.        *)
(*                                                                         *)
(* Not modelled here: connecting, discovery and authorization (no state of *)
(* the instance), the wait for convergence that follows an acceptance, the *)
(* contents of the status, and the creation identity, a constant of the    *)
(* command line.                                                           *)
(***************************************************************************)
EXTENDS Naturals, Sequences

CONSTANTS
    Clients, Contents, Fidelity, Gone, NoContent, NoCommand,
    Changes,        \* typed changes: functions [Contents -> Contents]
    NoChange,       \* the call submits a whole Scenario
    NoCall,         \* the client is idle
    Attempts,       \* revisionSubmitAttemptLimit
    MaxCalls,       \* bound: calls of all clients together
    MaxVersion      \* bound: statuses are committed below this resourceVersion

VARIABLES
    \* shared with the contract
    object, births, version, command, answer,
    \* the Scenario Runtime's call of each client
    pc, call,
    read,           \* the instance that the adapter's Get returned, before a write
    \* history
    accepted,       \* every revision ever accepted
    calls           \* calls started

contractVars == <<object, births, version, command, answer>>
vars == <<contractVars, pc, call, read, accepted, calls>>

Contract == INSTANCE ScenarioControlPlane

ASSUME SubmissionAssumption ==
    /\ Contract!ContractAssumption
    /\ Changes \subseteq [Contents -> Contents]
    /\ \A f \in Changes, x \in Contents : Fidelity[f[x]] = Fidelity[x]
    /\ NoChange \notin Changes
    /\ NoCommand \notin Contract!Command
    /\ Attempts \in Nat \ {0}
    /\ MaxCalls \in Nat /\ MaxVersion \in Nat

Latest(o) == Contract!Latest(o)
Revision == [uid : Nat \ {0}, gen : Nat \ {0}, content : Contents]

\* What a call keeps: the user's request, the command it leads to and the
\* instance as it was read first.
Call == [verb : {"apply", "revise", "delete"}, change : Changes \union {NoChange},
         intent : Contract!Command, base : Contract!Instance \union {Gone},
         attempt : 0..(Attempts - 1)]

TypeOK ==
    /\ object \in Contract!Instance \union {Gone}
    /\ births \in Nat /\ version \in Nat
    /\ command \in [Clients -> Contract!Command \union {NoCommand}]
    /\ answer \in [Clients -> Contract!Answer]
    /\ pc \in [Clients -> {"idle", "read", "get", "put", "reread", "answered"}]
    /\ call \in [Clients -> Call \union {NoCall}]
    /\ read \in [Clients -> Contract!Instance \union {Gone}]
    /\ accepted \subseteq Revision
    /\ calls \in 0..MaxCalls

Init ==
    /\ Contract!Init
    /\ pc = [c \in Clients |-> "idle"]
    /\ call = [c \in Clients |-> NoCall]
    /\ read = [c \in Clients |-> Gone]
    /\ accepted = {}
    /\ calls = 0

-----------------------------------------------------------------------------
(***************************************************************************)
(* The Scenario Runtime: what a call asks for and reads first.             *)
(***************************************************************************)

\* A user names no instance, or one from a receipt.
Receipts == {[uid |-> r.uid, gen |-> r.gen] : r \in accepted}
NoReceipt == [uid |-> 0, gen |-> 0]

Request(verb, change, content, receipt) ==
    [verb |-> verb, change |-> change, base |-> Gone, attempt |-> 0,
     intent |-> [verb |-> IF verb = "delete" THEN "delete" ELSE "dry-run",
                 content |-> content, uid |-> receipt.uid, gen |-> receipt.gen,
                 rv |-> 0]]

StartCall(c) ==
    /\ pc[c] = "idle" /\ calls < MaxCalls
    /\ calls' = calls + 1
    /\ pc' = [pc EXCEPT ![c] = "read"]
    /\ \/ \E x \in Contents, r \in Receipts \union {NoReceipt} :
            call' = [call EXCEPT ![c] = Request("apply", NoChange, x, r)]
       \/ \E f \in Changes, r \in Receipts :
            call' = [call EXCEPT ![c] = Request("revise", f, NoContent, r)]
       \/ \E r \in Receipts :
            call' = [call EXCEPT ![c] = Request("delete", NoChange, NoContent, r)]
    /\ UNCHANGED <<contractVars, read, accepted>>

\* Sends a command to the control plane.
Send(c, next) ==
    /\ command' = [command EXCEPT ![c] = next.intent]
    /\ answer' = [answer EXCEPT ![c] = Contract!NoAnswer]
    /\ call' = [call EXCEPT ![c] = next]
    /\ pc' = [pc EXCEPT ![c] = "get"]
    /\ UNCHANGED <<object, births, version, read, accepted, calls>>

EndCall(c) ==
    /\ pc' = [pc EXCEPT ![c] = "idle"]
    /\ call' = [call EXCEPT ![c] = NoCall]
    /\ UNCHANGED <<contractVars, read, accepted, calls>>

\* The resourceVersion is bound during preflight, to the exact instance only.
Bound(intent, o) ==
    IF Contract!Exact(o, intent) THEN [intent EXCEPT !.rv = Contract!VersionOf(o)]
                                 ELSE intent

\* Preflight of apply: the instance read becomes the baseline of retries.
PreflightApply(c) ==
    /\ pc[c] = "read" /\ call[c].verb = "apply"
    /\ Send(c, [call[c] EXCEPT !.base = object, !.intent = Bound(@, object)])

\* A typed change is applied to the Scenario of the exact instance it names.
Revised(request, o) ==
    [request EXCEPT !.base = o,
                    !.intent = [@ EXCEPT !.content = request.change[Latest(o)],
                                         !.rv = o.rv]]
ReadRevise(c) ==
    /\ pc[c] = "read" /\ call[c].verb = "revise"
    /\ object # Gone /\ Contract!Exact(object, call[c].intent)
    /\ Send(c, Revised(call[c], object))

ReadDelete(c) ==
    /\ pc[c] = "read" /\ call[c].verb = "delete"
    /\ object # Gone /\ Contract!Exact(object, call[c].intent)
    /\ Send(c, [call[c] EXCEPT !.base = object])

\* The instance is missing, or it is not the one the user named.
RejectRequest(c) ==
    /\ pc[c] = "read" /\ call[c].verb \in {"revise", "delete"}
    /\ object = Gone \/ ~Contract!Exact(object, call[c].intent)
    /\ EndCall(c)

-----------------------------------------------------------------------------
(***************************************************************************)
(* The Kubernetes adapter: a read with its checks, then a guarded write.   *)
(***************************************************************************)

\* The outcome a Get leads to; "none" when the write must follow.
CreateCheck(cmd) ==
    IF cmd.gen # 0 THEN "GenerationConflict"
    ELSE IF cmd.uid # 0 THEN "UIDConflict"
    ELSE IF cmd.rv # 0 THEN "ResourceVersionConflict"
    ELSE "none"
\* Mutation: the same digest is not recognised.
UpdateCheckNoDigest(o, cmd) ==
    IF Contract!FidelityDiffers(o, cmd) THEN "FidelityConflict"
    ELSE IF o.uid # cmd.uid THEN "UIDConflict"
    ELSE IF Len(o.log) # cmd.gen THEN "GenerationConflict"
    ELSE IF o.rv # cmd.rv THEN "ResourceVersionConflict"
    ELSE "none"
UpdateCheck(o, cmd) ==
    IF Contract!FidelityDiffers(o, cmd) THEN "FidelityConflict"
    ELSE IF Contract!SameDigest(o, cmd) THEN "no-op"
    ELSE IF o.uid # cmd.uid THEN "UIDConflict"
    ELSE IF Len(o.log) # cmd.gen THEN "GenerationConflict"
    ELSE IF o.rv # cmd.rv THEN "ResourceVersionConflict"
    ELSE "none"
\* Mutation: the UID is compared only when the runtime reads the instance.
DeleteCheckNoUid(o, cmd) ==
    IF Len(o.log) # cmd.gen THEN "GenerationConflict"
    ELSE IF o.deleting THEN "no-op"
    ELSE "none"
DeleteCheck(o, cmd) ==
    IF o.uid # cmd.uid THEN "UIDConflict"
    ELSE IF Len(o.log) # cmd.gen THEN "GenerationConflict"
    ELSE IF o.deleting THEN "no-op"
    ELSE "none"
Check(o, cmd) ==
    IF cmd.verb = "delete"
    THEN IF o = Gone THEN "NotFound" ELSE DeleteCheck(o, cmd)
    ELSE IF o = Gone THEN CreateCheck(cmd) ELSE UpdateCheck(o, cmd)

\* The command ends with an answer.
AnswerCommand(c, reply) ==
    /\ answer' = [answer EXCEPT ![c] = reply]
    /\ command' = [command EXCEPT ![c] = NoCommand]
    /\ pc' = [pc EXCEPT ![c] = "answered"]
    /\ read' = [read EXCEPT ![c] = Gone]
    /\ UNCHANGED <<call, calls>>

Get(c) ==
    LET outcome == Check(object, command[c])
    IN  /\ pc[c] = "get"
        /\ \/ /\ outcome = "none"
              /\ read' = [read EXCEPT ![c] = object]
              /\ pc' = [pc EXCEPT ![c] = "put"]
              /\ UNCHANGED <<call, command, answer, calls>>
           \/ /\ outcome = "no-op"
              /\ AnswerCommand(c, Contract!Receipt("no-op", object))
           \/ /\ outcome \in Contract!Errors
              /\ AnswerCommand(c, Contract!Refusal(outcome))
        /\ UNCHANGED <<object, births, version, accepted>>

\* Mutation: the write carries no resourceVersion.
UnchangedName(c) == (object = Gone) = (read[c] = Gone)
\* The API server's preconditions: the name is still free, or the object is
\* still at the resourceVersion that was read.
Unchanged(c) == Contract!VersionOf(object) = Contract!VersionOf(read[c])

\* The stored object after a write, at the next resourceVersion.  An update
\* stores the copy that was read, with the revision appended.
Written(copy, cmd) ==
    IF cmd.verb = "delete" THEN [object EXCEPT !.deleting = TRUE, !.rv = version + 1]
    ELSE IF copy = Gone
    THEN [uid |-> births + 1, rv |-> version + 1, deleting |-> FALSE,
          log |-> <<cmd.content>>]
    ELSE [copy EXCEPT !.log = Append(@, cmd.content), !.rv = version + 1]

\* Mutation: a dry run is persisted.
WritePersisting(c) ==
    LET cmd == command[c]
    IN  /\ object' = Written(read[c], cmd)
        /\ version' = version + 1
        /\ births' = IF object = Gone THEN births + 1 ELSE births
        /\ accepted' = accepted
\* The write is applied; a dry run only passes admission.
Write(c) ==
    LET cmd == command[c]
    IN  IF cmd.verb = "dry-run" THEN UNCHANGED <<object, births, version, accepted>>
        ELSE /\ object' = Written(read[c], cmd)
             /\ version' = version + 1
             /\ births' = IF object = Gone THEN births + 1 ELSE births
             /\ accepted' = IF cmd.verb = "delete" THEN accepted
                            ELSE accepted \union
                                 {[uid |-> object'.uid, gen |-> Len(object'.log),
                                   content |-> cmd.content]}

\* Mutation: the receipt describes the instance as it was read.
AcceptedBefore(c) ==
    IF command[c].verb = "dry-run" THEN Contract!Refusal("proposed")
                                   ELSE Contract!Receipt("accepted", object)
Accepted(c) ==
    IF command[c].verb = "dry-run" THEN Contract!Refusal("proposed")
                                   ELSE Contract!Receipt("accepted", object')

Put(c) ==
    /\ pc[c] = "put" /\ Unchanged(c)
    /\ Write(c)
    /\ IF command[c].verb = "delete"
       THEN /\ pc' = [pc EXCEPT ![c] = "reread"]
            /\ command' = [command EXCEPT ![c].verb = "deleted"]
            /\ UNCHANGED <<answer, read, call, calls>>
       ELSE AnswerCommand(c, Accepted(c))

\* The receipt of a deletion describes what a second read finds.
Reread(c) ==
    /\ pc[c] = "reread"
    /\ AnswerCommand(c, Contract!Receipt("accepted",
                                         IF object = Gone THEN read[c] ELSE object))
    /\ UNCHANGED <<object, births, version, accepted>>

\* Conflict and AlreadyExists are resourceVersion conflicts.  An update of an
\* object that is gone is an error of the API server without a code.
PutRefused(c) ==
    /\ pc[c] = "put" /\ ~Unchanged(c)
    /\ AnswerCommand(c, Contract!Refusal(
            IF object # Gone THEN "ResourceVersionConflict"
            ELSE IF command[c].verb = "delete" THEN "NotFound"
            ELSE "Unavailable"))
    /\ UNCHANGED <<object, births, version, accepted>>

\* The connection breaks: the request may have been executed.
LoseAnswer(c) ==
    /\ pc[c] \in {"get", "put", "reread"}
    /\ \/ pc[c] = "put" /\ Unchanged(c) /\ Write(c)
       \/ UNCHANGED <<object, births, version, accepted>>
    /\ AnswerCommand(c, Contract!Refusal("Unavailable"))

-----------------------------------------------------------------------------
(***************************************************************************)
(* The Scenario Runtime: what it makes of an answer.                       *)
(***************************************************************************)

Sent(c) == call[c].intent
DryRunDone(c) == Sent(c).verb = "dry-run" /\ answer[c].outcome \in {"proposed", "no-op"}

\* The dry run passed: the same command is submitted for good.
SubmitForGood(c) ==
    /\ pc[c] = "answered" /\ DryRunDone(c)
    /\ Send(c, [call[c] EXCEPT !.intent = [@ EXCEPT !.verb = "submit"],
                               !.attempt = 0])

\* Mutation: one attempt too many.
MayRetryOnceMore(c) ==
    /\ answer[c].outcome = "ResourceVersionConflict"
    /\ Sent(c).verb # "delete"
    /\ call[c].base # Gone /\ Sent(c).uid # 0 /\ Sent(c).gen # 0
    /\ call[c].attempt < Attempts
\* Only a resourceVersion conflict of a revision of a read instance is retried.
MayRetry(c) ==
    /\ answer[c].outcome = "ResourceVersionConflict"
    /\ Sent(c).verb # "delete"
    /\ call[c].base # Gone /\ Sent(c).uid # 0 /\ Sent(c).gen # 0
    /\ call[c].attempt < Attempts - 1

\* Mutation: a deletion that started meanwhile is not noticed.
UndisturbedOrDeleting(o, base, intent) ==
    /\ o # Gone /\ Contract!Exact(o, intent)
    /\ Fidelity[o.log[1]] = Fidelity[intent.content]
    /\ o.uid = base.uid /\ o.log = base.log
\* Nothing but the resourceVersion and the status moved since the baseline.
Undisturbed(o, base, intent) ==
    /\ o # Gone /\ Contract!Exact(o, intent) /\ ~o.deleting
    /\ Fidelity[o.log[1]] = Fidelity[intent.content]
    /\ o.uid = base.uid /\ o.log = base.log /\ o.deleting = base.deleting

\* Mutation: the retry keeps the old resourceVersion.
NotRebased(intent, o) == intent
Rebased(intent, o) == [intent EXCEPT !.rv = o.rv]

Retry(c) ==
    /\ pc[c] = "answered" /\ MayRetry(c)
    /\ Undisturbed(object, call[c].base, Sent(c))
    /\ Send(c, [call[c] EXCEPT !.intent = Rebased(@, object),
                               !.attempt = @ + 1])

\* The call returns: it was a dry run, it is over, or it cannot go on.
Return(c) ==
    /\ pc[c] = "answered"
    /\ MayRetry(c) => ~Undisturbed(object, call[c].base, Sent(c))
    /\ EndCall(c)

-----------------------------------------------------------------------------
\* The controller's status commits and the end of a finalized deletion.
CommitStatus ==
    /\ object # Gone /\ version < MaxVersion
    /\ version' = version + 1
    /\ object' = [object EXCEPT !.rv = version + 1]
    /\ UNCHANGED <<births, command, answer, pc, call, read, accepted, calls>>

CompleteDeletion ==
    /\ object # Gone /\ object.deleting
    /\ object' = Gone
    /\ UNCHANGED <<births, version, command, answer, pc, call, read, accepted, calls>>

ClientStep(c) ==
    \/ StartCall(c)
    \/ PreflightApply(c) \/ ReadRevise(c) \/ ReadDelete(c) \/ RejectRequest(c)
    \/ Get(c) \/ Put(c) \/ Reread(c) \/ PutRefused(c) \/ LoseAnswer(c)
    \/ SubmitForGood(c) \/ Retry(c) \/ Return(c)

Next ==
    \/ \E c \in Clients : ClientStep(c)
    \/ CommitStatus \/ CompleteDeletion

Spec == Init /\ [][Next]_vars

-----------------------------------------------------------------------------
(***************************************************************************)
(* What the clients rely on.                                               *)
(***************************************************************************)

\* The command of c is executed in this step.
Executes(c) == pc[c] = "put" /\ pc'[c] # "put" /\ object' # object

\* A write changes the instance with exactly the UID and the generation the
\* user named (LIFE-005, CLI-010), even when the name was given to another
\* instance or a revision was accepted between the read and the write.
WritesHitTheirTarget ==
    [][\A c \in Clients : Executes(c) => Contract!Exact(object, call[c].intent)]_vars

\* A health or scale change is accepted on top of the Scenario it was computed
\* from: no concurrent revision is undone (ADR 0005: no last write wins).
TypedRevisionsCompose ==
    [][\A c \in Clients : Executes(c) /\ call[c].verb = "revise"
            => Latest(object') = call[c].change[Latest(object)]]_vars

\* A revision is never accepted by an instance whose deletion began after the
\* client read it, retries included (preflight.go:402).
DeletionIsNoticed ==
    [][\A c \in Clients : Executes(c) /\ command[c].verb = "submit" /\ object # Gone
            => object.deleting = call[c].base.deleting]_vars

\* An accepted revision stays in the instance, unchanged (LIFE-003).
AcceptedRevisionsStay ==
    \A r \in accepted : object # Gone /\ object.uid = r.uid =>
        r.gen <= Len(object.log) /\ object.log[r.gen] = r.content

\* The same digest is not accepted twice in a row, even when it is submitted
\* again after a lost answer or by two clients at once (LIFE-004).
NoRepeatedRevision ==
    object # Gone => \A i \in 1..(Len(object.log) - 1) : object.log[i] # object.log[i + 1]

\* A receipt names a revision that was accepted, with the submitted content.
ReceiptsAreTrue ==
    \A c \in Clients :
        /\ pc[c] = "answered" /\ Sent(c).verb = "submit"
        /\ answer[c].outcome \in {"accepted", "no-op"}
        => [uid |-> answer[c].uid, gen |-> answer[c].gen,
            content |-> Sent(c).content] \in accepted

\* Status commits alone do not make a revision of the named instance fail,
\* unless there were as many as there are attempts.
SameButStatus(o, base) ==
    o # Gone /\ o.uid = base.uid /\ o.log = base.log /\ o.deleting = base.deleting
StatusDriftIsTolerated ==
    [][\A c \in Clients :
        /\ pc[c] = "answered" /\ pc'[c] = "idle"
        /\ answer[c].outcome = "ResourceVersionConflict"
        /\ call[c].verb \in {"apply", "revise"} /\ call[c].base # Gone
        /\ ~call[c].base.deleting /\ SameButStatus(object, call[c].base)
        => object.rv - call[c].base.rv >= Attempts]_vars

\* The receipt of a deletion names the instance it was asked to delete:
\* DeletionReceipt says it retains "exact concurrency identity"
\* (controlplane.go:204).
DeletionReceiptsAreExact ==
    \A c \in Clients :
        pc[c] = "answered" /\ Sent(c).verb = "delete" /\ answer[c].outcome = "accepted"
        => answer[c].uid = Sent(c).uid /\ answer[c].gen = Sent(c).gen

\* The Kubernetes adapter's reads and writes are the atomic commands of the
\* contract (LIFE-006).
AtomicCommands == Contract!Spec
=============================================================================
