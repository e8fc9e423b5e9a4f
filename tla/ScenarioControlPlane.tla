------------------------ MODULE ScenarioControlPlane ------------------------
(***************************************************************************)
(* What a Scenario Control Plane promises (internal/controlplane): every   *)
(* command on a Scenario Instance takes effect, or is refused, in ONE step *)
(* between its invocation and its answer (LIFE-006).  It is the contract   *)
(* the in-memory adapter (internal/controlplane/memory) meets by holding   *)
(* its mutex; RevisionSubmission shows that the Kubernetes adapter, which  *)
(* reads first and writes later, meets it too.                             *)
(*                                                                         *)
(* There is one instance name and one target.  An accepted command is      *)
(* accepted only if everything it requires holds in that step, and a       *)
(* refusal names something that does not hold in that step; when several   *)
(* do not, the contract does not say which one is named.                   *)
(***************************************************************************)
EXTENDS Naturals, Sequences

CONSTANTS
    Clients,    \* processes that send commands
    Contents,   \* canonical Scenarios; each has a digest of its own
    Fidelity,   \* the Fidelity Mode of each canonical Scenario
    Gone,       \* "there is no instance of this name"
    NoContent,  \* a deletion carries no Scenario
    NoCommand   \* "the client has no command under way"

VARIABLES
    object,     \* the stored instance, or Gone
    births,     \* instances created so far: the last UID
    version,    \* the last resourceVersion
    command,    \* the command each client has under way
    answer      \* the answer to the last command of each client

contractVars == <<object, births, version, command, answer>>

Instance == [uid : Nat \ {0}, rv : Nat \ {0}, deleting : BOOLEAN, log : Seq(Contents)]

\* Assumed of the constants by the modules that instantiate the contract.
ContractAssumption ==
    /\ Gone \notin Instance
    /\ NoContent \notin Contents
    /\ DOMAIN Fidelity = Contents

\* "deleted" is a deletion that was accepted and not answered yet.
Verbs == {"dry-run", "submit", "delete", "deleted"}

\* Generation 0, UID 0 and resourceVersion 0 stand for "absent".
Command == [verb : Verbs, content : Contents \union {NoContent}, uid : Nat,
            gen : Nat, rv : Nat]

Errors == {"NotFound", "UIDConflict", "GenerationConflict",
           "ResourceVersionConflict", "FidelityConflict", "Unavailable"}
Outcomes == {"none", "accepted", "proposed", "no-op"} \union Errors
Answer == [outcome : Outcomes, uid : Nat, gen : Nat]
Refusal(error) == [outcome |-> error, uid |-> 0, gen |-> 0]
NoAnswer == Refusal("none")

\* A missing instance is at generation 0 and has neither UID nor version.
UidOf(o) == IF o = Gone THEN 0 ELSE o.uid
GenerationOf(o) == IF o = Gone THEN 0 ELSE Len(o.log)
VersionOf(o) == IF o = Gone THEN 0 ELSE o.rv
Latest(o) == o.log[Len(o.log)]

SameDigest(o, cmd) == o # Gone /\ Latest(o) = cmd.content
FidelityDiffers(o, cmd) == o # Gone /\ Fidelity[o.log[1]] # Fidelity[cmd.content]
Exact(o, cmd) == UidOf(o) = cmd.uid /\ GenerationOf(o) = cmd.gen

\* What a command requires to be accepted.
Acceptable(o, cmd) ==
    /\ Exact(o, cmd)
    /\ IF cmd.verb = "delete"
       THEN o # Gone /\ ~o.deleting
       ELSE /\ VersionOf(o) = cmd.rv
            /\ ~SameDigest(o, cmd) /\ ~FidelityDiffers(o, cmd)
\* What a command finds already done.
Redundant(o, cmd) ==
    IF cmd.verb = "delete" THEN Exact(o, cmd) /\ o # Gone /\ o.deleting
                           ELSE SameDigest(o, cmd) /\ ~FidelityDiffers(o, cmd)

\* An error an answer may name.  A deletion carries no resourceVersion: it may
\* always be told that the instance changed under it.
Truthful(error, o, cmd) ==
    CASE error = "NotFound" -> o = Gone
      [] error = "UIDConflict" -> UidOf(o) # cmd.uid
      [] error = "GenerationConflict" -> GenerationOf(o) # cmd.gen
      [] error = "ResourceVersionConflict" ->
            cmd.verb = "delete" \/ VersionOf(o) # cmd.rv
      [] error = "FidelityConflict" ->
            cmd.verb # "delete" /\ FidelityDiffers(o, cmd)
      [] error = "Unavailable" -> TRUE

\* The instance after an accepted command; a dry run leaves it alone.
Created(uid, rv, content) ==
    [uid |-> uid, rv |-> rv, deleting |-> FALSE, log |-> <<content>>]
After(o, cmd, uid, rv) ==
    CASE cmd.verb = "dry-run" -> o
      [] cmd.verb = "delete" -> [o EXCEPT !.deleting = TRUE, !.rv = rv]
      [] cmd.verb = "submit" ->
            IF o = Gone THEN Created(uid, rv, cmd.content)
            ELSE [o EXCEPT !.log = Append(@, cmd.content), !.rv = rv]

Receipt(outcome, o) ==
    [outcome |-> outcome, uid |-> UidOf(o), gen |-> GenerationOf(o)]

-----------------------------------------------------------------------------
Init ==
    /\ object = Gone /\ births = 0 /\ version = 0
    /\ command = [c \in Clients |-> NoCommand]
    /\ answer = [c \in Clients |-> NoAnswer]

Invoke(c) ==
    /\ command[c] = NoCommand
    /\ command'[c] \in Command /\ command'[c].verb # "deleted"
    /\ command' = [command EXCEPT ![c] = command'[c]]
    /\ answer' = [answer EXCEPT ![c] = NoAnswer]
    /\ UNCHANGED <<object, births, version>>

Undecided(c) == command[c] # NoCommand /\ command[c].verb # "deleted"

\* An accepted command is applied in one step with the check of all it requires.
Apply(c) ==
    LET cmd == command[c]
    IN  /\ Undecided(c) /\ Acceptable(object, cmd)
        /\ births' = IF cmd.verb = "submit" /\ object = Gone THEN births + 1 ELSE births
        /\ version' = IF cmd.verb = "dry-run" THEN version ELSE version + 1
        /\ object' = After(object, cmd, births + 1, version + 1)

Accept(c) ==
    /\ Apply(c)
    /\ answer' = [answer EXCEPT ![c] =
            IF command[c].verb = "dry-run" THEN Refusal("proposed")
                                           ELSE Receipt("accepted", object')]
    /\ command' = [command EXCEPT ![c] = NoCommand]

Repeat(c) ==
    /\ Undecided(c) /\ Redundant(object, command[c])
    /\ answer' = [answer EXCEPT ![c] = Receipt("no-op", object)]
    /\ command' = [command EXCEPT ![c] = NoCommand]
    /\ UNCHANGED <<object, births, version>>

Refuse(c) ==
    /\ Undecided(c)
    /\ \E error \in Errors :
         /\ Truthful(error, object, command[c])
         /\ answer' = [answer EXCEPT ![c] = Refusal(error)]
    /\ command' = [command EXCEPT ![c] = NoCommand]
    /\ UNCHANGED <<object, births, version>>

\* The answer to an accepted command is lost.
LoseAnswer(c) ==
    /\ Apply(c)
    /\ answer' = [answer EXCEPT ![c] = Refusal("Unavailable")]
    /\ command' = [command EXCEPT ![c] = NoCommand]

\* An accepted deletion may be answered later: with the instance it deleted, or
\* with whatever then bears the name.
AcceptDeletion(c) ==
    /\ Apply(c) /\ command[c].verb = "delete"
    /\ command' = [command EXCEPT ![c].verb = "deleted"]
    /\ UNCHANGED answer
AnswerDeletion(c) ==
    /\ command[c] # NoCommand /\ command[c].verb = "deleted"
    /\ \E reply \in {Refusal("Unavailable"), Receipt("accepted", object),
                    [outcome |-> "accepted", uid |-> command[c].uid,
                     gen |-> command[c].gen]} :
            answer' = [answer EXCEPT ![c] = reply]
    /\ command' = [command EXCEPT ![c] = NoCommand]
    /\ UNCHANGED <<object, births, version>>

\* The controller commits a status, or removes the finalizer.
CommitStatus ==
    /\ object # Gone
    /\ version' = version + 1
    /\ object' = [object EXCEPT !.rv = version + 1]
    /\ UNCHANGED <<births, command, answer>>

CompleteDeletion ==
    /\ object # Gone /\ object.deleting
    /\ object' = Gone
    /\ UNCHANGED <<births, version, command, answer>>

Next ==
    \/ \E c \in Clients :
         \/ Invoke(c) \/ Accept(c) \/ Repeat(c) \/ Refuse(c) \/ LoseAnswer(c)
         \/ AcceptDeletion(c) \/ AnswerDeletion(c)
    \/ CommitStatus \/ CompleteDeletion

Spec == Init /\ [][Next]_contractVars
=============================================================================
