--------------------- MODULE RevisionSubmission_proofs ---------------------
(***************************************************************************)
(* Theorems about RevisionSubmission, for any clients, Scenarios, typed    *)
(* changes and numbers of attempts.                                        *)
(***************************************************************************)
EXTENDS RevisionSubmission, TLAPS

-----------------------------------------------------------------------------
(***************************************************************************)
(* The inductive invariant.                                                *)
(***************************************************************************)

Prefix(s, t) == Len(s) <= Len(t) /\ \A i \in 1..Len(s) : t[i] = s[i]

\* What a client may conclude later from a copy of the instance.
Remembered(o) ==
    o # Gone =>
        /\ o.uid <= births /\ o.rv <= version /\ Len(o.log) >= 1
        /\ object # Gone /\ object.uid = o.uid => Prefix(o.log, object.log)
        /\ object # Gone /\ object.rv = o.rv => object = o

\* The revisions that were accepted are in the instance, if it is still there.
Kept(r) ==
    /\ r.uid <= births
    /\ object # Gone /\ object.uid = r.uid =>
        r.gen <= Len(object.log) /\ object.log[r.gen] = r.content

NeverTwice(log) == \A i \in 1..(Len(log) - 1) : log[i] # log[i + 1]

\* The command under way is the one the call leads to.
CommandOK(c) ==
    /\ pc[c] \in {"idle", "read", "answered"} => command[c] = NoCommand
    /\ pc[c] \in {"get", "put"} => command[c] = call[c].intent
    /\ pc[c] = "reread" =>
        /\ call[c].intent.verb = "delete"
        /\ command[c] = [call[c].intent EXCEPT !.verb = "deleted"]

\* The baseline of a call: while the instance is at the resourceVersion the call
\* is bound to, no deletion began since the instance was read.
Baseline(k) ==
    /\ Remembered(k.base)
    /\ k.intent.rv <= version
    /\ object # Gone /\ object.rv = k.intent.rv /\ k.intent.verb # "delete"
            => object.deleting = k.base.deleting

\* A call that began, and what it sends once it has read the instance.
Begun(k) ==
    /\ k \in Call
    /\ k.intent.verb # "deleted"
    /\ k.verb = "revise" => k.change \in Changes
    /\ k.verb = "apply" => k.intent.content \in Contents
    /\ (k.verb = "delete") = (k.intent.verb = "delete")
    /\ Baseline(k)
Composed(k) ==
    k.verb = "revise" =>
        /\ k.base # Gone
        /\ Contract!Exact(k.base, k.intent)
        /\ k.intent.content = k.change[Latest(k.base)]

CallOK(c) ==
    /\ pc[c] # "idle" => Begun(call[c])
    /\ pc[c] \notin {"idle", "read"} => Composed(call[c])

\* Between a read and its write the checks hold of the copy that was read.
ReadOK(c) ==
    /\ Remembered(read[c])
    /\ pc[c] = "put" => Check(read[c], command[c]) = "none"
    /\ pc[c] = "reread" => read[c] # Gone /\ Contract!Exact(read[c], command[c])

IInv ==
    /\ TypeOK
    /\ object # Gone => object.uid <= births /\ object.rv <= version
                        /\ Len(object.log) >= 1 /\ NeverTwice(object.log)
    /\ \A r \in accepted : Kept(r)
    /\ \A c \in Clients : CommandOK(c) /\ CallOK(c) /\ ReadOK(c)

-----------------------------------------------------------------------------
(***************************************************************************)
(* How the instance moves, whoever moves it.                               *)
(***************************************************************************)
ObjectMoves ==
    \/ UNCHANGED <<object, births, version>>
    \/ /\ object' = Gone /\ UNCHANGED <<births, version>>
    \/ /\ object' \in Contract!Instance
       /\ object'.rv = version + 1 /\ version' = version + 1
       /\ \/ /\ object # Gone /\ object'.uid = object.uid /\ births' = births
             /\ Prefix(object.log, object'.log)
          \/ /\ object = Gone /\ object'.uid = births + 1 /\ births' = births + 1

\* A copy stays what it was of the instance: resourceVersions are not reused,
\* UIDs are not reused and revisions are only appended.
LEMMA RememberedStays ==
    ASSUME NEW o \in Contract!Instance \union {Gone},
           object \in Contract!Instance \union {Gone},
           births \in Nat, version \in Nat,
           object # Gone => object.uid <= births /\ object.rv <= version,
           Remembered(o), ObjectMoves
    PROVE  /\ o # Gone =>
                /\ o.uid <= births' /\ o.rv <= version' /\ Len(o.log) >= 1
                /\ object' # Gone /\ object'.uid = o.uid => Prefix(o.log, object'.log)
                /\ object' # Gone /\ object'.rv = o.rv => object' = o
<1> SUFFICES ASSUME o # Gone
             PROVE  /\ o.uid <= births' /\ o.rv <= version' /\ Len(o.log) >= 1
                    /\ object' # Gone /\ object'.uid = o.uid =>
                            Prefix(o.log, object'.log)
                    /\ object' # Gone /\ object'.rv = o.rv => object' = o
    OBVIOUS
<1>1. /\ o.uid \in Nat \ {0} /\ o.rv \in Nat \ {0} /\ o.log \in Seq(Contents)
      /\ o.uid <= births /\ o.rv <= version /\ Len(o.log) >= 1
      /\ object # Gone /\ object.uid = o.uid => Prefix(o.log, object.log)
      /\ object # Gone /\ object.rv = o.rv => object = o
    BY DEF Remembered, Contract!Instance
<1>2. CASE UNCHANGED <<object, births, version>>
    BY <1>1, <1>2
<1>3. CASE object' = Gone /\ UNCHANGED <<births, version>>
    BY <1>1, <1>3
<1>4. CASE /\ object' \in Contract!Instance
           /\ object'.rv = version + 1 /\ version' = version + 1
           /\ object # Gone /\ object'.uid = object.uid /\ births' = births
           /\ Prefix(object.log, object'.log)
    <2>1. object'.rv # o.rv
        BY <1>1, <1>4
    <2>2. ASSUME object'.uid = o.uid PROVE Prefix(o.log, object'.log)
        BY <1>1, <1>4, <2>2 DEF Prefix, Contract!Instance
    <2> QED BY <1>1, <1>4, <2>1, <2>2
<1>5. CASE /\ object' \in Contract!Instance
           /\ object'.rv = version + 1 /\ version' = version + 1
           /\ object = Gone /\ object'.uid = births + 1 /\ births' = births + 1
    BY <1>1, <1>5
<1> QED BY <1>2, <1>3, <1>4, <1>5 DEF ObjectMoves

LEMMA BaselineStays ==
    ASSUME NEW k \in Call,
           object \in Contract!Instance \union {Gone},
           births \in Nat, version \in Nat,
           object # Gone => object.uid <= births /\ object.rv <= version,
           Baseline(k), ObjectMoves
    PROVE  /\ k.base # Gone =>
                /\ k.base.uid <= births' /\ k.base.rv <= version' /\ Len(k.base.log) >= 1
                /\ object' # Gone /\ object'.uid = k.base.uid =>
                        Prefix(k.base.log, object'.log)
                /\ object' # Gone /\ object'.rv = k.base.rv => object' = k.base
           /\ k.intent.rv <= version'
           /\ object' # Gone /\ object'.rv = k.intent.rv /\ k.intent.verb # "delete"
                => object'.deleting = k.base.deleting
<1>1. k.base \in Contract!Instance \union {Gone} /\ Remembered(k.base)
    BY DEF Call, Baseline
<1>2. k.base # Gone =>
        /\ k.base.uid <= births' /\ k.base.rv <= version' /\ Len(k.base.log) >= 1
        /\ object' # Gone /\ object'.uid = k.base.uid => Prefix(k.base.log, object'.log)
        /\ object' # Gone /\ object'.rv = k.base.rv => object' = k.base
    BY <1>1, RememberedStays
<1>3. k.intent.rv \in Nat /\ k.intent.rv <= version
    BY DEF Call, Contract!Command, Baseline
<1>4. k.intent.rv <= version'
    BY <1>3 DEF ObjectMoves
<1>5. ASSUME object' # Gone, object'.rv = k.intent.rv, k.intent.verb # "delete"
      PROVE  object'.deleting = k.base.deleting
    BY <1>3, <1>5 DEF ObjectMoves, Baseline
<1> QED BY <1>2, <1>4, <1>5

\* The accepted revisions survive every move.
LEMMA KeptStays ==
    ASSUME NEW r \in Revision,
           object \in Contract!Instance \union {Gone},
           births \in Nat, version \in Nat,
           Kept(r), ObjectMoves
    PROVE  Kept(r)'
<1>1. r.uid \in Nat \ {0} /\ r.gen \in Nat \ {0}
    BY DEF Revision
<1>2. CASE UNCHANGED <<object, births, version>>
    BY <1>2 DEF Kept
<1>3. CASE object' = Gone /\ UNCHANGED <<births, version>>
    BY <1>3 DEF Kept
<1>4. CASE /\ object' \in Contract!Instance
           /\ object'.rv = version + 1 /\ version' = version + 1
           /\ object # Gone /\ object'.uid = object.uid /\ births' = births
           /\ Prefix(object.log, object'.log)
    BY <1>1, <1>4 DEF Kept, Prefix, Contract!Instance
<1>5. CASE /\ object' \in Contract!Instance
           /\ object'.rv = version + 1 /\ version' = version + 1
           /\ object = Gone /\ object'.uid = births + 1 /\ births' = births + 1
    BY <1>1, <1>5 DEF Kept
<1> QED BY <1>2, <1>3, <1>4, <1>5 DEF ObjectMoves

-----------------------------------------------------------------------------
(***************************************************************************)
(* What a write finds.                                                     *)
(***************************************************************************)

\* The command that is executed, and its type.
LEMMA CommandTyped ==
    ASSUME IInv, NEW c \in Clients, pc[c] \in {"get", "put"}
    PROVE  /\ call[c] \in Call /\ command[c] = call[c].intent
           /\ command[c] \in Contract!Command
           /\ command[c].verb \in {"dry-run", "submit", "delete"}
           /\ command[c].verb # "delete" => command[c].content \in Contents
<1>1. call[c] \in Call /\ CallOK(c) /\ command[c] = call[c].intent
    BY DEF IInv, CallOK, CommandOK, Begun
<1>2. /\ call[c].intent \in Contract!Command /\ call[c].intent.verb # "deleted"
      /\ call[c].verb \in {"apply", "revise", "delete"}
    BY <1>1 DEF Call, CallOK, Begun
<1>3. CASE call[c].verb = "revise"
    <2>1. /\ call[c].change \in Changes /\ call[c].base # Gone
          /\ call[c].base \in Contract!Instance
          /\ Len(call[c].base.log) >= 1
          /\ call[c].intent.content = call[c].change[Latest(call[c].base)]
        BY <1>1, <1>3 DEF CallOK, Begun, Composed, Baseline, Remembered, Call
    <2>2. Latest(call[c].base) \in Contents
        BY <2>1 DEF Latest, Contract!Latest, Contract!Instance
    <2>3. call[c].intent.content \in Contents
        BY <2>1, <2>2, SubmissionAssumption
    <2> QED BY <1>1, <1>2, <2>3 DEF Contract!Command, Contract!Verbs
<1>4. CASE call[c].verb # "revise"
    BY <1>1, <1>2, <1>4 DEF CallOK, Begun, Contract!Command, Contract!Verbs
<1> QED BY <1>3, <1>4

\* When the precondition of the API request holds, the instance is the one that
\* was read, and the checks made on reading hold of it.
LEMMA PutIsCurrent ==
    ASSUME IInv, NEW c \in Clients, pc[c] = "put", Unchanged(c)
    PROVE  read[c] = object /\ Contract!Acceptable(object, command[c])
<1>1. /\ object \in Contract!Instance \union {Gone}
      /\ read[c] \in Contract!Instance \union {Gone}
      /\ Remembered(read[c]) /\ Check(read[c], command[c]) = "none"
    BY DEF IInv, TypeOK, ReadOK
<1>2. read[c] = object
    BY <1>1 DEF Unchanged, Contract!VersionOf, Remembered, Contract!Instance
<1>3. /\ command[c] \in Contract!Command
      /\ command[c].verb \in {"dry-run", "submit", "delete"}
    BY CommandTyped
<1>4. CASE command[c].verb = "delete"
    BY <1>1, <1>2, <1>3, <1>4
       DEF Check, DeleteCheck, Contract!Acceptable, Contract!Exact,
           Contract!UidOf, Contract!GenerationOf
<1>5. CASE command[c].verb # "delete" /\ object = Gone
    BY <1>1, <1>2, <1>3, <1>5
       DEF Check, CreateCheck, Contract!Acceptable, Contract!Exact,
           Contract!UidOf, Contract!GenerationOf, Contract!VersionOf,
           Contract!SameDigest, Contract!FidelityDiffers
<1>6. CASE command[c].verb # "delete" /\ object # Gone
    BY <1>1, <1>2, <1>3, <1>6
       DEF Check, UpdateCheck, Contract!Acceptable, Contract!Exact,
           Contract!UidOf, Contract!GenerationOf, Contract!VersionOf
<1> QED BY <1>2, <1>4, <1>5, <1>6

\* What a write leaves.
ObjectOK ==
    object # Gone => /\ object.uid <= births /\ object.rv <= version
                     /\ Len(object.log) >= 1 /\ NeverTwice(object.log)
Stored ==
    /\ object \in Contract!Instance \union {Gone}
    /\ births \in Nat /\ version \in Nat /\ accepted \subseteq Revision
    /\ ObjectOK
    /\ \A r \in accepted : Kept(r)

\* Changing fields of an instance.
LEMMA InstanceUpdate ==
    ASSUME NEW o \in Contract!Instance, NEW v \in Nat \ {0}, NEW d \in BOOLEAN
    PROVE  /\ [o EXCEPT !.deleting = d, !.rv = v] \in Contract!Instance
           /\ [o EXCEPT !.rv = v] \in Contract!Instance
    BY DEF Contract!Instance

LEMMA InstanceAppend ==
    ASSUME NEW o \in Contract!Instance, NEW v \in Nat \ {0}, NEW l \in Seq(Contents)
    PROVE  [o EXCEPT !.log = l, !.rv = v] \in Contract!Instance
    BY DEF Contract!Instance

LEMMA InstanceFields ==
    ASSUME NEW o \in Contract!Instance, NEW v, NEW d, NEW l
    PROVE  /\ [o EXCEPT !.deleting = d, !.rv = v].rv = v
           /\ [o EXCEPT !.deleting = d, !.rv = v].uid = o.uid
           /\ [o EXCEPT !.deleting = d, !.rv = v].log = o.log
           /\ [o EXCEPT !.rv = v].rv = v
           /\ [o EXCEPT !.rv = v].uid = o.uid
           /\ [o EXCEPT !.rv = v].log = o.log
           /\ [o EXCEPT !.log = l, !.rv = v].rv = v
           /\ [o EXCEPT !.log = l, !.rv = v].uid = o.uid
           /\ [o EXCEPT !.log = l, !.rv = v].log = l
    BY DEF Contract!Instance

LEMMA WriteMoves ==
    ASSUME IInv, NEW c \in Clients, pc[c] = "put", Unchanged(c), Write(c)
    PROVE  ObjectMoves /\ Stored' /\ Contract!Apply(c)
<1> DEFINE cmd == command[c]
<1>1. /\ read[c] = object /\ Contract!Acceptable(object, cmd)
      /\ cmd \in Contract!Command /\ cmd.verb \in {"dry-run", "submit", "delete"}
      /\ cmd.verb # "delete" => cmd.content \in Contents
    BY PutIsCurrent, CommandTyped
<1>2. /\ object \in Contract!Instance \union {Gone}
      /\ births \in Nat /\ version \in Nat /\ accepted \subseteq Revision
      /\ ObjectOK /\ \A r \in accepted : Kept(r)
    BY DEF IInv, TypeOK, ObjectOK
<1>3. cmd # NoCommand
    BY <1>1, SubmissionAssumption
<1>4. CASE cmd.verb = "dry-run"
    <2>1. UNCHANGED <<object, births, version, accepted>>
        BY <1>4 DEF Write
    <2>2. Stored'
        BY <1>2, <2>1 DEF Stored, ObjectOK, Kept
    <2>3. Contract!Apply(c)
        BY <1>1, <1>3, <1>4, <2>1 DEF Contract!Apply, Contract!Undecided, Contract!After
    <2> QED BY <2>1, <2>2, <2>3 DEF ObjectMoves
<1>5. CASE cmd.verb = "delete"
    <2>1. /\ object # Gone /\ object' = [object EXCEPT !.deleting = TRUE, !.rv = version + 1]
          /\ version' = version + 1 /\ births' = births /\ accepted' = accepted
        BY <1>1, <1>5 DEF Write, Written, Contract!Acceptable
    <2>2. /\ object' \in Contract!Instance /\ object'.rv = version + 1
          /\ object'.uid = object.uid /\ object'.log = object.log
        <3>1. object \in Contract!Instance /\ version + 1 \in Nat \ {0}
            BY <1>2, <2>1
        <3>2. [object EXCEPT !.deleting = TRUE, !.rv = version + 1] \in Contract!Instance
            BY <3>1, InstanceUpdate
        <3>3. /\ object'.rv = version + 1
              /\ object'.uid = object.uid /\ object'.log = object.log
            BY <2>1, <3>1, InstanceFields
        <3> QED BY <2>1, <3>2, <3>3
    <2>3. ObjectMoves
        BY <1>2, <2>1, <2>2 DEF ObjectMoves, Prefix, Contract!Instance
    <2>4. ObjectOK'
        BY <1>2, <2>1, <2>2 DEF ObjectOK, Contract!Instance
    <2>5. \A r \in accepted' : Kept(r)'
        BY <1>2, <2>1, <2>3, KeptStays
    <2>6. Contract!Apply(c)
        BY <1>1, <1>3, <1>5, <2>1 DEF Contract!Apply, Contract!Undecided, Contract!After
    <2> QED BY <1>2, <2>1, <2>2, <2>3, <2>4, <2>5, <2>6 DEF Stored
<1>6. CASE cmd.verb = "submit" /\ object = Gone
    <2>1. /\ object' = [uid |-> births + 1, rv |-> version + 1, deleting |-> FALSE,
                        log |-> <<cmd.content>>]
          /\ version' = version + 1 /\ births' = births + 1
          /\ accepted' = accepted \union {[uid |-> object'.uid, gen |-> Len(object'.log),
                                           content |-> cmd.content]}
        BY <1>1, <1>6 DEF Write, Written
    <2>2. /\ object' \in Contract!Instance /\ object'.rv = version + 1
          /\ object'.uid = births + 1 /\ object'.log = <<cmd.content>>
          /\ Len(object'.log) = 1
        BY <1>1, <1>2, <1>6, <2>1 DEF Contract!Instance
    <2>3. ObjectMoves
        BY <1>6, <2>1, <2>2 DEF ObjectMoves
    <2>4. ObjectOK'
        BY <1>2, <2>1, <2>2 DEF ObjectOK, NeverTwice
    <2>5. ASSUME NEW r \in accepted' PROVE r \in Revision /\ Kept(r)'
        <3>1. CASE r \in accepted
            BY <1>2, <2>3, <3>1, KeptStays
        <3>2. CASE r = [uid |-> births + 1, gen |-> 1, content |-> cmd.content]
            BY <1>1, <1>2, <1>6, <2>1, <2>2, <3>2 DEF Kept, Revision
        <3> QED BY <2>1, <2>2, <2>5, <3>1, <3>2
    <2>6. Contract!Apply(c)
        BY <1>1, <1>3, <1>6, <2>1
           DEF Contract!Apply, Contract!Undecided, Contract!After, Contract!Created
    <2> QED BY <1>2, <2>1, <2>2, <2>3, <2>4, <2>5, <2>6 DEF Stored
<1>7. CASE cmd.verb = "submit" /\ object # Gone
    <2>1. /\ object' = [object EXCEPT !.log = Append(@, cmd.content), !.rv = version + 1]
          /\ version' = version + 1 /\ births' = births
          /\ accepted' = accepted \union {[uid |-> object'.uid, gen |-> Len(object'.log),
                                           content |-> cmd.content]}
        BY <1>1, <1>7 DEF Write, Written
    <2>2. /\ object' \in Contract!Instance /\ object'.rv = version + 1
          /\ object'.uid = object.uid /\ object'.log = Append(object.log, cmd.content)
        <3> DEFINE longer == Append(object.log, cmd.content)
        <3>1. object \in Contract!Instance /\ version + 1 \in Nat \ {0}
            BY <1>2, <1>7
        <3>2. longer \in Seq(Contents)
            BY <1>1, <1>7, <3>1 DEF Contract!Instance
        <3>3. object' = [object EXCEPT !.log = longer, !.rv = version + 1]
            BY <2>1
        <3> HIDE DEF longer
        <3>4. object' \in Contract!Instance
            BY <3>1, <3>2, <3>3, InstanceAppend
        <3>5. /\ object'.rv = version + 1
              /\ object'.uid = object.uid /\ object'.log = longer
            BY <3>1, <3>3, InstanceFields
        <3> QED BY <3>4, <3>5 DEF longer
    <2>3. /\ object.log \in Seq(Contents) /\ object.uid \in Nat \ {0}
          /\ Len(object'.log) = Len(object.log) + 1
          /\ \A i \in 1..Len(object.log) : object'.log[i] = object.log[i]
          /\ object'.log[Len(object.log) + 1] = cmd.content
        BY <1>1, <1>2, <1>7, <2>2 DEF Contract!Instance
    <2>4. ObjectMoves
        BY <1>7, <2>1, <2>2, <2>3 DEF ObjectMoves, Prefix
    <2>5. object.log[Len(object.log)] # cmd.content
        BY <1>1, <1>7 DEF Contract!Acceptable, Contract!SameDigest, Contract!Latest
    <2>6. ObjectOK'
        BY <1>2, <1>7, <2>1, <2>2, <2>3, <2>5 DEF ObjectOK, NeverTwice
    <2>7. ASSUME NEW r \in accepted' PROVE r \in Revision /\ Kept(r)'
        <3>1. CASE r \in accepted
            BY <1>2, <2>4, <3>1, KeptStays
        <3>2. CASE r = [uid |-> object.uid, gen |-> Len(object.log) + 1,
                        content |-> cmd.content]
            BY <1>1, <1>2, <1>7, <2>1, <2>2, <2>3, <3>2 DEF Kept, Revision, ObjectOK
        <3> QED BY <2>1, <2>2, <2>3, <2>7, <3>1, <3>2
    <2>8. Contract!Apply(c)
        BY <1>1, <1>3, <1>7, <2>1 DEF Contract!Apply, Contract!Undecided, Contract!After
    <2> QED BY <1>2, <2>1, <2>2, <2>4, <2>6, <2>7, <2>8 DEF Stored
<1> QED BY <1>1, <1>4, <1>5, <1>6, <1>7

-----------------------------------------------------------------------------
(***************************************************************************)
(* Preservation: what every step has in common.                            *)
(***************************************************************************)

TypedClients ==
    /\ command \in [Clients -> Contract!Command \union {NoCommand}]
    /\ answer \in [Clients -> Contract!Answer]
    /\ pc \in [Clients -> {"idle", "read", "get", "put", "reread", "answered"}]
    /\ call \in [Clients -> Call \union {NoCall}]
    /\ read \in [Clients -> Contract!Instance \union {Gone}]
    /\ calls \in 0..MaxCalls

ClientOK(c) == CommandOK(c) /\ CallOK(c) /\ ReadOK(c)

LEMMA InvariantParts == IInv <=> Stored /\ TypedClients /\ \A c \in Clients : ClientOK(c)
    BY DEF IInv, TypeOK, Stored, ObjectOK, TypedClients, ClientOK

\* A client that does not move stays as it was, whatever happens to the instance.
LEMMA OthersKeep ==
    ASSUME IInv, ObjectMoves, NEW d \in Clients,
           pc'[d] = pc[d], call'[d] = call[d], command'[d] = command[d],
           read'[d] = read[d]
    PROVE  ClientOK(d)'
<1>1. /\ CommandOK(d) /\ CallOK(d) /\ ReadOK(d) /\ TypedClients /\ Stored
    BY InvariantParts DEF ClientOK
<1>2. CommandOK(d)'
    BY <1>1 DEF CommandOK
<1>3. Remembered(read[d])'
    BY <1>1, RememberedStays DEF ReadOK, TypedClients, Stored, ObjectOK, Remembered
<1>4. ReadOK(d)'
    BY <1>1, <1>3 DEF ReadOK
<1>5. ASSUME pc[d] # "idle" PROVE Baseline(call[d])'
    <2>1. call[d] \in Call /\ Baseline(call[d])
        BY <1>1, <1>5 DEF CallOK, Begun
    <2> QED BY <1>1, <2>1, BaselineStays DEF Stored, ObjectOK, Remembered, Baseline
<1>6. CallOK(d)'
    BY <1>1, <1>5 DEF CallOK, Begun, Composed
<1> QED BY <1>2, <1>4, <1>6 DEF ClientOK

\* One client moves.
LEMMA OneMoves ==
    ASSUME IInv, ObjectMoves, Stored', TypedClients', NEW c \in Clients, ClientOK(c)',
           \A d \in Clients \ {c} :
                /\ pc'[d] = pc[d] /\ call'[d] = call[d]
                /\ command'[d] = command[d] /\ read'[d] = read[d]
    PROVE  IInv'
<1>1. ASSUME NEW d \in Clients PROVE ClientOK(d)'
    <2>1. CASE d = c
        BY <2>1
    <2>2. CASE d # c
        BY <2>2, OthersKeep
    <2> QED BY <2>1, <2>2
<1> QED BY <1>1 DEF IInv, TypeOK, Stored, ObjectOK, TypedClients, ClientOK

\* The instance is left alone.
LEMMA NothingStored ==
    ASSUME IInv, UNCHANGED <<object, births, version, accepted>>
    PROVE  ObjectMoves /\ Stored'
<1>1. Stored
    BY InvariantParts
<1> QED BY <1>1 DEF ObjectMoves, Stored, ObjectOK, Kept

\* The instance as it is now is remembered from now on.
LEMMA CurrentRemembered == ASSUME IInv PROVE Remembered(object)
    BY DEF IInv, TypeOK, Remembered, Prefix, Contract!Instance

LEMMA InitOK == ASSUME Init PROVE IInv
<1>1. TypeOK
    BY SubmissionAssumption
       DEF Init, Contract!Init, TypeOK, Contract!Answer, Contract!NoAnswer,
           Contract!Refusal, Contract!Outcomes
<1>2. \A c \in Clients : CommandOK(c) /\ CallOK(c) /\ ReadOK(c)
    BY DEF Init, Contract!Init, CommandOK, CallOK, ReadOK, Remembered
<1> QED BY <1>1, <1>2 DEF Init, Contract!Init, IInv

\* A command ends with an answer.
LEMMA AnswerKeeps ==
    ASSUME IInv, ObjectMoves, Stored', NEW c \in Clients, NEW reply \in Contract!Answer,
           pc[c] \in {"get", "put", "reread"}, AnswerCommand(c, reply)
    PROVE  IInv'
<1>1. TypedClients /\ ClientOK(c)
    BY InvariantParts
<1>2. /\ answer' = [answer EXCEPT ![c] = reply]
      /\ command' = [command EXCEPT ![c] = NoCommand]
      /\ pc' = [pc EXCEPT ![c] = "answered"]
      /\ read' = [read EXCEPT ![c] = Gone]
      /\ call' = call /\ calls' = calls
    BY DEF AnswerCommand
<1>3. TypedClients'
    BY <1>1, <1>2 DEF TypedClients
<1>4. ClientOK(c)'
    <2>1. pc'[c] = "answered" /\ command'[c] = NoCommand /\ read'[c] = Gone
        BY <1>1, <1>2 DEF TypedClients
    <2>2. Begun(call[c]) /\ Composed(call[c])
        BY <1>1 DEF ClientOK, CallOK
    <2>3. Baseline(call[c])'
        BY <1>2, <2>2, BaselineStays, InvariantParts
           DEF Begun, Stored, ObjectOK, Remembered, Baseline
    <2>4. CallOK(c)'
        BY <1>2, <2>1, <2>2, <2>3 DEF CallOK, Begun, Composed
    <2> QED BY <2>1, <2>4 DEF ClientOK, CommandOK, ReadOK, Remembered
<1>5. \A d \in Clients \ {c} :
            /\ pc'[d] = pc[d] /\ call'[d] = call[d]
            /\ command'[d] = command[d] /\ read'[d] = read[d]
    BY <1>1, <1>2 DEF TypedClients
<1> QED BY <1>3, <1>4, <1>5, OneMoves

\* A command is sent.
LEMMA SendKeeps ==
    ASSUME IInv, NEW c \in Clients, pc[c] \in {"read", "answered"},
           NEW next, Begun(next), Composed(next), Send(c, next)
    PROVE  IInv'
<1>1. TypedClients /\ ClientOK(c)
    BY InvariantParts
<1>2. next \in Call /\ next.intent \in Contract!Command
    BY DEF Begun, Call
<1>3. TypedClients'
    BY <1>1, <1>2
       DEF TypedClients, Send, Contract!NoAnswer, Contract!Refusal, Contract!Answer,
           Contract!Outcomes
<1>4. ObjectMoves /\ Stored'
    BY NothingStored DEF Send
<1>5. ClientOK(c)'
    <2>1. /\ pc'[c] = "get" /\ command'[c] = next.intent /\ call'[c] = next
          /\ read'[c] = read[c]
        BY <1>1 DEF TypedClients, Send
    <2>2. Baseline(next)' /\ Remembered(read[c])'
        BY <1>1, <2>1 DEF Begun, ClientOK, ReadOK, Send, Remembered, Baseline
    <2> QED BY <2>1, <2>2 DEF ClientOK, CommandOK, CallOK, Begun, Composed, ReadOK
<1>6. \A d \in Clients \ {c} :
            /\ pc'[d] = pc[d] /\ call'[d] = call[d]
            /\ command'[d] = command[d] /\ read'[d] = read[d]
    BY <1>1 DEF TypedClients, Send
<1> QED BY <1>3, <1>4, <1>5, <1>6, OneMoves

\* A call returns.
LEMMA EndKeeps ==
    ASSUME IInv, NEW c \in Clients, pc[c] \in {"read", "answered"}, EndCall(c)
    PROVE  IInv'
<1>1. TypedClients /\ ClientOK(c)
    BY InvariantParts
<1>2. /\ pc' = [pc EXCEPT ![c] = "idle"] /\ call' = [call EXCEPT ![c] = NoCall]
      /\ UNCHANGED <<object, births, version, command, answer, read, accepted, calls>>
    BY DEF EndCall, contractVars
<1>3. TypedClients'
    BY <1>1, <1>2 DEF TypedClients
<1>4. ObjectMoves /\ Stored'
    BY <1>2, NothingStored
<1>5. pc'[c] = "idle" /\ command'[c] = NoCommand /\ Remembered(read[c])'
    BY <1>1, <1>2 DEF TypedClients, ClientOK, CommandOK, ReadOK, Remembered
<1>6. ClientOK(c)'
    BY <1>5 DEF ClientOK, CommandOK, CallOK, ReadOK
<1>7. \A d \in Clients \ {c} :
            /\ pc'[d] = pc[d] /\ call'[d] = call[d]
            /\ command'[d] = command[d] /\ read'[d] = read[d]
    BY <1>1, <1>2 DEF TypedClients
<1> QED BY <1>3, <1>4, <1>6, <1>7, OneMoves

-----------------------------------------------------------------------------
(***************************************************************************)
(* Preservation: one lemma per step of a client.                           *)
(***************************************************************************)

LEMMA RequestBegun ==
    ASSUME IInv, NEW verb \in {"apply", "revise", "delete"},
           NEW change \in Changes \union {NoChange},
           NEW content \in Contents \union {NoContent},
           NEW receipt \in Receipts \union {NoReceipt},
           verb = "revise" => change \in Changes,
           verb = "apply" => content \in Contents
    PROVE  Begun(Request(verb, change, content, receipt))
<1>1. receipt \in [uid : Nat, gen : Nat]
    BY DEF IInv, TypeOK, Receipts, NoReceipt, Revision
<1>2. 0 \in 0..(Attempts - 1)
    BY SubmissionAssumption
<1>3. Request(verb, change, content, receipt) \in Call
    BY <1>1, <1>2 DEF Request, Call, Contract!Command, Contract!Verbs
<1>4. object # Gone => object.rv # 0
    BY DEF IInv, TypeOK, Contract!Instance
<1>5. version \in Nat
    BY DEF IInv, TypeOK
<1> QED BY <1>3, <1>4, <1>5 DEF Begun, Request, Baseline, Remembered

LEMMA StartCallKeeps ==
    ASSUME IInv, NEW c \in Clients, StartCall(c)
    PROVE  IInv'
<1>1. TypedClients /\ ClientOK(c)
    BY InvariantParts
<1>2. /\ pc[c] = "idle" /\ pc' = [pc EXCEPT ![c] = "read"]
      /\ calls' \in 0..MaxCalls
      /\ UNCHANGED <<object, births, version, command, answer, read, accepted>>
    BY <1>1, SubmissionAssumption DEF StartCall, contractVars, TypedClients
<1>3. PICK next : Begun(next) /\ call' = [call EXCEPT ![c] = next]
    BY RequestBegun DEF StartCall
<1>4. next \in Call
    BY <1>3 DEF Begun
<1>5. TypedClients'
    BY <1>1, <1>2, <1>3, <1>4 DEF TypedClients
<1>6. ObjectMoves /\ Stored'
    BY <1>2, NothingStored
<1>7. ClientOK(c)'
    <2>1. pc'[c] = "read" /\ call'[c] = next /\ command'[c] = NoCommand
        BY <1>1, <1>2, <1>3 DEF TypedClients, ClientOK, CommandOK
    <2>2. Baseline(next)' /\ Remembered(read[c])'
        BY <1>1, <1>2, <1>3 DEF Begun, ClientOK, ReadOK, Remembered, Baseline
    <2> QED BY <1>3, <2>1, <2>2 DEF ClientOK, CommandOK, CallOK, Begun, ReadOK
<1>8. \A d \in Clients \ {c} :
            /\ pc'[d] = pc[d] /\ call'[d] = call[d]
            /\ command'[d] = command[d] /\ read'[d] = read[d]
    BY <1>1, <1>2, <1>3 DEF TypedClients
<1> QED BY <1>5, <1>6, <1>7, <1>8, OneMoves

\* The client sends the command of a call that is composed.
Sends(c) ==
    /\ pc[c] \in {"read", "answered"}
    /\ \E next : Begun(next) /\ Composed(next) /\ Send(c, next)

LEMMA PreflightApplySends ==
    ASSUME IInv, NEW c \in Clients, PreflightApply(c)
    PROVE  Sends(c)
<1> DEFINE k == call[c]
           next == [k EXCEPT !.base = object, !.intent = Bound(@, object)]
<1>1. /\ object \in Contract!Instance \union {Gone} /\ Remembered(object)
      /\ pc[c] = "read" /\ Begun(k) /\ k.verb = "apply"
      /\ Contract!VersionOf(object) <= version
    BY CurrentRemembered
       DEF IInv, TypeOK, CallOK, PreflightApply, Contract!VersionOf, Contract!Instance
<1>2. /\ Bound(k.intent, object) \in Contract!Command
      /\ Bound(k.intent, object).verb = k.intent.verb
      /\ Bound(k.intent, object).content = k.intent.content
      /\ Bound(k.intent, object).rv <= version
    BY <1>1 DEF Begun, Baseline, Call, Bound, Contract!VersionOf, Contract!Instance,
                Contract!Command
<1>3. /\ next.verb = "apply" /\ next.base = object /\ next.change = k.change
      /\ next.intent = Bound(k.intent, object) /\ next \in Call
    BY <1>1, <1>2 DEF Begun, Call
<1>4. Begun(next) /\ Composed(next)
    BY <1>1, <1>2, <1>3 DEF Begun, Baseline, Composed
<1>5. Send(c, next)
    BY DEF PreflightApply
<1> QED BY <1>1, <1>4, <1>5 DEF Sends

LEMMA ReadReviseSends ==
    ASSUME IInv, NEW c \in Clients, ReadRevise(c)
    PROVE  Sends(c)
<1> DEFINE k == call[c]
           content == k.change[Latest(object)]
           next == Revised(k, object)
<1>1. /\ object \in Contract!Instance /\ Remembered(object) /\ Len(object.log) >= 1
      /\ pc[c] = "read" /\ Begun(k) /\ k.verb = "revise"
      /\ Contract!Exact(object, k.intent) /\ object # Gone /\ object.rv <= version
    BY CurrentRemembered DEF IInv, TypeOK, CallOK, ReadRevise
<1>2. Latest(object) \in Contents
    BY <1>1 DEF Latest, Contract!Latest, Contract!Instance
<1>3. content \in Contents
    BY <1>1, <1>2, SubmissionAssumption DEF Begun
<1>4. /\ next.intent \in Contract!Command /\ next.intent.verb = k.intent.verb
      /\ next.intent.content = content
      /\ next.intent.uid = k.intent.uid /\ next.intent.gen = k.intent.gen
      /\ next.intent.rv = object.rv
      /\ next.verb = "revise" /\ next.base = object /\ next.change = k.change
      /\ next \in Call
    BY <1>1, <1>3 DEF Begun, Call, Revised, Contract!Command, Contract!Instance
<1>5. Begun(next) /\ Composed(next)
    BY <1>1, <1>4 DEF Begun, Baseline, Composed, Contract!Exact
<1>6. Send(c, next)
    BY DEF ReadRevise
<1> QED BY <1>1, <1>5, <1>6 DEF Sends

LEMMA ReadDeleteSends ==
    ASSUME IInv, NEW c \in Clients, ReadDelete(c)
    PROVE  Sends(c)
<1> DEFINE k == call[c]
           next == [k EXCEPT !.base = object]
<1>1. /\ object \in Contract!Instance \union {Gone} /\ Remembered(object)
      /\ pc[c] = "read" /\ Begun(k) /\ k.verb = "delete"
    BY CurrentRemembered DEF IInv, TypeOK, CallOK, ReadDelete
<1>2. /\ next.verb = "delete" /\ next.base = object /\ next.change = k.change
      /\ next.intent = k.intent /\ next \in Call
    BY <1>1 DEF Begun, Call
<1>3. Begun(next) /\ Composed(next)
    BY <1>1, <1>2 DEF Begun, Baseline, Composed
<1>4. Send(c, next)
    BY DEF ReadDelete
<1> QED BY <1>1, <1>3, <1>4 DEF Sends

LEMMA SubmitForGoodSends ==
    ASSUME IInv, NEW c \in Clients, SubmitForGood(c)
    PROVE  Sends(c)
<1> DEFINE k == call[c]
           next == [k EXCEPT !.intent = [@ EXCEPT !.verb = "submit"], !.attempt = 0]
<1>1. /\ pc[c] = "answered" /\ Begun(k) /\ Composed(k)
      /\ k.intent.verb = "dry-run" /\ 0 \in 0..(Attempts - 1)
    BY SubmissionAssumption DEF IInv, CallOK, SubmitForGood, DryRunDone, Sent
<1>2. /\ next.intent \in Contract!Command /\ next.intent.verb = "submit"
      /\ next.intent.content = k.intent.content
      /\ next.intent.uid = k.intent.uid /\ next.intent.gen = k.intent.gen
      /\ next.intent.rv = k.intent.rv
      /\ next.verb = k.verb /\ next.base = k.base /\ next.change = k.change
      /\ next \in Call
    BY <1>1 DEF Begun, Call, Contract!Command, Contract!Verbs
<1>3. Begun(next) /\ Composed(next)
    BY <1>1, <1>2 DEF Begun, Baseline, Composed, Contract!Exact
<1>4. Send(c, next)
    BY DEF SubmitForGood
<1> QED BY <1>1, <1>3, <1>4 DEF Sends

LEMMA RetrySends ==
    ASSUME IInv, NEW c \in Clients, Retry(c)
    PROVE  Sends(c)
<1> DEFINE k == call[c]
           next == [k EXCEPT !.intent = Rebased(@, object), !.attempt = @ + 1]
<1>1. /\ object \in Contract!Instance /\ object # Gone
      /\ pc[c] = "answered" /\ Begun(k) /\ Composed(k)
      /\ k.attempt < Attempts - 1
      /\ object.rv <= version /\ object.deleting = k.base.deleting
    BY DEF IInv, TypeOK, CallOK, Retry, Undisturbed, MayRetry
<1>2. k.attempt + 1 \in 0..(Attempts - 1)
    BY <1>1, SubmissionAssumption DEF Begun, Call
<1>3. /\ next.intent \in Contract!Command /\ next.intent.verb = k.intent.verb
      /\ next.intent.content = k.intent.content
      /\ next.intent.uid = k.intent.uid /\ next.intent.gen = k.intent.gen
      /\ next.intent.rv = object.rv
      /\ next.verb = k.verb /\ next.base = k.base /\ next.change = k.change
      /\ next \in Call
    BY <1>1, <1>2 DEF Begun, Call, Contract!Command, Contract!Instance, Rebased
<1>4. Begun(next) /\ Composed(next)
    BY <1>1, <1>3 DEF Begun, Baseline, Composed, Contract!Exact
<1>5. Send(c, next)
    BY DEF Retry
<1> QED BY <1>1, <1>4, <1>5 DEF Sends

\* A read that is followed by a write keeps the instance it found.
LEMMA GetKeeps ==
    ASSUME IInv, NEW c \in Clients, Get(c)
    PROVE  IInv'
<1>1. /\ TypedClients /\ ClientOK(c) /\ pc[c] = "get"
      /\ object \in Contract!Instance \union {Gone}
      /\ UNCHANGED <<object, births, version, accepted>>
    BY InvariantParts DEF Get, Stored
<1>2. ObjectMoves /\ Stored'
    BY <1>1, NothingStored
<1>3. CASE /\ Check(object, command[c]) = "none"
           /\ read' = [read EXCEPT ![c] = object]
           /\ pc' = [pc EXCEPT ![c] = "put"]
           /\ UNCHANGED <<call, command, answer, calls>>
    <2>1. TypedClients'
        BY <1>1, <1>3 DEF TypedClients
    <2>2. /\ pc'[c] = "put" /\ read'[c] = object /\ command'[c] = command[c]
          /\ call'[c] = call[c]
        BY <1>1, <1>3 DEF TypedClients
    <2>3. Remembered(read[c])' /\ Baseline(call[c])'
        BY <1>1, <1>3, <2>2, CurrentRemembered
           DEF Remembered, Baseline, ClientOK, CallOK, Begun
    <2>4. ClientOK(c)'
        BY <1>1, <1>3, <2>2, <2>3
           DEF ClientOK, CommandOK, CallOK, Begun, Composed, ReadOK
    <2>5. \A d \in Clients \ {c} :
            /\ pc'[d] = pc[d] /\ call'[d] = call[d]
            /\ command'[d] = command[d] /\ read'[d] = read[d]
        BY <1>1, <1>3 DEF TypedClients
    <2> QED BY <1>2, <2>1, <2>4, <2>5, OneMoves
<1>4. CASE AnswerCommand(c, Contract!Receipt("no-op", object))
    <2>1. Contract!Receipt("no-op", object) \in Contract!Answer
        BY <1>1 DEF Contract!Receipt, Contract!Answer, Contract!Outcomes,
                    Contract!UidOf, Contract!GenerationOf, Contract!Instance
    <2> QED BY <1>1, <1>2, <1>4, <2>1, AnswerKeeps
<1>5. ASSUME Check(object, command[c]) \in Contract!Errors,
             AnswerCommand(c, Contract!Refusal(Check(object, command[c])))
      PROVE  IInv'
    <2>1. Contract!Refusal(Check(object, command[c])) \in Contract!Answer
        BY <1>5 DEF Contract!Refusal, Contract!Answer, Contract!Outcomes
    <2> QED BY <1>1, <1>2, <1>5, <2>1, AnswerKeeps
<1> QED BY <1>3, <1>4, <1>5 DEF Get

LEMMA PutKeeps ==
    ASSUME IInv, NEW c \in Clients, Put(c)
    PROVE  IInv'
<1>1. TypedClients /\ ClientOK(c) /\ pc[c] = "put" /\ Unchanged(c) /\ Write(c)
    BY InvariantParts DEF Put
<1>2. ObjectMoves /\ Stored'
    BY <1>1, WriteMoves
<1>3. /\ read[c] = object /\ Contract!Acceptable(object, command[c])
      /\ command[c] = call[c].intent /\ command[c] \in Contract!Command
    BY <1>1, PutIsCurrent, CommandTyped
<1>4. CASE /\ command[c].verb = "delete"
           /\ pc' = [pc EXCEPT ![c] = "reread"]
           /\ command' = [command EXCEPT ![c].verb = "deleted"]
           /\ UNCHANGED <<answer, read, call, calls>>
    <2>1. /\ [command[c] EXCEPT !.verb = "deleted"] \in Contract!Command
          /\ [command[c] EXCEPT !.verb = "deleted"].uid = command[c].uid
          /\ [command[c] EXCEPT !.verb = "deleted"].gen = command[c].gen
        BY <1>3 DEF Contract!Command, Contract!Verbs
    <2>2. TypedClients'
        BY <1>1, <1>4, <2>1 DEF TypedClients
    <2>3. /\ pc'[c] = "reread" /\ command'[c] = [command[c] EXCEPT !.verb = "deleted"]
          /\ read'[c] = read[c] /\ call'[c] = call[c]
        BY <1>1, <1>4 DEF TypedClients
    <2>4. object # Gone /\ Contract!Exact(object, command[c])
        BY <1>3, <1>4 DEF Contract!Acceptable
    <2>5. Remembered(read[c])'
        BY <1>1, <1>2, <2>3, InvariantParts, RememberedStays
           DEF ClientOK, ReadOK, TypedClients, Stored, ObjectOK, Remembered
    <2>6. Baseline(call[c])'
        <3>1. call[c] \in Call /\ Baseline(call[c])
            BY <1>1 DEF ClientOK, CallOK, Begun
        <3> QED BY <1>2, <2>3, <3>1, InvariantParts, BaselineStays
                DEF Stored, ObjectOK, Remembered, Baseline
    <2>7. ReadOK(c)'
        BY <1>3, <2>1, <2>3, <2>4, <2>5 DEF ReadOK, Contract!Exact
    <2>8. CommandOK(c)' /\ CallOK(c)'
        BY <1>1, <1>3, <1>4, <2>3, <2>6 DEF ClientOK, CommandOK, CallOK, Begun, Composed
    <2>9. \A d \in Clients \ {c} :
            /\ pc'[d] = pc[d] /\ call'[d] = call[d]
            /\ command'[d] = command[d] /\ read'[d] = read[d]
        BY <1>1, <1>4 DEF TypedClients
    <2> QED BY <1>2, <2>2, <2>7, <2>8, <2>9, OneMoves DEF ClientOK
<1>5. CASE AnswerCommand(c, Accepted(c))
    <2>1. Accepted(c) \in Contract!Answer
        BY <1>2 DEF Accepted, Stored, Contract!Receipt, Contract!Refusal,
                    Contract!Answer, Contract!Outcomes, Contract!UidOf,
                    Contract!GenerationOf, Contract!Instance
    <2> QED BY <1>1, <1>2, <1>5, <2>1, AnswerKeeps
<1> QED BY <1>4, <1>5 DEF Put

LEMMA RereadKeeps ==
    ASSUME IInv, NEW c \in Clients, Reread(c)
    PROVE  IInv'
<1> DEFINE found == IF object = Gone THEN read[c] ELSE object
           reply == Contract!Receipt("accepted", found)
<1>1. /\ pc[c] = "reread" /\ AnswerCommand(c, reply)
      /\ UNCHANGED <<object, births, version, accepted>>
    BY DEF Reread
<1>2. found \in Contract!Instance \union {Gone}
    BY DEF IInv, TypeOK
<1>3. reply \in Contract!Answer
    BY <1>2 DEF Contract!Receipt, Contract!Answer, Contract!Outcomes,
                Contract!UidOf, Contract!GenerationOf, Contract!Instance
<1> HIDE DEF reply
<1> QED BY <1>1, <1>3, NothingStored, AnswerKeeps

LEMMA PutRefusedKeeps ==
    ASSUME IInv, NEW c \in Clients, PutRefused(c)
    PROVE  IInv'
<1>1. PICK error \in Contract!Errors : AnswerCommand(c, Contract!Refusal(error))
    BY DEF PutRefused, Contract!Errors
<1>2. Contract!Refusal(error) \in Contract!Answer
    BY DEF Contract!Refusal, Contract!Answer, Contract!Outcomes
<1>3. pc[c] = "put" /\ UNCHANGED <<object, births, version, accepted>>
    BY DEF PutRefused
<1> QED BY <1>1, <1>2, <1>3, NothingStored, AnswerKeeps

LEMMA LoseAnswerKeeps ==
    ASSUME IInv, NEW c \in Clients, LoseAnswer(c)
    PROVE  IInv'
<1>1. /\ pc[c] \in {"get", "put", "reread"}
      /\ AnswerCommand(c, Contract!Refusal("Unavailable"))
    BY DEF LoseAnswer
<1>2. Contract!Refusal("Unavailable") \in Contract!Answer
    BY DEF Contract!Refusal, Contract!Answer, Contract!Outcomes, Contract!Errors
<1>3. ObjectMoves /\ Stored'
    BY WriteMoves, NothingStored DEF LoseAnswer
<1> QED BY <1>1, <1>2, <1>3, AnswerKeeps

\* The controller moves the instance and no client.
LEMMA ControllerKeeps ==
    ASSUME IInv, ObjectMoves, Stored',
           UNCHANGED <<command, answer, pc, call, read, calls>>
    PROVE  IInv'
<1>1. TypedClients'
    BY InvariantParts DEF TypedClients
<1>2. \A c \in Clients : ClientOK(c)'
    BY OthersKeep
<1> QED BY <1>1, <1>2 DEF IInv, TypeOK, Stored, ObjectOK, TypedClients, ClientOK

LEMMA CommitStatusKeeps == ASSUME IInv, CommitStatus PROVE IInv'
<1>1. /\ object \in Contract!Instance /\ object # Gone /\ ObjectOK
      /\ births \in Nat /\ version \in Nat /\ accepted \subseteq Revision
      /\ \A r \in accepted : Kept(r)
    BY InvariantParts DEF Stored, CommitStatus
<1>2. /\ object' = [object EXCEPT !.rv = version + 1] /\ version' = version + 1
      /\ UNCHANGED <<births, accepted>>
    BY DEF CommitStatus
<1>3. /\ object' \in Contract!Instance /\ object'.rv = version + 1
      /\ object'.uid = object.uid /\ object'.log = object.log
    <2>1. version + 1 \in Nat \ {0}
        BY <1>1
    <2>2. [object EXCEPT !.rv = version + 1] \in Contract!Instance
        BY <1>1, <2>1, InstanceUpdate
    <2>3. /\ object'.rv = version + 1
          /\ object'.uid = object.uid /\ object'.log = object.log
        BY <1>1, <1>2, InstanceFields
    <2> QED BY <1>2, <2>2, <2>3
<1>4. ObjectMoves
    BY <1>1, <1>2, <1>3 DEF ObjectMoves, Prefix, Contract!Instance
<1>5. ObjectOK'
    BY <1>1, <1>2, <1>3 DEF ObjectOK, Contract!Instance
<1>6. \A r \in accepted' : Kept(r)'
    BY <1>1, <1>2, <1>4, KeptStays
<1>7. Stored'
    BY <1>1, <1>2, <1>3, <1>5, <1>6 DEF Stored
<1> QED BY <1>4, <1>7, ControllerKeeps DEF CommitStatus

LEMMA CompleteDeletionKeeps == ASSUME IInv, CompleteDeletion PROVE IInv'
<1>1. object' = Gone /\ UNCHANGED <<births, version, accepted>>
    BY DEF CompleteDeletion
<1>2. ObjectMoves
    BY <1>1 DEF ObjectMoves
<1>3. Stored
    BY InvariantParts
<1>4. Stored'
    BY <1>1, <1>3 DEF Stored, ObjectOK, Kept
<1> QED BY <1>2, <1>4, ControllerKeeps DEF CompleteDeletion

-----------------------------------------------------------------------------
(***************************************************************************)
(* The invariant, and what follows from it.                                *)
(***************************************************************************)

LEMMA NextKeeps == ASSUME IInv, [Next]_vars PROVE IInv'
<1>1. CASE UNCHANGED vars
    BY <1>1 DEF vars, contractVars, IInv, TypeOK, Remembered, Baseline, Kept, CommandOK,
                CallOK, Begun, Composed, ReadOK
<1>2. ASSUME NEW c \in Clients, ClientStep(c) PROVE IInv'
    <2>1. RejectRequest(c) => pc[c] = "read" /\ EndCall(c)
        BY DEF RejectRequest
    <2>2. Return(c) => pc[c] = "answered" /\ EndCall(c)
        BY DEF Return
    <2>3. Sends(c) => IInv'
        BY SendKeeps DEF Sends
    <2> QED BY <1>2, <2>1, <2>2, <2>3, StartCallKeeps, PreflightApplySends, ReadReviseSends,
               ReadDeleteSends, GetKeeps, PutKeeps, RereadKeeps, PutRefusedKeeps,
               LoseAnswerKeeps, SubmitForGoodSends, RetrySends, EndKeeps
            DEF ClientStep
<1> QED BY <1>1, <1>2, CommitStatusKeeps, CompleteDeletionKeeps DEF Next

\* Every copy a client holds is an earlier state of the instance, so that equal
\* resourceVersions mean that nothing changed in between.
THEOREM InductiveInvariant == Spec => []IInv
<1> QED BY InitOK, NextKeeps, PTL DEF Spec

\* Calls, commands and answers have their types in every state.
THEOREM TypeCorrect == Spec => []TypeOK
<1>1. IInv => TypeOK
    BY DEF IInv
<1> QED BY <1>1, InductiveInvariant, PTL

\* Whatever the clients and the controller do, a revision that was accepted stays
\* in the instance that accepted it, at its generation (AppendScenarioRevision
\* and the resourceVersion precondition of Update).
THEOREM RevisionsStay == Spec => []AcceptedRevisionsStay
<1>1. IInv => AcceptedRevisionsStay
    BY DEF IInv, Kept, AcceptedRevisionsStay
<1> QED BY <1>1, InductiveInvariant, PTL

\* The check of the digest on reading and the precondition of the write exclude
\* two equal revisions in a row.
THEOREM RevisionsDiffer == Spec => []NoRepeatedRevision
<1>1. IInv => NoRepeatedRevision
    BY DEF IInv, NeverTwice, NoRepeatedRevision
<1> QED BY <1>1, InductiveInvariant, PTL

\* A command is executed only by its own client, on the instance it read.
LEMMA OnlyOwnWrites ==
    ASSUME IInv, [Next]_vars, NEW c \in Clients, Executes(c)
    PROVE  pc[c] = "put" /\ Unchanged(c) /\ Write(c)
<1>1. TypedClients
    BY InvariantParts
<1>2. PICK d \in Clients : ClientStep(d)
    <2>1. ~UNCHANGED vars /\ ~CommitStatus /\ ~CompleteDeletion
        BY DEF Executes, vars, contractVars, CommitStatus, CompleteDeletion
    <2> QED BY <2>1 DEF Next
<1>3. d = c
    <2>1. \E s \in {"idle", "read", "get", "put", "reread", "answered"} :
                pc' = [pc EXCEPT ![d] = s]
        BY <1>2 DEF ClientStep, StartCall, PreflightApply, ReadRevise, ReadDelete,
                    RejectRequest, Get, Put, Reread, PutRefused, LoseAnswer,
                    SubmitForGood, Retry, Return, Send, EndCall, AnswerCommand
    <2> QED BY <1>1, <2>1 DEF Executes, TypedClients
<1>4. Put(c) \/ PutRefused(c) \/ LoseAnswer(c)
    BY <1>2, <1>3
       DEF Executes, ClientStep, StartCall, PreflightApply, ReadRevise, ReadDelete,
           RejectRequest, Get, Reread, SubmitForGood, Retry, Return
<1> QED BY <1>4 DEF Executes, Put, PutRefused, LoseAnswer

\* The instance that is changed is the one the user named, at the generation the
\* user named, for any interleaving of the clients' reads and writes.
THEOREM WritesHitTheirTargetAlways == Spec => WritesHitTheirTarget
<1>1. ASSUME IInv, [Next]_vars, NEW c \in Clients, Executes(c)
      PROVE  Contract!Exact(object, call[c].intent)
    <2>1. pc[c] = "put" /\ Unchanged(c)
        BY <1>1, OnlyOwnWrites
    <2> QED BY <1>1, <2>1, PutIsCurrent, CommandTyped DEF Contract!Acceptable
<1>2. IInv /\ [Next]_vars =>
        \A c \in Clients : Executes(c) => Contract!Exact(object, call[c].intent)
    BY <1>1
<1> QED BY <1>2, InductiveInvariant, PTL DEF Spec, WritesHitTheirTarget

\* A typed change is stored on top of the Scenario it was computed from: the
\* baseline of the call has the same revisions as the instance that is written.
THEOREM TypedRevisionsComposeAlways == Spec => TypedRevisionsCompose
<1>1. ASSUME IInv, [Next]_vars, NEW c \in Clients, Executes(c), call[c].verb = "revise"
      PROVE  Latest(object') = call[c].change[Latest(object)]
    <2> DEFINE base == call[c].base
               cmd == command[c]
    <2>1. pc[c] = "put" /\ Unchanged(c) /\ Write(c)
        BY <1>1, OnlyOwnWrites
    <2>2. /\ read[c] = object /\ Contract!Exact(object, cmd)
          /\ cmd = call[c].intent /\ cmd \in Contract!Command
          /\ cmd.verb \in {"dry-run", "submit", "delete"}
        BY <1>1, <2>1, PutIsCurrent, CommandTyped DEF Contract!Acceptable
    <2>3. /\ base \in Contract!Instance /\ base # Gone /\ Remembered(base)
          /\ Contract!Exact(base, cmd) /\ Len(base.log) >= 1
          /\ cmd.content = call[c].change[Latest(base)]
          /\ cmd.verb # "delete"
        <3>1. Begun(call[c]) /\ Composed(call[c])
            BY <1>1, <2>1 DEF IInv, CallOK
        <3>2. /\ base \in Contract!Instance /\ base # Gone /\ Remembered(base)
              /\ Contract!Exact(base, cmd)
              /\ cmd.content = call[c].change[Latest(base)]
              /\ cmd.verb # "delete"
            BY <1>1, <2>2, <3>1 DEF Begun, Composed, Baseline, Call
        <3> QED BY <3>2 DEF Remembered
    <2>4. /\ object \in Contract!Instance /\ object # Gone
          /\ object.uid = base.uid /\ Len(object.log) = Len(base.log)
        BY <1>1, <2>2, <2>3
           DEF IInv, TypeOK, Contract!Exact, Contract!UidOf, Contract!GenerationOf,
               Contract!Instance
    <2>5. Latest(object) = Latest(base)
        BY <2>3, <2>4
           DEF Remembered, Prefix, Latest, Contract!Latest, Contract!Instance
    <2>6. object'.log = Append(object.log, cmd.content)
        <3>1. object' = [object EXCEPT !.log = Append(@, cmd.content), !.rv = version + 1]
            BY <1>1, <2>1, <2>2, <2>3, <2>4 DEF Executes, Write, Written
        <3> QED BY <2>4, <3>1 DEF Contract!Instance
    <2>7. Latest(object') = cmd.content
        BY <2>4, <2>6 DEF Latest, Contract!Latest, Contract!Instance
    <2> QED BY <2>3, <2>5, <2>7
<1>2. IInv /\ [Next]_vars =>
        \A c \in Clients : Executes(c) /\ call[c].verb = "revise"
            => Latest(object') = call[c].change[Latest(object)]
    BY <1>1
<1> QED BY <1>2, InductiveInvariant, PTL DEF Spec, TypedRevisionsCompose

\* A revision is accepted only by an instance whose deletion has not begun since
\* the call read it, on the first attempt and on every retry: the resourceVersion
\* it is bound to stands for the instance as it was read or compared.
THEOREM DeletionIsNoticedAlways == Spec => DeletionIsNoticed
<1>1. ASSUME IInv, [Next]_vars, NEW c \in Clients, Executes(c),
             command[c].verb = "submit", object # Gone
      PROVE  object.deleting = call[c].base.deleting
    <2>1. pc[c] = "put" /\ Unchanged(c)
        BY <1>1, OnlyOwnWrites
    <2>2. Contract!Acceptable(object, command[c]) /\ command[c] = call[c].intent
        BY <1>1, <2>1, PutIsCurrent, CommandTyped
    <2>3. object.rv = call[c].intent.rv
        BY <1>1, <2>2 DEF Contract!Acceptable, Contract!VersionOf
    <2>4. Baseline(call[c])
        BY <1>1, <2>1 DEF IInv, CallOK, Begun
    <2> QED BY <1>1, <2>2, <2>3, <2>4 DEF Baseline
<1>2. IInv /\ [Next]_vars =>
        \A c \in Clients : Executes(c) /\ command[c].verb = "submit" /\ object # Gone
            => object.deleting = call[c].base.deleting
    BY <1>1
<1> QED BY <1>2, InductiveInvariant, PTL DEF Spec, DeletionIsNoticed

-----------------------------------------------------------------------------
(***************************************************************************)
(* Receipts: what a client is told was accepted.                           *)
(***************************************************************************)

\* What Get decides is so at that moment.
LEMMA CheckIsTrue ==
    ASSUME NEW o \in Contract!Instance \union {Gone}, NEW cmd \in Contract!Command,
           cmd.verb \in {"dry-run", "submit", "delete"}
    PROVE  /\ Check(o, cmd) = "no-op" => Contract!Redundant(o, cmd)
           /\ Check(o, cmd) \in Contract!Errors => Contract!Truthful(Check(o, cmd), o, cmd)
<1>1. CASE cmd.verb = "delete" /\ o = Gone
    BY <1>1 DEF Check, Contract!Truthful, Contract!Errors
<1>2. CASE cmd.verb = "delete" /\ o # Gone
    BY <1>2 DEF Check, DeleteCheck, Contract!Truthful, Contract!Errors,
                Contract!Redundant, Contract!Exact, Contract!UidOf,
                Contract!GenerationOf
<1>3. CASE cmd.verb # "delete" /\ o = Gone
    BY <1>3 DEF Check, CreateCheck, Contract!Truthful, Contract!Errors,
                Contract!UidOf, Contract!GenerationOf, Contract!VersionOf,
                Contract!Command
<1>4. CASE cmd.verb # "delete" /\ o # Gone
    BY <1>4 DEF Check, UpdateCheck, Contract!Truthful, Contract!Errors,
                Contract!Redundant, Contract!UidOf, Contract!GenerationOf,
                Contract!VersionOf
<1> QED BY <1>1, <1>2, <1>3, <1>4

Accepts(uid, gen, content) == [uid |-> uid, gen |-> gen, content |-> content] \in accepted

\* Every revision of the instance was accepted, and so was the one a receipt names.
Logged ==
    object # Gone =>
        \A i \in 1..Len(object.log) : Accepts(object.uid, i, object.log[i])
ReceiptOK(c) ==
    /\ pc[c] = "answered" /\ Sent(c).verb = "submit"
    /\ answer[c].outcome \in {"accepted", "no-op"}
    => Accepts(answer[c].uid, answer[c].gen, Sent(c).content)
RInv == Logged /\ \A c \in Clients : ReceiptOK(c)

LEMMA WriteLogs ==
    ASSUME IInv, Logged, NEW c \in Clients, pc[c] = "put", Unchanged(c), Write(c)
    PROVE  /\ Logged' /\ accepted \subseteq accepted'
           /\ command[c].verb = "submit" =>
                /\ object' # Gone /\ object' \in Contract!Instance
                /\ [uid |-> object'.uid, gen |-> Len(object'.log),
                    content |-> command[c].content] \in accepted'
<1> DEFINE cmd == command[c]
<1>1. /\ read[c] = object /\ object \in Contract!Instance \union {Gone}
      /\ cmd \in Contract!Command /\ cmd.verb \in {"dry-run", "submit", "delete"}
      /\ cmd.verb # "delete" => cmd.content \in Contents
      /\ births \in Nat /\ version \in Nat
      /\ Contract!Acceptable(object, cmd)
    BY PutIsCurrent, CommandTyped DEF IInv, TypeOK
<1>2. CASE cmd.verb = "dry-run"
    BY <1>2 DEF Write, Logged, Accepts
<1>3. CASE cmd.verb = "delete"
    <2>1. /\ object # Gone /\ object' = [object EXCEPT !.deleting = TRUE, !.rv = version + 1]
          /\ accepted' = accepted
        BY <1>1, <1>3 DEF Write, Written, Contract!Acceptable
    <2>2. object'.uid = object.uid /\ object'.log = object.log
        BY <1>1, <2>1, InstanceFields
    <2> QED BY <1>3, <2>1, <2>2 DEF Logged, Accepts
<1>4. CASE cmd.verb = "submit" /\ object = Gone
    <2>1. /\ object' = [uid |-> births + 1, rv |-> version + 1, deleting |-> FALSE,
                        log |-> <<cmd.content>>]
          /\ accepted' = accepted \union {[uid |-> object'.uid, gen |-> Len(object'.log),
                                           content |-> cmd.content]}
        BY <1>1, <1>4 DEF Write, Written
    <2>2. /\ object' \in Contract!Instance /\ object'.log = <<cmd.content>>
          /\ Len(object'.log) = 1 /\ object'.log[1] = cmd.content
        BY <1>1, <1>4, <2>1 DEF Contract!Instance
    <2>3. object' # Gone
        BY <2>2, SubmissionAssumption DEF Contract!ContractAssumption
    <2>4. ASSUME NEW i \in 1..Len(object'.log)
          PROVE  [uid |-> object'.uid, gen |-> i, content |-> object'.log[i]] \in accepted'
        <3>1. i = 1
            BY <2>2
        <3> QED BY <2>1, <2>2, <3>1
    <2> QED BY <2>1, <2>2, <2>3, <2>4 DEF Logged, Accepts
<1>5. CASE cmd.verb = "submit" /\ object # Gone
    <2>1. /\ object' = [object EXCEPT !.log = Append(@, cmd.content), !.rv = version + 1]
          /\ accepted' = accepted \union {[uid |-> object'.uid, gen |-> Len(object'.log),
                                           content |-> cmd.content]}
        BY <1>1, <1>5 DEF Write, Written
    <2>2. Stored'
        BY WriteMoves
    <2>3. object'.uid = object.uid /\ object'.log = Append(object.log, cmd.content)
        BY <1>1, <1>5, <2>1 DEF Contract!Instance
    <2>4. /\ object.log \in Seq(Contents)
          /\ Len(object'.log) = Len(object.log) + 1
          /\ \A i \in 1..Len(object.log) : object'.log[i] = object.log[i]
          /\ object'.log[Len(object.log) + 1] = cmd.content
        BY <1>1, <1>5, <2>3 DEF Contract!Instance
    <2>5. object' \in Contract!Instance
        <3>1. object \in Contract!Instance /\ version + 1 \in Nat \ {0}
            BY <1>1, <1>5
        <3>2. Append(object.log, cmd.content) \in Seq(Contents)
            BY <1>1, <1>5, <2>4
        <3> QED BY <2>1, <3>1, <3>2, InstanceAppend
    <2>6. object' # Gone
        BY <2>5, SubmissionAssumption DEF Contract!ContractAssumption
    <2>7. Logged'
        BY <1>5, <2>1, <2>3, <2>4 DEF Logged, Accepts
    <2> QED BY <2>1, <2>5, <2>6, <2>7 DEF Accepts
<1> QED BY <1>1, <1>2, <1>3, <1>4, <1>5

LEMMA StepLogs ==
    ASSUME IInv, Logged, [Next]_vars
    PROVE  Logged' /\ accepted \subseteq accepted'
<1>1. CASE UNCHANGED <<object, accepted>>
    BY <1>1 DEF Logged, Accepts
<1>2. CASE object' = Gone /\ accepted' = accepted
    BY <1>2 DEF Logged
<1>3. CASE CommitStatus
    <2>1. /\ object \in Contract!Instance /\ object' = [object EXCEPT !.rv = version + 1]
          /\ accepted' = accepted /\ object # Gone
        BY <1>3 DEF CommitStatus, IInv, TypeOK
    <2>2. object'.uid = object.uid /\ object'.log = object.log
        BY <2>1, InstanceFields
    <2> QED BY <2>1, <2>2 DEF Logged, Accepts
<1>4. ASSUME NEW c \in Clients, ClientStep(c) PROVE Logged' /\ accepted \subseteq accepted'
    <2>1. \/ UNCHANGED <<object, accepted>>
          \/ pc[c] = "put" /\ Unchanged(c) /\ Write(c)
        BY <1>4 DEF ClientStep, contractVars, StartCall, PreflightApply, ReadRevise,
                    ReadDelete, RejectRequest, Get, Put, Reread, PutRefused, LoseAnswer,
                    SubmitForGood, Retry, Return, Send, EndCall
    <2> QED BY <1>1, <2>1, WriteLogs
<1> QED BY <1>1, <1>2, <1>3, <1>4 DEF Next, vars, contractVars, CompleteDeletion

\* An answer that reports an accepted revision reports one that was accepted.
LEMMA AnswersAreTrue ==
    ASSUME IInv, Logged, NEW c \in Clients, ClientStep(c), pc'[c] = "answered"
    PROVE  ReceiptOK(c)'
<1>1. TypedClients /\ IInv' /\ Logged'
    BY InvariantParts, NextKeeps, StepLogs DEF Next
<1>2. ASSUME NEW reply, AnswerCommand(c, reply),
             /\ call[c].intent.verb = "submit" /\ reply.outcome \in {"accepted", "no-op"}
             => [uid |-> reply.uid, gen |-> reply.gen, content |-> call[c].intent.content]
                    \in accepted'
      PROVE  ReceiptOK(c)'
    <2>1. answer'[c] = reply /\ call' = call
        BY <1>1, <1>2 DEF AnswerCommand, TypedClients
    <2> QED BY <1>2, <2>1 DEF ReceiptOK, Accepts, Sent
<1>3. ASSUME NEW error, error \notin {"accepted", "no-op"},
             AnswerCommand(c, Contract!Refusal(error))
      PROVE  ReceiptOK(c)'
    BY <1>2, <1>3 DEF Contract!Refusal
<1>4. CASE Get(c)
    <2>1. /\ pc[c] = "get" /\ UNCHANGED <<object, accepted>>
          /\ object \in Contract!Instance \union {Gone}
          /\ command[c] = call[c].intent /\ command[c] \in Contract!Command
          /\ command[c].verb \in {"dry-run", "submit", "delete"}
        BY <1>4, CommandTyped DEF Get, IInv, TypeOK
    <2>2. ASSUME Check(object, command[c]) = "no-op", command[c].verb = "submit"
          PROVE  Accepts(Contract!UidOf(object), Contract!GenerationOf(object),
                         command[c].content)
        <3>1. object # Gone /\ Latest(object) = command[c].content
            BY <2>1, <2>2, CheckIsTrue
               DEF Contract!Redundant, Contract!SameDigest, Latest
        <3>2. Len(object.log) \in 1..Len(object.log)
            BY <3>1 DEF IInv, TypeOK, Contract!Instance
        <3> QED BY <3>1, <3>2
                DEF Logged, Accepts, Latest, Contract!Latest, Contract!UidOf,
                    Contract!GenerationOf
    <2>3. CASE /\ Check(object, command[c]) = "no-op"
               /\ AnswerCommand(c, Contract!Receipt("no-op", object))
        BY <1>2, <2>1, <2>2, <2>3 DEF Contract!Receipt, Accepts
    <2>4. CASE /\ Check(object, command[c]) \in Contract!Errors
               /\ AnswerCommand(c, Contract!Refusal(Check(object, command[c])))
        BY <1>3, <2>4 DEF Contract!Errors
    <2>5. pc'[c] # "put"
        OBVIOUS
    <2>6. ~(pc' = [pc EXCEPT ![c] = "put"])
        BY <1>1, <2>5 DEF TypedClients
    <2> QED BY <1>4, <2>3, <2>4, <2>6 DEF Get
<1>5. CASE Put(c)
    <2>1. /\ pc[c] = "put" /\ Unchanged(c) /\ Write(c)
          /\ command[c] = call[c].intent
        BY <1>5, CommandTyped DEF Put
    <2>2. AnswerCommand(c, Accepted(c))
        <3>1. ~(pc' = [pc EXCEPT ![c] = "reread"])
            BY <1>1 DEF TypedClients
        <3> QED BY <1>5, <3>1 DEF Put
    <2>3. CASE command[c].verb = "submit"
        <3>1. /\ object' # Gone
              /\ [uid |-> object'.uid, gen |-> Len(object'.log),
                  content |-> command[c].content] \in accepted'
            BY <2>1, <2>3, WriteLogs DEF Accepts
        <3>2. Accepted(c).uid = object'.uid /\ Accepted(c).gen = Len(object'.log)
            BY <2>3, <3>1 DEF Accepted, Contract!Receipt, Contract!UidOf,
                              Contract!GenerationOf
        <3> QED BY <1>2, <2>1, <2>2, <3>1, <3>2
    <2>4. CASE command[c].verb # "submit"
        BY <1>2, <2>1, <2>2, <2>4
    <2> QED BY <2>3, <2>4
<1>6. CASE Reread(c)
    BY <1>2, <1>6 DEF Reread, IInv, CommandOK
<1>7. CASE PutRefused(c)
    BY <1>3, <1>7 DEF PutRefused
<1>8. CASE LoseAnswer(c)
    BY <1>3, <1>8 DEF LoseAnswer
<1>9. \A s \in {"idle", "read", "get"} : ~(pc' = [pc EXCEPT ![c] = s])
    BY <1>1 DEF TypedClients
<1> QED BY <1>4, <1>5, <1>6, <1>7, <1>8, <1>9
        DEF ClientStep, StartCall, PreflightApply, ReadRevise, ReadDelete,
            RejectRequest, SubmitForGood, Retry, Return, Send, EndCall

LEMMA ReceiptsKeep == ASSUME IInv, RInv, [Next]_vars PROVE RInv'
<1>1. Logged' /\ accepted \subseteq accepted'
    BY StepLogs DEF RInv
<1>2. ASSUME NEW d \in Clients,
             pc'[d] = pc[d], call'[d] = call[d], answer'[d] = answer[d]
      PROVE  ReceiptOK(d)'
    BY <1>1, <1>2 DEF RInv, ReceiptOK, Accepts, Sent
<1>3. ASSUME NEW c \in Clients, ClientStep(c), NEW d \in Clients
      PROVE  ReceiptOK(d)'
    <2>1. CASE d # c
        <3>1. \A t, u, v : /\ pc' = [pc EXCEPT ![c] = t] => pc'[d] = pc[d]
                           /\ call' = [call EXCEPT ![c] = u] => call'[d] = call[d]
                           /\ answer' = [answer EXCEPT ![c] = v] => answer'[d] = answer[d]
            BY <2>1 DEF IInv, TypeOK
        <3>2. pc'[d] = pc[d] /\ call'[d] = call[d] /\ answer'[d] = answer[d]
            BY <1>3, <3>1
               DEF ClientStep, contractVars, StartCall, PreflightApply, ReadRevise,
                   ReadDelete, RejectRequest, Get, Put, Reread, PutRefused, LoseAnswer,
                   SubmitForGood, Retry, Return, Send, EndCall, AnswerCommand
        <3> QED BY <1>2, <3>2
    <2>2. CASE d = c /\ pc'[c] = "answered"
        BY <1>3, <2>2, AnswersAreTrue DEF RInv
    <2>3. CASE d = c /\ pc'[c] # "answered"
        BY <2>3 DEF ReceiptOK
    <2> QED BY <2>1, <2>2, <2>3
<1>4. CASE UNCHANGED <<pc, call, answer>>
    BY <1>1, <1>2, <1>4 DEF RInv
<1> QED BY <1>1, <1>3, <1>4
        DEF RInv, Next, CommitStatus, CompleteDeletion, vars, contractVars

\* A receipt for a submission names a revision that was accepted with the content
\* the client sent, also when it was a no-op.
THEOREM ReceiptsAreTrueAlways == Spec => []ReceiptsAreTrue
<1>1. Init => RInv
    BY DEF Init, Contract!Init, RInv, Logged, ReceiptOK
<1>2. RInv => ReceiptsAreTrue
    BY DEF RInv, ReceiptOK, Accepts, ReceiptsAreTrue
<1> QED BY <1>1, <1>2, ReceiptsKeep, InductiveInvariant, PTL DEF Spec

-----------------------------------------------------------------------------
(***************************************************************************)
(* Retries: what a call that gives up on a conflict has lost.  (IInv does  *)
(* not say when a call is bound to a resourceVersion and how often.)       *)
(***************************************************************************)

\* The instance of the baseline, still there and with no other revision.
SameRevisions(k) == object # Gone /\ object.uid = k.base.uid /\ object.log = k.base.log

\* The command is bound to a resourceVersion if and only if it names exactly the
\* baseline; each attempt bound it to a later one, none of them in the future.
Tracked(k) ==
    /\ k.intent.rv # 0 <=> Contract!Exact(k.base, k.intent)
    /\ k.intent.rv # 0 => k.intent.rv >= k.base.rv + k.attempt
    /\ object # Gone /\ object.uid = k.base.uid => k.intent.rv <= object.rv

\* A conflict with the instance of the baseline came from a later resourceVersion.
Overtaken(k) ==
    /\ Contract!Exact(object, k.intent)
    /\ Fidelity[object.log[1]] = Fidelity[k.intent.content]
    /\ k.intent.rv # 0 /\ object.rv > k.intent.rv

Retriable(k) == k.base # Gone /\ k.intent.verb # "delete"

\* From the request to the answer: nothing is bound before the instance was read; a
\* write that creates the name is under way only when the baseline is gone for good;
\* a conflict leaves either another instance or revision, or a later status.
DriftOK(c) ==
    /\ pc[c] = "read" => call[c].intent.rv = 0 /\ call[c].attempt = 0
    /\ pc[c] \notin {"idle", "read"} /\ Retriable(call[c]) =>
        /\ Tracked(call[c])
        /\ pc[c] = "put" /\ read[c] = Gone =>
             object = Gone \/ object.uid # call[c].base.uid
        /\ pc[c] = "answered" /\ answer[c].outcome = "ResourceVersionConflict"
           /\ SameRevisions(call[c]) => Overtaken(call[c])
DriftInv == \A c \in Clients : DriftOK(c)

\* Every step moves the instance as ObjectMoves says.
LEMMA StepMoves == ASSUME IInv, [Next]_vars PROVE ObjectMoves
<1>1. CASE CommitStatus
    <2>1. /\ object \in Contract!Instance /\ object # Gone /\ version \in Nat
          /\ object' = [object EXCEPT !.rv = version + 1] /\ version' = version + 1
          /\ births' = births
        BY <1>1 DEF CommitStatus, IInv, TypeOK
    <2>2. object' \in Contract!Instance
        <3>1. version + 1 \in Nat \ {0}
            BY <2>1
        <3>2. [object EXCEPT !.rv = version + 1] \in Contract!Instance
            BY <2>1, <3>1, InstanceUpdate
        <3> QED BY <2>1, <3>2
    <2>3. object'.rv = version + 1 /\ object'.uid = object.uid /\ object'.log = object.log
        BY <2>1, InstanceFields
    <2> QED BY <2>1, <2>2, <2>3 DEF ObjectMoves, Prefix, Contract!Instance
<1>2. CASE CompleteDeletion
    BY <1>2 DEF CompleteDeletion, ObjectMoves
<1>3. ASSUME NEW c \in Clients, ClientStep(c) PROVE ObjectMoves
    <2>1. \/ UNCHANGED <<object, births, version>>
          \/ pc[c] = "put" /\ Unchanged(c) /\ Write(c)
        BY <1>3 DEF ClientStep, contractVars, StartCall, PreflightApply, ReadRevise,
                    ReadDelete, RejectRequest, Get, Put, Reread, PutRefused, LoseAnswer,
                    SubmitForGood, Retry, Return, Send, EndCall
    <2> QED BY <2>1, WriteMoves DEF ObjectMoves
<1>4. CASE UNCHANGED vars
    BY <1>4 DEF vars, contractVars, ObjectMoves
<1> QED BY <1>1, <1>2, <1>3, <1>4 DEF Next

\* When the instance of a copy is there after a step, it was there before, and has
\* come no less far.
LEMMA SameInstance ==
    ASSUME IInv, ObjectMoves, NEW b \in Contract!Instance, b # Gone, Remembered(b),
           object' # Gone, object'.uid = b.uid
    PROVE  /\ object # Gone /\ object \in Contract!Instance /\ object.uid = b.uid
           /\ object' \in Contract!Instance /\ object.rv <= object'.rv
           /\ Prefix(b.log, object.log) /\ Prefix(object.log, object'.log)
           /\ object'.log = b.log => object.log = b.log
<1>1. /\ object \in Contract!Instance \union {Gone} /\ births \in Nat /\ version \in Nat
      /\ object # Gone => object.rv <= version
      /\ b.uid \in Nat /\ b.uid <= births /\ b.log \in Seq(Contents)
    BY DEF IInv, TypeOK, Remembered, Contract!Instance
<1>2. CASE UNCHANGED <<object, births, version>>
    BY <1>1, <1>2 DEF Remembered, Prefix, Contract!Instance
<1>3. CASE /\ object' \in Contract!Instance /\ object'.rv = version + 1
           /\ object # Gone /\ object'.uid = object.uid
           /\ Prefix(object.log, object'.log)
    <2>1. object \in Contract!Instance /\ object.uid = b.uid /\ object.rv <= object'.rv
        BY <1>1, <1>3 DEF Contract!Instance
    <2>2. Prefix(b.log, object.log)
        BY <1>3, <2>1 DEF Remembered
    <2>3. ASSUME object'.log = b.log PROVE object.log = b.log
        <3>1. object.log \in Seq(Contents) /\ Len(object.log) = Len(b.log)
            BY <1>1, <1>3, <2>1, <2>2, <2>3 DEF Prefix, Contract!Instance
        <3>2. \A i \in 1..Len(b.log) : object.log[i] = b.log[i]
            BY <2>2 DEF Prefix
        <3> QED BY <1>1, <3>1, <3>2
    <2> QED BY <1>3, <2>1, <2>2, <2>3
<1>4. ~(object = Gone /\ object'.uid = births + 1)
    BY <1>1
<1> QED BY <1>2, <1>3, <1>4 DEF ObjectMoves

\* The baseline of a call that can be retried, and its numbers.
LEMMA RetriableTyped ==
    ASSUME IInv, NEW c \in Clients, pc[c] # "idle", Retriable(call[c])
    PROVE  /\ call[c] \in Call /\ call[c].base \in Contract!Instance
           /\ Remembered(call[c].base) /\ call[c].intent \in Contract!Command
           /\ call[c].intent.rv \in Nat /\ call[c].attempt \in 0..(Attempts - 1)
           /\ call[c].attempt \in Nat
           /\ call[c].base.rv \in Nat \ {0} /\ call[c].base.uid \in Nat \ {0}
           /\ call[c].base.log \in Seq(Contents) /\ Len(call[c].base.log) >= 1
<1>1. call[c] \in Call /\ Baseline(call[c])
    BY DEF IInv, CallOK, Begun
<1>2. /\ call[c].base \in Contract!Instance /\ Remembered(call[c].base)
      /\ call[c].intent \in Contract!Command /\ call[c].attempt \in 0..(Attempts - 1)
    BY <1>1 DEF Call, Baseline, Retriable
<1> QED BY <1>1, <1>2, SubmissionAssumption
        DEF Contract!Instance, Contract!Command, Remembered, Retriable

\* A client that does not move keeps it, whatever happens to the instance.
LEMMA DriftStays ==
    ASSUME IInv, ObjectMoves, NEW c \in Clients, DriftOK(c),
           pc'[c] = pc[c], call'[c] = call[c], read'[c] = read[c], answer'[c] = answer[c]
    PROVE  DriftOK(c)'
<1> SUFFICES ASSUME pc[c] \notin {"idle", "read"}, Retriable(call[c])
             PROVE  DriftOK(c)'
    BY DEF DriftOK
<1> DEFINE k == call[c]
           b == call[c].base
<1>1. /\ b \in Contract!Instance /\ b # Gone /\ Remembered(b)
      /\ k.intent.rv \in Nat /\ b.rv \in Nat /\ k.attempt \in Nat
    BY RetriableTyped DEF Retriable
<1>2. object' # Gone /\ object'.uid = b.uid =>
           /\ object # Gone /\ object \in Contract!Instance /\ object.uid = b.uid
           /\ object' \in Contract!Instance /\ object.rv <= object'.rv
           /\ Prefix(b.log, object.log) /\ Prefix(object.log, object'.log)
           /\ object'.log = b.log => object.log = b.log
    BY <1>1, SameInstance
<1>3. Tracked(k)
    BY DEF DriftOK
<1>4. object' # Gone /\ object'.uid = b.uid => k.intent.rv <= object'.rv
    BY <1>1, <1>2, <1>3 DEF Tracked, Contract!Instance
<1>5. Tracked(call[c])'
    BY <1>3, <1>4 DEF Tracked, Contract!Exact, Contract!UidOf, Contract!GenerationOf
<1>6. pc[c] = "put" /\ read[c] = Gone => object' = Gone \/ object'.uid # b.uid
    BY <1>2 DEF DriftOK
<1>7. ASSUME pc[c] = "answered", answer[c].outcome = "ResourceVersionConflict",
             object' # Gone, object'.uid = b.uid, object'.log = b.log
      PROVE  Overtaken(call[c])'
    <2>1. SameRevisions(k) /\ Overtaken(k)
        BY <1>2, <1>7 DEF DriftOK, SameRevisions
    <2>2. object'.log = object.log /\ object'.uid = object.uid
        BY <1>2, <1>7
    <2>3. object'.rv > k.intent.rv
        BY <1>1, <1>2, <1>7, <2>1 DEF Overtaken, Contract!Instance
    <2> QED BY <1>2, <1>7, <2>1, <2>2, <2>3
            DEF Overtaken, Contract!Exact, Contract!UidOf, Contract!GenerationOf
<1> QED BY <1>5, <1>6, <1>7 DEF DriftOK, SameRevisions

\* A command that was refused for its resourceVersion was overtaken: o is the copy
\* that passed the other checks.
LEMMA ConflictIsOvertaken ==
    ASSUME IInv, NEW c \in Clients, pc[c] # "idle", Retriable(call[c]),
           Tracked(call[c]), SameRevisions(call[c]),
           NEW o \in Contract!Instance, o # Gone, Remembered(o),
           Contract!Exact(o, call[c].intent),
           Fidelity[o.log[1]] = Fidelity[call[c].intent.content],
           o.uid = object.uid, o = object \/ o.rv = call[c].intent.rv,
           object.rv # call[c].intent.rv
    PROVE  Overtaken(call[c])
<1> DEFINE intent == call[c].intent
           b == call[c].base
<1>1. /\ b \in Contract!Instance /\ b # Gone /\ b.uid = object.uid /\ b.log = object.log
      /\ intent.rv \in Nat /\ object \in Contract!Instance /\ object # Gone
      /\ object.rv \in Nat /\ o.rv # 0 /\ o.log \in Seq(Contents)
    BY RetriableTyped DEF Retriable, SameRevisions, IInv, TypeOK, Contract!Instance
<1>2. /\ o.uid = intent.uid /\ Len(o.log) = intent.gen
      /\ Len(o.log) >= 1 /\ Prefix(o.log, object.log)
    BY <1>1 DEF Contract!Exact, Contract!UidOf, Contract!GenerationOf, Remembered
<1>3. Contract!Exact(b, intent)
    <2>1. CASE o = object
        BY <1>1, <1>2, <2>1 DEF Contract!Exact, Contract!UidOf, Contract!GenerationOf
    <2>2. CASE o.rv = intent.rv
        BY <1>1, <2>2 DEF Tracked
    <2> QED BY <2>1, <2>2
<1>4. Contract!Exact(object, intent)
    BY <1>1, <1>3 DEF Contract!Exact, Contract!UidOf, Contract!GenerationOf
<1>5. intent.rv # 0 /\ intent.rv <= object.rv
    BY <1>1, <1>3 DEF Tracked
<1>6. object.rv > intent.rv
    BY <1>1, <1>5
<1>7. object.log[1] = o.log[1]
    BY <1>1, <1>2 DEF Prefix
<1> QED BY <1>4, <1>5, <1>6, <1>7 DEF Overtaken

-----------------------------------------------------------------------------
\* A command ends: what a conflict means is shown where it is found.
LEMMA AnswerTracks ==
    ASSUME IInv, ObjectMoves, NEW c \in Clients, DriftOK(c), NEW reply \in Contract!Answer,
           pc[c] \in {"get", "put", "reread"}, AnswerCommand(c, reply),
           reply.outcome = "ResourceVersionConflict" =>
               /\ UNCHANGED object
               /\ Retriable(call[c]) /\ SameRevisions(call[c]) => Overtaken(call[c])
    PROVE  DriftOK(c)'
<1>1. TypedClients
    BY InvariantParts
<1>2. pc'[c] = "answered" /\ call'[c] = call[c] /\ answer'[c] = reply
    BY <1>1 DEF TypedClients, AnswerCommand
<1> SUFFICES ASSUME Retriable(call[c]) PROVE DriftOK(c)'
    BY <1>2 DEF DriftOK, Retriable
<1>3. /\ call[c].base \in Contract!Instance /\ call[c].base # Gone
      /\ Remembered(call[c].base) /\ call[c].intent.rv \in Nat
    BY RetriableTyped DEF Retriable
<1>4. Tracked(call[c])
    BY DEF DriftOK
<1>5. Tracked(call[c])'
    <2>1. object' # Gone /\ object'.uid = call[c].base.uid =>
               call[c].intent.rv <= object'.rv
        BY <1>3, <1>4, SameInstance DEF Tracked, Contract!Instance
    <2> QED BY <1>2, <1>4, <2>1
            DEF Tracked, Contract!Exact, Contract!UidOf, Contract!GenerationOf
<1>6. reply.outcome = "ResourceVersionConflict" /\ SameRevisions(call[c])'
         => Overtaken(call[c])'
    BY <1>2 DEF SameRevisions, Overtaken, Contract!Exact, Contract!UidOf,
                Contract!GenerationOf
<1> QED BY <1>2, <1>5, <1>6 DEF DriftOK

\* A command is sent with what was just read.
LEMMA SendTracks ==
    ASSUME IInv, NEW c \in Clients, NEW next, Send(c, next),
           Retriable(next) => Tracked(next)
    PROVE  DriftOK(c)'
<1>1. TypedClients
    BY InvariantParts
<1>2. pc'[c] = "get" /\ call'[c] = next /\ object' = object
    BY <1>1 DEF TypedClients, Send
<1>3. Retriable(call[c])' => Tracked(call[c])'
    BY <1>2 DEF Retriable, Tracked, Contract!Exact, Contract!UidOf, Contract!GenerationOf
<1> QED BY <1>2, <1>3 DEF DriftOK

LEMMA StartTracks ==
    ASSUME IInv, NEW c \in Clients, StartCall(c)
    PROVE  DriftOK(c)'
<1>1. pc'[c] = "read" /\ call'[c].intent.rv = 0 /\ call'[c].attempt = 0
    BY InvariantParts DEF TypedClients, StartCall, Request
<1> QED BY <1>1 DEF DriftOK

LEMMA EndTracks == ASSUME IInv, NEW c \in Clients, EndCall(c) PROVE DriftOK(c)'
<1>1. pc'[c] = "idle"
    BY InvariantParts DEF TypedClients, EndCall
<1> QED BY <1>1 DEF DriftOK

LEMMA PreflightApplyTracks ==
    ASSUME IInv, NEW c \in Clients, DriftOK(c), PreflightApply(c)
    PROVE  DriftOK(c)'
<1> DEFINE k == call[c]
           next == [k EXCEPT !.base = object, !.intent = Bound(@, object)]
<1>1. /\ k \in Call /\ k.intent \in Contract!Command
      /\ k.intent.rv = 0 /\ k.attempt = 0 /\ Send(c, next)
      /\ object \in Contract!Instance \union {Gone}
    BY DEF PreflightApply, DriftOK, IInv, TypeOK, CallOK, Begun, Call
<1>2. /\ next.base = object /\ next.attempt = 0 /\ next.intent = Bound(k.intent, object)
    BY <1>1 DEF Call
<1>3. ASSUME Retriable(next) PROVE Tracked(next)
    <2>1. object # Gone /\ object.rv \in Nat \ {0} /\ object \in Contract!Instance
        BY <1>1, <1>2, <1>3 DEF Retriable, Contract!Instance
    <2>2. CASE Contract!Exact(object, k.intent)
        <3>1. /\ next.intent.rv = object.rv /\ next.intent.uid = k.intent.uid
              /\ next.intent.gen = k.intent.gen
            BY <1>1, <1>2, <2>1, <2>2 DEF Bound, Contract!VersionOf, Contract!Command
        <3>2. Contract!Exact(object, next.intent)
            BY <2>2, <3>1 DEF Contract!Exact
        <3> HIDE DEF next
        <3>3. object.rv >= object.rv + 0 /\ object.rv <= object.rv
            BY <2>1
        <3> QED BY <1>2, <2>1, <3>1, <3>2, <3>3 DEF Tracked
    <2>3. CASE ~Contract!Exact(object, k.intent)
        <3>1. next.intent = k.intent
            BY <1>2, <2>3 DEF Bound
        <3> HIDE DEF next
        <3>2. next.intent.rv = 0 /\ ~Contract!Exact(next.base, next.intent)
            BY <1>1, <1>2, <2>3, <3>1
        <3>3. object.rv >= 0
            BY <2>1
        <3> QED BY <1>2, <3>2, <3>3 DEF Tracked
    <2> QED BY <2>2, <2>3
<1> HIDE DEF next
<1> QED BY <1>1, <1>3, SendTracks

LEMMA ReadReviseTracks ==
    ASSUME IInv, NEW c \in Clients, DriftOK(c), ReadRevise(c)
    PROVE  DriftOK(c)'
<1> DEFINE k == call[c]
           next == Revised(k, object)
<1>1. /\ k \in Call /\ k.intent \in Contract!Command /\ k.attempt = 0 /\ Send(c, next)
      /\ object # Gone /\ object \in Contract!Instance
      /\ Contract!Exact(object, k.intent)
    BY DEF ReadRevise, DriftOK, IInv, TypeOK, CallOK, Begun, Call
<1>2. object.rv \in Nat \ {0}
    BY <1>1 DEF Contract!Instance
<1>3. /\ next.base = object /\ next.attempt = 0 /\ next.intent.rv = object.rv
      /\ next.intent.uid = k.intent.uid /\ next.intent.gen = k.intent.gen
    BY <1>1 DEF Revised, Call, Contract!Command
<1>4. Contract!Exact(object, next.intent)
    BY <1>1, <1>3 DEF Contract!Exact
<1> HIDE DEF next
<1>5. object.rv >= object.rv + 0 /\ object.rv <= object.rv
    BY <1>2
<1>6. Tracked(next)
    BY <1>2, <1>3, <1>4, <1>5 DEF Tracked
<1> QED BY <1>1, <1>6, SendTracks

LEMMA ReadDeleteTracks ==
    ASSUME IInv, NEW c \in Clients, ReadDelete(c)
    PROVE  DriftOK(c)'
<1> DEFINE next == [call[c] EXCEPT !.base = object]
<1>1. /\ call[c] \in Call /\ call[c].intent.verb = "delete" /\ Send(c, next)
    BY DEF ReadDelete, IInv, CallOK, Begun
<1>2. ~Retriable(next)
    BY <1>1 DEF Retriable, Call
<1> HIDE DEF next
<1> QED BY <1>1, <1>2, SendTracks

\* For good means the same command, bound to the same resourceVersion.
LEMMA SubmitForGoodTracks ==
    ASSUME IInv, NEW c \in Clients, DriftOK(c), SubmitForGood(c)
    PROVE  DriftOK(c)'
<1> DEFINE k == call[c]
           next == [k EXCEPT !.intent = [@ EXCEPT !.verb = "submit"], !.attempt = 0]
<1>1. /\ k \in Call /\ k.intent \in Contract!Command /\ Send(c, next)
      /\ pc[c] = "answered" /\ k.intent.verb = "dry-run" /\ k.attempt \in Nat
    BY SubmissionAssumption
       DEF SubmitForGood, DryRunDone, Sent, IInv, CallOK, Begun, Call
<1>2. /\ next.base = k.base /\ next.attempt = 0 /\ next.intent.rv = k.intent.rv
      /\ next.intent.uid = k.intent.uid /\ next.intent.gen = k.intent.gen
    BY <1>1 DEF Call, Contract!Command
<1> HIDE DEF next
<1>3. ASSUME Retriable(next) PROVE Tracked(next)
    <2>1. Retriable(k) /\ Tracked(k)
        BY <1>1, <1>2, <1>3 DEF Retriable, DriftOK
    <2>2. Contract!Exact(next.base, next.intent) = Contract!Exact(k.base, k.intent)
        BY <1>2 DEF Contract!Exact
    <2>3. k.base.rv \in Nat /\ k.intent.rv \in Nat
        BY <1>1, <2>1, RetriableTyped
    <2>4. next.intent.rv # 0 => next.intent.rv >= next.base.rv + next.attempt
        BY <1>1, <1>2, <2>1, <2>3 DEF Tracked
    <2> QED BY <1>2, <2>1, <2>2, <2>4 DEF Tracked
<1> QED BY <1>1, <1>3, SendTracks

\* A retry is bound to a later resourceVersion than the attempt that failed.
LEMMA RetryTracks ==
    ASSUME IInv, NEW c \in Clients, DriftOK(c), Retry(c)
    PROVE  DriftOK(c)'
<1> DEFINE k == call[c]
           next == [k EXCEPT !.intent = Rebased(@, object), !.attempt = @ + 1]
<1>1. /\ k \in Call /\ k.intent \in Contract!Command /\ Send(c, next)
      /\ pc[c] = "answered" /\ MayRetry(c) /\ Undisturbed(object, k.base, k.intent)
    BY DEF Retry, Sent, IInv, CallOK, Begun, Call
<1>2. /\ Retriable(k) /\ SameRevisions(k)
      /\ answer[c].outcome = "ResourceVersionConflict"
    BY <1>1 DEF MayRetry, Sent, Undisturbed, Retriable, SameRevisions
<1>3. Tracked(k) /\ Overtaken(k)
    BY <1>1, <1>2 DEF DriftOK
<1>4. /\ k.base.rv \in Nat /\ k.intent.rv \in Nat /\ k.attempt \in Nat
      /\ k.base \in Contract!Instance
    BY <1>1, <1>2, RetriableTyped
<1>5. object \in Contract!Instance /\ object.rv \in Nat \ {0} /\ object # Gone
    BY <1>2 DEF SameRevisions, IInv, TypeOK, Contract!Instance
<1>6. /\ next.base = k.base /\ next.attempt = k.attempt + 1
      /\ next.intent.rv = object.rv
      /\ next.intent.uid = k.intent.uid /\ next.intent.gen = k.intent.gen
    BY <1>1 DEF Call, Contract!Command, Rebased
<1> HIDE DEF next
<1>7. object.rv >= next.base.rv + next.attempt
    <2>1. object.rv > k.intent.rv /\ k.intent.rv >= k.base.rv + k.attempt
        BY <1>3 DEF Tracked, Overtaken
    <2> QED BY <1>4, <1>5, <1>6, <2>1
<1>8. Contract!Exact(next.base, next.intent)
    BY <1>2, <1>3, <1>5, <1>6
       DEF Overtaken, SameRevisions, Retriable, Contract!Exact, Contract!UidOf,
           Contract!GenerationOf
<1>9. Tracked(next)
    BY <1>5, <1>6, <1>7, <1>8 DEF Tracked
<1> QED BY <1>1, <1>9, SendTracks

LEMMA GetTracks ==
    ASSUME IInv, NEW c \in Clients, DriftOK(c), Get(c)
    PROVE  DriftOK(c)'
<1> DEFINE outcome == Check(object, command[c])
<1>1. /\ TypedClients /\ ObjectMoves /\ pc[c] = "get" /\ command[c] = call[c].intent
      /\ UNCHANGED object /\ object \in Contract!Instance \union {Gone}
    BY InvariantParts, CommandTyped DEF Get, ObjectMoves, Stored
<1>2. CASE outcome = "none" /\ read' = [read EXCEPT ![c] = object]
           /\ pc' = [pc EXCEPT ![c] = "put"] /\ UNCHANGED <<call, command, answer, calls>>
    <2>1. /\ pc'[c] = "put" /\ call'[c] = call[c]
          /\ read'[c] = object /\ object' = object
        BY <1>1, <1>2 DEF TypedClients
    <2>2. Retriable(call[c]) => Tracked(call[c])
        BY <1>1 DEF DriftOK
    <2>3. Retriable(call[c])' => Tracked(call[c])'
        BY <2>1, <2>2
           DEF Retriable, Tracked, Contract!Exact, Contract!UidOf, Contract!GenerationOf
    <2> QED BY <2>1, <2>3 DEF DriftOK
<1>3. CASE outcome = "no-op" /\ AnswerCommand(c, Contract!Receipt("no-op", object))
    <2>1. Contract!Receipt("no-op", object) \in Contract!Answer
          /\ Contract!Receipt("no-op", object).outcome = "no-op"
        BY <1>1 DEF Contract!Receipt, Contract!Answer, Contract!Outcomes, Contract!UidOf,
                    Contract!GenerationOf, Contract!Instance
    <2> QED BY <1>1, <1>3, <2>1, AnswerTracks
<1>4. CASE outcome \in Contract!Errors /\ AnswerCommand(c, Contract!Refusal(outcome))
    <2>1. Contract!Refusal(outcome) \in Contract!Answer
          /\ Contract!Refusal(outcome).outcome = outcome
        BY <1>4 DEF Contract!Refusal, Contract!Answer, Contract!Outcomes
    <2>2. ASSUME outcome = "ResourceVersionConflict", Retriable(call[c]),
                 SameRevisions(call[c])
          PROVE  Overtaken(call[c])
        <3>1. /\ object \in Contract!Instance /\ object # Gone /\ Remembered(object)
              /\ Tracked(call[c]) /\ command[c].verb # "delete"
            BY <1>1, <2>2, CurrentRemembered DEF SameRevisions, Retriable, DriftOK
        <3>2. UpdateCheck(object, command[c]) = "ResourceVersionConflict"
            BY <2>2, <3>1 DEF Check
        <3>3. /\ Contract!Exact(object, call[c].intent)
              /\ Fidelity[object.log[1]] = Fidelity[call[c].intent.content]
              /\ object.rv # call[c].intent.rv
            BY <1>1, <3>1, <3>2
               DEF UpdateCheck, Contract!FidelityDiffers, Contract!SameDigest,
                   Contract!Exact, Contract!UidOf, Contract!GenerationOf
        <3> QED BY <1>1, <2>2, <3>1, <3>3, ConflictIsOvertaken
    <2> HIDE DEF outcome
    <2> QED BY <1>1, <1>4, <2>1, <2>2, AnswerTracks
<1> QED BY <1>2, <1>3, <1>4 DEF Get

LEMMA PutRefusedTracks ==
    ASSUME IInv, NEW c \in Clients, DriftOK(c), PutRefused(c)
    PROVE  DriftOK(c)'
<1> DEFINE outcome == IF object # Gone THEN "ResourceVersionConflict"
                      ELSE IF command[c].verb = "delete" THEN "NotFound"
                      ELSE "Unavailable"
<1>1. /\ pc[c] = "put" /\ ~Unchanged(c) /\ command[c] = call[c].intent
      /\ UNCHANGED <<object, births, version, accepted>>
      /\ AnswerCommand(c, Contract!Refusal(outcome))
      /\ Check(read[c], command[c]) = "none" /\ Remembered(read[c])
      /\ read[c] \in Contract!Instance \union {Gone}
    BY CommandTyped DEF PutRefused, IInv, TypeOK, ReadOK
<1>2. ObjectMoves
    BY <1>1 DEF ObjectMoves
<1>3. Contract!Refusal(outcome) \in Contract!Answer
      /\ Contract!Refusal(outcome).outcome = outcome
    BY DEF Contract!Refusal, Contract!Answer, Contract!Outcomes, Contract!Errors
<1>4. ASSUME Retriable(call[c]), SameRevisions(call[c]) PROVE Overtaken(call[c])
    <2>1. read[c] # Gone /\ read[c] \in Contract!Instance /\ Tracked(call[c])
        BY <1>1, <1>4 DEF DriftOK, SameRevisions
    <2>2. UpdateCheck(read[c], call[c].intent) = "none"
        BY <1>1, <1>4, <2>1 DEF Check, Retriable
    <2>3. /\ Contract!Exact(read[c], call[c].intent)
          /\ Fidelity[read[c].log[1]] = Fidelity[call[c].intent.content]
          /\ read[c].rv = call[c].intent.rv
        BY <2>1, <2>2
           DEF UpdateCheck, Contract!FidelityDiffers, Contract!SameDigest,
               Contract!Exact, Contract!UidOf, Contract!GenerationOf
    <2>4. object # Gone /\ object.rv # call[c].intent.rv
        BY <1>1, <1>4, <2>1, <2>3 DEF SameRevisions, Unchanged, Contract!VersionOf
    <2>5. read[c].uid = object.uid
        <3>1. call[c].intent.rv # 0
            BY <2>1, <2>3 DEF Contract!Instance
        <3>2. Contract!Exact(call[c].base, call[c].intent)
            BY <2>1, <3>1 DEF Tracked
        <3> QED BY <1>4, <2>1, <2>3, <3>2
                DEF Contract!Exact, Contract!UidOf, Retriable, SameRevisions
    <2> QED BY <1>1, <1>4, <2>1, <2>3, <2>4, <2>5, ConflictIsOvertaken
<1> HIDE DEF outcome
<1> QED BY <1>1, <1>2, <1>3, <1>4, AnswerTracks

LEMMA PutTracks ==
    ASSUME IInv, NEW c \in Clients, DriftOK(c), Put(c), ObjectMoves, TypedClients'
    PROVE  DriftOK(c)'
<1>1. pc[c] = "put" /\ TypedClients /\ command[c] = call[c].intent
    BY InvariantParts, CommandTyped DEF Put
<1>2. CASE command[c].verb = "delete"
    <2>1. call'[c] = call[c] /\ pc'[c] = "reread"
        BY <1>1, <1>2 DEF Put, TypedClients
    <2> QED BY <1>1, <1>2, <2>1 DEF DriftOK, Retriable
<1>3. CASE command[c].verb # "delete"
    <2>1. AnswerCommand(c, Accepted(c))
        BY <1>3 DEF Put
    <2>2. Accepted(c).outcome # "ResourceVersionConflict"
        BY DEF Accepted, Contract!Refusal, Contract!Receipt
    <2>3. answer' = [answer EXCEPT ![c] = Accepted(c)]
        BY <2>1 DEF AnswerCommand
    <2>4. Accepted(c) \in Contract!Answer
        BY <1>1, <2>3 DEF TypedClients
    <2> QED BY <1>1, <2>1, <2>2, <2>4, AnswerTracks
<1> QED BY <1>2, <1>3

\* A deletion is never retried; a lost answer is not a conflict.
LEMMA RereadTracks ==
    ASSUME IInv, NEW c \in Clients, Reread(c)
    PROVE  DriftOK(c)'
<1>1. call'[c] = call[c] /\ call[c].intent.verb = "delete" /\ pc'[c] = "answered"
    BY InvariantParts DEF Reread, AnswerCommand, TypedClients, ClientOK, CommandOK
<1> QED BY <1>1 DEF DriftOK, Retriable

LEMMA LoseAnswerTracks ==
    ASSUME IInv, NEW c \in Clients, DriftOK(c), LoseAnswer(c), ObjectMoves
    PROVE  DriftOK(c)'
<1>1. /\ Contract!Refusal("Unavailable") \in Contract!Answer
      /\ Contract!Refusal("Unavailable").outcome # "ResourceVersionConflict"
    BY DEF Contract!Refusal, Contract!Answer, Contract!Outcomes, Contract!Errors
<1> QED BY <1>1, AnswerTracks DEF LoseAnswer

LEMMA DriftKeeps == ASSUME IInv, DriftInv, [Next]_vars PROVE DriftInv'
<1>1. ObjectMoves /\ IInv' /\ TypedClients /\ TypedClients'
    BY StepMoves, NextKeeps DEF IInv, TypeOK, TypedClients
<1>2. ASSUME NEW c \in Clients,
             pc'[c] = pc[c], call'[c] = call[c], read'[c] = read[c], answer'[c] = answer[c]
      PROVE  DriftOK(c)'
    BY <1>1, <1>2, DriftStays DEF DriftInv
<1>3. CASE UNCHANGED vars \/ CommitStatus \/ CompleteDeletion
    BY <1>2, <1>3 DEF DriftInv, vars, contractVars, CommitStatus, CompleteDeletion
<1>4. ASSUME NEW c \in Clients, ClientStep(c) PROVE DriftInv'
    <2>1. DriftOK(c)'
        <3>1. DriftOK(c)
            BY DEF DriftInv
        <3>2. RejectRequest(c) \/ Return(c) => EndCall(c)
            BY DEF RejectRequest, Return
        <3> QED BY <1>1, <1>4, <3>1, <3>2, StartTracks, EndTracks, PreflightApplyTracks,
                   ReadReviseTracks, ReadDeleteTracks, GetTracks, PutTracks, RereadTracks,
                   PutRefusedTracks, LoseAnswerTracks, SubmitForGoodTracks, RetryTracks
                DEF ClientStep
    <2>2. ASSUME NEW d \in Clients, d # c PROVE DriftOK(d)'
        <3>1. /\ pc'[d] = pc[d] /\ call'[d] = call[d]
              /\ read'[d] = read[d] /\ answer'[d] = answer[d]
            BY <1>1, <1>4, <2>2
               DEF TypedClients, ClientStep, StartCall, PreflightApply, ReadRevise,
                   ReadDelete, RejectRequest, Get, Put, Reread, PutRefused, LoseAnswer,
                   SubmitForGood, Retry, Return, Send, EndCall, AnswerCommand, contractVars
        <3> QED BY <1>2, <3>1
    <2> QED BY <2>1, <2>2 DEF DriftInv
<1> QED BY <1>3, <1>4 DEF Next

\* A few status commits of the controller do not make a revision fail: a call that
\* gives up on a conflict, with the instance of its baseline still there and neither
\* revised nor being deleted, lost each of its attempts to another commit
\* (submitRevisionWithStatusDriftRetry and validateRevisionRetry).
THEOREM StatusDriftIsToleratedAlways == Spec => StatusDriftIsTolerated
<1>1. Init => DriftInv
    BY DEF Init, DriftInv, DriftOK
<1>2. ASSUME IInv, DriftInv, [Next]_vars, NEW c \in Clients,
             pc[c] = "answered", pc'[c] = "idle",
             answer[c].outcome = "ResourceVersionConflict",
             call[c].verb \in {"apply", "revise"}, call[c].base # Gone,
             ~call[c].base.deleting, SameButStatus(object, call[c].base)
      PROVE  object.rv - call[c].base.rv >= Attempts
    <2> DEFINE k == call[c]
    <2>1. /\ k \in Call /\ (k.verb = "delete") = (k.intent.verb = "delete")
        BY <1>2 DEF IInv, CallOK, Begun
    <2>2. Retriable(k) /\ SameRevisions(k) /\ ~object.deleting
        BY <1>2, <2>1 DEF Retriable, SameRevisions, SameButStatus
    <2>3. Tracked(k) /\ Overtaken(k)
        BY <1>2, <2>2 DEF DriftInv, DriftOK
    <2>4. /\ k.base.rv \in Nat /\ k.intent.rv \in Nat /\ k.attempt \in 0..(Attempts - 1)
          /\ object \in Contract!Instance /\ object.rv \in Nat /\ Attempts \in Nat
          /\ object # Gone /\ Len(object.log) >= 1 /\ object.uid # 0
        <3>1. object \in Contract!Instance /\ object # Gone /\ Len(object.log) >= 1
            BY <1>2, <2>2 DEF SameRevisions, IInv, TypeOK
        <3> QED BY <1>2, <2>2, <3>1, RetriableTyped, SubmissionAssumption
                DEF Contract!Instance
    <2>5. Undisturbed(object, k.base, k.intent)
        BY <1>2, <2>2, <2>3 DEF Undisturbed, Overtaken, SameButStatus
    <2>6. Return(c)
        <3>1. PICK d \in Clients : ClientStep(d)
            BY <1>2 DEF Next, vars, contractVars, CommitStatus, CompleteDeletion
        <3>2. \E s \in {"idle", "read", "get", "put", "reread", "answered"} :
                    pc' = [pc EXCEPT ![d] = s]
            BY <3>1 DEF ClientStep, StartCall, PreflightApply, ReadRevise, ReadDelete,
                        RejectRequest, Get, Put, Reread, PutRefused, LoseAnswer,
                        SubmitForGood, Retry, Return, Send, EndCall, AnswerCommand
        <3>3. d = c
            BY <1>2, <3>2 DEF IInv, TypeOK
        <3>4. pc'[c] # "get"
            BY <1>2
        <3> QED BY <1>2, <3>1, <3>3, InvariantParts
                DEF ClientStep, StartCall, PreflightApply, ReadRevise, ReadDelete,
                    RejectRequest, Get, Put, Reread, PutRefused, LoseAnswer,
                    SubmitForGood, Retry, Send, TypedClients
    <2>7. k.attempt >= Attempts - 1
        <3>1. ~MayRetry(c)
            BY <2>5, <2>6 DEF Return, Sent
        <3>2. k.intent.uid # 0 /\ k.intent.gen # 0
            BY <2>3, <2>4 DEF Overtaken, Contract!Exact, Contract!UidOf,
                              Contract!GenerationOf
        <3>3. ~(k.attempt < Attempts - 1)
            BY <1>2, <2>2, <3>1, <3>2 DEF MayRetry, Sent, Retriable
        <3> QED BY <2>4, <3>3
    <2>8. object.rv > k.intent.rv /\ k.intent.rv >= k.base.rv + k.attempt
        BY <2>3 DEF Tracked, Overtaken
    <2> QED BY <2>4, <2>7, <2>8
<1>3. IInv /\ DriftInv /\ [Next]_vars =>
        \A c \in Clients :
            /\ pc[c] = "answered" /\ pc'[c] = "idle"
            /\ answer[c].outcome = "ResourceVersionConflict"
            /\ call[c].verb \in {"apply", "revise"} /\ call[c].base # Gone
            /\ ~call[c].base.deleting /\ SameButStatus(object, call[c].base)
            => object.rv - call[c].base.rv >= Attempts
    BY <1>2
<1>4. IInv /\ DriftInv /\ [Next]_vars => DriftInv'
    BY DriftKeeps
<1> QED BY <1>1, <1>3, <1>4, InductiveInvariant, PTL DEF Spec, StatusDriftIsTolerated

-----------------------------------------------------------------------------
(***************************************************************************)
(* The reads and writes of the adapter implement the atomic commands.      *)
(***************************************************************************)

\* Sending a command invokes it.
LEMMA SendInvokes ==
    ASSUME IInv, NEW c \in Clients, pc[c] \in {"read", "answered"},
           NEW next, Begun(next), Send(c, next)
    PROVE  Contract!Invoke(c)
<1>1. /\ TypedClients /\ command[c] = NoCommand
      /\ next.intent \in Contract!Command /\ next.intent.verb # "deleted"
    BY InvariantParts DEF ClientOK, CommandOK, Begun, Call
<1>2. /\ command' = [command EXCEPT ![c] = next.intent]
      /\ answer' = [answer EXCEPT ![c] = Contract!NoAnswer]
      /\ UNCHANGED <<object, births, version>>
    BY DEF Send
<1>3. command'[c] = next.intent
    BY <1>1, <1>2 DEF TypedClients
<1> QED BY <1>1, <1>2, <1>3 DEF Contract!Invoke

\* A command the adapter has is not decided yet, before its write.
LEMMA NotDecided ==
    ASSUME IInv, NEW c \in Clients, pc[c] \in {"get", "put"}
    PROVE  Contract!Undecided(c)
<1>1. command[c] \in Contract!Command /\ command[c].verb \in {"dry-run", "submit", "delete"}
    BY CommandTyped
<1> QED BY <1>1, SubmissionAssumption DEF Contract!Undecided

\* When the API server refuses a write, the instance is not as it was read: the
\* error is true of it, whatever it was that moved.
LEMMA RefusalIsTrue ==
    ASSUME IInv, NEW c \in Clients, pc[c] = "put", ~Unchanged(c), object # Gone
    PROVE  Contract!Truthful("ResourceVersionConflict", object, command[c])
<1>1. /\ Check(read[c], command[c]) = "none" /\ command[c] \in Contract!Command
      /\ command[c].verb \in {"dry-run", "submit", "delete"}
      /\ read[c] \in Contract!Instance \union {Gone}
    BY CommandTyped DEF IInv, TypeOK, ReadOK
<1>2. command[c].verb # "delete" => Contract!VersionOf(read[c]) = command[c].rv
    BY <1>1 DEF Check, CreateCheck, UpdateCheck, Contract!VersionOf
<1> QED BY <1>2 DEF Contract!Truthful, Unchanged

LEMMA GetImplements ==
    ASSUME IInv, NEW c \in Clients, Get(c)
    PROVE  Contract!Next \/ UNCHANGED contractVars
<1>1. /\ pc[c] = "get" /\ UNCHANGED <<object, births, version>>
      /\ Contract!Undecided(c)
      /\ object \in Contract!Instance \union {Gone}
      /\ command[c] \in Contract!Command
      /\ command[c].verb \in {"dry-run", "submit", "delete"}
    BY CommandTyped, NotDecided DEF Get, IInv, TypeOK
<1> DEFINE outcome == Check(object, command[c])
<1>2. CASE UNCHANGED <<call, command, answer, calls>>
    BY <1>1, <1>2 DEF contractVars
<1>3. ASSUME outcome = "no-op", AnswerCommand(c, Contract!Receipt("no-op", object))
      PROVE  Contract!Repeat(c)
    BY <1>1, <1>3, CheckIsTrue DEF Contract!Repeat, AnswerCommand
<1>4. ASSUME outcome \in Contract!Errors, AnswerCommand(c, Contract!Refusal(outcome))
      PROVE  Contract!Refuse(c)
    <2>1. Contract!Truthful(outcome, object, command[c])
        BY <1>1, <1>4, CheckIsTrue
    <2> HIDE DEF outcome
    <2> QED BY <1>1, <1>4, <2>1 DEF Contract!Refuse, AnswerCommand
<1> QED BY <1>2, <1>3, <1>4 DEF Get, Contract!Next

LEMMA PutImplements ==
    ASSUME IInv, NEW c \in Clients, Put(c)
    PROVE  Contract!Next
<1>1. Contract!Apply(c)
    BY WriteMoves DEF Put
<1>2. CASE /\ command[c].verb = "delete"
           /\ command' = [command EXCEPT ![c].verb = "deleted"]
           /\ UNCHANGED <<answer, read, call, calls>>
    BY <1>1, <1>2 DEF Contract!AcceptDeletion, Contract!Next
<1>3. CASE command[c].verb # "delete" /\ AnswerCommand(c, Accepted(c))
    <2>1. Contract!Accept(c)
        BY <1>1, <1>3 DEF Contract!Accept, AnswerCommand, Accepted
    <2> QED BY <2>1 DEF Contract!Next
<1> QED BY <1>2, <1>3 DEF Put

\* The receipt of a deletion is the instance that was deleted, or another one of
\* the same name.
LEMMA RereadImplements ==
    ASSUME IInv, NEW c \in Clients, Reread(c)
    PROVE  Contract!Next
<1> DEFINE gone == [outcome |-> "accepted", uid |-> command[c].uid, gen |-> command[c].gen]
           found == IF object = Gone THEN read[c] ELSE object
           reply == Contract!Receipt("accepted", found)
<1>1. /\ pc[c] = "reread" /\ AnswerCommand(c, reply)
      /\ UNCHANGED <<object, births, version>>
    BY DEF Reread
<1>2. /\ read[c] # Gone /\ Contract!Exact(read[c], command[c])
      /\ command[c] = [call[c].intent EXCEPT !.verb = "deleted"]
      /\ call[c].intent \in Contract!Command
    BY <1>1 DEF IInv, ReadOK, CommandOK, CallOK, Begun, Call
<1>3. command[c] \in Contract!Command /\ command[c].verb = "deleted"
    BY <1>2 DEF Contract!Command, Contract!Verbs
<1>4. command[c] # NoCommand
    BY <1>3, SubmissionAssumption
<1>5. reply \in {Contract!Receipt("accepted", object), gone}
    BY <1>2 DEF Contract!Receipt, Contract!Exact, Contract!UidOf, Contract!GenerationOf
<1> HIDE DEF reply, gone
<1>6. Contract!AnswerDeletion(c)
    BY <1>1, <1>3, <1>4, <1>5 DEF Contract!AnswerDeletion, AnswerCommand, gone
<1> QED BY <1>6 DEF Contract!Next

LEMMA PutRefusedImplements ==
    ASSUME IInv, NEW c \in Clients, PutRefused(c)
    PROVE  Contract!Next
<1>1. /\ pc[c] = "put" /\ ~Unchanged(c) /\ Contract!Undecided(c)
      /\ UNCHANGED <<object, births, version>>
    BY NotDecided DEF PutRefused
<1>2. PICK error \in Contract!Errors :
            /\ AnswerCommand(c, Contract!Refusal(error))
            /\ Contract!Truthful(error, object, command[c])
    <2>1. CASE object # Gone
        BY <1>1, <2>1, RefusalIsTrue DEF PutRefused, Contract!Errors
    <2>2. CASE object = Gone
        BY <2>2 DEF PutRefused, Contract!Errors, Contract!Truthful
    <2> QED BY <2>1, <2>2
<1>3. Contract!Refuse(c)
    BY <1>1, <1>2 DEF Contract!Refuse, AnswerCommand
<1> QED BY <1>3 DEF Contract!Next

LEMMA LoseAnswerImplements ==
    ASSUME IInv, NEW c \in Clients, LoseAnswer(c)
    PROVE  Contract!Next
<1>1. /\ pc[c] \in {"get", "put", "reread"}
      /\ answer' = [answer EXCEPT ![c] = Contract!Refusal("Unavailable")]
      /\ command' = [command EXCEPT ![c] = NoCommand]
    BY DEF LoseAnswer, AnswerCommand
<1>2. CASE pc[c] = "put" /\ Unchanged(c) /\ Write(c)
    BY <1>1, <1>2, WriteMoves DEF Contract!LoseAnswer, Contract!Next
<1>3. CASE pc[c] \in {"get", "put"} /\ UNCHANGED <<object, births, version>>
    <2>1. Contract!Refuse(c)
        BY <1>1, <1>3, NotDecided DEF Contract!Refuse, Contract!Errors, Contract!Truthful
    <2> QED BY <2>1 DEF Contract!Next
<1>4. CASE pc[c] = "reread" /\ UNCHANGED <<object, births, version>>
    <2>1. /\ command[c] = [call[c].intent EXCEPT !.verb = "deleted"]
          /\ call[c].intent \in Contract!Command
        BY <1>4 DEF IInv, CommandOK, CallOK, Begun, Call
    <2>2. command[c] \in Contract!Command /\ command[c].verb = "deleted"
        BY <2>1 DEF Contract!Command, Contract!Verbs
    <2>3. command[c] # NoCommand
        BY <2>2, SubmissionAssumption
    <2>4. Contract!AnswerDeletion(c)
        BY <1>1, <1>4, <2>2, <2>3 DEF Contract!AnswerDeletion
    <2> QED BY <2>4 DEF Contract!Next
<1> QED BY <1>1, <1>2, <1>3, <1>4 DEF LoseAnswer

\* Initial states map to initial states and every step is a step of the contract,
\* or leaves its variables alone.
LEMMA NextImplements ==
    ASSUME IInv, [Next]_vars
    PROVE  [Contract!Next]_contractVars
<1>1. CASE UNCHANGED vars
    BY <1>1 DEF vars
<1>2. ASSUME NEW c \in Clients, ClientStep(c)
      PROVE  Contract!Next \/ UNCHANGED contractVars
    <2>1. StartCall(c) \/ RejectRequest(c) \/ Return(c) => UNCHANGED contractVars
        BY DEF StartCall, RejectRequest, Return, EndCall
    <2>2. Sends(c) => Contract!Next
        BY SendInvokes DEF Sends, Contract!Next
    <2> QED BY <1>2, <2>1, <2>2, PreflightApplySends, ReadReviseSends, ReadDeleteSends,
               SubmitForGoodSends, RetrySends, GetImplements, PutImplements,
               RereadImplements, PutRefusedImplements, LoseAnswerImplements
            DEF ClientStep
<1>3. CommitStatus => Contract!Next
    BY DEF CommitStatus, Contract!CommitStatus, Contract!Next
<1>4. CompleteDeletion => Contract!Next
    BY DEF CompleteDeletion, Contract!CompleteDeletion, Contract!Next
<1> QED BY <1>1, <1>2, <1>3, <1>4 DEF Next

\* The Kubernetes adapter, which reads, decides and writes in separate requests,
\* offers the commands the in-memory adapter executes under its mutex: each takes
\* effect, or is refused for a reason that holds, in one step (LIFE-006).
THEOREM CommandsAreAtomic == Spec => AtomicCommands
<1>1. Init => Contract!Init
    BY DEF Init
<1>2. IInv /\ [Next]_vars => [Contract!Next]_contractVars
    BY NextImplements
<1>3. IInv /\ [Next]_vars => [Contract!Next]_(Contract!contractVars)
    BY <1>2 DEF contractVars, Contract!contractVars
<1> QED BY <1>1, <1>3, InductiveInvariant, PTL DEF Spec, AtomicCommands, Contract!Spec
=============================================================================
