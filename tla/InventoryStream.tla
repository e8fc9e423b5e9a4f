-------------------------- MODULE InventoryStream --------------------------
(***************************************************************************)
(* The Cluster Simulation Inventory (internal/inventory) and the server    *)
(* that shows it (internal/ui).  One loop per collection lists it, watches *)
(* it from there, and starts over when the watch ends, or polls when it    *)
(* may list and not watch (sourceStream.syncSource).  Each change of the   *)
(* shared state marks it dirty; a publisher copies it after a delay and    *)
(* leaves the copy in a channel of capacity one, in place of an older one. *)
(* A collector turns it into a snapshot and replaces the latest one;       *)
(* viewers read the latest and wait until it is replaced.                  *)
(*                                                                         *)
(* A collection is the number of states it has had.  A snapshot shows what *)
(* it derives from the objects as a fact with its source.  The quantities  *)
(* derived from the Pods (requests) and from the ResourceClaims            *)
(* (allocations) are known only while their collection is available; the   *)
(* facts of Nodes, slices and Scenarios are shown from the objects that    *)
(* the loop retains, whatever its state.  The values are functions of the  *)
(* objects and are left out.                                               *)
(***************************************************************************)
EXTENDS Naturals, SequencesExt

CONSTANTS
    SourceSpecs,    \* the collections (Nodes, Pods, Scenario Instances, DRA), in order
    Nodes,          \* the collection of the Nodes
    Gated,          \* Pods and ResourceClaims: what derives from them needs them available
    Optional,       \* collections whose API may be missing
    Viewers,        \* open streams of the server
    Rights,         \* what the viewer's credentials allow, per collection
    NotYet,         \* the state of a collection that was never tried
    MaxVersion,     \* bound: states of each collection
    MaxFaults       \* bound: outages and broken watches

VARIABLES
    world,          \* the collections at the API server
    up,             \* the API server answers requests for a collection
    rights,         \* one of Rights
    faults,         \* faults that may still happen
    loop, at,       \* of each loop: where it is, the version it has
    success,        \* of each loop: its last success: never, recent, or old
    states, objects,    \* the shared state of the loops
    dirty, armed,   \* a change was marked; the publisher's timer runs
    updates,        \* the channel from the publisher to the collector
    latest,         \* the latest snapshot of the server
    view, behind    \* what each viewer is shown, and whether it was replaced

cluster == <<world, up, rights, faults>>
shared == <<states, objects, success>>
server == <<latest, view, behind>>
vars == <<cluster, loop, at, shared, dirty, armed, updates, server>>

Sources == Range(SourceSpecs)

ASSUME InventoryAssumption ==
    /\ Nodes \in Sources /\ Optional \subseteq Sources
    /\ Gated \subseteq Sources \ {Nodes}
    /\ Rights \subseteq [Sources -> {"full", "list", "forbidden", "missing"}]
    /\ MaxVersion \in [Sources -> Nat] /\ MaxFaults \in Nat

Availabilities == {"available", "forbidden", "unsupported", "failed"}
Modes == {"initializing", "live", "polling", "unavailable"}
Freshness == {"loading", "fresh", "reconnecting", "stale", "resyncing", "incomplete"}
Completeness == {"loading", "complete", "partial", "diagnostics-only"}

SourceState == [availability : Availabilities, mode : Modes, freshness : Freshness]
\* Of the states of the sources a snapshot carries, which are available.
Snapshot == [objects : [Sources -> Nat], available : SUBSET Sources,
             known : SUBSET Gated, freshness : Freshness, completeness : Completeness]

\* The first snapshot says that nothing is known yet.
Loading == [objects |-> [s \in Sources |-> 0], available |-> {}, known |-> {},
            freshness |-> "loading", completeness |-> "loading"]

TypeOK ==
    /\ \A s \in Sources : {world[s], at[s], objects[s]} \subseteq 0..MaxVersion[s]
    /\ up \in [Sources -> BOOLEAN]
    /\ rights \in Rights /\ faults \in 0..MaxFaults
    /\ loop \in [Sources -> {"list", "watch", "live", "gone", "backoff", "poll"}]
    /\ success \in [Sources -> {"never", "recent", "old"}]
    /\ states \in [Sources -> SourceState \union {NotYet}]
    /\ dirty \in BOOLEAN /\ armed \in BOOLEAN
    /\ Len(updates) <= 1 /\ \A i \in DOMAIN updates : updates[i] \in Snapshot
    /\ latest \in Snapshot
    /\ view \in [Viewers -> Snapshot] /\ behind \in [Viewers -> BOOLEAN]

Init ==
    /\ world = [s \in Sources |-> 0] /\ up = [s \in Sources |-> TRUE]
    /\ rights \in Rights /\ faults = MaxFaults
    /\ loop = [s \in Sources |-> "list"] /\ at = [s \in Sources |-> 0]
    /\ success = [s \in Sources |-> "never"]
    /\ states = [s \in Sources |-> NotYet] /\ objects = [s \in Sources |-> 0]
    /\ dirty = FALSE /\ armed = FALSE /\ updates = <<>>
    /\ latest = Loading
    /\ view = [v \in Viewers |-> Loading] /\ behind = [v \in Viewers |-> TRUE]

-----------------------------------------------------------------------------
(***************************************************************************)
(* The loop of a collection.                                               *)
(***************************************************************************)

Healthy(mode) == [availability |-> "available", mode |-> mode, freshness |-> "fresh"]

\* sourceErrorState: how a failure is shown.
Broken(availability) ==
    [availability |-> availability, mode |-> "unavailable", freshness |-> "incomplete"]
\* Mutation: data that was read once never becomes stale.
ErrorStateEverFresh(s, error) ==
    CASE error = "forbidden" -> Broken("forbidden")
      [] error = "missing" /\ s \in Optional -> Broken("unsupported")
      [] OTHER -> IF success[s] = "never" THEN Broken("failed")
                  ELSE [availability |-> "failed", mode |-> "polling",
                        freshness |-> "reconnecting"]
ErrorState(s, error) ==
    CASE error = "forbidden" -> Broken("forbidden")
      [] error = "missing" /\ s \in Optional -> Broken("unsupported")
      [] OTHER -> IF success[s] = "never" THEN Broken("failed")
                  ELSE [availability |-> "failed", mode |-> "polling",
                        freshness |-> IF success[s] = "old" THEN "stale"
                                                            ELSE "reconnecting"]

Go(s, place) == loop' = [loop EXCEPT ![s] = place]
SetState(s, state) == states' = [states EXCEPT ![s] = state] /\ dirty' = TRUE
Succeed(s, mode) ==
    SetState(s, Healthy(mode)) /\ success' = [success EXCEPT ![s] = "recent"]
\* Mutation: the objects of a failed collection are dropped.
FailBlank(s, error) ==
    /\ SetState(s, ErrorState(s, error)) /\ UNCHANGED <<success, at>>
    /\ objects' = [objects EXCEPT ![s] = 0]
\* The objects stay what they were.
Fail(s, error) ==
    SetState(s, ErrorState(s, error)) /\ UNCHANGED <<success, objects, at>>

Lists(s) == up[s] /\ rights[s] \in {"full", "list"}
Watches(s) == up[s] /\ rights[s] = "full"
Refusal(s) == IF up[s] THEN rights[s] ELSE "unavailable"

Replace(s, mode) ==
    /\ Succeed(s, mode)
    /\ objects' = [objects EXCEPT ![s] = world[s]]
    /\ at' = [at EXCEPT ![s] = world[s]]

List(s) ==
    /\ loop[s] = "list"
    /\ \/ Lists(s) /\ Replace(s, "initializing") /\ Go(s, "watch")
       \/ ~Lists(s) /\ Fail(s, Refusal(s)) /\ Go(s, "backoff")

\* Mutation: the watch starts from now instead of from the list.
OpenWatchNow(s) ==
    /\ loop[s] = "watch"
    /\ \/ /\ Watches(s) /\ Succeed(s, "live") /\ Go(s, "live")
          /\ at' = [at EXCEPT ![s] = world[s]] /\ UNCHANGED objects
       \/ /\ up[s] /\ ~Watches(s) /\ Succeed(s, "polling") /\ Go(s, "poll")
          /\ UNCHANGED <<objects, at>>
       \/ ~up[s] /\ Fail(s, "unavailable") /\ Go(s, "backoff")
OpenWatch(s) ==
    /\ loop[s] = "watch"
    /\ \/ Watches(s) /\ Succeed(s, "live") /\ Go(s, "live") /\ UNCHANGED <<objects, at>>
       \/ /\ up[s] /\ ~Watches(s) /\ Succeed(s, "polling") /\ Go(s, "poll")
          /\ UNCHANGED <<objects, at>>
       \/ ~up[s] /\ Fail(s, "unavailable") /\ Go(s, "backoff")

WatchEvent(s) ==
    /\ loop[s] = "live" /\ up[s] /\ at[s] < world[s]
    /\ Succeed(s, "live")
    /\ at' = [at EXCEPT ![s] = @ + 1]
    /\ objects' = [objects EXCEPT ![s] = at[s] + 1]
    /\ UNCHANGED loop

\* touchSource: nothing is published for a bookmark.
Bookmark(s) ==
    /\ loop[s] = "live" /\ up[s]
    /\ states' = [states EXCEPT ![s] = Healthy("live")]
    /\ success' = [success EXCEPT ![s] = "recent"]
    /\ UNCHANGED <<dirty, objects, at, loop>>

\* A watch ends; when its version is gone the list is read again at once.
WatchEnds(s) ==
    /\ loop[s] = "live" /\ Fail(s, "unavailable")
    /\ Go(s, "backoff") \/ (up[s] /\ Go(s, "gone"))
Resync(s) ==
    /\ loop[s] = "gone"
    /\ SetState(s, [states[s] EXCEPT !.freshness = "resyncing"])
    /\ Go(s, "list") /\ UNCHANGED <<success, objects, at>>

EndBackoff(s) ==
    loop[s] = "backoff" /\ Go(s, "list") /\ UNCHANGED <<shared, dirty, at>>

Poll(s) ==
    /\ loop[s] = "poll"
    /\ \/ Lists(s) /\ Replace(s, "polling")
       \/ ~Lists(s) /\ Fail(s, Refusal(s))
    /\ UNCHANGED loop

\* A step of a loop needs no fault, except that a healthy watch ends.
Proceed(s) ==
    /\ \/ List(s) \/ OpenWatch(s) \/ WatchEvent(s) \/ Resync(s) \/ EndBackoff(s)
       \/ Poll(s) \/ (~up[s] /\ WatchEnds(s))
    /\ UNCHANGED <<cluster, armed, updates, server>>
Interrupt(s) ==
    /\ up[s] /\ faults > 0 /\ WatchEnds(s)
    /\ faults' = faults - 1
    /\ UNCHANGED <<world, up, rights, armed, updates, server>>
Touch(s) ==
    /\ Bookmark(s)
    /\ UNCHANGED <<cluster, armed, updates, server>>

\* staleAfter has passed since the last success.
Age(s) ==
    /\ success[s] = "recent"
    /\ success' = [success EXCEPT ![s] = "old"]
    /\ UNCHANGED <<cluster, loop, at, states, objects, dirty, armed, updates, server>>

-----------------------------------------------------------------------------
(***************************************************************************)
(* The publisher.                                                          *)
(***************************************************************************)

Available(s) == states[s] # NotYet /\ states[s].availability = "available"
Reported == {states[s] : s \in Sources} \ {NotYet}

\* aggregateFreshness: the worst of those that have reported; of resyncing and
\* incomplete, the first.
OverallFreshness ==
    LET found == {state.freshness : state \in Reported}
        minor == SelectInSeq(SourceSpecs, LAMBDA s : /\ states[s] # NotYet
                                 /\ states[s].freshness \in {"resyncing", "incomplete"})
    IN  IF "stale" \in found THEN "stale"
        ELSE IF "reconnecting" \in found THEN "reconnecting"
        ELSE IF minor # 0 THEN states[SourceSpecs[minor]].freshness
        ELSE "fresh"

OverallCompleteness ==
    IF objects[Nodes] = 0 /\ ~Available(Nodes) THEN "diagnostics-only"
    ELSE IF \E state \in Reported :
              state.availability # "available" \/ state.freshness = "incomplete"
         THEN "partial"
    ELSE "complete"

\* Mutation: requests and allocations are computed from whatever is retained.
BuildSnapshotUngated ==
    [objects |-> objects, available |-> {s \in Sources : Available(s)}, known |-> Gated,
     freshness |-> OverallFreshness, completeness |-> OverallCompleteness]
\* buildObservation and buildSnapshot: everything is built from the retained objects;
\* requests and allocations are called known while their collection is available.
BuildSnapshot ==
    [objects |-> objects, available |-> {s \in Sources : Available(s)},
     known |-> {s \in Gated : Available(s)},
     freshness |-> OverallFreshness, completeness |-> OverallCompleteness]

Debounce ==
    /\ dirty
    /\ dirty' = FALSE /\ armed' = TRUE
    /\ UNCHANGED <<cluster, loop, at, shared, updates, server>>

\* A copy replaces the one that was not taken yet.
Flush ==
    /\ armed
    /\ armed' = FALSE
    /\ updates' = <<BuildSnapshot>>
    /\ UNCHANGED <<cluster, loop, at, shared, dirty, server>>

-----------------------------------------------------------------------------
(***************************************************************************)
(* The server.                                                             *)
(***************************************************************************)

Collect ==
    /\ updates # <<>>
    /\ latest' = Head(updates) /\ updates' = <<>>
    /\ behind' = [v \in Viewers |-> TRUE]
    /\ UNCHANGED <<cluster, loop, at, shared, dirty, armed, view>>

Look(v) ==
    /\ behind[v]
    /\ view' = [view EXCEPT ![v] = latest]
    /\ behind' = [behind EXCEPT ![v] = FALSE]
    /\ UNCHANGED <<cluster, loop, at, shared, dirty, armed, updates, latest>>

-----------------------------------------------------------------------------
(***************************************************************************)
(* The cluster (external).                                                 *)
(***************************************************************************)

Change(s) ==
    /\ world[s] < MaxVersion[s]
    /\ world' = [world EXCEPT ![s] = @ + 1]
    /\ UNCHANGED <<up, rights, faults>>
Outage(s) ==
    /\ faults > 0 /\ up[s]
    /\ up' = [up EXCEPT ![s] = FALSE] /\ faults' = faults - 1
    /\ UNCHANGED <<world, rights>>
Recover(s) ==
    /\ ~up[s] /\ up' = [up EXCEPT ![s] = TRUE]
    /\ UNCHANGED <<world, rights, faults>>
Cluster ==
    /\ \E s \in Sources : Change(s) \/ Outage(s) \/ Recover(s)
    /\ UNCHANGED <<loop, at, shared, dirty, armed, updates, server>>

Next ==
    \/ \E s \in Sources : Proceed(s) \/ Interrupt(s) \/ Touch(s) \/ Age(s)
    \/ Debounce \/ Flush \/ Collect
    \/ \E v \in Viewers : Look(v)
    \/ Cluster

\* The goroutines run, requests are answered or time out, and time passes; viewers
\* read what they are sent.
Spec ==
    /\ Init /\ [][Next]_vars
    /\ \A s \in Sources : WF_vars(Proceed(s)) /\ WF_vars(Age(s))
    /\ WF_vars(Debounce) /\ WF_vars(Flush) /\ WF_vars(Collect)
    /\ \A v \in Viewers : WF_vars(Look(v))

-----------------------------------------------------------------------------
(***************************************************************************)
(* Properties.                                                             *)
(***************************************************************************)

Feed == INSTANCE ConflatedFeed WITH
            newest <- world, shown <- [v \in Viewers |-> view[v].objects]

\* ADR 0008: through lists, watches, polls, failures and slow viewers, a viewer is
\* only shown states that a collection had, and never an older one after a newer.
SnapshotsMoveForward == Feed!Spec

\* A collection that stays readable is eventually shown as it is, to every viewer,
\* and requests and allocations that derive from it are known, however its watch broke
\* before.
ChangesAreShown ==
    \A s \in Sources, v \in Viewers :
        <>[]Lists(s) =>
            <>[](/\ view[v].objects[s] = world[s]
                 /\ s \in Gated => s \in view[v].known)

\* kasim-ui.md ("unknown" is never replaced by a number, "retain the last successful
\* data ... then mark it stale"): an outage that lasts is shown.  The page is not called
\* complete; it is stale if the collection was ever read; the collection is reported
\* unavailable; and the Pod requests or device allocations that would come from it are
\* unknown, although the objects it was last seen with stay on the page.
OutageIsShown ==
    \A s \in Sources, v \in Viewers :
        <>[](~up[s]) =>
            <>[](/\ s \notin view[v].available \union view[v].known
                 /\ view[v].completeness # "complete"
                 /\ success[s] # "never" => view[v].freshness = "stale")

\* A page that calls itself complete was made when every collection had been read.
CompleteIsComplete == latest.completeness = "complete" => latest.available = Sources
=============================================================================
