---------------------- MODULE InventoryStream_proofs ----------------------
(***************************************************************************)
(* The inventory implements the conflated feed of ADR 0008: a proof that   *)
(* Spec => Feed!Spec.  Everything between a collection and a viewer holds  *)
(* a state of that collection, each no newer than the one before it:       *)
(*                                                                         *)
(*     view <= latest <= the copy in the channel <= objects <= world       *)
(*                                                                         *)
(* The loop of a collection, where a restart could break the order, moves  *)
(* its objects only together with the version it has.                      *)
(***************************************************************************)
EXTENDS InventoryStream, TLAPS

Counts == [Sources -> Nat]
NoNewer(a, b) == \A s \in Sources : a[s] <= b[s]

\* What the loops hold.
LoopsOK == /\ world \in Counts /\ objects \in Counts
           /\ at = objects /\ NoNewer(objects, world)
\* What is on its way to the viewers.
CopiesOK ==
    /\ latest.objects \in Counts /\ NoNewer(latest.objects, objects)
    /\ \/ updates = <<>>
       \/ \E copy : /\ updates = <<copy>> /\ copy.objects \in Counts
                    /\ NoNewer(latest.objects, copy.objects)
                    /\ NoNewer(copy.objects, objects)
ViewsOK ==
    /\ DOMAIN view = Viewers
    /\ \A v \in Viewers : /\ view[v].objects \in Counts
                          /\ NoNewer(view[v].objects, latest.objects)
Ordered == LoopsOK /\ CopiesOK /\ ViewsOK

LEMMA NoNewerTransitive ==
    ASSUME NEW a \in Counts, NEW b \in Counts, NEW c \in Counts,
           NoNewer(a, b), NoNewer(b, c)
    PROVE  NoNewer(a, c)
BY DEF Counts, NoNewer

LEMMA InitOrdered == Init => Ordered
<1> SUFFICES ASSUME Init PROVE Ordered
  OBVIOUS
<1>1. LoopsOK
  BY DEF Init, LoopsOK, Counts, NoNewer
<1>2. CopiesOK
  BY DEF Init, CopiesOK, Loading, Counts, NoNewer
<1>3. ViewsOK
  BY DEF Init, ViewsOK, Loading, Counts, NoNewer
<1>4. QED
  BY <1>1, <1>2, <1>3 DEF Ordered

-----------------------------------------------------------------------------
(***************************************************************************)
(* The loops.                                                              *)
(***************************************************************************)

\* How a step of the loop of s may move what it holds.
LoopMoves(s) ==
    \/ UNCHANGED <<objects, at>>
    \/ /\ objects' = [objects EXCEPT ![s] = world[s]]
       /\ at' = [at EXCEPT ![s] = world[s]]
    \/ /\ at[s] < world[s]
       /\ at' = [at EXCEPT ![s] = @ + 1]
       /\ objects' = [objects EXCEPT ![s] = at[s] + 1]

LEMMA LoopKinds ==
    ASSUME NEW s \in Sources, Proceed(s) \/ Interrupt(s) \/ Touch(s) \/ Age(s)
    PROVE  LoopMoves(s) /\ UNCHANGED <<world, updates, server>>
<1>1. UNCHANGED <<world, updates, server>>
  BY DEF Proceed, Interrupt, Touch, Age, cluster, server
<1>2. LoopMoves(s)
  <2>1. CASE List(s) \/ Poll(s)
    BY <2>1 DEF List, Poll, Replace, Fail, LoopMoves
  <2>2. CASE OpenWatch(s)
    BY <2>2 DEF OpenWatch, Fail, LoopMoves
  <2>3. CASE WatchEvent(s)
    BY <2>3 DEF WatchEvent, LoopMoves
  <2>4. CASE WatchEnds(s) \/ Resync(s) \/ EndBackoff(s)
    BY <2>4 DEF WatchEnds, Resync, EndBackoff, Fail, LoopMoves, shared
  <2>5. CASE Bookmark(s) \/ Age(s)
    BY <2>5 DEF Bookmark, Age, LoopMoves
  <2>6. QED
    BY <2>1, <2>2, <2>3, <2>4, <2>5 DEF Proceed, Interrupt, Touch
<1>3. QED
  BY <1>1, <1>2

LEMMA LoopKeepsOrder ==
    ASSUME Ordered, NEW s \in Sources, LoopMoves(s), UNCHANGED <<world, updates, server>>
    PROVE  Ordered'
<1>1. LoopsOK' /\ NoNewer(objects, objects')
  BY DEF Ordered, LoopsOK, LoopMoves, Counts, NoNewer
<1>2. objects \in Counts /\ objects' \in Counts
  BY <1>1 DEF Ordered, LoopsOK
<1>3. \A a \in Counts : NoNewer(a, objects) => NoNewer(a, objects')
  BY <1>1, <1>2, NoNewerTransitive
<1>4. CopiesOK' /\ ViewsOK'
  BY <1>3 DEF Ordered, CopiesOK, ViewsOK, server
<1>5. QED
  BY <1>1, <1>4 DEF Ordered

-----------------------------------------------------------------------------
(***************************************************************************)
(* Every step keeps the order.                                             *)
(***************************************************************************)

LEMMA StepKeepsOrder == Ordered /\ [Next]_vars => Ordered'
<1> SUFFICES ASSUME Ordered, [Next]_vars PROVE Ordered'
  OBVIOUS
<1>1. CASE \E s \in Sources : Proceed(s) \/ Interrupt(s) \/ Touch(s) \/ Age(s)
  BY <1>1, LoopKinds, LoopKeepsOrder
<1>2. CASE Debounce
  BY <1>2 DEF Debounce, cluster, shared, server, Ordered, LoopsOK, CopiesOK, ViewsOK
<1>3. CASE Flush
  <2>1. UNCHANGED <<world, objects, at, latest, view>> /\ updates' = <<BuildSnapshot>>
    BY <1>3 DEF Flush, cluster, shared, server
  <2>2. /\ BuildSnapshot.objects = objects /\ objects \in Counts
        /\ NoNewer(objects, objects)
    BY DEF BuildSnapshot, Ordered, LoopsOK, NoNewer, Counts
  <2>3. LoopsOK' /\ ViewsOK'
    BY <2>1 DEF Ordered, LoopsOK, ViewsOK
  <2>4. CopiesOK'
    BY <2>1, <2>2 DEF Ordered, CopiesOK
  <2>5. QED
    BY <2>3, <2>4 DEF Ordered
<1>4. CASE Collect
  <2>1. /\ UNCHANGED <<world, objects, at, view>> /\ updates # <<>>
        /\ latest' = Head(updates) /\ updates' = <<>>
    BY <1>4 DEF Collect, cluster, shared
  <2>2. PICK copy : /\ updates = <<copy>> /\ copy.objects \in Counts
                    /\ NoNewer(latest.objects, copy.objects)
                    /\ NoNewer(copy.objects, objects)
    BY <2>1 DEF Ordered, CopiesOK
  <2>3. latest' = copy
    BY <2>1, <2>2
  <2>4. \A a \in Counts : NoNewer(a, latest.objects) => NoNewer(a, latest'.objects)
    BY <2>2, <2>3, NoNewerTransitive DEF Ordered, CopiesOK
  <2>5. QED
    BY <2>1, <2>2, <2>3, <2>4 DEF Ordered, LoopsOK, CopiesOK, ViewsOK
<1>5. ASSUME NEW v \in Viewers, Look(v) PROVE Ordered'
  <2>1. /\ UNCHANGED <<world, objects, at, latest, updates>>
        /\ view' = [view EXCEPT ![v] = latest]
    BY <1>5 DEF Look, cluster, shared
  <2>2. NoNewer(latest.objects, latest.objects)
    BY DEF Ordered, CopiesOK, NoNewer, Counts
  <2>3. QED
    BY <2>1, <2>2 DEF Ordered, LoopsOK, CopiesOK, ViewsOK
<1>6. CASE Cluster
  <2>1. /\ UNCHANGED <<objects, at, latest, updates, view>>
        /\ \/ world' = world
           \/ \E s \in Sources : world' = [world EXCEPT ![s] = @ + 1]
    BY <1>6 DEF Cluster, Change, Outage, Recover, shared, server
  <2>2. LoopsOK'
    BY <2>1 DEF Ordered, LoopsOK, NoNewer, Counts
  <2>3. QED
    BY <2>1, <2>2 DEF Ordered, CopiesOK, ViewsOK
<1>7. CASE UNCHANGED vars
  BY <1>7 DEF vars, cluster, shared, server, Ordered, LoopsOK, CopiesOK, ViewsOK
<1>8. QED
  BY <1>1, <1>2, <1>3, <1>4, <1>5, <1>6, <1>7 DEF Next

\* In every state, whatever breaks and however slow the publisher, the collector and
\* the viewers are, what is shown is no newer than the latest snapshot, that one than
\* what the loops hold, and that one than the cluster.
THEOREM CopiesAreOrdered == Spec => []Ordered
BY InitOrdered, StepKeepsOrder, PTL DEF Spec

-----------------------------------------------------------------------------
(***************************************************************************)
(* The refinement.                                                         *)
(***************************************************************************)

LEMMA InitFeeds == Init => Feed!Init
BY DEF Init, Feed!Init, Loading

LEMMA StepFeeds ==
    ASSUME Ordered, [Next]_vars PROVE [Feed!Next]_(Feed!feedVars)
<1> DEFINE shown == [v \in Viewers |-> view[v].objects]
<1>1. CASE world' = world /\ view' = view
  BY <1>1 DEF Feed!feedVars
<1>2. ASSUME NEW v \in Viewers, Look(v) PROVE Feed!Show(v)
  <2>1. /\ world' = world /\ view' = [view EXCEPT ![v] = latest]
    BY <1>2 DEF Look, cluster
  <2>2. /\ latest.objects \in Counts /\ world \in Counts /\ objects \in Counts
        /\ shown[v] \in Counts /\ DOMAIN view = Viewers
        /\ NoNewer(shown[v], latest.objects) /\ NoNewer(latest.objects, world)
    BY NoNewerTransitive DEF Ordered, LoopsOK, CopiesOK, ViewsOK
  <2>3. shown' = [shown EXCEPT ![v] = latest.objects]
    BY <2>1, <2>2
  <2>4. \A s \in Sources : shown[v][s] <= latest.objects[s] /\ latest.objects[s] <= world[s]
    BY <2>2 DEF NoNewer
  <2>5. latest.objects \in [Sources -> UNION {shown[v][s]..world[s] : s \in Sources}]
    BY <2>2, <2>4 DEF Counts
  <2>6. QED
    BY <2>1, <2>3, <2>4, <2>5 DEF Feed!Show
<1>3. ASSUME NEW s \in Sources, Change(s), view' = view PROVE Feed!Produce
  BY <1>3 DEF Change, Feed!Produce
<1>4. QED
  BY <1>1, <1>2, <1>3 DEF Next, Proceed, Interrupt, Touch, Age, Debounce, Flush, Collect, Cluster,
     Outage, Recover, vars, cluster, server, Feed!Next

\* ADR 0008: through lists, watches, polls, failures and slow viewers the inventory is a
\* conflated feed: each viewer is shown states that the collections had, and never an
\* older one after a newer, for any number of collections, viewers and faults.
THEOREM InventoryIsConflatedFeed == Spec => SnapshotsMoveForward
<1>1. Init => Feed!Init
  BY InitFeeds
<1>2. Ordered /\ [Next]_vars => [Feed!Next]_(Feed!feedVars)
  BY StepFeeds
<1>3. QED
  BY <1>1, <1>2, CopiesAreOrdered, PTL DEF Spec, SnapshotsMoveForward, Feed!Spec
=============================================================================
