--------------------------- MODULE BindingHistory ---------------------------
(***************************************************************************)
(* InstanceReconciler with one history variable: the Pods as the pass of a *)
(* controller listed them, while it executes the stage it chose by that    *)
(* list.  kube-scheduler binds a Pod with a request of its own, and a      *)
(* binding does not move the Node's resourceVersion, which guards the      *)
(* delete: what a Node hosts when it is deleted may differ from the list.  *)
(***************************************************************************)
EXTENDS InstanceReconciler

VARIABLE listed     \* of each controller: Pods as its pass listed them

historyVars == <<vars, listed>>

NothingListed == [p \in Pods |-> [at |-> "pending", node |-> Absent]]

HInit == Init /\ listed = [c \in Controllers |-> NothingListed]

\* The list is read in the step that chooses the stage and kept until it ends.
Remember ==
    listed' = [c \in Controllers |->
                  IF pc'[c] # "apply" THEN NothingListed
                  ELSE IF pc[c] = "pods" THEN pods ELSE listed[c]]

HNext == Next /\ Remember
HSpec == HInit /\ [][HNext]_historyVars

\* A request of the pass of c takes the Node n away.
Deletes(c, n) == /\ IsOwned(nodes[n]) /\ ~IsOwned(nodes'[n])
                 /\ n \in job[c].wave /\ n \notin job'[c].wave

\* The scheduler had chosen n for p, and had not bound it, when the Pods were listed.
InFlight(p, n, list) == list[p] = [at |-> "chosen", node |-> n]

\* No pass deletes an open Node (SAFE-005), and a Pod that loses its Node, bound
\* or about to be, was on its way when the Pods were listed: no Pod that was
\* listed (SAFE-006), and none that the scheduler chose the Node for since then,
\* although the Node may have been opened by hand between the list and the delete.
OnlyBindingsInFlightAreLost ==
    [][\A c \in Controllers, n \in Names : Deletes(c, n) =>
            /\ ~nodes[n].open
            /\ \A p \in Pods : pods[p].node = n => InFlight(p, n, listed[c])]_historyVars
=============================================================================
