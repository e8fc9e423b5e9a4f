--------------------------- MODULE ConflatedFeed ---------------------------
(***************************************************************************)
(* What the Cluster Simulation Inventory promises its viewers (ADR 0008,   *)
(* docs/spec/kasim-ui.md): each collection has a newest state, a viewer is *)
(* shown states that existed, may skip some, and never goes back.          *)
(***************************************************************************)
EXTENDS Naturals

CONSTANTS
    Sources,    \* collections
    Viewers

VARIABLES
    newest,     \* the number of states each collection has had
    shown       \* the state of each collection that each viewer is shown

feedVars == <<newest, shown>>

Init ==
    /\ newest \in [Sources -> Nat]
    /\ shown = [v \in Viewers |-> [s \in Sources |-> 0]]

Produce ==
    /\ \E s \in Sources : newest' = [newest EXCEPT ![s] = @ + 1]
    /\ UNCHANGED shown

Show(v) ==
    /\ \E state \in [Sources -> UNION {shown[v][s]..newest[s] : s \in Sources}] :
         /\ \A s \in Sources : shown[v][s] <= state[s] /\ state[s] <= newest[s]
         /\ shown' = [shown EXCEPT ![v] = state]
    /\ UNCHANGED newest

Next == Produce \/ \E v \in Viewers : Show(v)

Spec == Init /\ [][Next]_feedVars
=============================================================================
