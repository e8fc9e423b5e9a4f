-------------------------- MODULE MCDRAReconciler --------------------------
(***************************************************************************)
(* Small instances of DRAReconciler for TLC: a pool of two slices; one     *)
(* device less and a second Node; another model with an unhealthy device.  *)
(***************************************************************************)
EXTENDS DRAReconciler, TLC

CONSTANTS n1, n2, h100, mi300

Devs(capacity, healthy) == [capacity |-> capacity, healthy |-> healthy]
Ask(model, asked) == [model |-> model, nodes |-> asked]

Sharded == Ask(h100, n1 :> Devs(2, 2))
Spread == Ask(h100, n1 :> Devs(1, 1) @@ n2 :> Devs(1, 1))
Remodelled == Ask(mi300, n1 :> Devs(2, 1))
SomeScenarios == {Sharded, Spread, Remodelled}
OneScenario == {Sharded}
=============================================================================
