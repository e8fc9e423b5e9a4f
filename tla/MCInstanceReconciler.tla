------------------------ MODULE MCInstanceReconciler ------------------------
(***************************************************************************)
(* Small instances of InstanceReconciler for TLC.                          *)
(***************************************************************************)
EXTENDS InstanceReconciler, TLC

CONSTANTS n1, n2, k1, k2, r1, r2

Ask(key, res, healthy) == [key |-> key, res |-> res, healthy |-> healthy]

Single == n1 :> Ask(k1, r1, 1)
Pair == n1 :> Ask(k1, r1, 1) @@ n2 :> Ask(k1, r1, 1)
Degraded == n1 :> Ask(k1, r1, 0) @@ n2 :> Ask(k1, r1, 1)
Replaced == n1 :> Ask(k1, r2, 1)
Other == n2 :> Ask(k1, r1, 1)
Relabelled == n1 :> Ask(k2, r1, 1)

\* Scale up and down, a health change, a replacement of the resource.
CoreScenarios == {Pair, Degraded, Replaced}
\* One name comes and goes, the other has its resource replaced.
ScaleScenarios == {Pair, Replaced}
\* The same name leaves the Scenario and comes back.
SwapScenarios == {Single, Other}
ReplaceScenarios == {Single, Replaced}
RelabelScenarios == {Single, Relabelled}

\* Two overlapping controllers may create and delete the same name for ever:
\* a run looks at the first few incarnations.
FewBirths == \A n \in Names : births[n] <= 3

\* ... and deletes the instance, if at all, before it is revised.
EarlyDeletion == (deleting => Len(log) = 1) /\ FewBirths

Symmetry == {c @@ n : c \in Permutations(Controllers), n \in Permutations(Names)}
=============================================================================
