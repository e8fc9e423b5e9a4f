------------------------ MODULE MCRevisionSubmission ------------------------
(***************************************************************************)
(* Small instances of RevisionSubmission for TLC.  Two Scenarios that      *)
(* typed changes lead to and from, and one of another Fidelity Mode.       *)
(***************************************************************************)
EXTENDS RevisionSubmission, TLC

Scenarios == {"full", "degraded", "dra"}
Modes == [x \in Scenarios |-> IF x = "dra" THEN "dra-control-plane" ELSE "scheduling"]

Degrade == [x \in Scenarios |-> IF x = "full" THEN "degraded" ELSE x]
Recover == [x \in Scenarios |-> IF x = "degraded" THEN "full" ELSE x]
TypedChanges == {Degrade, Recover}
NoTypedChange == {}

Symmetry == Permutations(Clients)
=============================================================================
