------------------------- MODULE MCInventoryStream -------------------------
(***************************************************************************)
(* Small instances of InventoryStream for TLC: the Nodes, and the          *)
(* ResourceClaims that allocations derive from; both watched or only       *)
(* polled, or an API without claims.                                       *)
(***************************************************************************)
EXTENDS InventoryStream

CONSTANTS nodes, claims

Specs == <<nodes, claims>>
Versions == [s \in {nodes, claims} |-> IF s = nodes THEN 2 ELSE 0]
Access(ofNodes, ofClaims) ==
    [s \in {nodes, claims} |-> IF s = nodes THEN ofNodes ELSE ofClaims]
SomeRights == {Access("full", "missing"), Access("list", "full")}
=============================================================================
