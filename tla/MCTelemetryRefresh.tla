------------------------- MODULE MCTelemetryRefresh -------------------------
(***************************************************************************)
(* A small instance of TelemetryRefresh for TLC: the second generation     *)
(* leaves the Node "kept" alone and changes the other, the third cannot be *)
(* projected by this process and the last removes "kept".                  *)
(***************************************************************************)
EXTENDS TelemetryRefresh

CONSTANTS a, kept, changed

Graphs == [i \in {a} |-> [g \in 1..MaxGeneration |->
              IF g = 4 THEN {changed} ELSE {kept, changed}]]
Revisions == {<<changed, 2>>, <<kept, 3>>, <<changed, 4>>}
Unreadable == {<<a, 3>>}
=============================================================================
