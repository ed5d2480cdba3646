------------------------- MODULE MCSaveStateRequest -------------------------
(* Instances of SaveStateRequest for TLC. *)
EXTENDS SaveStateRequest

CONSTANTS r1, r2, r3

LoadThenSave == [r \in Requests |-> IF r = r2 THEN "Save" ELSE "Load"]
=============================================================================
