---------------------------- MODULE MCCoreTiming ----------------------------
(* Instances of CoreTiming for TLC. *)
EXTENDS CoreTiming

CONSTANTS e1, x1

(* A reading so old that the event is just ahead of the clock when it is   *)
(* pushed, and may be late when its core takes it.                         *)
MCReadings == {-3}
=============================================================================
