---------------------------- MODULE MCHandleTable ----------------------------
(* Instances of HandleTable for TLC. *)
EXTENDS HandleTable, TLC

CONSTANTS p1, p2, o1, o2

MCThreadOf == [p \in Procs |-> o1]
MCProcessOf == [p \in Procs |-> o2]

(* Both processes have the same constants. *)
Symmetry == Permutations({p1, p2})
=============================================================================
