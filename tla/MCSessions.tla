----------------------------- MODULE MCSessions -----------------------------
(* Instances of Sessions for TLC. *)
EXTENDS Sessions

CONSTANTS a, b, c1, c2, v1, v2
=============================================================================
