-------------------------- MODULE MCAddressArbiter --------------------------
(* Instances of AddressArbiter for TLC: two processes share the arbiter,    *)
(* and the thread of one of them runs on a core of its own.                 *)
EXTENDS AddressArbiter

CONSTANTS t1, t2, t3, a1

MCProcOf == [t \in Threads |-> IF t = t3 THEN 2 ELSE 1]
MCMinWord == -1
MCCoreOf == [t \in Threads |-> IF t = t3 THEN 1 ELSE 0]

=============================================================================
