----------------------- MODULE MCCrossChainProcurement -----------------------
(* An instance of CrossChainProcurement for TLC. *)
EXTENDS CrossChainProcurement

MCIdOf == [w \in Worker |-> w]
=============================================================================
