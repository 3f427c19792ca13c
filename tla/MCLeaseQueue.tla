---------------------------- MODULE MCLeaseQueue ----------------------------
(* Instance of the leased queue for TLC: worker ids are the workers.       *)
EXTENDS LeaseQueue

MCIdOf == [w \in Worker |-> w]
=============================================================================
