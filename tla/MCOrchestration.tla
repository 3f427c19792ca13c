--------------------------- MODULE MCOrchestration ---------------------------
(* Instances of Orchestration for TLC. *)
EXTENDS Orchestration, TLC

MCIdOf == [w \in Worker |-> w]
MCSymmetry == Permutations(Worker)

MCProofOf == [r \in Run |-> r]

\* A proposal without budget, and one above the ceiling that adds a scenario.
MCProposal == {[scenarios |-> {"payment-proof-replay"}, budget |-> 0],
               [scenarios |-> {"unpaid-access-denial", "unknown"}, budget |-> 3]}
=============================================================================
