-------------------------- MODULE MCPaymentFunding --------------------------
(* Instances of PaymentFunding for TLC. *)
EXTENDS PaymentFunding, TLC

CONSTANTS t1, t2

MCIdOf == [w \in Worker |-> w]

\* The first transfer is a real payment, the second one is not.
MCGenuine == {t1} \cap Tx

Workers == Permutations(Worker)

\* Workers are interchangeable, and so are runs.
WorkersAndRuns == Permutations(Worker) \cup Permutations(Job)
=============================================================================
