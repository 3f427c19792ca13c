-------------------------------- MODULE Probe --------------------------------
(***************************************************************************)
(* What a paid target answers, and what the probes conclude from it: the   *)
(* paid route of apps/x402-demo-target in its two modes, the runners of    *)
(* packages/protected-delivery-runner, and the reduction of their results  *)
(* to one verdict in apps/orchestrator-worker/src/pipeline/scenarios.ts.   *)
(*                                                                         *)
(* A response is its HTTP status, or 0 when none arrived.  Of a payment    *)
(* the target sees whether it verifies (signature, amount, recipient,      *)
(* validity window) and whether the token has consumed its nonce.          *)
(***************************************************************************)
EXTENDS Naturals

Result == {"PASS", "FAIL", "INCONCLUSIVE"}

NoResponse == 0
Success(response) == response \in 200..299

-----------------------------------------------------------------------------
(* The target. *)

\* What settle() reports: transferWithAuthorization moves the money of an
\* authorization once; an RPC failure leaves open whether it did.
Settlements(payment, settled) ==
    {"UNAVAILABLE_UNSENT", "UNAVAILABLE_SENT"}
    \cup {IF payment \in settled THEN "ALREADY_SETTLED" ELSE "SETTLED"}

Collected(settled, payment, settlement) ==
    IF settlement = "UNAVAILABLE_UNSENT" THEN settled ELSE settled \cup {payment}

\* GET /paid/resource with a payment header: V2_PROTECTED delivers only what it
\* settled and answers 409 to a consumed nonce, V1_VULNERABLE whatever verifies.
PaidResource(protected, verifies, settlement) ==
    CASE ~verifies -> 402
      [] verifies /\ protected /\ settlement = "ALREADY_SETTLED" -> 409
      [] verifies /\ protected /\ settlement \in {"UNAVAILABLE_UNSENT", "UNAVAILABLE_SENT"} -> 402
      [] OTHER -> 200

-----------------------------------------------------------------------------
(* The runners. *)

ReplayRejections == {401, 402, 409}

\* ProtectedDeliveryReplayRunner.run: without a delivery the replay is not tried.
ReplayIsTried(initial) == Success(initial)

\* Mutant of ReplayResult: any answer but a delivery counts as a refusal.
ReplayResultLenient(initial, replay) ==
    CASE initial = NoResponse -> "INCONCLUSIVE"
      [] initial # NoResponse /\ ~Success(initial) -> "FAIL"
      [] Success(initial) /\ Success(replay) -> "FAIL"
      [] OTHER -> "PASS"

ReplayResult(initial, replay) ==
    CASE initial = NoResponse -> "INCONCLUSIVE"
      [] initial # NoResponse /\ ~Success(initial) -> "FAIL"
      [] Success(initial) /\ Success(replay) -> "FAIL"
      [] Success(initial) /\ replay \in ReplayRejections -> "PASS"
      [] OTHER -> "INCONCLUSIVE"

\* InvalidCredentialRejectionRunner.run, for a missing and for a tampered receipt.
CredentialResult(response) ==
    CASE Success(response) -> "FAIL"
      [] response \in 400..499 -> "PASS"
      [] OTHER -> "INCONCLUSIVE"

\* buildUnsignedToolReceipt throws for a scenario whose first request got no answer:
\* the pipeline can build no evidence pack from it, on this attempt or a later one.
Unanswered == "UNANSWERED"
Receipted(response, result) == IF response = NoResponse THEN Unanswered ELSE result

-----------------------------------------------------------------------------
(* The verdict. *)

\* verifyScenarioProvenance: with a registered signer, a PASS needs its signatures.
Trusted(result, signed) ==
    IF result = "PASS" /\ ~signed THEN "INCONCLUSIVE" ELSE result

\* aggregateScenarioResult: PASS is only returned when there is evidence for it.
Aggregate(results) ==
    CASE results = {} -> "INCONCLUSIVE"
      [] "FAIL" \in results -> "FAIL"
      [] "INCONCLUSIVE" \in results /\ "FAIL" \notin results -> "INCONCLUSIVE"
      [] OTHER -> "PASS"

\* What the checkpointed evidence is worth to the phases that follow.
Evidence(results) == IF Unanswered \in results THEN Unanswered ELSE Aggregate(results)

=============================================================================
