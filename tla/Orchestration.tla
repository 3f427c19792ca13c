---------------------------- MODULE Orchestration ----------------------------
(***************************************************************************)
(* From a funded run to a delivered verdict: the orchestrator workers with *)
(* their leased queue, the pipeline and its checkpoint, the finalizer and  *)
(* the finalize-stuck-runs script (apps/orchestrator-worker), the stores   *)
(* they share (packages/persistence-postgres), the wallet, the registry    *)
(* contract and the paid target (see Probe).                               *)
(*                                                                         *)
(* Between two accesses to something shared a process decides on copies:   *)
(* the run and the checkpoint are read once per attempt and the attempt    *)
(* works on them to its end, whoever else has the job by then.  Every      *)
(* access is one action.  Fail(p) is any error of a database, RPC or HTTP  *)
(* call that is not named; an effect whose answer is lost is the effect    *)
(* followed by Fail.                                                       *)
(***************************************************************************)
EXTENDS LeaseQueue, Procurement, Probe

CONSTANTS
    Script,      \* runs of finalize-stuck-runs.ts
    Proposal,    \* what the risk classifier may propose
    Mandatory,   \* ORCHESTRATOR_MANDATORY_SCENARIOS
    Price,       \* prices the target may ask, atomic units
    Ceiling,     \* refundableToolBudgetAtomic of the quote
    Remote,      \* runs whose target is on a chain this worker cannot pay on
    ProofOf,     \* customerPaymentProofHash of each run
    ProviderSigns, \* the responses carry the signature of the registered provider, if any
    MaxExpired,  \* bound on the runs whose authorization passes its validBefore
    MaxForeign,  \* bound on the wallet's transactions for other runs
    MaxPauses,   \* bound on the times the registry's owner pauses it
    MaxCrashes,  \* bound on worker crashes
    MaxOverruns  \* bound on leases that lapse under a worker that is still busy

Run == Job       \* a run and its orchestrator job share their key

\* Workers and scripts are processes of their own, and runs are UUIDs.
ASSUME ActorAssumption == Worker \cap Script = {}
ASSUME RunAssumption == "NONE" \notin Run
ASSUME MandatoryAssumption == "payment-proof-replay" \in Mandatory
ASSUME ProposalAssumption == \A p \in Proposal : p.budget \in Nat
ASSUME CeilingAssumption == Ceiling \in Nat \ {0} /\ Price \subseteq Nat \ {0}

VARIABLES
    run,          \* runs: status and revision
    reason,       \* last_error_code of a dead job
    checkpoint,   \* orchestrator_run_checkpoints
    nonce,        \* transaction count of the wallet
    refunds,      \* what the wallet has refunded for each run
    protected,    \* runs whose target settles before it delivers (V2_PROTECTED)
    expired,      \* runs whose authorization has passed its validBefore
    presented,    \* authorizations sent to the run's target
    settled,      \* authorizations the token has consumed
    pack,         \* evidence_packs
    registry,     \* ShipyardRunRegistry: the verdict recorded for each run
    paused,       \* the registry accepts nothing (paused, or attestor not authorized)
    attestation,  \* runs with a row in attestations
    act,          \* the processes: where they are and what they remember
    budget        \* what is left of the bounds on faults

targetVars == <<protected, expired, presented, settled>>
ledgerVars == <<nonce, refunds, targetVars, registry, paused>>
storeVars == <<checkpoint, pack, attestation>>
vars == <<queueVars, run, reason, ledgerVars, storeVars, act, budget>>

Actor == Worker \cup Script

Lifecycle == INSTANCE RunLifecycle WITH Run <- Run, run <- run

Executable == {"payment-proof-replay", "unpaid-access-denial", "tampered-receipt-rejection"}
CredentialScenarios == Executable \ {"payment-proof-replay"}

\* RESUMABLE_STATUSES and STATUS_ORDER; FINALIZABLE_STATUSES adds only REPLANNING,
\* which no component sets.
StatusOrder == <<"FUNDED", "ANALYZING", "PLAN_COMPILED", "PROCURING", "EXECUTING",
                 "EVIDENCE_BUILDING", "ATTESTING">>
Resumable == {StatusOrder[i] : i \in DOMAIN StatusOrder}
Finalizable == Resumable \cup {"REPLANNING"}
AtOrAfter(status, to) ==
    \E i, j \in DOMAIN StatusOrder : StatusOrder[i] = status /\ StatusOrder[j] = to /\ i >= j

FinalizableReasons == {"PIPELINE_RETRIES_EXHAUSTED", "PROCUREMENT_DENIED",
                       "UNEXPECTED_RUN_STATE", "STALE_LEASE_ATTEMPTS_EXHAUSTED"}

NoPlan == [scenarios |-> {}, budget |-> 0]
NoPayment == [signer |-> "none", amount |-> 0]
NoNonce == 0 - 1
NoResult == "NONE"

EmptyCheckpoint ==
    [plan |-> NoPlan, payment |-> NoPayment, refundNonce |-> NoNonce, refunded |-> FALSE,
     evidence |-> NoResult, attested |-> FALSE]

Idle == [pc |-> "idle", mode |-> "pipeline", run |-> "NONE", status |-> "NONE", revision |-> 0,
         local |-> EmptyCheckpoint, probe |-> NoResult, outcome |-> "NONE"]

\* commitFundedRun has just stored the run and enqueued its job.
Init ==
    /\ job = [r \in Job |-> PendingRow]
    /\ held = [w \in Worker |-> NoClaim]
    /\ overtaken = {}
    /\ run = [r \in Run |-> [status |-> "FUNDED", revision |-> 3]]
    /\ reason = [r \in Run |-> "NONE"]
    /\ checkpoint = [r \in Run |-> EmptyCheckpoint]
    /\ nonce = 0
    /\ refunds = [r \in Run |-> 0]
    /\ protected \in SUBSET Run
    /\ expired = {}
    /\ presented = [r \in Run |-> {}]
    /\ settled = [r \in Run |-> {}]
    /\ pack = [r \in Run |-> NoResult]
    /\ registry = [r \in Run |-> NoResult]
    /\ paused = FALSE
    /\ attestation = {}
    /\ act = [p \in Actor |-> Idle]
    /\ budget = [foreign |-> MaxForeign, pauses |-> MaxPauses,
                 crashes |-> MaxCrashes, overruns |-> MaxOverruns]

-----------------------------------------------------------------------------
(* The checkpoint: INSERT ... ON CONFLICT DO UPDATE, each column COALESCEd. *)

Coalesce(old, new) ==
    [f \in DOMAIN old |-> IF old[f] = EmptyCheckpoint[f] THEN new[f] ELSE old[f]]

Merge(r, patch) == checkpoint' = [checkpoint EXCEPT ![r] = Coalesce(checkpoint[r], patch)]

-----------------------------------------------------------------------------
(* Where a process goes. *)

At(p, pc) == act[p].pc = pc
Goto(p, pc) == act' = [act EXCEPT ![p].pc = pc]
Ends(p, outcome, code) ==
    [Idle EXCEPT !.pc = "finish", !.run = act[p].run, !.outcome = outcome, !.mode = code]

\* finalizeRunAsInconclusive starts, in the worker's #deadLetter or in the script.
Finalize(p, code) ==
    act' = [act EXCEPT ![p] = [Idle EXCEPT !.pc = "loadRun", !.mode = code, !.run = act[p].run]]

InPipeline(p) == act[p].mode = "pipeline"

\* Mutant of Finalized: the job counts as done once the finalizer has run.
FinalizedAcknowledged(p) ==
    IF p \in Script THEN Idle ELSE Ends(p, "ACK", act[p].mode)

\* The finalizer is over, one way or another: #deadLetter ignores how.
Finalized(p) ==
    IF p \in Script THEN Idle ELSE Ends(p, "DEAD_LETTER", act[p].mode)

-----------------------------------------------------------------------------
(* The worker loop and the script. *)

Sweep(w) ==
    /\ At(w, "idle")
    /\ \E r \in Run : Exhausted(job[r])
    /\ DeadLetterExhausted(w)
    /\ reason' = [r \in Run |-> IF Exhausted(job[r]) THEN "STALE_LEASE_ATTEMPTS_EXHAUSTED" ELSE reason[r]]
    /\ UNCHANGED <<run, ledgerVars, storeVars, act, budget>>

Poll(w, r) ==
    /\ At(w, "idle")
    /\ ClaimNext(w, r)
    /\ act' = [act EXCEPT ![w] = [Idle EXCEPT !.pc = "loadRun", !.run = r]]
    /\ UNCHANGED <<run, reason, ledgerVars, storeVars, budget>>

\* The stranded runs whose dead letter is safe to finalize.
ScriptStart(s, r) ==
    /\ At(s, "idle")
    /\ job[r].status = "DEAD_LETTER"
    /\ run[r].status \notin Lifecycle!Delivered \cup {"CANCELLED", "EXPIRED"}
    /\ reason[r] \in FinalizableReasons
    /\ act' = [act EXCEPT ![s] = [Idle EXCEPT !.pc = "loadRun", !.mode = reason[r], !.run = r]]
    /\ UNCHANGED <<queueVars, run, reason, ledgerVars, storeVars, budget>>

\* The handler's result is written under the fence of the lease.
Report(w) ==
    /\ At(w, "finish")
    /\ CASE act[w].outcome = "ACK" -> MarkCompleted(w)
         [] act[w].outcome = "RETRY" -> MarkRetry(w)
         [] act[w].outcome = "DEAD_LETTER" -> MarkDeadLetter(w)
    /\ reason' = IF act[w].outcome = "DEAD_LETTER"
                 THEN [reason EXCEPT ![act[w].run] = act[w].mode] ELSE reason
    /\ act' = [act EXCEPT ![w] = Idle]
    /\ UNCHANGED <<run, ledgerVars, storeVars, budget>>

\* Lease ownership conflict: the process exits and is restarted.
ReportRejected(w) ==
    /\ At(w, "finish")
    /\ FinishRejected(w)
    /\ act' = [act EXCEPT ![w] = Idle]
    /\ UNCHANGED <<run, reason, ledgerVars, storeVars, budget>>

Crash(w) ==
    /\ budget.crashes > 0
    /\ Abandon(w)
    /\ act' = [act EXCEPT ![w] = Idle]
    /\ budget' = [budget EXCEPT !.crashes = @ - 1]
    /\ UNCHANGED <<run, reason, ledgerVars, storeVars>>

-----------------------------------------------------------------------------
(* runOrchestratorPipeline and finalizeRunAsInconclusive, step by step.    *)

shared == <<queueVars, reason, budget>>

\* finalizeRunAsInconclusive takes a run on from other statuses than the pipeline.
Loadable(p) == IF InPipeline(p) THEN Resumable ELSE Finalizable

LoadRun(p) ==
    LET r == act[p].run
    IN  /\ At(p, "loadRun")
        /\ act' = [act EXCEPT ![p] =
                     IF run[r].status \in Loadable(p)
                     THEN [act[p] EXCEPT !.pc = "loadCheckpoint", !.status = run[r].status,
                                         !.revision = run[r].revision]
                     ELSE IF InPipeline(p) THEN Ends(p, "DEAD_LETTER", "UNEXPECTED_RUN_STATE")
                     ELSE Finalized(p)]
        /\ UNCHANGED <<shared, run, ledgerVars, storeVars>>

\* The finalizer's verdict is forced, whatever evidence there is.
WorkingCopy(p) ==
    LET kept == checkpoint[act[p].run]
    IN  IF InPipeline(p) THEN kept ELSE [kept EXCEPT !.evidence = "INCONCLUSIVE"]

LoadCheckpoint(p) ==
    /\ At(p, "loadCheckpoint")
    /\ act' = [act EXCEPT ![p].local = WorkingCopy(p),
                          ![p].pc = IF InPipeline(p) \/ act[p].status = "FUNDED"
                                    THEN "analyze" ELSE "build"]
    /\ UNCHANGED <<shared, run, ledgerVars, storeVars>>

\* Where advance is called, the status it moves to, and what follows.
PipelineSteps ==
    [analyze |-> [to |-> "ANALYZING", next |-> "plan"],
     compile |-> [to |-> "PLAN_COMPILED", next |-> "procure"],
     procure |-> [to |-> "PROCURING", next |-> "authorize"],
     execute |-> [to |-> "EXECUTING", next |-> "present"],
     build   |-> [to |-> "EVIDENCE_BUILDING", next |-> "pack"],
     attest  |-> [to |-> "ATTESTING", next |-> "submit"]]

\* The finalizer has nothing to plan, buy or execute.
FinalizerSteps ==
    [analyze |-> [to |-> "ANALYZING", next |-> "build"],
     build   |-> [to |-> "EVIDENCE_BUILDING", next |-> "pack"],
     attest  |-> [to |-> "ATTESTING", next |-> "submit"]]

Advances(p) == IF InPipeline(p) THEN PipelineSteps ELSE FinalizerSteps

\* Mutant of AtRevision: the run may have moved on since it was read.
AnyRevision(p) == TRUE

AtRevision(p) == run[act[p].run].revision = act[p].revision

Save(p, to, next) ==
    /\ AtRevision(p)
    /\ run' = [run EXCEPT ![act[p].run] = Lifecycle!Moved(run[act[p].run], to)]
    /\ act' = [act EXCEPT ![p] = next]

\* advance: statuses the run has reached are skipped, others saved at the expected revision.
Advance(p) ==
    /\ act[p].pc \in DOMAIN Advances(p)
    /\ LET step == Advances(p)[act[p].pc] IN
       IF AtOrAfter(act[p].status, step.to)
       THEN Goto(p, step.next) /\ UNCHANGED run
       ELSE Save(p, step.to, [act[p] EXCEPT !.pc = step.next, !.status = step.to,
                                            !.revision = @ + 1])
    /\ UNCHANGED <<shared, ledgerVars, storeVars>>

\* runRiskAnalysisPhase: a checkpointed plan is reused; a new one is worked with
\* as it was compiled, whichever one the checkpoint keeps.
Plan(p) ==
    /\ At(p, "plan")
    /\ IF act[p].local.plan # NoPlan
       THEN Goto(p, "compile") /\ UNCHANGED checkpoint
       ELSE \E proposal \in Proposal :
              LET plan == CompileTestPlan(proposal, Mandatory, Ceiling) IN
              /\ Merge(act[p].run, [EmptyCheckpoint EXCEPT !.plan = plan])
              /\ act' = [act EXCEPT ![p].local.plan = plan, ![p].pc = "compile"]
    /\ UNCHANGED <<shared, run, ledgerVars, pack, attestation>>

\* targetIsRemote, without a payer registered for that chain.
OnOtherChain(r) == r \in Remote

Denied(p) ==
    \/ OnOtherChain(act[p].run)
    \/ ~PurchaseIsAuthorized(act[p].local.plan, act[p].local.plan.budget, "target-agent", "shipyard-agent",
                             act[p].status \in Lifecycle!Delivered)

Deny(p) ==
    /\ At(p, "authorize")
    /\ Denied(p)
    /\ Finalize(p, "PROCUREMENT_DENIED")
    /\ UNCHANGED <<shared, run, ledgerVars, storeVars>>

\* Mutant of Kept: this attempt works with the authorization it signed itself.
KeptOwn(r, signed) == signed

\* The authorization the row keeps: another lease holder may have won the COALESCE.
Kept(r, signed) == IF checkpoint[r].payment = NoPayment THEN signed ELSE checkpoint[r].payment

\* signExactEvmAuthorization, with a nonce of its own.
Signed(p, price) == [signer |-> p, amount |-> price]

\* decodePaymentHeader: the amount is read from the checkpointed header.
AmountOf(payment) == payment.amount

\* runProcurementPhase: sign once, checkpoint before anything is presented.
Acquire(p) ==
    LET r == act[p].run IN
    /\ At(p, "authorize")
    /\ ~Denied(p)
    /\ IF act[p].local.payment # NoPayment
       THEN Goto(p, "refund") /\ UNCHANGED checkpoint
       ELSE \E price \in Price :
              LET signed == Signed(p, price) IN
              /\ Payable(price, act[p].local.plan)
              /\ Merge(r, [EmptyCheckpoint EXCEPT !.payment = signed])
              /\ act' = [act EXCEPT ![p].local.payment = Kept(r, signed), ![p].pc = "refund"]
    /\ UNCHANGED <<shared, run, ledgerVars, pack, attestation>>

-----------------------------------------------------------------------------
(* The refund. *)

RefundIsDue(p) ==
    RefundDue(Ceiling, AmountOf(act[p].local.payment)) > 0 /\ ~act[p].local.refunded

\* Mutant of KeptNonce: this attempt uses the nonce it has just read.
KeptNonceOwn(r, reserved) == reserved

KeptNonce(r, reserved) ==
    IF checkpoint[r].refundNonce = NoNonce THEN reserved ELSE checkpoint[r].refundNonce

\* reserveNonce reads the pending count, which reserves nothing; the row keeps one nonce.
ReserveNonce(p) ==
    LET r == act[p].run IN
    /\ At(p, "refund")
    /\ CASE ~RefundIsDue(p) -> Goto(p, "execute") /\ UNCHANGED checkpoint
         [] RefundIsDue(p) /\ act[p].local.refundNonce # NoNonce ->
                Goto(p, "checkNonce") /\ UNCHANGED checkpoint
         [] OTHER ->
                /\ Merge(r, [EmptyCheckpoint EXCEPT !.refundNonce = nonce])
                /\ act' = [act EXCEPT ![p].local.refundNonce = KeptNonce(r, nonce),
                                      ![p].pc = "checkNonce"]
    /\ UNCHANGED <<shared, run, ledgerVars, pack, attestation>>

\* isNonceConsumed: an outcome nobody checkpointed is left to a person.
CheckNonce(p) ==
    /\ At(p, "checkNonce")
    /\ act' = [act EXCEPT ![p] = IF nonce > act[p].local.refundNonce
                                 THEN Ends(p, "DEAD_LETTER", "PAYMENT_SEND_AMBIGUOUS")
                                 ELSE [act[p] EXCEPT !.pc = "sendRefund"]]
    /\ UNCHANGED <<shared, run, ledgerVars, storeVars>>

\* The chain mines one transaction per nonce, in order.
SendRefund(p) ==
    /\ At(p, "sendRefund")
    /\ act[p].local.refundNonce = nonce
    /\ nonce' = nonce + 1
    /\ refunds' = [refunds EXCEPT ![act[p].run] = @ + RefundDue(Ceiling, AmountOf(act[p].local.payment))]
    /\ Goto(p, "saveRefund")
    /\ UNCHANGED <<shared, run, targetVars, registry, paused, storeVars>>

SaveRefund(p) ==
    /\ At(p, "saveRefund")
    /\ Merge(act[p].run, [EmptyCheckpoint EXCEPT !.refunded = TRUE])
    /\ Goto(p, "execute")
    /\ UNCHANGED <<shared, run, ledgerVars, pack, attestation>>

-----------------------------------------------------------------------------
(* The probes. *)

\* verifyExactEvmPayment: what the checkpoint keeps was signed for this target, so
\* only its validity window can fail it.
Verifies(r) == r \notin expired

\* One request with the authorization: it may not arrive, and its answer may be lost.
Request(p, response) ==
    LET r == act[p].run
        payment == act[p].local.payment
        verifies == Verifies(r)
    IN  \/ /\ response = NoResponse
           /\ UNCHANGED <<presented, settled>>
        \/ \E settlement \in Settlements(payment, settled[r]) :
             /\ response \in {NoResponse, PaidResource(r \in protected, verifies, settlement)}
             /\ presented' = [presented EXCEPT ![r] = @ \cup {payment}]
             /\ settled' = IF verifies THEN [settled EXCEPT ![r] = Collected(@, payment, settlement)]
                           ELSE settled

\* runExecutionPhase: checkpointed evidence is reused, otherwise the replay
\* scenario, which every plan has, presents the authorization.
Present(p) ==
    /\ At(p, "present")
    /\ IF act[p].local.evidence # NoResult
       THEN Goto(p, "build") /\ UNCHANGED <<presented, settled>>
       ELSE \E response \in {NoResponse, 200, 402, 409} :
              /\ Request(p, response)
              /\ act' = [act EXCEPT ![p] =
                           [@ EXCEPT !.pc = IF ReplayIsTried(response) THEN "replay" ELSE "save",
                                     !.probe = Receipted(response, ReplayResult(response, NoResponse))]]
    /\ UNCHANGED <<shared, run, nonce, refunds, protected, expired, registry, paused, storeVars>>

Replay(p) ==
    /\ At(p, "replay")
    /\ \E response \in {NoResponse, 200, 402, 409} :
         /\ Request(p, response)
         /\ act' = [act EXCEPT ![p] = [@ EXCEPT !.pc = "save", !.probe = ReplayResult(200, response)]]
    /\ UNCHANGED <<shared, run, nonce, refunds, protected, expired, registry, paused, storeVars>>

\* The other scenarios of the plan need no payment; the target refuses them unless
\* the request or its answer is lost.  The attempt goes on with its own results,
\* even if the checkpoint keeps those of another.
SaveEvidence(p) ==
    LET others == act[p].local.plan.scenarios \cap CredentialScenarios
        own == IF "payment-proof-replay" \in act[p].local.plan.scenarios THEN {act[p].probe} ELSE {}
    IN  /\ At(p, "save")
        /\ \E answer \in [others -> {NoResponse, 402}] :
             LET results == own \cup {Receipted(answer[s], CredentialResult(answer[s])) : s \in others}
                 verdict == Evidence({Trusted(x, ProviderSigns) : x \in results})
             IN  /\ Merge(act[p].run, [EmptyCheckpoint EXCEPT !.evidence = verdict])
                 /\ act' = [act EXCEPT ![p] = [@ EXCEPT !.local.evidence = verdict,
                                                         !.probe = NoResult, !.pc = "build"]]
        /\ UNCHANGED <<shared, run, ledgerVars, pack, attestation>>

-----------------------------------------------------------------------------
(* Evidence pack, attestation, delivery. *)

\* runEvidencePhase: every scenario is receipted, then the pack is looked up.
Pack(p) ==
    /\ At(p, "pack")
    /\ act[p].local.evidence # Unanswered
    /\ Goto(p, IF pack[act[p].run] # NoResult THEN "attest" ELSE "putPack")
    /\ UNCHANGED <<shared, run, ledgerVars, storeVars>>

\* buildEvidencePack: of its content only the result matters here.
PackOf(p) == act[p].local.evidence

\* A second insert violates the primary key.
PutPack(p) ==
    /\ At(p, "putPack")
    /\ pack[act[p].run] = NoResult
    /\ pack' = [pack EXCEPT ![act[p].run] = PackOf(p)]
    /\ Goto(p, "attest")
    /\ UNCHANGED <<shared, run, ledgerVars, checkpoint, attestation>>

\* buildAttestationInput, which is given the attempt's own result.
AttestationOf(p) == act[p].local.evidence

\* Mutant of RegistryAccepts: a run can be recorded again.
RegistryOverwrites(r) == ~paused

\* recordRun: not paused, the run and its payment proof not recorded before.
RegistryAccepts(r) ==
    /\ ~paused
    /\ \A q \in Run : registry[q] # NoResult => q # r /\ ProofOf[q] # ProofOf[r]

\* Mutant of Submit: a revert is taken for "already recorded".
SubmitTolerant(p) ==
    LET r == act[p].run
        accepted == ~act[p].local.attested /\ RegistryAccepts(r)
    IN  /\ At(p, "submit")
        /\ registry' = IF accepted THEN [registry EXCEPT ![r] = AttestationOf(p)] ELSE registry
        /\ nonce' = IF accepted THEN nonce + 1 ELSE nonce
        /\ Goto(p, IF accepted THEN "saveAttestation" ELSE "store")
        /\ UNCHANGED <<shared, run, refunds, targetVars, paused, storeVars>>

\* runAttestationPhase: a checkpointed submission is reused.
Submit(p) ==
    LET r == act[p].run IN
    /\ At(p, "submit")
    /\ IF act[p].local.attested
       THEN Goto(p, "store") /\ UNCHANGED <<nonce, registry>>
       ELSE /\ RegistryAccepts(r)
            /\ registry' = [registry EXCEPT ![r] = AttestationOf(p)]
            /\ nonce' = nonce + 1
            /\ Goto(p, "saveAttestation")
    /\ UNCHANGED <<shared, run, refunds, targetVars, paused, storeVars>>

SaveAttestation(p) ==
    /\ At(p, "saveAttestation")
    /\ Merge(act[p].run, [EmptyCheckpoint EXCEPT !.attested = TRUE])
    /\ Goto(p, "store")
    /\ UNCHANGED <<shared, run, ledgerVars, pack, attestation>>

Store(p) ==
    /\ At(p, "store")
    /\ Goto(p, IF act[p].run \in attestation THEN "deliver" ELSE "putAttestation")
    /\ UNCHANGED <<shared, run, ledgerVars, storeVars>>

PutAttestation(p) ==
    /\ At(p, "putAttestation")
    /\ act[p].run \notin attestation
    /\ attestation' = attestation \cup {act[p].run}
    /\ Goto(p, "deliver")
    /\ UNCHANGED <<shared, run, ledgerVars, checkpoint, pack>>

Deliver(p) ==
    /\ At(p, "deliver")
    /\ Save(p, CASE act[p].local.evidence = "PASS" -> "DELIVERED_PASS"
                 [] act[p].local.evidence = "FAIL" -> "DELIVERED_FAIL"
                 [] OTHER -> "DELIVERED_INCONCLUSIVE",
            IF InPipeline(p) THEN Ends(p, "ACK", "NONE") ELSE Finalized(p))
    /\ UNCHANGED <<shared, ledgerVars, storeVars>>

\* Any other error ends the attempt: retried, or finalized on the last one.
Fail(p) ==
    /\ act[p].pc \notin {"idle", "finish"}
    /\ CASE ~InPipeline(p) -> act' = [act EXCEPT ![p] = Finalized(p)]
         [] InPipeline(p) /\ held[p].attempt >= MaxAttempts -> Finalize(p, "PIPELINE_RETRIES_EXHAUSTED")
         [] OTHER -> act' = [act EXCEPT ![p] = Ends(p, "RETRY", "NONE")]
    /\ UNCHANGED <<shared, run, ledgerVars, storeVars>>

-----------------------------------------------------------------------------
(* Environment. *)

\* The same wallet attests and refunds other runs.
ForeignTransaction ==
    /\ budget.foreign > 0
    /\ nonce' = nonce + 1
    /\ budget' = [budget EXCEPT !.foreign = @ - 1]
    /\ UNCHANGED <<queueVars, run, reason, refunds, targetVars, registry, paused, storeVars, act>>

\* maxTimeoutSeconds of the requirement, counted from the signature.
AuthorizationExpires(r) ==
    /\ checkpoint[r].payment # NoPayment
    /\ Cardinality(expired \cup {r}) <= MaxExpired
    /\ expired' = expired \cup {r}
    /\ UNCHANGED <<queueVars, run, reason, nonce, refunds, protected, presented, settled, registry,
                   paused, storeVars, act, budget>>

OwnerPauses ==
    /\ ~paused
    /\ budget.pauses > 0
    /\ paused' = TRUE
    /\ budget' = [budget EXCEPT !.pauses = @ - 1]
    /\ UNCHANGED <<queueVars, run, reason, nonce, refunds, targetVars, registry, storeVars, act>>

OwnerUnpauses ==
    /\ paused
    /\ paused' = FALSE
    /\ UNCHANGED <<queueVars, run, reason, nonce, refunds, targetVars, registry, storeVars, act, budget>>

\* The lease of a worker that is still busy, or of one that is gone.
Overrun(r) == \E w \in Worker : Fence(w) /\ held[w].job = r

LeaseTimeout(r) ==
    /\ LeaseLapses(r)
    /\ IF Overrun(r)
       THEN budget.overruns > 0 /\ budget' = [budget EXCEPT !.overruns = @ - 1]
       ELSE UNCHANGED budget
    /\ UNCHANGED <<run, reason, ledgerVars, storeVars, act>>

Progress(p) ==
    \/ LoadRun(p) \/ LoadCheckpoint(p) \/ Advance(p) \/ Plan(p) \/ Deny(p) \/ Acquire(p)
    \/ ReserveNonce(p) \/ CheckNonce(p) \/ SendRefund(p) \/ SaveRefund(p)
    \/ Present(p) \/ Replay(p) \/ SaveEvidence(p)
    \/ Pack(p) \/ PutPack(p) \/ Submit(p) \/ SaveAttestation(p)
    \/ Store(p) \/ PutAttestation(p) \/ Deliver(p)

Next ==
    \/ \E w \in Worker, r \in Run : Poll(w, r)
    \/ \E w \in Worker : Sweep(w) \/ Report(w) \/ ReportRejected(w) \/ Crash(w)
    \/ \E s \in Script, r \in Run : ScriptStart(s, r)
    \/ \E p \in Actor : Progress(p) \/ Fail(p)
    \/ \E r \in Run : LeaseTimeout(r) \/ AuthorizationExpires(r)
    \/ ForeignTransaction \/ OwnerPauses \/ OwnerUnpauses

Spec == Init /\ [][Next]_vars

(***************************************************************************)
(* Fairness: a worker that has a job goes on, if only to fail, and reports *)
(* (an HTTP or RPC call times out); time passes, so the lease of a worker  *)
(* that is gone lapses; some worker keeps polling, sweeping first, and a   *)
(* due row gets its turn.                                                  *)
(***************************************************************************)
Fairness ==
    /\ \A p \in Actor : WF_vars(Progress(p) \/ Fail(p))
    /\ \A w \in Worker : WF_vars(Report(w) \/ ReportRejected(w))
    /\ \A r \in Run : WF_vars(LeaseTimeout(r)) /\ SF_vars(\E w \in Worker : Poll(w, r))
    /\ SF_vars(\E w \in Worker : Sweep(w))

FairSpec == Spec /\ Fairness

-----------------------------------------------------------------------------
(* Properties. *)

TestPlan(scenarios) == [scenarios : SUBSET scenarios, budget : 0..Ceiling]
Payment == [signer : Actor, amount : {price \in Price : price <= Ceiling}]

CheckpointRow(scenarios) ==
    [plan : TestPlan(scenarios), payment : Payment \cup {NoPayment}, refundNonce : Nat \cup {NoNonce},
     refunded : BOOLEAN, evidence : Result \cup {NoResult, Unanswered}, attested : BOOLEAN]

\* Queue, runs and stores hold values of their columns' types, and a process
\* works on the run it has claimed or is idle.
TypeOK ==
    LET scenarios == Mandatory \cup UNION {x.scenarios : x \in Proposal} IN
    /\ QueueTypeOK
    /\ run \in [Run -> [status : Lifecycle!Paid, revision : Nat]]
    /\ checkpoint \in [Run -> CheckpointRow(scenarios)]
    /\ nonce \in Nat /\ refunds \in [Run -> Nat]
    /\ presented \in [Run -> SUBSET Payment] /\ settled \in [Run -> SUBSET Payment]
    /\ pack \in [Run -> Result \cup {NoResult}] /\ registry \in [Run -> Result \cup {NoResult}]
    /\ protected \subseteq Run /\ expired \subseteq Run /\ attestation \subseteq Run
    /\ \A p \in Actor : act[p].local \in CheckpointRow(scenarios)
    /\ \A p \in Actor : (act[p].run \in Run) <=> (act[p].pc # "idle")
    /\ \A w \in Worker : act[w].run = held[w].job

\* However many workers and attempts sign an authorization for a run, at most one
\* is ever used, and it is the one the checkpoint keeps (procurement-phase.ts:110,
\* "Always execute the row PostgreSQL actually kept").
OnePurchasePerRun ==
    \A r \in Run : presented[r] # {} => presented[r] = {checkpoint[r].payment}

\* Purchase and refund of a run together never cost more than the tool budget its
\* customer prepaid: the refund is sent once, whoever resumes after a lost answer.
BudgetIsConserved ==
    \A r \in Run : \A payment \in settled[r] : refunds[r] + payment.amount <= Ceiling

\* A PASS on the registry was earned: the target really refuses a second delivery
\* for the same authorization, or refused because the authorization had expired.
VerdictIsEarned == \A r \in Run : registry[r] = "PASS" => r \in protected \cup expired

\* docs/state-machine.md asks for the registry receipt before ATTESTING ends.  A
\* delivered run has its evidence pack, its registry entry, the transaction of that
\* entry in its checkpoint and in the attestations table.
DeliveredIsAttested ==
    \A r \in Run : run[r].status \in Lifecycle!Delivered =>
        /\ pack[r] # NoResult /\ registry[r] # NoResult
        /\ checkpoint[r].attested /\ r \in attestation

\* A job that is acknowledged belongs to a run that was delivered, also when its
\* worker lost the lease and another one finished the run.
CompletedIsDelivered ==
    \A r \in Run : job[r].status = "COMPLETED" => run[r].status \in Lifecycle!Delivered

\* Every change of a run is a transition of the run state machine at the revision
\* the worker read, so of two attempts on one run only one gets each step through.
ImplementsLifecycle == [][Lifecycle!Next]_run

\* What the wallet, the token, the checkpoint and the registry hold of a run.
Settlement == INSTANCE RunSettlement WITH
    Run <- Run, Payment <- Payment, NoPayment <- NoPayment, Ceiling <- Ceiling,
    Verdict <- Result, NoVerdict <- NoResult,
    ledger <- [r \in Run |-> [purchase |-> checkpoint[r].payment, settled |-> settled[r],
                             refund |-> refunds[r], verdict |-> registry[r]]]

\* The pipeline implements RunSettlement: one purchase, collected once, one refund of
\* exactly the rest, and one verdict that is never replaced.
SettlesOnce == Settlement!Spec

\* No run is retried forever, and none stays claimed by a worker that is gone.
EveryJobEnds == \A r \in Run : <>[](job[r].status \in {"COMPLETED", "DEAD_LETTER"})

\* worker.ts:114: a re-claimed job goes on "instead of repeating spend-once side
\* effects".  The first presentation to the target happens once.
SpendOnceIsNotRepeated ==
    [][\A p \in Actor : At(p, "present") /\ act'[p].pc \in {"replay", "save"}
          => settled[act[p].run] = {}]_vars

=============================================================================
