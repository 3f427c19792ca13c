------------------------ MODULE CrossChainProcurement ------------------------
(***************************************************************************)
(* Buying from a target on another chain: runCrossChainProcurementPhase    *)
(* and the settlement part of runExecutionPhase (apps/orchestrator-worker),*)
(* the Stargate adapter and the BNB payment client with the claims they    *)
(* keep in PostgreSQL, the bridge and its scan service, and the BNB target *)
(* with its facilitator (apps/bnb-x402-target).  The rest of the pipeline  *)
(* is in Orchestration.                                                    *)
(*                                                                         *)
(* A process is an attempt of the orchestrator; Fail(p) is any error that  *)
(* is not named, and an effect whose answer is lost is the effect followed *)
(* by Fail.  Amounts of both chains are in units of the route's shared     *)
(* decimals, and an authorization is named by who signed it and when.      *)
(***************************************************************************)
EXTENDS LeaseQueue, Procurement

CONSTANTS
    Price,        \* what the target may ask
    Ceiling,      \* targetPaymentAmountAtomic: maximum price and minimum bridge output
    PolicyCost,   \* policyCostAtomic: what the purchase costs on the funding chain
    Budget,       \* budgets a plan may have there
    Delivery,     \* amounts a bridge transfer may deliver
    MaxFaults     \* bound on worker crashes, leases that lapse under a worker that is still
                  \* busy, lost leg records, and the facilitator's restarts, together

Run == Job

ASSUME AmountAssumption == /\ Ceiling \in Nat \ {0} /\ PolicyCost \in Nat \ {0}
                           /\ Price \subseteq Nat \ {0}
                           /\ Delivery \subseteq Nat /\ Budget \subseteq Nat

VARIABLES
    terms,          \* of each run: its payer's mode and its plan's budget
    checkpoint,     \* the cross-chain columns of orchestrator_run_checkpoints
    bridgeRow,      \* bridge_submissions: status of the run's idempotency key
    purchaseRow,    \* bnb_x402_authorizations
    legs,           \* run_settlement_legs: status of the BRIDGE and TARGET_PAYMENT leg
    sent,           \* number of bridge transfers broadcast for each run
    delivery,       \* where the first of them is: a status and the amount received
    late,           \* runs whose bridge is older than maximumBridgeWaitSeconds
    verified,       \* authorizations in the facilitator's verifiedPayments map
    settled,        \* authorizations settled on the target's chain
    presented,      \* authorizations sent to the target for each run
    act,            \* the processes
    faults          \* that may still happen

rowVars == <<checkpoint, bridgeRow, purchaseRow, legs>>
bridgeVars == <<sent, delivery, late>>
targetVars == <<verified, settled, presented>>
vars == <<queueVars, terms, rowVars, bridgeVars, targetVars, act, faults>>

NoPayment == [run |-> "none", signer |-> "none", attempt |-> 0, amount |-> 0]
EmptyCheckpoint == [transfer |-> FALSE, funded |-> 0, payment |-> NoPayment, paid |-> FALSE]
NoPurchase == [status |-> "ABSENT", amount |-> 0, payment |-> NoPayment]
Idle == [pc |-> "idle", run |-> "NONE", local |-> EmptyCheckpoint, payment |-> NoPayment,
         overdue |-> FALSE, answered |-> FALSE, outcome |-> "NONE"]

Init ==
    /\ job = [r \in Job |-> PendingRow]
    /\ held = [w \in Worker |-> NoClaim]
    /\ overtaken = {}
    /\ terms \in [Run -> [mode : {"PREFUNDED", "BRIDGE_THEN_PAY"}, budget : Budget]]
    /\ checkpoint = [r \in Run |-> EmptyCheckpoint]
    /\ bridgeRow = [r \in Run |-> "ABSENT"]
    /\ purchaseRow = [r \in Run |-> NoPurchase]
    /\ legs = [r \in Run |-> [bridge |-> "NONE", payment |-> "NONE"]]
    /\ sent = [r \in Run |-> 0]
    /\ delivery = [r \in Run |-> [status |-> "NONE", amount |-> 0]]
    /\ late = {}
    /\ verified = {} /\ settled = {} /\ presented = [r \in Run |-> {}]
    /\ act = [w \in Worker |-> Idle]
    /\ faults = MaxFaults

-----------------------------------------------------------------------------
(* Rows. *)

Coalesce(old, new) ==
    [f \in DOMAIN old |-> IF old[f] = EmptyCheckpoint[f] THEN new[f] ELSE old[f]]

\* merge, which answers with the row as it is kept.
Kept(r, patch) == Coalesce(checkpoint[r], patch)
Merge(r, patch) == checkpoint' = [checkpoint EXCEPT ![r] = Kept(r, patch)]

Rank == [NONE |-> 0, PENDING |-> 0, SUBMITTED |-> 1, CONFIRMED |-> 2, FAILED |-> 3]

\* record: an upsert that never goes back to an earlier status.
Recorded(old, status) == IF Rank[status] >= Rank[old] THEN status ELSE old

\* recordLeg swallows its own failure.
RecordLeg(r, leg, status) ==
    \/ legs' = [legs EXCEPT ![r][leg] = Recorded(@, status)] /\ UNCHANGED faults
    \/ faults > 0 /\ faults' = faults - 1 /\ UNCHANGED legs

At(p, pc) == act[p].pc = pc
Goto(p, pc) == act' = [act EXCEPT ![p].pc = pc]
Ends(p, outcome) == [Idle EXCEPT !.pc = "finish", !.run = act[p].run, !.outcome = outcome]

\* An error: a retry, or the finalizer and a dead letter on the last attempt.
Failed(p) == Ends(p, IF held[p].attempt >= MaxAttempts THEN "DEAD_LETTER" ELSE "RETRY")
Throw(p) == act' = [act EXCEPT ![p] = Failed(p)]

-----------------------------------------------------------------------------
(* The queue (see LeaseQueue and Orchestration). *)

Sweep(w) ==
    /\ At(w, "idle")
    /\ \E r \in Run : Exhausted(job[r])
    /\ DeadLetterExhausted(w)
    /\ UNCHANGED <<terms, rowVars, bridgeVars, targetVars, act, faults>>

Poll(w, r) ==
    /\ At(w, "idle")
    /\ ClaimNext(w, r)
    /\ act' = [act EXCEPT ![w] = [Idle EXCEPT !.pc = "load", !.run = r]]
    /\ UNCHANGED <<terms, rowVars, bridgeVars, targetVars, faults>>

Report(w) ==
    /\ At(w, "finish")
    /\ CASE act[w].outcome = "ACK" -> MarkCompleted(w)
         [] act[w].outcome = "RETRY" -> MarkRetry(w)
         [] act[w].outcome = "WAIT" -> MarkWaiting(w)
         [] act[w].outcome = "DEAD_LETTER" -> MarkDeadLetter(w)
    /\ act' = [act EXCEPT ![w] = Idle]
    /\ UNCHANGED <<terms, rowVars, bridgeVars, targetVars, faults>>

ReportRejected(w) ==
    /\ At(w, "finish")
    /\ FinishRejected(w)
    /\ act' = [act EXCEPT ![w] = Idle]
    /\ UNCHANGED <<terms, rowVars, bridgeVars, targetVars, faults>>

Crash(w) ==
    /\ faults > 0
    /\ Abandon(w)
    /\ act' = [act EXCEPT ![w] = Idle]
    /\ faults' = faults - 1
    /\ UNCHANGED <<terms, rowVars, bridgeVars, targetVars>>

Overrun(r) == \E w \in Worker : Fence(w) /\ held[w].job = r

LeaseTimeout(r) ==
    /\ LeaseLapses(r)
    /\ IF Overrun(r)
       THEN faults > 0 /\ faults' = faults - 1
       ELSE UNCHANGED faults
    /\ UNCHANGED <<terms, rowVars, bridgeVars, targetVars, act>>

-----------------------------------------------------------------------------
(* Funding the destination: fundDestinationByBridge and the adapter. *)

shared == <<queueVars, terms, faults>>

\* Mutant of FirstStep: a transfer that was sent counts as delivered.
FirstStepSkippingDelivery(mode, kept) ==
    CASE mode = "PREFUNDED" \/ kept.transfer -> "paymentLeg"
      [] mode = "BRIDGE_THEN_PAY" /\ ~kept.transfer -> "claimBridge"

FirstStep(mode, kept) ==
    CASE mode = "PREFUNDED" -> "paymentLeg"
      [] mode = "BRIDGE_THEN_PAY" /\ kept.transfer -> "bridgeStatus"
      [] mode = "BRIDGE_THEN_PAY" /\ ~kept.transfer -> "claimBridge"

\* The checkpoint and the clock are read once, and the purchase is put to the policy.
Load(p) ==
    LET r == act[p].run
        allowed == PurchaseIsAuthorized(terms[r], PolicyCost, "target", "shipyard", FALSE)
    IN  /\ At(p, "load")
        /\ act' = [act EXCEPT ![p] =
                     IF allowed
                     THEN [@ EXCEPT !.local = checkpoint[r], !.overdue = r \in late,
                                    !.pc = FirstStep(terms[r].mode, checkpoint[r])]
                     ELSE Ends(p, "DEAD_LETTER")]
        /\ UNCHANGED <<shared, rowVars, bridgeVars, targetVars>>

\* claim: INSERT ... ON CONFLICT DO NOTHING.
BridgeClaimed(r) ==
    /\ bridgeRow[r] = "ABSENT"
    /\ bridgeRow' = [bridgeRow EXCEPT ![r] = "CLAIMED"]

\* quote and the first half of submit.  The quote's expiry is part of its id, so the
\* row of an earlier attempt is a conflict unless it was quoted in the same
\* millisecond; only then is a recorded submission returned.
ClaimBridge(p) ==
    LET r == act[p].run IN
    /\ At(p, "claimBridge")
    /\ \/ BridgeClaimed(r) /\ Goto(p, "requote")
       \/ /\ bridgeRow[r] # "ABSENT"
          /\ \/ Throw(p)
             \/ bridgeRow[r] = "SUBMITTED" /\ Goto(p, "saveTransfer")
          /\ UNCHANGED bridgeRow
    /\ UNCHANGED <<shared, checkpoint, purchaseRow, legs, bridgeVars, targetVars>>

\* The funding chain: a fresh OFT quote, the messaging fee, the allowance.
SourceChainReady(p) == Goto(p, "send")
SourceChainRefuses(p) == Goto(p, "abandonBridge")

\* Before anything is sent; a failure gives the claim back.
Requote(p) ==
    /\ At(p, "requote")
    /\ SourceChainReady(p) \/ SourceChainRefuses(p)
    /\ UNCHANGED <<shared, rowVars, bridgeVars, targetVars>>

AbandonBridge(p) ==
    LET r == act[p].run IN
    /\ At(p, "abandonBridge")
    /\ bridgeRow' = [bridgeRow EXCEPT ![r] = IF @ = "CLAIMED" THEN "ABSENT" ELSE @]
    /\ Throw(p)
    /\ UNCHANGED <<shared, checkpoint, purchaseRow, legs, bridgeVars, targetVars>>

Broadcast(r) ==
    /\ sent' = [sent EXCEPT ![r] = @ + 1]
    /\ delivery' = [delivery EXCEPT ![r] = IF @.status = "NONE" THEN [@ EXCEPT !.status = "INFLIGHT"] ELSE @]

\* Mutant of SendBridge: an error of the send gives the claim back.
SendBridgeAbandoning(p) ==
    /\ At(p, "send")
    /\ Broadcast(act[p].run)
    /\ Goto(p, "markSubmitted") \/ Goto(p, "abandonBridge")
    /\ UNCHANGED <<shared, rowVars, late, targetVars>>

\* From here on the claim is kept, whatever happens: an error of the send is ambiguous.
SendBridge(p) ==
    /\ At(p, "send")
    /\ Broadcast(act[p].run)
    /\ Goto(p, "markSubmitted")
    /\ UNCHANGED <<shared, rowVars, late, targetVars>>

MarkSubmitted(p) ==
    /\ At(p, "markSubmitted")
    /\ bridgeRow' = [bridgeRow EXCEPT ![act[p].run] = "SUBMITTED"]
    /\ Goto(p, "saveTransfer")
    /\ UNCHANGED <<shared, checkpoint, purchaseRow, legs, bridgeVars, targetVars>>

\* The attempt asks for the transfer on record, and goes on deciding by the checkpoint
\* it has loaded.
SaveTransfer(p) ==
    /\ At(p, "saveTransfer")
    /\ Merge(act[p].run, [EmptyCheckpoint EXCEPT !.transfer = TRUE])
    /\ Goto(p, "bridgeLeg")
    /\ UNCHANGED <<shared, bridgeRow, purchaseRow, legs, bridgeVars, targetVars>>

BridgeLeg(p) ==
    /\ At(p, "bridgeLeg")
    /\ RecordLeg(act[p].run, "bridge", "SUBMITTED")
    /\ Goto(p, "bridgeStatus")
    /\ UNCHANGED <<queueVars, terms, checkpoint, bridgeRow, purchaseRow, bridgeVars, targetVars>>

\* Mutant of TimedOut: a bridge is waited for as long as it takes.
NeverTimedOut(p) == FALSE

\* Measured when the attempt began, so never in the attempt that sent the transfer.
TimedOut(p) == act[p].overdue

\* Mutant of Covers: whatever arrived is enough.
CoversAnything(amount) == TRUE

Covers(amount) == amount >= Ceiling

\* The destination receipt names the amount that arrived.
Arrived(r) == delivery[r].status = "DELIVERED"

\* getStatus: the scan service may lag behind, and the receipt behind the scan.
BridgeStatus(p) ==
    LET bridged == delivery[act[p].run] IN
    /\ At(p, "bridgeStatus")
    /\ \/ act[p].local.funded # 0 /\ Goto(p, "paymentLeg")
       \/ act[p].local.funded = 0 /\ TimedOut(p) /\ Throw(p)
       \/ /\ act[p].local.funded = 0 /\ ~TimedOut(p)
          /\ \/ act' = [act EXCEPT ![p] = Ends(p, "WAIT")]
             \/ bridged.status = "FAILED" /\ Throw(p)
             \/ Arrived(act[p].run) /\ ~Covers(bridged.amount) /\ Throw(p)
             \/ Arrived(act[p].run) /\ Covers(bridged.amount) /\ Goto(p, "saveFunding")
    /\ UNCHANGED <<shared, rowVars, bridgeVars, targetVars>>

SaveFunding(p) ==
    /\ At(p, "saveFunding")
    /\ Merge(act[p].run, [EmptyCheckpoint EXCEPT !.funded = delivery[act[p].run].amount])
    /\ Goto(p, "fundedLeg")
    /\ UNCHANGED <<shared, bridgeRow, purchaseRow, legs, bridgeVars, targetVars>>

FundedLeg(p) ==
    /\ At(p, "fundedLeg")
    /\ RecordLeg(act[p].run, "bridge", "CONFIRMED")
    /\ Goto(p, "paymentLeg")
    /\ UNCHANGED <<queueVars, terms, checkpoint, bridgeRow, purchaseRow, bridgeVars, targetVars>>

-----------------------------------------------------------------------------
(* One authorization for the target: authorizeTargetPayment and acquire. *)

PaymentLeg(p) ==
    /\ At(p, "paymentLeg")
    /\ RecordLeg(act[p].run, "payment", "PENDING")
    /\ Goto(p, IF act[p].local.payment # NoPayment THEN "authorizedLeg" ELSE "claimPurchase")
    /\ UNCHANGED <<queueVars, terms, checkpoint, bridgeRow, purchaseRow, bridgeVars, targetVars>>

PurchaseClaimed(r) ==
    /\ purchaseRow[r].status = "ABSENT"
    /\ purchaseRow' = [purchaseRow EXCEPT ![r] = [NoPurchase EXCEPT !.status = "CLAIMED", !.amount = Ceiling]]

\* The claim is made for the ceiling; once authorized the row holds the price, and a
\* claim for another amount is a conflict.
ClaimPurchase(p) ==
    LET r == act[p].run
        row == purchaseRow[r]
    IN  /\ At(p, "claimPurchase")
        /\ \/ PurchaseClaimed(r) /\ Goto(p, "authorize")
           \/ /\ row.status = "AUTHORIZED" /\ row.amount = Ceiling
              /\ act' = [act EXCEPT ![p].payment = row.payment, ![p].pc = "savePayment"]
              /\ UNCHANGED purchaseRow
           \/ /\ row.status = "CLAIMED" \/ (row.status = "AUTHORIZED" /\ row.amount # Ceiling)
              /\ Throw(p)
              /\ UNCHANGED purchaseRow
        /\ UNCHANGED <<shared, checkpoint, bridgeRow, legs, bridgeVars, targetVars>>

WithinCeiling(price) == price <= Ceiling

\* The Permit2 allowance cannot be read or raised.
AllowanceRefused(p) == Goto(p, "abandonPurchase")

\* The target's challenge, the allowance and the signature.
Authorize(p) ==
    /\ At(p, "authorize")
    /\ \/ \E price \in Price :
            /\ WithinCeiling(price)
            /\ act' = [act EXCEPT ![p].pc = "markAuthorized",
                                  ![p].payment = [run |-> act[p].run, signer |-> p,
                                                  attempt |-> held[p].attempt, amount |-> price]]
       \/ AllowanceRefused(p)
       \/ (\E price \in Price : ~WithinCeiling(price)) /\ Goto(p, "notPayable")
    /\ UNCHANGED <<shared, rowVars, bridgeVars, targetVars>>

\* Only a row that is still claimed, or already holds this authorization.
MarkAuthorized(p) ==
    LET r == act[p].run IN
    /\ At(p, "markAuthorized")
    /\ \/ /\ purchaseRow[r].status = "CLAIMED"
          /\ purchaseRow' = [purchaseRow EXCEPT ![r] = [status |-> "AUTHORIZED",
                                                        amount |-> act[p].payment.amount,
                                                        payment |-> act[p].payment]]
          /\ Goto(p, "savePayment") \/ Goto(p, "abandonPurchase")
       \/ Goto(p, "abandonPurchase") /\ UNCHANGED purchaseRow
    /\ UNCHANGED <<shared, checkpoint, bridgeRow, legs, bridgeVars, targetVars>>

\* Mutant of Abandoned: the row is deleted whatever it holds.
AbandonedAlways(row) == NoPurchase

Abandoned(row) == IF row.status = "CLAIMED" THEN NoPurchase ELSE row

\* abandonClaim in acquire's catch; a challenge nobody may pay is a denial.
AbandonPurchase(p) ==
    LET r == act[p].run IN
    /\ act[p].pc \in {"abandonPurchase", "notPayable"}
    /\ purchaseRow' = [purchaseRow EXCEPT ![r] = Abandoned(@)]
    /\ IF At(p, "notPayable")
       THEN RecordLeg(r, "payment", "FAILED") /\ act' = [act EXCEPT ![p] = Ends(p, "DEAD_LETTER")]
       ELSE Throw(p) /\ UNCHANGED <<legs, faults>>
    /\ UNCHANGED <<queueVars, terms, checkpoint, bridgeRow, bridgeVars, targetVars>>

\* The authorization that is kept is the one the attempt presents.
SavePayment(p) ==
    LET r == act[p].run
        patch == [EmptyCheckpoint EXCEPT !.payment = act[p].payment]
    IN
    /\ At(p, "savePayment")
    /\ Merge(r, patch)
    /\ act' = [act EXCEPT ![p].local.payment = Kept(r, patch).payment, ![p].pc = "authorizedLeg"]
    /\ UNCHANGED <<shared, bridgeRow, purchaseRow, legs, bridgeVars, targetVars>>

\* The leg is CONFIRMED once the payment is authorized; it is settled later.
AuthorizedLeg(p) ==
    /\ At(p, "authorizedLeg")
    /\ RecordLeg(act[p].run, "payment", "CONFIRMED")
    /\ Goto(p, "verify")
    /\ UNCHANGED <<queueVars, terms, checkpoint, bridgeRow, purchaseRow, bridgeVars, targetVars>>

-----------------------------------------------------------------------------
(* The target: verify, then settle, then deliver. *)

Present(p) == presented' = [presented EXCEPT ![act[p].run] = @ \cup {act[p].local.payment}]

\* The answer has no settlement.
Answered(p) == act' = [act EXCEPT ![p].answered = TRUE, ![p].pc = "execution"]

\* Nor has one that is lost.
Unconfirmed(p) == Goto(p, "execution") \/ Answered(p)

\* A request that does not arrive leaves the outcome to a person.
Verify(p) ==
    LET payment == act[p].local.payment IN
    /\ At(p, "verify")
    /\ \/ /\ payment \notin settled
          /\ verified' = verified \cup {payment}
          /\ Present(p)
          /\ Goto(p, "settle")
       \/ Present(p) /\ Answered(p) /\ UNCHANGED verified
       \/ Goto(p, "execution") /\ UNCHANGED <<verified, presented>>
    /\ UNCHANGED <<shared, rowVars, bridgeVars, settled>>

\* The facilitator settles what it has verified, and forgets it either way; Permit2
\* accepts an authorization once.  What it has settled may not be in the answer.
Settle(p) ==
    LET payment == act[p].local.payment
        accepted == payment \in verified /\ payment \notin settled
    IN  /\ At(p, "settle")
        /\ verified' = verified \ {payment}
        /\ \/ /\ accepted
              /\ settled' = settled \cup {payment}
              /\ Goto(p, "saveSettlement") \/ Unconfirmed(p)
           \/ Unconfirmed(p) /\ UNCHANGED settled
        /\ UNCHANGED <<shared, rowVars, bridgeVars, presented>>

SaveSettlement(p) ==
    /\ At(p, "saveSettlement")
    /\ checkpoint' = [checkpoint EXCEPT ![act[p].run] = Coalesce(@, [EmptyCheckpoint EXCEPT !.paid = TRUE])]
    /\ act' = [act EXCEPT ![p] = Ends(p, "ACK")]
    /\ UNCHANGED <<shared, bridgeRow, purchaseRow, legs, bridgeVars, targetVars>>

\* Mutant of Unsettled: an answer is taken for a settlement.
UnsettledAccepted(p) ==
    /\ At(p, "execution")
    /\ act' = [act EXCEPT ![p] = Ends(p, IF act[p].answered THEN "ACK" ELSE "DEAD_LETTER")]
    /\ UNCHANGED <<shared, rowVars, bridgeVars, targetVars>>

\* No settlement in the answer: an error, or no answer at all and an ambiguous one.
Unsettled(p) ==
    /\ At(p, "execution")
    /\ IF act[p].answered THEN Throw(p) ELSE act' = [act EXCEPT ![p] = Ends(p, "DEAD_LETTER")]
    /\ UNCHANGED <<shared, rowVars, bridgeVars, targetVars>>

\* Any other error, except where a claim is given back first; that may fail, too.
Fail(p) ==
    /\ act[p].pc \notin {"idle", "finish", "requote", "authorize", "markAuthorized"}
    /\ Throw(p)
    /\ UNCHANGED <<shared, rowVars, bridgeVars, targetVars>>

-----------------------------------------------------------------------------
(* Environment. *)

BridgeDelivers(r) ==
    /\ delivery[r].status = "INFLIGHT"
    /\ \/ delivery' = [delivery EXCEPT ![r].status = "FAILED"]
       \/ \E amount \in Delivery :
            delivery' = [delivery EXCEPT ![r] = [status |-> "DELIVERED", amount |-> amount]]
    /\ UNCHANGED <<shared, rowVars, sent, late, targetVars, act>>

BridgeWaitElapses(r) ==
    /\ checkpoint[r].transfer
    /\ late' = late \cup {r}
    /\ UNCHANGED <<shared, rowVars, sent, delivery, targetVars, act>>

\* A verification is older than five minutes, or the facilitator restarts.
FacilitatorForgets ==
    /\ faults > 0
    /\ verified # {}
    /\ verified' = {}
    /\ faults' = faults - 1
    /\ UNCHANGED <<queueVars, terms, rowVars, bridgeVars, settled, presented, act>>

Progress(p) ==
    \/ Load(p) \/ ClaimBridge(p) \/ Requote(p) \/ AbandonBridge(p) \/ SendBridge(p)
    \/ MarkSubmitted(p) \/ SaveTransfer(p) \/ BridgeLeg(p) \/ BridgeStatus(p) \/ SaveFunding(p)
    \/ FundedLeg(p) \/ PaymentLeg(p) \/ ClaimPurchase(p) \/ Authorize(p) \/ MarkAuthorized(p)
    \/ AbandonPurchase(p) \/ SavePayment(p) \/ AuthorizedLeg(p)
    \/ Verify(p) \/ Settle(p) \/ SaveSettlement(p) \/ Unsettled(p)

Next ==
    \/ \E w \in Worker, r \in Run : Poll(w, r)
    \/ \E w \in Worker : Sweep(w) \/ Report(w) \/ ReportRejected(w) \/ Crash(w)
    \/ \E p \in Worker : Progress(p) \/ Fail(p)
    \/ \E r \in Run : LeaseTimeout(r) \/ BridgeDelivers(r) \/ BridgeWaitElapses(r)
    \/ FacilitatorForgets

Spec == Init /\ [][Next]_vars

(***************************************************************************)
(* Fairness: as in Orchestration, and the clock passes the deadline of     *)
(* every bridge.  The bridge itself may never deliver.                     *)
(***************************************************************************)
Fairness ==
    /\ \A w \in Worker : WF_vars(Progress(w) \/ Fail(w)) /\ WF_vars(Report(w) \/ ReportRejected(w))
    /\ \A r \in Run : /\ WF_vars(LeaseTimeout(r)) /\ WF_vars(BridgeWaitElapses(r))
                      /\ SF_vars(\E w \in Worker : Poll(w, r))
    /\ SF_vars(\E w \in Worker : Sweep(w))

FairSpec == Spec /\ Fairness

-----------------------------------------------------------------------------
(* Properties. *)

Payment == [run : Run, signer : Worker, attempt : 1..MaxAttempts,
            amount : {price \in Price : price <= Ceiling}]

CheckpointRow == [transfer : BOOLEAN, funded : {0} \cup Delivery,
                  payment : Payment \cup {NoPayment}, paid : BOOLEAN]

\* Rows hold values of their columns' types, no payment exceeds the ceiling, and a
\* process works on its claim.
TypeOK ==
    /\ QueueTypeOK
    /\ late \subseteq Run
    /\ checkpoint \in [Run -> CheckpointRow]
    /\ bridgeRow \in [Run -> {"ABSENT", "CLAIMED", "SUBMITTED"}]
    /\ \A r \in Run : /\ purchaseRow[r].status \in {"ABSENT", "CLAIMED", "AUTHORIZED"}
                      /\ purchaseRow[r].amount \in {0, Ceiling} \cup Price
                      /\ purchaseRow[r].payment \in Payment \cup {NoPayment}
                      /\ presented[r] \subseteq Payment
    /\ legs \in [Run -> [bridge : DOMAIN Rank, payment : DOMAIN Rank]]
    /\ sent \in [Run -> Nat]
    /\ delivery \in [Run -> [status : {"NONE", "INFLIGHT", "DELIVERED", "FAILED"},
                             amount : {0} \cup Delivery]]
    /\ verified \subseteq Payment /\ settled \subseteq Payment
    /\ \A w \in Worker : /\ act[w].local \in CheckpointRow
                         /\ act[w].payment \in Payment \cup {NoPayment}
                         /\ act[w].run = held[w].job

\* At most one transfer is ever broadcast for a run, none for a prefunded one, and a
\* broadcast transfer is always on record, so that no retry, worker whose lease
\* lapsed, or restart sends a second ("requires reconciliation instead of
\* broadcasting a second bridge transfer").
BridgeIsSentOnce ==
    \A r \in Run : /\ sent[r] <= (IF terms[r].mode = "PREFUNDED" THEN 0 ELSE 1)
                   /\ sent[r] > 0 => bridgeRow[r] # "ABSENT"

\* Every authorization presented for a run, and the one in its checkpoint, is the one
\* on record for it: crashes, retries and overlapping workers never leave two.
OneAuthorizationPerRun ==
    \A r \in Run : /\ presented[r] \subseteq {purchaseRow[r].payment}
                   /\ checkpoint[r].payment \in {NoPayment, purchaseRow[r].payment}

\* A bridged run pays its target only after the transfer arrived, with at least the
\* ceiling, and pays no more than that ("no payment may be attempted until that
\* delivery has been observed").
FundedBeforePaid ==
    \A r \in Run : presented[r] # {} /\ terms[r].mode = "BRIDGE_THEN_PAY" =>
        /\ delivery[r].status = "DELIVERED"
        /\ \A payment \in presented[r] : payment.amount <= Ceiling /\ Ceiling <= delivery[r].amount

\* A job that ends well has had its payment settled on the target's chain.
CompletedIsPaid ==
    \A r \in Run : job[r].status = "COMPLETED" => checkpoint[r].paid /\ checkpoint[r].payment \in settled

\* Every job is finished or put before a person, also when the bridge never delivers.
EveryJobEnds == \A r \in Run : <>(job[r].status \in {"COMPLETED", "DEAD_LETTER"})

(***************************************************************************)
(* The bridged runs implement the state machine of                         *)
(* packages/x402-payments.  A prefunded run never enters it, and the       *)
(* attestation and the refunds belong to Orchestration.                    *)
(***************************************************************************)
ProcurementOf(r) ==
    LET kept == checkpoint[r]
        payment == kept.payment
        row(status) == [status |-> status, received |-> kept.funded,
                        spent |-> IF payment \in settled THEN payment.amount ELSE 0]
    IN  CASE terms[r].mode = "PREFUNDED" ->
                 [status |-> "AWAITING_SOURCE_LOCK", received |-> 0, spent |-> 0]
          [] OTHER ->
                 row(CASE payment \in settled -> "TARGET_PAID"
                       [] payment \notin settled /\ payment # NoPayment -> "TARGET_PAYMENT_SUBMITTED"
                       [] payment = NoPayment /\ kept.funded # 0 -> "DESTINATION_FUNDED"
                       [] payment = NoPayment /\ kept.funded = 0 /\ bridgeRow[r] = "SUBMITTED" -> "BRIDGING"
                       [] OTHER -> IF sent[r] > 0 THEN "SOURCE_LOCKED" ELSE "AWAITING_SOURCE_LOCK")

States == INSTANCE CrossChainStates WITH
              Run <- Run, Amount <- Price \cup Delivery, Maximum <- Ceiling,
              procurement <- [r \in Run |-> ProcurementOf(r)]

\* The orchestrator's steps, with their crashes and retries, are steps of the
\* procurement state machine or leave it alone.
ImplementsStates == States!Spec

=============================================================================
