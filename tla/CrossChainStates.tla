--------------------------- MODULE CrossChainStates ---------------------------
(***************************************************************************)
(* The money of a run whose target is on another chain, as                 *)
(* transitionCrossChainProcurement (packages/x402-payments) orders it.     *)
(* Nothing in the repository but its tests calls that function: the        *)
(* orchestrator's own steps are shown to implement it, in                  *)
(* CrossChainProcurement.                                                  *)
(***************************************************************************)
EXTENDS Naturals

CONSTANTS
    Run,
    Amount,     \* atomic amounts
    Maximum     \* targetMaximumAtomicAmount

VARIABLE procurement      \* status, amountReceivedAtomic and amountSpentAtomic of each run

Init ==
    procurement = [r \in Run |-> [status |-> "AWAITING_SOURCE_LOCK", received |-> 0, spent |-> 0]]

Moves(r, from, to) ==
    /\ procurement[r].status = from
    /\ procurement' = [procurement EXCEPT ![r].status = to]

SourceFundsLocked(r) == Moves(r, "AWAITING_SOURCE_LOCK", "SOURCE_LOCKED")

BridgeSubmitted(r) == Moves(r, "SOURCE_LOCKED", "BRIDGING")

\* The destination funding must cover the target's ceiling.
DestinationFundsReceived(r, amount) ==
    /\ procurement[r].status = "BRIDGING"
    /\ amount >= Maximum
    /\ procurement' = [procurement EXCEPT ![r].status = "DESTINATION_FUNDED", ![r].received = amount]

TargetPaymentCreated(r) == Moves(r, "DESTINATION_FUNDED", "TARGET_PAYMENT_SUBMITTED")

\* The target is paid at most its ceiling.
TargetPaymentConfirmed(r, amount) ==
    /\ procurement[r].status = "TARGET_PAYMENT_SUBMITTED"
    /\ amount \in 1..Maximum
    /\ procurement' = [procurement EXCEPT ![r].status = "TARGET_PAID", ![r].spent = amount]

AttestationConfirmed(r) == Moves(r, "TARGET_PAID", "ATTESTED")

Failed(r) == procurement' = [procurement EXCEPT ![r].status = "FAILED"]

RefundRequested(r) ==
    /\ procurement[r].status \notin {"ATTESTED", "REFUNDED"}
    /\ procurement' = [procurement EXCEPT ![r].status = "REFUND_PENDING"]

RefundConfirmed(r) == Moves(r, "REFUND_PENDING", "REFUNDED")

Next ==
    \E r \in Run :
        \/ SourceFundsLocked(r) \/ BridgeSubmitted(r) \/ TargetPaymentCreated(r)
        \/ AttestationConfirmed(r) \/ Failed(r) \/ RefundRequested(r) \/ RefundConfirmed(r)
        \/ \E amount \in Amount : DestinationFundsReceived(r, amount) \/ TargetPaymentConfirmed(r, amount)

Spec == Init /\ [][Next]_procurement

=============================================================================
