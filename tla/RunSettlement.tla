---------------------------- MODULE RunSettlement ----------------------------
(***************************************************************************)
(* What the orchestrator promises about the money and the verdict of a     *)
(* funded run, whatever crashes, overlapping leases and retries happen on  *)
(* the way: one purchase authorization is ever used, the rest of the tool  *)
(* budget is refunded at most once, and one verdict is attested.           *)
(* Orchestration is shown to implement it.                                 *)
(***************************************************************************)
EXTENDS Naturals

CONSTANTS Run, Payment, NoPayment, Ceiling, Verdict, NoVerdict

VARIABLE ledger    \* for each run: its purchase, what was settled, refunded and attested

Unsettled == [purchase |-> NoPayment, settled |-> {}, refund |-> 0, verdict |-> NoVerdict]

Init == ledger = [r \in Run |-> Unsettled]

Purchase(r) ==
    /\ ledger[r].purchase = NoPayment
    /\ \E payment \in Payment :
        /\ payment.amount <= Ceiling
        /\ ledger' = [ledger EXCEPT ![r].purchase = payment]

\* The target collects the authorization, and can collect no other one.
Settle(r) ==
    /\ ledger[r].purchase # NoPayment
    /\ ledger[r].settled = {}
    /\ ledger' = [ledger EXCEPT ![r].settled = {ledger[r].purchase}]

Refund(r) ==
    /\ ledger[r].purchase # NoPayment
    /\ ledger[r].refund = 0
    /\ ledger' = [ledger EXCEPT ![r].refund = Ceiling - ledger[r].purchase.amount]

Attest(r) ==
    /\ ledger[r].verdict = NoVerdict
    /\ \E verdict \in Verdict : ledger' = [ledger EXCEPT ![r].verdict = verdict]

Next == \E r \in Run : Purchase(r) \/ Settle(r) \/ Refund(r) \/ Attest(r)

Spec == Init /\ [][Next]_ledger

=============================================================================
