----------------------------- MODULE Procurement -----------------------------
(***************************************************************************)
(* The decisions in front of a purchase: compileTestPlan                   *)
(* (packages/risk-classifier), buildMandate (apps/orchestrator-worker) and *)
(* authorizePurchase (packages/policy-engine), the choice of a payment     *)
(* requirement (packages/x402-payments/src/payer-client.ts), and the       *)
(* refund of what was not spent.  Amounts are atomic units.                *)
(***************************************************************************)
EXTENDS Integers, FiniteSets

\* Mutant of CompileTestPlan: the proposed budget is not cut.
CompileUncapped(proposal, mandatory, ceiling) ==
    [scenarios |-> mandatory \cup proposal.scenarios, budget |-> proposal.budget]

\* The classifier's proposal may add scenarios; its budget is cut to the ceiling.
CompileTestPlan(proposal, mandatory, ceiling) ==
    [scenarios |-> mandatory \cup proposal.scenarios,
     budget    |-> IF proposal.budget > ceiling THEN ceiling ELSE proposal.budget]

\* buildMandate: one call, no retry, the run's own target, the plan's budget.
BuildMandate(plan, tool, host, deadline) ==
    [total |-> plan.budget, single |-> plan.budget, approval |-> plan.budget,
     calls |-> 1, retries |-> 0, tools |-> {tool}, hosts |-> {host}, deadline |-> deadline]

\* isForbiddenHost: loopback, link-local, metadata and private network hosts.
ForbiddenHosts == {"localhost", "private network"}

\* runMandateSchema, which buildMandate parses with.
MandateIsValid(mandate) ==
    /\ mandate.single <= mandate.total
    /\ mandate.approval <= mandate.total
    /\ mandate.hosts \cap ForbiddenHosts = {}

\* The denial codes of authorizePurchase, each with its condition.
DenialCodes(mandate, intent, context) ==
    LET projected == context.spent + intent.amount
        denials ==
            {<<"INVALID_AMOUNT", intent.amount = 0>>,
             <<"RUN_TERMINAL", context.terminal>>,
             <<"MANDATE_EXPIRED", context.now > mandate.deadline>>,
             <<"TOOL_NOT_ALLOWED", intent.tool \notin mandate.tools>>,
             <<"HOST_NOT_ALLOWED", intent.host \notin mandate.hosts>>,
             <<"SELF_DEALING_TOOL", intent.tool = context.agent>>,
             <<"SELF_DEALING_HOST", intent.host \in context.controlled>>,
             <<"SINGLE_PURCHASE_LIMIT", intent.amount > mandate.single>>,
             <<"TOTAL_SPEND_LIMIT", projected > mandate.total>>,
             <<"TOOL_CALL_LIMIT", context.calls >= mandate.calls>>,
             <<"RETRY_LIMIT", context.attempts > mandate.retries>>,
             <<"ADDITIONAL_APPROVAL_REQUIRED", projected > mandate.approval /\ ~context.approved>>,
             <<"INVALID_IDEMPOTENCY_KEY", intent.keyLength \notin 16..200>>}
    IN {d[1] : d \in {x \in denials : x[2]}}

AuthorizePurchase(mandate, intent, context) == DenialCodes(mandate, intent, context) = {}

\* runProcurementPhase asks for the ceiling; the price is known only from the 402.
PurchaseIsAuthorized(plan, amount, tool, agent, terminal) ==
    AuthorizePurchase(
        BuildMandate(plan, tool, "target", 1),
        [tool |-> tool, host |-> "target", amount |-> amount, keyLength |-> 59],
        [now |-> 0, terminal |-> terminal, spent |-> 0, calls |-> 0, attempts |-> 0,
         agent |-> agent, controlled |-> {}, approved |-> FALSE])

\* acquireExactEvmPayment signs for the price the target asks, up to the ceiling.
Payable(price, plan) == price <= plan.budget

\* What the customer prepaid for tools and the purchase did not take.
RefundDue(ceiling, price) == ceiling - price

=============================================================================
