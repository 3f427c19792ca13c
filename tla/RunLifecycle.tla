---------------------------- MODULE RunLifecycle ----------------------------
(***************************************************************************)
(* The abstract life of a run: the transition table of                     *)
(* packages/run-domain/src/run-state-machine.ts and what transitionRun     *)
(* promises of every change, whichever component makes it: the rule exists *)
(* for the actor, and the revision grows by exactly one.  The components   *)
(* that change runs (PaymentFunding, ...) are shown to implement it.       *)
(***************************************************************************)
EXTENDS Naturals

CONSTANT Run
VARIABLE run        \* status and revision of every run

Delivered == {"DELIVERED_PASS", "DELIVERED_CONDITIONAL", "DELIVERED_FAIL",
              "DELIVERED_INCONCLUSIVE"}

\* What a run may be once its customer has paid.
Paid == {"FUNDED", "ANALYZING", "PLAN_COMPILED", "PROCURING", "EXECUTING", "REPLANNING",
         "EVIDENCE_BUILDING", "ATTESTING"} \cup Delivered

\* TRANSITIONS: from, to, and the actors that may make the move.
Rules ==
    {<<"DRAFT", "QUOTED", {"QUOTE_ENGINE"}>>,
     <<"QUOTED", "PAYMENT_REQUIRED", {"MERCHANT_GATEWAY"}>>,
     <<"PAYMENT_REQUIRED", "FUNDED", {"PAYMENT_RECONCILER"}>>,
     <<"FUNDED", "ANALYZING", {"ORCHESTRATOR"}>>,
     <<"ANALYZING", "PLAN_COMPILED", {"POLICY_ENGINE"}>>,
     <<"ANALYZING", "EVIDENCE_BUILDING", {"ORCHESTRATOR", "SYSTEM"}>>,
     <<"PLAN_COMPILED", "PROCURING", {"PROCUREMENT_WORKER"}>>,
     <<"PLAN_COMPILED", "EVIDENCE_BUILDING", {"POLICY_ENGINE", "SYSTEM"}>>,
     <<"PROCURING", "EXECUTING", {"PROCUREMENT_WORKER", "EXECUTION_WORKER"}>>,
     <<"PROCURING", "REPLANNING", {"ORCHESTRATOR"}>>,
     <<"PROCURING", "EVIDENCE_BUILDING", {"PROCUREMENT_WORKER", "SYSTEM"}>>,
     <<"EXECUTING", "REPLANNING", {"ORCHESTRATOR"}>>,
     <<"EXECUTING", "EVIDENCE_BUILDING", {"EXECUTION_WORKER", "SYSTEM"}>>,
     <<"REPLANNING", "PROCURING", {"POLICY_ENGINE", "PROCUREMENT_WORKER"}>>,
     <<"REPLANNING", "EXECUTING", {"POLICY_ENGINE", "EXECUTION_WORKER"}>>,
     <<"REPLANNING", "EVIDENCE_BUILDING", {"ORCHESTRATOR", "SYSTEM"}>>,
     <<"EVIDENCE_BUILDING", "ATTESTING", {"EVIDENCE_WORKER"}>>}
    \cup {<<"ATTESTING", to, {"ATTESTOR"}>> : to \in Delivered}
    \cup {<<from, "CANCELLED", {"REQUESTER", "SYSTEM"}>> :
              from \in {"DRAFT", "QUOTED", "PAYMENT_REQUIRED"}}
    \cup {<<from, "EXPIRED", {"SYSTEM"}>> :
              from \in {"DRAFT", "QUOTED", "PAYMENT_REQUIRED"}}

\* transitionRun applied to an aggregate that is at the expected revision.
Moved(aggregate, to) == [status |-> to, revision |-> aggregate.revision + 1]

Init == run = [r \in Run |-> [status |-> "DRAFT", revision |-> 0]]

Transition(r, rule, actor) ==
    /\ rule[1] = run[r].status
    /\ actor \in rule[3]
    /\ run' = [run EXCEPT ![r] = Moved(run[r], rule[2])]

Next == \E r \in Run, rule \in Rules : \E actor \in rule[3] : Transition(r, rule, actor)

Spec == Init /\ [][Next]_run

\* docs/state-machine.md: "After FUNDED, cancellation or silent expiry is not
\* allowed".  From FUNDED on, the table leads to delivered statuses only, and
\* never back to a status in which a customer could be asked to pay again.
PaidRunsAreDelivered ==
    [][\A r \in Run : run[r].status \in Paid => run'[r].status \in Paid]_run

=============================================================================
