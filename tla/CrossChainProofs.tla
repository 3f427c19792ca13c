--------------------------- MODULE CrossChainProofs ---------------------------
(***************************************************************************)
(* What the cross-chain purchase promises, for any number of runs, workers *)
(* and attempts and any prices and deliveries: the safety properties of    *)
(* CrossChainProcurement, with the inductive invariants they rest on.      *)
(***************************************************************************)
EXTENDS CrossChainProcurement, LeaseQueueProofs

-----------------------------------------------------------------------------
(* Types. *)

Place == {"idle", "load", "claimBridge", "requote", "abandonBridge", "send", "markSubmitted",
          "saveTransfer", "bridgeLeg", "bridgeStatus", "saveFunding", "fundedLeg", "paymentLeg",
          "claimPurchase", "authorize", "markAuthorized", "abandonPurchase", "notPayable",
          "savePayment", "authorizedLeg", "verify", "settle", "saveSettlement", "execution",
          "finish"}
Outcomes == {"NONE", "ACK", "RETRY", "WAIT", "DEAD_LETTER"}

Process == [pc : Place, run : Run \cup {"NONE"}, local : CheckpointRow,
            payment : Payment \cup {NoPayment}, overdue : BOOLEAN, answered : BOOLEAN,
            outcome : Outcomes]

PurchaseRow == [status : {"ABSENT", "CLAIMED", "AUTHORIZED"}, amount : {0, Ceiling} \cup Price,
                payment : Payment \cup {NoPayment}]

\* The rows, the copies and the claims: a process is at rest exactly without a claim.
RowsTyped ==
    /\ checkpoint \in [Run -> CheckpointRow]
    /\ bridgeRow \in [Run -> {"ABSENT", "CLAIMED", "SUBMITTED"}]
    /\ purchaseRow \in [Run -> PurchaseRow]
    /\ legs \in [Run -> [bridge : DOMAIN Rank, payment : DOMAIN Rank]]

WorldTyped ==
    /\ sent \in [Run -> Nat]
    /\ delivery \in [Run -> [status : {"NONE", "INFLIGHT", "DELIVERED", "FAILED"},
                             amount : {0} \cup Delivery]]
    /\ late \subseteq Run
    /\ verified \subseteq Payment /\ settled \subseteq Payment
    /\ presented \in [Run -> SUBSET Payment]

ProcessesTyped ==
    /\ terms \in [Run -> [mode : {"PREFUNDED", "BRIDGE_THEN_PAY"}, budget : Budget]]
    /\ act \in [Worker -> Process]
    /\ \A w \in Worker : /\ act[w].run = held[w].job
                         /\ (act[w].pc = "idle") <=> ~Holding(w)

Typed == QueueTypeOK /\ RowsTyped /\ WorldTyped /\ ProcessesTyped

LEMMA EmptyTyped == EmptyCheckpoint \in CheckpointRow
BY DEF EmptyCheckpoint, CheckpointRow

LEMMA CoalesceTyped ==
    ASSUME NEW old \in CheckpointRow, NEW new \in CheckpointRow
    PROVE  /\ Coalesce(old, new) \in CheckpointRow
           /\ Coalesce(old, new).transfer = (old.transfer \/ new.transfer)
           /\ Coalesce(old, new).paid = (old.paid \/ new.paid)
           /\ Coalesce(old, new).funded = IF old.funded = 0 THEN new.funded ELSE old.funded
           /\ Coalesce(old, new).payment = IF old.payment = NoPayment THEN new.payment ELSE old.payment
<1>1. DOMAIN old = {"transfer", "funded", "payment", "paid"}
  BY DEF CheckpointRow
<1> DEFINE kept == [transfer |-> IF old.transfer = FALSE THEN new.transfer ELSE old.transfer,
                    funded |-> IF old.funded = 0 THEN new.funded ELSE old.funded,
                    payment |-> IF old.payment = NoPayment THEN new.payment ELSE old.payment,
                    paid |-> IF old.paid = FALSE THEN new.paid ELSE old.paid]
<1>4. /\ EmptyCheckpoint["transfer"] = FALSE /\ EmptyCheckpoint["funded"] = 0
      /\ EmptyCheckpoint["payment"] = NoPayment /\ EmptyCheckpoint["paid"] = FALSE
  BY DEF EmptyCheckpoint
<1>5. \A f \in DOMAIN old : (IF old[f] = EmptyCheckpoint[f] THEN new[f] ELSE old[f]) = kept[f]
  <2> SUFFICES ASSUME NEW f \in DOMAIN old
               PROVE  (IF old[f] = EmptyCheckpoint[f] THEN new[f] ELSE old[f]) = kept[f]
    OBVIOUS
  <2>1. CASE f = "transfer"
    BY <1>4, <2>1
  <2>2. CASE f = "funded"
    BY <1>4, <2>2
  <2>3. CASE f = "payment"
    BY <1>4, <2>3
  <2>4. CASE f = "paid"
    BY <1>4, <2>4
  <2> QED
    BY <1>1, <2>1, <2>2, <2>3, <2>4
<1>6. Coalesce(old, new) = [f \in DOMAIN old |-> kept[f]]
  BY <1>5 DEF Coalesce
<1>7. kept = [f \in {"transfer", "funded", "payment", "paid"} |-> kept[f]]
  OBVIOUS
<1>2. Coalesce(old, new) = kept
  BY <1>1, <1>6, <1>7
<1>3. /\ old.transfer \in BOOLEAN /\ old.paid \in BOOLEAN /\ new.transfer \in BOOLEAN /\ new.paid \in BOOLEAN
      /\ old.funded \in {0} \cup Delivery /\ new.funded \in {0} \cup Delivery
      /\ old.payment \in Payment \cup {NoPayment} /\ new.payment \in Payment \cup {NoPayment}
  BY DEF CheckpointRow
<1>8. Coalesce(old, new) \in CheckpointRow
  BY <1>2, <1>3 DEF CheckpointRow
<1> QED
  BY <1>2, <1>3, <1>8

LEMMA PaymentIsNotNone == NoPayment \notin Payment
BY AmountAssumption DEF NoPayment, Payment

LEMMA GotoTyped ==
    ASSUME Typed, NEW p \in Worker, NEW pc \in Place, Goto(p, pc)
    PROVE  /\ act' \in [Worker -> Process]
           /\ act'[p].pc = pc /\ act'[p].run = act[p].run /\ act'[p].local = act[p].local
           /\ act'[p].payment = act[p].payment
           /\ \A q \in Worker \ {p} : act'[q] = act[q]
BY DEF Typed, ProcessesTyped, Goto, Process

LEMMA EndsTyped ==
    ASSUME Typed, NEW p \in Worker, NEW outcome \in Outcomes
    PROVE  /\ Ends(p, outcome) \in Process
           /\ Ends(p, outcome).pc = "finish" /\ Ends(p, outcome).run = act[p].run
           /\ Ends(p, outcome).outcome = outcome
           /\ Ends(p, outcome).local = EmptyCheckpoint
BY EmptyTyped DEF Typed, ProcessesTyped, Ends, Idle, Process, Place

LEMMA ThrowTyped ==
    ASSUME Typed, NEW p \in Worker, Throw(p)
    PROVE  /\ act' \in [Worker -> Process]
           /\ act'[p].pc = "finish" /\ act'[p].run = act[p].run
           /\ act'[p].outcome \in {"RETRY", "DEAD_LETTER"}
           /\ act'[p].local = EmptyCheckpoint
           /\ \A q \in Worker \ {p} : act'[q] = act[q]
<1>1. PICK outcome \in {"RETRY", "DEAD_LETTER"} : act' = [act EXCEPT ![p] = Ends(p, outcome)]
  BY DEF Throw, Failed
<1>2. outcome \in Outcomes
  BY DEF Outcomes
<1> QED
  BY <1>1, <1>2, EndsTyped DEF Typed, ProcessesTyped

LEMMA RunOfProcess ==
    ASSUME Typed, NEW p \in Worker, act[p].pc # "idle"
    PROVE  act[p].run \in Run /\ held[p].attempt \in 1..MaxAttempts
<1>1. Holding(p) /\ QueueTypeOK /\ act[p].run = held[p].job
  BY DEF Typed, ProcessesTyped
<1> QED
  BY <1>1, HolderHasClaim, ClaimFields DEF Run

LEMMA MergeTyped ==
    ASSUME Typed, NEW p \in Worker, act[p].pc # "idle", NEW patch \in CheckpointRow,
           NEW r, r = act[p].run, Merge(r, patch)
    PROVE  /\ Kept(r, patch) \in CheckpointRow
           /\ checkpoint' \in [Run -> CheckpointRow]
           /\ checkpoint'[r] = Kept(r, patch)
           /\ \A s \in Run \ {r} : checkpoint'[s] = checkpoint[s]
<1>1. r \in Run /\ checkpoint \in [Run -> CheckpointRow]
  BY RunOfProcess DEF Typed, RowsTyped
<1>2. Kept(r, patch) \in CheckpointRow
  BY <1>1, CoalesceTyped DEF Kept
<1> QED
  BY <1>1, <1>2 DEF Merge

\* What a process goes on with once its authorization is kept.
LEMMA PaymentKept ==
    ASSUME Typed, NEW p \in Worker, NEW pc \in Place, NEW payment \in Payment \cup {NoPayment},
           act' = [act EXCEPT ![p].local.payment = payment, ![p].pc = pc]
    PROVE  /\ act' \in [Worker -> Process]
           /\ act'[p].pc = pc /\ act'[p].run = act[p].run /\ act'[p].payment = act[p].payment
           /\ act'[p].local.funded = act[p].local.funded /\ act'[p].local.payment = payment
           /\ \A q \in Worker \ {p} : act'[q] = act[q]
<1> DEFINE known == [act[p].local EXCEPT !.payment = payment]
<1>1. act \in [Worker -> Process]
  BY DEF Typed, ProcessesTyped
<1>2. known \in CheckpointRow /\ known.payment = payment /\ known.funded = act[p].local.funded
  BY <1>1 DEF Process, CheckpointRow
<1>3. act' = [act EXCEPT ![p] = [act[p] EXCEPT !.local = known, !.pc = pc]]
  OBVIOUS
<1> HIDE DEF known
<1>4. PICK next : next = [act[p] EXCEPT !.local = known, !.pc = pc]
  OBVIOUS
<1>5. /\ next \in Process /\ next.pc = pc /\ next.run = act[p].run /\ next.payment = act[p].payment
      /\ next.local = known
  BY <1>1, <1>2, <1>4 DEF Process
<1> QED
  BY <1>1, <1>2, <1>3, <1>4, <1>5

\* An attempt's step is a step of its own process, which keeps its run and its claim.
Steps(p) ==
    /\ act' \in [Worker -> Process]
    /\ act[p].pc # "idle" /\ act'[p].pc # "idle" /\ act'[p].run = act[p].run
    /\ \A q \in Worker \ {p} : act'[q] = act[q]

LEMMA ProcessFields ==
    ASSUME NEW process \in Process
    PROVE  /\ process.pc \in Place /\ process.run \in Run \cup {"NONE"}
           /\ process.local \in CheckpointRow /\ process.payment \in Payment \cup {NoPayment}
           /\ process = [pc |-> process.pc, run |-> process.run, local |-> process.local,
                         payment |-> process.payment, overdue |-> process.overdue,
                         answered |-> process.answered, outcome |-> process.outcome]
BY DEF Process

\* The ways a process is edited in place.
LEMMA LoadedProcess ==
    ASSUME NEW process \in Process, NEW pc \in Place, NEW local \in CheckpointRow, NEW overdue \in BOOLEAN
    PROVE  [process EXCEPT !.local = local, !.overdue = overdue, !.pc = pc] \in Process
BY DEF Process

LEMMA PayingProcess ==
    ASSUME NEW process \in Process, NEW pc \in Place, NEW payment \in Payment \cup {NoPayment}
    PROVE  [process EXCEPT !.pc = pc, !.payment = payment] \in Process
BY DEF Process

LEMMA AnsweredProcess ==
    ASSUME NEW process \in Process, NEW pc \in Place
    PROVE  [process EXCEPT !.answered = TRUE, !.pc = pc] \in Process
BY DEF Process

LEMMA ReplacedProcess ==
    ASSUME Typed, NEW p \in Worker, act[p].pc # "idle", NEW next \in Process,
           next.pc # "idle", next.run = act[p].run, act' = [act EXCEPT ![p] = next]
    PROVE  Steps(p) /\ act'[p] = next
BY DEF Steps, Typed, ProcessesTyped

LEMMA PlainSteps ==
    ASSUME Typed, NEW p \in Worker, act[p].pc # "idle",
           (\E pc \in Place \ {"idle"} : Goto(p, pc)) \/ Throw(p)
           \/ \E outcome \in Outcomes : act' = [act EXCEPT ![p] = Ends(p, outcome)]
    PROVE  Steps(p)
<1>1. ASSUME NEW pc \in Place \ {"idle"}, Goto(p, pc) PROVE Steps(p)
  BY <1>1, GotoTyped DEF Steps
<1>2. ASSUME Throw(p) PROVE Steps(p)
  BY <1>2, ThrowTyped DEF Steps
<1>3. ASSUME NEW outcome \in Outcomes, act' = [act EXCEPT ![p] = Ends(p, outcome)] PROVE Steps(p)
  BY <1>3, EndsTyped DEF Steps, Typed, ProcessesTyped
<1> QED
  BY <1>1, <1>2, <1>3

LEMMA AttemptSteps ==
    ASSUME Typed, NEW p \in Worker, Progress(p) \/ Fail(p)
    PROVE  Steps(p)
<1> USE DEF At, Place, Outcomes
<1>1. ASSUME Load(p) PROVE Steps(p)
  <2>1. CASE \E outcome \in Outcomes : act' = [act EXCEPT ![p] = Ends(p, outcome)]
    BY <1>1, <2>1, PlainSteps DEF Load
  <2>2. ASSUME act' = [act EXCEPT ![p] = [@ EXCEPT !.local = checkpoint[act[p].run],
                                                   !.overdue = act[p].run \in late,
                                                   !.pc = FirstStep(terms[act[p].run].mode,
                                                                    checkpoint[act[p].run])]]
        PROVE  Steps(p)
    <3>1. act[p].run \in Run /\ terms[act[p].run].mode \in {"PREFUNDED", "BRIDGE_THEN_PAY"}
      BY <1>1, RunOfProcess DEF Load, Typed, ProcessesTyped
    <3>2. checkpoint[act[p].run] \in CheckpointRow
      BY <3>1 DEF Typed, RowsTyped
    <3>3. FirstStep(terms[act[p].run].mode, checkpoint[act[p].run])
              \in {"paymentLeg", "bridgeStatus", "claimBridge"}
      BY <3>1, <3>2 DEF FirstStep, CheckpointRow
    <3> DEFINE next == [act[p] EXCEPT !.local = checkpoint[act[p].run],
                                      !.overdue = act[p].run \in late,
                                      !.pc = FirstStep(terms[act[p].run].mode, checkpoint[act[p].run])]
    <3>4. act[p] \in Process /\ act[p].pc # "idle"
      BY <1>1 DEF Load, Typed, ProcessesTyped
    <3>5. next \in Process
      <4> DEFINE first == FirstStep(terms[act[p].run].mode, checkpoint[act[p].run])
                 overdue == act[p].run \in late
      <4>1. first \in Place /\ overdue \in BOOLEAN
        BY <3>3
      <4> HIDE DEF first, overdue
      <4>2. [act[p] EXCEPT !.local = checkpoint[act[p].run], !.overdue = overdue, !.pc = first] \in Process
        BY <3>2, <3>4, <4>1, LoadedProcess
      <4> QED
        BY <4>2 DEF first, overdue
    <3>6. next.pc # "idle" /\ next.run = act[p].run
      BY <3>3, <3>4 DEF Process
    <3>7. act' = [act EXCEPT ![p] = next]
      BY <2>2
    <3> HIDE DEF next
    <3> QED
      BY <3>4, <3>5, <3>6, <3>7, ReplacedProcess
  <2> QED
    BY <1>1, <2>1, <2>2 DEF Load
<1>2. ASSUME ClaimBridge(p) \/ Requote(p) \/ AbandonBridge(p) \/ SendBridge(p) \/ MarkSubmitted(p)
      PROVE  Steps(p)
  BY <1>2, PlainSteps DEF ClaimBridge, BridgeClaimed, Requote, SourceChainReady, SourceChainRefuses,
                          AbandonBridge, SendBridge, MarkSubmitted
<1>3. ASSUME BridgeLeg(p) \/ BridgeStatus(p) \/ FundedLeg(p) \/ PaymentLeg(p) PROVE Steps(p)
  BY <1>3, PlainSteps DEF BridgeLeg, BridgeStatus, FundedLeg, PaymentLeg
<1>4. ASSUME SaveTransfer(p) PROVE Steps(p)
  BY <1>4, PlainSteps DEF SaveTransfer
<1>5. ASSUME SaveFunding(p) PROVE Steps(p)
  BY <1>5, PlainSteps DEF SaveFunding
<1>6. ASSUME ClaimPurchase(p) PROVE Steps(p)
  <2>1. purchaseRow[act[p].run].payment \in Payment \cup {NoPayment}
    BY <1>6, RunOfProcess DEF ClaimPurchase, Typed, RowsTyped, PurchaseRow
  <2>2. ASSUME act' = [act EXCEPT ![p].payment = purchaseRow[act[p].run].payment, ![p].pc = "savePayment"]
        PROVE  Steps(p)
    BY <1>6, <2>1, <2>2 DEF ClaimPurchase, Steps, Typed, ProcessesTyped, Process
  <2> QED
    BY <1>6, <2>2, PlainSteps DEF ClaimPurchase
<1>7. ASSUME Authorize(p) PROVE Steps(p)
  <2>1. ASSUME NEW price \in Price, WithinCeiling(price),
               act' = [act EXCEPT ![p].pc = "markAuthorized",
                                  ![p].payment = [run |-> act[p].run, signer |-> p,
                                                  attempt |-> held[p].attempt, amount |-> price]]
        PROVE  Steps(p)
    <3>1. [run |-> act[p].run, signer |-> p, attempt |-> held[p].attempt, amount |-> price] \in Payment
      BY <1>7, <2>1, RunOfProcess DEF Authorize, Payment, WithinCeiling
    <3> DEFINE payment == [run |-> act[p].run, signer |-> p,
                           attempt |-> held[p].attempt, amount |-> price]
           next == [act[p] EXCEPT !.pc = "markAuthorized", !.payment = payment]
    <3>2. act[p] \in Process /\ act[p].pc # "idle"
      BY <1>7 DEF Authorize, Typed, ProcessesTyped
    <3>3. next \in Process
      BY <3>1, <3>2, PayingProcess
    <3>4. next.pc # "idle" /\ next.run = act[p].run
      BY <3>2 DEF Process
    <3>5. act' = [act EXCEPT ![p] = next]
      BY <2>1
    <3> HIDE DEF next
    <3> QED
      BY <3>2, <3>3, <3>4, <3>5, ReplacedProcess
  <2> QED
    BY <1>7, <2>1, PlainSteps DEF Authorize, AllowanceRefused
<1>8. ASSUME MarkAuthorized(p) \/ AuthorizedLeg(p) \/ Unsettled(p) \/ Fail(p) PROVE Steps(p)
  <2>1. CASE MarkAuthorized(p) \/ AuthorizedLeg(p)
    BY <2>1, PlainSteps DEF MarkAuthorized, AuthorizedLeg
  <2>2. CASE Unsettled(p)
    BY <2>2, PlainSteps DEF Unsettled
  <2>3. CASE Fail(p)
    BY <2>3, PlainSteps DEF Fail
  <2> QED
    BY <1>8, <2>1, <2>2, <2>3
<1>9. ASSUME AbandonPurchase(p) PROVE Steps(p)
  BY <1>9, PlainSteps DEF AbandonPurchase
<1>10. ASSUME SavePayment(p) PROVE Steps(p)
  <2>1. [EmptyCheckpoint EXCEPT !.payment = act[p].payment] \in CheckpointRow
    BY DEF EmptyCheckpoint, CheckpointRow, Typed, ProcessesTyped, Process
  <2>2. Kept(act[p].run, [EmptyCheckpoint EXCEPT !.payment = act[p].payment]).payment
            \in Payment \cup {NoPayment}
    BY <1>10, <2>1, MergeTyped DEF SavePayment, At, CheckpointRow
  <2>3. ASSUME NEW payment \in Payment \cup {NoPayment}, act[p].pc # "idle",
               act' = [act EXCEPT ![p].local.payment = payment, ![p].pc = "authorizedLeg"]
        PROVE  Steps(p)
    BY <2>3, PaymentKept DEF Steps, Place
  <2> QED
    BY <1>10, <2>2, <2>3 DEF SavePayment, At
<1>11. ASSUME Verify(p) \/ Settle(p) PROVE Steps(p)
  <2>1. ASSUME act' = [act EXCEPT ![p].answered = TRUE, ![p].pc = "execution"], act[p].pc # "idle"
        PROVE  Steps(p)
    <3> DEFINE next == [act[p] EXCEPT !.answered = TRUE, !.pc = "execution"]
    <3>1. act[p] \in Process
      BY DEF Typed, ProcessesTyped
    <3>2. next \in Process
      BY <3>1, AnsweredProcess
    <3>3. next.pc # "idle" /\ next.run = act[p].run
      BY <3>1 DEF Process
    <3>4. act' = [act EXCEPT ![p] = next]
      BY <2>1
    <3> HIDE DEF next
    <3> QED
      BY <2>1, <3>2, <3>3, <3>4, ReplacedProcess
  <2> QED
    BY <1>11, <2>1, PlainSteps DEF Verify, Settle, Unconfirmed, Answered, At
<1>12. ASSUME SaveSettlement(p) PROVE Steps(p)
  BY <1>12, PlainSteps DEF SaveSettlement
<1> QED
  BY <1>1, <1>2, <1>3, <1>4, <1>5, <1>6, <1>7, <1>8, <1>9, <1>10, <1>11, <1>12 DEF Progress

\* What the three saves in the middle of an attempt do.
LEMMA SavedTyped ==
    ASSUME Typed, NEW p \in Worker, SaveTransfer(p) \/ SaveFunding(p) \/ SavePayment(p)
    PROVE  LET r == act[p].run
               old == checkpoint[r]
           IN  /\ checkpoint' \in [Run -> CheckpointRow]
               /\ \A s \in Run \ {r} : checkpoint'[s] = checkpoint[s]
               /\ act'[p].pc = IF SaveTransfer(p) THEN "bridgeLeg"
                               ELSE IF SaveFunding(p) THEN "fundedLeg" ELSE "authorizedLeg"
               /\ act'[p].payment = act[p].payment
               /\ checkpoint'[r].paid = old.paid
               /\ checkpoint'[r].funded = IF old.funded = 0 /\ SaveFunding(p)
                                          THEN delivery[r].amount ELSE old.funded
               /\ checkpoint'[r].payment = IF old.payment = NoPayment /\ SavePayment(p)
                                           THEN act[p].payment ELSE old.payment
               /\ act'[p].local.funded = act[p].local.funded
               /\ act'[p].local.payment = IF SavePayment(p) THEN checkpoint'[r].payment
                                          ELSE act[p].local.payment
<1> DEFINE r == act[p].run
           old == checkpoint[r]
           patch == IF SaveTransfer(p) THEN [EmptyCheckpoint EXCEPT !.transfer = TRUE]
                    ELSE IF SaveFunding(p) THEN [EmptyCheckpoint EXCEPT !.funded = delivery[r].amount]
                    ELSE [EmptyCheckpoint EXCEPT !.payment = act[p].payment]
           pc == IF SaveTransfer(p) THEN "bridgeLeg"
                 ELSE IF SaveFunding(p) THEN "fundedLeg" ELSE "authorizedLeg"
<1>1. act[p].pc # "idle" /\ Merge(r, patch)
  BY DEF SaveTransfer, SaveFunding, SavePayment, At
<1>2. r \in Run /\ old \in CheckpointRow /\ act[p] \in Process
  BY <1>1, RunOfProcess DEF Typed, RowsTyped, ProcessesTyped
<1>3. delivery[r].amount \in {0} \cup Delivery /\ act[p].payment \in Payment \cup {NoPayment}
      /\ act[p].local \in CheckpointRow
  BY <1>2 DEF Typed, WorldTyped, Process
<1>4. /\ patch \in CheckpointRow /\ patch.paid = FALSE
      /\ patch.funded = IF SaveFunding(p) THEN delivery[r].amount ELSE 0
      /\ patch.payment = IF SavePayment(p) THEN act[p].payment ELSE NoPayment
  BY <1>3 DEF EmptyCheckpoint, CheckpointRow, SaveTransfer, SaveFunding, SavePayment, At
<1>5. pc \in Place
  BY DEF Place
<1>6. \/ SavePayment(p) /\ act' = [act EXCEPT ![p].local.payment = Kept(r, patch).payment, ![p].pc = pc]
      \/ ~SavePayment(p) /\ Goto(p, pc)
  BY DEF SaveTransfer, SaveFunding, SavePayment, At
<1> HIDE DEF patch, pc, r
<1>7. /\ Kept(r, patch) \in CheckpointRow
      /\ checkpoint' \in [Run -> CheckpointRow] /\ checkpoint'[r] = Kept(r, patch)
      /\ \A s \in Run \ {r} : checkpoint'[s] = checkpoint[s]
  BY <1>1, <1>4, MergeTyped DEF r
<1>8. Kept(r, patch).payment \in Payment \cup {NoPayment}
  BY <1>7 DEF CheckpointRow
<1>9. /\ act'[p].pc = pc /\ act'[p].payment = act[p].payment
      /\ act'[p].local.funded = act[p].local.funded
      /\ act'[p].local.payment = IF SavePayment(p) THEN Kept(r, patch).payment ELSE act[p].local.payment
  BY <1>5, <1>6, <1>8, GotoTyped, PaymentKept
<1>10. /\ Kept(r, patch).paid = (old.paid \/ patch.paid)
       /\ Kept(r, patch).funded = IF old.funded = 0 THEN patch.funded ELSE old.funded
       /\ Kept(r, patch).payment = IF old.payment = NoPayment THEN patch.payment ELSE old.payment
  BY <1>2, <1>4, CoalesceTyped DEF Kept
<1>11. old.paid \in BOOLEAN
  BY <1>2 DEF CheckpointRow
<1>12. /\ checkpoint'[r].paid = old.paid
       /\ checkpoint'[r].funded = IF old.funded = 0 /\ SaveFunding(p) THEN delivery[r].amount ELSE old.funded
       /\ checkpoint'[r].payment = IF old.payment = NoPayment /\ SavePayment(p) THEN act[p].payment
                                   ELSE old.payment
  BY <1>4, <1>7, <1>10, <1>11
<1> QED
  BY <1>7, <1>9, <1>12 DEF pc, r

\* An attempt's step leaves the queue alone, and the types of everything else.
LEMMA AttemptLeavesQueue ==
    ASSUME NEW p \in Worker, Progress(p) \/ Fail(p)
    PROVE  UNCHANGED <<queueVars, terms>>
BY DEF Progress, Fail, Load, ClaimBridge, Requote, AbandonBridge, SendBridge, MarkSubmitted,
       SaveTransfer, BridgeLeg, BridgeStatus, SaveFunding, FundedLeg, PaymentLeg, ClaimPurchase,
       Authorize, MarkAuthorized, AbandonPurchase, SavePayment, AuthorizedLeg, Verify, Settle,
       SaveSettlement, Unsettled, shared

LEMMA LegsTyped ==
    ASSUME Typed, NEW r \in Run, NEW leg \in {"bridge", "payment"}, NEW status \in DOMAIN Rank,
           RecordLeg(r, leg, status)
    PROVE  legs' \in [Run -> [bridge : DOMAIN Rank, payment : DOMAIN Rank]]
<1>1. legs \in [Run -> [bridge : DOMAIN Rank, payment : DOMAIN Rank]]
  BY DEF Typed, RowsTyped
<1>2. CASE UNCHANGED legs
  BY <1>1, <1>2
<1>3. CASE legs' = [legs EXCEPT ![r][leg] = Recorded(@, status)]
  <2>1. Recorded(legs[r][leg], status) \in DOMAIN Rank
    BY <1>1 DEF Recorded
  <2> DEFINE new == Recorded(legs[r][leg], status)
  <2>2. legs' = [legs EXCEPT ![r][leg] = new]
    BY <1>3
  <2> HIDE DEF new
  <2> QED
    BY <1>1, <2>1, <2>2 DEF new
<1> QED
  BY <1>2, <1>3 DEF RecordLeg

LEMMA AttemptRowsTyped ==
    ASSUME Typed, NEW p \in Worker, Progress(p) \/ Fail(p)
    PROVE  RowsTyped'
<1> DEFINE r == act[p].run
<1>r. RowsTyped /\ r \in Run /\ act[p] \in Process
  BY AttemptSteps, RunOfProcess DEF Steps, Typed, ProcessesTyped
<1>1. checkpoint' \in [Run -> CheckpointRow]
  <2>1. CASE SaveTransfer(p) \/ SaveFunding(p) \/ SavePayment(p)
    BY <2>1, AttemptSteps, SavedTyped
  <2>2. CASE SaveSettlement(p)
    <3>1. [EmptyCheckpoint EXCEPT !.paid = TRUE] \in CheckpointRow
      BY DEF EmptyCheckpoint, CheckpointRow
    <3>2. Coalesce(checkpoint[r], [EmptyCheckpoint EXCEPT !.paid = TRUE]) \in CheckpointRow
      BY <1>r, <3>1, CoalesceTyped DEF RowsTyped
    <3> QED
      BY <1>r, <2>2, <3>2 DEF SaveSettlement, RowsTyped
  <2>3. CASE UNCHANGED checkpoint
    BY <1>r, <2>3 DEF RowsTyped
  <2> QED
    BY <2>1, <2>2, <2>3
    DEF Progress, Fail, Load, ClaimBridge, Requote, AbandonBridge, SendBridge, MarkSubmitted,
        BridgeLeg, BridgeStatus, FundedLeg, PaymentLeg, ClaimPurchase, Authorize, MarkAuthorized,
        AbandonPurchase, AuthorizedLeg, Verify, Settle, Unsettled, rowVars
<1>2. bridgeRow' \in [Run -> {"ABSENT", "CLAIMED", "SUBMITTED"}]
  <2>1. CASE ClaimBridge(p)
    BY <1>r, <2>1 DEF ClaimBridge, BridgeClaimed, RowsTyped
  <2>2. CASE UNCHANGED bridgeRow
    BY <1>r, <2>2 DEF RowsTyped
  <2>3. CASE AbandonBridge(p)
    BY <1>r, <2>3 DEF AbandonBridge, RowsTyped
  <2>4. CASE MarkSubmitted(p)
    BY <1>r, <2>4 DEF MarkSubmitted, RowsTyped
  <2> QED
    BY <2>1, <2>2, <2>3, <2>4
    DEF Progress, Fail, Load, Requote, SendBridge, SaveTransfer, BridgeLeg, BridgeStatus,
        SaveFunding, FundedLeg, PaymentLeg, ClaimPurchase, Authorize, MarkAuthorized,
        AbandonPurchase, SavePayment, AuthorizedLeg, Verify, Settle, SaveSettlement, Unsettled, rowVars
<1>3. purchaseRow' \in [Run -> PurchaseRow]
  <2> DEFINE claimed == [NoPurchase EXCEPT !.status = "CLAIMED", !.amount = Ceiling]
  <2>5. claimed \in PurchaseRow /\ NoPurchase \in PurchaseRow
    BY DEF NoPurchase, PurchaseRow
  <2>1. CASE ClaimPurchase(p)
    <3>1. purchaseRow' = [purchaseRow EXCEPT ![r] = claimed] \/ UNCHANGED purchaseRow
      BY <2>1 DEF ClaimPurchase, PurchaseClaimed
    <3> HIDE DEF claimed
    <3> QED
      BY <1>r, <2>5, <3>1 DEF RowsTyped
  <2>2. CASE AbandonPurchase(p)
    BY <1>r, <2>2, <2>5 DEF AbandonPurchase, Abandoned, RowsTyped
  <2>3. CASE MarkAuthorized(p)
    <3>1. act[p].payment \in Payment \cup {NoPayment} /\ act[p].payment.amount \in {0, Ceiling} \cup Price
      BY <1>r DEF Process, Payment, NoPayment
    <3> DEFINE row == [status |-> "AUTHORIZED", amount |-> act[p].payment.amount, payment |-> act[p].payment]
    <3>2. row \in PurchaseRow
      BY <3>1 DEF PurchaseRow
    <3>3. purchaseRow' = [purchaseRow EXCEPT ![r] = row] \/ UNCHANGED purchaseRow
      BY <2>3 DEF MarkAuthorized
    <3> HIDE DEF row
    <3> QED
      BY <1>r, <3>2, <3>3 DEF RowsTyped
  <2>4. CASE UNCHANGED purchaseRow
    BY <1>r, <2>4 DEF RowsTyped
  <2> QED
    BY <2>1, <2>2, <2>3, <2>4
    DEF Progress, Fail, Load, ClaimBridge, Requote, AbandonBridge, SendBridge, MarkSubmitted,
        SaveTransfer, BridgeLeg, BridgeStatus, SaveFunding, FundedLeg, PaymentLeg, Authorize,
        SavePayment, AuthorizedLeg, Verify, Settle, SaveSettlement, Unsettled, rowVars
<1>4. legs' \in [Run -> [bridge : DOMAIN Rank, payment : DOMAIN Rank]]
  <2>1. CASE BridgeLeg(p) \/ FundedLeg(p) \/ PaymentLeg(p) \/ AuthorizedLeg(p)
             \/ (AbandonPurchase(p) /\ ~UNCHANGED legs)
    BY <1>r, <2>1, LegsTyped DEF BridgeLeg, FundedLeg, PaymentLeg, AuthorizedLeg, AbandonPurchase, Rank
  <2>2. CASE UNCHANGED legs
    BY <1>r, <2>2 DEF RowsTyped
  <2> QED
    BY <2>1, <2>2
    DEF Progress, Fail, Load, ClaimBridge, Requote, AbandonBridge, SendBridge, MarkSubmitted,
        SaveTransfer, BridgeStatus, SaveFunding, ClaimPurchase, Authorize, MarkAuthorized,
        SavePayment, Verify, Settle, SaveSettlement, Unsettled, rowVars
<1> QED
  BY <1>1, <1>2, <1>3, <1>4 DEF RowsTyped

\* What an attempt works with once it stands at one of these places.
Paying == {"authorizedLeg", "verify", "settle", "saveSettlement"}

LEMMA AttemptWorldTyped ==
    ASSUME Typed, NEW p \in Worker, Progress(p) \/ Fail(p),
           act[p].pc \in Paying => act[p].local.payment # NoPayment
    PROVE  WorldTyped'
<1> DEFINE r == act[p].run
           payment == act[p].local.payment
<1>r. WorldTyped /\ r \in Run /\ act[p] \in Process
  BY AttemptSteps, RunOfProcess DEF Steps, Typed, ProcessesTyped
<1>p. act[p].pc \in Paying => payment \in Payment
  BY <1>r DEF Process, CheckpointRow
<1>1. CASE SendBridge(p)
  <2>1. sent[r] + 1 \in Nat
    BY <1>r DEF WorldTyped
  <2>2. sent' \in [Run -> Nat]
    BY <1>r, <1>1, <2>1 DEF SendBridge, Broadcast, WorldTyped
  <2> DEFINE bridged == IF delivery[r].status = "NONE" THEN [delivery[r] EXCEPT !.status = "INFLIGHT"]
                        ELSE delivery[r]
  <2>3. bridged \in [status : {"NONE", "INFLIGHT", "DELIVERED", "FAILED"}, amount : {0} \cup Delivery]
    BY <1>r DEF WorldTyped
  <2>4. delivery' = [delivery EXCEPT ![r] = bridged]
    BY <1>1 DEF SendBridge, Broadcast
  <2> HIDE DEF bridged
  <2>5. delivery' \in [Run -> [status : {"NONE", "INFLIGHT", "DELIVERED", "FAILED"},
                              amount : {0} \cup Delivery]]
    BY <1>r, <2>3, <2>4 DEF WorldTyped
  <2> QED
    BY <1>r, <1>1, <2>2, <2>5 DEF SendBridge, WorldTyped, targetVars
<1>2. CASE Verify(p)
  <2>1. payment \in Payment
    BY <1>p, <1>2 DEF Verify, At, Paying
  <2>2. /\ UNCHANGED <<sent, delivery, late, settled>>
        /\ verified' = verified \cup {payment} \/ UNCHANGED verified
        /\ Present(p) \/ UNCHANGED presented
    BY <1>2 DEF Verify, bridgeVars
  <2>3. presented' \in [Run -> SUBSET Payment]
    BY <1>r, <2>1, <2>2 DEF Present, WorldTyped
  <2> QED
    BY <1>r, <2>1, <2>2, <2>3 DEF WorldTyped
<1>3. CASE Settle(p)
  BY <1>r, <1>p, <1>3 DEF Settle, At, Paying, WorldTyped, bridgeVars
<1>4. CASE UNCHANGED <<bridgeVars, targetVars>>
  BY <1>r, <1>4 DEF WorldTyped, bridgeVars, targetVars
<1> QED
  BY <1>1, <1>2, <1>3, <1>4
  DEF Progress, Fail, Load, ClaimBridge, Requote, AbandonBridge, MarkSubmitted,
      SaveTransfer, BridgeLeg, BridgeStatus, SaveFunding, FundedLeg, PaymentLeg, ClaimPurchase,
      Authorize, MarkAuthorized, AbandonPurchase, SavePayment, AuthorizedLeg, SaveSettlement, Unsettled

\* A process moves on with what it has, or stops with nothing.
To(p, pc) == act'[p].pc = pc /\ act'[p].local = act[p].local /\ act'[p].payment = act[p].payment
Stops(p) == act'[p].pc = "finish" /\ act'[p].local = EmptyCheckpoint

LEMMA Moving ==
    ASSUME Typed, NEW p \in Worker
    PROVE  /\ \A pc \in Place : Goto(p, pc) => To(p, pc)
           /\ Throw(p) => Stops(p)
           /\ \A outcome \in Outcomes : act' = [act EXCEPT ![p] = Ends(p, outcome)]
                  => Stops(p) /\ act'[p].outcome = outcome
<1>1. ASSUME NEW pc \in Place, Goto(p, pc) PROVE To(p, pc)
  BY <1>1, GotoTyped DEF To
<1>2. ASSUME Throw(p) PROVE Stops(p)
  BY <1>2, ThrowTyped DEF Stops
<1>3. ASSUME NEW outcome \in Outcomes, act' = [act EXCEPT ![p] = Ends(p, outcome)]
      PROVE  Stops(p) /\ act'[p].outcome = outcome
  BY <1>3, EndsTyped DEF Stops, Typed, ProcessesTyped
<1> QED
  BY <1>1, <1>2, <1>3

\* The claim that finds the authorization of an earlier attempt.
LEMMA PurchaseFound ==
    ASSUME Typed, NEW p \in Worker,
           act' = [act EXCEPT ![p].payment = purchaseRow[act[p].run].payment, ![p].pc = "savePayment"]
    PROVE  /\ act'[p].pc = "savePayment" /\ act'[p].local = act[p].local
           /\ act'[p].payment = purchaseRow[act[p].run].payment
BY DEF Typed, ProcessesTyped, Process

LEMMA Signed ==
    ASSUME Typed, NEW p \in Worker, NEW payment \in Payment,
           act' = [act EXCEPT ![p].pc = "markAuthorized", ![p].payment = payment]
    PROVE  /\ act'[p].pc = "markAuthorized" /\ act'[p].local = act[p].local
           /\ act'[p].payment = payment
BY DEF Typed, ProcessesTyped, Process

LEMMA AnsweredMoves ==
    ASSUME Typed, NEW p \in Worker, Answered(p) \/ Unconfirmed(p)
    PROVE  To(p, "execution")
BY DEF Answered, Unconfirmed, Goto, To, Typed, ProcessesTyped, Process

LEMMA AuthorizeMoves ==
    ASSUME Typed, NEW p \in Worker, Authorize(p)
    PROVE  \/ /\ act'[p].pc = "markAuthorized" /\ act'[p].local = act[p].local
              /\ act'[p].payment \in Payment
           \/ To(p, "abandonPurchase") \/ To(p, "notPayable")
<1>1. ASSUME NEW price \in Price, WithinCeiling(price),
             act' = [act EXCEPT ![p].pc = "markAuthorized",
                                ![p].payment = [run |-> act[p].run, signer |-> p,
                                                attempt |-> held[p].attempt, amount |-> price]]
      PROVE  /\ act'[p].pc = "markAuthorized" /\ act'[p].local = act[p].local
             /\ act'[p].payment \in Payment
  <2> DEFINE payment == [run |-> act[p].run, signer |-> p, attempt |-> held[p].attempt, amount |-> price]
  <2>1. payment \in Payment
    BY <1>1, RunOfProcess DEF Authorize, At, Payment, WithinCeiling
  <2>2. act' = [act EXCEPT ![p].pc = "markAuthorized", ![p].payment = payment]
    BY <1>1
  <2> HIDE DEF payment
  <2> QED
    BY <2>1, <2>2, Signed
<1> QED
  BY <1>1, Moving DEF Authorize, AllowanceRefused, Place

LEMMA LoadedMoves ==
    ASSUME Typed, NEW p \in Worker, Load(p)
    PROVE  \/ Stops(p) /\ act'[p].outcome = "DEAD_LETTER"
           \/ /\ act'[p].local = checkpoint[act[p].run]
              /\ \/ /\ act'[p].pc = "paymentLeg"
                    /\ terms[act[p].run].mode = "PREFUNDED"
                 \/ /\ act'[p].pc \in {"bridgeStatus", "claimBridge"}
                    /\ terms[act[p].run].mode = "BRIDGE_THEN_PAY"
<1> DEFINE r == act[p].run
           next == [act[p] EXCEPT !.local = checkpoint[r], !.overdue = r \in late,
                                  !.pc = FirstStep(terms[r].mode, checkpoint[r])]
<1>1. act' = [act EXCEPT ![p] = Ends(p, "DEAD_LETTER")] \/ act' = [act EXCEPT ![p] = next]
  BY DEF Load
<1>2. CASE act' = [act EXCEPT ![p] = Ends(p, "DEAD_LETTER")]
  BY <1>2, Moving DEF Outcomes
<1>3. CASE act' = [act EXCEPT ![p] = next]
  <2>1. r \in Run /\ terms[r].mode \in {"PREFUNDED", "BRIDGE_THEN_PAY"} /\ act[p] \in Process
        /\ checkpoint[r].transfer \in BOOLEAN
    BY RunOfProcess DEF Load, At, Typed, ProcessesTyped, RowsTyped, CheckpointRow
  <2>2. act'[p] = next
    BY <1>3 DEF Typed, ProcessesTyped
  <2>3. next.local = checkpoint[r] /\ next.pc = FirstStep(terms[r].mode, checkpoint[r])
    BY <2>1 DEF Process
  <2>4. \/ FirstStep(terms[r].mode, checkpoint[r]) = "paymentLeg" /\ terms[r].mode = "PREFUNDED"
        \/ /\ FirstStep(terms[r].mode, checkpoint[r]) \in {"bridgeStatus", "claimBridge"}
           /\ terms[r].mode = "BRIDGE_THEN_PAY"
    BY <2>1 DEF FirstStep
  <2> QED
    BY <2>2, <2>3, <2>4
<1> QED
  BY <1>1, <1>2, <1>3

-----------------------------------------------------------------------------
(* The bridge: whoever claimed the row is alone with it until it gives the *)
(* claim back unsent, and a claim that sent is never given back.           *)

HoldsBridge == {"requote", "send", "abandonBridge", "markSubmitted"}

BridgeInv ==
    /\ BridgeIsSentOnce
    /\ \A p \in Worker :
        /\ act[p].pc \in HoldsBridge \cup {"claimBridge"} => terms[act[p].run].mode = "BRIDGE_THEN_PAY"
        /\ act[p].pc \in HoldsBridge => bridgeRow[act[p].run] # "ABSENT"
        /\ act[p].pc \in HoldsBridge \ {"markSubmitted"} => sent[act[p].run] = 0
    /\ \A p, q \in Worker :
        act[p].pc \in HoldsBridge /\ act[q].pc \in HoldsBridge /\ act[p].run = act[q].run => p = q

LEMMA BridgeKept ==
    ASSUME Typed, BridgeInv, NEW p \in Worker, Steps(p), UNCHANGED <<bridgeRow, sent, terms>>,
           act'[p].pc \notin HoldsBridge,
           act'[p].pc = "claimBridge" => terms[act[p].run].mode = "BRIDGE_THEN_PAY"
    PROVE  BridgeInv'
BY DEF Steps, BridgeInv, BridgeIsSentOnce, HoldsBridge

LEMMA AttemptBridge ==
    ASSUME Typed, BridgeInv, NEW p \in Worker, Progress(p) \/ Fail(p)
    PROVE  BridgeInv'
<1> DEFINE r == act[p].run
<1>s. Steps(p) /\ UNCHANGED terms
  BY AttemptSteps, AttemptLeavesQueue
<1>r. /\ r \in Run /\ bridgeRow \in [Run -> {"ABSENT", "CLAIMED", "SUBMITTED"}]
      /\ sent \in [Run -> Nat]
      /\ \A q \in Worker : act[q].pc # "idle" => act[q].run \in Run
  BY <1>s, RunOfProcess DEF Steps, Typed, RowsTyped, WorldTyped
<1>1. CASE ClaimBridge(p)
  <2>1. CASE BridgeClaimed(r) /\ To(p, "requote")
    BY <1>s, <1>r, <1>1, <2>1
    DEF ClaimBridge, At, BridgeClaimed, To, Steps, BridgeInv, BridgeIsSentOnce, HoldsBridge, bridgeVars
  <2>2. CASE UNCHANGED bridgeRow /\ (Stops(p) \/ To(p, "saveTransfer"))
    BY <1>s, <1>1, <2>2, BridgeKept DEF ClaimBridge, Stops, To, HoldsBridge, bridgeVars
  <2> QED
    BY <1>1, <2>1, <2>2, Moving DEF ClaimBridge, Place
<1>2. CASE Requote(p)
  <2>1. UNCHANGED <<bridgeRow, sent>> /\ act'[p].pc \in {"send", "abandonBridge"} /\ act[p].pc = "requote"
    BY <1>2, Moving DEF Requote, SourceChainReady, SourceChainRefuses, Place, To, At, rowVars, bridgeVars
  <2> QED
    BY <1>s, <1>r, <2>1 DEF Steps, BridgeInv, BridgeIsSentOnce, HoldsBridge
<1>3. CASE AbandonBridge(p)
  <2>1. act'[p].pc = "finish" /\ act[p].pc = "abandonBridge" /\ UNCHANGED sent
    BY <1>3, Moving DEF AbandonBridge, Stops, At, bridgeVars
  <2>2. bridgeRow'[r] \in {"ABSENT", bridgeRow[r]} /\ \A s \in Run \ {r} : bridgeRow'[s] = bridgeRow[s]
    BY <1>r, <1>3 DEF AbandonBridge
  <2> QED
    BY <1>s, <1>r, <2>1, <2>2 DEF Steps, BridgeInv, BridgeIsSentOnce, HoldsBridge
<1>4. CASE SendBridge(p)
  <2>1. act'[p].pc = "markSubmitted" /\ act[p].pc = "send" /\ UNCHANGED bridgeRow
    BY <1>4, Moving DEF SendBridge, Place, To, At, rowVars
  <2>2. sent'[r] = sent[r] + 1 /\ \A s \in Run \ {r} : sent'[s] = sent[s]
    BY <1>r, <1>4 DEF SendBridge, Broadcast
  <2> QED
    BY <1>s, <1>r, <2>1, <2>2 DEF Steps, BridgeInv, BridgeIsSentOnce, HoldsBridge
<1>5. CASE MarkSubmitted(p)
  <2>1. act'[p].pc = "saveTransfer" /\ act[p].pc = "markSubmitted" /\ UNCHANGED sent
    BY <1>5, Moving DEF MarkSubmitted, Place, To, At, bridgeVars
  <2>2. bridgeRow'[r] = "SUBMITTED" /\ \A s \in Run \ {r} : bridgeRow'[s] = bridgeRow[s]
    BY <1>r, <1>5 DEF MarkSubmitted
  <2> QED
    BY <1>s, <1>r, <2>1, <2>2 DEF Steps, BridgeInv, BridgeIsSentOnce, HoldsBridge
<1>6. CASE Load(p)
  BY <1>s, <1>6, LoadedMoves, BridgeKept DEF Load, Stops, HoldsBridge, rowVars, bridgeVars
<1>7. CASE SaveTransfer(p) \/ SaveFunding(p) \/ SavePayment(p)
  <2>1. act'[p].pc \in {"bridgeLeg", "fundedLeg", "authorizedLeg"}
    BY <1>7, SavedTyped
  <2> QED
    BY <1>s, <1>7, <2>1, BridgeKept
    DEF SaveTransfer, SaveFunding, SavePayment, HoldsBridge, bridgeVars
<1>8. CASE BridgeLeg(p) \/ FundedLeg(p) \/ PaymentLeg(p) \/ AuthorizedLeg(p) \/ BridgeStatus(p)
  BY <1>s, <1>8, Moving, BridgeKept
  DEF BridgeLeg, FundedLeg, PaymentLeg, AuthorizedLeg, BridgeStatus, To, Stops, Place, Outcomes,
      HoldsBridge, rowVars, bridgeVars
<1>9. CASE ClaimPurchase(p)
  <2>1. act'[p].pc \in {"authorize", "savePayment", "finish"}
    BY <1>9, Moving, PurchaseFound DEF ClaimPurchase, To, Stops, Place
  <2> QED
    BY <1>s, <1>9, <2>1, BridgeKept DEF ClaimPurchase, HoldsBridge, bridgeVars
<1>10. CASE Authorize(p)
  <2>1. act'[p].pc \in {"markAuthorized", "abandonPurchase", "notPayable"}
    BY <1>10, AuthorizeMoves DEF To
  <2> QED
    BY <1>s, <1>10, <2>1, BridgeKept DEF Authorize, HoldsBridge, rowVars, bridgeVars
<1>11. CASE MarkAuthorized(p) \/ AbandonPurchase(p)
  BY <1>s, <1>11, Moving, BridgeKept
  DEF MarkAuthorized, AbandonPurchase, To, Stops, Place, Outcomes, HoldsBridge, bridgeVars
<1>12. CASE Verify(p) \/ Settle(p)
  BY <1>s, <1>12, Moving, AnsweredMoves, BridgeKept
  DEF Verify, Settle, To, Place, HoldsBridge, rowVars, bridgeVars
<1>13. CASE SaveSettlement(p) \/ Unsettled(p) \/ Fail(p)
  BY <1>s, <1>13, Moving, BridgeKept
  DEF SaveSettlement, Unsettled, Fail, Stops, Outcomes, HoldsBridge, rowVars, bridgeVars
<1> QED
  BY <1>1, <1>2, <1>3, <1>4, <1>5, <1>6, <1>7, <1>8, <1>9, <1>10, <1>11, <1>12, <1>13 DEF Progress

-----------------------------------------------------------------------------
(* The purchase: one holder of the claim, and one authorization, which no  *)
(* copy of the checkpoint contradicts.                                     *)

HoldsPurchase == {"authorize", "markAuthorized", "notPayable", "abandonPurchase"}

PurchaseOf(p) ==
    LET row == purchaseRow[act[p].run]
        kept == checkpoint[act[p].run]
    IN  /\ act[p].pc \in HoldsPurchase => row.status # "ABSENT"
        /\ act[p].pc \in HoldsPurchase \ {"abandonPurchase"} => row.status = "CLAIMED"
        /\ act[p].pc = "markAuthorized" => act[p].payment # NoPayment
        /\ act[p].pc = "savePayment" => act[p].payment = row.payment /\ row.payment # NoPayment
        /\ act[p].pc \in Paying => act[p].local.payment # NoPayment
        /\ act[p].pc # "idle" => act[p].local.payment \in {NoPayment, kept.payment}

PurchaseInv ==
    /\ OneAuthorizationPerRun
    /\ \A r \in Run : purchaseRow[r].status = "AUTHORIZED" <=> purchaseRow[r].payment # NoPayment
    /\ \A p \in Worker : PurchaseOf(p)
    /\ \A p, q \in Worker :
        act[p].pc \in HoldsPurchase /\ act[q].pc \in HoldsPurchase /\ act[p].run = act[q].run => p = q

LEMMA PurchaseKept ==
    ASSUME Typed, PurchaseInv, NEW p \in Worker, Steps(p), UNCHANGED <<purchaseRow, checkpoint, presented>>,
           act'[p].pc \notin HoldsPurchase \cup {"savePayment"},
           act'[p].local.payment \in {NoPayment, act[p].local.payment, checkpoint[act[p].run].payment},
           act'[p].pc \in Paying => act'[p].local.payment # NoPayment
    PROVE  PurchaseInv'
<1>1. \A q \in Worker : PurchaseOf(q)'
  BY DEF Steps, PurchaseInv, PurchaseOf, HoldsPurchase
<1>2. \A q, o \in Worker : act'[q].pc \in HoldsPurchase /\ act'[o].pc \in HoldsPurchase
                            /\ act'[q].run = act'[o].run => q = o
  BY DEF Steps, PurchaseInv, HoldsPurchase
<1>3. OneAuthorizationPerRun'
  BY DEF PurchaseInv, OneAuthorizationPerRun
<1> QED
  BY <1>1, <1>2, <1>3 DEF PurchaseInv

\* The last save: the run is paid, and what it paid with stays.
LEMMA PaidTyped ==
    ASSUME Typed, NEW p \in Worker, SaveSettlement(p)
    PROVE  /\ checkpoint'[act[p].run].paid
           /\ \A s \in Run \ {act[p].run} : checkpoint'[s] = checkpoint[s]
           /\ \A s \in Run : /\ checkpoint'[s].payment = checkpoint[s].payment
                              /\ checkpoint'[s].funded = checkpoint[s].funded
<1> DEFINE r == act[p].run
           patch == [EmptyCheckpoint EXCEPT !.paid = TRUE]
           kept == Coalesce(checkpoint[r], patch)
<1>1. r \in Run /\ checkpoint \in [Run -> CheckpointRow] /\ checkpoint[r] \in CheckpointRow
  BY RunOfProcess DEF SaveSettlement, At, Typed, RowsTyped
<1>2. patch \in CheckpointRow /\ patch.paid /\ patch.payment = NoPayment /\ patch.funded = 0
  BY DEF EmptyCheckpoint, CheckpointRow
<1>3. kept.paid /\ kept.payment = checkpoint[r].payment /\ kept.funded = checkpoint[r].funded
  <2>1. checkpoint[r].paid \in BOOLEAN
    BY <1>1 DEF CheckpointRow
  <2> HIDE DEF patch
  <2>2. kept.paid = (checkpoint[r].paid \/ patch.paid)
    BY <1>1, <1>2, CoalesceTyped
  <2>3. /\ kept.payment = IF checkpoint[r].payment = NoPayment THEN patch.payment ELSE checkpoint[r].payment
        /\ kept.funded = IF checkpoint[r].funded = 0 THEN patch.funded ELSE checkpoint[r].funded
    BY <1>1, <1>2, CoalesceTyped
  <2> QED
    BY <1>2, <2>1, <2>2, <2>3
<1>4. checkpoint' = [checkpoint EXCEPT ![r] = kept]
  BY DEF SaveSettlement
<1> HIDE DEF kept
<1> QED
  BY <1>1, <1>3, <1>4

LEMMA EmptyHasNoPayment == EmptyCheckpoint.payment = NoPayment /\ EmptyCheckpoint.funded = 0
BY DEF EmptyCheckpoint

\* Steps that leave the purchase's rows alone and claim nothing.
LEMMA QuietPurchase ==
    ASSUME Typed, PurchaseInv, NEW p \in Worker,
           \/ Load(p) \/ ClaimBridge(p) \/ Requote(p) \/ AbandonBridge(p) \/ SendBridge(p)
           \/ MarkSubmitted(p) \/ BridgeLeg(p) \/ BridgeStatus(p) \/ FundedLeg(p) \/ PaymentLeg(p)
           \/ AuthorizedLeg(p) \/ Settle(p) \/ Unsettled(p) \/ Fail(p)
    PROVE  PurchaseInv'
<1>s. Steps(p)
  BY AttemptSteps DEF Progress
<1>1. CASE Load(p)
  BY <1>s, <1>1, LoadedMoves, PurchaseKept, EmptyHasNoPayment
  DEF Load, Stops, HoldsPurchase, Paying, rowVars, targetVars
<1>2. CASE ClaimBridge(p) \/ Requote(p) \/ AbandonBridge(p)
  <2>1. Stops(p) \/ To(p, "requote") \/ To(p, "saveTransfer") \/ To(p, "send") \/ To(p, "abandonBridge")
    BY <1>2, Moving
    DEF ClaimBridge, Requote, AbandonBridge, SourceChainReady, SourceChainRefuses, Place
  <2> QED
    BY <1>s, <1>2, <2>1, PurchaseKept, EmptyHasNoPayment
    DEF ClaimBridge, Requote, AbandonBridge, Stops, To, HoldsPurchase, Paying, rowVars, targetVars
<1>3. CASE SendBridge(p) \/ MarkSubmitted(p)
  <2>1. To(p, "markSubmitted") \/ To(p, "saveTransfer")
    BY <1>3, Moving DEF SendBridge, MarkSubmitted, Place
  <2> QED
    BY <1>s, <1>3, <2>1, PurchaseKept
    DEF SendBridge, MarkSubmitted, To, HoldsPurchase, Paying, rowVars, targetVars
<1>4. CASE BridgeLeg(p) \/ BridgeStatus(p) \/ FundedLeg(p)
  <2>1. Stops(p) \/ To(p, "bridgeStatus") \/ To(p, "paymentLeg") \/ To(p, "saveFunding")
    BY <1>4, Moving DEF BridgeLeg, BridgeStatus, FundedLeg, Place, Outcomes
  <2> QED
    BY <1>s, <1>4, <2>1, PurchaseKept, EmptyHasNoPayment
    DEF BridgeLeg, BridgeStatus, FundedLeg, To, Stops, HoldsPurchase, Paying, rowVars, targetVars
<1>5. CASE PaymentLeg(p)
  <2>1. \/ To(p, "authorizedLeg") /\ act[p].local.payment # NoPayment
        \/ To(p, "claimPurchase")
    BY <1>5, Moving DEF PaymentLeg, Place
  <2> QED
    BY <1>s, <1>5, <2>1, PurchaseKept DEF PaymentLeg, To, HoldsPurchase, Paying, targetVars
<1>6. CASE AuthorizedLeg(p) \/ Settle(p)
  <2>1. To(p, "verify") \/ To(p, "saveSettlement") \/ To(p, "execution")
    BY <1>6, Moving, AnsweredMoves DEF AuthorizedLeg, Settle, Place
  <2>2. act[p].local.payment # NoPayment
    BY <1>6 DEF AuthorizedLeg, Settle, At, Paying, PurchaseInv, PurchaseOf
  <2>3. UNCHANGED <<purchaseRow, checkpoint, presented>>
    BY <1>6 DEF AuthorizedLeg, Settle, rowVars, targetVars
  <2> QED
    BY <1>s, <2>1, <2>2, <2>3, PurchaseKept DEF To, HoldsPurchase
<1>7. CASE Unsettled(p) \/ Fail(p)
  <2>1. Stops(p)
    BY <1>7, Moving DEF Unsettled, Fail, Outcomes
  <2> QED
    BY <1>s, <1>7, <2>1, PurchaseKept, EmptyHasNoPayment
    DEF Unsettled, Fail, Stops, HoldsPurchase, Paying, rowVars, targetVars
<1> QED
  BY <1>1, <1>2, <1>3, <1>4, <1>5, <1>6, <1>7

LEMMA AttemptPurchase ==
    ASSUME Typed, PurchaseInv, NEW p \in Worker, Progress(p) \/ Fail(p)
    PROVE  PurchaseInv'
<1> DEFINE r == act[p].run
<1>s. Steps(p)
  BY AttemptSteps
<1>r. /\ r \in Run /\ purchaseRow \in [Run -> PurchaseRow] /\ checkpoint \in [Run -> CheckpointRow]
      /\ presented \in [Run -> SUBSET Payment] /\ act[p] \in Process
      /\ \A q \in Worker : act[q].pc # "idle" => act[q].run \in Run
  BY <1>s, RunOfProcess DEF Steps, Typed, RowsTyped, WorldTyped, ProcessesTyped
<1>1. CASE ClaimPurchase(p)
  <2>q. UNCHANGED <<checkpoint, presented>> /\ act[p].pc = "claimPurchase"
    BY <1>1 DEF ClaimPurchase, At, targetVars
  <2>1. CASE PurchaseClaimed(r) /\ To(p, "authorize")
    <3>1. /\ purchaseRow[r].status = "ABSENT" /\ purchaseRow'[r].status = "CLAIMED"
          /\ purchaseRow'[r].payment = NoPayment
          /\ \A s \in Run \ {r} : purchaseRow'[s] = purchaseRow[s]
      BY <1>r, <2>1 DEF PurchaseClaimed, NoPurchase
    <3>2. purchaseRow[r].payment = NoPayment
      BY <1>r, <3>1 DEF PurchaseInv
    <3>3. \A q \in Worker : act[q].pc \in HoldsPurchase => act[q].run # r
      BY <3>1 DEF PurchaseInv, PurchaseOf
    <3>4. \A q \in Worker : PurchaseOf(q)'
      BY <1>s, <1>r, <2>q, <2>1, <3>1, <3>2 DEF Steps, PurchaseInv, PurchaseOf, HoldsPurchase, Paying, To
    <3>5. OneAuthorizationPerRun'
      BY <1>r, <2>q, <3>1, <3>2 DEF PurchaseInv, OneAuthorizationPerRun
    <3>6. \A s \in Run : purchaseRow'[s].status = "AUTHORIZED" <=> purchaseRow'[s].payment # NoPayment
      BY <1>r, <3>1 DEF PurchaseInv
    <3>7. \A q, o \in Worker : act'[q].pc \in HoldsPurchase /\ act'[o].pc \in HoldsPurchase
                                /\ act'[q].run = act'[o].run => q = o
      BY <1>s, <3>3 DEF Steps, PurchaseInv, HoldsPurchase
    <3> QED
      BY <3>4, <3>5, <3>6, <3>7 DEF PurchaseInv
  <2>2. CASE /\ purchaseRow[r].status = "AUTHORIZED"
             /\ act' = [act EXCEPT ![p].payment = purchaseRow[r].payment, ![p].pc = "savePayment"]
             /\ UNCHANGED purchaseRow
    <3>1. /\ act'[p].pc = "savePayment" /\ act'[p].local = act[p].local
          /\ act'[p].payment = purchaseRow[r].payment
      BY <2>2, PurchaseFound
    <3>2. purchaseRow[r].payment # NoPayment
      BY <1>r, <2>2 DEF PurchaseInv
    <3>3. \A q \in Worker : PurchaseOf(q)'
      BY <1>s, <1>r, <2>q, <2>2, <3>1, <3>2 DEF Steps, PurchaseInv, PurchaseOf, HoldsPurchase, Paying
    <3> QED
      BY <1>s, <2>q, <2>2, <3>1, <3>3 DEF Steps, PurchaseInv, OneAuthorizationPerRun, HoldsPurchase
  <2>3. CASE Throw(p) /\ UNCHANGED purchaseRow
    BY <1>s, <2>q, <2>3, Moving, PurchaseKept, EmptyHasNoPayment DEF Stops, HoldsPurchase, Paying
  <2> QED
    BY <1>1, <2>1, <2>2, <2>3, Moving DEF ClaimPurchase, Place
<1>2. CASE Authorize(p)
  <2>1. UNCHANGED <<purchaseRow, checkpoint, presented>> /\ act[p].pc = "authorize"
    BY <1>2 DEF Authorize, At, rowVars, targetVars
  <2>2. /\ act'[p].pc \in {"markAuthorized", "abandonPurchase", "notPayable"}
        /\ act'[p].local = act[p].local
        /\ act'[p].pc = "markAuthorized" => act'[p].payment # NoPayment
    BY <1>2, AuthorizeMoves, PaymentIsNotNone DEF To
  <2>3. \A q \in Worker : PurchaseOf(q)'
    BY <1>s, <1>r, <2>1, <2>2 DEF Steps, PurchaseInv, PurchaseOf, HoldsPurchase, Paying
  <2> QED
    BY <1>s, <2>1, <2>2, <2>3 DEF Steps, PurchaseInv, OneAuthorizationPerRun, HoldsPurchase
<1>3. CASE MarkAuthorized(p)
  <2>1. /\ UNCHANGED <<checkpoint, presented>> /\ act[p].pc = "markAuthorized"
        /\ act[p].payment # NoPayment /\ purchaseRow[r].status = "CLAIMED"
        /\ purchaseRow[r].payment = NoPayment
    BY <1>r, <1>3 DEF MarkAuthorized, At, targetVars, PurchaseInv, PurchaseOf, HoldsPurchase
  <2>2. CASE UNCHANGED purchaseRow /\ To(p, "abandonPurchase")
    <3>1. \A q \in Worker : PurchaseOf(q)'
      BY <1>s, <1>r, <2>1, <2>2 DEF Steps, PurchaseInv, PurchaseOf, HoldsPurchase, Paying, To
    <3> QED
      BY <1>s, <2>1, <2>2, <3>1 DEF Steps, PurchaseInv, OneAuthorizationPerRun, HoldsPurchase, To
  <2>3. CASE /\ purchaseRow' = [purchaseRow EXCEPT ![r] = [status |-> "AUTHORIZED",
                                                          amount |-> act[p].payment.amount,
                                                          payment |-> act[p].payment]]
             /\ To(p, "savePayment") \/ To(p, "abandonPurchase")
    <3>1. /\ purchaseRow'[r].status = "AUTHORIZED" /\ purchaseRow'[r].payment = act[p].payment
          /\ \A s \in Run \ {r} : purchaseRow'[s] = purchaseRow[s]
      BY <1>r, <2>3
    <3>2. presented[r] = {} /\ checkpoint[r].payment = NoPayment
      BY <1>r, <2>1, PaymentIsNotNone DEF PurchaseInv, OneAuthorizationPerRun
    <3>3. \A q \in Worker : act[q].pc # "idle" /\ act[q].run = r => act[q].local.payment = NoPayment
      BY <1>r, <2>1, <3>2 DEF PurchaseInv, PurchaseOf
    <3>4. \A q \in Worker : q # p /\ act[q].pc \in HoldsPurchase => act[q].run # r
      BY <2>1 DEF PurchaseInv, HoldsPurchase
    <3>5. \A q \in Worker : act[q].pc = "savePayment" => act[q].run # r
      BY <2>1 DEF PurchaseInv, PurchaseOf
    <3>6. \A q \in Worker : PurchaseOf(q)'
      <4>1. PurchaseOf(p)'
        BY <1>s, <1>r, <2>1, <2>3, <3>1, <3>2, <3>3
        DEF Steps, PurchaseInv, PurchaseOf, HoldsPurchase, Paying, To
      <4>2. ASSUME NEW q \in Worker \ {p} PROVE PurchaseOf(q)'
        BY <1>s, <1>r, <2>1, <2>3, <3>1, <3>2, <3>3, <3>4, <3>5
        DEF Steps, PurchaseInv, PurchaseOf, HoldsPurchase, Paying, To
      <4> QED
        BY <4>1, <4>2
    <3>7. OneAuthorizationPerRun'
      BY <1>r, <2>1, <3>1, <3>2 DEF PurchaseInv, OneAuthorizationPerRun
    <3>8. \A s \in Run : purchaseRow'[s].status = "AUTHORIZED" <=> purchaseRow'[s].payment # NoPayment
      BY <1>r, <2>1, <3>1 DEF PurchaseInv
    <3>9. \A q, o \in Worker : act'[q].pc \in HoldsPurchase /\ act'[o].pc \in HoldsPurchase
                                /\ act'[q].run = act'[o].run => q = o
      BY <1>s, <2>1, <2>3, <3>4 DEF Steps, PurchaseInv, HoldsPurchase, To
    <3> QED
      BY <3>6, <3>7, <3>8, <3>9 DEF PurchaseInv
  <2> QED
    BY <1>3, <2>2, <2>3, Moving DEF MarkAuthorized, Place
<1>4. CASE AbandonPurchase(p)
  <2>1. /\ UNCHANGED <<checkpoint, presented>> /\ act[p].pc \in HoldsPurchase
        /\ Stops(p)
        /\ purchaseRow' = [purchaseRow EXCEPT ![r] = Abandoned(purchaseRow[r])]
    BY <1>4, Moving DEF AbandonPurchase, targetVars, HoldsPurchase, Outcomes
  <2>2. /\ purchaseRow'[r].payment = purchaseRow[r].payment
        /\ purchaseRow'[r].status = "AUTHORIZED" <=> purchaseRow[r].status = "AUTHORIZED"
        /\ \A s \in Run \ {r} : purchaseRow'[s] = purchaseRow[s]
    BY <1>r, <2>1 DEF Abandoned, NoPurchase, PurchaseInv
  <2>3. \A q \in Worker : q # p /\ act[q].pc \in HoldsPurchase => act[q].run # r
    BY <2>1 DEF PurchaseInv
  <2>4. \A q \in Worker : PurchaseOf(q)'
    BY <1>s, <1>r, <2>1, <2>2, <2>3, EmptyHasNoPayment
    DEF Steps, PurchaseInv, PurchaseOf, HoldsPurchase, Paying, Stops
  <2>5. OneAuthorizationPerRun'
    BY <1>r, <2>1, <2>2 DEF PurchaseInv, OneAuthorizationPerRun
  <2>6. \A s \in Run : purchaseRow'[s].status = "AUTHORIZED" <=> purchaseRow'[s].payment # NoPayment
    BY <1>r, <2>2 DEF PurchaseInv
  <2>7. \A q, o \in Worker : act'[q].pc \in HoldsPurchase /\ act'[o].pc \in HoldsPurchase
                              /\ act'[q].run = act'[o].run => q = o
    BY <1>s, <2>1 DEF Steps, PurchaseInv, HoldsPurchase, Stops
  <2> QED
    BY <2>4, <2>5, <2>6, <2>7 DEF PurchaseInv
<1>5. CASE SaveTransfer(p) \/ SaveFunding(p) \/ SavePayment(p)
  <2>1. UNCHANGED <<purchaseRow, presented>>
    BY <1>5 DEF SaveTransfer, SaveFunding, SavePayment, targetVars
  <2>2. /\ \A s \in Run \ {r} : checkpoint'[s] = checkpoint[s]
        /\ act'[p].pc = IF SaveTransfer(p) THEN "bridgeLeg"
                        ELSE IF SaveFunding(p) THEN "fundedLeg" ELSE "authorizedLeg"
        /\ checkpoint'[r].payment = IF checkpoint[r].payment = NoPayment /\ SavePayment(p)
                                    THEN act[p].payment ELSE checkpoint[r].payment
        /\ act'[p].local.payment = IF SavePayment(p) THEN checkpoint'[r].payment
                                   ELSE act[p].local.payment
    BY <1>5, SavedTyped
  <2>3. SavePayment(p) => act[p].payment = purchaseRow[r].payment /\ act[p].payment # NoPayment
    BY DEF SavePayment, At, PurchaseInv, PurchaseOf
  <2>4. checkpoint[r].payment # NoPayment => checkpoint'[r].payment = checkpoint[r].payment
    BY <2>2
  <2>5. checkpoint'[r].payment \in {NoPayment, purchaseRow[r].payment}
    BY <1>r, <2>2, <2>3 DEF PurchaseInv, OneAuthorizationPerRun
  <2>6. \A q \in Worker : PurchaseOf(q)'
    <3>1. PurchaseOf(p)'
      <4>1. act[p].local.payment \in {NoPayment, checkpoint[r].payment}
        BY <1>s DEF Steps, PurchaseInv, PurchaseOf
      <4>2. act'[p].local.payment \in {NoPayment, checkpoint'[r].payment}
        BY <2>2, <2>4, <4>1
      <4>3. act'[p].pc \in Paying => SavePayment(p)
        BY <1>5, <2>2 DEF Paying
      <4>4. SavePayment(p) => checkpoint'[r].payment # NoPayment
        BY <2>2, <2>3
      <4>5. act'[p].pc \in Paying => act'[p].local.payment # NoPayment
        BY <2>2, <4>3, <4>4
      <4>6. act'[p].pc \notin HoldsPurchase \cup {"savePayment"} /\ act'[p].run = r
        BY <1>s, <2>2 DEF Steps, HoldsPurchase
      <4> QED
        BY <4>2, <4>5, <4>6 DEF PurchaseOf, HoldsPurchase
    <3>2. ASSUME NEW q \in Worker \ {p} PROVE PurchaseOf(q)'
      BY <1>s, <1>r, <2>1, <2>2, <2>4 DEF Steps, PurchaseInv, PurchaseOf
    <3> QED
      BY <3>1, <3>2
  <2>7. OneAuthorizationPerRun'
    BY <1>r, <2>1, <2>2, <2>5 DEF PurchaseInv, OneAuthorizationPerRun
  <2>8. \A q, o \in Worker : act'[q].pc \in HoldsPurchase /\ act'[o].pc \in HoldsPurchase
                              /\ act'[q].run = act'[o].run => q = o
    BY <1>s, <2>2 DEF Steps, PurchaseInv, HoldsPurchase
  <2> QED
    BY <2>1, <2>6, <2>7, <2>8 DEF PurchaseInv
<1>6. CASE Verify(p)
  <2>1. /\ UNCHANGED <<purchaseRow, checkpoint>> /\ act[p].pc = "verify"
        /\ Present(p) \/ UNCHANGED presented
        /\ To(p, "settle") \/ To(p, "execution")
    BY <1>6, Moving, AnsweredMoves DEF Verify, At, rowVars, Place
  <2>2. act[p].local.payment # NoPayment /\ act[p].local.payment = checkpoint[r].payment
    BY <2>1 DEF PurchaseInv, PurchaseOf, Paying
  <2>3. act[p].local.payment = purchaseRow[r].payment
    BY <1>r, <2>2 DEF PurchaseInv, OneAuthorizationPerRun
  <2>4. OneAuthorizationPerRun'
    BY <1>r, <2>1, <2>3 DEF PurchaseInv, OneAuthorizationPerRun, Present
  <2>5. \A q \in Worker : PurchaseOf(q)'
    BY <1>s, <1>r, <2>1, <2>2 DEF Steps, PurchaseInv, PurchaseOf, HoldsPurchase, Paying, To
  <2>6. \A q, o \in Worker : act'[q].pc \in HoldsPurchase /\ act'[o].pc \in HoldsPurchase
                              /\ act'[q].run = act'[o].run => q = o
    BY <1>s, <2>1 DEF Steps, PurchaseInv, HoldsPurchase, To
  <2> QED
    BY <2>1, <2>4, <2>5, <2>6 DEF PurchaseInv
<1>7. CASE SaveSettlement(p)
  <2>1. UNCHANGED <<purchaseRow, presented>> /\ Stops(p)
    BY <1>7, Moving DEF SaveSettlement, targetVars, Outcomes
  <2>2. \A s \in Run : checkpoint'[s].payment = checkpoint[s].payment
    BY <1>7, PaidTyped
  <2>3. \A q \in Worker : PurchaseOf(q)'
    BY <1>s, <1>r, <2>1, <2>2, EmptyHasNoPayment
    DEF Steps, PurchaseInv, PurchaseOf, HoldsPurchase, Paying, Stops
  <2>4. \A q, o \in Worker : act'[q].pc \in HoldsPurchase /\ act'[o].pc \in HoldsPurchase
                              /\ act'[q].run = act'[o].run => q = o
    BY <1>s, <2>1 DEF Steps, PurchaseInv, HoldsPurchase, Stops
  <2> QED
    BY <2>1, <2>2, <2>3, <2>4 DEF PurchaseInv, OneAuthorizationPerRun
<1> QED
  BY <1>1, <1>2, <1>3, <1>4, <1>5, <1>6, <1>7, QuietPurchase DEF Progress

-----------------------------------------------------------------------------
(* The funding: whoever knows of a delivery, or stands behind one, has one *)
(* that covers the ceiling, and a delivery stays.                          *)

Funded(r) == Arrived(r) /\ Covers(delivery[r].amount)

AfterFunding == {"saveFunding", "fundedLeg", "paymentLeg", "claimPurchase", "authorize",
                 "markAuthorized", "abandonPurchase", "notPayable", "savePayment",
                 "authorizedLeg", "verify", "settle", "saveSettlement"}

FundingOf(p) ==
    /\ act[p].pc # "idle" /\ act[p].local.funded # 0 => Funded(act[p].run)
    /\ act[p].pc = "saveFunding" => Funded(act[p].run)
    /\ act[p].pc \in AfterFunding /\ terms[act[p].run].mode = "BRIDGE_THEN_PAY" => Funded(act[p].run)

FundingInv ==
    /\ \A r \in Run : checkpoint[r].funded # 0 => Funded(r)
    /\ \A p \in Worker : FundingOf(p)
    /\ \A r \in Run : presented[r] # {} /\ terms[r].mode = "BRIDGE_THEN_PAY" => Funded(r)

DeliveriesStay == \A r \in Run : Funded(r) => Funded(r)'

LEMMA FundingKept ==
    ASSUME Typed, FundingInv, NEW p \in Worker, Steps(p), DeliveriesStay, UNCHANGED <<terms, presented>>,
           \A s \in Run : checkpoint'[s].funded = checkpoint[s].funded,
           act'[p].local.funded \in {0, act[p].local.funded, checkpoint[act[p].run].funded},
           act'[p].pc \in AfterFunding => \/ act[p].pc \in AfterFunding
                                         \/ terms[act[p].run].mode = "PREFUNDED"
                                         \/ Funded(act[p].run),
           act'[p].pc = "saveFunding" => Funded(act[p].run)
    PROVE  FundingInv'
<1>1. \A q \in Worker : act[q].pc # "idle" => act[q].run \in Run
  BY RunOfProcess
<1>2. \A r \in Run : (checkpoint[r].funded # 0 => Funded(r))'
  BY DEF FundingInv, DeliveriesStay
<1>3. \A r \in Run : (presented[r] # {} /\ terms[r].mode = "BRIDGE_THEN_PAY" => Funded(r))'
  BY DEF FundingInv, DeliveriesStay
<1>4. FundingOf(p)'
  BY <1>1, <1>2 DEF Steps, FundingInv, FundingOf, DeliveriesStay
<1>5. ASSUME NEW q \in Worker \ {p} PROVE FundingOf(q)'
  <2>1. act'[q] = act[q] /\ FundingOf(q) /\ (act[q].pc # "idle" => act[q].run \in Run)
    BY <1>1 DEF Steps, FundingInv
  <2>2. act[q].pc \in AfterFunding => act[q].pc # "idle"
    BY DEF AfterFunding
  <2> QED
    BY <2>1, <2>2 DEF FundingOf, DeliveriesStay
<1> QED
  BY <1>2, <1>3, <1>4, <1>5 DEF FundingInv

LEMMA AttemptFunding ==
    ASSUME Typed, FundingInv, NEW p \in Worker, Progress(p) \/ Fail(p)
    PROVE  FundingInv'
<1> DEFINE r == act[p].run
<1>s. Steps(p) /\ UNCHANGED terms
  BY AttemptSteps, AttemptLeavesQueue
<1>r. /\ r \in Run
      /\ delivery \in [Run -> [status : {"NONE", "INFLIGHT", "DELIVERED", "FAILED"}, amount : {0} \cup Delivery]]
      /\ presented \in [Run -> SUBSET Payment] /\ checkpoint \in [Run -> CheckpointRow]
  BY <1>s, RunOfProcess DEF Steps, Typed, RowsTyped, WorldTyped
<1>d. DeliveriesStay
  <2>1. CASE SendBridge(p)
    BY <1>r, <2>1 DEF SendBridge, Broadcast, DeliveriesStay, Funded, Arrived
  <2>2. CASE UNCHANGED delivery
    BY <2>2 DEF DeliveriesStay, Funded, Arrived
  <2> QED
    BY <2>1, <2>2
    DEF Progress, Fail, Load, ClaimBridge, Requote, AbandonBridge, MarkSubmitted,
        SaveTransfer, BridgeLeg, BridgeStatus, SaveFunding, FundedLeg, PaymentLeg, ClaimPurchase,
        Authorize, MarkAuthorized, AbandonPurchase, SavePayment, AuthorizedLeg, Verify, Settle,
        SaveSettlement, Unsettled, bridgeVars
<1>1. CASE Load(p)
  BY <1>s, <1>d, <1>1, LoadedMoves, FundingKept, EmptyHasNoPayment
  DEF Load, Stops, AfterFunding, rowVars, targetVars
<1>2. CASE ClaimBridge(p) \/ Requote(p) \/ AbandonBridge(p) \/ SendBridge(p) \/ MarkSubmitted(p)
           \/ BridgeLeg(p)
  <2>1. \/ Stops(p) \/ To(p, "requote") \/ To(p, "saveTransfer") \/ To(p, "send")
        \/ To(p, "abandonBridge") \/ To(p, "markSubmitted") \/ To(p, "bridgeStatus")
    BY <1>2, Moving
    DEF ClaimBridge, Requote, AbandonBridge, SendBridge, MarkSubmitted, BridgeLeg,
        SourceChainReady, SourceChainRefuses, Place
  <2>2. UNCHANGED <<checkpoint, presented>>
    BY <1>2 DEF ClaimBridge, Requote, AbandonBridge, SendBridge, MarkSubmitted, BridgeLeg,
                rowVars, targetVars
  <2> QED
    BY <1>s, <1>d, <2>1, <2>2, FundingKept, EmptyHasNoPayment DEF Stops, To, AfterFunding
<1>3. CASE BridgeStatus(p)
  <2>1. UNCHANGED <<checkpoint, presented>> /\ act[p].pc = "bridgeStatus"
    BY <1>3 DEF BridgeStatus, At, rowVars, targetVars
  <2>2. \/ Stops(p)
        \/ act[p].local.funded # 0 /\ To(p, "paymentLeg")
        \/ Funded(r) /\ To(p, "saveFunding")
    BY <1>3, Moving DEF BridgeStatus, Funded, Arrived, Place, Outcomes
  <2>3. act[p].local.funded # 0 => Funded(r)
    BY <2>1 DEF FundingInv, FundingOf
  <2> QED
    BY <1>s, <1>d, <2>1, <2>2, <2>3, FundingKept, EmptyHasNoPayment DEF Stops, To, AfterFunding
<1>4. CASE SaveTransfer(p) \/ SaveFunding(p) \/ SavePayment(p)
  <2>1. UNCHANGED <<presented, delivery>>
    BY <1>4 DEF SaveTransfer, SaveFunding, SavePayment, targetVars, bridgeVars
  <2>2. /\ \A s \in Run \ {r} : checkpoint'[s] = checkpoint[s]
        /\ act'[p].pc = IF SaveTransfer(p) THEN "bridgeLeg"
                        ELSE IF SaveFunding(p) THEN "fundedLeg" ELSE "authorizedLeg"
        /\ checkpoint'[r].funded = IF checkpoint[r].funded = 0 /\ SaveFunding(p)
                                   THEN delivery[r].amount ELSE checkpoint[r].funded
        /\ act'[p].local.funded = act[p].local.funded
    BY <1>4, SavedTyped
  <2>3. act[p].pc \in {"saveTransfer", "saveFunding", "savePayment"}
        /\ (act[p].pc = "saveTransfer" <=> SaveTransfer(p))
        /\ (act[p].pc = "saveFunding" <=> SaveFunding(p))
    BY <1>4 DEF SaveTransfer, SaveFunding, SavePayment, At
  <2>4. CASE SaveFunding(p)
    <3>1. Funded(r)
      BY <2>4 DEF SaveFunding, At, FundingInv, FundingOf
    <3>2. \A s \in Run : (checkpoint[s].funded # 0 => Funded(s))'
      BY <1>d, <1>r, <2>2, <3>1 DEF FundingInv, DeliveriesStay
    <3>3. FundingOf(p)'
      BY <1>s, <1>d, <1>r, <3>1 DEF Steps, FundingOf, DeliveriesStay
    <3>4. ASSUME NEW q \in Worker \ {p} PROVE FundingOf(q)'
      BY <1>s, <2>1 DEF Steps, FundingInv, FundingOf, Funded, Arrived
    <3> QED
      BY <1>s, <2>1, <3>2, <3>3, <3>4 DEF FundingInv, Funded, Arrived
  <2>6. CASE ~SaveFunding(p)
    <3>1. \A s \in Run : checkpoint'[s].funded = checkpoint[s].funded
      BY <1>r, <2>2, <2>6
    <3> QED
      BY <1>s, <1>d, <1>4, <2>1, <2>2, <2>3, <2>6, <3>1, FundingKept DEF AfterFunding
  <2> QED
    BY <2>4, <2>6
<1>5. CASE FundedLeg(p) \/ PaymentLeg(p) \/ AuthorizedLeg(p) \/ Settle(p)
  <2>1. act'[p].local = act[p].local /\ act'[p].pc # "saveFunding"
    BY <1>5, Moving, AnsweredMoves DEF FundedLeg, PaymentLeg, AuthorizedLeg, Settle, To, Place
  <2>2. UNCHANGED <<checkpoint, presented>> /\ act[p].pc \in AfterFunding
    BY <1>5 DEF FundedLeg, PaymentLeg, AuthorizedLeg, Settle, At, AfterFunding, rowVars, targetVars
  <2> QED
    BY <1>s, <1>d, <2>1, <2>2, FundingKept
<1>6. CASE ClaimPurchase(p) \/ Authorize(p) \/ MarkAuthorized(p) \/ AbandonPurchase(p)
  <2>1. act'[p].local \in {act[p].local, EmptyCheckpoint} /\ act'[p].pc # "saveFunding"
    <3>1. CASE ClaimPurchase(p)
      BY <3>1, Moving, PurchaseFound DEF ClaimPurchase, To, Stops, Place
    <3>2. CASE Authorize(p)
      BY <3>2, AuthorizeMoves DEF To
    <3>3. CASE MarkAuthorized(p) \/ AbandonPurchase(p)
      BY <3>3, Moving DEF MarkAuthorized, AbandonPurchase, To, Stops, Place, Outcomes
    <3> QED
      BY <1>6, <3>1, <3>2, <3>3
  <2>2. UNCHANGED <<checkpoint, presented>> /\ act[p].pc \in AfterFunding
    BY <1>6 DEF ClaimPurchase, Authorize, MarkAuthorized, AbandonPurchase, At, AfterFunding,
                rowVars, targetVars
  <2> QED
    BY <1>s, <1>d, <2>1, <2>2, FundingKept, EmptyHasNoPayment
<1>7. CASE Verify(p)
  <2>1. /\ UNCHANGED checkpoint /\ act[p].pc = "verify" /\ act[p].pc \in AfterFunding
        /\ UNCHANGED delivery /\ act'[p].local = act[p].local /\ act'[p].pc # "saveFunding"
        /\ \A s \in Run \ {r} : presented'[s] = presented[s]
    BY <1>r, <1>7, Moving, AnsweredMoves
    DEF Verify, At, AfterFunding, rowVars, bridgeVars, Present, To, Place
  <2>2. terms[r].mode = "BRIDGE_THEN_PAY" => Funded(r)
    BY <2>1 DEF FundingInv, FundingOf
  <2>3. \A s \in Run : (presented[s] # {} /\ terms[s].mode = "BRIDGE_THEN_PAY" => Funded(s))'
    BY <1>s, <1>d, <2>1, <2>2 DEF FundingInv, DeliveriesStay
  <2>4. FundingOf(p)'
    BY <1>s, <2>1, <2>2 DEF Steps, FundingInv, FundingOf, Funded, Arrived
  <2>5. ASSUME NEW q \in Worker \ {p} PROVE FundingOf(q)'
    BY <1>s, <2>1 DEF Steps, FundingInv, FundingOf, Funded, Arrived
  <2> QED
    BY <2>1, <2>3, <2>4, <2>5 DEF FundingInv, Funded, Arrived
<1>8. CASE SaveSettlement(p)
  <2>1. Stops(p) /\ UNCHANGED presented
    BY <1>8, Moving DEF SaveSettlement, Outcomes, targetVars
  <2>2. \A s \in Run : checkpoint'[s].funded = checkpoint[s].funded
    BY <1>8, PaidTyped
  <2> QED
    BY <1>s, <1>d, <2>1, <2>2, FundingKept, EmptyHasNoPayment DEF Stops, AfterFunding
<1>9. CASE Unsettled(p) \/ Fail(p)
  <2>1. Stops(p) /\ UNCHANGED <<checkpoint, presented>>
    BY <1>9, Moving DEF Unsettled, Fail, Outcomes, rowVars, targetVars
  <2> QED
    BY <1>s, <1>d, <2>1, FundingKept, EmptyHasNoPayment DEF Stops, AfterFunding
<1> QED
  BY <1>1, <1>2, <1>3, <1>4, <1>5, <1>6, <1>7, <1>8, <1>9 DEF Progress

-----------------------------------------------------------------------------
(* The end: an attempt that completes has its settlement on record, and    *)
(* one that asks for a retry has an attempt left.                          *)

PaidOf(p) ==
    /\ act[p].pc = "saveSettlement" => act[p].local.payment \in settled
    /\ act[p].pc = "finish" /\ act[p].outcome = "ACK" => checkpoint[act[p].run].paid
    /\ act[p].pc = "finish" /\ act[p].outcome = "RETRY" => held[p].attempt < MaxAttempts
    /\ act[p].pc = "finish" => act[p].outcome # "NONE"

PaidInv ==
    /\ \A r \in Run : checkpoint[r].paid =>
                      checkpoint[r].payment # NoPayment /\ checkpoint[r].payment \in settled
    /\ \A p \in Worker : PaidOf(p)
    /\ CompletedIsPaid

\* Ends that are not a success.
GivesUp(p) ==
    /\ act'[p].pc = "finish" /\ act'[p].outcome \notin {"ACK", "NONE"}
    /\ act'[p].outcome = "RETRY" => held[p].attempt < MaxAttempts

LEMMA GivingUp ==
    ASSUME Typed, NEW p \in Worker, act[p].pc # "idle"
    PROVE  /\ Throw(p) => GivesUp(p)
           /\ \A outcome \in {"DEAD_LETTER", "WAIT"} : act' = [act EXCEPT ![p] = Ends(p, outcome)] => GivesUp(p)
<1>1. ASSUME NEW outcome \in {"DEAD_LETTER", "WAIT"}, act' = [act EXCEPT ![p] = Ends(p, outcome)]
      PROVE  GivesUp(p)
  BY <1>1, Moving DEF GivesUp, Stops, Outcomes
<1>2. ASSUME Throw(p) PROVE GivesUp(p)
  <2>1. held[p].attempt \in Nat /\ MaxAttempts \in Nat
    BY RunOfProcess, MaxAttemptsAssumption
  <2>2. CASE held[p].attempt >= MaxAttempts
    BY <1>1, <1>2, <2>2 DEF Throw, Failed
  <2>3. CASE ~(held[p].attempt >= MaxAttempts)
    <3>1. act' = [act EXCEPT ![p] = Ends(p, "RETRY")]
      BY <1>2, <2>3 DEF Throw, Failed
    <3>2. act'[p].pc = "finish" /\ act'[p].outcome = "RETRY"
      BY <3>1, Moving DEF Stops, Outcomes
    <3> QED
      BY <2>1, <2>3, <3>2 DEF GivesUp
  <2> QED
    BY <2>2, <2>3
<1> QED
  BY <1>1, <1>2

LEMMA PaidKept ==
    ASSUME Typed, PaidInv, NEW p \in Worker, Steps(p), UNCHANGED <<job, held>>, settled \subseteq settled',
           \A s \in Run : /\ checkpoint'[s].paid => checkpoint[s].paid
                          /\ checkpoint[s].paid => checkpoint'[s].paid
                          /\ checkpoint[s].payment # NoPayment => checkpoint'[s].payment = checkpoint[s].payment,
           act'[p].pc # "saveSettlement",
           act'[p].pc = "finish" => GivesUp(p)
    PROVE  PaidInv'
<1>1. \A q \in Worker : act[q].pc # "idle" => act[q].run \in Run
  BY RunOfProcess
<1>2. \A s \in Run : checkpoint'[s].paid => checkpoint'[s].payment # NoPayment /\ checkpoint'[s].payment \in settled'
  BY DEF PaidInv
<1>3. PaidOf(p)'
  BY DEF Steps, PaidOf, GivesUp
<1>4. ASSUME NEW q \in Worker \ {p} PROVE PaidOf(q)'
  BY <1>1 DEF Steps, PaidInv, PaidOf
<1>5. CompletedIsPaid'
  BY <1>2 DEF PaidInv, CompletedIsPaid
<1> QED
  BY <1>2, <1>3, <1>4, <1>5 DEF PaidInv

LEMMA AttemptPaid ==
    ASSUME Typed, PurchaseInv, PaidInv, NEW p \in Worker, Progress(p) \/ Fail(p)
    PROVE  PaidInv'
<1> DEFINE r == act[p].run
<1>s. Steps(p) /\ UNCHANGED <<job, held>> /\ act[p].pc # "idle"
  BY AttemptSteps, AttemptLeavesQueue DEF queueVars, Steps
<1>r. r \in Run /\ \A q \in Worker : act[q].pc # "idle" => act[q].run \in Run
  BY <1>s, RunOfProcess
<1>1. CASE Load(p)
  <2>1. act'[p].pc \in {"finish", "paymentLeg", "bridgeStatus", "claimBridge"}
        /\ (act'[p].pc = "finish" => act'[p].outcome = "DEAD_LETTER")
    BY <1>1, LoadedMoves DEF Stops
  <2> QED
    BY <1>s, <1>1, <2>1, PaidKept DEF Load, GivesUp, rowVars, targetVars
<1>2. CASE ClaimBridge(p) \/ Requote(p) \/ AbandonBridge(p) \/ SendBridge(p) \/ MarkSubmitted(p)
           \/ BridgeLeg(p)
  <2>1. \/ GivesUp(p) \/ To(p, "requote") \/ To(p, "saveTransfer") \/ To(p, "send")
        \/ To(p, "abandonBridge") \/ To(p, "markSubmitted") \/ To(p, "bridgeStatus")
    BY <1>s, <1>2, Moving, GivingUp
    DEF ClaimBridge, Requote, AbandonBridge, SendBridge, MarkSubmitted, BridgeLeg,
        SourceChainReady, SourceChainRefuses, Place
  <2>2. UNCHANGED <<checkpoint, settled>>
    BY <1>2 DEF ClaimBridge, Requote, AbandonBridge, SendBridge, MarkSubmitted, BridgeLeg,
                rowVars, targetVars
  <2> QED
    BY <1>s, <2>1, <2>2, PaidKept DEF GivesUp, To
<1>3. CASE BridgeStatus(p) \/ FundedLeg(p) \/ PaymentLeg(p) \/ AuthorizedLeg(p)
  <2>1. \/ GivesUp(p) \/ To(p, "paymentLeg") \/ To(p, "saveFunding")
        \/ To(p, "authorizedLeg") \/ To(p, "claimPurchase") \/ To(p, "verify")
    BY <1>s, <1>3, Moving, GivingUp DEF BridgeStatus, FundedLeg, PaymentLeg, AuthorizedLeg, Place
  <2>2. UNCHANGED <<checkpoint, settled>>
    BY <1>3 DEF BridgeStatus, FundedLeg, PaymentLeg, AuthorizedLeg, rowVars, targetVars
  <2> QED
    BY <1>s, <2>1, <2>2, PaidKept DEF GivesUp, To
<1>4. CASE SaveTransfer(p) \/ SaveFunding(p) \/ SavePayment(p)
  <2>1. UNCHANGED settled
    BY <1>4 DEF SaveTransfer, SaveFunding, SavePayment, targetVars
  <2>2. /\ \A s \in Run \ {r} : checkpoint'[s] = checkpoint[s]
        /\ act'[p].pc \in {"bridgeLeg", "fundedLeg", "authorizedLeg"}
        /\ checkpoint'[r].paid = checkpoint[r].paid
        /\ checkpoint[r].payment # NoPayment => checkpoint'[r].payment = checkpoint[r].payment
    BY <1>4, SavedTyped
  <2> QED
    BY <1>s, <1>r, <2>1, <2>2, PaidKept
<1>5. CASE ClaimPurchase(p) \/ Authorize(p) \/ MarkAuthorized(p) \/ AbandonPurchase(p)
  <2>1. GivesUp(p) \/ act'[p].pc \in {"authorize", "savePayment", "markAuthorized", "abandonPurchase", "notPayable"}
    <3>1. CASE ClaimPurchase(p)
      BY <1>s, <3>1, Moving, GivingUp, PurchaseFound DEF ClaimPurchase, To, Place
    <3>2. CASE Authorize(p)
      BY <3>2, AuthorizeMoves DEF To
    <3>3. CASE MarkAuthorized(p) \/ AbandonPurchase(p)
      BY <1>s, <3>3, Moving, GivingUp DEF MarkAuthorized, AbandonPurchase, To, Place
    <3> QED
      BY <1>5, <3>1, <3>2, <3>3
  <2>2. UNCHANGED <<checkpoint, settled>>
    BY <1>5 DEF ClaimPurchase, Authorize, MarkAuthorized, AbandonPurchase, rowVars, targetVars
  <2> QED
    BY <1>s, <2>1, <2>2, PaidKept DEF GivesUp
<1>6. CASE Verify(p)
  <2>1. act'[p].pc \in {"settle", "execution"} /\ UNCHANGED <<checkpoint, settled>>
    BY <1>6, Moving, AnsweredMoves DEF Verify, To, Place, rowVars
  <2> QED
    BY <1>s, <2>1, PaidKept
<1>7. CASE Settle(p)
  <2>1. /\ UNCHANGED checkpoint /\ settled \subseteq settled'
        /\ \/ To(p, "saveSettlement") /\ act[p].local.payment \in settled'
           \/ To(p, "execution")
    BY <1>7, Moving, AnsweredMoves DEF Settle, Place, rowVars
  <2>2. CASE To(p, "execution")
    BY <1>s, <2>1, <2>2, PaidKept DEF To
  <2>3. CASE To(p, "saveSettlement") /\ act[p].local.payment \in settled'
    <3>1. PaidOf(p)'
      BY <2>3 DEF To, PaidOf
    <3>2. ASSUME NEW q \in Worker \ {p} PROVE PaidOf(q)'
      BY <1>s, <2>1 DEF Steps, PaidInv, PaidOf
    <3> QED
      BY <1>s, <2>1, <3>1, <3>2 DEF PaidInv, CompletedIsPaid
  <2> QED
    BY <2>1, <2>2, <2>3
<1>8. CASE SaveSettlement(p)
  <2>1. /\ UNCHANGED settled /\ act[p].pc = "saveSettlement"
        /\ act'[p].pc = "finish" /\ act'[p].outcome = "ACK"
    BY <1>8, Moving DEF SaveSettlement, At, Stops, Outcomes, targetVars
  <2>2. /\ checkpoint'[r].paid /\ \A s \in Run \ {r} : checkpoint'[s] = checkpoint[s]
        /\ checkpoint'[r].payment = checkpoint[r].payment
    BY <1>r, <1>8, PaidTyped
  <2>3. checkpoint[r].payment # NoPayment /\ checkpoint[r].payment \in settled
    BY <2>1 DEF PurchaseInv, PurchaseOf, Paying, PaidInv, PaidOf
  <2>4. \A s \in Run : checkpoint'[s].paid =>
                       checkpoint'[s].payment # NoPayment /\ checkpoint'[s].payment \in settled'
    BY <1>r, <2>1, <2>2, <2>3 DEF PaidInv
  <2>5. PaidOf(p)'
    BY <1>s, <2>1, <2>2 DEF Steps, PaidOf
  <2>6. ASSUME NEW q \in Worker \ {p} PROVE PaidOf(q)'
    BY <1>s, <1>r, <2>1, <2>2 DEF Steps, PaidInv, PaidOf
  <2>7. CompletedIsPaid'
    BY <1>s, <1>r, <2>1, <2>2, <2>4 DEF PaidInv, CompletedIsPaid
  <2> QED
    BY <2>4, <2>5, <2>6, <2>7 DEF PaidInv
<1>9. CASE Unsettled(p) \/ Fail(p)
  <2>1. GivesUp(p) /\ UNCHANGED <<checkpoint, settled>>
    BY <1>s, <1>9, GivingUp DEF Unsettled, Fail, rowVars, targetVars
  <2> QED
    BY <1>s, <2>1, PaidKept DEF GivesUp
<1> QED
  BY <1>1, <1>2, <1>3, <1>4, <1>5, <1>6, <1>7, <1>8, <1>9 DEF Progress

-----------------------------------------------------------------------------
(* Everything together.                                                    *)

Inv == Typed /\ QueueInv /\ BridgeInv /\ PurchaseInv /\ FundingInv /\ PaidInv

LEMMA InitInv == Init => Inv
<1> SUFFICES ASSUME Init PROVE Inv
  OBVIOUS
<1>1. QueueInv
  <2>1. PendingRow \in JobRow /\ PendingRow.status = "PENDING" /\ PendingRow.owner = NoOwner
        /\ PendingRow.attempts = 0
    BY MaxAttemptsAssumption, ReleasedRow DEF PendingRow, JobStatus
  <2>2. job \in [Job -> JobRow] /\ \A r \in Job : job[r] = PendingRow
    BY <2>1 DEF Init
  <2>3. \A w \in Worker : ~Holding(w) /\ held[w] = NoClaim
    BY DEF Init, Holding
  <2>4. held \in [Worker -> Claim \cup {NoClaim}] /\ overtaken = {}
    BY DEF Init
  <2> QED
    BY <2>1, <2>2, <2>3, <2>4, MaxAttemptsAssumption
    DEF QueueInv, QueueTypeOK, OvertakenOwnsNothing, HolderPassesFence, WaitingRowsAreClaimable,
        Fresh, LockedRowsSpentAnAttempt
<1>2. /\ Idle \in Process /\ Idle.pc = "idle" /\ Idle.run = "NONE" /\ Idle.local = EmptyCheckpoint
  BY EmptyTyped DEF Idle, Process, Place, Outcomes
<1>3. /\ act \in [Worker -> Process] /\ \A w \in Worker : act[w] = Idle /\ held[w] = NoClaim
  BY <1>2 DEF Init
<1>4. RowsTyped
  <2>1. NoPurchase \in PurchaseRow /\ "NONE" \in DOMAIN Rank
    BY DEF NoPurchase, PurchaseRow, Rank
  <2> QED
    BY <2>1, EmptyTyped DEF Init, RowsTyped
<1>5. WorldTyped
  BY DEF Init, WorldTyped
<1>6. ProcessesTyped
  BY <1>2, <1>3 DEF Init, ProcessesTyped, Holding, NoClaim
<1>7. BridgeInv
  BY <1>2, <1>3 DEF Init, BridgeInv, BridgeIsSentOnce, HoldsBridge
<1>8. PurchaseInv
  <2>1. \A r \in Run : purchaseRow[r].status = "ABSENT" /\ purchaseRow[r].payment = NoPayment
    BY DEF Init, NoPurchase
  <2> QED
    BY <1>2, <1>3, <2>1, EmptyHasNoPayment
    DEF Init, PurchaseInv, PurchaseOf, OneAuthorizationPerRun, HoldsPurchase, Paying
<1>9. FundingInv
  BY <1>2, <1>3, EmptyHasNoPayment DEF Init, FundingInv, FundingOf, AfterFunding
<1>10. PaidInv
  <2>1. \A r \in Run : ~checkpoint[r].paid /\ job[r].status = "PENDING"
    BY DEF Init, EmptyCheckpoint, PendingRow, Released, Run
  <2> QED
    BY <1>2, <1>3, <2>1 DEF PaidInv, PaidOf, CompletedIsPaid
<1> QED
  BY <1>1, <1>4, <1>5, <1>6, <1>7, <1>8, <1>9, <1>10 DEF Inv, Typed, QueueInv

LEMMA AttemptInv ==
    ASSUME Inv, NEW p \in Worker, Progress(p) \/ Fail(p)
    PROVE  Inv'
<1> USE DEF Inv
<1>1. Steps(p) /\ UNCHANGED <<queueVars, terms>>
  BY AttemptSteps, AttemptLeavesQueue
<1>2. QueueInv'
  BY <1>1, StutterInv
<1>3. act[p].pc \in Paying => act[p].local.payment # NoPayment
  BY DEF PurchaseInv, PurchaseOf
<1>4. RowsTyped' /\ WorldTyped'
  BY <1>3, AttemptRowsTyped, AttemptWorldTyped
<1>5. ProcessesTyped'
  BY <1>1 DEF Steps, Typed, ProcessesTyped, queueVars, Holding
<1>6. Typed'
  BY <1>2, <1>4, <1>5 DEF Typed, QueueInv
<1> QED
  BY <1>2, <1>6, AttemptBridge, AttemptPurchase, AttemptFunding, AttemptPaid

\* Steps of the queue and of the world: a process may be put to rest or started afresh,
\* and nothing moves but deliveries, marks and settlements that are forgotten.
LEMMA RestInv ==
    ASSUME Inv, QueueInv', RowsTyped', WorldTyped', DeliveriesStay, CompletedIsPaid',
           UNCHANGED <<terms, checkpoint, bridgeRow, purchaseRow, sent, settled, presented>>,
           act' \in [Worker -> Process],
           \A q \in Worker : /\ act'[q].run = held'[q].job
                             /\ (act'[q].pc = "idle") <=> ~Holding(q)'
                             /\ \/ act'[q] = act[q] /\ held'[q] = held[q]
                                \/ act'[q].pc \in {"idle", "load"} /\ act'[q].local = EmptyCheckpoint
    PROVE  Inv'
<1> USE DEF Inv
<1>1. Typed'
  BY DEF Typed, QueueInv, ProcessesTyped
<1>2. BridgeInv'
  BY DEF BridgeInv, BridgeIsSentOnce, HoldsBridge
<1>3. PurchaseInv'
  <2>1. \A q \in Worker : PurchaseOf(q)'
    BY EmptyHasNoPayment DEF PurchaseInv, PurchaseOf, HoldsPurchase, Paying
  <2> QED
    BY <2>1 DEF PurchaseInv, OneAuthorizationPerRun, HoldsPurchase
<1>4. FundingInv'
  <2>1. \A q \in Worker : act[q].pc # "idle" => act[q].run \in Run
    BY RunOfProcess
  <2>2. ASSUME NEW q \in Worker PROVE FundingOf(q)'
    <3>1. CASE act'[q] = act[q]
      <4>1. act[q].pc = "saveFunding" \/ act[q].pc \in AfterFunding => act[q].pc # "idle"
        BY DEF AfterFunding
      <4> QED
        BY <2>1, <3>1, <4>1 DEF FundingInv, FundingOf, DeliveriesStay
    <3>2. CASE act'[q].pc \in {"idle", "load"} /\ act'[q].local = EmptyCheckpoint
      BY <3>2, EmptyHasNoPayment DEF FundingOf, AfterFunding
    <3> QED
      BY <3>1, <3>2
  <2> QED
    BY <2>2 DEF FundingInv, DeliveriesStay
<1>5. PaidInv'
  BY DEF PaidInv, PaidOf
<1> QED
  BY <1>1, <1>2, <1>3, <1>4, <1>5

\* A process that is put to rest, or started on a claim.
LEMMA FreshProcess ==
    ASSUME NEW r \in Run
    PROVE  /\ Idle \in Process /\ Idle.pc = "idle" /\ Idle.run = "NONE" /\ Idle.local = EmptyCheckpoint
           /\ [Idle EXCEPT !.pc = "load", !.run = r] \in Process
           /\ [Idle EXCEPT !.pc = "load", !.run = r].pc = "load"
           /\ [Idle EXCEPT !.pc = "load", !.run = r].run = r
           /\ [Idle EXCEPT !.pc = "load", !.run = r].local = EmptyCheckpoint
BY EmptyTyped DEF Idle, Process, Place, Outcomes

LEMMA IdleTyped == /\ Idle \in Process /\ Idle.pc = "idle" /\ Idle.run = "NONE"
                   /\ Idle.local = EmptyCheckpoint
BY EmptyTyped DEF Idle, Process, Place, Outcomes

\* The worker lets its claim go and its process rests.
LEMMA RestsInv ==
    ASSUME Inv, NEW w \in Worker, LetGo(w), QueueInv', CompletedIsPaid',
           act' = [act EXCEPT ![w] = Idle], UNCHANGED <<terms, rowVars, bridgeVars, targetVars>>
    PROVE  Inv'
<1> USE DEF Inv
<1>1. /\ held'[w] = NoClaim /\ \A v \in Worker \ {w} : held'[v] = held[v]
  BY LetGoClears DEF QueueInv
<1>2. /\ act' \in [Worker -> Process] /\ act'[w] = Idle
      /\ \A v \in Worker \ {w} : act'[v] = act[v]
  BY IdleTyped DEF Typed, ProcessesTyped
<1>3. RowsTyped' /\ WorldTyped' /\ DeliveriesStay
  BY DEF Typed, RowsTyped, WorldTyped, DeliveriesStay, Funded, Arrived, rowVars, bridgeVars, targetVars
<1>4. ASSUME NEW q \in Worker
      PROVE  /\ act'[q].run = held'[q].job
             /\ (act'[q].pc = "idle") <=> ~Holding(q)'
             /\ \/ act'[q] = act[q] /\ held'[q] = held[q]
                \/ act'[q].pc \in {"idle", "load"} /\ act'[q].local = EmptyCheckpoint
  <2>1. CASE q = w
    BY <1>1, <1>2, <2>1, IdleTyped DEF Holding, NoClaim
  <2>2. CASE q # w
    BY <1>1, <1>2, <2>2 DEF Typed, ProcessesTyped, Holding
  <2> QED
    BY <2>1, <2>2
<1> QED
  BY <1>2, <1>3, <1>4, RestInv DEF rowVars, bridgeVars, targetVars

LEMMA PollInv == ASSUME Inv, NEW w \in Worker, NEW r \in Run, Poll(w, r) PROVE Inv'
<1> USE DEF Inv
<1>0. r \in Job /\ ClaimNext(w, r)
  BY DEF Poll, Run
<1>1. /\ QueueInv' /\ ~Holding(w)
      /\ held'[w] # NoClaim /\ held'[w].job = r /\ \A v \in Worker \ {w} : held'[v] = held[v]
      /\ job'[r].status = "PROCESSING" /\ \A s \in Job \ {r} : job'[s] = job[s]
  BY <1>0, ClaimNextInv, ClaimedRow
<1> DEFINE next == [Idle EXCEPT !.pc = "load", !.run = r]
<1>2. next \in Process /\ next.pc = "load" /\ next.run = r /\ next.local = EmptyCheckpoint
  BY FreshProcess
<1>3. act' = [act EXCEPT ![w] = next] /\ UNCHANGED <<terms, rowVars, bridgeVars, targetVars>>
  BY DEF Poll
<1> HIDE DEF next
<1>4. /\ act' \in [Worker -> Process] /\ act'[w] = next
      /\ \A v \in Worker \ {w} : act'[v] = act[v]
  BY <1>2, <1>3 DEF Typed, ProcessesTyped
<1>5. RowsTyped' /\ WorldTyped' /\ DeliveriesStay
  BY <1>3 DEF Typed, RowsTyped, WorldTyped, DeliveriesStay, Funded, Arrived, rowVars, bridgeVars, targetVars
<1>6. CompletedIsPaid'
  BY <1>1, <1>3 DEF PaidInv, CompletedIsPaid, Run, rowVars, targetVars
<1>7. ASSUME NEW q \in Worker
      PROVE  /\ act'[q].run = held'[q].job
             /\ (act'[q].pc = "idle") <=> ~Holding(q)'
             /\ \/ act'[q] = act[q] /\ held'[q] = held[q]
                \/ act'[q].pc \in {"idle", "load"} /\ act'[q].local = EmptyCheckpoint
  <2>1. CASE q = w
    BY <1>1, <1>2, <1>4, <2>1 DEF Holding
  <2>2. CASE q # w
    BY <1>1, <1>4, <2>2 DEF Typed, ProcessesTyped, Holding
  <2> QED
    BY <2>1, <2>2
<1> QED
  BY <1>1, <1>3, <1>4, <1>5, <1>6, <1>7, RestInv DEF rowVars, bridgeVars, targetVars

LEMMA ReportInv == ASSUME Inv, NEW w \in Worker, Report(w) PROVE Inv'
<1> USE DEF Inv
<1>1. /\ act[w].pc = "finish" /\ act[w].outcome \in {"ACK", "RETRY", "WAIT", "DEAD_LETTER"}
      /\ act[w].outcome = "ACK" => checkpoint[act[w].run].paid
      /\ act[w].outcome = "RETRY" => held[w].attempt < MaxAttempts
      /\ act[w].run = held[w].job
  BY DEF Report, At, PaidInv, PaidOf, Typed, ProcessesTyped, Process, Outcomes
<1>2. held[w].job \in Job
  BY <1>1, RunOfProcess DEF Run
<1>3. ASSUME NEW status \in JobStatus, NEW attempts, Finish(w, status, attempts),
             status = "COMPLETED" => act[w].outcome = "ACK", QueueInv'
      PROVE  Inv'
  <2>1. LetGo(w) /\ job' = [job EXCEPT ![held[w].job] = Released(status, attempts)]
    BY <1>3 DEF Finish
  <2>2. job'[held[w].job].status = status /\ \A s \in Job \ {held[w].job} : job'[s] = job[s]
    BY <1>2, <2>1 DEF Released, QueueInv, QueueTypeOK
  <2>3. act' = [act EXCEPT ![w] = Idle] /\ UNCHANGED <<terms, rowVars, bridgeVars, targetVars>>
    BY DEF Report
  <2>4. CompletedIsPaid'
    BY <1>1, <1>2, <1>3, <2>2, <2>3 DEF PaidInv, CompletedIsPaid, Run, rowVars, targetVars
  <2> QED
    BY <1>3, <2>1, <2>3, <2>4, RestsInv
<1>4. CASE act[w].outcome = "ACK"
  <2>1. MarkCompleted(w)
    BY <1>4 DEF Report
  <2>2. QueueInv'
    BY <2>1, OutcomeInv DEF Outcome
  <2> QED
    BY <1>3, <1>4, <2>1, <2>2 DEF MarkCompleted, JobStatus
<1>5. CASE act[w].outcome = "RETRY"
  <2>1. MarkRetry(w) /\ held[w].attempt < MaxAttempts
    BY <1>1, <1>5 DEF Report
  <2>2. QueueInv'
    BY <2>1, OutcomeInv DEF Outcome
  <2> QED
    BY <1>3, <2>1, <2>2 DEF MarkRetry, JobStatus
<1>6. CASE act[w].outcome = "WAIT"
  <2>1. MarkWaiting(w)
    BY <1>6 DEF Report
  <2>2. QueueInv'
    BY <2>1, OutcomeInv DEF Outcome
  <2> QED
    BY <1>3, <2>1, <2>2 DEF MarkWaiting, JobStatus
<1>7. CASE act[w].outcome = "DEAD_LETTER"
  <2>1. MarkDeadLetter(w)
    BY <1>7 DEF Report
  <2>2. QueueInv'
    BY <2>1, OutcomeInv DEF Outcome
  <2> QED
    BY <1>3, <2>1, <2>2 DEF MarkDeadLetter, JobStatus
<1> QED
  BY <1>1, <1>4, <1>5, <1>6, <1>7

LEMMA LeavesInv ==
    ASSUME Inv, NEW w \in Worker, ReportRejected(w) \/ Crash(w) PROVE Inv'
<1> USE DEF Inv
<1>1. /\ LetGo(w) /\ UNCHANGED job /\ act' = [act EXCEPT ![w] = Idle]
      /\ UNCHANGED <<terms, rowVars, bridgeVars, targetVars>>
  BY DEF ReportRejected, FinishRejected, Crash, Abandon
<1>2. QueueInv'
  BY <1>1, ForgetInv
<1>3. CompletedIsPaid'
  BY <1>1 DEF PaidInv, CompletedIsPaid, rowVars, targetVars
<1> QED
  BY <1>1, <1>2, <1>3, RestsInv

\* Steps that no process takes part in.
LEMMA SilentInv ==
    ASSUME Inv, QueueInv', UNCHANGED <<held, act>>, CompletedIsPaid',
           UNCHANGED <<terms, checkpoint, bridgeRow, purchaseRow, legs, sent, settled, presented>>,
           WorldTyped', DeliveriesStay
    PROVE  Inv'
<1> USE DEF Inv
<1>1. RowsTyped'
  BY DEF Typed, RowsTyped
<1>2. \A q \in Worker : act'[q].run = held'[q].job /\ ((act'[q].pc = "idle") <=> ~Holding(q)')
  BY DEF Typed, ProcessesTyped, Holding
<1>3. act' \in [Worker -> Process]
  BY DEF Typed, ProcessesTyped
<1> QED
  BY <1>1, <1>2, <1>3, RestInv

LEMMA SweepInv == ASSUME Inv, NEW w \in Worker, Sweep(w) PROVE Inv'
<1> USE DEF Inv
<1>1. DeadLetterExhausted(w) /\ UNCHANGED <<terms, rowVars, bridgeVars, targetVars, act>>
  BY DEF Sweep
<1>2. QueueInv' /\ UNCHANGED held
  BY <1>1, DeadLetterExhaustedInv DEF DeadLetterExhausted
<1>3. \A r \in Job : job'[r].status = "COMPLETED" => job[r].status = "COMPLETED"
  BY <1>1 DEF DeadLetterExhausted, Released
<1>4. CompletedIsPaid'
  BY <1>1, <1>3 DEF PaidInv, CompletedIsPaid, Run, rowVars, targetVars
<1>5. WorldTyped' /\ DeliveriesStay
  BY <1>1 DEF Typed, WorldTyped, DeliveriesStay, Funded, Arrived, bridgeVars, targetVars
<1> QED
  BY <1>1, <1>2, <1>4, <1>5, SilentInv DEF rowVars, bridgeVars, targetVars

LEMMA LeaseTimeoutInv == ASSUME Inv, NEW r \in Run, LeaseTimeout(r) PROVE Inv'
<1> USE DEF Inv
<1>1. LeaseLapses(r) /\ UNCHANGED <<terms, rowVars, bridgeVars, targetVars, act>> /\ r \in Job
  BY DEF LeaseTimeout, Run
<1>2. QueueInv' /\ UNCHANGED held
  BY <1>1, LeaseLapsesInv DEF LeaseLapses
<1>3. \A s \in Job : job'[s].status = job[s].status
  BY <1>1, RowFields DEF LeaseLapses, QueueInv, QueueTypeOK, JobRow
<1>4. CompletedIsPaid'
  BY <1>1, <1>3 DEF PaidInv, CompletedIsPaid, Run, rowVars, targetVars
<1>5. WorldTyped' /\ DeliveriesStay
  BY <1>1 DEF Typed, WorldTyped, DeliveriesStay, Funded, Arrived, bridgeVars, targetVars
<1> QED
  BY <1>1, <1>2, <1>4, <1>5, SilentInv DEF rowVars, bridgeVars, targetVars

LEMMA WorldInv ==
    ASSUME Inv, \/ \E r \in Run : BridgeDelivers(r) \/ BridgeWaitElapses(r)
                \/ FacilitatorForgets \/ UNCHANGED vars
    PROVE  Inv'
<1> USE DEF Inv
<1>1. UNCHANGED <<queueVars, terms, rowVars, act>> /\ UNCHANGED <<sent, settled, presented>>
  BY DEF BridgeDelivers, BridgeWaitElapses, FacilitatorForgets, shared, bridgeVars, targetVars, vars
<1>2. QueueInv' /\ UNCHANGED held
  BY <1>1, StutterInv DEF queueVars
<1>3. CompletedIsPaid'
  BY <1>1 DEF PaidInv, CompletedIsPaid, rowVars, queueVars
<1>4. WorldTyped' /\ DeliveriesStay
  <2> DEFINE Bridged == [status : {"NONE", "INFLIGHT", "DELIVERED", "FAILED"}, amount : {0} \cup Delivery]
  <2>1. ASSUME NEW r \in Run, BridgeDelivers(r) PROVE WorldTyped' /\ DeliveriesStay
    <3>1. PICK bridged \in Bridged : delivery' = [delivery EXCEPT ![r] = bridged]
      <4>1. delivery[r] \in Bridged
        BY DEF Typed, WorldTyped
      <4>2. CASE delivery' = [delivery EXCEPT ![r].status = "FAILED"]
        <5>1. [delivery[r] EXCEPT !.status = "FAILED"] \in Bridged
          BY <4>1
        <5> QED
          BY <4>2, <5>1
      <4>3. ASSUME NEW amount \in Delivery,
                   delivery' = [delivery EXCEPT ![r] = [status |-> "DELIVERED", amount |-> amount]]
            PROVE  \E bridged \in Bridged : delivery' = [delivery EXCEPT ![r] = bridged]
        <5>1. [status |-> "DELIVERED", amount |-> amount] \in Bridged
          OBVIOUS
        <5> QED
          BY <4>3, <5>1
      <4> QED
        BY <2>1, <4>2, <4>3 DEF BridgeDelivers
    <3>2. ~Arrived(r) /\ delivery' \in [Run -> Bridged]
          /\ \A s \in Run \ {r} : delivery'[s] = delivery[s]
      BY <2>1, <3>1 DEF BridgeDelivers, Arrived, Typed, WorldTyped
    <3>3. UNCHANGED <<sent, late, targetVars>>
      BY <2>1 DEF BridgeDelivers
    <3> QED
      BY <3>2, <3>3 DEF Typed, WorldTyped, DeliveriesStay, Funded, Arrived, targetVars
  <2>2. ASSUME NEW r \in Run, BridgeWaitElapses(r) PROVE WorldTyped' /\ DeliveriesStay
    BY <2>2 DEF BridgeWaitElapses, Typed, WorldTyped, DeliveriesStay, Funded, Arrived, targetVars
  <2>3. ASSUME FacilitatorForgets PROVE WorldTyped' /\ DeliveriesStay
    BY <2>3 DEF FacilitatorForgets, Typed, WorldTyped, DeliveriesStay, Funded, Arrived, bridgeVars
  <2>4. ASSUME UNCHANGED vars PROVE WorldTyped' /\ DeliveriesStay
    BY <2>4 DEF vars, Typed, WorldTyped, DeliveriesStay, Funded, Arrived, bridgeVars, targetVars
  <2> QED
    BY <2>1, <2>2, <2>3, <2>4
<1> QED
  BY <1>1, <1>2, <1>3, <1>4, SilentInv DEF rowVars, queueVars

LEMMA StepInv == Inv /\ [Next]_vars => Inv'
<1> SUFFICES ASSUME Inv, [Next]_vars PROVE Inv'
  OBVIOUS
<1>1. ASSUME NEW w \in Worker, NEW r \in Run, Poll(w, r) PROVE Inv'
  BY <1>1, PollInv
<1>2. ASSUME NEW w \in Worker, Sweep(w) \/ Report(w) \/ ReportRejected(w) \/ Crash(w) PROVE Inv'
  BY <1>2, SweepInv, ReportInv, LeavesInv
<1>3. ASSUME NEW p \in Worker, Progress(p) \/ Fail(p) PROVE Inv'
  BY <1>3, AttemptInv
<1>4. ASSUME NEW r \in Run, LeaseTimeout(r) \/ BridgeDelivers(r) \/ BridgeWaitElapses(r) PROVE Inv'
  BY <1>4, LeaseTimeoutInv, WorldInv
<1>5. CASE FacilitatorForgets \/ UNCHANGED vars
  BY <1>5, WorldInv
<1> QED
  BY <1>1, <1>2, <1>3, <1>4, <1>5 DEF Next

-----------------------------------------------------------------------------
(* The theorems. *)

LEMMA CrossChainInvariance == Spec => []Inv
  BY InitInv, StepInv, PTL DEF Spec

\* Rows hold values of their columns' types, and every process works on the claim it
\* holds, for any number of runs and workers.
THEOREM CrossChainTypeCorrect == Spec => []TypeOK
<1>1. Inv => TypeOK
  <2> SUFFICES ASSUME Inv PROVE TypeOK
    OBVIOUS
  <2>1. \A r \in Run : /\ purchaseRow[r].status \in {"ABSENT", "CLAIMED", "AUTHORIZED"}
                       /\ purchaseRow[r].amount \in {0, Ceiling} \cup Price
                       /\ purchaseRow[r].payment \in Payment \cup {NoPayment}
                       /\ presented[r] \subseteq Payment
    BY DEF Inv, Typed, RowsTyped, WorldTyped, PurchaseRow
  <2>2. \A w \in Worker : /\ act[w].local \in CheckpointRow
                          /\ act[w].payment \in Payment \cup {NoPayment}
                          /\ act[w].run = held[w].job
    BY DEF Inv, Typed, ProcessesTyped, Process
  <2> QED
    BY <2>1, <2>2 DEF Inv, Typed, RowsTyped, WorldTyped, TypeOK
<1> QED
  BY <1>1, CrossChainInvariance, PTL

\* At most one bridge transfer is broadcast for a run, and none that is not on record,
\* whatever crashes, retries and lapsed leases do (ViemStargateBridgeClient.submit).
THEOREM TransfersAreNotRepeated == Spec => []BridgeIsSentOnce
<1>1. Inv => BridgeIsSentOnce
  BY DEF Inv, BridgeInv
<1> QED
  BY <1>1, CrossChainInvariance, PTL

\* No run ever has two authorizations at its target or in its checkpoint (acquire,
\* markAuthorized and abandonClaim of the BNB payment store).
THEOREM AuthorizationsAreUnique == Spec => []OneAuthorizationPerRun
<1>1. Inv => OneAuthorizationPerRun
  BY DEF Inv, PurchaseInv
<1> QED
  BY <1>1, CrossChainInvariance, PTL

\* A bridged run pays only from a delivery that covers what it pays
\* (fundDestinationByBridge before authorizeTargetPayment).
THEOREM PaymentsAreFunded == Spec => []FundedBeforePaid
<1>1. Inv => FundedBeforePaid
  <2> SUFFICES ASSUME Inv, NEW r \in Run, presented[r] # {}, terms[r].mode = "BRIDGE_THEN_PAY"
               PROVE  /\ delivery[r].status = "DELIVERED"
                      /\ \A payment \in presented[r] : payment.amount <= Ceiling /\ Ceiling <= delivery[r].amount
    BY DEF FundedBeforePaid
  <2>1. Funded(r)
    BY DEF Inv, FundingInv
  <2>6. delivery[r].amount \in {0} \cup Delivery
    BY DEF Inv, Typed, WorldTyped
  <2>2. delivery[r].amount \in Nat /\ Ceiling \in Nat
    <3>1. {0} \cup Delivery \subseteq Nat /\ Ceiling \in Nat
      BY AmountAssumption
    <3> QED
      BY <2>6, <3>1
  <2>3. \A payment \in presented[r] : payment \in Payment
    BY DEF Inv, Typed, WorldTyped
  <2>4. \A payment \in Payment : payment.amount <= Ceiling
    BY DEF Payment
  <2>5. delivery[r].status = "DELIVERED" /\ Ceiling <= delivery[r].amount
    BY <2>1, <2>2 DEF Funded, Arrived, Covers
  <2> QED
    BY <2>3, <2>4, <2>5
<1> QED
  BY <1>1, CrossChainInvariance, PTL

\* A completed job has the settlement of its own authorization on record
\* (runExecutionPhase before markCompleted).
THEOREM CompletionsArePaid == Spec => []CompletedIsPaid
<1>1. Inv => CompletedIsPaid
  BY DEF Inv, PaidInv
<1> QED
  BY <1>1, CrossChainInvariance, PTL

-----------------------------------------------------------------------------
(* The procurement state machine: what its states need to know.            *)

Delivering == {"saveTransfer", "bridgeLeg", "bridgeStatus", "saveFunding"}
Received == AfterFunding \ {"saveFunding"}

\* Who waits for a delivery has a submitted transfer, who is past it has it on record.
ReceiptOf(p) ==
    LET r == act[p].run IN
    /\ act[p].pc = "markSubmitted" => sent[r] > 0
    /\ act[p].pc \in Delivering => bridgeRow[r] = "SUBMITTED"
    /\ act[p].pc \in Received /\ terms[r].mode = "BRIDGE_THEN_PAY" => checkpoint[r].funded # 0
    /\ act[p].pc # "idle" /\ act[p].local.funded # 0 => checkpoint[r].funded # 0
    /\ act[p].pc = "markAuthorized" => act[p].payment.run = r

RecordsFit(r) ==
    /\ checkpoint[r].transfer => bridgeRow[r] = "SUBMITTED"
    /\ checkpoint[r].payment # NoPayment /\ terms[r].mode = "BRIDGE_THEN_PAY" => checkpoint[r].funded # 0
    /\ purchaseRow[r].payment # NoPayment => purchaseRow[r].payment.run = r

StatesInv ==
    /\ \A p \in Worker : ReceiptOf(p)
    /\ \A r \in Run : RecordsFit(r)
    /\ \A payment \in settled : payment = checkpoint[payment.run].payment

\* What a step leaves of the records: they only grow, and only those of its own run.
Gains(p) ==
    /\ \A s \in Run \ {act[p].run} : checkpoint'[s] = checkpoint[s]
    /\ \A s \in Run : /\ bridgeRow[s] = "SUBMITTED" => bridgeRow'[s] = "SUBMITTED"
                      /\ checkpoint[s].funded # 0 => checkpoint'[s].funded = checkpoint[s].funded
                      /\ checkpoint[s].payment # NoPayment => checkpoint'[s].payment = checkpoint[s].payment
                      /\ sent[s] > 0 => sent'[s] > 0

LEMMA AttemptGains ==
    ASSUME Typed, NEW p \in Worker, Progress(p) \/ Fail(p)
    PROVE  Gains(p)
<1> DEFINE r == act[p].run
<1>r. /\ r \in Run /\ bridgeRow \in [Run -> {"ABSENT", "CLAIMED", "SUBMITTED"}] /\ sent \in [Run -> Nat]
  BY AttemptSteps, RunOfProcess DEF Steps, Typed, RowsTyped, WorldTyped
<1>1. CASE SaveTransfer(p) \/ SaveFunding(p) \/ SavePayment(p)
  <2>1. UNCHANGED <<bridgeRow, sent>>
    BY <1>1 DEF SaveTransfer, SaveFunding, SavePayment, bridgeVars
  <2> QED
    BY <1>1, <2>1, SavedTyped DEF Gains
<1>2. CASE SaveSettlement(p)
  <2>1. UNCHANGED <<bridgeRow, sent>>
    BY <1>2 DEF SaveSettlement, bridgeVars
  <2> QED
    BY <1>2, <2>1, PaidTyped DEF Gains
<1>3. CASE ClaimBridge(p) \/ AbandonBridge(p) \/ MarkSubmitted(p)
  <2>1. UNCHANGED <<checkpoint, sent>>
    BY <1>3 DEF ClaimBridge, AbandonBridge, MarkSubmitted, bridgeVars
  <2>2. \A s \in Run : bridgeRow[s] = "SUBMITTED" => bridgeRow'[s] = "SUBMITTED"
    BY <1>r, <1>3 DEF ClaimBridge, BridgeClaimed, AbandonBridge, MarkSubmitted
  <2> QED
    BY <2>1, <2>2 DEF Gains
<1>4. CASE SendBridge(p)
  <2>1. UNCHANGED <<checkpoint, bridgeRow>> /\ sent' = [sent EXCEPT ![r] = @ + 1]
    BY <1>4 DEF SendBridge, Broadcast, rowVars
  <2>2. \A s \in Run : sent[s] > 0 => sent'[s] > 0
    BY <1>r, <2>1
  <2> QED
    BY <2>1, <2>2 DEF Gains
<1>5. CASE UNCHANGED <<checkpoint, bridgeRow, sent>>
  BY <1>5 DEF Gains
<1> QED
  BY <1>1, <1>2, <1>3, <1>4, <1>5
  DEF Progress, Fail, Load, Requote, BridgeLeg, BridgeStatus, FundedLeg, PaymentLeg, ClaimPurchase,
      Authorize, MarkAuthorized, AbandonPurchase, AuthorizedLeg, Verify, Settle, Unsettled, rowVars, bridgeVars

\* A transfer comes onto the checkpoint only where it is saved.
LEMMA TransferSaved ==
    ASSUME Typed, NEW p \in Worker, Progress(p) \/ Fail(p), ~SaveTransfer(p)
    PROVE  \A s \in Run : checkpoint'[s].transfer => checkpoint[s].transfer
<1> DEFINE r == act[p].run
<1>r. /\ r \in Run /\ checkpoint \in [Run -> CheckpointRow] /\ checkpoint[r] \in CheckpointRow
      /\ act[p].pc # "idle" /\ act[p] \in Process
  BY AttemptSteps, RunOfProcess DEF Steps, Typed, RowsTyped, ProcessesTyped
<1>1. ASSUME NEW patch \in CheckpointRow, patch.transfer = FALSE,
             checkpoint' = [checkpoint EXCEPT ![r] = Coalesce(checkpoint[r], patch)]
      PROVE  \A s \in Run : checkpoint'[s].transfer => checkpoint[s].transfer
  <2>1. Coalesce(checkpoint[r], patch).transfer = (checkpoint[r].transfer \/ patch.transfer)
    BY <1>r, <1>1, CoalesceTyped
  <2> QED
    BY <1>r, <1>1, <2>1
<1>2. CASE SaveFunding(p)
  <2> DEFINE patch == [EmptyCheckpoint EXCEPT !.funded = delivery[r].amount]
  <2>1. delivery[r].amount \in {0} \cup Delivery
    BY <1>r DEF Typed, WorldTyped
  <2>2. patch \in CheckpointRow /\ patch.transfer = FALSE
    BY <2>1 DEF EmptyCheckpoint, CheckpointRow
  <2>3. checkpoint' = [checkpoint EXCEPT ![r] = Coalesce(checkpoint[r], patch)]
    BY <1>2 DEF SaveFunding, Merge, Kept
  <2> HIDE DEF patch
  <2> QED
    BY <1>1, <2>2, <2>3
<1>3. CASE SavePayment(p)
  <2> DEFINE patch == [EmptyCheckpoint EXCEPT !.payment = act[p].payment]
  <2>1. act[p].payment \in Payment \cup {NoPayment}
    BY <1>r, ProcessFields
  <2>2. patch \in CheckpointRow /\ patch.transfer = FALSE
    BY <2>1 DEF EmptyCheckpoint, CheckpointRow
  <2>3. checkpoint' = [checkpoint EXCEPT ![r] = Coalesce(checkpoint[r], patch)]
    BY <1>3 DEF SavePayment, Merge, Kept
  <2> HIDE DEF patch
  <2> QED
    BY <1>1, <2>2, <2>3
<1>4. CASE SaveSettlement(p)
  <2> DEFINE patch == [EmptyCheckpoint EXCEPT !.paid = TRUE]
  <2>1. patch \in CheckpointRow /\ patch.transfer = FALSE
    BY DEF EmptyCheckpoint, CheckpointRow
  <2>2. checkpoint' = [checkpoint EXCEPT ![r] = Coalesce(checkpoint[r], patch)]
    BY <1>4 DEF SaveSettlement
  <2> HIDE DEF patch
  <2> QED
    BY <1>1, <2>1, <2>2
<1>5. CASE UNCHANGED checkpoint
  BY <1>5
<1> QED
  BY <1>2, <1>3, <1>4, <1>5
  DEF Progress, Fail, Load, ClaimBridge, Requote, AbandonBridge, SendBridge, MarkSubmitted, BridgeLeg,
      BridgeStatus, FundedLeg, PaymentLeg, ClaimPurchase, Authorize, MarkAuthorized, AbandonPurchase,
      AuthorizedLeg, Verify, Settle, Unsettled, rowVars

\* An attempt that finds no transfer on the checkpoint does not wait for one.
LEMMA LoadedReceipt ==
    ASSUME Typed, NEW p \in Worker, Load(p), act'[p].pc = "bridgeStatus"
    PROVE  checkpoint[act[p].run].transfer
<1> DEFINE r == act[p].run
           next == [act[p] EXCEPT !.local = checkpoint[r], !.overdue = r \in late,
                                  !.pc = FirstStep(terms[r].mode, checkpoint[r])]
<1>1. r \in Run /\ terms[r].mode \in {"PREFUNDED", "BRIDGE_THEN_PAY"} /\ act[p] \in Process
      /\ checkpoint[r].transfer \in BOOLEAN
  BY RunOfProcess DEF Load, At, Typed, ProcessesTyped, RowsTyped, CheckpointRow
<1>2. act' = [act EXCEPT ![p] = Ends(p, "DEAD_LETTER")] \/ act' = [act EXCEPT ![p] = next]
  BY DEF Load
<1>3. act' = [act EXCEPT ![p] = next]
  BY <1>2, Moving DEF Stops, Outcomes
<1>4. act'[p] = next /\ next.pc = FirstStep(terms[r].mode, checkpoint[r])
  BY <1>1, <1>3 DEF Typed, ProcessesTyped, Process
<1>5. FirstStep(terms[r].mode, checkpoint[r]) = "bridgeStatus"
  BY <1>4
<1> QED
  BY <1>1, <1>5 DEF FirstStep

LEMMA AuthorizeNames ==
    ASSUME Typed, NEW p \in Worker, Authorize(p), act'[p].pc = "markAuthorized"
    PROVE  act'[p].payment.run = act[p].run
<1>1. ASSUME NEW price \in Price, WithinCeiling(price),
             act' = [act EXCEPT ![p].pc = "markAuthorized",
                                ![p].payment = [run |-> act[p].run, signer |-> p,
                                                attempt |-> held[p].attempt, amount |-> price]]
      PROVE  act'[p].payment.run = act[p].run
  <2> DEFINE payment == [run |-> act[p].run, signer |-> p, attempt |-> held[p].attempt, amount |-> price]
  <2>1. payment \in Payment /\ payment.run = act[p].run
    BY <1>1, RunOfProcess DEF Authorize, At, Payment, WithinCeiling
  <2>2. act' = [act EXCEPT ![p].pc = "markAuthorized", ![p].payment = payment]
    BY <1>1
  <2> HIDE DEF payment
  <2> QED
    BY <2>1, <2>2, Signed
<1> QED
  BY <1>1, Moving DEF Authorize, AllowanceRefused, To, Place

LEMMA PaymentSaved ==
    ASSUME Typed, NEW p \in Worker, Progress(p) \/ Fail(p), ~SavePayment(p)
    PROVE  \A s \in Run : checkpoint'[s].payment = checkpoint[s].payment
<1>1. CASE SaveTransfer(p) \/ SaveFunding(p)
  BY <1>1, SavedTyped
<1>2. CASE SaveSettlement(p)
  BY <1>2, PaidTyped
<1>3. CASE UNCHANGED checkpoint
  BY <1>3
<1> QED
  BY <1>1, <1>2, <1>3
  DEF Progress, Fail, Load, ClaimBridge, Requote, AbandonBridge, SendBridge, MarkSubmitted, BridgeLeg,
      BridgeStatus, FundedLeg, PaymentLeg, ClaimPurchase, Authorize, MarkAuthorized, AbandonPurchase,
      AuthorizedLeg, Verify, Settle, Unsettled, rowVars

LEMMA PurchasesNamed ==
    ASSUME Inv, StatesInv, NEW p \in Worker, Progress(p) \/ Fail(p)
    PROVE  \A s \in Run : purchaseRow'[s].payment # NoPayment => purchaseRow'[s].payment.run = s
<1> USE DEF Inv
<1> DEFINE r == act[p].run
<1>r. r \in Run /\ purchaseRow \in [Run -> PurchaseRow]
  BY AttemptSteps, RunOfProcess DEF Steps, Typed, RowsTyped
<1>s. \A s \in Run : purchaseRow[s].payment # NoPayment => purchaseRow[s].payment.run = s
  BY DEF StatesInv, RecordsFit
<1>1. CASE ClaimPurchase(p)
  <2>1. \A s \in Run : purchaseRow'[s].payment \in {NoPayment, purchaseRow[s].payment}
    BY <1>r, <1>1 DEF ClaimPurchase, PurchaseClaimed, NoPurchase
  <2> QED
    BY <1>s, <2>1
<1>2. CASE MarkAuthorized(p)
  <2>1. act[p].payment.run = r
    BY <1>2 DEF MarkAuthorized, At, StatesInv, ReceiptOf
  <2>2. \A s \in Run \ {r} : purchaseRow'[s] = purchaseRow[s]
    BY <1>r, <1>2 DEF MarkAuthorized
  <2>3. purchaseRow'[r].payment \in {purchaseRow[r].payment, act[p].payment}
    BY <1>r, <1>2 DEF MarkAuthorized
  <2> QED
    BY <1>s, <2>1, <2>2, <2>3
<1>3. CASE AbandonPurchase(p)
  <2>1. \A s \in Run : purchaseRow'[s].payment \in {NoPayment, purchaseRow[s].payment}
    BY <1>r, <1>3 DEF AbandonPurchase, Abandoned, NoPurchase
  <2> QED
    BY <1>s, <2>1
<1>4. CASE UNCHANGED purchaseRow
  BY <1>s, <1>4
<1> QED
  BY <1>1, <1>2, <1>3, <1>4
  DEF Progress, Fail, Load, ClaimBridge, Requote, AbandonBridge, SendBridge, MarkSubmitted, SaveTransfer,
      BridgeLeg, BridgeStatus, SaveFunding, FundedLeg, PaymentLeg, Authorize, SavePayment,
      AuthorizedLeg, Verify, Settle, SaveSettlement, Unsettled, rowVars

\* What is settled is the authorization on the checkpoint of the run it names.
LEMMA SettledSaved ==
    ASSUME Inv, StatesInv, NEW p \in Worker, Progress(p) \/ Fail(p)
    PROVE  \A payment \in settled' : payment = checkpoint'[payment.run].payment
<1> USE DEF Inv
<1> DEFINE r == act[p].run
<1>r. r \in Run /\ settled \subseteq Payment /\ act[p].pc # "idle" /\ act[p] \in Process
  BY AttemptSteps, RunOfProcess DEF Steps, Typed, WorldTyped, ProcessesTyped
<1>g. Gains(p)
  BY AttemptGains
<1>1. ASSUME NEW payment \in settled PROVE payment = checkpoint'[payment.run].payment
  <2>1. payment # NoPayment /\ payment.run \in Run
    BY <1>r, PaymentIsNotNone DEF Payment
  <2>2. payment = checkpoint[payment.run].payment
    BY DEF StatesInv
  <2> QED
    BY <1>g, <2>1, <2>2 DEF Gains
<1>2. CASE UNCHANGED settled
  BY <1>1, <1>2
<1>3. CASE Settle(p)
  <2> DEFINE payment == act[p].local.payment
  <2>1. act[p].pc = "settle" /\ UNCHANGED checkpoint
    BY <1>3 DEF Settle, At, rowVars
  <2>2. payment # NoPayment /\ payment \in {NoPayment, checkpoint[r].payment}
    BY <2>1 DEF PurchaseInv, PurchaseOf, Paying
  <2>3. payment = purchaseRow[r].payment
    BY <1>r, <2>2 DEF PurchaseInv, OneAuthorizationPerRun
  <2>4. payment.run = r
    BY <1>r, <2>2, <2>3 DEF StatesInv, RecordsFit
  <2>5. settled' = settled \/ settled' = settled \cup {payment}
    BY <1>3 DEF Settle
  <2> QED
    BY <1>1, <2>1, <2>2, <2>4, <2>5
<1> QED
  BY <1>2, <1>3
  DEF Progress, Fail, Load, ClaimBridge, Requote, AbandonBridge, SendBridge, MarkSubmitted, SaveTransfer,
      BridgeLeg, BridgeStatus, SaveFunding, FundedLeg, PaymentLeg, ClaimPurchase, Authorize,
      MarkAuthorized, AbandonPurchase, SavePayment, AuthorizedLeg, Verify, SaveSettlement, Unsettled,
      targetVars

LEMMA RecordsKept ==
    ASSUME Inv, StatesInv, NEW p \in Worker, Progress(p) \/ Fail(p)
    PROVE  \A s \in Run : RecordsFit(s)'
<1> USE DEF Inv
<1> DEFINE r == act[p].run
<1>r. r \in Run /\ UNCHANGED terms
  BY AttemptSteps, RunOfProcess, AttemptLeavesQueue DEF Steps
<1>g. Gains(p)
  BY AttemptGains
<1>1. \A s \in Run : checkpoint'[s].transfer => bridgeRow'[s] = "SUBMITTED"
  <2>1. CASE SaveTransfer(p)
    <3>1. bridgeRow[r] = "SUBMITTED" /\ UNCHANGED bridgeRow
      BY <2>1 DEF SaveTransfer, At, StatesInv, ReceiptOf, Delivering
    <3> QED
      BY <1>g, <3>1 DEF Gains, StatesInv, RecordsFit
  <2>2. CASE ~SaveTransfer(p)
    BY <1>g, <2>2, TransferSaved DEF Gains, StatesInv, RecordsFit
  <2> QED
    BY <2>1, <2>2
<1>2. ASSUME NEW s \in Run, checkpoint'[s].payment # NoPayment, terms[s].mode = "BRIDGE_THEN_PAY"
      PROVE  checkpoint'[s].funded # 0
  <2>1. checkpoint[s].payment # NoPayment => checkpoint[s].funded # 0
    BY <1>2 DEF StatesInv, RecordsFit
  <2>2. CASE SavePayment(p) /\ s = r
    <3>1. checkpoint[r].funded # 0
      BY <1>2, <2>2 DEF SavePayment, At, StatesInv, ReceiptOf, Received, AfterFunding
    <3> QED
      BY <1>g, <2>2, <3>1 DEF Gains
  <2>3. CASE ~(SavePayment(p) /\ s = r)
    <3>1. checkpoint'[s].payment = checkpoint[s].payment
      BY <1>g, <2>3, PaymentSaved DEF Gains
    <3> QED
      BY <1>2, <1>g, <2>1, <3>1 DEF Gains
  <2> QED
    BY <2>2, <2>3
<1>3. \A s \in Run : purchaseRow'[s].payment # NoPayment => purchaseRow'[s].payment.run = s
  BY PurchasesNamed
<1> QED
  BY <1>r, <1>1, <1>2, <1>3 DEF RecordsFit

LEMMA ReceiptMoves ==
    ASSUME Typed, StatesInv, NEW p \in Worker, Steps(p), Gains(p), UNCHANGED terms,
           act'[p].local.funded \in {0, act[p].local.funded, checkpoint[act[p].run].funded},
           act'[p].pc \in Delivering => \/ act[p].pc \in Delivering
                                        \/ bridgeRow'[act[p].run] = "SUBMITTED",
           act'[p].pc \in Received => \/ act[p].pc \in Received
                                      \/ terms[act[p].run].mode = "PREFUNDED"
                                      \/ checkpoint'[act[p].run].funded # 0,
           act'[p].pc \notin {"markSubmitted", "markAuthorized"}
    PROVE  ReceiptOf(p)'
<1> DEFINE r == act[p].run
<1>r. r \in Run /\ act'[p].run = r /\ act[p].pc # "idle"
  BY RunOfProcess DEF Steps
<1>1. ReceiptOf(p)
  BY DEF StatesInv
<1>2. act'[p].pc \in Delivering => bridgeRow'[r] = "SUBMITTED"
  BY <1>r, <1>1 DEF ReceiptOf, Gains
<1>3. act'[p].pc \in Received /\ terms[r].mode = "BRIDGE_THEN_PAY" => checkpoint'[r].funded # 0
  BY <1>r, <1>1 DEF ReceiptOf, Gains
<1>4. act'[p].local.funded # 0 => checkpoint'[r].funded # 0
  BY <1>r, <1>1 DEF ReceiptOf, Gains
<1> QED
  BY <1>r, <1>2, <1>3, <1>4 DEF ReceiptOf

LEMMA AttemptReceipt ==
    ASSUME Inv, StatesInv, NEW p \in Worker, Progress(p) \/ Fail(p)
    PROVE  ReceiptOf(p)'
<1> USE DEF Inv
<1> DEFINE r == act[p].run
<1>s. Steps(p) /\ Gains(p) /\ UNCHANGED terms
  BY AttemptSteps, AttemptGains, AttemptLeavesQueue
<1>r. /\ r \in Run /\ act'[p].run = r /\ act[p].pc # "idle" /\ ReceiptOf(p)
      /\ bridgeRow \in [Run -> {"ABSENT", "CLAIMED", "SUBMITTED"}] /\ sent \in [Run -> Nat]
  BY <1>s, RunOfProcess DEF Steps, Typed, RowsTyped, WorldTyped, StatesInv
<1>e. EmptyCheckpoint.funded = 0
  BY EmptyHasNoPayment
<1>0. CASE Stops(p)
  BY <1>s, <1>e, <1>0, ReceiptMoves DEF Stops, Delivering, Received, AfterFunding
<1>1. CASE Load(p)
  <2>1. CASE Stops(p)
    BY <1>0, <2>1
  <2>2. CASE act'[p].local = checkpoint[r]
    <3>1. \/ act'[p].pc = "paymentLeg" /\ terms[r].mode = "PREFUNDED"
          \/ act'[p].pc \in {"bridgeStatus", "claimBridge"}
          \/ act'[p].pc = "finish"
      BY <1>1, LoadedMoves DEF Stops
    <3>2. act'[p].pc = "bridgeStatus" => bridgeRow'[r] = "SUBMITTED"
      BY <1>1, <1>r, <1>s, LoadedReceipt DEF StatesInv, RecordsFit, Gains
    <3> QED
      BY <1>s, <2>2, <3>1, <3>2, ReceiptMoves DEF Delivering, Received, AfterFunding
  <2> QED
    BY <1>1, <2>1, <2>2, LoadedMoves
<1>2. CASE ClaimBridge(p) \/ Requote(p) \/ AbandonBridge(p) \/ MarkSubmitted(p) \/ BridgeLeg(p)
  <2>1. \/ Stops(p) \/ To(p, "requote") \/ To(p, "send") \/ To(p, "abandonBridge")
        \/ To(p, "saveTransfer") /\ bridgeRow'[r] = "SUBMITTED"
        \/ To(p, "bridgeStatus") /\ act[p].pc = "bridgeLeg"
    BY <1>r, <1>2, Moving
    DEF ClaimBridge, Requote, AbandonBridge, MarkSubmitted, BridgeLeg, At,
        SourceChainReady, SourceChainRefuses, Place
  <2>2. CASE ~Stops(p)
    BY <1>s, <2>1, <2>2, ReceiptMoves DEF To, Delivering, Received, AfterFunding
  <2> QED
    BY <1>0, <2>2
<1>3. CASE SendBridge(p)
  <2>1. To(p, "markSubmitted") /\ sent' = [sent EXCEPT ![r] = @ + 1]
    BY <1>3, Moving DEF SendBridge, Broadcast, Place
  <2>2. sent'[r] > 0
    BY <1>r, <2>1
  <2>3. act[p].local.funded # 0 => checkpoint'[r].funded # 0
    BY <1>r, <1>s DEF ReceiptOf, Gains
  <2> QED
    BY <1>r, <2>1, <2>2, <2>3 DEF To, ReceiptOf, Delivering, Received, AfterFunding
<1>4. CASE BridgeStatus(p)
  <2>1. /\ act[p].pc = "bridgeStatus" /\ UNCHANGED checkpoint
        /\ \/ Stops(p)
           \/ act[p].local.funded # 0 /\ To(p, "paymentLeg")
           \/ To(p, "saveFunding")
    BY <1>4, Moving DEF BridgeStatus, At, Place, Outcomes, rowVars
  <2>2. CASE To(p, "saveFunding")
    BY <1>s, <2>1, <2>2, ReceiptMoves DEF To, Delivering, Received
  <2>3. CASE act[p].local.funded # 0 /\ To(p, "paymentLeg")
    <3>1. checkpoint'[r].funded # 0
      BY <1>r, <2>1, <2>3 DEF ReceiptOf
    <3> QED
      BY <1>s, <2>3, <3>1, ReceiptMoves DEF To, Delivering
  <2> QED
    BY <1>0, <2>1, <2>2, <2>3
<1>5. CASE SaveTransfer(p) \/ SaveFunding(p) \/ SavePayment(p)
  <2>1. /\ act'[p].pc = IF SaveTransfer(p) THEN "bridgeLeg"
                        ELSE IF SaveFunding(p) THEN "fundedLeg" ELSE "authorizedLeg"
        /\ checkpoint'[r].funded = IF checkpoint[r].funded = 0 /\ SaveFunding(p)
                                   THEN delivery[r].amount ELSE checkpoint[r].funded
        /\ act'[p].local.funded = act[p].local.funded
    BY <1>5, SavedTyped
  <2>2. /\ act[p].pc \in {"saveTransfer", "saveFunding", "savePayment"}
        /\ (act[p].pc = "saveTransfer" <=> SaveTransfer(p))
        /\ (act[p].pc = "saveFunding" <=> SaveFunding(p))
    BY <1>5 DEF SaveTransfer, SaveFunding, SavePayment, At
  <2>3. SaveFunding(p) => checkpoint'[r].funded # 0
    <3>1. SaveFunding(p) => Funded(r)
      BY <2>2 DEF FundingInv, FundingOf
    <3>2. Funded(r) => delivery[r].amount # 0
      BY <1>r, AmountAssumption DEF Funded, Covers, Typed, WorldTyped
    <3> QED
      BY <2>1, <3>1, <3>2
  <2>4. act'[p].local.funded # 0 => checkpoint'[r].funded # 0
    BY <1>r, <1>s, <2>1 DEF ReceiptOf, Gains
  <2>5. act'[p].pc \in Delivering => bridgeRow'[r] = "SUBMITTED"
    BY <1>r, <1>s, <2>1, <2>2 DEF ReceiptOf, Gains, Delivering
  <2>6. act'[p].pc \in Received /\ terms[r].mode = "BRIDGE_THEN_PAY" => checkpoint'[r].funded # 0
    BY <1>r, <1>s, <2>1, <2>2, <2>3 DEF ReceiptOf, Gains, Received, AfterFunding
  <2> QED
    BY <1>r, <1>s, <2>1, <2>4, <2>5, <2>6 DEF ReceiptOf
<1>6. CASE FundedLeg(p) \/ PaymentLeg(p) \/ AuthorizedLeg(p) \/ Verify(p) \/ Settle(p)
  <2>1. To(p, "paymentLeg") \/ To(p, "authorizedLeg") \/ To(p, "claimPurchase") \/ To(p, "verify")
        \/ To(p, "settle") \/ To(p, "saveSettlement") \/ To(p, "execution")
    BY <1>6, Moving, AnsweredMoves DEF FundedLeg, PaymentLeg, AuthorizedLeg, Verify, Settle, Place
  <2>2. act[p].pc \in Received
    BY <1>6 DEF FundedLeg, PaymentLeg, AuthorizedLeg, Verify, Settle, At, Received, AfterFunding
  <2> QED
    BY <1>s, <2>1, <2>2, ReceiptMoves DEF To, Delivering
<1>7. CASE ClaimPurchase(p)
  <2>1. /\ act[p].pc \in Received
        /\ \/ Stops(p)
           \/ act'[p].pc \in {"authorize", "savePayment"} /\ act'[p].local = act[p].local
    BY <1>7, Moving, PurchaseFound DEF ClaimPurchase, At, To, Place, Received, AfterFunding
  <2>2. CASE ~Stops(p)
    BY <1>s, <2>1, <2>2, ReceiptMoves DEF Delivering
  <2> QED
    BY <1>0, <2>2
<1>8. CASE Authorize(p)
  <2>1. /\ act[p].pc \in Received /\ UNCHANGED checkpoint
        /\ act'[p].pc \in {"markAuthorized", "abandonPurchase", "notPayable"}
        /\ act'[p].local = act[p].local
    BY <1>8, AuthorizeMoves DEF Authorize, At, To, Received, AfterFunding, rowVars
  <2>2. act'[p].pc = "markAuthorized" => act'[p].payment.run = r
    BY <1>8, AuthorizeNames
  <2>3. act'[p].local.funded # 0 => checkpoint'[r].funded # 0
    BY <1>r, <2>1 DEF ReceiptOf
  <2>4. terms'[r].mode = "BRIDGE_THEN_PAY" => checkpoint'[r].funded # 0
    BY <1>r, <1>s, <2>1 DEF ReceiptOf
  <2> QED
    BY <1>r, <2>1, <2>2, <2>3, <2>4 DEF ReceiptOf, Delivering
<1>9. CASE MarkAuthorized(p) \/ AbandonPurchase(p)
  <2>1. /\ act[p].pc \in Received
        /\ Stops(p) \/ To(p, "savePayment") \/ To(p, "abandonPurchase")
    BY <1>9, Moving DEF MarkAuthorized, AbandonPurchase, At, Place, Outcomes, Received, AfterFunding
  <2>2. CASE ~Stops(p)
    BY <1>s, <2>1, <2>2, ReceiptMoves DEF To, Delivering
  <2> QED
    BY <1>0, <2>2
<1>10. CASE SaveSettlement(p) \/ Unsettled(p) \/ Fail(p)
  BY <1>0, <1>10, Moving DEF SaveSettlement, Unsettled, Fail, Outcomes
<1> QED
  BY <1>1, <1>2, <1>3, <1>4, <1>5, <1>6, <1>7, <1>8, <1>9, <1>10 DEF Progress

LEMMA AttemptStates ==
    ASSUME Inv, StatesInv, NEW p \in Worker, Progress(p) \/ Fail(p)
    PROVE  StatesInv'
<1>1. ASSUME NEW q \in Worker PROVE ReceiptOf(q)'
  <2>1. CASE q = p
    BY <2>1, AttemptReceipt
  <2>2. CASE q # p
    <3>1. act'[q] = act[q] /\ Gains(p) /\ UNCHANGED terms /\ ReceiptOf(q)
      BY <2>2, AttemptSteps, AttemptGains, AttemptLeavesQueue DEF Inv, Steps, StatesInv
    <3>2. CASE act[q].pc = "idle"
      BY <3>1, <3>2 DEF ReceiptOf, Delivering, Received, AfterFunding
    <3>3. CASE act[q].pc # "idle"
      <4>1. act[q].run \in Run
        BY <3>3, RunOfProcess DEF Inv
      <4> QED
        BY <3>1, <4>1 DEF ReceiptOf, Gains
    <3> QED
      BY <3>2, <3>3
  <2> QED
    BY <2>1, <2>2
<1> QED
  BY <1>1, RecordsKept, SettledSaved DEF StatesInv

LEMMA InitStates == Init => StatesInv
<1> SUFFICES ASSUME Init PROVE StatesInv
  OBVIOUS
<1>1. Idle.pc = "idle" /\ \A w \in Worker : act[w] = Idle
  BY DEF Init, Idle
<1>2. \A w \in Worker : ReceiptOf(w)
  BY <1>1 DEF ReceiptOf, Delivering, Received, AfterFunding
<1>3. \A r \in Run : ~checkpoint[r].transfer /\ checkpoint[r].payment = NoPayment
                     /\ purchaseRow[r].payment = NoPayment
  BY DEF Init, EmptyCheckpoint, NoPurchase
<1>4. \A r \in Run : RecordsFit(r)
  BY <1>3 DEF RecordsFit
<1> QED
  BY <1>2, <1>4 DEF Init, StatesInv

\* Any other step rests or starts a process at most, and touches none of the records.
RestsOnly ==
    /\ UNCHANGED <<terms, checkpoint, bridgeRow, purchaseRow, sent, settled>>
    /\ \A q \in Worker : \/ act'[q] = act[q]
                         \/ act'[q].pc \in {"idle", "load"} /\ act'[q].local = EmptyCheckpoint

LEMMA RestStates == ASSUME StatesInv, RestsOnly PROVE StatesInv'
<1>1. ASSUME NEW q \in Worker PROVE ReceiptOf(q)'
  BY EmptyHasNoPayment DEF RestsOnly, StatesInv, ReceiptOf, Delivering, Received, AfterFunding
<1>2. \A r \in Run : RecordsFit(r)'
  BY DEF RestsOnly, StatesInv, RecordsFit
<1> QED
  BY <1>1, <1>2 DEF RestsOnly, StatesInv

LEMMA RestSteps ==
    ASSUME Inv,
           \/ \E w \in Worker, r \in Run : Poll(w, r)
           \/ \E w \in Worker : Sweep(w) \/ Report(w) \/ ReportRejected(w) \/ Crash(w)
           \/ \E r \in Run : LeaseTimeout(r) \/ BridgeDelivers(r) \/ BridgeWaitElapses(r)
           \/ FacilitatorForgets \/ UNCHANGED vars
    PROVE  RestsOnly
<1>t. act \in [Worker -> Process]
  BY DEF Inv, Typed, ProcessesTyped
<1>1. ASSUME NEW w \in Worker, NEW r \in Run, Poll(w, r) PROVE RestsOnly
  <2> DEFINE next == [Idle EXCEPT !.pc = "load", !.run = r]
  <2>1. next.pc = "load" /\ next.local = EmptyCheckpoint
    BY FreshProcess
  <2>2. act' = [act EXCEPT ![w] = next] /\ UNCHANGED <<terms, rowVars, bridgeVars, targetVars>>
    BY <1>1 DEF Poll
  <2> HIDE DEF next
  <2>3. \A q \in Worker : act'[q] = act[q] \/ act'[q] = next
    BY <1>t, <2>2
  <2> QED
    BY <2>1, <2>2, <2>3 DEF RestsOnly, rowVars, bridgeVars, targetVars
<1>2. ASSUME NEW w \in Worker, Report(w) \/ ReportRejected(w) \/ Crash(w) PROVE RestsOnly
  <2>1. act' = [act EXCEPT ![w] = Idle] /\ UNCHANGED <<terms, rowVars, bridgeVars, targetVars>>
    BY <1>2 DEF Report, ReportRejected, Crash
  <2>2. \A q \in Worker : act'[q] = act[q] \/ act'[q] = Idle
    BY <1>t, <2>1
  <2>3. Idle.pc = "idle" /\ Idle.local = EmptyCheckpoint
    BY DEF Idle
  <2> QED
    BY <2>1, <2>2, <2>3 DEF RestsOnly, rowVars, bridgeVars, targetVars
<1>3. ASSUME UNCHANGED <<terms, rowVars, sent, settled, act>> PROVE RestsOnly
  BY <1>3 DEF RestsOnly, rowVars
<1>4. ASSUME NEW w \in Worker, Sweep(w) PROVE RestsOnly
  BY <1>3, <1>4 DEF Sweep, bridgeVars, targetVars
<1>5. ASSUME NEW r \in Run, LeaseTimeout(r) \/ BridgeDelivers(r) \/ BridgeWaitElapses(r) PROVE RestsOnly
  BY <1>3, <1>5 DEF LeaseTimeout, BridgeDelivers, BridgeWaitElapses, shared, bridgeVars, targetVars
<1>6. CASE FacilitatorForgets \/ UNCHANGED vars
  BY <1>3, <1>6 DEF FacilitatorForgets, vars, bridgeVars, targetVars
<1> QED
  BY <1>1, <1>2, <1>4, <1>5, <1>6

LEMMA StatesStep == ASSUME Inv, StatesInv, [Next]_vars PROVE StatesInv'
<1>1. ASSUME NEW p \in Worker, Progress(p) \/ Fail(p) PROVE StatesInv'
  BY <1>1, AttemptStates
<1>2. ASSUME ~\E p \in Worker : Progress(p) \/ Fail(p) PROVE StatesInv'
  <2>1. RestsOnly
    BY <1>2, RestSteps DEF Next
  <2> QED
    BY <2>1, RestStates
<1> QED
  BY <1>1, <1>2

LEMMA StatesInvariance == Spec => []StatesInv
<1>1. Inv /\ StatesInv /\ [Next]_vars => StatesInv'
  BY StatesStep
<1> QED
  BY <1>1, InitStates, CrossChainInvariance, PTL DEF Spec

-----------------------------------------------------------------------------
(* Where the state machine stands, and how an attempt moves it. *)

\* ProcurementOf, as the tests it comes down to.
StatusOf(r) ==
    IF terms[r].mode = "PREFUNDED" THEN "AWAITING_SOURCE_LOCK"
    ELSE IF checkpoint[r].payment \in settled THEN "TARGET_PAID"
    ELSE IF checkpoint[r].payment # NoPayment THEN "TARGET_PAYMENT_SUBMITTED"
    ELSE IF checkpoint[r].funded # 0 THEN "DESTINATION_FUNDED"
    ELSE IF bridgeRow[r] = "SUBMITTED" THEN "BRIDGING"
    ELSE IF sent[r] > 0 THEN "SOURCE_LOCKED" ELSE "AWAITING_SOURCE_LOCK"

ReceivedOf(r) == IF terms[r].mode = "PREFUNDED" THEN 0 ELSE checkpoint[r].funded

SpentOf(r) ==
    IF terms[r].mode # "PREFUNDED" /\ checkpoint[r].payment \in settled
    THEN checkpoint[r].payment.amount ELSE 0

Position(r) == [status |-> StatusOf(r), received |-> ReceivedOf(r), spent |-> SpentOf(r)]
Positions == [r \in Run |-> ProcurementOf(r)]

PositionsFit == \A r \in Run : ProcurementOf(r) = Position(r)

LEMMA PositionIs == Typed => PositionsFit
<1> SUFFICES ASSUME Typed, NEW r \in Run PROVE ProcurementOf(r) = Position(r)
  BY DEF PositionsFit
<1>1. NoPayment \notin settled
  BY PaymentIsNotNone DEF Typed, WorldTyped
<1>2. CASE terms[r].mode = "PREFUNDED"
  BY <1>2 DEF ProcurementOf, Position, StatusOf, ReceivedOf, SpentOf
<1>3. CASE terms[r].mode # "PREFUNDED"
  <2>1. CASE checkpoint[r].payment \in settled
    BY <1>1, <1>3, <2>1 DEF ProcurementOf, Position, StatusOf, ReceivedOf, SpentOf
  <2>2. CASE checkpoint[r].payment \notin settled /\ checkpoint[r].payment # NoPayment
    BY <1>3, <2>2 DEF ProcurementOf, Position, StatusOf, ReceivedOf, SpentOf
  <2>3. CASE checkpoint[r].payment = NoPayment /\ checkpoint[r].funded # 0
    BY <1>1, <1>3, <2>3 DEF ProcurementOf, Position, StatusOf, ReceivedOf, SpentOf
  <2>4. CASE /\ checkpoint[r].payment = NoPayment /\ checkpoint[r].funded = 0
             /\ bridgeRow[r] = "SUBMITTED"
    BY <1>1, <1>3, <2>4 DEF ProcurementOf, Position, StatusOf, ReceivedOf, SpentOf
  <2>5. CASE /\ checkpoint[r].payment = NoPayment /\ checkpoint[r].funded = 0
             /\ bridgeRow[r] # "SUBMITTED"
    BY <1>1, <1>3, <2>5 DEF ProcurementOf, Position, StatusOf, ReceivedOf, SpentOf
  <2> QED
    BY <2>1, <2>2, <2>3, <2>4, <2>5
<1> QED
  BY <1>2, <1>3

LEMMA PositionWillBe == Typed' => PositionsFit'
BY PositionIs, PTL

\* The moves of the state machine that an attempt makes for a run.
Follows(r, from, to) ==
    /\ StatusOf(r) = from /\ StatusOf(r)' = to
    /\ from = "BRIDGING" =>
         /\ ReceivedOf(r)' \in Delivery /\ ReceivedOf(r)' >= Ceiling
         /\ SpentOf(r)' = SpentOf(r)
    /\ from = "TARGET_PAYMENT_SUBMITTED" =>
         /\ SpentOf(r)' \in Price \cap 1..Ceiling
         /\ ReceivedOf(r)' = ReceivedOf(r)
    /\ from \notin {"BRIDGING", "TARGET_PAYMENT_SUBMITTED"} =>
         ReceivedOf(r)' = ReceivedOf(r) /\ SpentOf(r)' = SpentOf(r)

Advances(r) ==
    \/ Follows(r, "AWAITING_SOURCE_LOCK", "SOURCE_LOCKED")
    \/ Follows(r, "SOURCE_LOCKED", "BRIDGING")
    \/ Follows(r, "BRIDGING", "DESTINATION_FUNDED")
    \/ Follows(r, "DESTINATION_FUNDED", "TARGET_PAYMENT_SUBMITTED")
    \/ Follows(r, "TARGET_PAYMENT_SUBMITTED", "TARGET_PAID")

Stands(r) == /\ StatusOf(r)' = StatusOf(r) /\ ReceivedOf(r)' = ReceivedOf(r) /\ SpentOf(r)' = SpentOf(r)

LEMMA AdvancesIsAMove ==
    ASSUME Typed, Typed', NEW r \in Run, Advances(r), \A s \in Run \ {r} : Stands(s)
    PROVE  States!Next
<1> DEFINE books == [s \in Run |-> ProcurementOf(s)]
           after == [s \in Run |-> ProcurementOf(s)']
<1>1. \A s \in Run : books[s] = Position(s)
  BY PositionIs DEF PositionsFit
<1>2. \A s \in Run : after[s] = Position(s)'
  BY PositionWillBe DEF PositionsFit
<1>3. \A s \in Run \ {r} : after[s] = books[s]
  BY <1>1, <1>2 DEF Position, Stands
<1>4. after = [books EXCEPT ![r] = after[r]]
  BY <1>3
<1>5. /\ books[r] = [status |-> StatusOf(r), received |-> ReceivedOf(r), spent |-> SpentOf(r)]
      /\ after[r] = [status |-> StatusOf(r)', received |-> ReceivedOf(r)', spent |-> SpentOf(r)']
  BY <1>1, <1>2 DEF Position
<1> HIDE DEF books, after
<1>6. ASSUME NEW from, NEW to, Follows(r, from, to), from \notin {"BRIDGING", "TARGET_PAYMENT_SUBMITTED"}
      PROVE  States!Moves(r, from, to)
  <2>1. books[r].status = from
    BY <1>5, <1>6 DEF Follows
  <2>2. after[r] = [books[r] EXCEPT !.status = to]
    BY <1>5, <1>6 DEF Follows
  <2>3. after = [books EXCEPT ![r].status = to]
    BY <1>4, <2>2
  <2> QED
    BY <2>1, <2>3 DEF States!Moves, books, after
<1>7. CASE Follows(r, "BRIDGING", "DESTINATION_FUNDED")
  <2>a. PICK amount : amount = ReceivedOf(r)'
    OBVIOUS
  <2>1. books[r].status = "BRIDGING" /\ amount >= Ceiling /\ amount \in Price \cup Delivery
    BY <1>5, <1>7, <2>a DEF Follows
  <2>b. after[r] = [status |-> "DESTINATION_FUNDED", received |-> amount, spent |-> SpentOf(r)]
    BY <1>5, <1>7, <2>a DEF Follows
  <2>c. PICK moved : moved = [books[r] EXCEPT !.status = "DESTINATION_FUNDED"]
    OBVIOUS
  <2>d. moved = [status |-> "DESTINATION_FUNDED", received |-> ReceivedOf(r), spent |-> SpentOf(r)]
    BY <1>5, <2>c
  <2>e. after[r] = [moved EXCEPT !.received = amount]
    BY <2>b, <2>d
  <2>2. after[r] = [books[r] EXCEPT !.status = "DESTINATION_FUNDED", !.received = amount]
    BY <2>c, <2>e
  <2>3. after = [books EXCEPT ![r].status = "DESTINATION_FUNDED", ![r].received = amount]
    BY <1>4, <2>2
  <2>4. States!DestinationFundsReceived(r, amount)
    BY <2>1, <2>3 DEF States!DestinationFundsReceived, books, after
  <2> QED
    BY <2>1, <2>4 DEF States!Next
<1>8. CASE Follows(r, "TARGET_PAYMENT_SUBMITTED", "TARGET_PAID")
  <2>a. PICK amount : amount = SpentOf(r)'
    OBVIOUS
  <2>1. books[r].status = "TARGET_PAYMENT_SUBMITTED" /\ amount \in 1..Ceiling /\ amount \in Price \cup Delivery
    BY <1>5, <1>8, <2>a DEF Follows
  <2>b. after[r] = [status |-> "TARGET_PAID", received |-> ReceivedOf(r), spent |-> amount]
    BY <1>5, <1>8, <2>a DEF Follows
  <2>c. PICK moved : moved = [books[r] EXCEPT !.status = "TARGET_PAID"]
    OBVIOUS
  <2>d. moved = [status |-> "TARGET_PAID", received |-> ReceivedOf(r), spent |-> SpentOf(r)]
    BY <1>5, <2>c
  <2>e. after[r] = [moved EXCEPT !.spent = amount]
    BY <2>b, <2>d
  <2>2. after[r] = [books[r] EXCEPT !.status = "TARGET_PAID", !.spent = amount]
    BY <2>c, <2>e
  <2>3. after = [books EXCEPT ![r].status = "TARGET_PAID", ![r].spent = amount]
    BY <1>4, <2>2
  <2>4. States!TargetPaymentConfirmed(r, amount)
    BY <2>1, <2>3 DEF States!TargetPaymentConfirmed, books, after
  <2> QED
    BY <2>1, <2>4 DEF States!Next
<1>9. CASE Follows(r, "AWAITING_SOURCE_LOCK", "SOURCE_LOCKED")
  BY <1>6, <1>9 DEF States!Next, States!SourceFundsLocked
<1>10. CASE Follows(r, "SOURCE_LOCKED", "BRIDGING")
  BY <1>6, <1>10 DEF States!Next, States!BridgeSubmitted
<1>11. CASE Follows(r, "DESTINATION_FUNDED", "TARGET_PAYMENT_SUBMITTED")
  BY <1>6, <1>11 DEF States!Next, States!TargetPaymentCreated
<1> QED
  BY <1>7, <1>8, <1>9, <1>10, <1>11 DEF Advances

LEMMA StandsIsAStutter ==
    ASSUME Typed, Typed', \A s \in Run : Stands(s)
    PROVE  UNCHANGED Positions
<1>1. \A s \in Run : ProcurementOf(s)' = ProcurementOf(s)
  BY PositionIs, PositionWillBe DEF PositionsFit, Position, Stands
<1> QED
  BY <1>1 DEF Positions

LEMMA SettledGrows ==
    ASSUME Inv, StatesInv, NEW p \in Worker, Progress(p) \/ Fail(p)
    PROVE  LET r == act[p].run
               payment == act[p].local.payment
           IN  \/ UNCHANGED settled
               \/ /\ settled' = settled \cup {payment} /\ payment \notin settled
                  /\ payment = checkpoint[r].payment /\ payment # NoPayment /\ payment.run = r
                  /\ UNCHANGED <<checkpoint, bridgeRow, sent>>
<1> USE DEF Inv
<1> DEFINE r == act[p].run
           payment == act[p].local.payment
<1>r. r \in Run /\ act[p].pc # "idle"
  BY AttemptSteps, RunOfProcess DEF Steps
<1>1. CASE UNCHANGED settled
  BY <1>1
<1>2. CASE Settle(p)
  <2>1. act[p].pc = "settle" /\ UNCHANGED <<checkpoint, bridgeRow, sent>>
    BY <1>2 DEF Settle, At, rowVars, bridgeVars
  <2>2. payment # NoPayment /\ payment = checkpoint[r].payment
    BY <2>1 DEF PurchaseInv, PurchaseOf, Paying
  <2>3. payment = purchaseRow[r].payment
    BY <1>r, <2>2 DEF PurchaseInv, OneAuthorizationPerRun
  <2>4. payment.run = r
    BY <1>r, <2>2, <2>3 DEF StatesInv, RecordsFit
  <2>5. UNCHANGED settled \/ (settled' = settled \cup {payment} /\ payment \notin settled)
    BY <1>2 DEF Settle
  <2> QED
    BY <2>1, <2>2, <2>4, <2>5
<1> QED
  BY <1>1, <1>2
  DEF Progress, Fail, Load, ClaimBridge, Requote, AbandonBridge, SendBridge, MarkSubmitted, SaveTransfer,
      BridgeLeg, BridgeStatus, SaveFunding, FundedLeg, PaymentLeg, ClaimPurchase, Authorize,
      MarkAuthorized, AbandonPurchase, SavePayment, AuthorizedLeg, Verify, SaveSettlement, Unsettled,
      targetVars

\* The state machine of a run reads no more than this.
LEMMA Standing ==
    ASSUME NEW r \in Run, UNCHANGED terms,
           checkpoint'[r].payment = checkpoint[r].payment, checkpoint'[r].funded = checkpoint[r].funded,
           (checkpoint[r].payment \in settled') <=> (checkpoint[r].payment \in settled),
           (bridgeRow'[r] = "SUBMITTED") <=> (bridgeRow[r] = "SUBMITTED"), sent'[r] = sent[r]
    PROVE  Stands(r)
BY DEF Stands, StatusOf, ReceivedOf, SpentOf

LEMMA OthersStand ==
    ASSUME Inv, StatesInv, NEW p \in Worker, Progress(p) \/ Fail(p), NEW s \in Run \ {act[p].run}
    PROVE  Stands(s)
<1> USE DEF Inv
<1> DEFINE r == act[p].run
<1>r. r \in Run /\ Gains(p) /\ UNCHANGED terms
  BY AttemptSteps, RunOfProcess, AttemptGains, AttemptLeavesQueue DEF Steps
<1>t. bridgeRow \in [Run -> {"ABSENT", "CLAIMED", "SUBMITTED"}] /\ sent \in [Run -> Nat]
  BY DEF Typed, RowsTyped, WorldTyped
<1>1. checkpoint'[s] = checkpoint[s]
  BY <1>r DEF Gains
<1>2. bridgeRow'[s] = bridgeRow[s]
  <2>1. CASE ClaimBridge(p) \/ AbandonBridge(p) \/ MarkSubmitted(p)
    BY <1>t, <2>1 DEF ClaimBridge, BridgeClaimed, AbandonBridge, MarkSubmitted
  <2>2. CASE UNCHANGED bridgeRow
    BY <2>2
  <2> QED
    BY <2>1, <2>2
    DEF Progress, Fail, Load, Requote, SendBridge, SaveTransfer, BridgeLeg, BridgeStatus, SaveFunding,
        FundedLeg, PaymentLeg, ClaimPurchase, Authorize, MarkAuthorized, AbandonPurchase, SavePayment,
        AuthorizedLeg, Verify, Settle, SaveSettlement, Unsettled, rowVars
<1>3. sent'[s] = sent[s]
  <2>1. CASE SendBridge(p)
    BY <1>t, <2>1 DEF SendBridge, Broadcast
  <2>2. CASE UNCHANGED sent
    BY <2>2
  <2> QED
    BY <2>1, <2>2
    DEF Progress, Fail, Load, ClaimBridge, Requote, AbandonBridge, MarkSubmitted, SaveTransfer,
        BridgeLeg, BridgeStatus, SaveFunding, FundedLeg, PaymentLeg, ClaimPurchase, Authorize,
        MarkAuthorized, AbandonPurchase, SavePayment, AuthorizedLeg, Verify, Settle, SaveSettlement,
        Unsettled, bridgeVars
<1>4. (checkpoint[s].payment \in settled') <=> (checkpoint[s].payment \in settled)
  <2>1. checkpoint[s].payment # NoPayment => checkpoint[s].payment.run = s
    BY DEF PurchaseInv, OneAuthorizationPerRun, StatesInv, RecordsFit
  <2> QED
    BY <2>1, SettledGrows
<1> QED
  BY <1>r, <1>1, <1>2, <1>3, <1>4, Standing

LEMMA SendMoves ==
    ASSUME Inv, StatesInv, NEW p \in Worker, SendBridge(p) \/ MarkSubmitted(p),
           NEW r \in Run, r = act[p].run
    PROVE  Stands(r) \/ Advances(r)
<1> USE DEF Inv
<1>r. r \in Run /\ UNCHANGED terms /\ ReceiptOf(p)
      /\ bridgeRow \in [Run -> {"ABSENT", "CLAIMED", "SUBMITTED"}] /\ sent \in [Run -> Nat]
  BY AttemptSteps, RunOfProcess, AttemptLeavesQueue DEF Steps, Progress, Typed, RowsTyped, WorldTyped, StatesInv
<1>n. NoPayment \notin settled
  BY PaymentIsNotNone DEF Typed, WorldTyped
<1>1. CASE SendBridge(p)
  <2>1. UNCHANGED <<checkpoint, bridgeRow, settled>> /\ sent'[r] > 0 /\ sent[r] = 0
    BY <1>r, <1>1 DEF SendBridge, Broadcast, At, BridgeInv, HoldsBridge, rowVars, targetVars
  <2>2. terms[r].mode # "PREFUNDED"
    BY <1>1 DEF SendBridge, At, BridgeInv, HoldsBridge
  <2>3. CASE checkpoint[r].payment = NoPayment /\ checkpoint[r].funded = 0 /\ bridgeRow[r] # "SUBMITTED"
    <3>1. StatusOf(r) = "AWAITING_SOURCE_LOCK"
      BY <1>n, <2>1, <2>2, <2>3 DEF StatusOf
    <3>2. StatusOf(r)' = "SOURCE_LOCKED"
      BY <1>r, <1>n, <2>1, <2>2, <2>3 DEF StatusOf
    <3>3. ReceivedOf(r)' = ReceivedOf(r) /\ SpentOf(r)' = SpentOf(r)
      BY <1>r, <2>1 DEF ReceivedOf, SpentOf
    <3> QED
      BY <3>1, <3>2, <3>3 DEF Advances, Follows
  <2>4. CASE ~(checkpoint[r].payment = NoPayment /\ checkpoint[r].funded = 0 /\ bridgeRow[r] # "SUBMITTED")
    BY <1>r, <2>1, <2>4 DEF Stands, StatusOf, ReceivedOf, SpentOf
  <2> QED
    BY <2>3, <2>4
<1>2. CASE MarkSubmitted(p)
  <2>1. UNCHANGED <<checkpoint, sent, settled>> /\ bridgeRow'[r] = "SUBMITTED" /\ sent[r] > 0
    BY <1>r, <1>2 DEF MarkSubmitted, At, ReceiptOf, bridgeVars, targetVars
  <2>2. terms[r].mode # "PREFUNDED"
    BY <1>2 DEF MarkSubmitted, At, BridgeInv, HoldsBridge
  <2>3. CASE checkpoint[r].payment = NoPayment /\ checkpoint[r].funded = 0 /\ bridgeRow[r] # "SUBMITTED"
    <3>1. StatusOf(r) = "SOURCE_LOCKED"
      BY <1>n, <2>1, <2>2, <2>3 DEF StatusOf
    <3>2. StatusOf(r)' = "BRIDGING"
      BY <1>r, <1>n, <2>1, <2>2, <2>3 DEF StatusOf
    <3>3. ReceivedOf(r)' = ReceivedOf(r) /\ SpentOf(r)' = SpentOf(r)
      BY <1>r, <2>1 DEF ReceivedOf, SpentOf
    <3> QED
      BY <3>1, <3>2, <3>3 DEF Advances, Follows
  <2>4. CASE ~(checkpoint[r].payment = NoPayment /\ checkpoint[r].funded = 0 /\ bridgeRow[r] # "SUBMITTED")
    BY <1>r, <2>1, <2>4 DEF Stands, StatusOf, ReceivedOf, SpentOf
  <2> QED
    BY <2>3, <2>4
<1> QED
  BY <1>1, <1>2

LEMMA FundingMoves ==
    ASSUME Inv, StatesInv, NEW p \in Worker, SaveFunding(p), NEW r \in Run, r = act[p].run
    PROVE  Stands(r) \/ Advances(r)
<1> USE DEF Inv
<1>r. UNCHANGED terms /\ act[p].pc = "saveFunding" /\ UNCHANGED <<bridgeRow, sent, settled>>
  BY AttemptLeavesQueue DEF Progress, SaveFunding, At, bridgeVars, targetVars
<1>n. NoPayment \notin settled
  BY PaymentIsNotNone DEF Typed, WorldTyped
<1>1. /\ checkpoint'[r].funded = IF checkpoint[r].funded = 0 THEN delivery[r].amount
                                 ELSE checkpoint[r].funded
      /\ checkpoint'[r].payment = checkpoint[r].payment
  <2>1. ~SavePayment(p)
    BY <1>r DEF SavePayment, At
  <2> QED
    BY <2>1, SavedTyped
<1>2. delivery[r].amount >= Ceiling /\ delivery[r].amount \in Delivery
  <2>1. Funded(r)
    BY <1>r DEF FundingInv, FundingOf
  <2>2. delivery[r].amount >= Ceiling /\ delivery[r].amount \in {0} \cup Delivery
    BY <2>1 DEF Funded, Covers, Typed, WorldTyped
  <2> QED
    BY <2>2, AmountAssumption
<1>3. bridgeRow[r] = "SUBMITTED"
  BY <1>r DEF StatesInv, ReceiptOf, Delivering
<1>4. CASE terms[r].mode = "PREFUNDED" \/ checkpoint[r].funded # 0
  BY <1>r, <1>1, <1>4 DEF Stands, StatusOf, ReceivedOf, SpentOf
<1>5. CASE terms[r].mode # "PREFUNDED" /\ checkpoint[r].funded = 0
  <2>1. terms[r].mode = "BRIDGE_THEN_PAY"
    BY <1>5 DEF Typed, ProcessesTyped
  <2>2. checkpoint[r].payment = NoPayment
    BY <1>5, <2>1 DEF StatesInv, RecordsFit
  <2>3. checkpoint'[r].funded = delivery[r].amount /\ delivery[r].amount # 0
    BY <1>1, <1>2, <1>5, AmountAssumption
  <2>4. StatusOf(r) = "BRIDGING"
    BY <1>n, <1>3, <1>5, <2>2 DEF StatusOf
  <2>5. StatusOf(r)' = "DESTINATION_FUNDED"
    BY <1>r, <1>n, <1>1, <1>5, <2>2, <2>3 DEF StatusOf
  <2>6. ReceivedOf(r)' = delivery[r].amount
    BY <1>r, <1>5, <2>3 DEF ReceivedOf
  <2>7. SpentOf(r)' = SpentOf(r)
    BY <1>r, <1>1 DEF SpentOf
  <2> QED
    BY <1>2, <2>4, <2>5, <2>6, <2>7 DEF Advances, Follows
<1> QED
  BY <1>4, <1>5

LEMMA PaymentMoves ==
    ASSUME Inv, StatesInv, NEW p \in Worker, SavePayment(p), NEW r \in Run, r = act[p].run
    PROVE  Stands(r) \/ Advances(r)
<1> USE DEF Inv
<1>r. UNCHANGED terms /\ act[p].pc = "savePayment" /\ UNCHANGED <<bridgeRow, sent, settled>>
  BY AttemptLeavesQueue DEF Progress, SavePayment, At, bridgeVars, targetVars
<1>n. NoPayment \notin settled
  BY PaymentIsNotNone DEF Typed, WorldTyped
<1>1. /\ checkpoint'[r].funded = checkpoint[r].funded
      /\ checkpoint'[r].payment = IF checkpoint[r].payment = NoPayment THEN act[p].payment
                                  ELSE checkpoint[r].payment
  <2>1. ~SaveFunding(p)
    BY <1>r DEF SaveFunding, At
  <2> QED
    BY <2>1, SavedTyped
<1>2. act[p].payment # NoPayment /\ act[p].payment.run = r
  <2>1. act[p].payment = purchaseRow[r].payment /\ act[p].payment # NoPayment
    BY <1>r DEF PurchaseInv, PurchaseOf
  <2> QED
    BY <2>1 DEF StatesInv, RecordsFit
<1>3. CASE terms[r].mode = "PREFUNDED" \/ checkpoint[r].payment # NoPayment
  BY <1>r, <1>1, <1>3 DEF Stands, StatusOf, ReceivedOf, SpentOf
<1>4. CASE terms[r].mode # "PREFUNDED" /\ checkpoint[r].payment = NoPayment
  <2>1. checkpoint[r].funded # 0
    <3>1. terms[r].mode = "BRIDGE_THEN_PAY"
      BY <1>4 DEF Typed, ProcessesTyped
    <3>2. act[p].pc \in Received
      BY <1>r DEF Received, AfterFunding
    <3> QED
      BY <3>1, <3>2 DEF StatesInv, ReceiptOf
  <2>2. act[p].payment \notin settled
    BY <1>2, <1>4 DEF StatesInv
  <2>3. StatusOf(r) = "DESTINATION_FUNDED"
    BY <1>n, <1>4, <2>1 DEF StatusOf
  <2>4. StatusOf(r)' = "TARGET_PAYMENT_SUBMITTED"
    BY <1>r, <1>1, <1>2, <1>4, <2>2 DEF StatusOf
  <2>5. ReceivedOf(r)' = ReceivedOf(r)
    BY <1>r, <1>1 DEF ReceivedOf
  <2>6. SpentOf(r)' = 0 /\ SpentOf(r) = 0
    BY <1>r, <1>n, <1>1, <1>4, <2>2 DEF SpentOf
  <2> QED
    BY <2>3, <2>4, <2>5, <2>6 DEF Advances, Follows
<1> QED
  BY <1>3, <1>4

LEMMA SettlementMoves ==
    ASSUME Inv, StatesInv, NEW p \in Worker, Progress(p) \/ Fail(p), settled' # settled,
           NEW r \in Run, r = act[p].run
    PROVE  Stands(r) \/ Advances(r)
<1> USE DEF Inv
<1> DEFINE payment == act[p].local.payment
<1>1. /\ settled' = settled \cup {payment} /\ payment \notin settled
      /\ payment = checkpoint[r].payment /\ payment # NoPayment
      /\ UNCHANGED <<checkpoint, bridgeRow, sent, terms>>
  BY SettledGrows, AttemptLeavesQueue
<1>2. payment.amount \in Price \cap 1..Ceiling
  <2>1. payment \in Payment
    BY <1>1 DEF Typed, RowsTyped, CheckpointRow
  <2>2. payment.amount \in Price /\ payment.amount <= Ceiling
    BY <2>1 DEF Payment
  <2>3. PICK amount \in Price : amount = payment.amount /\ amount <= Ceiling
    BY <2>2
  <2>4. amount \in Nat \ {0} /\ Ceiling \in Nat
    BY AmountAssumption
  <2>5. amount \in 1..Ceiling
    BY <2>3, <2>4
  <2> QED
    BY <2>3, <2>5
<1>3. checkpoint[r].payment \in settled' /\ checkpoint[r].payment \notin settled
      /\ checkpoint[r].payment # NoPayment /\ checkpoint[r].payment.amount \in Price \cap 1..Ceiling
  BY <1>1, <1>2
<1> HIDE DEF payment
<1>4. CASE terms[r].mode = "PREFUNDED"
  BY <1>1, <1>4 DEF Stands, StatusOf, ReceivedOf, SpentOf
<1>5. CASE terms[r].mode # "PREFUNDED"
  <2>1. StatusOf(r) = "TARGET_PAYMENT_SUBMITTED"
    BY <1>3, <1>5 DEF StatusOf
  <2>2. StatusOf(r)' = "TARGET_PAID"
    BY <1>1, <1>3, <1>5 DEF StatusOf
  <2>3. ReceivedOf(r)' = ReceivedOf(r)
    BY <1>1 DEF ReceivedOf
  <2>4. SpentOf(r)' = checkpoint[r].payment.amount
    BY <1>1, <1>3, <1>5 DEF SpentOf
  <2> QED
    BY <1>3, <2>1, <2>2, <2>3, <2>4 DEF Advances, Follows
<1> QED
  BY <1>4, <1>5

LEMMA AttemptMoves ==
    ASSUME Inv, StatesInv, NEW p \in Worker, Progress(p) \/ Fail(p), NEW r \in Run, r = act[p].run
    PROVE  Stands(r) \/ Advances(r)
<1>t. Typed /\ UNCHANGED terms
  BY AttemptLeavesQueue DEF Inv
<1>1. CASE SendBridge(p) \/ MarkSubmitted(p)
  BY <1>1, SendMoves
<1>2. CASE SaveFunding(p)
  BY <1>2, FundingMoves
<1>3. CASE SavePayment(p)
  BY <1>3, PaymentMoves
<1>4. CASE settled' # settled
  BY <1>4, SettlementMoves
<1>5. CASE SaveTransfer(p) \/ SaveSettlement(p)
  <2>1. UNCHANGED <<bridgeRow, sent, settled>>
    BY <1>5 DEF SaveTransfer, SaveSettlement, bridgeVars, targetVars
  <2>2. checkpoint'[r].payment = checkpoint[r].payment /\ checkpoint'[r].funded = checkpoint[r].funded
    <3>1. CASE SaveTransfer(p)
      <4>1. ~SaveFunding(p) /\ ~SavePayment(p)
        BY <3>1 DEF SaveTransfer, SaveFunding, SavePayment, At
      <4> QED
        BY <1>t, <3>1, <4>1, SavedTyped
    <3>2. CASE SaveSettlement(p)
      BY <1>t, <3>2, PaidTyped
    <3> QED
      BY <1>5, <3>1, <3>2
  <2> QED
    BY <1>t, <2>1, <2>2, Standing
<1>6. CASE (ClaimBridge(p) \/ AbandonBridge(p)) /\ settled' = settled
  <2>1. UNCHANGED <<checkpoint, sent>>
    BY <1>6 DEF ClaimBridge, AbandonBridge, bridgeVars
  <2>2. (bridgeRow'[r] = "SUBMITTED") <=> (bridgeRow[r] = "SUBMITTED")
    BY <1>t, <1>6 DEF ClaimBridge, BridgeClaimed, AbandonBridge, Typed, RowsTyped
  <2> QED
    BY <1>t, <1>6, <2>1, <2>2, Standing
<1>7. CASE UNCHANGED <<checkpoint, bridgeRow, sent, settled>>
  BY <1>t, <1>7, Standing
<1>8. \/ SendBridge(p) \/ MarkSubmitted(p) \/ SaveFunding(p) \/ SavePayment(p) \/ SaveTransfer(p)
      \/ SaveSettlement(p) \/ ClaimBridge(p) \/ AbandonBridge(p)
      \/ UNCHANGED <<checkpoint, bridgeRow, sent>>
  BY DEF Progress, Fail, Load, Requote, BridgeLeg, BridgeStatus, FundedLeg, PaymentLeg, ClaimPurchase,
         Authorize, MarkAuthorized, AbandonPurchase, AuthorizedLeg, Verify, Settle, Unsettled,
         rowVars, bridgeVars
<1> QED
  BY <1>1, <1>2, <1>3, <1>4, <1>5, <1>6, <1>7, <1>8

\* Whatever crashes, retries and overlapping workers do, the money of every bridged run moves as
\* transitionCrossChainProcurement orders it: locked, bridged, funded with at least the ceiling,
\* paid at most once with at most that, and never back (runCrossChainProcurementPhase).
THEOREM CrossChainImplementsStates == Spec => ImplementsStates
<1>1. Init => States!Init
  <2> SUFFICES ASSUME Init PROVE States!Init
    OBVIOUS
  <2>1. Typed
    BY InitInv DEF Inv
  <2>2. ASSUME NEW r \in Run
        PROVE  ProcurementOf(r) = [status |-> "AWAITING_SOURCE_LOCK", received |-> 0, spent |-> 0]
    <3>1. /\ checkpoint[r].payment = NoPayment /\ checkpoint[r].funded = 0 /\ settled = {}
          /\ bridgeRow[r] = "ABSENT" /\ ~(sent[r] > 0)
      BY EmptyHasNoPayment DEF Init
    <3>2. StatusOf(r) = "AWAITING_SOURCE_LOCK" /\ ReceivedOf(r) = 0 /\ SpentOf(r) = 0
      BY <3>1 DEF StatusOf, ReceivedOf, SpentOf
    <3> QED
      BY <2>1, <3>2, PositionIs DEF PositionsFit, Position
  <2> QED
    BY <2>2 DEF States!Init
<1>2. ASSUME Inv, Inv', StatesInv, [Next]_vars PROVE States!Next \/ UNCHANGED Positions
  <2>0. Typed /\ Typed'
    BY <1>2 DEF Inv
  <2>1. ASSUME NEW p \in Worker, Progress(p) \/ Fail(p) PROVE States!Next \/ UNCHANGED Positions
    <3>1. PICK r \in Run : r = act[p].run
      BY <1>2, <2>1, AttemptSteps, RunOfProcess DEF Inv, Steps
    <3>2. \A s \in Run \ {r} : Stands(s)
      BY <1>2, <2>1, <3>1, OthersStand
    <3>3. Stands(r) \/ Advances(r)
      BY <1>2, <2>1, <3>1, AttemptMoves
    <3>4. CASE Stands(r)
      BY <2>0, <3>2, <3>4, StandsIsAStutter
    <3>5. CASE Advances(r)
      BY <2>0, <3>2, <3>5, AdvancesIsAMove
    <3> QED
      BY <3>3, <3>4, <3>5
  <2>2. ASSUME ~\E p \in Worker : Progress(p) \/ Fail(p) PROVE UNCHANGED Positions
    <3>1. UNCHANGED <<terms, checkpoint, bridgeRow, sent, settled>>
      BY <1>2, <2>2, RestSteps DEF Next, RestsOnly
    <3>2. \A s \in Run : Stands(s)
      BY <3>1, Standing
    <3> QED
      BY <2>0, <3>2, StandsIsAStutter
  <2> QED
    BY <2>1, <2>2
<1> QED
  BY <1>1, <1>2, CrossChainInvariance, StatesInvariance, PTL
  DEF Spec, ImplementsStates, States!Spec, Positions

-----------------------------------------------------------------------------
(* The queue, as the cross-chain pipeline uses it. *)

LEMMA StepUsesQueue == ASSUME Inv, [Next]_vars PROVE [QueueNext]_queueVars
<1>1. ASSUME NEW w \in Worker, NEW r \in Run, Poll(w, r) PROVE QueueNext
  BY <1>1 DEF Poll, Run, QueueNext
<1>2. ASSUME NEW w \in Worker, Report(w) PROVE QueueNext
  <2>1. /\ act[w].outcome \in {"ACK", "RETRY", "WAIT", "DEAD_LETTER"}
        /\ act[w].outcome = "RETRY" => held[w].attempt < MaxAttempts
    BY <1>2 DEF Inv, Report, At, PaidInv, PaidOf, Typed, ProcessesTyped, Process, Outcomes
  <2>2. Outcome(w)
    BY <1>2, <2>1 DEF Report, Outcome
  <2> QED
    BY <2>2 DEF QueueNext
<1>3. ASSUME NEW w \in Worker, Sweep(w) \/ ReportRejected(w) \/ Crash(w) PROVE QueueNext
  BY <1>3 DEF Sweep, ReportRejected, Crash, QueueNext
<1>4. ASSUME NEW r \in Run, LeaseTimeout(r) PROVE QueueNext
  BY <1>4 DEF LeaseTimeout, QueueNext, Run
<1>5. ASSUME NEW p \in Worker, Progress(p) \/ Fail(p) PROVE UNCHANGED queueVars
  BY <1>5, AttemptLeavesQueue
<1>6. ASSUME NEW r \in Run, BridgeDelivers(r) \/ BridgeWaitElapses(r) PROVE UNCHANGED queueVars
  BY <1>6 DEF BridgeDelivers, BridgeWaitElapses, shared
<1>7. CASE FacilitatorForgets \/ UNCHANGED vars
  BY <1>7 DEF FacilitatorForgets, vars
<1> QED
  BY <1>1, <1>2, <1>3, <1>4, <1>5, <1>6, <1>7 DEF Next

\* A worker that waits for a bridge or a target keeps its run while its lease runs: the
\* attempts a wait gives back (markWaiting) never let another worker in early.
THEOREM CrossChainLeasesAreRespected == Spec => LiveLeaseIsRespected
<1>1. Inv /\ [Next]_vars => [QueueNext]_queueVars
  BY StepUsesQueue
<1>2. Inv => QueueInv
  BY DEF Inv
<1> QED
  BY <1>1, <1>2, QueueStepsRespectLeases, CrossChainInvariance, PTL DEF Spec, LiveLeaseIsRespected

\* A worker that was overtaken while it bridged or paid is turned away when it reports, and
\* one that was not can always report (worker.ts, #finishLease).
THEOREM CrossChainReportsAreFenced == Spec => []OvertakenIsFenced /\ []HolderPassesFence
<1>1. Inv => OvertakenIsFenced /\ HolderPassesFence
  BY QueueInvFences DEF Inv, QueueInv
<1> QED
  BY <1>1, CrossChainInvariance, PTL

=============================================================================
