------------------------- MODULE OrchestrationProofs -------------------------
(***************************************************************************)
(* What the orchestrator promises of every funded run, for any number of   *)
(* runs, workers, scripts and attempts, whatever the target asks and       *)
(* answers: the safety properties of Orchestration.  None of them is       *)
(* inductive.  What carries them is that the rows of a run only grow, so a *)
(* process that works on old copies, whoever has its job by now, cannot be *)
(* wrong about what it did see (ProcessOK), and what the rows, the wallet, *)
(* the token and the registry hold of a run fits together (RunOK).         *)
(***************************************************************************)
EXTENDS Orchestration, LeaseQueueProofs

-----------------------------------------------------------------------------
(* Types. *)

Scenarios == Mandatory \cup UNION {x.scenarios : x \in Proposal}
Copy == CheckpointRow(Scenarios)

Place == {"idle", "loadRun", "loadCheckpoint", "analyze", "plan", "compile", "procure", "authorize",
          "refund", "checkNonce", "sendRefund", "saveRefund", "execute", "present", "replay", "save",
          "build", "pack", "putPack", "attest", "submit", "saveAttestation", "store",
          "putAttestation", "deliver", "finish"}

\* "pipeline", or why the run is finalized or its job dead-lettered.
Code == {"NONE", "PAYMENT_SEND_AMBIGUOUS"} \cup FinalizableReasons

Process ==
    [pc : Place, mode : {"pipeline"} \cup Code, run : Run \cup {"NONE"},
     status : Finalizable \cup {"NONE"}, revision : Nat, local : Copy,
     probe : Result \cup {NoResult, Unanswered}, outcome : {"NONE", "ACK", "RETRY", "DEAD_LETTER"}]

RowsTyped ==
    /\ run \in [Run -> [status : Lifecycle!Paid, revision : Nat]]
    /\ checkpoint \in [Run -> Copy]
    /\ nonce \in Nat /\ refunds \in [Run -> Nat]
    /\ presented \in [Run -> SUBSET Payment] /\ settled \in [Run -> SUBSET Payment]
    /\ pack \in [Run -> Result \cup {NoResult}] /\ registry \in [Run -> Result \cup {NoResult}]
    /\ protected \subseteq Run /\ expired \subseteq Run /\ attestation \subseteq Run

ProcessesTyped ==
    /\ act \in [Actor -> Process]
    /\ \A p \in Actor : (act[p].run \in Run) <=> (act[p].pc # "idle")
    /\ \A w \in Worker : act[w].run = held[w].job

-----------------------------------------------------------------------------
(* What a process knows of its run. *)

\* The paid statuses from one on, in the order the pipeline goes through them.
FromAnalyzing == {"ANALYZING", "PLAN_COMPILED", "PROCURING", "EXECUTING", "EVIDENCE_BUILDING", "ATTESTING"}
FromCompiled == FromAnalyzing \ {"ANALYZING"}
FromProcuring == FromCompiled \ {"PLAN_COMPILED"}
FromExecuting == FromProcuring \ {"PROCURING"}
FromBuilding == {"EVIDENCE_BUILDING", "ATTESTING"}

Buying == {"authorize", "refund", "checkNonce", "sendRefund", "saveRefund", "execute"}
Probing == {"present", "replay", "save"}
Attesting == {"submit", "saveAttestation", "store", "putAttestation", "deliver"}
Bought == (Buying \ {"authorize"}) \cup Probing
Common == {"analyze", "build", "pack", "putPack", "attest"} \cup Attesting
PipelineOnly == {"plan", "compile", "procure"} \cup Buying \cup Probing
Loaded == {"loadCheckpoint"} \cup Common \cup PipelineOnly

\* The status it remembers fits the step it is at.
StatusFits(c) ==
    /\ c.pc \in {"loadRun", "loadCheckpoint"} \cup Common \/ (c.mode = "pipeline" /\ c.pc \in PipelineOnly)
       \/ c.pc \in {"idle", "finish"}
    /\ c.pc = "loadCheckpoint" => c.status \in (IF c.mode = "pipeline" THEN Resumable ELSE Finalizable)
    /\ c.pc = "analyze" => IF c.mode = "pipeline" THEN c.status \in Resumable ELSE c.status = "FUNDED"
    /\ c.pc \in {"plan", "compile"} => c.status \in FromAnalyzing
    /\ c.pc = "procure" => c.status \in FromCompiled
    /\ c.pc \in Buying => c.status \in FromProcuring
    /\ c.pc \in Probing => c.status \in FromExecuting
    /\ c.pc = "build" => IF c.mode = "pipeline" THEN c.status \in FromExecuting
                         ELSE c.status \in Finalizable \ {"FUNDED"}
    /\ c.pc \in {"pack", "putPack", "attest"} => c.status \in FromBuilding
    /\ c.pc \in Attesting => c.status = "ATTESTING"

\* A run at the revision it remembers still has the status it remembers.
RevisionTells(c) ==
    c.pc \in Loaded => /\ c.revision <= run[c.run].revision
                       /\ c.revision = run[c.run].revision => c.status = run[c.run].status

\* The target refused a second delivery for a good reason.
Earned(r) == r \in protected \cup expired

ReplayIsPlanned(plan) == "payment-proof-replay" \in plan.scenarios

\* What its copy of the checkpoint says is what the row says.
CopyIsKept(c) ==
    c.pc # "idle" =>
        /\ c.local.payment # NoPayment => c.local.payment = checkpoint[c.run].payment
        /\ c.local.refundNonce # NoNonce => c.local.refundNonce = checkpoint[c.run].refundNonce
        /\ c.local.attested => checkpoint[c.run].attested
        /\ c.local.plan # NoPlan => ReplayIsPlanned(c.local.plan)
        /\ c.local.evidence = "PASS" => Earned(c.run)
        /\ c.probe = "PASS" => Earned(c.run)

\* What it has already done, in its copy.
StepsTaken(c) ==
    /\ c.pc \in {"compile", "procure"} \cup Buying \cup Probing => ReplayIsPlanned(c.local.plan)
    /\ c.pc \in Bought => c.local.payment # NoPayment
    /\ c.pc \in {"checkNonce", "sendRefund"} => c.local.refundNonce # NoNonce
    /\ c.pc = "save" => c.probe # NoResult
    /\ c.pc = "analyze" /\ c.mode # "pipeline" => c.local.evidence \in Result
    /\ c.pc \in {"build", "pack"} => c.local.evidence # NoResult
    /\ c.pc \in {"putPack", "attest"} \cup Attesting => c.local.evidence \in Result

\* What it has already done, in the rows it shares.
RowsLeft(c) ==
    /\ c.pc \in {"attest"} \cup Attesting => pack[c.run] # NoResult
    /\ c.pc = "saveAttestation" => registry[c.run] # NoResult
    /\ c.pc \in {"store", "putAttestation", "deliver"} => checkpoint[c.run].attested
    /\ c.pc = "deliver" => c.run \in attestation

\* Scripts finalize and report nothing; a worker acknowledges delivered runs only, and
\* asks for a retry only when an attempt is left.
ResultIsRight(p) ==
    /\ p \in Script => act[p].pc # "finish" /\ (act[p].pc # "idle" => ~InPipeline(p))
    /\ act[p].pc = "finish" =>
        /\ act[p].outcome # "NONE"
        /\ act[p].outcome = "ACK" => run[act[p].run].status \in Lifecycle!Delivered
        /\ act[p].outcome = "RETRY" => held[p].attempt < MaxAttempts

ProcessOK(p) ==
    /\ StatusFits(act[p]) /\ RevisionTells(act[p]) /\ CopyIsKept(act[p])
    /\ StepsTaken(act[p]) /\ RowsLeft(act[p]) /\ ResultIsRight(p)

-----------------------------------------------------------------------------
(* What the rows, the wallet, the token and the registry hold of a run. *)

\* Only the checkpointed authorization is used, and what is refunded is the rest of it,
\* under the checkpointed nonce.
MoneyFits(r) ==
    /\ presented[r] \subseteq {checkpoint[r].payment}
    /\ settled[r] \subseteq presented[r]
    /\ refunds[r] # 0 => /\ checkpoint[r].payment # NoPayment
                         /\ refunds[r] = Ceiling - checkpoint[r].payment.amount
                         /\ checkpoint[r].refundNonce # NoNonce
                         /\ checkpoint[r].refundNonce < nonce

VerdictFits(r) ==
    /\ checkpoint[r].plan # NoPlan => ReplayIsPlanned(checkpoint[r].plan)
    /\ checkpoint[r].evidence = "PASS" => Earned(r)
    /\ registry[r] = "PASS" => Earned(r)
    /\ checkpoint[r].attested => registry[r] # NoResult

DeliveryFits(r) ==
    /\ run[r].status \in Lifecycle!Delivered =>
        /\ pack[r] # NoResult /\ registry[r] # NoResult
        /\ checkpoint[r].attested /\ r \in attestation
    /\ job[r].status = "COMPLETED" => run[r].status \in Lifecycle!Delivered

RunOK(r) == MoneyFits(r) /\ VerdictFits(r) /\ DeliveryFits(r)

OrchestrationInv ==
    /\ QueueInv /\ RowsTyped /\ ProcessesTyped
    /\ \A p \in Actor : ProcessOK(p)
    /\ \A r \in Run : RunOK(r)

-----------------------------------------------------------------------------
(* The data. *)

LEMMA PaymentFields ==
    ASSUME NEW payment \in Payment
    PROVE  /\ payment.amount \in Nat /\ payment.amount <= Ceiling /\ payment.amount > 0
           /\ payment # NoPayment /\ Ceiling - payment.amount \in Nat
<1>1. payment.amount \in Price /\ payment.amount <= Ceiling
  BY DEF Payment
<1>2. NoPayment.amount = 0
  BY DEF NoPayment
<1>3. payment.amount \in Nat \ {0} /\ Ceiling \in Nat
  BY <1>1, CeilingAssumption
<1>4. payment # NoPayment
  BY <1>2, <1>3
<1> QED
  BY <1>1, <1>3, <1>4

LEMMA CopyFields ==
    ASSUME NEW copy \in Copy
    PROVE  /\ copy.plan \in TestPlan(Scenarios) /\ copy.payment \in Payment \cup {NoPayment}
           /\ copy.refundNonce \in Nat \cup {NoNonce} /\ copy.refunded \in BOOLEAN
           /\ copy.evidence \in Result \cup {NoResult, Unanswered} /\ copy.attested \in BOOLEAN
           /\ DOMAIN copy = {"plan", "payment", "refundNonce", "refunded", "evidence", "attested"}
BY DEF Copy, CheckpointRow

LEMMA EmptyFields ==
    /\ EmptyCheckpoint \in Copy
    /\ EmptyCheckpoint.plan = NoPlan /\ EmptyCheckpoint.payment = NoPayment
    /\ EmptyCheckpoint.refundNonce = NoNonce /\ EmptyCheckpoint.refunded = FALSE
    /\ EmptyCheckpoint.evidence = NoResult /\ EmptyCheckpoint.attested = FALSE
<1>1. NoPlan \in TestPlan(Scenarios)
  BY CeilingAssumption DEF NoPlan, TestPlan
<1> QED
  BY <1>1 DEF EmptyCheckpoint, Copy, CheckpointRow

\* The patches the phases write.
LEMMA PatchFields ==
    ASSUME NEW plan \in TestPlan(Scenarios), NEW payment \in Payment, NEW reserved \in Nat,
           NEW verdict \in Result \cup {Unanswered}
    PROVE  /\ [EmptyCheckpoint EXCEPT !.plan = plan] \in Copy
           /\ [EmptyCheckpoint EXCEPT !.payment = payment] \in Copy
           /\ [EmptyCheckpoint EXCEPT !.refundNonce = reserved] \in Copy
           /\ [EmptyCheckpoint EXCEPT !.refunded = TRUE] \in Copy
           /\ [EmptyCheckpoint EXCEPT !.evidence = verdict] \in Copy
           /\ [EmptyCheckpoint EXCEPT !.attested = TRUE] \in Copy
<1>1. NoPlan \in TestPlan(Scenarios)
  BY CeilingAssumption DEF NoPlan, TestPlan
<1> QED
  BY <1>1 DEF EmptyCheckpoint, Copy, CheckpointRow

LEMMA CoalesceFields ==
    ASSUME NEW old \in Copy, NEW new \in Copy
    PROVE  LET kept == Coalesce(old, new) IN
           /\ kept \in Copy
           /\ kept.plan = IF old.plan = NoPlan THEN new.plan ELSE old.plan
           /\ kept.payment = IF old.payment = NoPayment THEN new.payment ELSE old.payment
           /\ kept.refundNonce = IF old.refundNonce = NoNonce THEN new.refundNonce ELSE old.refundNonce
           /\ kept.refunded = (old.refunded \/ new.refunded)
           /\ kept.evidence = IF old.evidence = NoResult THEN new.evidence ELSE old.evidence
           /\ kept.attested = (old.attested \/ new.attested)
<1> DEFINE fields == {"plan", "payment", "refundNonce", "refunded", "evidence", "attested"}
           kept == [plan |-> IF old.plan = NoPlan THEN new.plan ELSE old.plan,
                    payment |-> IF old.payment = NoPayment THEN new.payment ELSE old.payment,
                    refundNonce |-> IF old.refundNonce = NoNonce THEN new.refundNonce ELSE old.refundNonce,
                    refunded |-> IF old.refunded = FALSE THEN new.refunded ELSE old.refunded,
                    evidence |-> IF old.evidence = NoResult THEN new.evidence ELSE old.evidence,
                    attested |-> IF old.attested = FALSE THEN new.attested ELSE old.attested]
<1>1. DOMAIN old = fields
  BY CopyFields
<1>2. /\ EmptyCheckpoint["plan"] = NoPlan /\ EmptyCheckpoint["payment"] = NoPayment
      /\ EmptyCheckpoint["refundNonce"] = NoNonce /\ EmptyCheckpoint["refunded"] = FALSE
      /\ EmptyCheckpoint["evidence"] = NoResult /\ EmptyCheckpoint["attested"] = FALSE
  BY DEF EmptyCheckpoint
<1>3. \A f \in fields : (IF old[f] = EmptyCheckpoint[f] THEN new[f] ELSE old[f]) = kept[f]
  <2> SUFFICES ASSUME NEW f \in fields
               PROVE  (IF old[f] = EmptyCheckpoint[f] THEN new[f] ELSE old[f]) = kept[f]
    OBVIOUS
  <2>1. CASE f = "plan"
    BY <1>2, <2>1
  <2>2. CASE f = "payment"
    BY <1>2, <2>2
  <2>3. CASE f = "refundNonce"
    BY <1>2, <2>3
  <2>4. CASE f = "refunded"
    BY <1>2, <2>4
  <2>5. CASE f = "evidence"
    BY <1>2, <2>5
  <2>6. CASE f = "attested"
    BY <1>2, <2>6
  <2> QED
    BY <2>1, <2>2, <2>3, <2>4, <2>5, <2>6
<1>4. Coalesce(old, new) = [f \in fields |-> kept[f]]
  BY <1>1, <1>3 DEF Coalesce
<1>5. kept = [f \in fields |-> kept[f]]
  OBVIOUS
<1>6. Coalesce(old, new) = kept
  BY <1>4, <1>5
<1>7. kept \in Copy
  BY CopyFields DEF Copy, CheckpointRow
<1> QED
  BY <1>6, <1>7, CopyFields

LEMMA ProcessFields ==
    ASSUME NEW c \in Process
    PROVE  /\ c.pc \in Place /\ c.mode \in {"pipeline"} \cup Code /\ c.run \in Run \cup {"NONE"}
           /\ c.status \in Finalizable \cup {"NONE"} /\ c.revision \in Nat /\ c.local \in Copy
           /\ c.probe \in Result \cup {NoResult, Unanswered}
           /\ c.outcome \in {"NONE", "ACK", "RETRY", "DEAD_LETTER"}
BY DEF Process

\* Sequences of statuses as sets.
LEMMA StatusSets ==
    /\ Resumable = {"FUNDED"} \cup FromAnalyzing
    /\ Finalizable = {"FUNDED", "REPLANNING"} \cup FromAnalyzing
    /\ Finalizable \subseteq Lifecycle!Paid /\ Finalizable \cap Lifecycle!Delivered = {}
<1>1. DOMAIN StatusOrder = 1..7
  BY DEF StatusOrder
<1>2. Resumable = {StatusOrder[1], StatusOrder[2], StatusOrder[3], StatusOrder[4], StatusOrder[5],
                   StatusOrder[6], StatusOrder[7]}
  <2>1. \A i \in 1..7 : i = 1 \/ i = 2 \/ i = 3 \/ i = 4 \/ i = 5 \/ i = 6 \/ i = 7
    OBVIOUS
  <2> QED
    BY <1>1, <2>1 DEF Resumable
<1>3. Resumable = {"FUNDED"} \cup FromAnalyzing
  BY <1>2 DEF StatusOrder, FromAnalyzing
<1> QED
  BY <1>3 DEF Finalizable, FromAnalyzing, Lifecycle!Paid, Lifecycle!Delivered

LEMMA Order ==
    /\ StatusOrder[1] = "FUNDED" /\ StatusOrder[2] = "ANALYZING" /\ StatusOrder[3] = "PLAN_COMPILED"
    /\ StatusOrder[4] = "PROCURING" /\ StatusOrder[5] = "EXECUTING"
    /\ StatusOrder[6] = "EVIDENCE_BUILDING" /\ StatusOrder[7] = "ATTESTING"
    /\ DOMAIN StatusOrder = 1..7
    /\ \A i \in 1..7 : i = 1 \/ i = 2 \/ i = 3 \/ i = 4 \/ i = 5 \/ i = 6 \/ i = 7
BY DEF StatusOrder

LEMMA AtOrAfterSets ==
    ASSUME NEW status
    PROVE  /\ AtOrAfter(status, "ANALYZING") <=> status \in FromAnalyzing
           /\ AtOrAfter(status, "PLAN_COMPILED") <=> status \in FromCompiled
           /\ AtOrAfter(status, "PROCURING") <=> status \in FromProcuring
           /\ AtOrAfter(status, "EXECUTING") <=> status \in FromExecuting
           /\ AtOrAfter(status, "EVIDENCE_BUILDING") <=> status \in FromBuilding
           /\ AtOrAfter(status, "ATTESTING") <=> status = "ATTESTING"
<1>1. ASSUME NEW n \in 1..7
      PROVE  AtOrAfter(status, StatusOrder[n]) <=> \E i \in 1..7 : i >= n /\ StatusOrder[i] = status
  <2>1. \A j \in 1..7 : StatusOrder[j] = StatusOrder[n] => j = n
    BY Order
  <2> QED
    BY <2>1, Order DEF AtOrAfter
<1>2. /\ (\E i \in 1..7 : i >= 2 /\ StatusOrder[i] = status) <=> status \in FromAnalyzing
      /\ (\E i \in 1..7 : i >= 3 /\ StatusOrder[i] = status) <=> status \in FromCompiled
      /\ (\E i \in 1..7 : i >= 4 /\ StatusOrder[i] = status) <=> status \in FromProcuring
      /\ (\E i \in 1..7 : i >= 5 /\ StatusOrder[i] = status) <=> status \in FromExecuting
      /\ (\E i \in 1..7 : i >= 6 /\ StatusOrder[i] = status) <=> status \in FromBuilding
      /\ (\E i \in 1..7 : i >= 7 /\ StatusOrder[i] = status) <=> status = "ATTESTING"
  BY Order DEF FromAnalyzing, FromCompiled, FromProcuring, FromExecuting, FromBuilding
<1> QED
  BY <1>1, <1>2, Order

-----------------------------------------------------------------------------
(* Rows only grow, so what holds of a process goes on holding while others step. *)

Grows ==
    /\ protected' = protected /\ expired \subseteq expired' /\ attestation \subseteq attestation'
    /\ \A r \in Run :
        /\ checkpoint[r].payment # NoPayment => checkpoint'[r].payment = checkpoint[r].payment
        /\ checkpoint[r].refundNonce # NoNonce => checkpoint'[r].refundNonce = checkpoint[r].refundNonce
        /\ checkpoint[r].attested => checkpoint'[r].attested
        /\ pack[r] # NoResult => pack'[r] # NoResult
        /\ registry[r] # NoResult => registry'[r] # NoResult
        /\ run[r].revision <= run'[r].revision
        /\ run'[r].revision = run[r].revision => run'[r] = run[r]
        /\ run[r].status \in Lifecycle!Delivered => run'[r] = run[r]

LEMMA RowFieldsOf ==
    ASSUME RowsTyped, NEW r \in Run
    PROVE  /\ run[r].status \in Lifecycle!Paid /\ run[r].revision \in Nat
           /\ checkpoint[r] \in Copy /\ refunds[r] \in Nat
           /\ presented[r] \subseteq Payment /\ settled[r] \subseteq Payment
           /\ pack[r] \in Result \cup {NoResult} /\ registry[r] \in Result \cup {NoResult}
BY DEF RowsTyped

LEMMA RunOfProcess ==
    ASSUME ProcessesTyped, NEW p \in Actor
    PROVE  /\ act[p] \in Process
           /\ act[p].pc # "idle" => act[p].run \in Run
BY DEF ProcessesTyped

LEMMA ProcessCarries ==
    ASSUME ProcessesTyped, RowsTyped, RowsTyped', Grows, NEW p \in Actor, ProcessOK(p),
           act'[p] = act[p], p \in Worker => held'[p] = held[p]
    PROVE  ProcessOK(p)'
<1> DEFINE c == act[p]
<1>1. c \in Process /\ (c.pc # "idle" => c.run \in Run)
  BY RunOfProcess
<1>2. StatusFits(c) /\ StepsTaken(c)
  BY DEF ProcessOK
<1>3. StatusFits(c)' /\ StepsTaken(c)'
  BY <1>2 DEF StatusFits, StepsTaken
<1>4. RevisionTells(c)'
  <2> SUFFICES ASSUME c.pc \in Loaded
               PROVE  /\ c.revision <= run'[c.run].revision
                      /\ c.revision = run'[c.run].revision => c.status = run'[c.run].status
    BY DEF RevisionTells
  <2>1. c.pc # "idle" /\ c.run \in Run
    BY <1>1 DEF Loaded, Common, PipelineOnly, Attesting, Buying, Probing
  <2>2. c.revision <= run[c.run].revision /\ (c.revision = run[c.run].revision => c.status = run[c.run].status)
    BY DEF ProcessOK, RevisionTells
  <2>3. c.revision \in Nat /\ run[c.run].revision \in Nat /\ run'[c.run].revision \in Nat
    BY <1>1, <2>1, ProcessFields, RowFieldsOf DEF RowsTyped
  <2>4. /\ run[c.run].revision <= run'[c.run].revision
        /\ run'[c.run].revision = run[c.run].revision => run'[c.run] = run[c.run]
    BY <2>1 DEF Grows
  <2> QED
    BY <2>2, <2>3, <2>4
<1>5. CopyIsKept(c)'
  <2> SUFFICES ASSUME c.pc # "idle" PROVE CopyIsKept(c)'
    BY DEF CopyIsKept
  <2>1. c.run \in Run /\ CopyIsKept(c)
    BY <1>1 DEF ProcessOK
  <2>2. Earned(c.run) => Earned(c.run)'
    BY DEF Grows, Earned
  <2>3. c.local \in Copy
    BY <1>1, ProcessFields
  <2> QED
    BY <2>1, <2>2, <2>3 DEF CopyIsKept, Grows
<1>6. RowsLeft(c)'
  <2>1. RowsLeft(c) /\ (c.pc \in {"attest"} \cup Attesting => c.run \in Run)
    BY <1>1 DEF ProcessOK, Attesting
  <2> QED
    BY <2>1 DEF RowsLeft, Grows, Attesting
<1>7. ResultIsRight(p)'
  <2>1. act[p].pc = "finish" => act[p].run \in Run /\ p \in Worker
    BY <1>1 DEF ProcessOK, ResultIsRight, Actor
  <2> QED
    BY <2>1 DEF ProcessOK, ResultIsRight, InPipeline, Grows
<1> QED
  BY <1>3, <1>4, <1>5, <1>6, <1>7 DEF ProcessOK

\* The step of one process, described by what it does to the rows and by where it goes.
ActsAlone(p) ==
    /\ act' \in [Actor -> Process] /\ act[p].pc # "idle"
    /\ \A q \in Actor \ {p} : act'[q] = act[q]

LEMMA ActorStep ==
    ASSUME OrchestrationInv, NEW p \in Actor, ActsAlone(p), UNCHANGED queueVars,
           IF p \in Script /\ act'[p].pc = "idle" THEN act'[p].run = "NONE"
           ELSE act'[p].pc # "idle" /\ act'[p].run = act[p].run,
           RowsTyped', Grows, ProcessOK(p)', \A r \in Run : RunOK(r)'
    PROVE  OrchestrationInv'
<1> USE DEF OrchestrationInv
<1>1. QueueInv'
  BY StutterInv
<1>2. \A q \in Actor : ProcessOK(q)'
  <2> SUFFICES ASSUME NEW q \in Actor PROVE ProcessOK(q)'
    OBVIOUS
  <2>1. CASE q = p
    BY <2>1
  <2>2. CASE q # p
    BY <2>2, ProcessCarries DEF ActsAlone, queueVars
  <2> QED
    BY <2>1, <2>2
<1>3. ProcessesTyped'
  <2>1. \A q \in Actor \ {p} : act'[q] = act[q]
    BY DEF ActsAlone
  <2>2. (act'[p].run \in Run) <=> (act'[p].pc # "idle")
    BY RunOfProcess, RunAssumption DEF ActsAlone
  <2>3. p \in Worker => act'[p].run = held'[p].job
    BY ActorAssumption DEF ProcessesTyped, queueVars
  <2> QED
    BY <2>1, <2>2, <2>3 DEF ProcessesTyped, ActsAlone, queueVars, Actor
<1> QED
  BY <1>1, <1>2, <1>3

\* A step that leaves every row as it is.
LEMMA SameRows ==
    ASSUME OrchestrationInv, UNCHANGED <<job, run, ledgerVars, storeVars>>
    PROVE  /\ RowsTyped' /\ Grows /\ \A r \in Run : RunOK(r)'
<1>1. RowsTyped'
  BY DEF OrchestrationInv, RowsTyped, ledgerVars, storeVars, targetVars
<1>2. Grows
  <2>1. \A r \in Run : run[r].revision \in Nat
    BY DEF OrchestrationInv, RowsTyped
  <2> QED
    BY <2>1 DEF Grows, ledgerVars, storeVars, targetVars
<1>3. \A r \in Run : RunOK(r)'
  BY DEF OrchestrationInv, RunOK, MoneyFits, VerdictFits, DeliveryFits, Earned, ledgerVars, storeVars, targetVars
<1> QED
  BY <1>1, <1>2, <1>3

\* The patch of a phase fills columns that were empty.
LEMMA MergeRows ==
    ASSUME OrchestrationInv, NEW r \in Run, NEW patch \in Copy, Merge(r, patch),
           UNCHANGED <<job, run, ledgerVars, pack, attestation>>,
           patch.plan # NoPlan => ReplayIsPlanned(patch.plan),
           patch.evidence = "PASS" => Earned(r),
           patch.attested => registry[r] # NoResult
    PROVE  /\ RowsTyped' /\ Grows /\ \A s \in Run : RunOK(s)'
           /\ checkpoint'[r] = Coalesce(checkpoint[r], patch)
<1> DEFINE old == checkpoint[r]
           kept == Coalesce(old, patch)
<1>1. old \in Copy /\ kept \in Copy
  BY CoalesceFields, RowFieldsOf DEF OrchestrationInv
<1>2. /\ kept.plan = IF old.plan = NoPlan THEN patch.plan ELSE old.plan
      /\ kept.payment = IF old.payment = NoPayment THEN patch.payment ELSE old.payment
      /\ kept.refundNonce = IF old.refundNonce = NoNonce THEN patch.refundNonce ELSE old.refundNonce
      /\ kept.evidence = IF old.evidence = NoResult THEN patch.evidence ELSE old.evidence
      /\ kept.attested = (old.attested \/ patch.attested)
  BY <1>1, CoalesceFields
<1>3. checkpoint' = [checkpoint EXCEPT ![r] = kept]
  BY DEF Merge
<1> HIDE DEF kept
<1>4. /\ checkpoint' \in [Run -> Copy] /\ checkpoint'[r] = kept
      /\ \A s \in Run \ {r} : checkpoint'[s] = checkpoint[s]
  BY <1>1, <1>3 DEF OrchestrationInv, RowsTyped
<1>5. RowsTyped'
  BY <1>4 DEF OrchestrationInv, RowsTyped, ledgerVars, targetVars
<1>6. Grows
  <2>1. \A s \in Run : run[s].revision \in Nat
    BY DEF OrchestrationInv, RowsTyped
  <2> QED
    <3>1. UNCHANGED <<protected, expired, attestation, pack, registry, run>>
      BY DEF ledgerVars, targetVars
    <3>2. \A s \in Run : /\ checkpoint[s].payment # NoPayment => checkpoint'[s].payment = checkpoint[s].payment
                         /\ checkpoint[s].refundNonce # NoNonce
                            => checkpoint'[s].refundNonce = checkpoint[s].refundNonce
                         /\ checkpoint[s].attested => checkpoint'[s].attested
      BY <1>2, <1>4
    <3> QED
      BY <2>1, <3>1, <3>2 DEF Grows
<1>7. ASSUME NEW s \in Run PROVE RunOK(s)'
  <2>1. RunOK(s) /\ presented[s] \subseteq Payment
    BY RowFieldsOf DEF OrchestrationInv
  <2>2. CASE s # r
    BY <1>4, <2>1, <2>2 DEF RunOK, MoneyFits, VerdictFits, DeliveryFits, Earned, ledgerVars, targetVars
  <2>3. CASE s = r
    <3>1. MoneyFits(r)'
      <4>1. \A payment \in Payment : payment # NoPayment
        BY PaymentFields
      <4>2. presented[r] # {} => old.payment # NoPayment
        BY <2>1, <2>3, <4>1 DEF RunOK, MoneyFits
      <4> QED
        BY <1>2, <1>4, <2>1, <2>3, <4>2 DEF RunOK, MoneyFits, ledgerVars, targetVars
    <3>2. VerdictFits(r)'
      BY <1>2, <1>4, <2>1, <2>3 DEF RunOK, VerdictFits, Earned, ledgerVars, targetVars
    <3>3. DeliveryFits(r)'
      BY <1>2, <1>4, <2>1, <2>3 DEF RunOK, DeliveryFits, ledgerVars
    <3> QED
      BY <2>3, <3>1, <3>2, <3>3 DEF RunOK
  <2> QED
    BY <2>2, <2>3
<1> QED
  BY <1>4, <1>5, <1>6, <1>7 DEF kept

-----------------------------------------------------------------------------
(* Where a process goes. *)

LEMMA Replaced ==
    ASSUME OrchestrationInv, NEW p \in Actor, act[p].pc # "idle", NEW c \in Process,
           act' = [act EXCEPT ![p] = c]
    PROVE  ActsAlone(p) /\ act'[p] = c
BY DEF OrchestrationInv, ProcessesTyped, ActsAlone

LEMMA Edited ==
    ASSUME NEW c \in Process, NEW pc \in Place, NEW local \in Copy,
           NEW probe \in Result \cup {NoResult, Unanswered},
           NEW status \in Finalizable, NEW revision \in Nat
    PROVE  /\ [c EXCEPT !.pc = pc] \in Process
           /\ [c EXCEPT !.local = local, !.pc = pc] \in Process
           /\ [c EXCEPT !.pc = pc, !.probe = probe] \in Process
           /\ [c EXCEPT !.local = local, !.probe = probe, !.pc = pc] \in Process
           /\ [c EXCEPT !.pc = pc, !.status = status, !.revision = revision] \in Process
BY DEF Process

LEMMA EditedCopy ==
    ASSUME NEW copy \in Copy, NEW plan \in TestPlan(Scenarios), NEW payment \in Payment,
           NEW reserved \in Nat, NEW verdict \in Result \cup {Unanswered}
    PROVE  /\ [copy EXCEPT !.plan = plan] \in Copy
           /\ [copy EXCEPT !.payment = payment] \in Copy
           /\ [copy EXCEPT !.refundNonce = reserved] \in Copy
           /\ [copy EXCEPT !.evidence = verdict] \in Copy
BY DEF Copy, CheckpointRow

LEMMA Going ==
    ASSUME OrchestrationInv, NEW p \in Actor, act[p].pc # "idle", NEW pc \in Place, Goto(p, pc)
    PROVE  /\ ActsAlone(p) /\ act'[p] = [act[p] EXCEPT !.pc = pc]
           /\ act'[p].pc = pc /\ act'[p].mode = act[p].mode /\ act'[p].run = act[p].run
           /\ act'[p].status = act[p].status /\ act'[p].revision = act[p].revision
           /\ act'[p].local = act[p].local /\ act'[p].probe = act[p].probe
           /\ act'[p].outcome = act[p].outcome
<1> DEFINE c == [act[p] EXCEPT !.pc = pc]
<1>1. act[p] \in Process
  BY RunOfProcess DEF OrchestrationInv
<1>2. c \in Process
  BY <1>1 DEF Process
<1>3. /\ c.pc = pc /\ c.mode = act[p].mode /\ c.run = act[p].run
      /\ c.status = act[p].status /\ c.revision = act[p].revision
      /\ c.local = act[p].local /\ c.probe = act[p].probe /\ c.outcome = act[p].outcome
  BY <1>1 DEF Process
<1>4. act' = [act EXCEPT ![p] = c]
  BY DEF Goto
<1> HIDE DEF c
<1>5. ActsAlone(p) /\ act'[p] = c
  BY <1>2, <1>4, Replaced
<1> QED
  BY <1>3, <1>5 DEF c

LEMMA LoadedPlaces ==
    /\ Loaded \subseteq Place \ {"idle", "finish", "loadRun"}
    /\ Common \subseteq Loaded /\ PipelineOnly \subseteq Loaded
BY DEF Loaded, Common, PipelineOnly, Buying, Probing, Attesting, Place

\* A process that goes on with what it has loaded.
LEMMA GoesOn ==
    ASSUME OrchestrationInv, NEW p \in Actor, act[p].pc \in Loaded, RowsTyped', Grows, UNCHANGED run,
           act'[p].run = act[p].run, act'[p].mode = act[p].mode,
           act'[p].status = act[p].status, act'[p].revision = act[p].revision,
           act'[p].local = act[p].local, act'[p].probe = act[p].probe, act'[p].pc \in Loaded,
           StatusFits(act[p])', StepsTaken(act[p])', RowsLeft(act[p])'
    PROVE  ProcessOK(p)'
<1> DEFINE c == act[p]
<1>1. c \in Process /\ c.run \in Run /\ c.pc # "idle" /\ c.pc # "finish" /\ c.pc # "loadRun"
  BY RunOfProcess, LoadedPlaces DEF OrchestrationInv
<1>2. ProcessOK(p) /\ c.local \in Copy
  BY <1>1, ProcessFields DEF OrchestrationInv
<1>3. RevisionTells(c)'
  BY <1>2 DEF ProcessOK, RevisionTells
<1>4. CopyIsKept(c)'
  BY <1>1, <1>2 DEF ProcessOK, CopyIsKept, Grows, Earned
<1>5. ResultIsRight(p)'
  BY <1>1, <1>2, LoadedPlaces DEF ProcessOK, ResultIsRight, InPipeline
<1> QED
  BY <1>3, <1>4, <1>5 DEF ProcessOK

\* A worker's attempt is over.
LEMMA Ending ==
    ASSUME OrchestrationInv, NEW p \in Actor \ Script, act[p].pc # "idle",
           NEW outcome \in {"ACK", "RETRY", "DEAD_LETTER"}, NEW code \in Code,
           act' = [act EXCEPT ![p] = Ends(p, outcome, code)], UNCHANGED queueVars,
           RowsTyped', Grows, \A r \in Run : RunOK(r)',
           outcome = "ACK" => run'[act[p].run].status \in Lifecycle!Delivered,
           outcome = "RETRY" => held[p].attempt < MaxAttempts
    PROVE  OrchestrationInv'
<1> DEFINE c == Ends(p, outcome, code)
<1>1. act[p].run \in Run
  BY RunOfProcess DEF OrchestrationInv
<1>2. /\ c \in Process /\ c.pc = "finish" /\ c.run = act[p].run /\ c.outcome = outcome
      /\ c.local = EmptyCheckpoint /\ c.probe = NoResult
  BY <1>1, EmptyFields DEF Ends, Idle, Process, Place
<1>3. act' = [act EXCEPT ![p] = c]
  OBVIOUS
<1> HIDE DEF c
<1>4. ActsAlone(p) /\ act'[p] = c
  BY <1>2, <1>3, Replaced
<1>5. CopyIsKept(act[p])'
  BY <1>2, <1>4, EmptyFields DEF CopyIsKept, NoResult
<1>6. ResultIsRight(p)'
  BY <1>2, <1>4 DEF ResultIsRight, queueVars
<1>7. StatusFits(act[p])' /\ RevisionTells(act[p])' /\ StepsTaken(act[p])' /\ RowsLeft(act[p])'
  BY <1>2, <1>4 DEF StatusFits, RevisionTells, StepsTaken, RowsLeft, Loaded, Common, PipelineOnly,
                    Buying, Probing, Attesting, Bought
<1>8. ProcessOK(p)'
  BY <1>5, <1>6, <1>7 DEF ProcessOK
<1> QED
  BY <1>2, <1>4, <1>8, ActorStep

LEMMA EndingQuietly ==
    ASSUME OrchestrationInv, NEW p \in Actor \ Script, act[p].pc # "idle",
           NEW outcome \in {"RETRY", "DEAD_LETTER"}, NEW code \in Code,
           act' = [act EXCEPT ![p] = Ends(p, outcome, code)],
           UNCHANGED <<queueVars, run, ledgerVars, storeVars>>,
           outcome = "RETRY" => held[p].attempt < MaxAttempts
    PROVE  OrchestrationInv'
<1>1. RowsTyped' /\ Grows /\ \A r \in Run : RunOK(r)'
  BY SameRows DEF queueVars
<1> QED
  BY <1>1, Ending

LEMMA IdleFields ==
    /\ Idle \in Process /\ Idle.pc = "idle" /\ Idle.run = "NONE"
BY EmptyFields DEF Idle, Process, Place

LEMMA AtRest == ASSUME NEW p \in Actor, act[p] = Idle PROVE ProcessOK(p)
BY IdleFields DEF ProcessOK, StatusFits, RevisionTells, CopyIsKept, StepsTaken, RowsLeft, ResultIsRight,
     Loaded, Common, PipelineOnly, Buying, Probing, Attesting, Bought

\* The finalizer is over: a script is at rest, a worker dead-letters the job.
LEMMA Finalizing ==
    ASSUME OrchestrationInv, NEW p \in Actor, act[p].pc # "idle", ~InPipeline(p),
           act' = [act EXCEPT ![p] = Finalized(p)], UNCHANGED queueVars,
           RowsTyped', Grows, \A r \in Run : RunOK(r)'
    PROVE  OrchestrationInv'
<1>1. CASE p \in Script
  <2>1. act' = [act EXCEPT ![p] = Idle]
    BY <1>1 DEF Finalized
  <2>2. ActsAlone(p) /\ act'[p] = Idle
    BY <2>1, IdleFields, Replaced
  <2>3. ProcessOK(p)'
    BY <2>2, IdleFields DEF ProcessOK, StatusFits, RevisionTells, CopyIsKept, StepsTaken, RowsLeft,
         ResultIsRight, Loaded, Common, PipelineOnly, Buying, Probing, Attesting, Bought
  <2> QED
    BY <1>1, <2>2, <2>3, IdleFields, ActorStep
<1>2. CASE p \notin Script
  <2>1. act[p].mode \in Code
    BY RunOfProcess, ProcessFields DEF OrchestrationInv, InPipeline
  <2>2. act' = [act EXCEPT ![p] = Ends(p, "DEAD_LETTER", act[p].mode)]
    BY <1>2 DEF Finalized
  <2> QED
    BY <1>2, <2>1, <2>2, Ending
<1> QED
  BY <1>1, <1>2

LEMMA FinalizingQuietly ==
    ASSUME OrchestrationInv, NEW p \in Actor, act[p].pc # "idle", ~InPipeline(p),
           act' = [act EXCEPT ![p] = Finalized(p)],
           UNCHANGED <<queueVars, run, ledgerVars, storeVars>>
    PROVE  OrchestrationInv'
<1>1. RowsTyped' /\ Grows /\ \A r \in Run : RunOK(r)'
  BY SameRows DEF queueVars
<1> QED
  BY <1>1, Finalizing

\* A pipeline in a worker: scripts only finalize.
LEMMA PipelineIsAWorkers ==
    ASSUME OrchestrationInv, NEW p \in Actor, act[p].pc # "idle", InPipeline(p)
    PROVE  p \in Actor \ Script /\ p \in Worker
BY DEF OrchestrationInv, ProcessOK, ResultIsRight, Actor

\* The finalizer begins.
LEMMA FinalizeInv ==
    ASSUME OrchestrationInv, NEW p \in Actor, act[p].pc # "idle", InPipeline(p),
           NEW code \in Code, Finalize(p, code), UNCHANGED <<queueVars, run, ledgerVars, storeVars>>
    PROVE  OrchestrationInv'
<1> DEFINE c == [Idle EXCEPT !.pc = "loadRun", !.mode = code, !.run = act[p].run]
<1>1. act[p].run \in Run /\ p \in Actor \ Script
  BY RunOfProcess, PipelineIsAWorkers DEF OrchestrationInv
<1>2. /\ c \in Process /\ c.pc = "loadRun" /\ c.run = act[p].run
      /\ c.local = EmptyCheckpoint /\ c.probe = NoResult
  BY <1>1, EmptyFields DEF Idle, Process, Place
<1>3. act' = [act EXCEPT ![p] = c]
  BY DEF Finalize
<1> HIDE DEF c
<1>4. ActsAlone(p) /\ act'[p] = c
  BY <1>2, <1>3, Replaced
<1>5. CopyIsKept(act[p])'
  BY <1>2, <1>4, EmptyFields DEF CopyIsKept, NoResult
<1>6. ProcessOK(p)'
  BY <1>1, <1>2, <1>4, <1>5 DEF ProcessOK, StatusFits, RevisionTells, StepsTaken, RowsLeft, ResultIsRight,
       Loaded, Common, PipelineOnly, Buying, Probing, Attesting, Bought
<1> QED
  BY <1>2, <1>4, <1>6, SameRows, ActorStep DEF queueVars

-----------------------------------------------------------------------------
(* One lemma per action of a process. *)

LEMMA LoadRunInv == ASSUME OrchestrationInv, NEW p \in Actor, LoadRun(p) PROVE OrchestrationInv'
<1> DEFINE r == act[p].run
           mine == IF InPipeline(p) THEN Resumable ELSE Finalizable
           c == [act[p] EXCEPT !.pc = "loadCheckpoint", !.status = run[r].status,
                               !.revision = run[r].revision]
<1>1. /\ act[p].pc = "loadRun" /\ UNCHANGED <<queueVars, run, ledgerVars, storeVars>>
      /\ act' = [act EXCEPT ![p] = IF run[r].status \in mine THEN c
                                   ELSE IF InPipeline(p) THEN Ends(p, "DEAD_LETTER", "UNEXPECTED_RUN_STATE")
                                   ELSE Finalized(p)]
  BY DEF LoadRun, Loadable, At, shared
<1>2. act[p] \in Process /\ r \in Run /\ ProcessOK(p)
  BY <1>1, RunOfProcess DEF OrchestrationInv
<1>3. CASE run[r].status \in mine
  <2>1. run[r].status \in Finalizable /\ run[r].revision \in Nat
    BY <1>2, <1>3, StatusSets, RowFieldsOf DEF OrchestrationInv
  <2>2. /\ c \in Process /\ c.pc = "loadCheckpoint" /\ c.run = r /\ c.mode = act[p].mode
        /\ c.status = run[r].status /\ c.revision = run[r].revision
        /\ c.local = act[p].local /\ c.probe = act[p].probe
    BY <1>2, <2>1 DEF Process, Place
  <2>3. act' = [act EXCEPT ![p] = c]
    BY <1>1, <1>3
  <2> HIDE DEF c
  <2>4. ActsAlone(p) /\ act'[p] = c
    BY <1>1, <2>2, <2>3, Replaced
  <2>5. RowsTyped' /\ Grows /\ \A s \in Run : RunOK(s)'
    BY <1>1, SameRows DEF queueVars
  <2>6. CopyIsKept(act[p])'
    BY <1>1, <1>2, <2>2, <2>4 DEF ProcessOK, CopyIsKept, Earned, ledgerVars, targetVars, storeVars
  <2>7. RevisionTells(act[p])'
    BY <1>1, <2>1, <2>2, <2>4 DEF RevisionTells
  <2>8. StatusFits(act[p])' /\ StepsTaken(act[p])' /\ RowsLeft(act[p])'
    BY <1>3, <2>2, <2>4 DEF StatusFits, StepsTaken, RowsLeft, InPipeline,
         Common, PipelineOnly, Buying, Probing, Attesting, Bought
  <2>9. ResultIsRight(p)'
    BY <1>1, <1>2, <2>2, <2>4 DEF ProcessOK, ResultIsRight, InPipeline
  <2> QED
    BY <1>1, <2>2, <2>4, <2>5, <2>6, <2>7, <2>8, <2>9, ActorStep DEF ProcessOK
<1>4. CASE run[r].status \notin mine /\ InPipeline(p)
  <2>1. act' = [act EXCEPT ![p] = Ends(p, "DEAD_LETTER", "UNEXPECTED_RUN_STATE")]
    BY <1>1, <1>4
  <2>2. p \in Actor \ Script /\ "UNEXPECTED_RUN_STATE" \in Code
    BY <1>1, <1>4, PipelineIsAWorkers DEF Code, FinalizableReasons
  <2> QED
    BY <1>1, <2>1, <2>2, EndingQuietly
<1>5. CASE run[r].status \notin mine /\ ~InPipeline(p)
  BY <1>1, <1>5, FinalizingQuietly
<1> QED
  BY <1>3, <1>4, <1>5

LEMMA FailInv == ASSUME OrchestrationInv, NEW p \in Actor, Fail(p) PROVE OrchestrationInv'
<1>1. /\ act[p].pc \notin {"idle", "finish"} /\ UNCHANGED <<queueVars, run, ledgerVars, storeVars>>
  BY DEF Fail, shared
<1>2. CASE ~InPipeline(p)
  <2>1. act' = [act EXCEPT ![p] = Finalized(p)]
    BY <1>2 DEF Fail
  <2> QED
    BY <1>1, <1>2, <2>1, FinalizingQuietly
<1>3. CASE InPipeline(p) /\ held[p].attempt >= MaxAttempts
  <2>1. Finalize(p, "PIPELINE_RETRIES_EXHAUSTED")
    BY <1>3 DEF Fail
  <2>2. "PIPELINE_RETRIES_EXHAUSTED" \in Code
    BY DEF Code, FinalizableReasons
  <2> QED
    BY <1>1, <1>3, <2>1, <2>2, FinalizeInv
<1>4. CASE InPipeline(p) /\ ~(held[p].attempt >= MaxAttempts)
  <2>1. act' = [act EXCEPT ![p] = Ends(p, "RETRY", "NONE")]
    BY <1>4 DEF Fail
  <2>2. p \in Actor \ Script /\ p \in Worker /\ "NONE" \in Code
    BY <1>1, <1>4, PipelineIsAWorkers DEF Code
  <2>3. held[p].attempt < MaxAttempts
    <3>1. held[p].job = act[p].run /\ act[p].run \in Run
      BY <1>1, <2>2, RunOfProcess DEF OrchestrationInv, ProcessesTyped
    <3>2. Holding(p)
      BY <3>1, RunAssumption DEF Holding, NoClaim
    <3>3. held[p].attempt \in Nat
      BY <2>2, <3>2, HolderHasClaim, ClaimFields DEF OrchestrationInv, QueueInv
    <3> QED
      BY <1>4, <3>3, MaxAttemptsAssumption
  <2> QED
    BY <1>1, <2>1, <2>2, <2>3, EndingQuietly
<1> QED
  BY <1>2, <1>3, <1>4

LEMMA DenyInv == ASSUME OrchestrationInv, NEW p \in Actor, Deny(p) PROVE OrchestrationInv'
<1>1. /\ act[p].pc = "authorize" /\ Finalize(p, "PROCUREMENT_DENIED")
      /\ UNCHANGED <<queueVars, run, ledgerVars, storeVars>>
  BY DEF Deny, At, shared
<1>2. InPipeline(p)
  BY <1>1 DEF OrchestrationInv, ProcessOK, StatusFits, InPipeline, Common, Attesting
<1>3. "PROCUREMENT_DENIED" \in Code
  BY DEF Code, FinalizableReasons
<1> QED
  BY <1>1, <1>2, <1>3, FinalizeInv

\* A process that goes on, perhaps with something new in its copy.
LEMMA Arrives ==
    ASSUME OrchestrationInv, NEW p \in Actor, act[p].pc \in Loaded, NEW c \in Process,
           act' = [act EXCEPT ![p] = c], c.pc \in Loaded, c.run = act[p].run, c.mode = act[p].mode,
           c.status = act[p].status, c.revision = act[p].revision, UNCHANGED <<queueVars, run>>,
           RowsTyped', Grows, \A r \in Run : RunOK(r)',
           StatusFits(act[p])', CopyIsKept(act[p])', StepsTaken(act[p])', RowsLeft(act[p])'
    PROVE  OrchestrationInv'
<1>1. /\ act[p].pc \notin {"idle", "finish"} /\ c.pc \notin {"idle", "finish"}
      /\ act[p].run \in Run /\ ProcessOK(p)
  BY RunOfProcess, LoadedPlaces DEF OrchestrationInv
<1>2. ActsAlone(p) /\ act'[p] = c
  BY <1>1, Replaced
<1>3. RevisionTells(act[p])'
  BY <1>1, <1>2 DEF ProcessOK, RevisionTells
<1>4. ResultIsRight(p)'
  BY <1>1, <1>2 DEF ProcessOK, ResultIsRight, InPipeline
<1> QED
  BY <1>1, <1>2, <1>3, <1>4, ActorStep DEF ProcessOK

LEMMA Walks ==
    ASSUME OrchestrationInv, NEW p \in Actor, act[p].pc \in Loaded, NEW pc \in Loaded, Goto(p, pc),
           UNCHANGED <<queueVars, run>>, RowsTyped', Grows, \A r \in Run : RunOK(r)',
           StatusFits(act[p])', StepsTaken(act[p])', RowsLeft(act[p])'
    PROVE  OrchestrationInv'
<1>1. act[p].pc # "idle" /\ pc \in Place
  BY LoadedPlaces
<1>2. /\ ActsAlone(p) /\ act'[p].pc = pc /\ act'[p].run = act[p].run /\ act'[p].mode = act[p].mode
      /\ act'[p].status = act[p].status /\ act'[p].revision = act[p].revision
      /\ act'[p].local = act[p].local /\ act'[p].probe = act[p].probe
  BY <1>1, Going
<1>3. ProcessOK(p)'
  BY <1>2, GoesOn
<1>4. act'[p].pc # "idle"
  BY <1>2, LoadedPlaces
<1> QED
  BY <1>2, <1>3, <1>4, ActorStep

LEMMA WalksQuietly ==
    ASSUME OrchestrationInv, NEW p \in Actor, act[p].pc \in Loaded, NEW pc \in Loaded, Goto(p, pc),
           UNCHANGED <<queueVars, run, ledgerVars, storeVars>>,
           StatusFits(act[p])', StepsTaken(act[p])', RowsLeft(act[p])'
    PROVE  OrchestrationInv'
BY SameRows, Walks DEF queueVars

LEMMA LoadCheckpointInv ==
    ASSUME OrchestrationInv, NEW p \in Actor, LoadCheckpoint(p) PROVE OrchestrationInv'
<1> DEFINE kept == checkpoint[act[p].run]
           local == IF InPipeline(p) THEN kept ELSE [kept EXCEPT !.evidence = "INCONCLUSIVE"]
           pc == IF InPipeline(p) \/ act[p].status = "FUNDED" THEN "analyze" ELSE "build"
           c == [act[p] EXCEPT !.local = local, !.pc = pc]
<1>1. act[p].pc = "loadCheckpoint" /\ UNCHANGED <<queueVars, run, ledgerVars, storeVars>>
  BY DEF LoadCheckpoint, At, shared
<1>2. act' = [act EXCEPT ![p] = c]
  BY DEF LoadCheckpoint, WorkingCopy
<1>3. act[p] \in Process /\ act[p].run \in Run /\ ProcessOK(p) /\ act[p].pc \in Loaded
  BY <1>1, RunOfProcess DEF OrchestrationInv, Loaded
<1>4. kept \in Copy /\ "INCONCLUSIVE" \in Result
  BY <1>3, RowFieldsOf DEF OrchestrationInv, Result
<1>5. /\ local \in Copy /\ local.payment = kept.payment /\ local.refundNonce = kept.refundNonce
      /\ local.attested = kept.attested /\ local.plan = kept.plan
      /\ local.evidence = IF InPipeline(p) THEN kept.evidence ELSE "INCONCLUSIVE"
  BY <1>4 DEF Copy, CheckpointRow
<1>6. pc \in {"analyze", "build"} /\ pc \in Loaded /\ pc \in Place
  BY DEF Loaded, Common, Place
<1> HIDE DEF kept, local, pc
<1>7. /\ c \in Process /\ c.pc = pc /\ c.run = act[p].run /\ c.mode = act[p].mode
      /\ c.status = act[p].status /\ c.revision = act[p].revision
      /\ c.local = local /\ c.probe = act[p].probe
  BY <1>3, <1>5, <1>6 DEF Process
<1> HIDE DEF c
<1>8. act'[p] = c
  BY <1>1, <1>2, <1>7, Replaced
<1>9. StatusFits(act[p])'
  BY <1>1, <1>3, <1>6, <1>7, <1>8 DEF ProcessOK, StatusFits, pc, InPipeline, Common, PipelineOnly,
       Buying, Probing, Attesting
<1>10. CopyIsKept(act[p])'
  <2>1. VerdictFits(act[p].run)
    BY <1>3 DEF OrchestrationInv, RunOK
  <2>2. kept = checkpoint'[act[p].run] /\ kept = checkpoint[act[p].run]
        /\ (Earned(act[p].run) => Earned(act[p].run)')
    BY <1>1, <1>7, <1>8 DEF kept, storeVars, ledgerVars, targetVars, Earned
  <2>3. /\ kept.plan # NoPlan => ReplayIsPlanned(kept.plan)
        /\ local.evidence = "PASS" => Earned(act[p].run)
    BY <1>5, <2>1, <2>2 DEF VerdictFits
  <2>4. act[p].probe = "PASS" => Earned(act[p].run)
    BY <1>1, <1>3 DEF ProcessOK, CopyIsKept
  <2> QED
    BY <1>5, <1>7, <1>8, <2>2, <2>3, <2>4 DEF CopyIsKept
<1>11. StepsTaken(act[p])'
  <2>1. pc = "build" \/ ~InPipeline(p) => local.evidence = "INCONCLUSIVE"
    BY <1>5 DEF pc
  <2>2. c.mode # "pipeline" => local.evidence \in Result
    BY <1>4, <1>7, <2>1 DEF InPipeline
  <2> QED
    BY <1>6, <1>7, <1>8, <2>1, <2>2 DEF StepsTaken, Buying, Probing, Bought, Attesting, NoResult
<1>12. RowsLeft(act[p])'
  BY <1>6, <1>7, <1>8 DEF RowsLeft, Attesting
<1> QED
  BY <1>1, <1>2, <1>3, <1>6, <1>7, <1>9, <1>10, <1>11, <1>12, SameRows, Arrives DEF queueVars

LEMMA LoadedStatus ==
    ASSUME NEW c, StatusFits(c), c.pc \in Loaded
    PROVE  c.status \in Finalizable
BY StatusSets DEF StatusFits, Loaded, Common, PipelineOnly, Buying, Probing, Attesting, FromAnalyzing, FromCompiled,
       FromProcuring, FromExecuting, FromBuilding

\* A run saved at the expected revision has the status the process remembers.
LEMMA SaveRows ==
    ASSUME OrchestrationInv, NEW p \in Actor, act[p].pc \in Loaded, AtRevision(p),
           NEW to \in Lifecycle!Paid,
           run' = [run EXCEPT ![act[p].run] = Lifecycle!Moved(run[act[p].run], to)],
           UNCHANGED <<job, ledgerVars, storeVars>>,
           to \in Lifecycle!Delivered =>
               /\ pack[act[p].run] # NoResult /\ registry[act[p].run] # NoResult
               /\ checkpoint[act[p].run].attested /\ act[p].run \in attestation
    PROVE  /\ RowsTyped' /\ Grows /\ \A s \in Run : RunOK(s)'
           /\ act[p].run \in Run /\ run[act[p].run].status = act[p].status
           /\ run'[act[p].run] = [status |-> to, revision |-> act[p].revision + 1]
<1> DEFINE r == act[p].run
           new == [status |-> to, revision |-> run[r].revision + 1]
<1>1. r \in Run /\ ProcessOK(p)
  BY RunOfProcess, LoadedPlaces DEF OrchestrationInv
<1>2. run[r].revision \in Nat /\ run[r].revision = act[p].revision
  BY <1>1, RowFieldsOf DEF OrchestrationInv, AtRevision
<1>3. run[r].status = act[p].status /\ run[r].status \in Finalizable
  BY <1>1, <1>2, LoadedStatus DEF ProcessOK, RevisionTells
<1>4. run[r].status \notin Lifecycle!Delivered
  BY <1>3, StatusSets
<1>5. run' = [run EXCEPT ![r] = new]
  BY DEF Lifecycle!Moved
<1>6. new \in [status : Lifecycle!Paid, revision : Nat] /\ new.status = to /\ new.revision = run[r].revision + 1
  BY <1>2
<1> HIDE DEF new
<1>7. /\ run' \in [Run -> [status : Lifecycle!Paid, revision : Nat]] /\ run'[r] = new
      /\ \A s \in Run \ {r} : run'[s] = run[s]
  BY <1>1, <1>5, <1>6 DEF OrchestrationInv, RowsTyped
<1>8. RowsTyped'
  BY <1>7 DEF OrchestrationInv, RowsTyped, ledgerVars, storeVars, targetVars
<1>9. Grows
  <2>1. \A s \in Run : run[s].revision \in Nat
    BY DEF OrchestrationInv, RowsTyped
  <2> QED
    BY <1>2, <1>4, <1>6, <1>7, <2>1 DEF Grows, ledgerVars, storeVars, targetVars
<1>10. ASSUME NEW s \in Run PROVE RunOK(s)'
  <2>1. RunOK(s)
    BY DEF OrchestrationInv
  <2>2. MoneyFits(s)' /\ VerdictFits(s)'
    BY <2>1 DEF RunOK, MoneyFits, VerdictFits, Earned, ledgerVars, storeVars, targetVars
  <2>3. DeliveryFits(s)'
    <3>1. CASE s = r
      BY <1>4, <1>6, <1>7, <2>1, <3>1 DEF RunOK, DeliveryFits, ledgerVars, storeVars
    <3>2. CASE s # r
      BY <1>7, <2>1, <3>2 DEF RunOK, DeliveryFits, ledgerVars, storeVars
    <3> QED
      BY <3>1, <3>2
  <2> QED
    BY <2>2, <2>3 DEF RunOK
<1> QED
  BY <1>1, <1>2, <1>3, <1>7, <1>8, <1>9, <1>10 DEF new

\* Where a step of advance is taken, with what the status must be and what it leads to.
LEMMA AdvanceSteps ==
    ASSUME NEW p, act[p].pc \in DOMAIN Advances(p)
    PROVE  LET step == Advances(p)[act[p].pc] IN
           \/ act[p].pc = "analyze" /\ step.to = "ANALYZING"
              /\ step.next = IF InPipeline(p) THEN "plan" ELSE "build"
           \/ act[p].pc = "compile" /\ InPipeline(p) /\ step.to = "PLAN_COMPILED" /\ step.next = "procure"
           \/ act[p].pc = "procure" /\ InPipeline(p) /\ step.to = "PROCURING" /\ step.next = "authorize"
           \/ act[p].pc = "execute" /\ InPipeline(p) /\ step.to = "EXECUTING" /\ step.next = "present"
           \/ act[p].pc = "build" /\ step.to = "EVIDENCE_BUILDING" /\ step.next = "pack"
           \/ act[p].pc = "attest" /\ step.to = "ATTESTING" /\ step.next = "submit"
<1>1. CASE InPipeline(p)
  <2>1. act[p].pc \in {"analyze", "compile", "procure", "execute", "build", "attest"}
    BY <1>1 DEF Advances, PipelineSteps
  <2> QED
    BY <1>1, <2>1 DEF Advances, PipelineSteps
<1>2. CASE ~InPipeline(p)
  <2>1. act[p].pc \in {"analyze", "build", "attest"}
    BY <1>2 DEF Advances, FinalizerSteps
  <2> QED
    BY <1>2, <2>1 DEF Advances, FinalizerSteps
<1> QED
  BY <1>1, <1>2

\* What advancing from a place to the next needs of the status, and what it leaves.
LEMMA AdvanceFits ==
    ASSUME NEW c, NEW d, StatusFits(c), StepsTaken(c), RowsLeft(c), d.mode = c.mode, d.local = c.local, d.run = c.run,
           NEW to, d.status = IF AtOrAfter(c.status, to) THEN c.status ELSE to,
           \/ c.pc = "analyze" /\ to = "ANALYZING" /\ d.pc = IF c.mode = "pipeline" THEN "plan" ELSE "build"
           \/ c.pc = "compile" /\ c.mode = "pipeline" /\ to = "PLAN_COMPILED" /\ d.pc = "procure"
           \/ c.pc = "procure" /\ c.mode = "pipeline" /\ to = "PROCURING" /\ d.pc = "authorize"
           \/ c.pc = "execute" /\ c.mode = "pipeline" /\ to = "EXECUTING" /\ d.pc = "present"
           \/ c.pc = "build" /\ to = "EVIDENCE_BUILDING" /\ d.pc = "pack"
           \/ c.pc = "attest" /\ to = "ATTESTING" /\ d.pc = "submit"
    PROVE  StatusFits(d) /\ StepsTaken(d) /\ RowsLeft(d)
<1>1. StatusFits(d)
  <2>1. CASE c.pc = "analyze" /\ c.mode = "pipeline"
    BY <2>1, AtOrAfterSets DEF StatusFits, Common, PipelineOnly, Buying, Probing, Attesting, FromAnalyzing
  <2>2. CASE c.pc = "analyze" /\ c.mode # "pipeline"
    BY <2>2, AtOrAfterSets, StatusSets DEF StatusFits, Common, PipelineOnly, Buying, Probing, Attesting, FromAnalyzing
  <2>3. CASE c.pc = "compile" /\ c.mode = "pipeline"
    BY <2>3, AtOrAfterSets DEF StatusFits, Common, PipelineOnly, Buying, Probing, Attesting, FromCompiled, FromAnalyzing
  <2>4. CASE c.pc = "procure" /\ c.mode = "pipeline"
    BY <2>4, AtOrAfterSets DEF StatusFits, Common, PipelineOnly, Buying, Probing, Attesting, FromProcuring,
         FromCompiled, FromAnalyzing
  <2>5. CASE c.pc = "execute" /\ c.mode = "pipeline"
    BY <2>5, AtOrAfterSets DEF StatusFits, Common, PipelineOnly, Buying, Probing, Attesting, FromExecuting,
         FromProcuring, FromCompiled, FromAnalyzing
  <2>6. CASE c.pc = "build"
    BY <2>6, AtOrAfterSets DEF StatusFits, Common, PipelineOnly, Buying, Probing, Attesting, FromBuilding
  <2>7. CASE c.pc = "attest"
    BY <2>7, AtOrAfterSets DEF StatusFits, Common, PipelineOnly, Buying, Probing, Attesting
  <2> QED
    BY <2>1, <2>2, <2>3, <2>4, <2>5, <2>6, <2>7
<1>2. StepsTaken(d)
  BY DEF StepsTaken, Buying, Probing, Attesting, Bought, Result, NoResult
<1>3. RowsLeft(d)
  BY DEF RowsLeft, Attesting
<1> QED
  BY <1>1, <1>2, <1>3

LEMMA AdvanceInv == ASSUME OrchestrationInv, NEW p \in Actor, Advance(p) PROVE OrchestrationInv'
<1> DEFINE step == Advances(p)[act[p].pc]
           to == step.to
           next == step.next
<1>1. act[p].pc \in DOMAIN Advances(p) /\ UNCHANGED <<queueVars, ledgerVars, storeVars>>
  BY DEF Advance, shared
<1>2. \/ act[p].pc = "analyze" /\ to = "ANALYZING" /\ next = IF act[p].mode = "pipeline" THEN "plan" ELSE "build"
      \/ act[p].pc = "compile" /\ act[p].mode = "pipeline" /\ to = "PLAN_COMPILED" /\ next = "procure"
      \/ act[p].pc = "procure" /\ act[p].mode = "pipeline" /\ to = "PROCURING" /\ next = "authorize"
      \/ act[p].pc = "execute" /\ act[p].mode = "pipeline" /\ to = "EXECUTING" /\ next = "present"
      \/ act[p].pc = "build" /\ to = "EVIDENCE_BUILDING" /\ next = "pack"
      \/ act[p].pc = "attest" /\ to = "ATTESTING" /\ next = "submit"
  BY <1>1, AdvanceSteps DEF InPipeline
<1>3. IF AtOrAfter(act[p].status, to) THEN Goto(p, next) /\ UNCHANGED run
      ELSE Save(p, to, [act[p] EXCEPT !.pc = next, !.status = to, !.revision = @ + 1])
  BY DEF Advance
<1>4. /\ next \in Loaded /\ act[p].pc \in Loaded /\ next \in Place /\ act[p].pc \in Place
      /\ to \in FromAnalyzing
  BY <1>2 DEF Loaded, Common, PipelineOnly, Buying, Probing, Attesting, FromAnalyzing, Place
<1> HIDE DEF step, to, next
<1>5. act[p] \in Process /\ act[p].run \in Run /\ ProcessOK(p) /\ act[p].pc # "idle"
  BY <1>4, RunOfProcess, LoadedPlaces DEF OrchestrationInv
<1>6. ASSUME act'[p].mode = act[p].mode, act'[p].local = act[p].local, act'[p].run = act[p].run,
             act'[p].pc = next,
             act'[p].status = IF AtOrAfter(act[p].status, to) THEN act[p].status ELSE to
      PROVE  StatusFits(act[p])' /\ StepsTaken(act[p])' /\ RowsLeft(act[p])'
  <2> DEFINE d == act'[p]
  <2>1. StatusFits(act[p]) /\ StepsTaken(act[p]) /\ RowsLeft(act[p])
    BY <1>5 DEF ProcessOK
  <2>2. StatusFits(d) /\ StepsTaken(d) /\ RowsLeft(d)
    BY <1>2, <1>6, <2>1, AdvanceFits
  <2> QED
    BY <1>1, <2>2 DEF StatusFits, StepsTaken, RowsLeft, ledgerVars, storeVars
<1>7. CASE AtOrAfter(act[p].status, to)
  <2>1. Goto(p, next) /\ UNCHANGED run
    BY <1>3, <1>7
  <2>2. /\ act'[p].mode = act[p].mode /\ act'[p].local = act[p].local /\ act'[p].run = act[p].run
        /\ act'[p].pc = next /\ act'[p].status = act[p].status
    BY <1>4, <1>5, <2>1, Going
  <2>3. StatusFits(act[p])' /\ StepsTaken(act[p])' /\ RowsLeft(act[p])'
    BY <1>6, <1>7, <2>2
  <2> QED
    BY <1>1, <1>4, <2>1, <2>3, WalksQuietly
<1>8. CASE ~AtOrAfter(act[p].status, to)
  <2> DEFINE c == [act[p] EXCEPT !.pc = next, !.status = to, !.revision = @ + 1]
  <2>1. /\ AtRevision(p) /\ run' = [run EXCEPT ![act[p].run] = Lifecycle!Moved(run[act[p].run], to)]
        /\ act' = [act EXCEPT ![p] = c]
    BY <1>3, <1>8 DEF Save
  <2>2. to \in Lifecycle!Paid /\ to \notin Lifecycle!Delivered /\ to \in Finalizable
    BY <1>4, StatusSets
  <2>3. /\ RowsTyped' /\ Grows /\ \A s \in Run : RunOK(s)'
        /\ run'[act[p].run] = [status |-> to, revision |-> act[p].revision + 1]
    BY <1>1, <1>4, <2>1, <2>2, SaveRows DEF queueVars
  <2>4. act[p].revision \in Nat /\ act[p].revision + 1 \in Nat
    BY <1>5, ProcessFields
  <2>5. /\ c \in Process /\ c.pc = next /\ c.status = to /\ c.revision = act[p].revision + 1
        /\ c.run = act[p].run /\ c.mode = act[p].mode /\ c.local = act[p].local /\ c.probe = act[p].probe
    BY <1>4, <1>5, <2>2, <2>4 DEF Process
  <2> HIDE DEF c
  <2>6. ActsAlone(p) /\ act'[p] = c
    BY <1>5, <2>1, <2>5, Replaced
  <2>7. StatusFits(act[p])' /\ StepsTaken(act[p])' /\ RowsLeft(act[p])'
    BY <1>6, <1>8, <2>5, <2>6
  <2>8. RevisionTells(act[p])'
    BY <2>3, <2>4, <2>5, <2>6 DEF RevisionTells
  <2>9. CopyIsKept(act[p])'
    BY <1>1, <1>5, <2>5, <2>6 DEF ProcessOK, CopyIsKept, Earned, ledgerVars, targetVars, storeVars
  <2>10. ResultIsRight(p)' /\ act'[p].pc # "idle"
    BY <1>4, <1>5, <2>5, <2>6, LoadedPlaces DEF ProcessOK, ResultIsRight, InPipeline
  <2> QED
    BY <1>1, <2>3, <2>5, <2>6, <2>7, <2>8, <2>9, <2>10, ActorStep DEF ProcessOK
<1> QED
  BY <1>7, <1>8

LEMMA PlanFields ==
    ASSUME NEW proposal \in Proposal
    PROVE  LET plan == CompileTestPlan(proposal, Mandatory, Ceiling) IN
           plan \in TestPlan(Scenarios) /\ ReplayIsPlanned(plan) /\ plan # NoPlan
<1> DEFINE plan == CompileTestPlan(proposal, Mandatory, Ceiling)
<1>1. plan.scenarios = Mandatory \cup proposal.scenarios /\ plan.scenarios \subseteq Scenarios
  BY DEF CompileTestPlan, Scenarios
<1>2. plan.budget \in 0..Ceiling
  BY ProposalAssumption, CeilingAssumption DEF CompileTestPlan
<1>3. plan = [scenarios |-> plan.scenarios, budget |-> plan.budget]
  BY DEF CompileTestPlan
<1>4. plan \in TestPlan(Scenarios)
  BY <1>1, <1>2, <1>3 DEF TestPlan
<1>5. ReplayIsPlanned(plan)
  BY <1>1, MandatoryAssumption DEF ReplayIsPlanned
<1>6. plan # NoPlan
  BY <1>5 DEF ReplayIsPlanned, NoPlan
<1> QED
  BY <1>4, <1>5, <1>6

LEMMA PlanInv == ASSUME OrchestrationInv, NEW p \in Actor, Plan(p) PROVE OrchestrationInv'
<1>1. /\ act[p].pc = "plan" /\ UNCHANGED <<queueVars, run, ledgerVars, pack, attestation>>
  BY DEF Plan, At, shared
<1>2. act[p] \in Process /\ act[p].run \in Run /\ ProcessOK(p) /\ act[p].pc \in Loaded
  BY <1>1, RunOfProcess DEF OrchestrationInv, Loaded, PipelineOnly
<1>3. act[p].mode = "pipeline" /\ act[p].status \in FromAnalyzing
  BY <1>1, <1>2 DEF ProcessOK, StatusFits, Common, Attesting
<1>4. "compile" \in Loaded /\ "compile" \in Place
  BY DEF Loaded, PipelineOnly, Place
<1>5. ASSUME act'[p].pc = "compile", act'[p].mode = act[p].mode, act'[p].status = act[p].status,
             act'[p].run = act[p].run, ReplayIsPlanned(act'[p].local.plan)
      PROVE  StatusFits(act[p])' /\ StepsTaken(act[p])' /\ RowsLeft(act[p])'
  BY <1>3, <1>5 DEF StatusFits, StepsTaken, RowsLeft, PipelineOnly, Common, Buying, Probing, Attesting, Bought,
       ReplayIsPlanned
<1>6. CASE act[p].local.plan # NoPlan
  <2>1. Goto(p, "compile") /\ UNCHANGED checkpoint
    BY <1>6 DEF Plan
  <2>2. ReplayIsPlanned(act[p].local.plan)
    BY <1>1, <1>2, <1>6 DEF ProcessOK, CopyIsKept
  <2>3. /\ act'[p].mode = act[p].mode /\ act'[p].local = act[p].local /\ act'[p].run = act[p].run
        /\ act'[p].pc = "compile" /\ act'[p].status = act[p].status
    BY <1>1, <1>4, <2>1, Going
  <2> QED
    BY <1>1, <1>2, <1>4, <1>5, <2>1, <2>2, <2>3, WalksQuietly DEF storeVars
<1>7. CASE act[p].local.plan = NoPlan
  <2>1. PICK proposal \in Proposal :
          LET plan == CompileTestPlan(proposal, Mandatory, Ceiling) IN
          /\ Merge(act[p].run, [EmptyCheckpoint EXCEPT !.plan = plan])
          /\ act' = [act EXCEPT ![p].local.plan = plan, ![p].pc = "compile"]
    BY <1>7 DEF Plan
  <2> DEFINE plan == CompileTestPlan(proposal, Mandatory, Ceiling)
             patch == [EmptyCheckpoint EXCEPT !.plan = plan]
             local == [act[p].local EXCEPT !.plan = plan]
             c == [act[p] EXCEPT !.local = local, !.pc = "compile"]
  <2>2. plan \in TestPlan(Scenarios) /\ ReplayIsPlanned(plan)
    BY PlanFields
  <2>3. Merge(act[p].run, patch) /\ act' = [act EXCEPT ![p].local.plan = plan, ![p].pc = "compile"]
    BY <2>1
  <2> HIDE DEF plan
  <2>4. patch \in Copy /\ patch.plan = plan /\ patch.evidence = NoResult /\ patch.attested = FALSE
    BY <2>2, EmptyFields DEF Copy, CheckpointRow
  <2>5. act[p].local \in Copy
    BY <1>2, ProcessFields
  <2>6. /\ local \in Copy /\ local.plan = plan /\ local.payment = act[p].local.payment
        /\ local.refundNonce = act[p].local.refundNonce /\ local.attested = act[p].local.attested
        /\ local.evidence = act[p].local.evidence
    BY <2>2, <2>5 DEF Copy, CheckpointRow
  <2>7. act' = [act EXCEPT ![p] = c]
    BY <2>3
  <2> HIDE DEF patch, local
  <2>8. /\ c \in Process /\ c.pc = "compile" /\ c.run = act[p].run /\ c.mode = act[p].mode
        /\ c.status = act[p].status /\ c.revision = act[p].revision
        /\ c.local = local /\ c.probe = act[p].probe
    BY <1>2, <1>4, <2>6 DEF Process
  <2> HIDE DEF c
  <2>9. act'[p] = c
    BY <1>1, <2>7, <2>8, Replaced
  <2>10. RowsTyped' /\ Grows /\ \A s \in Run : RunOK(s)'
    BY <1>1, <1>2, <2>2, <2>3, <2>4, MergeRows DEF queueVars, NoResult
  <2>11. CopyIsKept(act[p])'
    <3>1. CopyIsKept(act[p])
      BY <1>2 DEF ProcessOK
    <3>2. Earned(act[p].run) => Earned(act[p].run)'
      BY <1>1, <2>8, <2>9 DEF Earned, ledgerVars, targetVars
    <3> QED
      BY <1>1, <1>2, <2>2, <2>6, <2>8, <2>9, <2>10, <3>1, <3>2 DEF CopyIsKept, Grows
  <2>12. StatusFits(act[p])' /\ StepsTaken(act[p])' /\ RowsLeft(act[p])'
    BY <1>5, <2>2, <2>6, <2>8, <2>9
  <2> QED
    BY <1>1, <1>2, <1>4, <2>7, <2>8, <2>10, <2>11, <2>12, Arrives
<1> QED
  BY <1>6, <1>7

\* In the pipeline from authorize to execute, going on to another of these steps.
LEMMA BuyingFits ==
    ASSUME NEW c, NEW d, StatusFits(c), StepsTaken(c), c.pc \in Buying, d.pc \in Bought \cap Buying,
           d.mode = c.mode, d.status = c.status, d.local.plan = c.local.plan,
           d.local.payment # NoPayment,
           d.pc \in {"checkNonce", "sendRefund"} => d.local.refundNonce # NoNonce
    PROVE  StatusFits(d) /\ StepsTaken(d) /\ RowsLeft(d)
BY DEF StatusFits, StepsTaken, RowsLeft, PipelineOnly, Common, Buying, Probing, Attesting, Bought

LEMMA BuyingPlaces ==
    /\ Buying \subseteq Loaded /\ Buying \subseteq Place
    /\ Bought \cap Buying = {"refund", "checkNonce", "sendRefund", "saveRefund", "execute"}
    /\ "authorize" \in Buying /\ "idle" \notin Buying
BY DEF Loaded, PipelineOnly, Buying, Place, Bought, Probing

\* Fits of the new record in the new state.
LEMMA FitsCarry ==
    ASSUME NEW p, UNCHANGED <<pack, attestation, checkpoint, registry>>,
           StatusFits(act'[p]), StepsTaken(act'[p]), RowsLeft(act'[p])
    PROVE  StatusFits(act[p])' /\ StepsTaken(act[p])' /\ RowsLeft(act[p])'
BY DEF StatusFits, StepsTaken, RowsLeft

\* Before the evidence is packed nothing is asked of the rows.
LEMMA EarlyFits ==
    ASSUME NEW p, StatusFits(act'[p]), StepsTaken(act'[p]), act'[p].pc \notin {"attest"} \cup Attesting
    PROVE  StatusFits(act[p])' /\ StepsTaken(act[p])' /\ RowsLeft(act[p])'
BY DEF StatusFits, StepsTaken, RowsLeft, Attesting

\* Walking on among these steps.
LEMMA BuysOn ==
    ASSUME OrchestrationInv, NEW p \in Actor, act[p].pc \in Bought \cap Buying,
           NEW pc \in Bought \cap Buying, Goto(p, pc),
           pc \in {"checkNonce", "sendRefund"} => act[p].local.refundNonce # NoNonce,
           UNCHANGED <<queueVars, run>>, RowsTyped', Grows, \A r \in Run : RunOK(r)'
    PROVE  OrchestrationInv'
<1>1. act[p].pc \in Buying /\ act[p].pc \in Loaded /\ pc \in Loaded /\ pc \in Place /\ act[p].pc # "idle"
  BY BuyingPlaces
<1>2. ProcessOK(p)
  BY DEF OrchestrationInv
<1>3. /\ act'[p].pc = pc /\ act'[p].mode = act[p].mode /\ act'[p].status = act[p].status
      /\ act'[p].local = act[p].local
  BY <1>1, Going
<1>4. act[p].local.payment # NoPayment
  BY <1>2 DEF ProcessOK, StepsTaken
<1>5. StatusFits(act'[p]) /\ StepsTaken(act'[p])
  <2> DEFINE c == act[p]
             d == act'[p]
  <2>1. StatusFits(c) /\ StepsTaken(c)
    BY <1>2 DEF ProcessOK
  <2>2. d.pc \in Bought \cap Buying /\ d.mode = c.mode /\ d.status = c.status /\ d.local = c.local
    BY <1>3
  <2> QED
    BY <1>1, <1>3, <1>4, <2>1, <2>2, BuyingFits
<1>6. StatusFits(act[p])' /\ StepsTaken(act[p])' /\ RowsLeft(act[p])'
  BY <1>3, <1>5, BuyingPlaces, EarlyFits DEF Attesting
<1> QED
  BY <1>1, <1>6, Walks

\* Going on from one of these steps with more in the copy than before.
LEMMA BuysWith ==
    ASSUME OrchestrationInv, NEW p \in Actor, act[p].pc \in Buying, NEW pc \in Bought \cap Buying,
           NEW local \in Copy, act' = [act EXCEPT ![p] = [act[p] EXCEPT !.local = local, !.pc = pc]],
           local.plan = act[p].local.plan, local.evidence = act[p].local.evidence,
           local.attested = act[p].local.attested,
           local.payment # NoPayment, local.payment = checkpoint'[act[p].run].payment,
           local.refundNonce # NoNonce => local.refundNonce = checkpoint'[act[p].run].refundNonce,
           pc \in {"checkNonce", "sendRefund"} => local.refundNonce # NoNonce,
           UNCHANGED <<queueVars, run, ledgerVars>>, RowsTyped', Grows, \A r \in Run : RunOK(r)'
    PROVE  OrchestrationInv'
<1> DEFINE c == [act[p] EXCEPT !.local = local, !.pc = pc]
<1>1. /\ act[p].pc \in Loaded /\ pc \in Loaded /\ pc \in Place /\ act[p].pc # "idle"
  BY BuyingPlaces
<1>2. ProcessOK(p) /\ act[p] \in Process /\ act[p].run \in Run
  BY <1>1, RunOfProcess DEF OrchestrationInv
<1>3. /\ c \in Process /\ c.pc = pc /\ c.run = act[p].run /\ c.mode = act[p].mode
      /\ c.status = act[p].status /\ c.revision = act[p].revision
      /\ c.local = local /\ c.probe = act[p].probe
  BY <1>1, <1>2 DEF Process
<1>4. act' = [act EXCEPT ![p] = c]
  OBVIOUS
<1> HIDE DEF c
<1>5. act'[p] = c
  BY <1>1, <1>3, <1>4, Replaced
<1>6. StatusFits(c) /\ StepsTaken(c)
  <2>1. StatusFits(act[p]) /\ StepsTaken(act[p])
    BY <1>2 DEF ProcessOK
  <2>2. c.pc \in Bought \cap Buying
    BY <1>3
  <2> QED
    BY <1>3, <2>1, <2>2, BuyingFits
<1>7. StatusFits(act[p])' /\ StepsTaken(act[p])' /\ RowsLeft(act[p])'
  BY <1>3, <1>5, <1>6, BuyingPlaces, EarlyFits DEF Attesting
<1>8. CopyIsKept(act[p])'
  <2>1. CopyIsKept(act[p])
    BY <1>2 DEF ProcessOK
  <2>2. Earned(act[p].run) => Earned(act[p].run)'
    BY <1>3, <1>5 DEF Earned, ledgerVars, targetVars
  <2> QED
    BY <1>1, <1>2, <1>3, <1>5, <2>1, <2>2 DEF CopyIsKept, Grows
<1> QED
  BY <1>1, <1>3, <1>4, <1>7, <1>8, Arrives

LEMMA AcquireInv == ASSUME OrchestrationInv, NEW p \in Actor, Acquire(p) PROVE OrchestrationInv'
<1> DEFINE r == act[p].run
<1>1. act[p].pc = "authorize" /\ UNCHANGED <<queueVars, run, ledgerVars, pack, attestation>>
  BY DEF Acquire, At, shared
<1>2. act[p] \in Process /\ r \in Run /\ ProcessOK(p) /\ act[p].pc \in Buying /\ act[p].local \in Copy
  BY <1>1, RunOfProcess, ProcessFields, BuyingPlaces DEF OrchestrationInv
<1>3. checkpoint[r] \in Copy
  BY <1>2, RowFieldsOf DEF OrchestrationInv
<1>4. CASE act[p].local.payment # NoPayment
  <2>1. Goto(p, "refund") /\ UNCHANGED checkpoint
    BY <1>4 DEF Acquire
  <2>2. act'[p].local = act[p].local /\ act'[p].pc = "refund" /\ act'[p].mode = act[p].mode
        /\ act'[p].status = act[p].status
    BY <1>1, <2>1, Going DEF Place
  <2>3. StatusFits(act'[p]) /\ StepsTaken(act'[p])
    <3> DEFINE c == act[p]
               d == act'[p]
    <3>1. StatusFits(c) /\ StepsTaken(c)
      BY <1>2 DEF ProcessOK
    <3>2. d.pc \in Bought \cap Buying /\ d.pc = "refund"
      BY <2>2, BuyingPlaces
    <3> QED
      BY <1>2, <1>4, <2>2, <3>1, <3>2, BuyingFits
  <2>4. StatusFits(act[p])' /\ StepsTaken(act[p])' /\ RowsLeft(act[p])'
    BY <2>2, <2>3, EarlyFits DEF Attesting
  <2>5. "refund" \in Loaded /\ act[p].pc \in Loaded
    BY <1>2, BuyingPlaces
  <2> QED
    BY <1>1, <2>1, <2>4, <2>5, WalksQuietly DEF storeVars
<1>5. CASE act[p].local.payment = NoPayment
  <2>1. PICK price \in Price :
          /\ Payable(price, act[p].local.plan)
          /\ Merge(r, [EmptyCheckpoint EXCEPT !.payment = Signed(p, price)])
          /\ act' = [act EXCEPT ![p].local.payment = Kept(r, Signed(p, price)), ![p].pc = "refund"]
    BY <1>5 DEF Acquire
  <2> DEFINE signed == Signed(p, price)
             kept == Kept(r, signed)
             patch == [EmptyCheckpoint EXCEPT !.payment = signed]
             local == [act[p].local EXCEPT !.payment = kept]
  <2>2. signed \in Payment
    <3>1. act[p].local.plan.budget \in 0..Ceiling
      BY <1>2, CopyFields DEF TestPlan
    <3>2. price <= Ceiling
      BY <2>1, <3>1, CeilingAssumption DEF Payable
    <3> QED
      BY <3>2 DEF Signed, Payment
  <2>3. Merge(r, patch) /\ act' = [act EXCEPT ![p].local.payment = kept, ![p].pc = "refund"]
    BY <2>1
  <2> HIDE DEF signed
  <2>4. /\ patch \in Copy /\ patch.payment = signed /\ patch.plan = NoPlan
        /\ patch.evidence = NoResult /\ patch.attested = FALSE
    BY <2>2, EmptyFields DEF Copy, CheckpointRow
  <2> HIDE DEF patch
  <2>5. RowsTyped' /\ Grows /\ (\A s \in Run : RunOK(s)') /\ checkpoint'[r] = Coalesce(checkpoint[r], patch)
    BY <1>1, <1>2, <2>3, <2>4, MergeRows DEF queueVars, NoResult
  <2>6. kept = checkpoint'[r].payment /\ kept \in Payment
    <3>1. checkpoint'[r].payment
            = IF checkpoint[r].payment = NoPayment THEN signed ELSE checkpoint[r].payment
      BY <1>3, <2>4, <2>5, CoalesceFields
    <3>2. checkpoint[r].payment \in Payment \cup {NoPayment}
      BY <1>3, CopyFields
    <3> QED
      BY <2>2, <3>1, <3>2 DEF Kept
  <2> HIDE DEF kept
  <2>7. /\ local \in Copy /\ local.payment = kept /\ local.plan = act[p].local.plan
        /\ local.refundNonce = act[p].local.refundNonce /\ local.attested = act[p].local.attested
        /\ local.evidence = act[p].local.evidence
    BY <1>2, <2>6 DEF Copy, CheckpointRow
  <2>8. act' = [act EXCEPT ![p] = [act[p] EXCEPT !.local = local, !.pc = "refund"]]
    BY <2>3
  <2> HIDE DEF local
  <2>9. local.refundNonce # NoNonce => local.refundNonce = checkpoint'[r].refundNonce
    BY <1>1, <1>2, <2>5, <2>7 DEF ProcessOK, CopyIsKept, Grows
  <2>10. "refund" \in Bought \cap Buying /\ kept # NoPayment
    BY <2>6, BuyingPlaces, PaymentFields
  <2> QED
    BY <1>1, <1>2, <2>5, <2>6, <2>7, <2>8, <2>9, <2>10, BuysWith
<1> QED
  BY <1>4, <1>5

LEMMA ReserveNonceInv ==
    ASSUME OrchestrationInv, NEW p \in Actor, ReserveNonce(p) PROVE OrchestrationInv'
<1> DEFINE r == act[p].run
<1>1. act[p].pc = "refund" /\ UNCHANGED <<queueVars, run, ledgerVars, pack, attestation>>
  BY DEF ReserveNonce, At, shared
<1>2. /\ act[p] \in Process /\ r \in Run /\ ProcessOK(p) /\ act[p].pc \in Buying
      /\ act[p].pc \in Bought \cap Buying /\ act[p].local \in Copy
  BY <1>1, RunOfProcess, ProcessFields, BuyingPlaces DEF OrchestrationInv
<1>3. checkpoint[r] \in Copy /\ nonce \in Nat
  BY <1>2, RowFieldsOf DEF OrchestrationInv, RowsTyped
<1>4. ASSUME UNCHANGED checkpoint PROVE RowsTyped' /\ Grows /\ \A s \in Run : RunOK(s)'
  BY <1>1, <1>4, SameRows DEF queueVars, storeVars
<1>5. CASE ~RefundIsDue(p)
  <2>1. Goto(p, "execute") /\ UNCHANGED checkpoint
    BY <1>5 DEF ReserveNonce
  <2> QED
    BY <1>1, <1>2, <1>4, <2>1, BuysOn, BuyingPlaces
<1>6. CASE RefundIsDue(p) /\ act[p].local.refundNonce # NoNonce
  <2>1. Goto(p, "checkNonce") /\ UNCHANGED checkpoint
    BY <1>6 DEF ReserveNonce
  <2> QED
    BY <1>1, <1>2, <1>4, <1>6, <2>1, BuysOn, BuyingPlaces
<1>7. CASE RefundIsDue(p) /\ act[p].local.refundNonce = NoNonce
  <2>1. /\ Merge(r, [EmptyCheckpoint EXCEPT !.refundNonce = nonce])
        /\ act' = [act EXCEPT ![p].local.refundNonce = KeptNonce(r, nonce), ![p].pc = "checkNonce"]
    BY <1>7 DEF ReserveNonce
  <2> DEFINE kept == KeptNonce(r, nonce)
             patch == [EmptyCheckpoint EXCEPT !.refundNonce = nonce]
             local == [act[p].local EXCEPT !.refundNonce = kept]
  <2>2. Merge(r, patch) /\ act' = [act EXCEPT ![p].local.refundNonce = kept, ![p].pc = "checkNonce"]
    BY <2>1
  <2>3. /\ patch \in Copy /\ patch.refundNonce = nonce /\ patch.plan = NoPlan
        /\ patch.evidence = NoResult /\ patch.attested = FALSE
    BY <1>3, EmptyFields DEF Copy, CheckpointRow
  <2> HIDE DEF patch
  <2>4. RowsTyped' /\ Grows /\ (\A s \in Run : RunOK(s)') /\ checkpoint'[r] = Coalesce(checkpoint[r], patch)
    BY <1>1, <1>2, <2>2, <2>3, MergeRows DEF queueVars, NoResult
  <2>5. kept = checkpoint'[r].refundNonce /\ kept \in Nat /\ kept # NoNonce
    <3>1. checkpoint'[r].refundNonce
            = IF checkpoint[r].refundNonce = NoNonce THEN nonce ELSE checkpoint[r].refundNonce
      BY <1>3, <2>3, <2>4, CoalesceFields
    <3>2. checkpoint[r].refundNonce \in Nat \cup {NoNonce}
      BY <1>3, CopyFields
    <3>3. kept = checkpoint'[r].refundNonce /\ kept \in Nat
      BY <1>3, <3>1, <3>2 DEF KeptNonce
    <3> HIDE DEF kept
    <3>4. kept # NoNonce
      BY <3>3 DEF NoNonce
    <3> QED
      BY <3>3, <3>4
  <2> HIDE DEF kept
  <2>6. /\ local \in Copy /\ local.refundNonce = kept /\ local.plan = act[p].local.plan
        /\ local.payment = act[p].local.payment /\ local.attested = act[p].local.attested
        /\ local.evidence = act[p].local.evidence
    BY <1>2, <2>5 DEF Copy, CheckpointRow
  <2>7. act' = [act EXCEPT ![p] = [act[p] EXCEPT !.local = local, !.pc = "checkNonce"]]
    BY <2>2
  <2> HIDE DEF local
  <2>8. local.payment # NoPayment /\ local.payment = checkpoint'[r].payment
    BY <1>1, <1>2, <2>4, <2>6 DEF ProcessOK, StepsTaken, CopyIsKept, Grows
  <2>9. "checkNonce" \in Bought \cap Buying
    BY BuyingPlaces
  <2>10. local.refundNonce # NoNonce /\ local.refundNonce = checkpoint'[r].refundNonce
    BY <2>5, <2>6
  <2> QED
    BY <1>1, <1>2, <2>4, <2>6, <2>7, <2>8, <2>9, <2>10, BuysWith
<1> QED
  BY <1>5, <1>6, <1>7

LEMMA CheckNonceInv ==
    ASSUME OrchestrationInv, NEW p \in Actor, CheckNonce(p) PROVE OrchestrationInv'
<1>1. act[p].pc = "checkNonce" /\ UNCHANGED <<queueVars, run, ledgerVars, storeVars>>
  BY DEF CheckNonce, At, shared
<1>2. /\ ProcessOK(p) /\ act[p].pc \in Bought \cap Buying /\ act[p].pc # "idle"
  BY <1>1, BuyingPlaces DEF OrchestrationInv
<1>3. CASE nonce > act[p].local.refundNonce
  <2>1. act' = [act EXCEPT ![p] = Ends(p, "DEAD_LETTER", "PAYMENT_SEND_AMBIGUOUS")]
    BY <1>3 DEF CheckNonce
  <2>2. InPipeline(p)
    BY <1>1, <1>2 DEF ProcessOK, StatusFits, InPipeline, Common, Attesting
  <2>3. p \in Actor \ Script /\ "PAYMENT_SEND_AMBIGUOUS" \in Code
    BY <1>2, <2>2, PipelineIsAWorkers DEF Code
  <2> QED
    BY <1>1, <1>2, <2>1, <2>3, EndingQuietly
<1>4. CASE ~(nonce > act[p].local.refundNonce)
  <2>1. Goto(p, "sendRefund")
    BY <1>4 DEF CheckNonce, Goto
  <2>2. act[p].local.refundNonce # NoNonce
    BY <1>1, <1>2 DEF ProcessOK, StepsTaken
  <2>3. RowsTyped' /\ Grows /\ \A s \in Run : RunOK(s)'
    BY <1>1, SameRows DEF queueVars
  <2> QED
    BY <1>1, <1>2, <2>1, <2>2, <2>3, BuysOn, BuyingPlaces
<1> QED
  BY <1>3, <1>4

LEMMA SendRefundInv ==
    ASSUME OrchestrationInv, NEW p \in Actor, SendRefund(p) PROVE OrchestrationInv'
<1> DEFINE r == act[p].run
           due == RefundDue(Ceiling, AmountOf(act[p].local.payment))
<1>1. /\ act[p].pc = "sendRefund" /\ act[p].local.refundNonce = nonce /\ Goto(p, "saveRefund")
      /\ nonce' = nonce + 1 /\ refunds' = [refunds EXCEPT ![r] = @ + due]
      /\ UNCHANGED <<queueVars, run, targetVars, registry, paused, storeVars>>
  BY DEF SendRefund, At, shared
<1>2. /\ act[p] \in Process /\ r \in Run /\ ProcessOK(p) /\ act[p].pc \in Bought \cap Buying
      /\ act[p].local \in Copy
  BY <1>1, RunOfProcess, ProcessFields, BuyingPlaces DEF OrchestrationInv
<1>3. checkpoint[r] \in Copy /\ nonce \in Nat /\ refunds[r] \in Nat /\ RunOK(r)
  BY <1>2, RowFieldsOf DEF OrchestrationInv, RowsTyped
<1>4. /\ act[p].local.payment # NoPayment /\ act[p].local.payment = checkpoint[r].payment
      /\ nonce # NoNonce /\ checkpoint[r].refundNonce = nonce
  BY <1>1, <1>2 DEF ProcessOK, StepsTaken, CopyIsKept
<1>5. checkpoint[r].payment \in Payment
  BY <1>3, <1>4, CopyFields
<1>6. due = Ceiling - checkpoint[r].payment.amount /\ due \in Nat
  BY <1>4, <1>5, PaymentFields DEF RefundDue, AmountOf
<1>7. refunds[r] = 0
  BY <1>3, <1>4 DEF RunOK, MoneyFits
<1> HIDE DEF due
<1>8. /\ refunds' \in [Run -> Nat] /\ refunds'[r] = due
      /\ \A s \in Run \ {r} : refunds'[s] = refunds[s]
  BY <1>1, <1>2, <1>6, <1>7 DEF OrchestrationInv, RowsTyped
<1>9. RowsTyped'
  BY <1>1, <1>3, <1>8 DEF OrchestrationInv, RowsTyped, storeVars, targetVars
<1>10. Grows
  <2>1. \A s \in Run : run[s].revision \in Nat
    BY DEF OrchestrationInv, RowsTyped
  <2> QED
    BY <1>1, <2>1 DEF Grows, storeVars, targetVars
<1>11. ASSUME NEW s \in Run PROVE RunOK(s)'
  <2>1. RunOK(s)
    BY DEF OrchestrationInv
  <2>2. VerdictFits(s)' /\ DeliveryFits(s)'
    BY <1>1, <2>1 DEF RunOK, VerdictFits, DeliveryFits, Earned, storeVars, targetVars, queueVars
  <2>3. MoneyFits(s)'
    <3>1. CASE s = r
      BY <1>1, <1>3, <1>4, <1>6, <1>8, <2>1, <3>1 DEF RunOK, MoneyFits, storeVars, targetVars
    <3>2. CASE s # r
      <4>1. refunds'[s] = refunds[s] /\ checkpoint' = checkpoint
            /\ UNCHANGED <<presented, settled>>
        BY <1>1, <1>8, <3>2 DEF storeVars, targetVars
      <4>2. checkpoint[s].refundNonce \in Nat \cup {NoNonce}
        BY RowFieldsOf, CopyFields DEF OrchestrationInv
      <4>3. checkpoint[s].refundNonce # NoNonce /\ checkpoint[s].refundNonce < nonce
            => checkpoint[s].refundNonce < nonce'
        BY <1>1, <1>3, <4>2
      <4> QED
        BY <2>1, <4>1, <4>3 DEF RunOK, MoneyFits
    <3> QED
      BY <3>1, <3>2
  <2> QED
    BY <2>2, <2>3 DEF RunOK
<1> QED
  BY <1>1, <1>2, <1>9, <1>10, <1>11, BuysOn, BuyingPlaces

LEMMA SaveRefundInv ==
    ASSUME OrchestrationInv, NEW p \in Actor, SaveRefund(p) PROVE OrchestrationInv'
<1> DEFINE patch == [EmptyCheckpoint EXCEPT !.refunded = TRUE]
<1>1. /\ act[p].pc = "saveRefund" /\ Goto(p, "execute") /\ Merge(act[p].run, patch)
      /\ UNCHANGED <<queueVars, run, ledgerVars, pack, attestation>>
  BY DEF SaveRefund, At, shared
<1>2. act[p].run \in Run /\ act[p].pc \in Bought \cap Buying
  BY <1>1, RunOfProcess, BuyingPlaces DEF OrchestrationInv
<1>3. patch \in Copy /\ patch.plan = NoPlan /\ patch.evidence = NoResult /\ patch.attested = FALSE
  BY EmptyFields DEF Copy, CheckpointRow
<1> HIDE DEF patch
<1>4. RowsTyped' /\ Grows /\ \A s \in Run : RunOK(s)'
  BY <1>1, <1>2, <1>3, MergeRows DEF queueVars, NoResult
<1> QED
  BY <1>1, <1>2, <1>4, BuysOn, BuyingPlaces

-----------------------------------------------------------------------------
(* The probes. *)

LEMMA PaidResourceAnswers ==
    ASSUME NEW r, NEW settlement
    PROVE  /\ PaidResource(r \in protected, Verifies(r), settlement) \in {200, 402, 409}
           /\ PaidResource(r \in protected, Verifies(r), settlement) \in {402, 409} => Earned(r)
BY DEF PaidResource, Earned, Verifies

\* What the target is sent and what it collects is the checkpointed authorization, and it
\* refuses for a good reason.
LEMMA RequestRows ==
    ASSUME OrchestrationInv, NEW p \in Actor, act[p].pc \in {"present", "replay"},
           NEW response \in {NoResponse, 200, 402, 409}, Request(p, response),
           UNCHANGED <<job, run, nonce, refunds, protected, expired, registry, paused, storeVars>>
    PROVE  /\ RowsTyped' /\ Grows /\ \A s \in Run : RunOK(s)'
           /\ response \in {402, 409} => Earned(act[p].run)
<1> DEFINE r == act[p].run
           payment == act[p].local.payment
<1>1. /\ act[p] \in Process /\ r \in Run /\ ProcessOK(p) /\ act[p].local \in Copy
  BY RunOfProcess, ProcessFields DEF OrchestrationInv
<1>2. payment # NoPayment /\ payment = checkpoint[r].payment /\ payment \in Payment
  <2>1. payment # NoPayment
    BY <1>1 DEF ProcessOK, StepsTaken, Bought, Probing
  <2> QED
    BY <1>1, <2>1, CopyFields DEF ProcessOK, CopyIsKept
<1>3. RunOK(r) /\ presented[r] \subseteq Payment /\ settled[r] \subseteq Payment
  BY <1>1, RowFieldsOf DEF OrchestrationInv
<1>4. /\ \A s \in Run \ {r} : presented'[s] = presented[s] /\ settled'[s] = settled[s]
      /\ presented'[r] \subseteq presented[r] \cup {payment}
      /\ settled'[r] \subseteq settled[r] \cup {payment} /\ settled'[r] \subseteq presented'[r]
      /\ presented' \in [Run -> SUBSET Payment] /\ settled' \in [Run -> SUBSET Payment]
      /\ response \in {402, 409} => Earned(r)
  <2>1. presented \in [Run -> SUBSET Payment] /\ settled \in [Run -> SUBSET Payment]
        /\ settled[r] \subseteq presented[r]
    BY <1>3 DEF OrchestrationInv, RowsTyped, RunOK, MoneyFits
  <2>2. CASE response = NoResponse /\ UNCHANGED <<presented, settled>>
    BY <2>1, <2>2 DEF NoResponse
  <2>3. ASSUME NEW settlement \in Settlements(payment, settled[r]),
               response \in {NoResponse, PaidResource(r \in protected, Verifies(r), settlement)},
               presented' = [presented EXCEPT ![r] = @ \cup {payment}],
               settled' = IF Verifies(r) THEN [settled EXCEPT ![r] = Collected(@, payment, settlement)]
                          ELSE settled
        PROVE  <1>4!:
    <3>1. Collected(settled[r], payment, settlement) \subseteq settled[r] \cup {payment}
          /\ Collected(settled[r], payment, settlement) \subseteq Payment
      BY <1>2, <1>3 DEF Collected
    <3>2. presented' \in [Run -> SUBSET Payment] /\ presented'[r] = presented[r] \cup {payment}
          /\ \A s \in Run \ {r} : presented'[s] = presented[s]
      BY <1>1, <1>2, <1>3, <2>1, <2>3
    <3>3. settled' \in [Run -> SUBSET Payment] /\ settled'[r] \subseteq settled[r] \cup {payment}
          /\ \A s \in Run \ {r} : settled'[s] = settled[s]
      BY <1>1, <2>1, <2>3, <3>1
    <3>4. response \in {402, 409} => Earned(r)
      BY <2>3, PaidResourceAnswers DEF NoResponse
    <3> QED
      BY <2>1, <3>2, <3>3, <3>4
  <2> QED
    BY <2>2, <2>3 DEF Request
<1>5. RowsTyped'
  BY <1>4 DEF OrchestrationInv, RowsTyped, storeVars
<1>6. Grows
  <2>1. \A s \in Run : run[s].revision \in Nat
    BY DEF OrchestrationInv, RowsTyped
  <2> QED
    BY <2>1 DEF Grows, storeVars
<1>7. ASSUME NEW s \in Run PROVE RunOK(s)'
  <2>1. RunOK(s)
    BY DEF OrchestrationInv
  <2>2. VerdictFits(s)' /\ DeliveryFits(s)'
    BY <2>1 DEF RunOK, VerdictFits, DeliveryFits, Earned, storeVars
  <2>3. MoneyFits(s)'
    <3>1. CASE s = r
      BY <1>2, <1>4, <2>1, <3>1 DEF RunOK, MoneyFits, storeVars
    <3>2. CASE s # r
      BY <1>4, <2>1, <3>2 DEF RunOK, MoneyFits, storeVars
    <3> QED
      BY <3>1, <3>2
  <2> QED
    BY <2>2, <2>3 DEF RunOK
<1> QED
  BY <1>4, <1>5, <1>6, <1>7

LEMMA ReplayResults ==
    ASSUME NEW response \in {NoResponse, 200, 402, 409}
    PROVE  /\ Receipted(response, ReplayResult(response, NoResponse))
                  \in {"FAIL", "INCONCLUSIVE", Unanswered}
           /\ ReplayResult(200, response) \in Result
           /\ ReplayResult(200, response) = "PASS" => response \in {402, 409}
<1>1. Success(200) /\ ~Success(402) /\ ~Success(409) /\ ~Success(0)
  BY DEF Success
<1> QED
  BY <1>1 DEF Receipted, ReplayResult, Result, ReplayRejections, NoResponse

\* In the pipeline from present to build, with a result of the probe.
LEMMA ProbingFits ==
    ASSUME NEW c, NEW d, StatusFits(c), StepsTaken(c), c.pc \in Probing, d.pc \in Probing \cup {"build"},
           d.mode = c.mode, d.status = c.status, d.local.plan = c.local.plan,
           d.local.payment = c.local.payment, d.pc = "save" => d.probe # NoResult,
           d.pc = "build" => d.local.evidence # NoResult
    PROVE  StatusFits(d) /\ StepsTaken(d) /\ d.pc \notin {"attest"} \cup Attesting
BY DEF StatusFits, StepsTaken, PipelineOnly, Common, Buying, Probing, Attesting, Bought

LEMMA ProbingPlaces == Probing \cup {"build"} \subseteq Loaded \cap Place
BY DEF Loaded, PipelineOnly, Probing, Place, Common

\* A probe's answer.
ProbedAs(c, pc, probe) == [c EXCEPT !.pc = pc, !.probe = probe]

LEMMA Probed ==
    ASSUME NEW b \in Process, NEW pc \in Place, NEW probe \in Result \cup {Unanswered}
    PROVE  /\ ProbedAs(b, pc, probe) \in Process
           /\ ProbedAs(b, pc, probe).pc = pc /\ ProbedAs(b, pc, probe).run = b.run
           /\ ProbedAs(b, pc, probe).mode = b.mode /\ ProbedAs(b, pc, probe).status = b.status
           /\ ProbedAs(b, pc, probe).revision = b.revision
           /\ ProbedAs(b, pc, probe).local = b.local /\ ProbedAs(b, pc, probe).probe = probe
BY DEF ProbedAs, Process

LEMMA Probes ==
    ASSUME OrchestrationInv, NEW p \in Actor, act[p].pc \in {"present", "replay"}, NEW c \in Process,
           c.pc \in {"replay", "save"}, c.probe \in Result \cup {Unanswered},
           c.run = act[p].run, c.mode = act[p].mode, c.status = act[p].status,
           c.revision = act[p].revision, c.local = act[p].local,
           act' = [act EXCEPT ![p] = c], c.probe = "PASS" => Earned(act[p].run),
           UNCHANGED <<queueVars, run>>, RowsTyped', Grows, \A r \in Run : RunOK(r)'
    PROVE  OrchestrationInv'
<1>0. act' = [act EXCEPT ![p] = c]
  OBVIOUS
<1>1. /\ act[p].pc \in Probing /\ act[p].pc \in Loaded /\ c.pc \in Probing /\ c.pc \in Loaded
      /\ act[p].pc # "idle"
  BY <1>0, ProbingPlaces DEF Probing
<1>2. ProcessOK(p) /\ act[p].run \in Run
  BY <1>1, RunOfProcess DEF OrchestrationInv
<1>3. act'[p] = c
  BY <1>0, <1>1, Replaced
<1>4. StatusFits(c) /\ StepsTaken(c) /\ c.pc \notin {"attest"} \cup Attesting
  <2>1. StatusFits(act[p]) /\ StepsTaken(act[p])
    BY <1>2 DEF ProcessOK
  <2>2. c.probe # NoResult /\ c.pc # "build" /\ c.pc \in Probing \cup {"build"}
    BY <1>0, <1>1 DEF NoResult, Result, Unanswered
  <2> QED
    BY <1>0, <1>1, <2>1, <2>2, ProbingFits
<1>5. StatusFits(act[p])' /\ StepsTaken(act[p])' /\ RowsLeft(act[p])'
  BY <1>3, <1>4, EarlyFits
<1>6. CopyIsKept(act[p])'
  <2>1. CopyIsKept(act[p]) /\ act[p].local \in Copy
    BY <1>1, <1>2, RunOfProcess, ProcessFields DEF ProcessOK, OrchestrationInv
  <2>2. Earned(act[p].run) => Earned(act[p].run)'
    BY <1>0, <1>3 DEF Earned, Grows
  <2>3. act'[p].local = act[p].local /\ act'[p].run = act[p].run /\ act'[p].probe = c.probe
    BY <1>0, <1>3
  <2> QED
    BY <1>1, <1>2, <2>1, <2>2, <2>3 DEF CopyIsKept, Grows
<1> QED
  BY <1>0, <1>1, <1>5, <1>6, Arrives

LEMMA PresentInv == ASSUME OrchestrationInv, NEW p \in Actor, Present(p) PROVE OrchestrationInv'
<1>1. /\ act[p].pc = "present"
      /\ UNCHANGED <<queueVars, run, nonce, refunds, protected, expired, registry, paused, storeVars>>
  BY DEF Present, At, shared
<1>2. ProcessOK(p) /\ act[p].pc \in Probing /\ act[p].pc \in Loaded
  BY <1>1, ProbingPlaces DEF OrchestrationInv, Probing
<1>3. CASE act[p].local.evidence # NoResult
  <2>1. Goto(p, "build") /\ UNCHANGED <<presented, settled>>
    BY <1>3 DEF Present
  <2>2. "build" \in Place /\ "build" \in Loaded
    BY ProbingPlaces
  <2>3. act'[p].local = act[p].local /\ act'[p].pc = "build" /\ act'[p].mode = act[p].mode
        /\ act'[p].status = act[p].status
    BY <1>1, <2>1, <2>2, Going
  <2>4. StatusFits(act'[p]) /\ StepsTaken(act'[p]) /\ act'[p].pc \notin {"attest"} \cup Attesting
    <3> DEFINE c == act[p]
               d == act'[p]
    <3>1. StatusFits(c) /\ StepsTaken(c)
      BY <1>2 DEF ProcessOK
    <3>2. d.pc = "build" /\ d.local = c.local /\ d.mode = c.mode /\ d.status = c.status
          /\ d.local.evidence # NoResult
      BY <1>3, <2>3
    <3> QED
      BY <1>2, <3>1, <3>2, ProbingFits
  <2>5. StatusFits(act[p])' /\ StepsTaken(act[p])' /\ RowsLeft(act[p])'
    BY <2>4, EarlyFits
  <2> QED
    BY <1>1, <1>2, <2>1, <2>2, <2>5, WalksQuietly DEF ledgerVars, targetVars
<1>4. CASE act[p].local.evidence = NoResult
  <2>1. PICK response \in {NoResponse, 200, 402, 409} :
          /\ Request(p, response)
          /\ act' = [act EXCEPT ![p] =
                       [@ EXCEPT !.pc = IF ReplayIsTried(response) THEN "replay" ELSE "save",
                                 !.probe = Receipted(response, ReplayResult(response, NoResponse))]]
    BY <1>4 DEF Present
  <2> DEFINE pc == IF ReplayIsTried(response) THEN "replay" ELSE "save"
             probe == Receipted(response, ReplayResult(response, NoResponse))
  <2>2. probe \in {"FAIL", "INCONCLUSIVE", Unanswered} /\ pc \in {"replay", "save"}
    BY ReplayResults
  <2>3. RowsTyped' /\ Grows /\ \A s \in Run : RunOK(s)'
    BY <1>1, <2>1, RequestRows DEF queueVars
  <2> DEFINE c == ProbedAs(act[p], pc, probe)
  <2>4. act' = [act EXCEPT ![p] = c]
    BY <2>1 DEF ProbedAs
  <2> HIDE DEF pc, probe
  <2>5. probe \in Result \cup {Unanswered} /\ probe # "PASS"
    BY <2>2 DEF Result, Unanswered
  <2>6. UNCHANGED <<queueVars, run>>
    BY <1>1
  <2> QED
    <3>1. probe = "PASS" => Earned(act[p].run)
      BY <2>5
    <3>2. act[p].pc \in {"present", "replay"} /\ act[p] \in Process /\ pc \in Place
      BY <1>1, <2>2, RunOfProcess DEF OrchestrationInv, Place
    <3>3. /\ c \in Process /\ c.pc = pc /\ c.run = act[p].run /\ c.mode = act[p].mode
          /\ c.status = act[p].status /\ c.revision = act[p].revision
          /\ c.local = act[p].local /\ c.probe = probe
      BY <2>5, <3>2, Probed
    <3> HIDE DEF c
    <3> QED
      BY <2>2, <2>3, <2>4, <2>5, <2>6, <3>1, <3>2, <3>3, Probes
<1> QED
  BY <1>3, <1>4

LEMMA ReplayInv == ASSUME OrchestrationInv, NEW p \in Actor, Replay(p) PROVE OrchestrationInv'
<1>1. /\ act[p].pc = "replay"
      /\ UNCHANGED <<queueVars, run, nonce, refunds, protected, expired, registry, paused, storeVars>>
  BY DEF Replay, At, shared
<1>2. PICK response \in {NoResponse, 200, 402, 409} :
        /\ Request(p, response)
        /\ act' = [act EXCEPT ![p] = [@ EXCEPT !.pc = "save", !.probe = ReplayResult(200, response)]]
  BY DEF Replay
<1> DEFINE probe == ReplayResult(200, response)
<1>3. probe \in Result \cup {Unanswered} /\ (probe = "PASS" => response \in {402, 409})
  BY ReplayResults
<1>4. /\ RowsTyped' /\ Grows /\ \A s \in Run : RunOK(s)'
      /\ response \in {402, 409} => Earned(act[p].run)
  BY <1>1, <1>2, RequestRows DEF queueVars
<1> DEFINE c == ProbedAs(act[p], "save", probe)
<1>5. act' = [act EXCEPT ![p] = c]
  BY <1>2 DEF ProbedAs
<1> HIDE DEF probe
<1>6. UNCHANGED <<queueVars, run>>
  BY <1>1
<1>7. act[p].pc \in {"present", "replay"} /\ (probe = "PASS" => Earned(act[p].run))
  BY <1>1, <1>3, <1>4
<1>8. /\ c \in Process /\ c.pc = "save" /\ c.run = act[p].run /\ c.mode = act[p].mode
      /\ c.status = act[p].status /\ c.revision = act[p].revision
      /\ c.local = act[p].local /\ c.probe = probe
  <2>1. act[p] \in Process /\ "save" \in Place
    BY RunOfProcess DEF OrchestrationInv, Place
  <2> QED
    BY <1>3, <2>1, Probed
<1> HIDE DEF c
<1> QED
  BY <1>3, <1>4, <1>5, <1>6, <1>7, <1>8, Probes

\* Its own results are worth a verdict, and a PASS has the one of the replay in it.
LEMMA EvidenceOf ==
    ASSUME NEW results, results \subseteq Result \cup {Unanswered}
    PROVE  LET verdict == Evidence({Trusted(x, ProviderSigns) : x \in results}) IN
           /\ verdict \in Result \cup {Unanswered}
           /\ verdict = "PASS" => \A x \in results : x = "PASS"
<1> DEFINE trusted == {Trusted(x, ProviderSigns) : x \in results}
<1>1. \A x \in results : Trusted(x, ProviderSigns) = "PASS" \/ Trusted(x, ProviderSigns) = "FAIL"
                         \/ Trusted(x, ProviderSigns) = "INCONCLUSIVE" \/ Trusted(x, ProviderSigns) = Unanswered
  BY DEF Trusted, Result
<1>2. \A x \in results : Trusted(x, ProviderSigns) = "PASS" => x = "PASS"
  BY DEF Trusted
<1>3. Evidence(trusted) \in Result \cup {Unanswered}
  BY DEF Evidence, Aggregate, Result
<1>4. Evidence(trusted) = "PASS"
      => Unanswered \notin trusted /\ "FAIL" \notin trusted /\ "INCONCLUSIVE" \notin trusted
  BY DEF Evidence, Aggregate, Unanswered
<1>5. \A x \in results : Trusted(x, ProviderSigns) \in trusted
  OBVIOUS
<1> HIDE DEF trusted
<1>6. Evidence(trusted) = "PASS" => \A x \in results : x = "PASS"
  BY <1>1, <1>2, <1>4, <1>5
<1> QED
  BY <1>3, <1>6 DEF trusted

EvidencedAs(c, local) == [c EXCEPT !.local = local, !.probe = NoResult, !.pc = "build"]

LEMMA Evidenced ==
    ASSUME NEW b \in Process, NEW local \in Copy
    PROVE  /\ EvidencedAs(b, local) \in Process
           /\ EvidencedAs(b, local).pc = "build" /\ EvidencedAs(b, local).run = b.run
           /\ EvidencedAs(b, local).mode = b.mode /\ EvidencedAs(b, local).status = b.status
           /\ EvidencedAs(b, local).revision = b.revision
           /\ EvidencedAs(b, local).local = local /\ EvidencedAs(b, local).probe = NoResult
BY DEF EvidencedAs, Process, Place

LEMMA SaveEvidenceInv ==
    ASSUME OrchestrationInv, NEW p \in Actor, SaveEvidence(p) PROVE OrchestrationInv'
<1> DEFINE r == act[p].run
           others == act[p].local.plan.scenarios \cap CredentialScenarios
           own == IF "payment-proof-replay" \in act[p].local.plan.scenarios THEN {act[p].probe} ELSE {}
<1>1. /\ act[p].pc = "save" /\ UNCHANGED <<queueVars, run, ledgerVars, pack, attestation>>
  BY DEF SaveEvidence, At, shared
<1>2. /\ act[p] \in Process /\ r \in Run /\ ProcessOK(p) /\ act[p].local \in Copy
      /\ act[p].pc \in Probing /\ act[p].pc \in Loaded /\ act[p].pc # "idle"
      /\ act[p].probe \in Result \cup {NoResult, Unanswered}
  BY <1>1, RunOfProcess, ProcessFields, ProbingPlaces DEF OrchestrationInv, Probing
<1>3. PICK answer \in [others -> {NoResponse, 402}] :
        LET results == own \cup {Receipted(answer[s], CredentialResult(answer[s])) : s \in others}
            verdict == Evidence({Trusted(x, ProviderSigns) : x \in results})
        IN  /\ Merge(r, [EmptyCheckpoint EXCEPT !.evidence = verdict])
            /\ act' = [act EXCEPT ![p] = [@ EXCEPT !.local.evidence = verdict,
                                                   !.probe = NoResult, !.pc = "build"]]
  BY DEF SaveEvidence
<1> DEFINE results == own \cup {Receipted(answer[s], CredentialResult(answer[s])) : s \in others}
           verdict == Evidence({Trusted(x, ProviderSigns) : x \in results})
           patch == [EmptyCheckpoint EXCEPT !.evidence = verdict]
           local == [act[p].local EXCEPT !.evidence = verdict]
           c == EvidencedAs(act[p], local)
<1>4. own = {act[p].probe} /\ act[p].probe # NoResult
  BY <1>1, <1>2 DEF ProcessOK, StepsTaken, ReplayIsPlanned, Probing
<1>5. results \subseteq Result \cup {Unanswered}
  <2>1. \A s \in others : answer[s] \in {NoResponse, 402}
    OBVIOUS
  <2>2. \A s \in others : Receipted(answer[s], CredentialResult(answer[s])) \in Result \cup {Unanswered}
    BY <2>1 DEF Receipted, CredentialResult, Result
  <2> QED
    BY <1>2, <1>4, <2>2
<1>6. Merge(r, patch) /\ act' = [act EXCEPT ![p] = c]
  BY <1>3 DEF EvidencedAs
<1>7. act[p].probe \in results
  BY <1>4
<1> HIDE DEF results
<1>8. /\ verdict \in Result \cup {Unanswered}
      /\ verdict = "PASS" => act[p].probe = "PASS"
  BY <1>5, <1>7, EvidenceOf
<1> HIDE DEF verdict
<1>9. verdict = "PASS" => Earned(r)
  BY <1>1, <1>2, <1>8 DEF ProcessOK, CopyIsKept
<1>10. /\ patch \in Copy /\ patch.evidence = verdict /\ patch.plan = NoPlan /\ patch.attested = FALSE
  BY <1>8, EmptyFields DEF Copy, CheckpointRow
<1>11. /\ local \in Copy /\ local.evidence = verdict /\ local.plan = act[p].local.plan
       /\ local.payment = act[p].local.payment /\ local.refundNonce = act[p].local.refundNonce
       /\ local.attested = act[p].local.attested
  BY <1>2, <1>8 DEF Copy, CheckpointRow
<1> HIDE DEF patch, local
<1>12. /\ c \in Process /\ c.pc = "build" /\ c.run = r /\ c.mode = act[p].mode
       /\ c.status = act[p].status /\ c.revision = act[p].revision
       /\ c.local = local /\ c.probe = NoResult
  BY <1>2, <1>11, Evidenced
<1> HIDE DEF c
<1>13. RowsTyped' /\ Grows /\ \A s \in Run : RunOK(s)'
  BY <1>1, <1>2, <1>6, <1>9, <1>10, MergeRows DEF queueVars
<1>14. act'[p] = c
  BY <1>2, <1>6, <1>12, Replaced
<1>15. StatusFits(c) /\ StepsTaken(c) /\ c.pc \notin {"attest"} \cup Attesting
  <2>1. StatusFits(act[p]) /\ StepsTaken(act[p])
    BY <1>2 DEF ProcessOK
  <2>2. c.local.evidence # NoResult
    BY <1>8, <1>11, <1>12 DEF Result, NoResult, Unanswered
  <2>3. c.pc \in Probing \cup {"build"} /\ c.pc # "save"
    BY <1>12
  <2> QED
    BY <1>2, <1>11, <1>12, <2>1, <2>2, <2>3, ProbingFits
<1>16. StatusFits(act[p])' /\ StepsTaken(act[p])' /\ RowsLeft(act[p])'
  BY <1>14, <1>15, EarlyFits
<1>17. CopyIsKept(act[p])'
  <2>1. CopyIsKept(act[p])
    BY <1>2 DEF ProcessOK
  <2>2. Earned(r) => Earned(act[p].run)'
    BY <1>1, <1>12, <1>14 DEF Earned, ledgerVars, targetVars
  <2> QED
    BY <1>2, <1>9, <1>11, <1>12, <1>13, <1>14, <2>1, <2>2 DEF CopyIsKept, Grows, NoResult
<1>18. c.pc \in Loaded
  BY <1>12, ProbingPlaces
<1> QED
  BY <1>1, <1>2, <1>6, <1>12, <1>13, <1>16, <1>17, <1>18, Arrives

-----------------------------------------------------------------------------
(* Evidence pack, attestation, delivery. *)

LEMMA LateFits ==
    ASSUME NEW c, NEW d, StatusFits(c), StepsTaken(c), d.mode = c.mode, d.status = c.status, d.local = c.local,
           \/ c.pc \in {"pack", "putPack"} /\ d.pc \in {"putPack", "attest"}
           \/ c.pc \in Attesting /\ d.pc \in Attesting,
           c.local.evidence \in Result
    PROVE  StatusFits(d) /\ StepsTaken(d)
BY DEF StatusFits, StepsTaken, PipelineOnly, Common, Buying, Probing, Attesting, Bought

LEMMA LatePlaces == /\ {"pack", "putPack", "attest"} \cup Attesting \subseteq Loaded \cap Place
                    /\ Attesting \cap {"idle", "pack", "putPack", "attest"} = {}
BY DEF Loaded, Common, Attesting, Place

\* Walking on among these steps, with what the next one finds in the rows.
LEMMA WalksLate ==
    ASSUME OrchestrationInv, NEW p \in Actor, NEW pc, Goto(p, pc),
           \/ act[p].pc \in {"pack", "putPack"} /\ pc \in {"putPack", "attest"}
           \/ act[p].pc \in Attesting /\ pc \in Attesting,
           act[p].pc = "pack" => act[p].local.evidence # Unanswered,
           UNCHANGED <<queueVars, run>>, RowsTyped', Grows, \A r \in Run : RunOK(r)',
           pc = "attest" => pack'[act[p].run] # NoResult,
           pc = "saveAttestation" => registry'[act[p].run] # NoResult,
           pc \in {"store", "putAttestation", "deliver"} => checkpoint'[act[p].run].attested,
           pc = "deliver" => act[p].run \in attestation'
    PROVE  OrchestrationInv'
<1>1. act[p].pc \in Loaded /\ pc \in Loaded /\ pc \in Place /\ act[p].pc # "idle"
  BY LatePlaces
<1>2. ProcessOK(p) /\ act[p] \in Process /\ act[p].run \in Run /\ act[p].local \in Copy
  BY <1>1, RunOfProcess, ProcessFields DEF OrchestrationInv
<1>3. /\ act'[p].pc = pc /\ act'[p].mode = act[p].mode /\ act'[p].status = act[p].status
      /\ act'[p].local = act[p].local /\ act'[p].run = act[p].run
  BY <1>1, Going
<1>4. act[p].local.evidence \in Result
  <2>1. act[p].local.evidence \in Result \cup {NoResult, Unanswered}
    BY <1>2, CopyFields
  <2>2. act[p].pc = "pack" \/ act[p].pc \in {"putPack", "attest"} \cup Attesting
    OBVIOUS
  <2> QED
    BY <1>2, <2>1, <2>2 DEF ProcessOK, StepsTaken
<1>5. StatusFits(act'[p]) /\ StepsTaken(act'[p])
  <2> DEFINE c == act[p]
             d == act'[p]
  <2>1. StatusFits(c) /\ StepsTaken(c)
    BY <1>2 DEF ProcessOK
  <2>2. d.mode = c.mode /\ d.status = c.status /\ d.local = c.local /\ d.pc = pc
    BY <1>3
  <2>3. \/ c.pc \in {"pack", "putPack"} /\ d.pc \in {"putPack", "attest"}
        \/ c.pc \in Attesting /\ d.pc \in Attesting
    BY <2>2
  <2> QED
    BY <1>4, <2>1, <2>2, <2>3, LateFits
<1>6. RowsLeft(act[p])'
  <2>1. act[p].pc \in Attesting => pack'[act[p].run] # NoResult
    BY <1>2 DEF ProcessOK, RowsLeft, Grows
  <2>2. pc \in {"attest"} \cup Attesting => pack'[act[p].run] # NoResult
    BY <2>1, LatePlaces
  <2> QED
    BY <1>3, <2>2 DEF RowsLeft
<1>7. StatusFits(act[p])' /\ StepsTaken(act[p])'
  BY <1>5 DEF StatusFits, StepsTaken
<1> QED
  BY <1>1, <1>6, <1>7, Walks

LEMMA PackInv == ASSUME OrchestrationInv, NEW p \in Actor, Pack(p) PROVE OrchestrationInv'
<1> DEFINE pc == IF pack[act[p].run] # NoResult THEN "attest" ELSE "putPack"
<1>1. /\ act[p].pc = "pack" /\ act[p].local.evidence # Unanswered /\ Goto(p, pc)
      /\ UNCHANGED <<queueVars, run, ledgerVars, storeVars>>
  BY DEF Pack, At, shared
<1>2. RowsTyped' /\ Grows /\ \A r \in Run : RunOK(r)'
  BY <1>1, SameRows DEF queueVars
<1>3. pc \in {"putPack", "attest"} /\ (pc = "attest" => pack'[act[p].run] # NoResult)
  BY <1>1 DEF storeVars
<1> HIDE DEF pc
<1>4. /\ pc # "saveAttestation" /\ pc \notin {"store", "putAttestation", "deliver"} /\ pc # "deliver"
  BY <1>3
<1> QED
  BY <1>1, <1>2, <1>3, <1>4, WalksLate

\* A step that adds to the packs and the attestations.
LEMMA StoreRows ==
    ASSUME OrchestrationInv, UNCHANGED <<job, run, ledgerVars, checkpoint>>,
           pack' \in [Run -> Result \cup {NoResult}], \A r \in Run : pack[r] # NoResult => pack'[r] # NoResult,
           attestation' \subseteq Run, attestation \subseteq attestation'
    PROVE  RowsTyped' /\ Grows /\ \A r \in Run : RunOK(r)'
<1>1. RowsTyped'
  BY DEF OrchestrationInv, RowsTyped, ledgerVars, targetVars
<1>2. Grows
  <2>1. \A r \in Run : run[r].revision \in Nat
    BY DEF OrchestrationInv, RowsTyped
  <2> QED
    BY <2>1 DEF Grows, ledgerVars, targetVars
<1>3. \A r \in Run : RunOK(r)'
  BY DEF OrchestrationInv, RunOK, MoneyFits, VerdictFits, DeliveryFits, Earned, ledgerVars, targetVars
<1> QED
  BY <1>1, <1>2, <1>3

LEMMA PutPackInv == ASSUME OrchestrationInv, NEW p \in Actor, PutPack(p) PROVE OrchestrationInv'
<1> DEFINE r == act[p].run
<1>1. /\ act[p].pc = "putPack" /\ pack' = [pack EXCEPT ![r] = act[p].local.evidence] /\ Goto(p, "attest")
      /\ UNCHANGED <<queueVars, run, ledgerVars, checkpoint, attestation>>
  BY DEF PutPack, PackOf, At, shared
<1>2. r \in Run /\ act[p].local.evidence \in Result
  BY <1>1, RunOfProcess DEF OrchestrationInv, ProcessOK, StepsTaken
<1>3. /\ pack' \in [Run -> Result \cup {NoResult}] /\ pack'[r] # NoResult
      /\ \A s \in Run : pack[s] # NoResult => pack'[s] # NoResult
  BY <1>1, <1>2 DEF OrchestrationInv, RowsTyped, Result, NoResult
<1>4. attestation' \subseteq Run /\ attestation \subseteq attestation'
  BY <1>1 DEF OrchestrationInv, RowsTyped
<1>5. RowsTyped' /\ Grows /\ \A s \in Run : RunOK(s)'
  BY <1>1, <1>3, <1>4, StoreRows DEF queueVars
<1> QED
  BY <1>1, <1>3, <1>5, WalksLate

LEMMA SubmitInv == ASSUME OrchestrationInv, NEW p \in Actor, Submit(p) PROVE OrchestrationInv'
<1> DEFINE r == act[p].run
<1>1. act[p].pc = "submit" /\ UNCHANGED <<queueVars, run, refunds, targetVars, paused, storeVars>>
  BY DEF Submit, At, shared
<1>2. r \in Run /\ ProcessOK(p) /\ act[p].pc \in Attesting
  BY <1>1, RunOfProcess DEF OrchestrationInv, Attesting
<1>3. CASE act[p].local.attested
  <2>1. Goto(p, "store") /\ UNCHANGED <<nonce, registry>>
    BY <1>3 DEF Submit
  <2>2. RowsTyped' /\ Grows /\ \A s \in Run : RunOK(s)'
    BY <1>1, <2>1, SameRows DEF queueVars, ledgerVars
  <2>3. checkpoint'[r].attested
    BY <1>1, <1>2, <1>3 DEF ProcessOK, CopyIsKept, storeVars
  <2>4. "store" \in Attesting
    BY DEF Attesting
  <2> QED
    BY <1>1, <1>2, <2>1, <2>2, <2>3, <2>4, WalksLate
<1>4. CASE ~act[p].local.attested
  <2>1. /\ RegistryAccepts(r) /\ registry' = [registry EXCEPT ![r] = act[p].local.evidence]
        /\ nonce' = nonce + 1 /\ Goto(p, "saveAttestation")
    BY <1>4 DEF Submit, AttestationOf
  <2>2. act[p].local.evidence \in Result /\ (act[p].local.evidence = "PASS" => Earned(r))
    BY <1>1, <1>2 DEF ProcessOK, StepsTaken, CopyIsKept
  <2>3. registry[r] = NoResult
    BY <1>2, <2>1 DEF RegistryAccepts
  <2>4. /\ registry' \in [Run -> Result \cup {NoResult}] /\ registry'[r] = act[p].local.evidence
        /\ \A s \in Run \ {r} : registry'[s] = registry[s]
    BY <1>2, <2>1, <2>2 DEF OrchestrationInv, RowsTyped
  <2>5. registry'[r] # NoResult /\ nonce \in Nat /\ nonce' \in Nat
    BY <2>1, <2>2, <2>4 DEF Result, NoResult, OrchestrationInv, RowsTyped
  <2>6. RowsTyped'
    BY <1>1, <2>4, <2>5 DEF OrchestrationInv, RowsTyped, targetVars, storeVars
  <2>7. Grows
    <3>1. \A s \in Run : run[s].revision \in Nat
      BY DEF OrchestrationInv, RowsTyped
    <3>2. \A s \in Run : registry[s] # NoResult => registry'[s] # NoResult
      BY <2>4, <2>5
    <3> QED
      BY <1>1, <3>1, <3>2 DEF Grows, storeVars, targetVars
  <2>8. ASSUME NEW s \in Run PROVE RunOK(s)'
    <3>1. RunOK(s)
      BY DEF OrchestrationInv
    <3>2. MoneyFits(s)'
      <4>1. checkpoint[s].refundNonce \in Nat \cup {NoNonce}
        BY RowFieldsOf, CopyFields DEF OrchestrationInv
      <4>2. checkpoint[s].refundNonce # NoNonce /\ checkpoint[s].refundNonce < nonce
            => checkpoint[s].refundNonce < nonce'
        BY <2>1, <2>5, <4>1
      <4>3. UNCHANGED <<presented, settled, checkpoint, refunds>>
        BY <1>1 DEF targetVars, storeVars
      <4> QED
        BY <3>1, <4>2, <4>3 DEF RunOK, MoneyFits
    <3>3. VerdictFits(s)' /\ DeliveryFits(s)'
      <4>1. registry'[s] = "PASS" => Earned(s)
        BY <2>2, <2>4, <3>1 DEF RunOK, VerdictFits
      <4>2. registry[s] # NoResult => registry'[s] # NoResult
        BY <2>4, <2>5
      <4>3. UNCHANGED <<protected, expired, checkpoint, pack, attestation, run, job>>
        BY <1>1 DEF targetVars, storeVars, queueVars
      <4> QED
        BY <3>1, <4>1, <4>2, <4>3 DEF RunOK, VerdictFits, DeliveryFits, Earned
    <3> QED
      BY <3>2, <3>3 DEF RunOK
  <2>9. "saveAttestation" \in Attesting
    BY DEF Attesting
  <2> QED
    BY <1>1, <1>2, <2>1, <2>5, <2>6, <2>7, <2>8, <2>9, WalksLate
<1> QED
  BY <1>3, <1>4

LEMMA SaveAttestationInv ==
    ASSUME OrchestrationInv, NEW p \in Actor, SaveAttestation(p) PROVE OrchestrationInv'
<1> DEFINE r == act[p].run
           patch == [EmptyCheckpoint EXCEPT !.attested = TRUE]
<1>1. /\ act[p].pc = "saveAttestation" /\ Goto(p, "store") /\ Merge(r, patch)
      /\ UNCHANGED <<queueVars, run, ledgerVars, pack, attestation>>
  BY DEF SaveAttestation, At, shared
<1>2. r \in Run /\ act[p].pc \in Attesting /\ "store" \in Attesting /\ registry[r] # NoResult
  BY <1>1, RunOfProcess DEF OrchestrationInv, Attesting, ProcessOK, RowsLeft
<1>3. patch \in Copy /\ patch.plan = NoPlan /\ patch.evidence = NoResult /\ patch.attested = TRUE
  BY EmptyFields DEF Copy, CheckpointRow
<1> HIDE DEF patch
<1>4. /\ RowsTyped' /\ Grows /\ \A s \in Run : RunOK(s)'
      /\ checkpoint'[r] = Coalesce(checkpoint[r], patch)
  BY <1>1, <1>2, <1>3, MergeRows DEF queueVars, NoResult
<1>5. checkpoint[r] \in Copy
  BY <1>2, RowFieldsOf DEF OrchestrationInv
<1>6. checkpoint'[r].attested
  <2>1. patch \in Copy /\ checkpoint'[r] = Coalesce(checkpoint[r], patch)
    BY <1>3, <1>4
  <2>2. Coalesce(checkpoint[r], patch).attested = (checkpoint[r].attested \/ patch.attested)
    BY <1>5, <2>1, CoalesceFields
  <2> QED
    BY <1>3, <2>1, <2>2
<1> QED
  BY <1>1, <1>2, <1>4, <1>6, WalksLate

LEMMA StoreInv == ASSUME OrchestrationInv, NEW p \in Actor, Store(p) PROVE OrchestrationInv'
<1> DEFINE pc == IF act[p].run \in attestation THEN "deliver" ELSE "putAttestation"
<1>1. act[p].pc = "store" /\ Goto(p, pc) /\ UNCHANGED <<queueVars, run, ledgerVars, storeVars>>
  BY DEF Store, At, shared
<1>2. RowsTyped' /\ Grows /\ \A r \in Run : RunOK(r)'
  BY <1>1, SameRows DEF queueVars
<1>3. /\ pc \in {"deliver", "putAttestation"} /\ pc \in Attesting /\ act[p].pc \in Attesting
      /\ pc = "deliver" => act[p].run \in attestation'
  BY <1>1 DEF storeVars, Attesting
<1>4. checkpoint'[act[p].run].attested
  BY <1>1 DEF OrchestrationInv, ProcessOK, RowsLeft, storeVars
<1> HIDE DEF pc
<1>5. pc # "attest" /\ pc # "saveAttestation" /\ act[p].pc # "pack"
  BY <1>1, <1>3
<1> QED
  BY <1>1, <1>2, <1>3, <1>4, <1>5, WalksLate

LEMMA PutAttestationInv ==
    ASSUME OrchestrationInv, NEW p \in Actor, PutAttestation(p) PROVE OrchestrationInv'
<1>1. /\ act[p].pc = "putAttestation" /\ attestation' = attestation \cup {act[p].run} /\ Goto(p, "deliver")
      /\ UNCHANGED <<queueVars, run, ledgerVars, checkpoint, pack>>
  BY DEF PutAttestation, At, shared
<1>2. act[p].run \in Run /\ act[p].pc \in Attesting /\ "deliver" \in Attesting
  BY <1>1, RunOfProcess DEF OrchestrationInv, Attesting
<1>3. /\ attestation' \subseteq Run /\ attestation \subseteq attestation'
      /\ pack' \in [Run -> Result \cup {NoResult}] /\ \A r \in Run : pack[r] # NoResult => pack'[r] # NoResult
  BY <1>1, <1>2 DEF OrchestrationInv, RowsTyped
<1>4. RowsTyped' /\ Grows /\ \A r \in Run : RunOK(r)'
  BY <1>1, <1>3, StoreRows DEF queueVars
<1>5. checkpoint'[act[p].run].attested /\ act[p].run \in attestation'
  BY <1>1 DEF OrchestrationInv, ProcessOK, RowsLeft
<1> QED
  BY <1>1, <1>2, <1>4, <1>5, WalksLate

LEMMA DeliverInv == ASSUME OrchestrationInv, NEW p \in Actor, Deliver(p) PROVE OrchestrationInv'
<1> DEFINE r == act[p].run
           to == CASE act[p].local.evidence = "PASS" -> "DELIVERED_PASS"
                   [] act[p].local.evidence = "FAIL" -> "DELIVERED_FAIL"
                   [] OTHER -> "DELIVERED_INCONCLUSIVE"
           next == IF InPipeline(p) THEN Ends(p, "ACK", "NONE") ELSE Finalized(p)
<1>1. act[p].pc = "deliver" /\ Save(p, to, next) /\ UNCHANGED <<queueVars, ledgerVars, storeVars>>
  BY DEF Deliver, At, shared
<1>2. to \in {"DELIVERED_PASS", "DELIVERED_FAIL", "DELIVERED_INCONCLUSIVE"}
  OBVIOUS
<1>3. to \in Lifecycle!Paid /\ to \in Lifecycle!Delivered
  BY <1>2 DEF Lifecycle!Paid, Lifecycle!Delivered
<1> HIDE DEF to, next
<1>4. r \in Run /\ ProcessOK(p) /\ RunOK(r) /\ act[p].pc \in Loaded /\ act[p].pc # "idle"
  BY <1>1, RunOfProcess DEF OrchestrationInv, Loaded, Common, Attesting
<1>5. /\ pack[r] # NoResult /\ registry[r] # NoResult /\ checkpoint[r].attested /\ r \in attestation
  BY <1>1, <1>4 DEF ProcessOK, RowsLeft, RunOK, VerdictFits, Attesting
<1>6. /\ AtRevision(p) /\ act' = [act EXCEPT ![p] = next]
      /\ run' = [run EXCEPT ![r] = Lifecycle!Moved(run[r], to)]
  BY <1>1 DEF Save
<1>7. /\ RowsTyped' /\ Grows /\ \A s \in Run : RunOK(s)'
      /\ run'[r] = [status |-> to, revision |-> act[p].revision + 1]
  BY <1>1, <1>3, <1>4, <1>5, <1>6, SaveRows DEF queueVars
<1>8. CASE InPipeline(p)
  <2>1. act' = [act EXCEPT ![p] = Ends(p, "ACK", "NONE")]
    BY <1>6, <1>8 DEF next
  <2>2. p \in Actor \ Script /\ "NONE" \in Code
    BY <1>4, <1>8, PipelineIsAWorkers DEF Code
  <2>3. run'[r].status \in Lifecycle!Delivered
    BY <1>3, <1>7
  <2> QED
    BY <1>1, <1>4, <1>7, <2>1, <2>2, <2>3, Ending
<1>9. CASE ~InPipeline(p)
  <2>1. act' = [act EXCEPT ![p] = Finalized(p)]
    BY <1>6, <1>9 DEF next
  <2> QED
    BY <1>1, <1>4, <1>7, <1>9, <2>1, Finalizing
<1> QED
  BY <1>8, <1>9

-----------------------------------------------------------------------------
(* The worker loop, the script and the environment. *)

LEMMA QuietRows ==
    ASSUME OrchestrationInv, UNCHANGED <<run, ledgerVars, storeVars>>,
           \A r \in Run : job'[r].status = "COMPLETED" => run[r].status \in Lifecycle!Delivered
    PROVE  RowsTyped' /\ Grows /\ \A r \in Run : RunOK(r)'
<1>1. RowsTyped'
  BY DEF OrchestrationInv, RowsTyped, ledgerVars, storeVars, targetVars
<1>2. Grows
  <2>1. \A r \in Run : run[r].revision \in Nat
    BY DEF OrchestrationInv, RowsTyped
  <2> QED
    BY <2>1 DEF Grows, ledgerVars, storeVars, targetVars
<1>3. \A r \in Run : RunOK(r)'
  BY DEF OrchestrationInv, RunOK, MoneyFits, VerdictFits, DeliveryFits, Earned, ledgerVars, storeVars, targetVars
<1> QED
  BY <1>1, <1>2, <1>3

\* A process that forgets what it knew: it is at rest, or begins with a run.
LEMMA StartsOver ==
    ASSUME OrchestrationInv, QueueInv', NEW p \in Actor, NEW c \in Process, act' = [act EXCEPT ![p] = c],
           \/ c.pc = "idle" /\ c.run = "NONE"
           \/ c.pc = "loadRun" /\ c.run \in Run /\ (p \in Script => c.mode # "pipeline"),
           c.local = EmptyCheckpoint, c.probe = NoResult,
           p \in Worker => held'[p].job = c.run,
           \A v \in Worker \ {p} : held'[v] = held[v],
           UNCHANGED <<run, ledgerVars, storeVars>>,
           \A r \in Run : job'[r].status = "COMPLETED" => run[r].status \in Lifecycle!Delivered
    PROVE  OrchestrationInv'
<1>1. RowsTyped' /\ Grows /\ \A r \in Run : RunOK(r)'
  BY QuietRows
<1>2. /\ act' \in [Actor -> Process] /\ act'[p] = c
      /\ \A q \in Actor \ {p} : act'[q] = act[q]
  BY DEF OrchestrationInv, ProcessesTyped
<1>3. ProcessesTyped'
  <2>1. \A q \in Actor : (act'[q].run \in Run) <=> (act'[q].pc # "idle")
    BY <1>2, RunAssumption DEF OrchestrationInv, ProcessesTyped
  <2>2. \A w \in Worker : act'[w].run = held'[w].job
    BY <1>2 DEF OrchestrationInv, ProcessesTyped, Actor
  <2> QED
    BY <1>2, <2>1, <2>2 DEF ProcessesTyped
<1>4. ProcessOK(p)'
  <2>1. c.pc \in {"idle", "loadRun"}
    OBVIOUS
  <2>2. CopyIsKept(act[p])'
    BY <1>2, EmptyFields DEF CopyIsKept, NoResult
  <2>3. ResultIsRight(p)'
    BY <1>2, <2>1 DEF ResultIsRight, InPipeline
  <2> QED
    BY <1>2, <2>1, <2>2, <2>3 DEF ProcessOK, StatusFits, RevisionTells, StepsTaken, RowsLeft,
         Loaded, Common, PipelineOnly, Buying, Probing, Attesting, Bought
<1>5. ASSUME NEW q \in Actor \ {p} PROVE ProcessOK(q)'
  <2>1. act'[q] = act[q] /\ ProcessOK(q) /\ (q \in Worker => held'[q] = held[q])
    BY <1>2 DEF OrchestrationInv
  <2> QED
    BY <1>1, <2>1, ProcessCarries DEF OrchestrationInv
<1> QED
  BY <1>1, <1>3, <1>4, <1>5 DEF OrchestrationInv

LEMMA IdleIsFresh == /\ Idle \in Process /\ Idle.pc = "idle" /\ Idle.run = "NONE"
                     /\ Idle.local = EmptyCheckpoint /\ Idle.probe = NoResult
BY IdleFields DEF Idle

LEMMA BeginsFresh ==
    ASSUME NEW r \in Run, NEW mode \in {"pipeline"} \cup Code
    PROVE  LET c == [Idle EXCEPT !.pc = "loadRun", !.mode = mode, !.run = r]
               d == [Idle EXCEPT !.pc = "loadRun", !.run = r]
           IN  /\ c \in Process /\ c.pc = "loadRun" /\ c.run = r /\ c.mode = mode
               /\ c.local = EmptyCheckpoint /\ c.probe = NoResult
               /\ d \in Process /\ d.pc = "loadRun" /\ d.run = r
               /\ d.local = EmptyCheckpoint /\ d.probe = NoResult
BY EmptyFields DEF Idle, Process, Place

LEMMA PollInv ==
    ASSUME OrchestrationInv, NEW w \in Worker, NEW r \in Run, Poll(w, r) PROVE OrchestrationInv'
<1> DEFINE c == [Idle EXCEPT !.pc = "loadRun", !.run = r]
<1>1. /\ r \in Job /\ QueueInv /\ ClaimNext(w, r) /\ act' = [act EXCEPT ![w] = c]
      /\ UNCHANGED <<run, ledgerVars, storeVars>>
  BY DEF Poll, Run, OrchestrationInv
<1>2. /\ QueueInv' /\ held'[w].job = r /\ \A v \in Worker \ {w} : held'[v] = held[v]
      /\ job'[r].status = "PROCESSING" /\ \A s \in Job \ {r} : job'[s] = job[s]
  BY <1>1, ClaimNextInv, ClaimedRow
<1>3. /\ c \in Process /\ c.pc = "loadRun" /\ c.run = r
      /\ c.local = EmptyCheckpoint /\ c.probe = NoResult
  BY BeginsFresh
<1> HIDE DEF c
<1>4. \A s \in Run : job'[s].status = "COMPLETED" => run[s].status \in Lifecycle!Delivered
  BY <1>2 DEF Run, OrchestrationInv, RunOK, DeliveryFits
<1>5. w \in Actor /\ ~(w \in Script)
  BY ActorAssumption DEF Actor
<1> QED
  BY <1>1, <1>2, <1>3, <1>4, <1>5, StartsOver

LEMMA ScriptStartInv ==
    ASSUME OrchestrationInv, NEW s \in Script, NEW r \in Run, ScriptStart(s, r) PROVE OrchestrationInv'
<1> DEFINE code == reason[r]
           c == [Idle EXCEPT !.pc = "loadRun", !.mode = code, !.run = r]
<1>1. /\ code \in FinalizableReasons /\ act' = [act EXCEPT ![s] = c]
      /\ UNCHANGED <<queueVars, run, ledgerVars, storeVars>>
  BY DEF ScriptStart
<1>2. code \in {"pipeline"} \cup Code /\ code # "pipeline"
  BY <1>1 DEF Code, FinalizableReasons
<1> HIDE DEF code
<1>3. /\ c \in Process /\ c.pc = "loadRun" /\ c.run = r /\ c.mode = code
      /\ c.local = EmptyCheckpoint /\ c.probe = NoResult
  BY <1>2, BeginsFresh
<1> HIDE DEF c
<1>4. QueueInv' /\ held' = held /\ job' = job
  BY <1>1, StutterInv DEF OrchestrationInv, queueVars
<1>5. \A q \in Run : job'[q].status = "COMPLETED" => run[q].status \in Lifecycle!Delivered
  BY <1>4 DEF OrchestrationInv, RunOK, DeliveryFits
<1>6. s \in Actor /\ s \notin Worker
  BY ActorAssumption DEF Actor
<1> QED
  BY <1>1, <1>2, <1>3, <1>4, <1>5, <1>6, StartsOver

\* The worker lets its claim go and its process rests.
LEMMA RestsInv ==
    ASSUME OrchestrationInv, NEW w \in Worker, LetGo(w), QueueInv',
           act' = [act EXCEPT ![w] = Idle], UNCHANGED <<run, ledgerVars, storeVars>>,
           \A r \in Run : job'[r].status = "COMPLETED" => run[r].status \in Lifecycle!Delivered
    PROVE  OrchestrationInv'
<1>1. held'[w] = NoClaim /\ \A v \in Worker \ {w} : held'[v] = held[v]
  BY LetGoClears DEF OrchestrationInv, QueueInv
<1>2. held'[w].job = "NONE"
  BY <1>1 DEF NoClaim
<1>3. w \in Actor
  BY DEF Actor
<1> QED
  BY <1>1, <1>2, <1>3, IdleIsFresh, StartsOver

LEMMA ReportInv == ASSUME OrchestrationInv, NEW w \in Worker, Report(w) PROVE OrchestrationInv'
<1>0. w \in Actor /\ QueueInv
  BY DEF Actor, OrchestrationInv
<1>1. /\ act[w].pc = "finish" /\ act[w].outcome \in {"ACK", "RETRY", "DEAD_LETTER"}
      /\ act[w].outcome = "ACK" => run[act[w].run].status \in Lifecycle!Delivered
      /\ act[w].outcome = "RETRY" => held[w].attempt < MaxAttempts
  <2>1. act[w].pc = "finish" /\ ResultIsRight(w)
    BY <1>0 DEF Report, At, OrchestrationInv, ProcessOK
  <2>2. act[w].outcome \in {"NONE", "ACK", "RETRY", "DEAD_LETTER"}
    BY <1>0, RunOfProcess, ProcessFields DEF OrchestrationInv
  <2> QED
    BY <2>1, <2>2 DEF ResultIsRight
<1>2. held[w].job \in Job /\ held[w].job = act[w].run
  BY <1>0, <1>1, RunOfProcess DEF OrchestrationInv, ProcessesTyped, Run
<1>3. ASSUME NEW status \in JobStatus, NEW attempts, Finish(w, status, attempts),
             status = "COMPLETED" => act[w].outcome = "ACK", QueueInv'
      PROVE  OrchestrationInv'
  <2>1. LetGo(w) /\ job' = [job EXCEPT ![held[w].job] = Released(status, attempts)]
    BY <1>3 DEF Finish
  <2>2. job'[held[w].job].status = status /\ \A s \in Job \ {held[w].job} : job'[s] = job[s]
    BY <1>0, <1>2, <2>1 DEF Released, QueueInv, QueueTypeOK
  <2>3. act' = [act EXCEPT ![w] = Idle] /\ UNCHANGED <<run, ledgerVars, storeVars>>
    BY DEF Report
  <2>4. \A r \in Run : job'[r].status = "COMPLETED" => run[r].status \in Lifecycle!Delivered
    BY <1>1, <1>2, <1>3, <2>2 DEF Run, OrchestrationInv, RunOK, DeliveryFits
  <2> QED
    BY <1>3, <2>1, <2>3, <2>4, RestsInv
<1>4. CASE act[w].outcome = "ACK"
  <2>1. MarkCompleted(w)
    BY <1>4 DEF Report
  <2>2. QueueInv'
    BY <1>0, <2>1, OutcomeInv DEF Outcome
  <2> QED
    BY <1>3, <1>4, <2>1, <2>2 DEF MarkCompleted, JobStatus
<1>5. CASE act[w].outcome = "RETRY"
  <2>1. MarkRetry(w) /\ held[w].attempt < MaxAttempts
    BY <1>1, <1>5 DEF Report
  <2>2. QueueInv'
    BY <1>0, <2>1, OutcomeInv DEF Outcome
  <2> QED
    BY <1>3, <2>1, <2>2 DEF MarkRetry, JobStatus
<1>6. CASE act[w].outcome = "DEAD_LETTER"
  <2>1. MarkDeadLetter(w)
    BY <1>6 DEF Report
  <2>2. QueueInv'
    BY <1>0, <2>1, OutcomeInv DEF Outcome
  <2> QED
    BY <1>3, <2>1, <2>2 DEF MarkDeadLetter, JobStatus
<1> QED
  BY <1>1, <1>4, <1>5, <1>6

LEMMA LeavesInv ==
    ASSUME OrchestrationInv, NEW w \in Worker, ReportRejected(w) \/ Crash(w) PROVE OrchestrationInv'
<1>1. /\ LetGo(w) /\ UNCHANGED job /\ act' = [act EXCEPT ![w] = Idle]
      /\ UNCHANGED <<run, ledgerVars, storeVars>>
  BY DEF ReportRejected, FinishRejected, Crash, Abandon
<1>2. QueueInv'
  BY <1>1, ForgetInv DEF OrchestrationInv
<1>3. \A r \in Run : job'[r].status = "COMPLETED" => run[r].status \in Lifecycle!Delivered
  BY <1>1 DEF OrchestrationInv, RunOK, DeliveryFits
<1> QED
  BY <1>1, <1>2, <1>3, RestsInv

\* Steps that no process takes part in.
LEMMA SilentInv ==
    ASSUME OrchestrationInv, QueueInv', UNCHANGED <<held, act>>,
           RowsTyped', Grows, \A r \in Run : RunOK(r)'
    PROVE  OrchestrationInv'
<1>1. ProcessesTyped'
  BY DEF OrchestrationInv, ProcessesTyped
<1>2. ASSUME NEW q \in Actor PROVE ProcessOK(q)'
  <2>1. act'[q] = act[q] /\ ProcessOK(q) /\ (q \in Worker => held'[q] = held[q])
    BY DEF OrchestrationInv
  <2> QED
    BY <2>1, ProcessCarries DEF OrchestrationInv
<1> QED
  BY <1>1, <1>2 DEF OrchestrationInv

LEMMA SweepInv == ASSUME OrchestrationInv, NEW w \in Worker, Sweep(w) PROVE OrchestrationInv'
<1>1. DeadLetterExhausted(w) /\ UNCHANGED <<run, ledgerVars, storeVars, act>>
  BY DEF Sweep
<1>2. QueueInv' /\ UNCHANGED held
  BY <1>1, DeadLetterExhaustedInv DEF DeadLetterExhausted, OrchestrationInv
<1>3. \A r \in Job : job'[r].status = "COMPLETED" => job[r].status = "COMPLETED"
  BY <1>1 DEF DeadLetterExhausted, Released
<1>4. \A r \in Run : job'[r].status = "COMPLETED" => run[r].status \in Lifecycle!Delivered
  BY <1>3 DEF Run, OrchestrationInv, RunOK, DeliveryFits
<1>5. RowsTyped' /\ Grows /\ \A r \in Run : RunOK(r)'
  BY <1>1, <1>4, QuietRows
<1> QED
  BY <1>1, <1>2, <1>5, SilentInv

LEMMA LeaseTimeoutInv == ASSUME OrchestrationInv, NEW r \in Run, LeaseTimeout(r) PROVE OrchestrationInv'
<1>1. LeaseLapses(r) /\ UNCHANGED <<run, ledgerVars, storeVars, act>> /\ r \in Job
  BY DEF LeaseTimeout, Run
<1>2. QueueInv' /\ UNCHANGED held
  BY <1>1, LeaseLapsesInv DEF LeaseLapses, OrchestrationInv
<1>3. \A s \in Job : job'[s].status = job[s].status
  BY <1>1, RowFields DEF LeaseLapses, OrchestrationInv, QueueInv, QueueTypeOK, JobRow
<1>4. \A s \in Run : job'[s].status = "COMPLETED" => run[s].status \in Lifecycle!Delivered
  BY <1>3 DEF Run, OrchestrationInv, RunOK, DeliveryFits
<1>5. RowsTyped' /\ Grows /\ \A s \in Run : RunOK(s)'
  BY <1>1, <1>4, QuietRows
<1> QED
  BY <1>1, <1>2, <1>5, SilentInv

LEMMA ForeignTransactionInv == ASSUME OrchestrationInv, ForeignTransaction PROVE OrchestrationInv'
<1>1. /\ nonce' = nonce + 1
      /\ UNCHANGED <<queueVars, run, reason, refunds, targetVars, registry, paused, storeVars, act>>
  BY DEF ForeignTransaction
<1>2. nonce \in Nat
  BY DEF OrchestrationInv, RowsTyped
<1>3. RowsTyped'
  BY <1>1, <1>2 DEF OrchestrationInv, RowsTyped, targetVars, storeVars
<1>4. Grows
  <2>1. \A r \in Run : run[r].revision \in Nat
    BY DEF OrchestrationInv, RowsTyped
  <2> QED
    BY <1>1, <2>1 DEF Grows, storeVars, targetVars
<1>5. ASSUME NEW r \in Run PROVE RunOK(r)'
  <2>1. RunOK(r) /\ checkpoint[r].refundNonce \in Nat \cup {NoNonce}
    BY RowFieldsOf, CopyFields DEF OrchestrationInv
  <2>2. checkpoint[r].refundNonce # NoNonce /\ checkpoint[r].refundNonce < nonce
        => checkpoint[r].refundNonce < nonce'
    BY <1>1, <1>2, <2>1
  <2>3. MoneyFits(r)'
    <3>1. UNCHANGED <<presented, settled, checkpoint, refunds>>
      BY <1>1 DEF targetVars, storeVars
    <3> QED
      BY <2>1, <2>2, <3>1 DEF RunOK, MoneyFits
  <2>4. VerdictFits(r)' /\ DeliveryFits(r)'
    BY <1>1, <2>1 DEF RunOK, VerdictFits, DeliveryFits, Earned, targetVars, storeVars, queueVars
  <2> QED
    BY <2>3, <2>4 DEF RunOK
<1>6. QueueInv' /\ UNCHANGED <<held, act>>
  BY <1>1, StutterInv DEF OrchestrationInv, queueVars
<1> QED
  BY <1>3, <1>4, <1>5, <1>6, SilentInv

LEMMA AuthorizationExpiresInv ==
    ASSUME OrchestrationInv, NEW r \in Run, AuthorizationExpires(r) PROVE OrchestrationInv'
<1>1. /\ expired' = expired \cup {r}
      /\ UNCHANGED <<queueVars, run, nonce, refunds, protected, presented, settled, registry, storeVars, act>>
  BY DEF AuthorizationExpires
<1>2. RowsTyped'
  BY <1>1 DEF OrchestrationInv, RowsTyped, storeVars
<1>3. Grows
  <2>1. \A s \in Run : run[s].revision \in Nat
    BY DEF OrchestrationInv, RowsTyped
  <2> QED
    BY <1>1, <2>1 DEF Grows, storeVars
<1>4. ASSUME NEW s \in Run PROVE RunOK(s)'
  <2>1. RunOK(s)
    BY DEF OrchestrationInv
  <2> QED
    BY <1>1, <2>1 DEF RunOK, MoneyFits, VerdictFits, DeliveryFits, Earned, storeVars, queueVars
<1>5. QueueInv' /\ UNCHANGED <<held, act>>
  BY <1>1, StutterInv DEF OrchestrationInv, queueVars
<1> QED
  BY <1>2, <1>3, <1>4, <1>5, SilentInv

LEMMA OwnerInv == ASSUME OrchestrationInv, OwnerPauses \/ OwnerUnpauses PROVE OrchestrationInv'
<1>1. UNCHANGED <<queueVars, run, nonce, refunds, targetVars, registry, storeVars, act>>
  BY DEF OwnerPauses, OwnerUnpauses
<1>2. RowsTyped'
  BY <1>1 DEF OrchestrationInv, RowsTyped, storeVars, targetVars
<1>3. Grows
  <2>1. \A s \in Run : run[s].revision \in Nat
    BY DEF OrchestrationInv, RowsTyped
  <2> QED
    BY <1>1, <2>1 DEF Grows, storeVars, targetVars
<1>4. ASSUME NEW s \in Run PROVE RunOK(s)'
  <2>1. RunOK(s)
    BY DEF OrchestrationInv
  <2> QED
    BY <1>1, <2>1 DEF RunOK, MoneyFits, VerdictFits, DeliveryFits, Earned, storeVars, queueVars, targetVars
<1>5. QueueInv' /\ UNCHANGED <<held, act>>
  BY <1>1, StutterInv DEF OrchestrationInv, queueVars
<1> QED
  BY <1>2, <1>3, <1>4, <1>5, SilentInv

LEMMA RestingInv == ASSUME OrchestrationInv, UNCHANGED vars PROVE OrchestrationInv'
<1>1. UNCHANGED <<job, run, ledgerVars, storeVars>> /\ UNCHANGED <<held, act>> /\ UNCHANGED queueVars
  BY DEF vars, queueVars
<1>2. QueueInv'
  BY <1>1, StutterInv DEF OrchestrationInv
<1> QED
  BY <1>1, <1>2, SameRows, SilentInv

-----------------------------------------------------------------------------
(* The invariant. *)

LEMMA InitInv == Init => OrchestrationInv
<1> SUFFICES ASSUME Init PROVE OrchestrationInv
  OBVIOUS
<1>1. QueueInv
  <2>1. /\ PendingRow \in JobRow /\ PendingRow.status = "PENDING"
        /\ PendingRow.attempts = 0 /\ PendingRow.owner = NoOwner
    BY ReleasedRow, MaxAttemptsAssumption DEF PendingRow, JobStatus
  <2>2. job = [r \in Job |-> PendingRow] /\ held = [w \in Worker |-> NoClaim] /\ overtaken = {}
    BY DEF Init
  <2> QED
    BY <2>1, <2>2, MaxAttemptsAssumption DEF QueueInv, QueueTypeOK, OvertakenOwnsNothing, HolderPassesFence,
         WaitingRowsAreClaimable, LockedRowsSpentAnAttempt, Holding, Fresh
<1>2. RowsTyped
  <2>1. "FUNDED" \in Lifecycle!Paid
    BY DEF Lifecycle!Paid
  <2> QED
    BY <2>1, EmptyFields DEF Init, RowsTyped
<1>3. ProcessesTyped
  <2>1. \A w \in Worker : held[w].job = "NONE"
    BY DEF Init, NoClaim
  <2>2. \A p \in Actor : act[p] = Idle
    BY DEF Init
  <2>3. act \in [Actor -> Process]
    BY IdleFields DEF Init
  <2>4. \A w \in Worker : w \in Actor
    BY DEF Actor
  <2> QED
    BY <2>1, <2>2, <2>3, <2>4, IdleFields, RunAssumption DEF ProcessesTyped
<1>4. \A p \in Actor : ProcessOK(p)
  BY AtRest DEF Init
<1>5. ASSUME NEW r \in Run PROVE RunOK(r)
  <2>1. /\ run[r].status = "FUNDED" /\ job[r].status = "PENDING" /\ checkpoint[r] = EmptyCheckpoint
        /\ refunds[r] = 0 /\ presented[r] = {} /\ settled[r] = {} /\ registry[r] = NoResult
    BY DEF Init, Run, PendingRow, Released
  <2> QED
    BY <2>1, EmptyFields DEF RunOK, MoneyFits, VerdictFits, DeliveryFits, NoResult, Lifecycle!Delivered
<1> QED
  BY <1>1, <1>2, <1>3, <1>4, <1>5 DEF OrchestrationInv

LEMMA AttemptInv ==
    ASSUME OrchestrationInv, NEW p \in Actor, Progress(p) \/ Fail(p) PROVE OrchestrationInv'
BY LoadRunInv, LoadCheckpointInv, AdvanceInv, PlanInv, DenyInv, AcquireInv, ReserveNonceInv, CheckNonceInv,
   SendRefundInv, SaveRefundInv, PresentInv, ReplayInv, SaveEvidenceInv, PackInv, PutPackInv, SubmitInv,
   SaveAttestationInv, StoreInv, PutAttestationInv, DeliverInv, FailInv DEF Progress

LEMMA StepInv == OrchestrationInv /\ [Next]_vars => OrchestrationInv'
<1> SUFFICES ASSUME OrchestrationInv, [Next]_vars PROVE OrchestrationInv'
  OBVIOUS
<1>1. ASSUME NEW w \in Worker, NEW r \in Run, Poll(w, r) PROVE OrchestrationInv'
  BY <1>1, PollInv
<1>2. ASSUME NEW w \in Worker, Sweep(w) \/ Report(w) \/ ReportRejected(w) \/ Crash(w) PROVE OrchestrationInv'
  BY <1>2, SweepInv, ReportInv, LeavesInv
<1>3. ASSUME NEW s \in Script, NEW r \in Run, ScriptStart(s, r) PROVE OrchestrationInv'
  BY <1>3, ScriptStartInv
<1>4. ASSUME NEW p \in Actor, Progress(p) \/ Fail(p) PROVE OrchestrationInv'
  BY <1>4, AttemptInv
<1>5. ASSUME NEW r \in Run, LeaseTimeout(r) \/ AuthorizationExpires(r) PROVE OrchestrationInv'
  BY <1>5, LeaseTimeoutInv, AuthorizationExpiresInv
<1>6. CASE ForeignTransaction \/ OwnerPauses \/ OwnerUnpauses
  BY <1>6, ForeignTransactionInv, OwnerInv
<1>7. CASE UNCHANGED vars
  BY <1>7, RestingInv
<1> QED
  BY <1>1, <1>2, <1>3, <1>4, <1>5, <1>6, <1>7 DEF Next

-----------------------------------------------------------------------------
(* The theorems. *)

\* What every process of the orchestrator knows, and what rows, wallet, token and registry hold
\* of every run, is kept by every step (runOrchestratorPipeline, finalizeRunAsInconclusive).
THEOREM OrchestrationInvariance == Spec => []OrchestrationInv
  BY InitInv, StepInv, PTL DEF Spec

\* Rows hold values of their columns' types, and every process works on the run it
\* claimed, for any number of runs, workers and scripts.
THEOREM OrchestrationTypeCorrect == Spec => []TypeOK
<1>1. OrchestrationInv => TypeOK
  <2> SUFFICES ASSUME OrchestrationInv PROVE TypeOK
    OBVIOUS
  <2>1. QueueTypeOK /\ RowsTyped /\ ProcessesTyped
    BY DEF OrchestrationInv, QueueInv
  <2>2. \A p \in Actor : act[p].local \in Copy
    BY <2>1, ProcessFields DEF ProcessesTyped
  <2> QED
    BY <2>1, <2>2 DEF TypeOK, RowsTyped, ProcessesTyped, Copy, Scenarios
<1> QED
  BY <1>1, OrchestrationInvariance, PTL

\* However many attempts sign one, the target of a run is only ever sent the authorization
\* that its checkpoint keeps (runProcurementPhase, runExecutionPhase).
THEOREM PurchasesAreUnique == Spec => []OnePurchasePerRun
<1>1. OrchestrationInv => OnePurchasePerRun
  BY DEF OrchestrationInv, RunOK, MoneyFits, OnePurchasePerRun
<1> QED
  BY <1>1, OrchestrationInvariance, PTL

\* What a run spends at its target and what its customer gets back never exceed the
\* prepaid tool budget, whatever price is asked and whoever resumes the refund.
THEOREM BudgetsAreConserved == Spec => []BudgetIsConserved
<1>1. OrchestrationInv => BudgetIsConserved
  <2> SUFFICES ASSUME OrchestrationInv, NEW r \in Run, NEW payment \in settled[r]
               PROVE  refunds[r] + payment.amount <= Ceiling
    BY DEF BudgetIsConserved
  <2>1. MoneyFits(r) /\ payment \in Payment
    BY RowFieldsOf DEF OrchestrationInv, RunOK
  <2>2. payment = checkpoint[r].payment
    BY <2>1 DEF MoneyFits
  <2>3. refunds[r] = 0 \/ refunds[r] = Ceiling - payment.amount
    BY <2>1, <2>2 DEF MoneyFits
  <2>4. payment.amount \in Nat /\ payment.amount <= Ceiling /\ Ceiling \in Nat
    BY <2>1, PaymentFields, CeilingAssumption
  <2> QED
    BY <2>3, <2>4
<1> QED
  BY <1>1, OrchestrationInvariance, PTL

\* No PASS reaches the registry unless the target refused a second delivery, because it
\* is protected or because the authorization had expired (the scenario runners).
THEOREM VerdictsAreEarned == Spec => []VerdictIsEarned
<1>1. OrchestrationInv => VerdictIsEarned
  BY DEF OrchestrationInv, RunOK, VerdictFits, Earned, VerdictIsEarned
<1> QED
  BY <1>1, OrchestrationInvariance, PTL

\* A delivered run has its pack, its registry entry and the record of both, also when
\* two attempts finish it (runEvidencePhase, runAttestationPhase, runDeliveryPhase).
THEOREM DeliveriesAreAttested == Spec => []DeliveredIsAttested
<1>1. OrchestrationInv => DeliveredIsAttested
  BY DEF OrchestrationInv, RunOK, DeliveryFits, DeliveredIsAttested
<1> QED
  BY <1>1, OrchestrationInvariance, PTL

\* A job is acknowledged only when its run was delivered (worker.ts, markCompleted).
THEOREM CompletionsAreDelivered == Spec => []CompletedIsDelivered
<1>1. OrchestrationInv => CompletedIsDelivered
  BY DEF OrchestrationInv, RunOK, DeliveryFits, CompletedIsDelivered
<1> QED
  BY <1>1, OrchestrationInvariance, PTL

-----------------------------------------------------------------------------
(* Every change of a run is a transition of the run state machine. *)

\* The changes the pipeline and the finalizer make.
LEMMA RuleFor ==
    ASSUME NEW from, NEW to,
           \/ from = "FUNDED" /\ to = "ANALYZING"
           \/ from = "ANALYZING" /\ to = "PLAN_COMPILED"
           \/ from = "PLAN_COMPILED" /\ to = "PROCURING"
           \/ from = "PROCURING" /\ to = "EXECUTING"
           \/ from \in {"ANALYZING", "PLAN_COMPILED", "PROCURING", "EXECUTING", "REPLANNING"}
              /\ to = "EVIDENCE_BUILDING"
           \/ from = "EVIDENCE_BUILDING" /\ to = "ATTESTING"
           \/ from = "ATTESTING" /\ to \in Lifecycle!Delivered
    PROVE  \E actors : <<from, to, actors>> \in Lifecycle!Rules /\ \E actor : actor \in actors
<1>1. /\ <<"FUNDED", "ANALYZING", {"ORCHESTRATOR"}>> \in Lifecycle!Rules
      /\ <<"ANALYZING", "PLAN_COMPILED", {"POLICY_ENGINE"}>> \in Lifecycle!Rules
      /\ <<"PLAN_COMPILED", "PROCURING", {"PROCUREMENT_WORKER"}>> \in Lifecycle!Rules
      /\ <<"PROCURING", "EXECUTING", {"PROCUREMENT_WORKER", "EXECUTION_WORKER"}>> \in Lifecycle!Rules
      /\ <<"ANALYZING", "EVIDENCE_BUILDING", {"ORCHESTRATOR", "SYSTEM"}>> \in Lifecycle!Rules
      /\ <<"PLAN_COMPILED", "EVIDENCE_BUILDING", {"POLICY_ENGINE", "SYSTEM"}>> \in Lifecycle!Rules
      /\ <<"PROCURING", "EVIDENCE_BUILDING", {"PROCUREMENT_WORKER", "SYSTEM"}>> \in Lifecycle!Rules
      /\ <<"EXECUTING", "EVIDENCE_BUILDING", {"EXECUTION_WORKER", "SYSTEM"}>> \in Lifecycle!Rules
      /\ <<"REPLANNING", "EVIDENCE_BUILDING", {"ORCHESTRATOR", "SYSTEM"}>> \in Lifecycle!Rules
      /\ <<"EVIDENCE_BUILDING", "ATTESTING", {"EVIDENCE_WORKER"}>> \in Lifecycle!Rules
      /\ \A status \in Lifecycle!Delivered : <<"ATTESTING", status, {"ATTESTOR"}>> \in Lifecycle!Rules
  BY DEF Lifecycle!Rules
<1> QED
  BY <1>1

LEMMA Transits ==
    ASSUME NEW r \in Run, NEW from, NEW to, NEW actors, NEW actor, actor \in actors,
           <<from, to, actors>> \in Lifecycle!Rules, run[r].status = from,
           run' = [run EXCEPT ![r] = Lifecycle!Moved(run[r], to)]
    PROVE  Lifecycle!Next
BY DEF Lifecycle!Next, Lifecycle!Transition

LEMMA AdvanceTransits ==
    ASSUME OrchestrationInv, NEW p \in Actor, Advance(p) PROVE [Lifecycle!Next]_run
<1> DEFINE r == act[p].run
           step == Advances(p)[act[p].pc]
           to == step.to
           next == [act[p] EXCEPT !.pc = step.next, !.status = step.to, !.revision = @ + 1]
<1>1. /\ act[p].pc \in DOMAIN Advances(p) /\ UNCHANGED <<queueVars, ledgerVars, storeVars>>
      /\ IF AtOrAfter(act[p].status, to) THEN UNCHANGED run ELSE Save(p, to, next)
  BY DEF Advance, shared
<1>2. /\ \/ act[p].pc = "analyze" /\ to = "ANALYZING"
         \/ act[p].pc = "compile" /\ to = "PLAN_COMPILED"
         \/ act[p].pc = "procure" /\ to = "PROCURING"
         \/ act[p].pc = "execute" /\ to = "EXECUTING"
         \/ act[p].pc = "build" /\ to = "EVIDENCE_BUILDING"
         \/ act[p].pc = "attest" /\ to = "ATTESTING"
  BY <1>1, AdvanceSteps
<1> HIDE DEF next, step
<1>3. CASE AtOrAfter(act[p].status, to)
  BY <1>1, <1>3
<1>4. CASE ~AtOrAfter(act[p].status, to)
  <2>1. AtRevision(p) /\ run' = [run EXCEPT ![r] = Lifecycle!Moved(run[r], to)]
    BY <1>1, <1>4 DEF Save
  <2>2. act[p].pc \in Loaded /\ act[p].pc # "idle" /\ StatusFits(act[p])
    BY <1>2, LoadedPlaces DEF OrchestrationInv, ProcessOK, Loaded, Common, PipelineOnly, Buying
  <2>3. to \in Lifecycle!Paid /\ to \notin Lifecycle!Delivered
    BY <1>2 DEF Lifecycle!Paid, Lifecycle!Delivered
  <2>4. r \in Run /\ run[r].status = act[p].status
    BY <1>1, <2>1, <2>2, <2>3, SaveRows DEF queueVars
  <2> DEFINE from == act[p].status
  <2> HIDE DEF to
  <2>5. \/ from = "FUNDED" /\ to = "ANALYZING"
        \/ from = "ANALYZING" /\ to = "PLAN_COMPILED"
        \/ from = "PLAN_COMPILED" /\ to = "PROCURING"
        \/ from = "PROCURING" /\ to = "EXECUTING"
        \/ from \in {"ANALYZING", "PLAN_COMPILED", "PROCURING", "EXECUTING", "REPLANNING"}
           /\ to = "EVIDENCE_BUILDING"
        \/ from = "EVIDENCE_BUILDING" /\ to = "ATTESTING"
    <3>1. CASE act[p].pc = "analyze" /\ to = "ANALYZING"
      <4>1. from \in {"FUNDED"} \cup FromAnalyzing
        BY <2>2, <3>1, StatusSets DEF StatusFits
      <4>2. from \notin FromAnalyzing
        BY <1>4, <3>1, AtOrAfterSets
      <4> QED
        BY <3>1, <4>1, <4>2
    <3>2. CASE act[p].pc = "compile" /\ to = "PLAN_COMPILED"
      BY <1>4, <2>2, <3>2, AtOrAfterSets DEF StatusFits, FromCompiled
    <3>3. CASE act[p].pc = "procure" /\ to = "PROCURING"
      BY <1>4, <2>2, <3>3, AtOrAfterSets DEF StatusFits, FromProcuring
    <3>4. CASE act[p].pc = "execute" /\ to = "EXECUTING"
      BY <1>4, <2>2, <3>4, AtOrAfterSets DEF StatusFits, FromExecuting, Buying
    <3>5. CASE act[p].pc = "build" /\ to = "EVIDENCE_BUILDING"
      <4>1. from \in FromExecuting \/ from \in Finalizable \ {"FUNDED"}
        BY <2>2, <3>5 DEF StatusFits
      <4>2. from \notin FromBuilding
        BY <1>4, <3>5, AtOrAfterSets
      <4> QED
        BY <3>5, <4>1, <4>2, StatusSets DEF FromAnalyzing, FromCompiled, FromProcuring, FromExecuting,
             FromBuilding
    <3>6. CASE act[p].pc = "attest" /\ to = "ATTESTING"
      BY <1>4, <2>2, <3>6, AtOrAfterSets DEF StatusFits, FromBuilding
    <3> QED
      BY <1>2, <3>1, <3>2, <3>3, <3>4, <3>5, <3>6
  <2>6. PICK actors : <<from, to, actors>> \in Lifecycle!Rules /\ \E actor : actor \in actors
    BY <2>5, RuleFor
  <2> QED
    BY <2>1, <2>4, <2>6, Transits
<1> QED
  BY <1>3, <1>4

LEMMA DeliverTransits ==
    ASSUME OrchestrationInv, NEW p \in Actor, Deliver(p) PROVE Lifecycle!Next
<1> DEFINE r == act[p].run
           to == CASE act[p].local.evidence = "PASS" -> "DELIVERED_PASS"
                   [] act[p].local.evidence = "FAIL" -> "DELIVERED_FAIL"
                   [] OTHER -> "DELIVERED_INCONCLUSIVE"
           next == IF InPipeline(p) THEN Ends(p, "ACK", "NONE") ELSE Finalized(p)
<1>1. act[p].pc = "deliver" /\ Save(p, to, next)
  BY DEF Deliver, At
<1>2. to \in {"DELIVERED_PASS", "DELIVERED_FAIL", "DELIVERED_INCONCLUSIVE"}
  OBVIOUS
<1> HIDE DEF to, next
<1>3. r \in Run /\ ProcessOK(p) /\ act[p].status = "ATTESTING" /\ act[p].pc \in Loaded
  BY <1>1, RunOfProcess DEF OrchestrationInv, ProcessOK, StatusFits, Attesting, Loaded, Common
<1>4. run[r].status = "ATTESTING" /\ run' = [run EXCEPT ![r] = Lifecycle!Moved(run[r], to)]
  BY <1>1, <1>3 DEF Save, AtRevision, ProcessOK, RevisionTells
<1>5. to \in Lifecycle!Delivered
  BY <1>2 DEF Lifecycle!Delivered
<1>6. PICK actors : <<"ATTESTING", to, actors>> \in Lifecycle!Rules /\ \E actor : actor \in actors
  BY <1>5, RuleFor
<1> QED
  BY <1>3, <1>4, <1>6, Transits

\* Nothing else touches a run.
LEMMA RunStays ==
    ASSUME NEW p,
           \/ LoadRun(p) \/ LoadCheckpoint(p) \/ Plan(p) \/ Deny(p) \/ Acquire(p)
           \/ ReserveNonce(p) \/ CheckNonce(p) \/ SendRefund(p) \/ SaveRefund(p)
           \/ Present(p) \/ Replay(p) \/ SaveEvidence(p)
           \/ Pack(p) \/ PutPack(p) \/ Submit(p) \/ SaveAttestation(p)
           \/ Store(p) \/ PutAttestation(p) \/ Fail(p)
           \/ Sweep(p) \/ Report(p) \/ ReportRejected(p) \/ Crash(p)
    PROVE  UNCHANGED run
<1>1. ASSUME LoadRun(p) \/ LoadCheckpoint(p) \/ Deny(p) \/ CheckNonce(p) \/ Fail(p) PROVE UNCHANGED run
  BY <1>1 DEF LoadRun, LoadCheckpoint, Deny, CheckNonce, Fail
<1>2. ASSUME Plan(p) \/ Acquire(p) \/ ReserveNonce(p) \/ SendRefund(p) \/ SaveRefund(p) PROVE UNCHANGED run
  BY <1>2 DEF Plan, Acquire, ReserveNonce, SendRefund, SaveRefund
<1>3. ASSUME Present(p) \/ Replay(p) \/ SaveEvidence(p) PROVE UNCHANGED run
  BY <1>3 DEF Present, Replay, SaveEvidence
<1>4. ASSUME Pack(p) \/ PutPack(p) \/ Submit(p) \/ SaveAttestation(p) \/ Store(p) \/ PutAttestation(p)
      PROVE  UNCHANGED run
  BY <1>4 DEF Pack, PutPack, Submit, SaveAttestation, Store, PutAttestation
<1>5. ASSUME Sweep(p) \/ Report(p) \/ ReportRejected(p) \/ Crash(p) PROVE UNCHANGED run
  BY <1>5 DEF Sweep, Report, ReportRejected, Crash
<1> QED
  BY <1>1, <1>2, <1>3, <1>4, <1>5

\* Whoever saves a run, pipeline or finalizer, at whichever attempt, makes one transition of
\* the table from the status the run really has (advance, runDeliveryPhase, transitionRun).
THEOREM OrchestrationImplementsLifecycle == Spec => ImplementsLifecycle
<1>1. ASSUME OrchestrationInv, [Next]_vars PROVE [Lifecycle!Next]_run
  <2>1. ASSUME NEW p \in Actor, Progress(p) \/ Fail(p) PROVE [Lifecycle!Next]_run
    BY <1>1, <2>1, AdvanceTransits, DeliverTransits, RunStays DEF Progress
  <2>2. ASSUME NEW w \in Worker, Sweep(w) \/ Report(w) \/ ReportRejected(w) \/ Crash(w) PROVE UNCHANGED run
    BY <2>2, RunStays
  <2>3. ASSUME NEW p, NEW r, Poll(p, r) \/ ScriptStart(p, r) PROVE UNCHANGED run
    BY <2>3 DEF Poll, ScriptStart
  <2>4. ASSUME NEW r, LeaseTimeout(r) \/ AuthorizationExpires(r) PROVE UNCHANGED run
    BY <2>4 DEF LeaseTimeout, AuthorizationExpires
  <2>5. ASSUME ForeignTransaction \/ OwnerPauses \/ OwnerUnpauses PROVE UNCHANGED run
    BY <2>5 DEF ForeignTransaction, OwnerPauses, OwnerUnpauses
  <2>6. ASSUME UNCHANGED vars PROVE UNCHANGED run
    BY <2>6 DEF vars
  <2> QED
    BY <1>1, <2>1, <2>2, <2>3, <2>4, <2>5, <2>6 DEF Next
<1> QED
  BY <1>1, OrchestrationInvariance, PTL DEF Spec, ImplementsLifecycle

-----------------------------------------------------------------------------
(* What the ledger of RunSettlement is here, and how it moves. *)

LEMMA Purchases ==
    ASSUME NEW r \in Run, checkpoint[r].payment = NoPayment, checkpoint'[r].payment \in Payment,
           \A s \in Run \ {r} : checkpoint'[s].payment = checkpoint[s].payment,
           UNCHANGED <<settled, refunds, registry>>
    PROVE  Settlement!Next
<1> DEFINE payment == checkpoint'[r].payment
           books == [s \in Run |-> [purchase |-> checkpoint[s].payment, settled |-> settled[s],
                                    refund |-> refunds[s], verdict |-> registry[s]]]
           after == [s \in Run |-> [purchase |-> checkpoint'[s].payment, settled |-> settled'[s],
                                    refund |-> refunds'[s], verdict |-> registry'[s]]]
<1>1. payment \in Payment /\ payment.amount <= Ceiling
  BY PaymentFields
<1>2. after = [books EXCEPT ![r].purchase = payment]
  OBVIOUS
<1>3. books[r].purchase = NoPayment
  OBVIOUS
<1>4. Settlement!Purchase(r)
  BY <1>1, <1>2, <1>3 DEF Settlement!Purchase
<1> QED
  BY <1>4 DEF Settlement!Next

LEMMA Settles ==
    ASSUME NEW r \in Run, checkpoint[r].payment # NoPayment, settled[r] = {},
           settled' = [settled EXCEPT ![r] = {checkpoint[r].payment}],
           settled \in [Run -> SUBSET Payment], UNCHANGED <<checkpoint, refunds, registry>>
    PROVE  Settlement!Next
<1> DEFINE books == [s \in Run |-> [purchase |-> checkpoint[s].payment, settled |-> settled[s],
                                    refund |-> refunds[s], verdict |-> registry[s]]]
           after == [s \in Run |-> [purchase |-> checkpoint'[s].payment, settled |-> settled'[s],
                                    refund |-> refunds'[s], verdict |-> registry'[s]]]
<1>1. books[r].purchase = checkpoint[r].payment /\ books[r].settled = {}
  OBVIOUS
<1>2. after = [books EXCEPT ![r].settled = {books[r].purchase}]
  OBVIOUS
<1>3. Settlement!Settle(r)
  BY <1>1, <1>2 DEF Settlement!Settle
<1> QED
  BY <1>3 DEF Settlement!Next

LEMMA Refunds ==
    ASSUME NEW r \in Run, checkpoint[r].payment # NoPayment, refunds[r] = 0,
           refunds' = [refunds EXCEPT ![r] = Ceiling - checkpoint[r].payment.amount],
           refunds \in [Run -> Nat], UNCHANGED <<checkpoint, settled, registry>>
    PROVE  Settlement!Next
<1> DEFINE books == [s \in Run |-> [purchase |-> checkpoint[s].payment, settled |-> settled[s],
                                    refund |-> refunds[s], verdict |-> registry[s]]]
           after == [s \in Run |-> [purchase |-> checkpoint'[s].payment, settled |-> settled'[s],
                                    refund |-> refunds'[s], verdict |-> registry'[s]]]
<1>1. books[r].purchase = checkpoint[r].payment /\ books[r].refund = 0
  OBVIOUS
<1>2. after = [books EXCEPT ![r].refund = Ceiling - books[r].purchase.amount]
  OBVIOUS
<1>3. Settlement!Refund(r)
  BY <1>1, <1>2 DEF Settlement!Refund
<1> QED
  BY <1>3 DEF Settlement!Next

LEMMA Attests ==
    ASSUME NEW r \in Run, NEW verdict \in Result, registry[r] = NoResult,
           registry' = [registry EXCEPT ![r] = verdict],
           registry \in [Run -> Result \cup {NoResult}], UNCHANGED <<checkpoint, settled, refunds>>
    PROVE  Settlement!Next
<1> DEFINE books == [s \in Run |-> [purchase |-> checkpoint[s].payment, settled |-> settled[s],
                                    refund |-> refunds[s], verdict |-> registry[s]]]
           after == [s \in Run |-> [purchase |-> checkpoint'[s].payment, settled |-> settled'[s],
                                    refund |-> refunds'[s], verdict |-> registry'[s]]]
<1>1. books[r].verdict = NoResult
  OBVIOUS
<1>2. after = [books EXCEPT ![r].verdict = verdict]
  OBVIOUS
<1>3. Settlement!Attest(r)
  BY <1>1, <1>2 DEF Settlement!Attest
<1> QED
  BY <1>3 DEF Settlement!Next

Ledger == [r \in Run |-> [purchase |-> checkpoint[r].payment, settled |-> settled[r],
                          refund |-> refunds[r], verdict |-> registry[r]]]

\* The abstract ledger stutters when the payments, the token, the refunds and the registry do.
LEMMA Stays ==
    ASSUME \A r \in Run : checkpoint'[r].payment = checkpoint[r].payment,
           UNCHANGED <<settled, refunds, registry>>
    PROVE  UNCHANGED Ledger
BY DEF Ledger

\* A patch without a payment leaves the ledger as it is, and so does one for a row that
\* has a payment already.
LEMMA MergeStays ==
    ASSUME OrchestrationInv, NEW r \in Run, NEW patch \in Copy, Merge(r, patch),
           patch.payment = NoPayment \/ checkpoint[r].payment # NoPayment,
           UNCHANGED <<settled, refunds, registry>>
    PROVE  UNCHANGED Ledger
<1>1. checkpoint[r] \in Copy /\ checkpoint \in [Run -> Copy]
  BY DEF OrchestrationInv, RowsTyped
<1>2. Coalesce(checkpoint[r], patch).payment
        = IF checkpoint[r].payment = NoPayment THEN patch.payment ELSE checkpoint[r].payment
  BY <1>1, CoalesceFields
<1>3. checkpoint' = [checkpoint EXCEPT ![r] = Coalesce(checkpoint[r], patch)]
  BY DEF Merge
<1>4. \A s \in Run : checkpoint'[s].payment = checkpoint[s].payment
  BY <1>1, <1>2, <1>3
<1> QED
  BY <1>4, Stays

LEMMA AcquireSettles ==
    ASSUME OrchestrationInv, NEW p \in Actor, Acquire(p)
    PROVE  Settlement!Next \/ UNCHANGED Ledger
<1> DEFINE r == act[p].run
<1>1. act[p].pc = "authorize" /\ UNCHANGED <<settled, refunds, registry>>
  BY DEF Acquire, At, ledgerVars, targetVars
<1>2. r \in Run /\ act[p].local \in Copy
  BY <1>1, RunOfProcess, ProcessFields DEF OrchestrationInv
<1>3. CASE UNCHANGED checkpoint
  BY <1>1, <1>3, Stays
<1>4. CASE act[p].local.payment = NoPayment
  <2>1. PICK price \in Price : /\ Payable(price, act[p].local.plan)
                               /\ Merge(r, [EmptyCheckpoint EXCEPT !.payment = Signed(p, price)])
    BY <1>4 DEF Acquire
  <2> DEFINE signed == Signed(p, price)
             patch == [EmptyCheckpoint EXCEPT !.payment = signed]
  <2>2. signed \in Payment
    <3>1. act[p].local.plan.budget \in 0..Ceiling
      BY <1>2, CopyFields DEF TestPlan
    <3>2. price <= Ceiling
      BY <2>1, <3>1, CeilingAssumption DEF Payable
    <3> QED
      BY <3>2 DEF Signed, Payment
  <2>3. Merge(r, patch)
    BY <2>1
  <2> HIDE DEF signed
  <2>4. patch \in Copy /\ patch.payment = signed
    BY <2>2, EmptyFields DEF Copy, CheckpointRow
  <2> HIDE DEF patch
  <2>5. CASE checkpoint[r].payment # NoPayment
    BY <1>1, <1>2, <2>3, <2>4, <2>5, MergeStays
  <2>6. CASE checkpoint[r].payment = NoPayment
    <3>1. checkpoint \in [Run -> Copy] /\ checkpoint[r] \in Copy
      BY <1>2 DEF OrchestrationInv, RowsTyped
    <3>2. Coalesce(checkpoint[r], patch).payment = signed
      BY <2>4, <2>6, <3>1, CoalesceFields
    <3>3. checkpoint' = [checkpoint EXCEPT ![r] = Coalesce(checkpoint[r], patch)]
      BY <2>3 DEF Merge
    <3>4. checkpoint'[r].payment = signed /\ \A s \in Run \ {r} : checkpoint'[s] = checkpoint[s]
      BY <1>2, <3>1, <3>2, <3>3
    <3>5. checkpoint'[r].payment \in Payment
      BY <2>2, <3>4
    <3>6. \A s \in Run \ {r} : checkpoint'[s].payment = checkpoint[s].payment
      BY <3>4
    <3> QED
      BY <1>1, <1>2, <2>6, <3>5, <3>6, Purchases
  <2> QED
    BY <2>5, <2>6
<1> QED
  BY <1>3, <1>4 DEF Acquire

LEMMA RequestSettles ==
    ASSUME OrchestrationInv, NEW p \in Actor, act[p].pc \in {"present", "replay"}, NEW response,
           Request(p, response), UNCHANGED <<checkpoint, refunds, registry>>
    PROVE  Settlement!Next \/ UNCHANGED Ledger
<1> DEFINE r == act[p].run
           payment == act[p].local.payment
<1>1. /\ r \in Run /\ ProcessOK(p)
  BY RunOfProcess DEF OrchestrationInv
<1>2. payment # NoPayment /\ payment = checkpoint[r].payment
  BY <1>1 DEF ProcessOK, StepsTaken, CopyIsKept, Bought, Probing
<1>3. settled \in [Run -> SUBSET Payment] /\ settled[r] \subseteq {payment}
  BY <1>1, <1>2 DEF OrchestrationInv, RowsTyped, RunOK, MoneyFits
<1>4. CASE UNCHANGED settled
  BY <1>4, Stays
<1>5. ASSUME NEW settlement, settled' = [settled EXCEPT ![r] = Collected(@, payment, settlement)]
      PROVE  Settlement!Next \/ UNCHANGED Ledger
  <2>1. Collected(settled[r], payment, settlement) \in {settled[r], {payment}}
    BY <1>3 DEF Collected
  <2>2. CASE Collected(settled[r], payment, settlement) = settled[r]
    BY <1>3, <1>4, <1>5, <2>2
  <2>3. CASE Collected(settled[r], payment, settlement) = {payment} /\ settled[r] # {payment}
    <3>1. settled[r] = {} /\ settled' = [settled EXCEPT ![r] = {checkpoint[r].payment}]
      BY <1>2, <1>3, <1>5, <2>3
    <3> QED
      BY <1>1, <1>2, <1>3, <3>1, Settles
  <2> QED
    BY <2>1, <2>2, <2>3
<1> QED
  BY <1>4, <1>5 DEF Request

LEMMA SendRefundSettles ==
    ASSUME OrchestrationInv, NEW p \in Actor, SendRefund(p) PROVE Settlement!Next
<1> DEFINE r == act[p].run
           due == RefundDue(Ceiling, AmountOf(act[p].local.payment))
<1>1. /\ act[p].pc = "sendRefund" /\ act[p].local.refundNonce = nonce
      /\ refunds' = [refunds EXCEPT ![r] = @ + due] /\ UNCHANGED <<checkpoint, settled, registry>>
  BY DEF SendRefund, At, targetVars, storeVars
<1>2. r \in Run /\ ProcessOK(p) /\ act[p].pc \in Bought
  BY <1>1, RunOfProcess, BuyingPlaces DEF OrchestrationInv
<1>3. checkpoint[r] \in Copy /\ nonce \in Nat /\ refunds \in [Run -> Nat] /\ RunOK(r)
  BY <1>2, RowFieldsOf DEF OrchestrationInv, RowsTyped
<1>4. /\ act[p].local.payment # NoPayment /\ act[p].local.payment = checkpoint[r].payment
      /\ nonce # NoNonce /\ checkpoint[r].refundNonce = nonce
  BY <1>1, <1>2 DEF ProcessOK, StepsTaken, CopyIsKept
<1>5. checkpoint[r].payment \in Payment
  BY <1>3, <1>4, CopyFields
<1>6. due = Ceiling - checkpoint[r].payment.amount /\ due \in Nat
  BY <1>4, <1>5, PaymentFields DEF RefundDue, AmountOf
<1>7. refunds[r] = 0
  BY <1>3, <1>4 DEF RunOK, MoneyFits
<1> HIDE DEF due
<1>8. refunds' = [refunds EXCEPT ![r] = due]
  <2>1. refunds[r] + due = due
    BY <1>6, <1>7
  <2> QED
    BY <1>1, <2>1
<1>9. refunds' = [refunds EXCEPT ![r] = Ceiling - checkpoint[r].payment.amount]
  BY <1>6, <1>8
<1> QED
  BY <1>1, <1>2, <1>3, <1>4, <1>7, <1>9, Refunds

LEMMA SubmitSettles ==
    ASSUME OrchestrationInv, NEW p \in Actor, Submit(p)
    PROVE  Settlement!Next \/ UNCHANGED Ledger
<1> DEFINE r == act[p].run
<1>1. act[p].pc = "submit" /\ UNCHANGED <<checkpoint, settled, refunds>>
  BY DEF Submit, At, targetVars, storeVars
<1>2. r \in Run /\ ProcessOK(p) /\ act[p].local.evidence \in Result
  BY <1>1, RunOfProcess DEF OrchestrationInv, ProcessOK, StepsTaken, Attesting
<1>3. CASE UNCHANGED registry
  BY <1>1, <1>3, Stays
<1>4. CASE RegistryAccepts(r) /\ registry' = [registry EXCEPT ![r] = act[p].local.evidence]
  <2>1. registry[r] = NoResult /\ registry \in [Run -> Result \cup {NoResult}]
    BY <1>2, <1>4 DEF RegistryAccepts, OrchestrationInv, RowsTyped
  <2> QED
    BY <1>1, <1>2, <1>4, <2>1, Attests
<1> QED
  BY <1>3, <1>4 DEF Submit, AttestationOf

LEMMA SaveEvidenceStays ==
    ASSUME OrchestrationInv, NEW p \in Actor, SaveEvidence(p) PROVE UNCHANGED Ledger
<1> DEFINE r == act[p].run
           others == act[p].local.plan.scenarios \cap CredentialScenarios
           own == IF "payment-proof-replay" \in act[p].local.plan.scenarios THEN {act[p].probe} ELSE {}
<1>1. act[p].pc = "save" /\ UNCHANGED ledgerVars
  BY DEF SaveEvidence, At
<1>2. /\ act[p] \in Process /\ r \in Run /\ ProcessOK(p)
      /\ act[p].probe \in Result \cup {NoResult, Unanswered}
  BY <1>1, RunOfProcess, ProcessFields DEF OrchestrationInv
<1>3. PICK answer \in [others -> {NoResponse, 402}] :
        LET results == own \cup {Receipted(answer[s], CredentialResult(answer[s])) : s \in others}
            verdict == Evidence({Trusted(x, ProviderSigns) : x \in results})
        IN  /\ Merge(r, [EmptyCheckpoint EXCEPT !.evidence = verdict])
            /\ act' = [act EXCEPT ![p] = [@ EXCEPT !.local.evidence = verdict,
                                                   !.probe = NoResult, !.pc = "build"]]
  BY DEF SaveEvidence
<1> DEFINE results == own \cup {Receipted(answer[s], CredentialResult(answer[s])) : s \in others}
           verdict == Evidence({Trusted(x, ProviderSigns) : x \in results})
           patch == [EmptyCheckpoint EXCEPT !.evidence = verdict]
<1>4. own \subseteq Result \cup {Unanswered}
  <2>1. act[p].probe # NoResult
    BY <1>1, <1>2 DEF ProcessOK, StepsTaken
  <2> QED
    BY <1>2, <2>1
<1>5. results \subseteq Result \cup {Unanswered}
  <2>1. \A s \in others : answer[s] \in {NoResponse, 402}
    OBVIOUS
  <2>2. \A s \in others : Receipted(answer[s], CredentialResult(answer[s])) \in Result \cup {Unanswered}
    BY <2>1 DEF Receipted, CredentialResult, Result
  <2> QED
    BY <1>4, <2>2
<1>6. Merge(r, patch)
  BY <1>3
<1> HIDE DEF results
<1>7. verdict \in Result \cup {Unanswered}
  BY <1>5, EvidenceOf
<1> HIDE DEF verdict
<1>8. patch \in Copy /\ patch.payment = NoPayment
  BY <1>7, EmptyFields DEF Copy, CheckpointRow
<1> HIDE DEF patch
<1> QED
  BY <1>1, <1>2, <1>6, <1>8, MergeStays DEF ledgerVars, targetVars

\* The other patches.
LEMMA PatchStays ==
    ASSUME OrchestrationInv, NEW p \in Actor,
           Plan(p) \/ ReserveNonce(p) \/ SaveRefund(p) \/ SaveAttestation(p)
    PROVE  UNCHANGED Ledger
<1> DEFINE r == act[p].run
<1>1. UNCHANGED <<settled, refunds, registry>> /\ act[p].pc # "idle"
  <2>1. ASSUME Plan(p) \/ ReserveNonce(p) PROVE <1>1!:
    BY <2>1 DEF Plan, ReserveNonce, At, ledgerVars, targetVars
  <2>2. ASSUME SaveRefund(p) \/ SaveAttestation(p) PROVE <1>1!:
    BY <2>2 DEF SaveRefund, SaveAttestation, At, ledgerVars, targetVars
  <2> QED
    BY <2>1, <2>2
<1>2. r \in Run /\ act[p] \in Process /\ act[p].local \in Copy /\ ProcessOK(p)
  BY <1>1, RunOfProcess, ProcessFields DEF OrchestrationInv
<1>3. CASE UNCHANGED checkpoint
  BY <1>1, <1>3, Stays
<1>4. ASSUME NEW patch \in Copy, patch.payment = NoPayment, Merge(r, patch) PROVE UNCHANGED Ledger
  BY <1>1, <1>2, <1>4, MergeStays
<1>5. CASE Plan(p)
  <2>1. ASSUME NEW proposal \in Proposal,
               Merge(r, [EmptyCheckpoint EXCEPT !.plan = CompileTestPlan(proposal, Mandatory, Ceiling)])
        PROVE  UNCHANGED Ledger
    <3> DEFINE plan == CompileTestPlan(proposal, Mandatory, Ceiling)
               patch == [EmptyCheckpoint EXCEPT !.plan = plan]
    <3>1. plan \in TestPlan(Scenarios)
      BY PlanFields
    <3> HIDE DEF plan
    <3>2. patch \in Copy /\ patch.payment = NoPayment
      BY <3>1, EmptyFields DEF Copy, CheckpointRow
    <3>3. Merge(r, patch)
      BY <2>1 DEF plan
    <3> HIDE DEF patch
    <3> QED
      BY <1>4, <3>2, <3>3
  <2> QED
    BY <1>3, <1>5, <2>1 DEF Plan
<1>6. CASE ReserveNonce(p)
  <2>1. nonce \in Nat
    BY DEF OrchestrationInv, RowsTyped
  <2> DEFINE patch == [EmptyCheckpoint EXCEPT !.refundNonce = nonce]
  <2>2. patch \in Copy /\ patch.payment = NoPayment
    BY <2>1, EmptyFields DEF Copy, CheckpointRow
  <2>3. UNCHANGED checkpoint \/ Merge(r, patch)
    BY <1>6 DEF ReserveNonce
  <2> HIDE DEF patch
  <2> QED
    BY <1>3, <1>4, <2>2, <2>3
<1>7. CASE SaveRefund(p)
  <2> DEFINE patch == [EmptyCheckpoint EXCEPT !.refunded = TRUE]
  <2>1. patch \in Copy /\ patch.payment = NoPayment
    BY EmptyFields DEF Copy, CheckpointRow
  <2>2. Merge(r, patch)
    BY <1>7 DEF SaveRefund
  <2> HIDE DEF patch
  <2> QED
    BY <1>4, <2>1, <2>2
<1>8. CASE SaveAttestation(p)
  <2> DEFINE patch == [EmptyCheckpoint EXCEPT !.attested = TRUE]
  <2>1. patch \in Copy /\ patch.payment = NoPayment
    BY EmptyFields DEF Copy, CheckpointRow
  <2>2. Merge(r, patch)
    BY <1>8 DEF SaveAttestation
  <2> HIDE DEF patch
  <2> QED
    BY <1>4, <2>1, <2>2
<1> QED
  BY <1>5, <1>6, <1>7, <1>8

\* Nothing else touches a payment, the token, a refund or the registry.
LEMMA LedgerStays ==
    ASSUME NEW p,
           \/ LoadRun(p) \/ LoadCheckpoint(p) \/ Advance(p) \/ Deny(p) \/ CheckNonce(p)
           \/ Pack(p) \/ PutPack(p) \/ Store(p) \/ PutAttestation(p) \/ Deliver(p) \/ Fail(p)
           \/ Sweep(p) \/ Report(p) \/ ReportRejected(p) \/ Crash(p)
    PROVE  UNCHANGED <<checkpoint, settled, refunds, registry>>
<1> USE DEF ledgerVars, targetVars, storeVars
<1>1. ASSUME LoadRun(p) \/ LoadCheckpoint(p) \/ Deny(p) \/ CheckNonce(p) \/ Fail(p)
      PROVE  UNCHANGED <<checkpoint, settled, refunds, registry>>
  BY <1>1 DEF LoadRun, LoadCheckpoint, Deny, CheckNonce, Fail
<1>2. ASSUME Advance(p) \/ Deliver(p) PROVE UNCHANGED <<checkpoint, settled, refunds, registry>>
  BY <1>2 DEF Advance, Deliver
<1>3. ASSUME Pack(p) \/ PutPack(p) \/ Store(p) \/ PutAttestation(p)
      PROVE  UNCHANGED <<checkpoint, settled, refunds, registry>>
  BY <1>3 DEF Pack, PutPack, Store, PutAttestation
<1>4. ASSUME Sweep(p) \/ Report(p) \/ ReportRejected(p) \/ Crash(p)
      PROVE  UNCHANGED <<checkpoint, settled, refunds, registry>>
  BY <1>4 DEF Sweep, Report, ReportRejected, Crash
<1> QED
  BY <1>1, <1>2, <1>3, <1>4

LEMMA ProgressSettles ==
    ASSUME OrchestrationInv, NEW p \in Actor, Progress(p) \/ Fail(p)
    PROVE  Settlement!Next \/ UNCHANGED Ledger
<1>1. ASSUME Present(p) \/ Replay(p) PROVE Settlement!Next \/ UNCHANGED Ledger
  <2>1. ASSUME Present(p) PROVE Settlement!Next \/ UNCHANGED Ledger
    <3>1. act[p].pc = "present" /\ UNCHANGED <<checkpoint, refunds, registry>>
      BY <2>1 DEF Present, At, storeVars
    <3>2. UNCHANGED settled \/ \E response : Request(p, response)
      BY <2>1 DEF Present
    <3> QED
      BY <3>1, <3>2, RequestSettles, Stays
  <2>2. ASSUME Replay(p) PROVE Settlement!Next \/ UNCHANGED Ledger
    <3>1. act[p].pc = "replay" /\ UNCHANGED <<checkpoint, refunds, registry>>
      BY <2>2 DEF Replay, At, storeVars
    <3>2. \E response : Request(p, response)
      BY <2>2 DEF Replay
    <3> QED
      BY <3>1, <3>2, RequestSettles
  <2> QED
    BY <1>1, <2>1, <2>2
<1>2. ASSUME \/ LoadRun(p) \/ LoadCheckpoint(p) \/ Advance(p) \/ Deny(p) \/ CheckNonce(p)
             \/ Pack(p) \/ PutPack(p) \/ Store(p) \/ PutAttestation(p) \/ Deliver(p) \/ Fail(p)
      PROVE  UNCHANGED Ledger
  BY <1>2, LedgerStays, Stays
<1> QED
  BY <1>1, <1>2, AcquireSettles, SendRefundSettles, SubmitSettles, PatchStays, SaveEvidenceStays DEF Progress

\* Whatever crashes, overlaps or is sent twice, each run's wallet, token, checkpoint and
\* registry entry go through RunSettlement: one purchase, collected once, one refund of
\* exactly the rest, and one verdict that is never replaced.
THEOREM OrchestrationSettlesOnce == Spec => SettlesOnce
<1>1. Init => Settlement!Init
  BY DEF Init, Settlement!Init, Settlement!Unsettled, EmptyCheckpoint
<1>2. ASSUME OrchestrationInv, [Next]_vars PROVE Settlement!Next \/ UNCHANGED Ledger
  <2>1. ASSUME NEW p \in Actor, Progress(p) \/ Fail(p) PROVE Settlement!Next \/ UNCHANGED Ledger
    BY <1>2, <2>1, ProgressSettles
  <2>2. ASSUME NEW w \in Worker, Sweep(w) \/ Report(w) \/ ReportRejected(w) \/ Crash(w)
        PROVE  UNCHANGED Ledger
    BY <2>2, LedgerStays, Stays
  <2>3. ASSUME NEW p, NEW r, Poll(p, r) \/ ScriptStart(p, r) PROVE UNCHANGED Ledger
    BY <2>3, Stays DEF Poll, ScriptStart, ledgerVars, targetVars, storeVars
  <2>4. ASSUME NEW r, LeaseTimeout(r) \/ AuthorizationExpires(r) PROVE UNCHANGED Ledger
    BY <2>4, Stays DEF LeaseTimeout, AuthorizationExpires, ledgerVars, targetVars, storeVars
  <2>5. ASSUME ForeignTransaction \/ OwnerPauses \/ OwnerUnpauses PROVE UNCHANGED Ledger
    BY <2>5, Stays DEF ForeignTransaction, OwnerPauses, OwnerUnpauses, targetVars, storeVars
  <2>6. ASSUME UNCHANGED vars PROVE UNCHANGED Ledger
    BY <2>6, Stays DEF vars, ledgerVars, targetVars, storeVars
  <2> QED
    BY <1>2, <2>1, <2>2, <2>3, <2>4, <2>5, <2>6 DEF Next
<1> QED
  BY <1>1, <1>2, OrchestrationInvariance, PTL DEF Spec, SettlesOnce, Settlement!Spec, Ledger

-----------------------------------------------------------------------------
(* The queue, as the orchestrator uses it. *)

LEMMA StepUsesQueue == ASSUME OrchestrationInv, [Next]_vars PROVE [QueueNext]_queueVars
<1>1. ASSUME NEW w \in Worker, NEW r \in Run, Poll(w, r) PROVE QueueNext
  <2>1. ClaimNext(w, r) /\ r \in Job
    BY <1>1 DEF Poll, Run
  <2> QED
    BY <2>1 DEF QueueNext
<1>2. ASSUME NEW w \in Worker, Report(w) PROVE QueueNext
  <2>1. w \in Actor /\ act[w].pc = "finish"
    BY <1>2 DEF Actor, Report, At
  <2>2. act[w].outcome = "RETRY" => held[w].attempt < MaxAttempts
    BY <2>1 DEF OrchestrationInv, ProcessOK, ResultIsRight
  <2>3. act[w].outcome \in {"NONE", "ACK", "RETRY", "DEAD_LETTER"} /\ act[w].outcome # "NONE"
    BY <2>1, RunOfProcess, ProcessFields DEF OrchestrationInv, ProcessOK, ResultIsRight
  <2>4. Outcome(w)
    BY <1>2, <2>2, <2>3 DEF Report, Outcome
  <2> QED
    BY <2>4 DEF QueueNext
<1>3. ASSUME NEW w \in Worker, Sweep(w) \/ ReportRejected(w) \/ Crash(w) PROVE QueueNext
  BY <1>3 DEF Sweep, ReportRejected, Crash, QueueNext
<1>4. ASSUME NEW r \in Run, LeaseTimeout(r) PROVE QueueNext
  BY <1>4 DEF LeaseTimeout, QueueNext, Run
<1>5. ASSUME NEW p \in Actor, Progress(p) \/ Fail(p) PROVE UNCHANGED queueVars
  BY <1>5
  DEF Progress, Fail, LoadRun, LoadCheckpoint, Advance, Plan, Deny, Acquire, ReserveNonce, CheckNonce,
      SendRefund, SaveRefund, Present, Replay, SaveEvidence, Pack, PutPack, Submit, SaveAttestation,
      Store, PutAttestation, Deliver, shared
<1>6. ASSUME NEW s \in Script, NEW r \in Run, ScriptStart(s, r) PROVE UNCHANGED queueVars
  BY <1>6 DEF ScriptStart
<1>7. ASSUME NEW r \in Run, AuthorizationExpires(r) PROVE UNCHANGED queueVars
  BY <1>7 DEF AuthorizationExpires
<1>8. CASE ForeignTransaction \/ OwnerPauses \/ OwnerUnpauses \/ UNCHANGED vars
  BY <1>8 DEF ForeignTransaction, OwnerPauses, OwnerUnpauses, vars
<1> QED
  BY <1>1, <1>2, <1>3, <1>4, <1>5, <1>6, <1>7, <1>8 DEF Next

\* The pipeline never asks for a retry on the last attempt, so its steps are the queue's:
\* while its lease runs, an attempt keeps its run, whatever the other workers do.
THEOREM PipelineLeasesAreRespected == Spec => LiveLeaseIsRespected
<1>1. OrchestrationInv /\ [Next]_vars => [QueueNext]_queueVars
  BY StepUsesQueue
<1>2. OrchestrationInv => QueueInv
  BY DEF OrchestrationInv
<1> QED
  BY <1>1, <1>2, QueueStepsRespectLeases, OrchestrationInvariance, PTL DEF Spec, LiveLeaseIsRespected

\* An attempt of the pipeline that was overtaken is turned away when it reports, and one that
\* was not can always report (worker.ts, #finishLease).
THEOREM PipelineReportsAreFenced == Spec => []OvertakenIsFenced /\ []HolderPassesFence
<1>1. OrchestrationInv => OvertakenIsFenced /\ HolderPassesFence
  BY QueueInvFences DEF OrchestrationInv, QueueInv
<1> QED
  BY <1>1, OrchestrationInvariance, PTL

=============================================================================
