--------------------------- MODULE PaymentFunding ---------------------------
(***************************************************************************)
(* From a quoted run to a funded or expired one: the run and challenge     *)
(* routes of apps/api-gateway, the payment worker with its reconciler      *)
(* (apps/payment-worker, packages/payment-reconciliation), the PostgreSQL  *)
(* transactions they share, and the stand-alone expiry script.             *)
(*                                                                         *)
(* A database transaction is one action, and so is what a process does up  *)
(* to the next await after which something it has read may be out of date. *)
(* The merchant (GOAT Flow, or the BOT Chain adapter, see BotChainOrder)   *)
(* and the chain are the environment: they confirm an order with a         *)
(* transfer, and make its receipt readable, at any moment.                 *)
(***************************************************************************)
EXTENDS LeaseQueue, FiniteSets

CONSTANTS
    Request,      \* concurrent payment-challenge requests in the API
    Script,       \* runs of expire-stale-orders.ts
    Tx,           \* on-chain transfers (transaction hash and log index)
    Genuine,      \* transfers verifySettlement accepts
    NoTx,
    LatePayment,  \* can the merchant confirm an order after its deadline?
    MaxCrashes    \* bound on worker crashes

ASSUME TxAssumption == NoTx \notin Tx /\ Genuine \subseteq Tx
ASSUME LatePaymentAssumption == LatePayment \in BOOLEAN
ASSUME MaxCrashesAssumption == MaxCrashes \in Nat

Run == Job        \* a run and its reconciliation job share their key

VARIABLES
    run,        \* runs: status and revision
    quotePast,  \* runs whose quote has expired
    order,      \* runs with a payment_orders row
    orderPast,  \* runs whose payment order has expired
    merchant,   \* the transfer the merchant reports as this order's payment
    indexed,    \* transfers whose receipt the chain reader returns
    receipt,    \* payment_receipts with direction CUSTOMER_IN
    orchestratorJob, \* runs with an orchestrator_jobs row
    worker,     \* the payment workers: where they are, what they read and decided
    sweep,      \* expiry sweeps in progress, by worker or script
    request,    \* challenge requests in progress
    crashes

runVars == <<run, order, receipt, orchestratorJob>>
worldVars == <<quotePast, orderPast, merchant, indexed>>
vars == <<queueVars, runVars, worldVars, worker, sweep, request, crashes>>

Sweeper == Worker \cup Script

Lifecycle == INSTANCE RunLifecycle WITH Run <- Run, run <- run

\* Statuses before funding, and those reachable only through FUNDED.
Unfunded == {"DRAFT", "QUOTED", "PAYMENT_REQUIRED"}
FundedOrLater == {"FUNDED", "ANALYZING"}
Unsettled == {"QUOTED", "PAYMENT_REQUIRED"}

WorkerPC == {"down", "idle", "polling", "idleBranch", "sweep", "load", "query",
             "settle", "expireLoad", "expire", "finish"}
Verdict == {"ACK", "WAIT", "RETRY", "RESOLVED", "DEAD_LETTER"}
IdleWorker == [pc |-> "idle", revision |-> 0, tx |-> NoTx, verdict |-> "NONE"]

NoSweep == [open |-> FALSE, todo |-> {}]
NoRequest == [pc |-> "none", run |-> "NONE", revision |-> 0]

Init ==
    /\ QueueInit
    /\ run = [r \in Run |-> [status |-> "DRAFT", revision |-> 0]]
    /\ quotePast = {}
    /\ order = {}
    /\ orderPast = {}
    /\ merchant = [r \in Run |-> NoTx]
    /\ indexed = {}
    /\ receipt = [r \in Run |-> NoTx]
    /\ orchestratorJob = {}
    /\ worker = [w \in Worker |-> IdleWorker]
    /\ sweep = [p \in Sweeper |-> NoSweep]
    /\ request = [g \in Request |-> NoRequest]
    /\ crashes = 0

-----------------------------------------------------------------------------
(* The optimistic update every writer of a run uses: it takes effect only  *)
(* on the revision, and in the statuses, the writer decided upon.          *)

\* Mutant of AtRevision: the run may have moved on meanwhile.
AnyRevision(r, revision, statuses) == run[r].revision >= revision

AtRevision(r, revision, statuses) ==
    run[r].revision = revision /\ run[r].status \in statuses

Moved(r, to) == [run EXCEPT ![r] = Lifecycle!Moved(run[r], to)]

-----------------------------------------------------------------------------
(* API: POST /v1/runs, payment-challenge and payment-tx.                   *)

\* The draft is quoted in memory and inserted as QUOTED; an expired quote is refused.
CreateRun(r) ==
    /\ run[r].status = "DRAFT"
    /\ r \notin quotePast
    /\ run' = Moved(r, "QUOTED")
    /\ UNCHANGED <<queueVars, order, receipt, orchestratorJob, worldVars, worker, sweep, request, crashes>>

\* The route loads the run: with an order it only recovers the run's status,
\* without one it creates the order, unless the run moved on or its quote expired.
ChallengeBegin(g, r) ==
    /\ request[g] = NoRequest
    /\ run[r].status = "QUOTED"
    /\ r \in order \/ r \notin quotePast
    /\ request' = [request EXCEPT ![g] = [pc |-> IF r \in order THEN "save" ELSE "create",
                                          run |-> r,
                                          revision |-> run[r].revision]]
    /\ UNCHANGED <<queueVars, runVars, worldVars, worker, sweep, crashes>>

\* merchantAdapter.createOrder returns the order of this dappOrderId, creating it if needed.
CreateOrder(g) ==
    /\ request[g].pc = "create"
    /\ order' = order \cup {request[g].run}
    /\ request' = [request EXCEPT ![g].pc = "save"]
    /\ UNCHANGED <<queueVars, run, receipt, orchestratorJob, worldVars, worker, sweep, crashes>>

\* ensurePaymentRequired: one transaction updates the run and enqueues its
\* reconciliation; on a revision conflict nothing is written.
SavePaymentRequired(g) ==
    LET r == request[g].run IN
    /\ request[g].pc = "save"
    /\ request' = [request EXCEPT ![g] = NoRequest]
    /\ IF run[r].revision = request[g].revision
       THEN run' = Moved(r, "PAYMENT_REQUIRED") /\ Enqueue(r)
       ELSE UNCHANGED <<queueVars, run>>
    /\ UNCHANGED <<order, receipt, orchestratorJob, worldVars, worker, sweep, crashes>>

\* The merchant or the database fails, or the API process stops.
RequestFails(g) ==
    /\ request[g] # NoRequest
    /\ request' = [request EXCEPT ![g] = NoRequest]
    /\ UNCHANGED <<queueVars, runVars, worldVars, worker, sweep, crashes>>

\* The customer names a transaction for an order: a dead job is re-armed,
\* whatever became of the run.
PaymentTransaction(r) ==
    /\ r \in order
    /\ Rearm(r)
    /\ UNCHANGED <<runVars, worldVars, worker, sweep, request, crashes>>

-----------------------------------------------------------------------------
(* Environment: clocks, the merchant, the chain, and the orchestrator.     *)

QuoteDeadline(r) ==
    /\ r \notin quotePast
    /\ quotePast' = quotePast \cup {r}
    /\ UNCHANGED <<queueVars, runVars, orderPast, merchant, indexed, worker, sweep, request, crashes>>

OrderDeadline(r) ==
    /\ r \in order \ orderPast
    /\ orderPast' = orderPast \cup {r}
    /\ UNCHANGED <<queueVars, runVars, quotePast, merchant, indexed, worker, sweep, request, crashes>>

\* The same transfer may be reported for two orders of one customer.
MerchantConfirms(r, t) ==
    /\ r \in order
    /\ r \notin orderPast \/ LatePayment
    /\ merchant[r] = NoTx
    /\ merchant' = [merchant EXCEPT ![r] = t]
    /\ UNCHANGED <<queueVars, runVars, quotePast, orderPast, indexed, worker, sweep, request, crashes>>

ReceiptIndexed(t) ==
    /\ t \notin indexed
    /\ indexed' = indexed \cup {t}
    /\ UNCHANGED <<queueVars, runVars, quotePast, orderPast, merchant, worker, sweep, request, crashes>>

\* The first transition of the pipeline takes the run out of the reconciler's sight.
OrchestratorStarts(r) ==
    /\ r \in orchestratorJob
    /\ run[r].status = "FUNDED"
    /\ run' = Moved(r, "ANALYZING")
    /\ UNCHANGED <<queueVars, order, receipt, orchestratorJob, worldVars, worker, sweep, request, crashes>>

LeaseTimeout(r) ==
    /\ LeaseLapses(r)
    /\ UNCHANGED <<runVars, worldVars, worker, sweep, request, crashes>>

-----------------------------------------------------------------------------
(* The loop of the payment worker: claimNext, handle, mark..., or sweep.   *)

\* A worker moves on, with what it keeps in its local variables.
Becomes(w, pc, revision, tx, verdict) ==
    worker' = [worker EXCEPT ![w] = [pc |-> pc, revision |-> revision, tx |-> tx, verdict |-> verdict]]

Goto(w, pc) == Becomes(w, pc, 0, NoTx, "NONE")
Keep(w, pc, revision, tx) == Becomes(w, pc, revision, tx, "NONE")
Decide(w, verdict) == Becomes(w, "finish", 0, NoTx, verdict)

\* Mutant of RetryOrGiveUp: the attempts are not counted.
AlwaysRetry(w) == "RETRY"

\* Mutant of RetryOrGiveUp: the last failure is acknowledged.
RetryOrAcknowledge(w) == IF held[w].attempt >= MaxAttempts THEN "ACK" ELSE "RETRY"

\* Errors of unknown cause: retried, until the last attempt.
RetryOrGiveUp(w) == IF held[w].attempt >= MaxAttempts THEN "DEAD_LETTER" ELSE "RETRY"

PollStale(w) ==
    /\ worker[w].pc = "idle"
    /\ DeadLetterExhausted(w)
    /\ Goto(w, "polling")
    /\ UNCHANGED <<runVars, worldVars, sweep, request, crashes>>

PollClaim(w, r) ==
    /\ worker[w].pc = "polling"
    /\ ClaimNext(w, r)
    /\ Goto(w, "load")
    /\ UNCHANGED <<runVars, worldVars, sweep, request, crashes>>

PollNothing(w) ==
    /\ worker[w].pc = "polling"
    /\ NothingDue
    /\ Goto(w, "idleBranch")
    /\ UNCHANGED <<queueVars, runVars, worldVars, sweep, request, crashes>>

\* Between two sweeps (EXPIRY_SWEEP_INTERVAL_MS) the idle branch only sleeps.
Rest(w) ==
    /\ worker[w].pc = "idleBranch"
    /\ Goto(w, "idle")
    /\ UNCHANGED <<queueVars, runVars, worldVars, sweep, request, crashes>>

\* Mutant of LoadRun: a run that no longer awaits payment is waited for.
LoadRunOrWait(w) ==
    LET r == held[w].job IN
    /\ worker[w].pc = "load"
    /\ \/ run[r].status = "FUNDED" /\ Decide(w, "ACK")
       \/ run[r].status = "PAYMENT_REQUIRED" /\ Keep(w, "query", run[r].revision, NoTx)
       \/ run[r].status \notin {"FUNDED", "PAYMENT_REQUIRED"} /\ Decide(w, "WAIT")
    /\ UNCHANGED <<queueVars, runVars, worldVars, sweep, request, crashes>>

\* reconcile: the run, its order and its receipt are read in one statement.
LoadRun(w) ==
    LET r == held[w].job IN
    /\ worker[w].pc = "load"
    /\ \/ run[r].status = "FUNDED" /\ Decide(w, "ACK")
       \/ run[r].status = "PAYMENT_REQUIRED" /\ Keep(w, "query", run[r].revision, NoTx)
       \/ run[r].status \notin {"FUNDED", "PAYMENT_REQUIRED"} /\ Decide(w, RetryOrGiveUp(w))
    /\ UNCHANGED <<queueVars, runVars, worldVars, sweep, request, crashes>>

\* getOrderStatus: confirmed, expired unpaid, or not ready yet.
QueryOrder(w) ==
    LET r == held[w].job IN
    /\ worker[w].pc = "query"
    /\ \/ merchant[r] # NoTx /\ Keep(w, "settle", worker[w].revision, merchant[r])
       \/ merchant[r] = NoTx /\ r \in orderPast /\ Goto(w, "expireLoad")
       \/ merchant[r] = NoTx /\ r \notin orderPast /\ Decide(w, "WAIT")
    /\ UNCHANGED <<queueVars, runVars, worldVars, sweep, request, crashes>>

\* Mutant of CanFund: the receipts of other runs are not compared.
CanFundReused(r, t, revision) ==
    /\ receipt[r] = NoTx
    /\ AtRevision(r, revision, {"PAYMENT_REQUIRED"})

\* What commitFundedRun needs: the transfer funds no other run, and the run is as loaded.
CanFund(r, t, revision) ==
    /\ \A other \in Run : receipt[other] # t
    /\ receipt[r] = NoTx
    /\ AtRevision(r, revision, {"PAYMENT_REQUIRED"})

\* commitFundedRun: receipt, run, event and orchestrator job in one transaction.
CommitFunded(r, t) ==
    /\ receipt' = [receipt EXCEPT ![r] = t]
    /\ run' = Moved(r, "FUNDED")
    /\ orchestratorJob' = orchestratorJob \cup {r}
    /\ UNCHANGED order

\* Proof and receipt are read and verified (neither changes once it is there),
\* then the funding is committed; the answer to the commit may be lost.
SettleOrder(w) ==
    LET r == held[w].job
        t == worker[w].tx
    IN
    /\ worker[w].pc = "settle"
    /\ \/ /\ t \notin indexed
          /\ Decide(w, "WAIT")
          /\ UNCHANGED runVars
       \/ /\ t \in indexed \ Genuine
          /\ Decide(w, "DEAD_LETTER")
          /\ UNCHANGED runVars
       \/ /\ t \in indexed \cap Genuine
          /\ CanFund(r, t, worker[w].revision)
          /\ CommitFunded(r, t)
          /\ Decide(w, "ACK") \/ Decide(w, RetryOrGiveUp(w))
       \/ /\ t \in indexed \cap Genuine
          /\ ~CanFund(r, t, worker[w].revision)
          /\ Decide(w, RetryOrGiveUp(w))
          /\ UNCHANGED runVars
    /\ UNCHANGED <<queueVars, worldVars, sweep, request, crashes>>

\* A dependency of reconcile throws: the database, the merchant or the RPC.
ReconcileFails(w) ==
    /\ worker[w].pc \in {"load", "query", "settle"}
    /\ Decide(w, RetryOrGiveUp(w))
    /\ UNCHANGED <<queueVars, runVars, worldVars, sweep, request, crashes>>

\* expireRun reads the run again, and leaves it alone unless it still awaits payment.
ExpireLoad(w) ==
    LET r == held[w].job IN
    /\ worker[w].pc = "expireLoad"
    /\ IF run[r].status = "PAYMENT_REQUIRED"
       THEN Keep(w, "expire", run[r].revision, NoTx)
       ELSE Decide(w, "RESOLVED")
    /\ UNCHANGED <<queueVars, runVars, worldVars, sweep, request, crashes>>

\* Mutant of CanExpire: the update is not guarded.
CanExpireAnything(r, revision) == TRUE

\* commitExpiredRun on the revision the caller decided upon.
CanExpire(r, revision) == AtRevision(r, revision, Unfunded)

ExpireCommit(w) ==
    LET r == held[w].job IN
    /\ worker[w].pc = "expire"
    /\ CanExpire(r, worker[w].revision)
    /\ run' = Moved(r, "EXPIRED")
    /\ Decide(w, "RESOLVED")
    /\ UNCHANGED <<queueVars, order, receipt, orchestratorJob, worldVars, sweep, request, crashes>>

\* The conflict is thrown out of handle and ends the process.
ExpireConflict(w) ==
    /\ worker[w].pc = "expire"
    /\ ~CanExpire(held[w].job, worker[w].revision)
    /\ Abandon(w)
    /\ Goto(w, "down")
    /\ UNCHANGED <<runVars, worldVars, sweep, request, crashes>>

\* The handler's result is written back, and the loop continues.
FinishJob(w) ==
    /\ worker[w].pc = "finish"
    /\ \/ worker[w].verdict \in {"ACK", "RESOLVED"} /\ MarkCompleted(w)
       \/ worker[w].verdict = "WAIT" /\ MarkWaiting(w)
       \/ worker[w].verdict = "RETRY" /\ MarkRetry(w)
       \/ worker[w].verdict = "DEAD_LETTER" /\ MarkDeadLetter(w)
    /\ Goto(w, "idle")
    /\ UNCHANGED <<runVars, worldVars, sweep, request, crashes>>

\* The lease was lost: the error ends the process.
FinishConflict(w) ==
    /\ worker[w].pc = "finish"
    /\ FinishRejected(w)
    /\ Goto(w, "down")
    /\ UNCHANGED <<runVars, worldVars, sweep, request, crashes>>

Crash(w) ==
    /\ worker[w].pc # "down"
    /\ crashes < MaxCrashes
    /\ crashes' = crashes + 1
    /\ IF Holding(w) THEN Abandon(w) ELSE UNCHANGED queueVars
    /\ Goto(w, "down")
    /\ sweep' = [sweep EXCEPT ![w] = NoSweep]
    /\ UNCHANGED <<runVars, worldVars, request>>

\* vercel-prod-workers-supervisor.sh starts the process again.
Restart(w) ==
    /\ worker[w].pc = "down"
    /\ Goto(w, "idle")
    /\ UNCHANGED <<queueVars, runVars, worldVars, sweep, request, crashes>>

-----------------------------------------------------------------------------
(* sweepExpiredRuns, from a worker's idle branch or from the script.       *)

\* The order's deadline when there is an order, else the quote's.
PastDeadline(r) == IF r \in order THEN r \in orderPast ELSE r \in quotePast

\* Mutant of Candidates: runs abandoned before their challenge are forgotten.
CandidatesAwaitingPayment ==
    {[run |-> r, revision |-> run[r].revision] :
        r \in {r \in Run : run[r].status = "PAYMENT_REQUIRED" /\ PastDeadline(r)}}

\* findRunsPastPaymentDeadline.  (A DRAFT run is never in the table.)
Candidates == {[run |-> r, revision |-> run[r].revision] :
                   r \in {r \in Run : run[r].status \in Unsettled /\ PastDeadline(r)}}

SweepBegin(p) ==
    /\ ~sweep[p].open
    /\ sweep' = [sweep EXCEPT ![p] = [open |-> TRUE, todo |-> Candidates]]
    /\ IF p \in Worker
       THEN worker[p].pc = "idleBranch" /\ Goto(p, "sweep")
       ELSE UNCHANGED worker
    /\ UNCHANGED <<queueVars, runVars, worldVars, request, crashes>>

\* Back to the loop, or out of the script.
SweepLeave(p) ==
    /\ sweep' = [sweep EXCEPT ![p] = NoSweep]
    /\ IF p \in Worker THEN Goto(p, "idle") ELSE UNCHANGED worker

SweepExpire(p, c) ==
    /\ c \in sweep[p].todo
    /\ CanExpire(c.run, c.revision)
    /\ run' = Moved(c.run, "EXPIRED")
    /\ sweep' = [sweep EXCEPT ![p].todo = @ \ {c}]
    /\ UNCHANGED <<queueVars, order, receipt, orchestratorJob, worldVars, worker, request, crashes>>

\* A candidate that moved on makes commitExpiredRun throw, which ends the sweep.
SweepConflict(p, c) ==
    /\ c \in sweep[p].todo
    /\ ~CanExpire(c.run, c.revision)
    /\ SweepLeave(p)
    /\ UNCHANGED <<queueVars, runVars, worldVars, request, crashes>>

SweepEnd(p) ==
    /\ sweep[p].open
    /\ sweep[p].todo = {}
    /\ SweepLeave(p)
    /\ UNCHANGED <<queueVars, runVars, worldVars, request, crashes>>

-----------------------------------------------------------------------------
ApiStep ==
    \/ \E r \in Run : CreateRun(r) \/ PaymentTransaction(r)
    \/ \E g \in Request, r \in Run : ChallengeBegin(g, r)
    \/ \E g \in Request : CreateOrder(g) \/ SavePaymentRequired(g) \/ RequestFails(g)

EnvironmentStep ==
    \/ \E r \in Run : QuoteDeadline(r) \/ OrderDeadline(r) \/ OrchestratorStarts(r) \/ LeaseTimeout(r)
    \/ \E r \in Run, t \in Tx : MerchantConfirms(r, t)
    \/ \E t \in Tx : ReceiptIndexed(t)

\* One step of a worker that is handling a job.
HandlerStep(w) ==
    \/ LoadRun(w) \/ QueryOrder(w) \/ SettleOrder(w) \/ ReconcileFails(w)
    \/ ExpireLoad(w) \/ ExpireCommit(w) \/ ExpireConflict(w)
    \/ FinishJob(w) \/ FinishConflict(w)

WorkerStep(w) ==
    \/ PollStale(w) \/ PollNothing(w) \/ Rest(w) \/ Restart(w)
    \/ \E r \in Run : PollClaim(w, r)
    \/ HandlerStep(w)

SweepStep(p) == SweepEnd(p) \/ \E c \in sweep[p].todo : SweepExpire(p, c) \/ SweepConflict(p, c)

Next ==
    \/ ApiStep
    \/ EnvironmentStep
    \/ \E w \in Worker : WorkerStep(w) \/ Crash(w)
    \/ \E p \in Sweeper : SweepBegin(p) \/ SweepStep(p)

Spec == Init /\ [][Next]_vars

(***************************************************************************)
(* Fairness.  Deadlines pass and leases lapse.  A worker process, and a    *)
(* sweep, take their next step, and the supervisor restarts a dead worker. *)
(* The queue is not due all the time (a retry waits 5 to 30 seconds), so a *)
(* worker sometimes finds nothing to claim, and every few minutes such a   *)
(* worker sweeps.  Rows are claimed in available_at order, so each has its *)
(* turn.  Besides, customers do not name transactions forever, and handlers*)
(* come to be faster than their lease: docs/adr/0018 requires it, and a    *)
(* reclaim that costs no attempt would otherwise go on without end.        *)
(***************************************************************************)
Fairness ==
    /\ \A r \in Run :
        /\ WF_vars(QuoteDeadline(r)) /\ WF_vars(OrderDeadline(r)) /\ WF_vars(LeaseTimeout(r))
        /\ SF_vars(\E w \in Worker : PollClaim(w, r))
    /\ \A w \in Worker : WF_vars(WorkerStep(w)) /\ WF_vars(SweepStep(w))
    /\ \E w \in Worker : SF_vars(PollNothing(w)) /\ SF_vars(SweepBegin(w))

CustomersCalmDown == <>[][\A r \in Run : ~PaymentTransaction(r)]_vars

LeasesOutliveHandlers ==
    <>[][\A r \in Run, w \in Worker : LeaseTimeout(r) => ~(Fence(w) /\ held[w].job = r)]_vars

FairSpec == Spec /\ Fairness /\ CustomersCalmDown /\ LeasesOutliveHandlers

-----------------------------------------------------------------------------
(* Properties. *)

Handling == {"load", "query", "settle", "expireLoad", "expire", "finish"}

RunState == [status : Unfunded \cup FundedOrLater \cup {"EXPIRED"}, revision : Nat]
WorkerState == [pc : WorkerPC, revision : Nat, tx : Tx \cup {NoTx}, verdict : Verdict \cup {"NONE"}]
SweepState == {NoSweep} \cup [open : {TRUE}, todo : SUBSET [run : Run, revision : Nat]]
RequestState == {NoRequest} \cup [pc : {"create", "save"}, run : Run, revision : Nat]

\* Every variable has its type, and a worker holds a claim exactly while it
\* handles a job and has an open sweep exactly while it sweeps.
TypeOK ==
    /\ QueueTypeOK
    /\ run \in [Run -> RunState]
    /\ quotePast \subseteq Run /\ order \subseteq Run /\ orderPast \subseteq order
    /\ merchant \in [Run -> Tx \cup {NoTx}] /\ receipt \in [Run -> Tx \cup {NoTx}]
    /\ indexed \subseteq Tx /\ orchestratorJob \subseteq Run
    /\ worker \in [Worker -> WorkerState]
    /\ sweep \in [Sweeper -> SweepState]
    /\ request \in [Request -> RequestState]
    /\ crashes \in 0..MaxCrashes
    /\ \A w \in Worker : /\ (worker[w].pc \in Handling) <=> Holding(w)
                         /\ (worker[w].pc = "sweep") <=> sweep[w].open

\* A run is funded exactly when a receipt is stored for it and its
\* orchestration is enqueued, and the receipt is the transfer the merchant
\* reported for its own order, read from the chain and verified.
FundingIsBacked ==
    \A r \in Run :
        /\ (run[r].status \in FundedOrLater) <=> (receipt[r] # NoTx)
        /\ (r \in orchestratorJob) <=> (receipt[r] # NoTx)
        /\ receipt[r] # NoTx => receipt[r] \in Genuine \cap indexed /\ receipt[r] = merchant[r]

\* One transfer never funds two runs, even when both orders report it and
\* their workers commit at the same time.
OneTransferOneRun ==
    \A r, s \in Run : receipt[r] # NoTx /\ receipt[r] = receipt[s] => r = s

\* A run that awaits payment has an order, and its reconciliation job is in
\* the queue or is a dead letter (which payment-tx re-arms and the sweep
\* outlives): no worker completes the job of a run it did not settle.
OpenRunIsWatched ==
    \A r \in Run : run[r].status = "PAYMENT_REQUIRED" =>
        r \in order /\ job[r].status \notin {"ABSENT", "COMPLETED"}

\* However API, workers, sweeps and orchestrator interleave, runs change only
\* along the transition table, one revision at a time.
ImplementsLifecycle == Lifecycle!Spec

\* The workers use the queue as the queue expects: in particular no handler
\* asks for a retry once the last attempt is spent.
ImplementsQueue == QueueSpec

\* A run that was quoted, or awaits payment, is eventually funded or expired:
\* abandoned runs do not accumulate.
EveryRunSettles == \A r \in Run : run[r].status \in Unsettled ~> run[r].status \notin Unsettled

\* The job of a settled run leaves the queue.
SettledRunsLeaveQueue ==
    \A r \in Run : run[r].status \in {"EXPIRED", "FUNDED", "ANALYZING"}
                   ~> job[r].status \in {"ABSENT", "COMPLETED", "DEAD_LETTER"}

-----------------------------------------------------------------------------
(* What comments promise and the code does not keep. *)

Expires(r) == run[r].status \in Unsettled /\ run'[r].status = "EXPIRED"

\* commitExpiredRun: "a payment that landed between the expiry decision and this
\* write wins, and the update simply affects no rows"; sweepExpiredRuns: "a run
\* funded since the query is skipped"; expireRun: "safe to call on a run that has
\* since been funded".  The conflict is thrown: it ends a worker's process, or
\* the sweep with the candidates it had left.
LostExpiryIsANoOp ==
    [][/\ \A w \in Worker : worker[w].pc = "expire" => worker'[w].pc # "down"
       /\ \A p \in Sweeper : sweep[p].open /\ ~sweep'[p].open =>
              \A c \in sweep[p].todo : ~CanExpire(c.run, c.revision)]_vars

=============================================================================
