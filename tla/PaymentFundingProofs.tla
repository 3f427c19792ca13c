------------------------ MODULE PaymentFundingProofs ------------------------
(***************************************************************************)
(* The safety of payment reconciliation for any number of runs, workers,   *)
(* requests, scripts and transfers.  The argument: revisions tell a quoted *)
(* run from one that moved on, so a request that was interrupted cannot    *)
(* touch it; a worker about to settle carries the merchant's own transfer; *)
(* a worker about to complete a job has seen its run leave PAYMENT_REQUIRED*)
(* and no run comes back to it.                                            *)
(***************************************************************************)
EXTENDS PaymentFunding, LeaseQueueProofs

\* The first two revisions belong to the first two statuses.
RevisionsTellQuoted ==
    \A r \in Run : /\ (run[r].revision = 0) <=> (run[r].status = "DRAFT")
                   /\ (run[r].revision = 1) <=> (run[r].status = "QUOTED")

\* A challenge request decided upon a quoted run, and saves an order it has.
RequestsSawQuotedRuns ==
    \A g \in Request : request[g] # NoRequest =>
        /\ request[g].revision = 1
        /\ request[g].pc = "save" => request[g].run \in order

\* A run has no job before it awaits payment, and a held job is in the table.
JobsFollowRuns ==
    /\ \A r \in Run : run[r].status \in {"DRAFT", "QUOTED"} => job[r].status = "ABSENT"
    /\ \A w \in Worker : Holding(w) => job[held[w].job].status # "ABSENT"

\* What a worker remembers is still true of its job's run.
VerdictsAreSound ==
    \A w \in Worker :
        /\ worker[w].pc = "settle" => worker[w].tx \in Tx /\ worker[w].tx = merchant[held[w].job]
        /\ worker[w].pc = "finish" /\ worker[w].verdict \in {"ACK", "RESOLVED"}
               => run[held[w].job].status \notin Unfunded
        /\ worker[w].pc = "finish" /\ worker[w].verdict = "RETRY"
               => held[w].attempt < MaxAttempts

\* Whoever expires a run decided upon one that had been saved.
DecisionsSawSavedRuns ==
    /\ \A p \in Sweeper : \A c \in sweep[p].todo : c.revision # 0
    /\ \A w \in Worker : worker[w].pc = "expire" => worker[w].revision # 0

FundingInv ==
    /\ QueueInv
    /\ TypeOK
    /\ RevisionsTellQuoted
    /\ RequestsSawQuotedRuns
    /\ DecisionsSawSavedRuns
    /\ JobsFollowRuns
    /\ VerdictsAreSound
    /\ FundingIsBacked
    /\ OneTransferOneRun
    /\ OpenRunIsWatched

-----------------------------------------------------------------------------
(* The queue is used as specified.                                         *)

LEMMA RunOfRequest ==
    ASSUME TypeOK, NEW g \in Request, request[g].pc \in {"create", "save"}
    PROVE  request[g].run \in Run /\ request[g] # NoRequest
BY DEF TypeOK, RequestState, NoRequest

LEMMA RunOfCandidate ==
    ASSUME TypeOK, NEW p \in Sweeper, NEW c \in sweep[p].todo
    PROVE  /\ c.run \in Run /\ c.revision \in Nat
           /\ sweep[p] \in [open : {TRUE}, todo : SUBSET [run : Run, revision : Nat]]
           /\ sweep[p].open = TRUE
<1>1. sweep[p] \in SweepState
  BY DEF TypeOK
<1>2. sweep[p] # NoSweep
  BY DEF NoSweep
<1>3. sweep[p] \in [open : {TRUE}, todo : SUBSET [run : Run, revision : Nat]]
  BY <1>1, <1>2 DEF SweepState
<1> QED
  BY <1>3

LEMMA RunOfHandler ==
    ASSUME TypeOK, NEW w \in Worker, worker[w].pc \in Handling
    PROVE  Holding(w) /\ held[w].job \in Run /\ held[w].attempt \in 1..MaxAttempts
<1>1. Holding(w) /\ QueueTypeOK
  BY DEF TypeOK
<1> QED
  BY <1>1, HolderHasClaim, ClaimFields DEF Run

LEMMA ApiUsesQueue ==
    ASSUME TypeOK, ApiStep PROVE [QueueNext]_queueVars
<1>1. ASSUME NEW r \in Run, PaymentTransaction(r) PROVE QueueNext
  BY <1>1 DEF PaymentTransaction, QueueNext, Run
<1>2. ASSUME NEW g \in Request, SavePaymentRequired(g) PROVE [QueueNext]_queueVars
  BY <1>2, RunOfRequest DEF SavePaymentRequired, QueueNext, Run
<1>3. ASSUME NEW r \in Run, CreateRun(r) PROVE UNCHANGED queueVars
  BY <1>3 DEF CreateRun
<1>4. ASSUME NEW g \in Request, NEW r \in Run, ChallengeBegin(g, r) PROVE UNCHANGED queueVars
  BY <1>4 DEF ChallengeBegin
<1>5. ASSUME NEW g \in Request, CreateOrder(g) \/ RequestFails(g) PROVE UNCHANGED queueVars
  BY <1>5 DEF CreateOrder, RequestFails
<1> QED
  BY <1>1, <1>2, <1>3, <1>4, <1>5 DEF ApiStep

LEMMA EnvironmentUsesQueue ==
    ASSUME EnvironmentStep PROVE [QueueNext]_queueVars
<1>1. ASSUME NEW r \in Run, LeaseTimeout(r) PROVE QueueNext
  BY <1>1 DEF LeaseTimeout, QueueNext, Run
<1>2. ASSUME NEW r \in Run, QuoteDeadline(r) \/ OrderDeadline(r) \/ OrchestratorStarts(r)
      PROVE  UNCHANGED queueVars
  BY <1>2 DEF QuoteDeadline, OrderDeadline, OrchestratorStarts
<1>3. ASSUME NEW r \in Run, NEW t \in Tx, MerchantConfirms(r, t) PROVE UNCHANGED queueVars
  BY <1>3 DEF MerchantConfirms
<1>4. ASSUME NEW t \in Tx, ReceiptIndexed(t) PROVE UNCHANGED queueVars
  BY <1>4 DEF ReceiptIndexed
<1> QED
  BY <1>1, <1>2, <1>3, <1>4 DEF EnvironmentStep

\* The only outcome with a condition is RETRY, which needs attempts left.
LEMMA FinishUsesQueue ==
    ASSUME VerdictsAreSound, NEW w \in Worker, FinishJob(w) PROVE QueueNext
<1>1. Outcome(w)
  BY DEF FinishJob, Outcome, VerdictsAreSound
<1> QED
  BY <1>1 DEF QueueNext

LEMMA WorkerUsesQueue ==
    ASSUME TypeOK, VerdictsAreSound, NEW w \in Worker, WorkerStep(w) \/ Crash(w)
    PROVE  [QueueNext]_queueVars
<1>1. ASSUME PollStale(w) PROVE QueueNext
  BY <1>1 DEF PollStale, QueueNext
<1>2. ASSUME NEW r \in Run, PollClaim(w, r) PROVE QueueNext
  BY <1>2 DEF PollClaim, QueueNext, Run
<1>3. ASSUME FinishJob(w) PROVE QueueNext
  BY <1>3, FinishUsesQueue
<1>4. ASSUME ExpireConflict(w) \/ FinishConflict(w) PROVE QueueNext
  BY <1>4 DEF ExpireConflict, FinishConflict, QueueNext
<1>5. ASSUME Crash(w) PROVE [QueueNext]_queueVars
  BY <1>5 DEF Crash, QueueNext
<1>6. ASSUME PollNothing(w) \/ Rest(w) \/ Restart(w) PROVE UNCHANGED queueVars
  BY <1>6 DEF PollNothing, Rest, Restart
<1>7. ASSUME LoadRun(w) \/ QueryOrder(w) \/ SettleOrder(w) \/ ReconcileFails(w)
             \/ ExpireLoad(w) \/ ExpireCommit(w)
      PROVE  UNCHANGED queueVars
  BY <1>7 DEF LoadRun, QueryOrder, SettleOrder, ReconcileFails, ExpireLoad, ExpireCommit
<1> QED
  BY <1>1, <1>2, <1>3, <1>4, <1>5, <1>6, <1>7 DEF WorkerStep, HandlerStep

LEMMA SweepUsesQueue ==
    ASSUME NEW p \in Sweeper, SweepBegin(p) \/ SweepStep(p) PROVE UNCHANGED queueVars
BY DEF SweepBegin, SweepStep, SweepEnd, SweepExpire, SweepConflict

LEMMA StepUsesQueue ==
    ASSUME TypeOK, VerdictsAreSound, [Next]_vars PROVE [QueueNext]_queueVars
<1>1. CASE UNCHANGED vars
  BY <1>1 DEF vars
<1>2. CASE Next
  BY <1>2, ApiUsesQueue, EnvironmentUsesQueue, WorkerUsesQueue, SweepUsesQueue DEF Next
<1> QED
  BY <1>1, <1>2

-----------------------------------------------------------------------------
(* Types.                                                                  *)

\* A worker's new state, whichever field a step changes.
LEMMA BecomesState ==
    ASSUME TypeOK, NEW w \in Worker, NEW pc \in WorkerPC, NEW revision \in Nat,
           NEW tx \in Tx \cup {NoTx}, NEW verdict \in Verdict \cup {"NONE"},
           Becomes(w, pc, revision, tx, verdict)
    PROVE  /\ worker' \in [Worker -> WorkerState]
           /\ worker'[w].pc = pc /\ worker'[w].revision = revision
           /\ worker'[w].tx = tx /\ worker'[w].verdict = verdict
           /\ \A v \in Worker \ {w} : worker'[v] = worker[v]
BY DEF TypeOK, Becomes, WorkerState

LEMMA MovedState ==
    ASSUME TypeOK, NEW r \in Run, NEW to \in Unfunded \cup FundedOrLater \cup {"EXPIRED"},
           run' = Moved(r, to)
    PROVE  /\ run' \in [Run -> RunState]
           /\ run'[r].status = to /\ run'[r].revision = run[r].revision + 1
           /\ \A s \in Run \ {r} : run'[s] = run[s]
BY DEF TypeOK, Moved, Lifecycle!Moved, RunState

\* The part of TypeOK the queue does not cover, in pieces that change separately.
RunsTypeOK ==
    /\ run \in [Run -> RunState]
    /\ order \subseteq Run /\ orderPast \subseteq order
    /\ receipt \in [Run -> Tx \cup {NoTx}]
    /\ orchestratorJob \subseteq Run

WorldTypeOK ==
    /\ quotePast \subseteq Run
    /\ merchant \in [Run -> Tx \cup {NoTx}]
    /\ indexed \subseteq Tx

ProcessesTypeOK ==
    /\ worker \in [Worker -> WorkerState]
    /\ sweep \in [Sweeper -> SweepState]
    /\ request \in [Request -> RequestState]
    /\ crashes \in 0..MaxCrashes
    /\ \A w \in Worker : /\ (worker[w].pc \in Handling) <=> Holding(w)
                         /\ (worker[w].pc = "sweep") <=> sweep[w].open

LEMMA TypeParts == TypeOK <=> QueueTypeOK /\ RunsTypeOK /\ WorldTypeOK /\ ProcessesTypeOK
BY DEF TypeOK, RunsTypeOK, WorldTypeOK, ProcessesTypeOK

\* Handling a job changes worker w only, and keeps its claim.
LEMMA HandlingType ==
    ASSUME TypeOK, NEW w \in Worker, worker[w].pc \in Handling,
           NEW pc \in Handling, NEW revision \in Nat, NEW tx \in Tx \cup {NoTx},
           NEW verdict \in Verdict \cup {"NONE"}, Becomes(w, pc, revision, tx, verdict),
           UNCHANGED <<held, sweep, request, crashes>>
    PROVE  ProcessesTypeOK'
<1>1. pc \in WorkerPC /\ pc # "sweep"
  BY DEF Handling, WorkerPC
<1>2. /\ worker' \in [Worker -> WorkerState] /\ worker'[w].pc = pc
      /\ \A v \in Worker \ {w} : worker'[v] = worker[v]
  BY <1>1, BecomesState
<1>3. worker[w].pc # "sweep"
  BY DEF Handling
<1> QED
  BY <1>1, <1>2, <1>3 DEF TypeOK, ProcessesTypeOK, Holding

\* Coming to, or leaving, a place where no job is handled and no sweep is open.
LEMMA IdlingType ==
    ASSUME TypeOK, NEW w \in Worker, NEW pc \in WorkerPC \ (Handling \cup {"sweep"}),
           Goto(w, pc), ~Holding(w)', ~sweep'[w].open,
           \A v \in Worker \ {w} : held'[v] = held[v] /\ sweep'[v] = sweep[v],
           sweep' \in [Sweeper -> SweepState], request' = request, crashes' \in 0..MaxCrashes
    PROVE  ProcessesTypeOK'
<1>1. /\ worker' \in [Worker -> WorkerState] /\ worker'[w].pc = pc
      /\ \A v \in Worker \ {w} : worker'[v] = worker[v]
  BY BecomesState DEF Goto
<1> QED
  BY <1>1 DEF TypeOK, ProcessesTypeOK, Holding

LEMMA VerdictType ==
    ASSUME NEW w \in Worker PROVE RetryOrGiveUp(w) \in Verdict
BY DEF RetryOrGiveUp, Verdict

LEMMA RunsType ==
    ASSUME TypeOK, [Next]_vars PROVE RunsTypeOK'
<1> USE DEF Unfunded, FundedOrLater
<1>1. ASSUME UNCHANGED <<runVars, orderPast>> PROVE RunsTypeOK'
  BY <1>1 DEF TypeOK, RunsTypeOK, runVars
<1>2. ASSUME NEW r \in Run, CreateRun(r) PROVE RunsTypeOK'
  BY <1>2, MovedState DEF CreateRun, worldVars, TypeOK, RunsTypeOK
<1>3. ASSUME NEW g \in Request, CreateOrder(g) PROVE RunsTypeOK'
  BY <1>3, RunOfRequest DEF CreateOrder, worldVars, TypeOK, RunsTypeOK
<1>4. ASSUME NEW g \in Request, SavePaymentRequired(g) PROVE RunsTypeOK'
  <2>1. request[g].run \in Run
    BY <1>4, RunOfRequest DEF SavePaymentRequired
  <2>2. run' \in [Run -> RunState]
    BY <1>4, <2>1, MovedState DEF SavePaymentRequired, TypeOK
  <2> QED
    BY <1>4, <2>2 DEF SavePaymentRequired, worldVars, TypeOK, RunsTypeOK
<1>5. ASSUME NEW r \in Run, OrderDeadline(r) PROVE RunsTypeOK'
  BY <1>5 DEF OrderDeadline, runVars, TypeOK, RunsTypeOK
<1>6. ASSUME NEW r \in Run, OrchestratorStarts(r) PROVE RunsTypeOK'
  BY <1>6, MovedState DEF OrchestratorStarts, worldVars, TypeOK, RunsTypeOK
<1>7. ASSUME NEW w \in Worker, SettleOrder(w) PROVE RunsTypeOK'
  <2> DEFINE r == held[w].job
             t == worker[w].tx
  <2>1. r \in Run /\ t \in Tx \cup {NoTx}
    BY <1>7, RunOfHandler DEF SettleOrder, Handling, TypeOK, WorkerState
  <2>2. CASE UNCHANGED runVars
    BY <1>1, <1>7, <2>2 DEF SettleOrder, worldVars
  <2>3. CASE CommitFunded(r, t)
    <3>1. run' \in [Run -> RunState]
      BY <2>1, <2>3, MovedState DEF CommitFunded
    <3> QED
      BY <1>7, <2>1, <2>3, <3>1 DEF SettleOrder, CommitFunded, worldVars, TypeOK, RunsTypeOK
  <2> QED
    BY <1>7, <2>2, <2>3 DEF SettleOrder
<1>8. ASSUME NEW w \in Worker, ExpireCommit(w) PROVE RunsTypeOK'
  <2>1. held[w].job \in Run
    BY <1>8, RunOfHandler DEF ExpireCommit, Handling
  <2> QED
    BY <1>8, <2>1, MovedState DEF ExpireCommit, worldVars, TypeOK, RunsTypeOK
<1>9. ASSUME NEW p \in Sweeper, NEW c \in sweep[p].todo, SweepExpire(p, c) PROVE RunsTypeOK'
  <2>1. c.run \in Run
    BY RunOfCandidate
  <2> QED
    BY <1>9, <2>1, MovedState DEF SweepExpire, worldVars, TypeOK, RunsTypeOK
<1>10. CASE UNCHANGED vars
  BY <1>1, <1>10 DEF vars, worldVars
<1>11. CASE ApiStep
  <2>1. ASSUME NEW r \in Run, PaymentTransaction(r) PROVE RunsTypeOK'
    BY <1>1, <2>1 DEF PaymentTransaction, worldVars
  <2>2. ASSUME NEW g \in Request, NEW r \in Run, ChallengeBegin(g, r) PROVE RunsTypeOK'
    BY <1>1, <2>2 DEF ChallengeBegin, worldVars
  <2>3. ASSUME NEW g \in Request, RequestFails(g) PROVE RunsTypeOK'
    BY <1>1, <2>3 DEF RequestFails, worldVars
  <2> QED
    BY <1>2, <1>3, <1>4, <1>11, <2>1, <2>2, <2>3 DEF ApiStep
<1>12. CASE EnvironmentStep
  <2>1. ASSUME NEW r \in Run, QuoteDeadline(r) \/ LeaseTimeout(r) PROVE RunsTypeOK'
    BY <1>1, <2>1 DEF QuoteDeadline, LeaseTimeout, worldVars
  <2>2. ASSUME NEW r \in Run, NEW t \in Tx, MerchantConfirms(r, t) PROVE RunsTypeOK'
    BY <1>1, <2>2 DEF MerchantConfirms
  <2>3. ASSUME NEW t \in Tx, ReceiptIndexed(t) PROVE RunsTypeOK'
    BY <1>1, <2>3 DEF ReceiptIndexed
  <2> QED
    BY <1>5, <1>6, <1>12, <2>1, <2>2, <2>3 DEF EnvironmentStep
<1>13. ASSUME NEW w \in Worker, WorkerStep(w) \/ Crash(w) PROVE RunsTypeOK'
  <2>1. ASSUME \/ PollStale(w) \/ PollNothing(w) \/ Rest(w) \/ Restart(w) \/ Crash(w)
               \/ \E r \in Run : PollClaim(w, r)
        PROVE  RunsTypeOK'
    BY <1>1, <2>1 DEF PollStale, PollNothing, Rest, Restart, Crash, PollClaim, worldVars
  <2>2. ASSUME \/ LoadRun(w) \/ QueryOrder(w) \/ ReconcileFails(w) \/ ExpireLoad(w)
               \/ ExpireConflict(w) \/ FinishJob(w) \/ FinishConflict(w)
        PROVE  RunsTypeOK'
    BY <1>1, <2>2 DEF LoadRun, QueryOrder, ReconcileFails, ExpireLoad, ExpireConflict,
                      FinishJob, FinishConflict, worldVars
  <2> QED
    BY <1>7, <1>8, <1>13, <2>1, <2>2 DEF WorkerStep, HandlerStep
<1>14. ASSUME NEW p \in Sweeper, SweepBegin(p) \/ SweepStep(p) PROVE RunsTypeOK'
  <2>1. ASSUME \/ SweepBegin(p) \/ SweepEnd(p)
               \/ \E c \in sweep[p].todo : SweepConflict(p, c)
        PROVE  RunsTypeOK'
    BY <1>1, <2>1 DEF SweepBegin, SweepEnd, SweepConflict, worldVars
  <2> QED
    BY <1>9, <1>14, <2>1 DEF SweepStep
<1> QED
  BY <1>10, <1>11, <1>12, <1>13, <1>14 DEF Next

LEMMA WorldType ==
    ASSUME TypeOK, [Next]_vars PROVE WorldTypeOK'
<1> USE DEF TypeOK, WorldTypeOK
<1>1. CASE UNCHANGED worldVars
  BY <1>1 DEF worldVars
<1>2. ASSUME NEW r \in Run, QuoteDeadline(r) \/ OrderDeadline(r) PROVE WorldTypeOK'
  BY <1>2 DEF QuoteDeadline, OrderDeadline
<1>3. ASSUME NEW r \in Run, NEW t \in Tx, MerchantConfirms(r, t) PROVE WorldTypeOK'
  BY <1>3 DEF MerchantConfirms
<1>4. ASSUME NEW t \in Tx, ReceiptIndexed(t) PROVE WorldTypeOK'
  BY <1>4 DEF ReceiptIndexed
<1>5. ASSUME NEW r \in Run, OrchestratorStarts(r) \/ LeaseTimeout(r) PROVE UNCHANGED worldVars
  BY <1>5 DEF OrchestratorStarts, LeaseTimeout
<1>6. ASSUME ApiStep PROVE UNCHANGED worldVars
  BY <1>6 DEF ApiStep, CreateRun, PaymentTransaction, ChallengeBegin, CreateOrder,
              SavePaymentRequired, RequestFails
<1>7. ASSUME NEW w \in Worker, WorkerStep(w) \/ Crash(w) PROVE UNCHANGED worldVars
  BY <1>7 DEF WorkerStep, HandlerStep, Crash, PollStale, PollNothing, Rest, Restart, PollClaim,
              LoadRun, QueryOrder, SettleOrder, ReconcileFails, ExpireLoad, ExpireCommit,
              ExpireConflict, FinishJob, FinishConflict
<1>8. ASSUME NEW p \in Sweeper, SweepBegin(p) \/ SweepStep(p) PROVE UNCHANGED worldVars
  BY <1>8 DEF SweepBegin, SweepStep, SweepEnd, SweepExpire, SweepConflict
<1> QED
  BY <1>1, <1>2, <1>3, <1>4, <1>5, <1>6, <1>7, <1>8 DEF Next, EnvironmentStep, vars

\* Steps of the API and of the environment leave worker, sweep and claims alone.
LEMMA ApiProcessesType ==
    ASSUME TypeOK, ApiStep \/ EnvironmentStep PROVE ProcessesTypeOK'
<1> USE DEF TypeOK, ProcessesTypeOK, Holding
<1>1. ASSUME UNCHANGED <<held, worker, sweep, request, crashes>> PROVE ProcessesTypeOK'
  BY <1>1
<1>2. ASSUME NEW g \in Request, UNCHANGED <<held, worker, sweep, crashes>>,
             request' \in [Request -> RequestState]
      PROVE  ProcessesTypeOK'
  BY <1>2
<1>3. ASSUME NEW r \in Run,
             CreateRun(r) \/ PaymentTransaction(r) \/ QuoteDeadline(r) \/ OrderDeadline(r)
               \/ OrchestratorStarts(r) \/ LeaseTimeout(r)
      PROVE  ProcessesTypeOK'
  BY <1>1, <1>3 DEF CreateRun, PaymentTransaction, Rearm, QuoteDeadline, OrderDeadline,
                    OrchestratorStarts, LeaseTimeout, LeaseLapses, queueVars
<1>4. ASSUME NEW t \in Tx, ReceiptIndexed(t) \/ \E r \in Run : MerchantConfirms(r, t)
      PROVE  ProcessesTypeOK'
  BY <1>1, <1>4 DEF ReceiptIndexed, MerchantConfirms, queueVars
<1>5. ASSUME NEW g \in Request, NEW r \in Run, ChallengeBegin(g, r) PROVE ProcessesTypeOK'
  <2>1. run[r].revision \in Nat
    BY DEF RunState
  <2>2. request' \in [Request -> RequestState]
    BY <1>5, <2>1 DEF ChallengeBegin, RequestState
  <2> QED
    BY <1>2, <1>5, <2>2 DEF ChallengeBegin, queueVars
<1>6. ASSUME NEW g \in Request, CreateOrder(g) PROVE ProcessesTypeOK'
  <2>1. request[g] \in [pc : {"create", "save"}, run : Run, revision : Nat]
    BY <1>6 DEF CreateOrder, RequestState, NoRequest
  <2>2. request' \in [Request -> RequestState]
    BY <1>6, <2>1 DEF CreateOrder, RequestState
  <2> QED
    BY <1>2, <1>6, <2>2 DEF CreateOrder, queueVars
<1>7. ASSUME NEW g \in Request, SavePaymentRequired(g) \/ RequestFails(g) PROVE ProcessesTypeOK'
  <2>1. request' \in [Request -> RequestState]
    BY <1>7 DEF SavePaymentRequired, RequestFails, RequestState
  <2> QED
    BY <1>2, <1>7, <2>1 DEF SavePaymentRequired, RequestFails, Enqueue, queueVars
<1> QED
  BY <1>3, <1>4, <1>5, <1>6, <1>7 DEF ApiStep, EnvironmentStep

LEMMA WorkerProcessesType ==
    ASSUME TypeOK, QueueInv, NEW w \in Worker, WorkerStep(w) \/ Crash(w)
    PROVE  ProcessesTypeOK'
<1>1. /\ w \in Sweeper /\ RetryOrGiveUp(w) \in Verdict
      /\ QueueTypeOK /\ sweep \in [Sweeper -> SweepState] /\ crashes \in 0..MaxCrashes
      /\ worker[w] \in WorkerState
  BY VerdictType DEF Sweeper, TypeOK
<1>2. /\ worker[w].pc \notin Handling => ~Holding(w)
      /\ worker[w].pc # "sweep" => ~sweep[w].open
  BY DEF TypeOK
<1>3. ASSUME PollStale(w) \/ PollNothing(w) \/ Rest(w) \/ Restart(w) PROVE ProcessesTypeOK'
  <2>1. ~Holding(w) /\ ~sweep[w].open
    BY <1>2, <1>3 DEF PollStale, PollNothing, Rest, Restart, Handling
  <2>2. UNCHANGED <<held, sweep, request, crashes>>
    BY <1>3 DEF PollStale, DeadLetterExhausted, PollNothing, Rest, Restart, queueVars
  <2>3. \E pc \in {"idle", "polling", "idleBranch"} : Goto(w, pc)
    BY <1>3 DEF PollStale, PollNothing, Rest, Restart
  <2>4. ~Holding(w)'
    BY <2>1, <2>2 DEF Holding
  <2> QED
    BY <1>1, <2>1, <2>2, <2>3, <2>4, IdlingType DEF Handling, WorkerPC
<1>4. ASSUME NEW r \in Run, PollClaim(w, r) PROVE ProcessesTypeOK'
  <2>1. /\ worker' \in [Worker -> WorkerState] /\ worker'[w].pc = "load"
        /\ \A v \in Worker \ {w} : worker'[v] = worker[v]
    BY <1>4, BecomesState DEF PollClaim, Goto, WorkerPC
  <2>2. Holding(w)' /\ \A v \in Worker \ {w} : held'[v] = held[v]
    BY <1>4, ClaimedRow DEF PollClaim, Holding, Run
  <2>3. worker[w].pc = "polling" /\ UNCHANGED <<sweep, request, crashes>>
    BY <1>4 DEF PollClaim
  <2> QED
    BY <2>1, <2>2, <2>3 DEF TypeOK, ProcessesTypeOK, Holding, Handling
<1>5. ASSUME LoadRun(w) PROVE ProcessesTypeOK'
  <2>1. worker[w].pc \in Handling /\ UNCHANGED <<held, sweep, request, crashes>>
    BY <1>5 DEF LoadRun, Handling, queueVars
  <2>2. run[held[w].job].revision \in Nat
    BY <2>1, RunOfHandler DEF TypeOK, RunState
  <2> QED
    BY <1>1, <1>5, <2>1, <2>2, HandlingType DEF LoadRun, Decide, Keep, Handling, Verdict
<1>6. ASSUME QueryOrder(w) PROVE ProcessesTypeOK'
  <2>1. worker[w].pc \in Handling /\ UNCHANGED <<held, sweep, request, crashes>>
    BY <1>6 DEF QueryOrder, Handling, queueVars
  <2>2. worker[w].revision \in Nat /\ merchant[held[w].job] \in Tx \cup {NoTx}
    BY <1>1, <2>1, RunOfHandler DEF TypeOK, WorkerState
  <2> QED
    BY <1>6, <2>1, <2>2, HandlingType DEF QueryOrder, Decide, Keep, Goto, Handling, Verdict
<1>7. ASSUME SettleOrder(w) \/ ReconcileFails(w) \/ ExpireCommit(w) PROVE ProcessesTypeOK'
  <2>1. worker[w].pc \in Handling /\ UNCHANGED <<held, sweep, request, crashes>>
    BY <1>7 DEF SettleOrder, ReconcileFails, ExpireCommit, Handling, queueVars
  <2>2. \E verdict \in Verdict : Decide(w, verdict)
    BY <1>1, <1>7 DEF SettleOrder, ReconcileFails, ExpireCommit, Verdict
  <2> QED
    BY <2>1, <2>2, HandlingType DEF Decide, Handling
<1>8. ASSUME ExpireLoad(w) PROVE ProcessesTypeOK'
  <2>1. worker[w].pc \in Handling /\ UNCHANGED <<held, sweep, request, crashes>>
    BY <1>8 DEF ExpireLoad, Handling, queueVars
  <2>2. run[held[w].job].revision \in Nat
    BY <2>1, RunOfHandler DEF TypeOK, RunState
  <2> QED
    BY <1>8, <2>1, <2>2, HandlingType DEF ExpireLoad, Decide, Keep, Handling, Verdict
<1>9. ASSUME ExpireConflict(w) \/ FinishJob(w) \/ FinishConflict(w) PROVE ProcessesTypeOK'
  <2>1. LetGo(w) /\ UNCHANGED <<sweep, request, crashes>>
    BY <1>9 DEF ExpireConflict, FinishJob, FinishConflict, Abandon, FinishRejected,
                MarkCompleted, MarkRetry, MarkWaiting, MarkDeadLetter, Finish
  <2>2. ~Holding(w)' /\ \A v \in Worker \ {w} : held'[v] = held[v]
    BY <1>1, <2>1, LetGoClears DEF Holding
  <2>3. ~sweep[w].open
    BY <1>2, <1>9 DEF ExpireConflict, FinishJob, FinishConflict
  <2>4. \E pc \in {"idle", "down"} : Goto(w, pc)
    BY <1>9 DEF ExpireConflict, FinishJob, FinishConflict
  <2> QED
    BY <1>1, <2>1, <2>2, <2>3, <2>4, IdlingType DEF Handling, WorkerPC
<1>10. ASSUME Crash(w) PROVE ProcessesTypeOK'
  <2>1. ~Holding(w)' /\ \A v \in Worker \ {w} : held'[v] = held[v]
    BY <1>1, <1>10, LetGoClears DEF Crash, Abandon, Holding, queueVars
  <2>2. /\ sweep' \in [Sweeper -> SweepState] /\ ~sweep'[w].open
        /\ \A v \in Worker \ {w} : sweep'[v] = sweep[v]
    BY <1>1, <1>10 DEF Crash, NoSweep, SweepState, Sweeper
  <2>3. crashes' \in 0..MaxCrashes /\ request' = request /\ Goto(w, "down")
    BY <1>1, <1>10, MaxCrashesAssumption DEF Crash
  <2> QED
    BY <2>1, <2>2, <2>3, IdlingType DEF Handling, WorkerPC
<1> QED
  BY <1>3, <1>4, <1>5, <1>6, <1>7, <1>8, <1>9, <1>10 DEF WorkerStep, HandlerStep

LEMMA SweepProcessesType ==
    ASSUME TypeOK, NEW p \in Sweeper, SweepBegin(p) \/ SweepStep(p)
    PROVE  ProcessesTypeOK'
<1>1. /\ sweep \in [Sweeper -> SweepState] /\ sweep[p] \in SweepState
      /\ UNCHANGED <<held, request, crashes>>
  BY DEF TypeOK, SweepBegin, SweepStep, SweepEnd, SweepExpire, SweepConflict, queueVars
<1>2. ASSUME SweepBegin(p) PROVE ProcessesTypeOK'
  <2>1. Candidates \in SUBSET [run : Run, revision : Nat]
    BY DEF Candidates, TypeOK, RunState
  <2>2. /\ sweep' \in [Sweeper -> SweepState] /\ sweep'[p].open
        /\ \A q \in Sweeper \ {p} : sweep'[q] = sweep[q]
    BY <1>1, <1>2, <2>1 DEF SweepBegin, SweepState
  <2>3. CASE p \in Worker
    <3>1. /\ worker' \in [Worker -> WorkerState] /\ worker'[p].pc = "sweep"
          /\ \A v \in Worker \ {p} : worker'[v] = worker[v]
      BY <1>2, <2>3, BecomesState DEF SweepBegin, Goto, WorkerPC
    <3>2. worker[p].pc = "idleBranch"
      BY <1>2, <2>3 DEF SweepBegin
    <3> QED
      BY <1>1, <2>2, <2>3, <3>1, <3>2 DEF TypeOK, ProcessesTypeOK, Holding, Handling, Sweeper
  <2>4. CASE p \notin Worker
    BY <1>1, <1>2, <2>2, <2>4 DEF SweepBegin, TypeOK, ProcessesTypeOK, Holding, Sweeper
  <2> QED
    BY <2>3, <2>4
<1>3. ASSUME sweep[p].open, SweepLeave(p) PROVE ProcessesTypeOK'
  <2>1. /\ sweep' \in [Sweeper -> SweepState] /\ ~sweep'[p].open
        /\ \A q \in Sweeper \ {p} : sweep'[q] = sweep[q]
    BY <1>1, <1>3 DEF SweepLeave, SweepState, NoSweep
  <2>2. CASE p \in Worker
    <3>1. worker[p].pc = "sweep" /\ ~Holding(p)
      BY <1>3, <2>2 DEF TypeOK, Handling
    <3>2. ~Holding(p)'
      BY <1>1, <3>1 DEF Holding
    <3>3. Goto(p, "idle")
      BY <1>3, <2>2 DEF SweepLeave
    <3>4. \A v \in Worker \ {p} : held'[v] = held[v] /\ sweep'[v] = sweep[v]
      BY <1>1, <2>1 DEF Sweeper
    <3>5. crashes' \in 0..MaxCrashes
      BY <1>1 DEF TypeOK
    <3> QED
      BY <1>1, <2>1, <2>2, <3>2, <3>3, <3>4, <3>5, IdlingType DEF Handling, WorkerPC
  <2>3. CASE p \notin Worker
    BY <1>1, <1>3, <2>1, <2>3 DEF SweepLeave, TypeOK, ProcessesTypeOK, Holding, Sweeper
  <2> QED
    BY <2>2, <2>3
<1>4. ASSUME SweepEnd(p) PROVE ProcessesTypeOK'
  BY <1>3, <1>4 DEF SweepEnd
<1>5. ASSUME NEW c \in sweep[p].todo, SweepConflict(p, c) PROVE ProcessesTypeOK'
  <2>1. sweep[p].open
    BY RunOfCandidate
  <2> QED
    BY <1>3, <1>5, <2>1 DEF SweepConflict
<1>6. ASSUME NEW c \in sweep[p].todo, SweepExpire(p, c) PROVE ProcessesTypeOK'
  <2>1. sweep[p] \in [open : {TRUE}, todo : SUBSET [run : Run, revision : Nat]]
    BY RunOfCandidate
  <2>2. /\ sweep' \in [Sweeper -> SweepState]
        /\ \A q \in Sweeper : sweep'[q].open = sweep[q].open
    BY <1>1, <1>6, <2>1 DEF SweepExpire, SweepState
  <2> QED
    BY <1>1, <1>6, <2>2 DEF SweepExpire, TypeOK, ProcessesTypeOK, Holding, Sweeper
<1> QED
  BY <1>2, <1>4, <1>5, <1>6 DEF SweepStep

LEMMA TypeStep ==
    ASSUME TypeOK, QueueInv, QueueInv', [Next]_vars PROVE TypeOK'
<1>1. QueueTypeOK' /\ RunsTypeOK' /\ WorldTypeOK'
  BY RunsType, WorldType DEF QueueInv
<1>2. ProcessesTypeOK'
  <2>1. CASE UNCHANGED vars
    BY <2>1 DEF vars, queueVars, TypeOK, ProcessesTypeOK, Holding
  <2>2. CASE Next
    BY <2>2, ApiProcessesType, WorkerProcessesType, SweepProcessesType DEF Next
  <2> QED
    BY <2>1, <2>2
<1> QED
  BY <1>1, <1>2 DEF TypeOK, RunsTypeOK, WorldTypeOK, ProcessesTypeOK

-----------------------------------------------------------------------------
(* What a step may do to runs, receipts, jobs and the world.               *)

Advance(r, from, to) ==
    /\ run[r].status \in from
    /\ run' = Moved(r, to)
    /\ UNCHANGED <<receipt, orchestratorJob>>

Fund(r, t) ==
    /\ t \in Genuine \cap indexed /\ t = merchant[r]
    /\ \A other \in Run : receipt[other] # t
    /\ run[r].status = "PAYMENT_REQUIRED"
    /\ CommitFunded(r, t)

RunChange ==
    \/ UNCHANGED <<run, receipt, orchestratorJob>>
    \/ \E r \in Run : \/ Advance(r, {"DRAFT"}, "QUOTED")
                      \/ Advance(r, {"QUOTED"}, "PAYMENT_REQUIRED") /\ r \in order /\ Enqueue(r)
                      \/ Advance(r, Unsettled, "EXPIRED")
                      \/ Advance(r, {"FUNDED"}, "ANALYZING")
                      \/ \E t \in Tx : Fund(r, t)

LEMMA ExpiryOfSaved ==
    ASSUME RevisionsTellQuoted, NEW r \in Run, NEW revision \in Nat, revision # 0,
           CanExpire(r, revision)
    PROVE  run[r].status \in Unsettled
BY DEF RevisionsTellQuoted, CanExpire, AtRevision, Unfunded, Unsettled

LEMMA StepChangesRuns ==
    ASSUME FundingInv, [Next]_vars PROVE RunChange
<1> USE DEF FundingInv
<1> DEFINE Same == UNCHANGED <<run, receipt, orchestratorJob>>
<1>1. ASSUME NEW r \in Run, CreateRun(r) PROVE RunChange
  BY <1>1 DEF CreateRun, RunChange, Advance
<1>2. ASSUME NEW g \in Request, SavePaymentRequired(g) PROVE RunChange
  <2> DEFINE r == request[g].run
  <2>1. r \in Run /\ request[g].revision = 1 /\ r \in order
    BY <1>2, RunOfRequest DEF SavePaymentRequired, RequestsSawQuotedRuns
  <2>2. CASE run[r].revision = request[g].revision
    <3>1. run[r].status = "QUOTED"
      BY <2>1, <2>2 DEF RevisionsTellQuoted
    <3> QED
      BY <1>2, <2>1, <2>2, <3>1 DEF SavePaymentRequired, RunChange, Advance
  <2>3. CASE run[r].revision # request[g].revision
    BY <1>2, <2>3 DEF SavePaymentRequired, RunChange
  <2> QED
    BY <2>2, <2>3
<1>3. ASSUME NEW r \in Run, OrchestratorStarts(r) PROVE RunChange
  BY <1>3 DEF OrchestratorStarts, RunChange, Advance
<1>4. ASSUME NEW w \in Worker, SettleOrder(w) PROVE RunChange
  <2> DEFINE r == held[w].job
             t == worker[w].tx
  <2>1. r \in Run /\ t \in Tx /\ t = merchant[r]
    BY <1>4, RunOfHandler DEF SettleOrder, Handling, VerdictsAreSound
  <2>2. CASE UNCHANGED runVars
    BY <2>2 DEF runVars, RunChange
  <2>3. CASE t \in indexed \cap Genuine /\ CanFund(r, t, worker[w].revision) /\ CommitFunded(r, t)
    <3>1. Fund(r, t)
      BY <2>1, <2>3 DEF Fund, CanFund, AtRevision
    <3> QED
      BY <2>1, <3>1 DEF RunChange
  <2> QED
    BY <1>4, <2>2, <2>3 DEF SettleOrder
<1>5. ASSUME NEW w \in Worker, ExpireCommit(w) PROVE RunChange
  <2> DEFINE r == held[w].job
  <2>1. r \in Run /\ worker[w].revision \in Nat /\ worker[w].revision # 0
    BY <1>5, RunOfHandler DEF ExpireCommit, Handling, DecisionsSawSavedRuns, TypeOK, WorkerState
  <2>2. run[r].status \in Unsettled
    BY <1>5, <2>1, ExpiryOfSaved DEF ExpireCommit
  <2> QED
    BY <1>5, <2>1, <2>2 DEF ExpireCommit, RunChange, Advance
<1>6. ASSUME NEW p \in Sweeper, NEW c \in sweep[p].todo, SweepExpire(p, c) PROVE RunChange
  <2>1. c.run \in Run /\ c.revision \in Nat /\ c.revision # 0
    BY RunOfCandidate DEF DecisionsSawSavedRuns
  <2>2. run[c.run].status \in Unsettled
    BY <1>6, <2>1, ExpiryOfSaved DEF SweepExpire
  <2> QED
    BY <1>6, <2>1, <2>2 DEF SweepExpire, RunChange, Advance
<1>7. CASE UNCHANGED vars
  BY <1>7 DEF vars, runVars, RunChange
<1>8. CASE ApiStep
  <2>1. ASSUME NEW r \in Run, PaymentTransaction(r) PROVE Same
    BY <2>1 DEF PaymentTransaction, runVars
  <2>2. ASSUME NEW g \in Request,
               CreateOrder(g) \/ RequestFails(g) \/ \E r \in Run : ChallengeBegin(g, r)
        PROVE  Same
    BY <2>2 DEF CreateOrder, ChallengeBegin, RequestFails, runVars
  <2> QED
    BY <1>1, <1>2, <1>8, <2>1, <2>2 DEF ApiStep, RunChange
<1>9. CASE EnvironmentStep
  <2>1. ASSUME NEW r \in Run, QuoteDeadline(r) \/ OrderDeadline(r) \/ LeaseTimeout(r) PROVE Same
    BY <2>1 DEF QuoteDeadline, OrderDeadline, LeaseTimeout, runVars
  <2>2. ASSUME NEW t \in Tx, ReceiptIndexed(t) \/ \E r \in Run : MerchantConfirms(r, t) PROVE Same
    BY <2>2 DEF ReceiptIndexed, MerchantConfirms, runVars
  <2> QED
    BY <1>3, <1>9, <2>1, <2>2 DEF EnvironmentStep, RunChange
<1>10. ASSUME NEW w \in Worker, WorkerStep(w) \/ Crash(w) PROVE RunChange
  <2>1. ASSUME \/ PollStale(w) \/ PollNothing(w) \/ Rest(w) \/ Restart(w) \/ Crash(w)
               \/ \E r \in Run : PollClaim(w, r)
        PROVE  Same
    BY <2>1 DEF PollStale, PollNothing, Rest, Restart, Crash, PollClaim, runVars
  <2>2. ASSUME \/ LoadRun(w) \/ QueryOrder(w) \/ ReconcileFails(w) \/ ExpireLoad(w)
               \/ ExpireConflict(w) \/ FinishJob(w) \/ FinishConflict(w)
        PROVE  Same
    BY <2>2 DEF LoadRun, QueryOrder, ReconcileFails, ExpireLoad, ExpireConflict,
                FinishJob, FinishConflict, runVars
  <2> QED
    BY <1>4, <1>5, <1>10, <2>1, <2>2 DEF WorkerStep, HandlerStep, RunChange
<1>11. ASSUME NEW p \in Sweeper, SweepBegin(p) \/ SweepStep(p) PROVE RunChange
  <2>1. ASSUME \/ SweepBegin(p) \/ SweepEnd(p)
               \/ \E c \in sweep[p].todo : SweepConflict(p, c)
        PROVE  Same
    BY <2>1 DEF SweepBegin, SweepEnd, SweepConflict, runVars
  <2> QED
    BY <1>6, <1>11, <2>1 DEF SweepStep, RunChange
<1> QED
  BY <1>7, <1>8, <1>9, <1>10, <1>11 DEF Next

\* Orders, confirmations and receipts on the chain stay.
WorldGrows ==
    /\ order \subseteq order'
    /\ indexed \subseteq indexed'
    /\ \A r \in Run : merchant[r] # NoTx => merchant'[r] = merchant[r]

LEMMA StepGrowsWorld ==
    ASSUME TypeOK, [Next]_vars PROVE WorldGrows
<1> USE DEF TypeOK, WorldGrows
<1>1. CASE UNCHANGED <<order, indexed, merchant>>
  BY <1>1
<1>2. ASSUME UNCHANGED <<runVars, worldVars>> PROVE WorldGrows
  BY <1>2 DEF runVars, worldVars
<1>3. ASSUME NEW t \in Tx, ReceiptIndexed(t) \/ \E r \in Run : MerchantConfirms(r, t)
      PROVE  WorldGrows
  BY <1>3 DEF ReceiptIndexed, MerchantConfirms, runVars
<1>4. ASSUME NEW g \in Request, CreateOrder(g) PROVE WorldGrows
  BY <1>4 DEF CreateOrder, worldVars
<1>5. CASE ApiStep
  BY <1>2, <1>4, <1>5 DEF ApiStep, CreateRun, PaymentTransaction, ChallengeBegin,
                          SavePaymentRequired, RequestFails, runVars, worldVars
<1>6. CASE EnvironmentStep
  BY <1>3, <1>6 DEF EnvironmentStep, QuoteDeadline, OrderDeadline, OrchestratorStarts,
                    LeaseTimeout, runVars, worldVars
<1>7. ASSUME NEW w \in Worker, WorkerStep(w) \/ Crash(w) PROVE UNCHANGED <<order, indexed, merchant>>
  <2>1. ASSUME \/ PollStale(w) \/ PollNothing(w) \/ Rest(w) \/ Restart(w) \/ Crash(w)
               \/ \E r \in Run : PollClaim(w, r)
        PROVE  UNCHANGED <<order, indexed, merchant>>
    BY <2>1 DEF PollStale, PollNothing, Rest, Restart, Crash, PollClaim, runVars, worldVars
  <2>2. ASSUME \/ LoadRun(w) \/ QueryOrder(w) \/ ReconcileFails(w) \/ ExpireLoad(w)
               \/ ExpireConflict(w) \/ FinishJob(w) \/ FinishConflict(w) \/ ExpireCommit(w)
        PROVE  UNCHANGED <<order, indexed, merchant>>
    BY <2>2 DEF LoadRun, QueryOrder, ReconcileFails, ExpireLoad, ExpireConflict,
                FinishJob, FinishConflict, ExpireCommit, runVars, worldVars
  <2>3. ASSUME SettleOrder(w) PROVE UNCHANGED <<order, indexed, merchant>>
    BY <2>3 DEF SettleOrder, CommitFunded, runVars, worldVars
  <2> QED
    BY <1>7, <2>1, <2>2, <2>3 DEF WorkerStep, HandlerStep
<1>8. ASSUME NEW p \in Sweeper, SweepBegin(p) \/ SweepStep(p)
      PROVE  UNCHANGED <<order, indexed, merchant>>
  BY <1>8 DEF SweepBegin, SweepStep, SweepEnd, SweepExpire, SweepConflict, runVars, worldVars
<1>9. CASE UNCHANGED vars
  BY <1>9 DEF vars, runVars, worldVars
<1> QED
  BY <1>1, <1>5, <1>6, <1>7, <1>8, <1>9 DEF Next

\* A row enters the table when its run comes to await payment, stays there,
\* and is completed only once its run is settled.
JobChange ==
    \A j \in Job :
        /\ job[j].status # "ABSENT" => job'[j].status # "ABSENT"
        /\ job[j].status = "ABSENT" /\ job'[j].status # "ABSENT"
               => run'[j].status = "PAYMENT_REQUIRED"
        /\ job'[j].status = "COMPLETED" /\ job[j].status # "COMPLETED"
               => run[j].status \notin Unfunded

LEMMA FinishChangesJob ==
    ASSUME TypeOK, NEW w \in Worker,
           NEW status \in (JobStatus \cup {"ABSENT"}) \ {"PROCESSING"}, NEW attempts \in 0..MaxAttempts,
           Finish(w, status, attempts)
    PROVE  /\ held[w].job \in Job
           /\ job[held[w].job].status = "PROCESSING"
           /\ job'[held[w].job].status = status
           /\ \A j \in Job \ {held[w].job} : job'[j] = job[j]
<1>1. QueueTypeOK /\ Holding(w) /\ Fence(w)
  BY DEF TypeOK, Finish, Fence
<1>2. held[w].job \in Job
  BY <1>1, HolderHasClaim, ClaimFields
<1>3. Released(status, attempts).status = status
  BY ReleasedRow
<1> QED
  BY <1>1, <1>2, <1>3 DEF Finish, Fence, QueueTypeOK

LEMMA StepChangesJobs ==
    ASSUME FundingInv, [Next]_vars PROVE JobChange
<1> USE DEF FundingInv
<1>1. ASSUME UNCHANGED job PROVE JobChange
  BY <1>1 DEF JobChange
<1>2. ASSUME NEW r \in Run, PaymentTransaction(r) PROVE JobChange
  <2>1. PendingRow.status = "PENDING"
    BY ReleasedRow, MaxAttemptsAssumption DEF PendingRow, JobStatus
  <2> QED
    BY <1>2, <2>1 DEF PaymentTransaction, Rearm, JobChange, QueueTypeOK
<1>3. ASSUME NEW g \in Request, SavePaymentRequired(g) PROVE JobChange
  <2> DEFINE r == request[g].run
  <2>1. r \in Run /\ PendingRow.status = "PENDING"
    BY <1>3, RunOfRequest, ReleasedRow, MaxAttemptsAssumption
    DEF SavePaymentRequired, PendingRow, JobStatus
  <2>2. CASE run' = Moved(r, "PAYMENT_REQUIRED") /\ Enqueue(r)
    <3>1. run'[r].status = "PAYMENT_REQUIRED"
      BY <2>1, <2>2, MovedState DEF Unfunded
    <3> QED
      BY <2>1, <2>2, <3>1 DEF Enqueue, Inserted, JobChange, QueueTypeOK, Run
  <2>3. CASE UNCHANGED queueVars
    BY <1>1, <2>3 DEF queueVars
  <2> QED
    BY <1>3, <2>2, <2>3 DEF SavePaymentRequired
<1>4. ASSUME NEW r \in Run, LeaseTimeout(r) PROVE JobChange
  <2>1. /\ \A j \in Job \ {r} : job'[j] = job[j]
        /\ job'[r].status = job[r].status
    BY <1>4, RowFields DEF LeaseTimeout, LeaseLapses, QueueTypeOK, JobRow, Run
  <2> QED
    BY <2>1 DEF JobChange
<1>5. ASSUME NEW w \in Worker, PollStale(w) PROVE JobChange
  <2>1. \A j \in Job :
            \/ job'[j] = job[j]
            \/ /\ Exhausted(job[j])
               /\ job'[j] = Released("DEAD_LETTER", job[j].attempts)
    BY <1>5 DEF PollStale, DeadLetterExhausted
  <2>2. \A j \in Job : Released("DEAD_LETTER", job[j].attempts).status = "DEAD_LETTER"
    BY ReleasedRow, RowFields DEF JobStatus, QueueInv
  <2> QED
    BY <2>1, <2>2 DEF JobChange, Exhausted
<1>6. ASSUME NEW w \in Worker, NEW r \in Run, PollClaim(w, r) PROVE JobChange
  <2>1. /\ \A j \in Job \ {r} : job'[j] = job[j]
        /\ job'[r].status = "PROCESSING" /\ job[r].status # "ABSENT"
    BY <1>6, ClaimedRow DEF PollClaim, ClaimNext, Fresh, Reclaimable, Run
  <2> QED
    BY <2>1 DEF JobChange
<1>7. ASSUME NEW w \in Worker, FinishJob(w) PROVE JobChange
  <2> DEFINE r == held[w].job
  <2>1. worker[w].pc = "finish" /\ held[w].attempt \in 0..MaxAttempts /\ held[w].attempt - 1 \in 0..MaxAttempts
    BY <1>7, RunOfHandler, MaxAttemptsAssumption DEF FinishJob, Handling
  <2>2. CASE worker[w].verdict \in {"ACK", "RESOLVED"} /\ MarkCompleted(w)
    <3>1. run[r].status \notin Unfunded
      BY <2>1, <2>2 DEF VerdictsAreSound
    <3>2. /\ job[r].status = "PROCESSING" /\ job'[r].status = "COMPLETED"
          /\ \A j \in Job \ {r} : job'[j] = job[j]
      BY <2>1, <2>2, FinishChangesJob DEF MarkCompleted, JobStatus
    <3> QED
      BY <3>1, <3>2 DEF JobChange
  <2>3. CASE MarkWaiting(w) \/ MarkRetry(w) \/ MarkDeadLetter(w)
    <3>1. /\ job[r].status = "PROCESSING" /\ job'[r].status \in {"RETRY_SCHEDULED", "DEAD_LETTER"}
          /\ \A j \in Job \ {r} : job'[j] = job[j]
      BY <2>1, <2>3, FinishChangesJob DEF MarkWaiting, MarkRetry, MarkDeadLetter, JobStatus
    <3> QED
      BY <3>1 DEF JobChange
  <2> QED
    BY <1>7, <2>2, <2>3 DEF FinishJob
<1>8. CASE UNCHANGED vars
  BY <1>1, <1>8 DEF vars, queueVars
<1>9. CASE ApiStep
  <2>1. ASSUME NEW g \in Request, NEW r \in Run, ChallengeBegin(g, r) PROVE JobChange
    BY <1>1, <2>1 DEF ChallengeBegin, queueVars
  <2>2. ASSUME NEW r \in Run, CreateRun(r) PROVE JobChange
    BY <1>1, <2>2 DEF CreateRun, queueVars
  <2>3. ASSUME NEW g \in Request, CreateOrder(g) \/ RequestFails(g) PROVE JobChange
    BY <1>1, <2>3 DEF CreateOrder, RequestFails, queueVars
  <2> QED
    BY <1>2, <1>3, <1>9, <2>1, <2>2, <2>3 DEF ApiStep
<1>10. CASE EnvironmentStep
  <2>1. ASSUME NEW r \in Run, QuoteDeadline(r) \/ OrderDeadline(r) \/ OrchestratorStarts(r)
        PROVE  JobChange
    BY <1>1, <2>1 DEF QuoteDeadline, OrderDeadline, OrchestratorStarts, queueVars
  <2>2. ASSUME NEW t \in Tx, ReceiptIndexed(t) \/ \E r \in Run : MerchantConfirms(r, t)
        PROVE  JobChange
    BY <1>1, <2>2 DEF ReceiptIndexed, MerchantConfirms, queueVars
  <2> QED
    BY <1>4, <1>10, <2>1, <2>2 DEF EnvironmentStep
<1>11. ASSUME NEW w \in Worker, WorkerStep(w) \/ Crash(w) PROVE JobChange
  <2>1. ASSUME \/ PollNothing(w) \/ Rest(w) \/ Restart(w) \/ Crash(w)
               \/ ExpireConflict(w) \/ FinishConflict(w)
        PROVE  JobChange
    BY <1>1, <2>1 DEF PollNothing, Rest, Restart, Crash, ExpireConflict, FinishConflict,
                      Abandon, FinishRejected, queueVars
  <2>2. ASSUME \/ LoadRun(w) \/ QueryOrder(w) \/ SettleOrder(w) \/ ReconcileFails(w)
               \/ ExpireLoad(w) \/ ExpireCommit(w)
        PROVE  JobChange
    BY <1>1, <2>2 DEF LoadRun, QueryOrder, SettleOrder, ReconcileFails, ExpireLoad,
                      ExpireCommit, queueVars
  <2> QED
    BY <1>5, <1>6, <1>7, <1>11, <2>1, <2>2 DEF WorkerStep, HandlerStep
<1>12. ASSUME NEW p \in Sweeper, SweepBegin(p) \/ SweepStep(p) PROVE JobChange
  BY <1>1, <1>12, SweepUsesQueue DEF queueVars
<1> QED
  BY <1>8, <1>9, <1>10, <1>11, <1>12 DEF Next

-----------------------------------------------------------------------------
(* The parts of the invariant that follow from those changes.              *)

Same(s) == run'[s] = run[s] /\ receipt'[s] = receipt[s]
               /\ (s \in orchestratorJob' <=> s \in orchestratorJob)

Passes(s, from, to) ==
    /\ run[s].status \in from
    /\ run'[s].status = to
    /\ run'[s].revision = run[s].revision + 1

\* RunChange, as seen by one run.
RunMoves(s) ==
    \/ Same(s)
    \/ /\ receipt'[s] = receipt[s] /\ (s \in orchestratorJob' <=> s \in orchestratorJob)
       /\ \/ Passes(s, {"DRAFT"}, "QUOTED")
          \/ Passes(s, {"QUOTED"}, "PAYMENT_REQUIRED") /\ s \in order /\ job' = Inserted(s)
          \/ Passes(s, Unsettled, "EXPIRED")
          \/ Passes(s, {"FUNDED"}, "ANALYZING")
    \/ /\ Passes(s, {"PAYMENT_REQUIRED"}, "FUNDED")
       /\ receipt'[s] \in Genuine \cap indexed /\ receipt'[s] = merchant[s]
       /\ s \in orchestratorJob'

LEMMA RunChangeMoves ==
    ASSUME TypeOK, RunChange, NEW s \in Run PROVE RunMoves(s)
<1> USE DEF RunMoves, Same, Passes
<1>1. CASE UNCHANGED <<run, receipt, orchestratorJob>>
  BY <1>1
<1>2. ASSUME NEW r \in Run, NEW from, NEW to \in Unfunded \cup FundedOrLater \cup {"EXPIRED"},
             Advance(r, from, to)
      PROVE  /\ receipt'[s] = receipt[s] /\ orchestratorJob' = orchestratorJob
             /\ r = s => Passes(s, from, to)
             /\ r # s => Same(s)
  BY <1>2, MovedState DEF Advance
<1>3. ASSUME NEW r \in Run, NEW t \in Tx, Fund(r, t) PROVE RunMoves(s)
  <2>1. /\ run'[r].status = "FUNDED" /\ run'[r].revision = run[r].revision + 1
        /\ \A q \in Run \ {r} : run'[q] = run[q]
    BY <1>3, MovedState DEF Fund, CommitFunded, FundedOrLater
  <2>2. /\ receipt'[r] = t /\ r \in orchestratorJob'
        /\ \A q \in Run \ {r} : /\ receipt'[q] = receipt[q]
                                /\ q \in orchestratorJob' <=> q \in orchestratorJob
    BY <1>3 DEF Fund, CommitFunded, TypeOK
  <2> QED
    BY <1>3, <2>1, <2>2 DEF Fund
<1>4. ASSUME NEW r \in Run,
             \/ Advance(r, {"DRAFT"}, "QUOTED")
             \/ Advance(r, {"QUOTED"}, "PAYMENT_REQUIRED") /\ r \in order /\ Enqueue(r)
             \/ Advance(r, Unsettled, "EXPIRED")
             \/ Advance(r, {"FUNDED"}, "ANALYZING")
      PROVE  RunMoves(s)
  BY <1>2, <1>4 DEF Unfunded, FundedOrLater, Enqueue
<1> QED
  BY <1>1, <1>3, <1>4 DEF RunChange

LEMMA RevisionsInv ==
    ASSUME TypeOK, RevisionsTellQuoted, RunChange PROVE RevisionsTellQuoted'
<1> SUFFICES ASSUME NEW s \in Run
             PROVE  /\ (run'[s].revision = 0) <=> (run'[s].status = "DRAFT")
                    /\ (run'[s].revision = 1) <=> (run'[s].status = "QUOTED")
  BY DEF RevisionsTellQuoted
<1>1. RunMoves(s) /\ run[s].revision \in Nat
  BY RunChangeMoves DEF TypeOK, RunState
<1> QED
  BY <1>1 DEF RunMoves, Same, Passes, Unsettled, RevisionsTellQuoted

LEMMA FundingBackedInv ==
    ASSUME TypeOK, FundingIsBacked, RunChange, WorldGrows PROVE FundingIsBacked'
<1> SUFFICES ASSUME NEW s \in Run
             PROVE  /\ (run'[s].status \in FundedOrLater) <=> (receipt'[s] # NoTx)
                    /\ (s \in orchestratorJob') <=> (receipt'[s] # NoTx)
                    /\ receipt'[s] # NoTx => /\ receipt'[s] \in Genuine \cap indexed'
                                             /\ receipt'[s] = merchant'[s]
  BY DEF FundingIsBacked
<1>1. RunMoves(s)
  BY RunChangeMoves
<1>2. Genuine \subseteq Tx /\ NoTx \notin Genuine
  BY TxAssumption
<1> QED
  BY <1>1, <1>2 DEF RunMoves, Same, Passes, Unsettled, FundedOrLater, FundingIsBacked, WorldGrows

LEMMA OneTransferInv ==
    ASSUME TypeOK, OneTransferOneRun, RunChange PROVE OneTransferOneRun'
<1>1. CASE receipt' = receipt
  BY <1>1 DEF OneTransferOneRun
<1>2. ASSUME NEW r \in Run, NEW t \in Tx, Fund(r, t) PROVE OneTransferOneRun'
  <2>1. /\ receipt' = [receipt EXCEPT ![r] = t]
        /\ \A other \in Run : receipt[other] # t
    BY <1>2 DEF Fund, CommitFunded
  <2> QED
    BY <2>1 DEF OneTransferOneRun, TypeOK
<1> QED
  BY <1>1, <1>2 DEF RunChange, Advance

LEMMA WatchedInv ==
    ASSUME FundingInv, RunChange, JobChange, WorldGrows PROVE OpenRunIsWatched'
<1> USE DEF FundingInv
<1> SUFFICES ASSUME NEW s \in Run, run'[s].status = "PAYMENT_REQUIRED"
             PROVE  s \in order' /\ job'[s].status \notin {"ABSENT", "COMPLETED"}
  BY DEF OpenRunIsWatched
<1>1. RunMoves(s) /\ s \in Job
  BY RunChangeMoves DEF Run
<1>2. CASE Same(s)
  BY <1>1, <1>2 DEF Same, OpenRunIsWatched, WorldGrows, JobChange, Unfunded
<1>3. CASE Passes(s, {"QUOTED"}, "PAYMENT_REQUIRED") /\ s \in order /\ job' = Inserted(s)
  <2>1. job[s].status = "ABSENT" /\ job \in [Job -> JobRow]
    BY <1>3 DEF Passes, JobsFollowRuns, QueueInv, QueueTypeOK
  <2>2. PendingRow.status = "PENDING"
    BY ReleasedRow, MaxAttemptsAssumption DEF PendingRow, JobStatus
  <2> QED
    BY <1>1, <1>3, <2>1, <2>2 DEF Inserted, WorldGrows
<1> QED
  BY <1>1, <1>2, <1>3 DEF RunMoves, Passes, Unsettled

\* A worker comes to hold a job by claiming it only.
LEMMA HeldChange ==
    ASSUME QueueInv, [QueueNext]_queueVars, NEW w \in Worker
    PROVE  \/ held'[w] = held[w]
           \/ held'[w] = NoClaim
           \/ \E j \in Job : ClaimNext(w, j)
<1> USE DEF QueueInv
<1>1. CASE held' = held
  BY <1>1
<1>2. ASSUME NEW v \in Worker, LetGo(v) PROVE held'[w] = held[w] \/ held'[w] = NoClaim
  BY <1>2, LetGoClears
<1>3. ASSUME NEW v \in Worker, NEW j \in Job, ClaimNext(v, j), v # w PROVE held'[w] = held[w]
  BY <1>3, ClaimedRow
<1>4. ASSUME NEW v \in Worker, Outcome(v) PROVE LetGo(v)
  BY <1>4 DEF Outcome, MarkCompleted, MarkRetry, MarkWaiting, MarkDeadLetter, Finish
<1>5. ASSUME NEW v \in Worker, FinishRejected(v) \/ Abandon(v) PROVE LetGo(v)
  BY <1>5 DEF FinishRejected, Abandon
<1>6. ASSUME NEW j \in Job, Enqueue(j) \/ Rearm(j) \/ LeaseLapses(j) PROVE held' = held
  BY <1>6 DEF Enqueue, Rearm, LeaseLapses
<1>7. ASSUME NEW v \in Worker, DeadLetterExhausted(v) PROVE held' = held
  BY <1>7 DEF DeadLetterExhausted
<1> QED
  BY <1>1, <1>2, <1>3, <1>4, <1>5, <1>6, <1>7 DEF QueueNext, queueVars

LEMMA JobsFollowInv ==
    ASSUME FundingInv, RunChange, JobChange, [QueueNext]_queueVars PROVE JobsFollowRuns'
<1> USE DEF FundingInv
<1>1. ASSUME NEW r \in Run, run'[r].status \in {"DRAFT", "QUOTED"} PROVE job'[r].status = "ABSENT"
  <2>1. RunMoves(r) /\ r \in Job
    BY RunChangeMoves DEF Run
  <2>2. run[r].status \in {"DRAFT", "QUOTED"}
    BY <1>1, <2>1 DEF RunMoves, Same, Passes
  <2> QED
    BY <1>1, <2>1, <2>2 DEF JobsFollowRuns, JobChange
<1>2. ASSUME NEW w \in Worker, Holding(w)' PROVE job'[held'[w].job].status # "ABSENT"
  <2>1. CASE held'[w] = held[w]
    <3>1. Holding(w) /\ held[w].job \in Job
      BY <1>2, <2>1, HolderHasClaim, ClaimFields DEF Holding, QueueInv
    <3> QED
      BY <2>1, <3>1 DEF JobsFollowRuns, JobChange
  <2>2. ASSUME NEW j \in Job, ClaimNext(w, j) PROVE job'[held'[w].job].status # "ABSENT"
    BY <2>2, ClaimedRow
  <2> QED
    BY <1>2, <2>1, <2>2, HeldChange DEF Holding
<1> QED
  BY <1>1, <1>2 DEF JobsFollowRuns

LEMMA RequestsInv ==
    ASSUME FundingInv, [Next]_vars, WorldGrows PROVE RequestsSawQuotedRuns'
<1> USE DEF FundingInv, RequestsSawQuotedRuns
<1>1. CASE UNCHANGED request
  BY <1>1 DEF WorldGrows
<1>2. ASSUME NEW g \in Request, NEW r \in Run, ChallengeBegin(g, r) PROVE RequestsSawQuotedRuns'
  <2>1. run[r].revision = 1
    BY <1>2 DEF ChallengeBegin, RevisionsTellQuoted
  <2> QED
    BY <1>2, <2>1 DEF ChallengeBegin, WorldGrows, TypeOK
<1>3. ASSUME NEW g \in Request, CreateOrder(g) PROVE RequestsSawQuotedRuns'
  <2>1. request[g] # NoRequest /\ request[g] \in [pc : {"create", "save"}, run : Run, revision : Nat]
    BY <1>3 DEF CreateOrder, NoRequest, TypeOK, RequestState
  <2>2. /\ request'[g].run = request[g].run /\ request'[g].revision = request[g].revision
        /\ \A h \in Request \ {g} : request'[h] = request[h]
        /\ order' = order \cup {request[g].run}
    BY <1>3, <2>1 DEF CreateOrder, TypeOK
  <2> QED
    BY <2>1, <2>2
<1>4. ASSUME NEW g \in Request, SavePaymentRequired(g) \/ RequestFails(g)
      PROVE  RequestsSawQuotedRuns'
  BY <1>4 DEF SavePaymentRequired, RequestFails, WorldGrows, TypeOK
<1>5. CASE ApiStep
  BY <1>1, <1>2, <1>3, <1>4, <1>5 DEF ApiStep, CreateRun, PaymentTransaction
<1>6. CASE EnvironmentStep
  BY <1>1, <1>6 DEF EnvironmentStep, QuoteDeadline, OrderDeadline, OrchestratorStarts,
                    LeaseTimeout, MerchantConfirms, ReceiptIndexed
<1>7. ASSUME NEW w \in Worker, WorkerStep(w) \/ Crash(w) PROVE UNCHANGED request
  <2>1. ASSUME \/ PollStale(w) \/ PollNothing(w) \/ Rest(w) \/ Restart(w) \/ Crash(w)
               \/ \E r \in Run : PollClaim(w, r)
        PROVE  UNCHANGED request
    BY <2>1 DEF PollStale, PollNothing, Rest, Restart, Crash, PollClaim
  <2>2. ASSUME HandlerStep(w) PROVE UNCHANGED request
    BY <2>2 DEF HandlerStep, LoadRun, QueryOrder, SettleOrder, ReconcileFails, ExpireLoad,
                ExpireCommit, ExpireConflict, FinishJob, FinishConflict
  <2> QED
    BY <1>7, <2>1, <2>2 DEF WorkerStep
<1>8. ASSUME NEW p \in Sweeper, SweepBegin(p) \/ SweepStep(p) PROVE UNCHANGED request
  BY <1>8 DEF SweepBegin, SweepStep, SweepEnd, SweepExpire, SweepConflict
<1> QED
  BY <1>1, <1>5, <1>6, <1>7, <1>8 DEF Next, vars

\* What a step may do to what worker w remembers.
WorkerMoves(w) ==
    \/ worker'[w] = worker[w] /\ held'[w] = held[w]
    \/ worker'[w].pc \notin {"settle", "expire", "finish"}
    \/ /\ held'[w] = held[w] /\ held[w].job \in Run
       /\ worker'[w].pc = "settle" => /\ worker'[w].tx = merchant[held[w].job]
                                      /\ merchant[held[w].job] # NoTx
       /\ worker'[w].pc = "expire" => /\ run[held[w].job].status = "PAYMENT_REQUIRED"
                                      /\ worker'[w].revision = run[held[w].job].revision
       /\ worker'[w].pc = "finish" =>
              /\ worker'[w].verdict \in {"ACK", "RESOLVED"} =>
                     run'[held[w].job].status \notin Unfunded
              /\ worker'[w].verdict = "RETRY" => held[w].attempt < MaxAttempts

\* The job of a run exists only once the run is past QUOTED.
LEMMA HandledRunIsSaved ==
    ASSUME FundingInv, NEW w \in Worker, worker[w].pc \in Handling
    PROVE  run[held[w].job].status \notin {"DRAFT", "QUOTED"}
BY RunOfHandler DEF FundingInv, JobsFollowRuns

LEMMA DecidedMove ==
    ASSUME FundingInv, NEW w \in Worker, worker[w].pc \in Handling, UNCHANGED held,
           NEW verdict \in Verdict, Decide(w, verdict),
           verdict \in {"ACK", "RESOLVED"} => run'[held[w].job].status \notin Unfunded,
           verdict = "RETRY" => held[w].attempt < MaxAttempts
    PROVE  WorkerMoves(w)
<1>1. held[w].job \in Run
  BY RunOfHandler DEF FundingInv
<1>2. worker'[w].pc = "finish" /\ worker'[w].verdict = verdict
  BY BecomesState DEF FundingInv, Decide, WorkerPC
<1> QED
  BY <1>1, <1>2 DEF WorkerMoves

\* A failure is retried while attempts are left, else it ends in DEAD_LETTER.
LEMMA FailedMove ==
    ASSUME FundingInv, NEW w \in Worker, worker[w].pc \in Handling, UNCHANGED held,
           Decide(w, RetryOrGiveUp(w))
    PROVE  WorkerMoves(w)
<1>1. held[w].attempt \in Nat /\ MaxAttempts \in Nat
  BY RunOfHandler, MaxAttemptsAssumption DEF FundingInv
<1>2. /\ RetryOrGiveUp(w) \in {"RETRY", "DEAD_LETTER"}
      /\ RetryOrGiveUp(w) = "RETRY" => held[w].attempt < MaxAttempts
  BY <1>1 DEF RetryOrGiveUp
<1> QED
  BY <1>2, DecidedMove DEF Verdict

LEMMA GoneMove ==
    ASSUME FundingInv, NEW w \in Worker, NEW pc \in WorkerPC \ {"settle", "expire", "finish"},
           Goto(w, pc)
    PROVE  WorkerMoves(w)
BY BecomesState DEF FundingInv, Goto, WorkerMoves

LEMMA HandlerMoves ==
    ASSUME FundingInv, NEW w \in Worker, HandlerStep(w) PROVE WorkerMoves(w)
<1> DEFINE r == held[w].job
<1> USE DEF FundingInv
<1>1. ASSUME LoadRun(w) PROVE WorkerMoves(w)
  <2>1. worker[w].pc \in Handling /\ UNCHANGED held /\ run' = run
    BY <1>1 DEF LoadRun, Handling, queueVars, runVars
  <2>2. CASE run[r].status = "FUNDED" /\ Decide(w, "ACK")
    BY <2>1, <2>2, DecidedMove DEF Verdict, Unfunded
  <2>3. CASE Keep(w, "query", run[r].revision, NoTx)
    <3>1. run[r].revision \in Nat
      BY <2>1, RunOfHandler DEF TypeOK, RunState
    <3>2. worker'[w].pc = "query"
      BY <2>3, <3>1, BecomesState DEF Keep, WorkerPC
    <3> QED
      BY <3>2 DEF WorkerMoves
  <2>4. CASE Decide(w, RetryOrGiveUp(w))
    BY <2>1, <2>4, FailedMove
  <2> QED
    BY <1>1, <2>2, <2>3, <2>4 DEF LoadRun
<1>2. ASSUME QueryOrder(w) PROVE WorkerMoves(w)
  <2>1. worker[w].pc \in Handling /\ UNCHANGED held
    BY <1>2 DEF QueryOrder, Handling, queueVars
  <2>2. r \in Run /\ worker[w].revision \in Nat /\ merchant[r] \in Tx \cup {NoTx}
    BY <2>1, RunOfHandler DEF TypeOK, WorkerState
  <2>3. CASE merchant[r] # NoTx /\ Keep(w, "settle", worker[w].revision, merchant[r])
    <3>1. worker'[w].pc = "settle" /\ worker'[w].tx = merchant[r]
      BY <2>2, <2>3, BecomesState DEF Keep, WorkerPC
    <3> QED
      BY <2>1, <2>2, <2>3, <3>1 DEF WorkerMoves
  <2>4. CASE Goto(w, "expireLoad")
    BY <2>4, GoneMove DEF WorkerPC
  <2>5. CASE Decide(w, "WAIT")
    BY <2>1, <2>5, DecidedMove DEF Verdict
  <2> QED
    BY <1>2, <2>3, <2>4, <2>5 DEF QueryOrder
<1>3. ASSUME SettleOrder(w) PROVE WorkerMoves(w)
  <2>1. worker[w].pc \in Handling /\ UNCHANGED held
    BY <1>3 DEF SettleOrder, Handling, queueVars
  <2>2. CASE Decide(w, "WAIT") \/ Decide(w, "DEAD_LETTER")
    BY <2>1, <2>2, DecidedMove DEF Verdict
  <2>3. CASE Decide(w, RetryOrGiveUp(w))
    BY <2>1, <2>3, FailedMove
  <2>4. CASE CommitFunded(r, worker[w].tx) /\ Decide(w, "ACK")
    <3>1. run'[r].status = "FUNDED"
      BY <2>1, <2>4, RunOfHandler, MovedState DEF CommitFunded, FundedOrLater
    <3> QED
      BY <2>1, <2>4, <3>1, DecidedMove DEF Verdict, Unfunded
  <2> QED
    BY <1>3, <2>2, <2>3, <2>4 DEF SettleOrder
<1>4. ASSUME ReconcileFails(w) PROVE WorkerMoves(w)
  BY <1>4, FailedMove DEF ReconcileFails, Handling, queueVars
<1>5. ASSUME ExpireLoad(w) PROVE WorkerMoves(w)
  <2>1. worker[w].pc \in Handling /\ UNCHANGED held /\ run' = run
    BY <1>5 DEF ExpireLoad, Handling, queueVars, runVars
  <2>2. r \in Run /\ run[r].revision \in Nat
    BY <2>1, RunOfHandler DEF TypeOK, RunState
  <2>3. CASE run[r].status = "PAYMENT_REQUIRED"
    <3>1. worker'[w].pc = "expire" /\ worker'[w].revision = run[r].revision
      BY <1>5, <2>2, <2>3, BecomesState DEF ExpireLoad, Keep, WorkerPC
    <3> QED
      BY <2>1, <2>2, <2>3, <3>1 DEF WorkerMoves
  <2>4. CASE run[r].status # "PAYMENT_REQUIRED"
    <3>1. run'[r].status \notin Unfunded
      BY <2>1, <2>4, HandledRunIsSaved DEF Unfunded
    <3> QED
      BY <1>5, <2>1, <2>4, <3>1, DecidedMove DEF ExpireLoad, Verdict
  <2> QED
    BY <2>3, <2>4
<1>6. ASSUME ExpireCommit(w) PROVE WorkerMoves(w)
  <2>1. worker[w].pc \in Handling /\ UNCHANGED held
    BY <1>6 DEF ExpireCommit, Handling, queueVars
  <2>2. run'[r].status = "EXPIRED"
    BY <1>6, <2>1, RunOfHandler, MovedState DEF ExpireCommit
  <2> QED
    BY <1>6, <2>1, <2>2, DecidedMove DEF ExpireCommit, Verdict, Unfunded
<1>7. ASSUME ExpireConflict(w) \/ FinishConflict(w) \/ FinishJob(w) PROVE WorkerMoves(w)
  BY <1>7, GoneMove DEF ExpireConflict, FinishConflict, FinishJob, WorkerPC
<1> QED
  BY <1>1, <1>2, <1>3, <1>4, <1>5, <1>6, <1>7 DEF HandlerStep

\* A worker's step is its own.
LEMMA OthersUntouched ==
    ASSUME FundingInv, NEW v \in Worker, WorkerStep(v) \/ Crash(v), NEW w \in Worker \ {v}
    PROVE  worker'[w] = worker[w] /\ held'[w] = held[w]
<1> USE DEF FundingInv
<1>1. QueueTypeOK /\ worker \in [Worker -> WorkerState]
  BY DEF TypeOK
<1>2. ASSUME NEW pc, NEW revision, NEW tx, NEW verdict, Becomes(v, pc, revision, tx, verdict)
      PROVE  worker'[w] = worker[w]
  BY <1>1, <1>2 DEF Becomes
<1>3. ASSUME LetGo(v) PROVE held'[w] = held[w]
  BY <1>1, <1>3, LetGoClears
<1>4. ASSUME HandlerStep(v) PROVE worker'[w] = worker[w] /\ held'[w] = held[w]
  <2>1. CASE LoadRun(v) \/ QueryOrder(v) \/ SettleOrder(v) \/ ReconcileFails(v)
             \/ ExpireLoad(v) \/ ExpireCommit(v)
    BY <1>2, <2>1 DEF LoadRun, QueryOrder, SettleOrder, ReconcileFails, ExpireLoad,
                      ExpireCommit, Goto, Keep, Decide, queueVars
  <2>2. CASE ExpireConflict(v) \/ FinishConflict(v)
    BY <1>2, <1>3, <2>2 DEF ExpireConflict, FinishConflict, Abandon, FinishRejected, Goto
  <2>3. CASE FinishJob(v)
    BY <1>2, <1>3, <2>3 DEF FinishJob, MarkCompleted, MarkWaiting, MarkRetry, MarkDeadLetter,
                            Finish, Goto
  <2> QED
    BY <1>4, <2>1, <2>2, <2>3 DEF HandlerStep
<1>5. ASSUME NEW r \in Run, PollClaim(v, r) PROVE worker'[w] = worker[w] /\ held'[w] = held[w]
  BY <1>2, <1>5, ClaimedRow DEF PollClaim, Goto, Run
<1>6. ASSUME PollStale(v) \/ PollNothing(v) \/ Rest(v) \/ Restart(v)
      PROVE  worker'[w] = worker[w] /\ held'[w] = held[w]
  BY <1>2, <1>6 DEF PollStale, DeadLetterExhausted, PollNothing, Rest, Restart, Goto, queueVars
<1>7. ASSUME Crash(v) PROVE worker'[w] = worker[w] /\ held'[w] = held[w]
  BY <1>2, <1>3, <1>7 DEF Crash, Abandon, Goto, queueVars
<1> QED
  BY <1>4, <1>5, <1>6, <1>7 DEF WorkerStep

LEMMA StepMovesWorkers ==
    ASSUME FundingInv, [Next]_vars, NEW w \in Worker PROVE WorkerMoves(w)
<1> USE DEF FundingInv
<1>1. CASE UNCHANGED <<worker, held>>
  BY <1>1 DEF WorkerMoves
<1>2. CASE ApiStep
  BY <1>1, <1>2 DEF ApiStep, CreateRun, PaymentTransaction, Rearm, ChallengeBegin, CreateOrder,
                    SavePaymentRequired, Enqueue, RequestFails, queueVars
<1>3. CASE EnvironmentStep
  BY <1>1, <1>3 DEF EnvironmentStep, QuoteDeadline, OrderDeadline, OrchestratorStarts,
                    LeaseTimeout, LeaseLapses, MerchantConfirms, ReceiptIndexed, queueVars
<1>4. ASSUME WorkerStep(w) \/ Crash(w) PROVE WorkerMoves(w)
  <2>1. CASE PollStale(w) \/ PollNothing(w) \/ Rest(w) \/ Restart(w)
             \/ \E r \in Run : PollClaim(w, r)
    BY <2>1, GoneMove DEF PollStale, PollNothing, Rest, Restart, PollClaim, WorkerPC
  <2>2. CASE Crash(w)
    BY <2>2, GoneMove DEF Crash, WorkerPC
  <2> QED
    BY <1>4, <2>1, <2>2, HandlerMoves DEF WorkerStep
<1>5. ASSUME NEW v \in Worker, WorkerStep(v) \/ Crash(v), v # w PROVE WorkerMoves(w)
  BY <1>5, OthersUntouched DEF WorkerMoves
<1>6. ASSUME NEW p \in Sweeper, SweepBegin(p) \/ SweepStep(p) PROVE WorkerMoves(w)
  <2>1. held' = held
    BY <1>6, SweepUsesQueue DEF queueVars
  <2>2. CASE UNCHANGED worker
    BY <1>1, <2>1, <2>2
  <2>3. ASSUME p \in Worker, NEW pc \in {"sweep", "idle"}, Goto(p, pc) PROVE WorkerMoves(w)
    <3>1. pc \in WorkerPC \ {"settle", "expire", "finish"}
      BY <2>3 DEF WorkerPC
    <3>2. CASE p = w
      BY <2>3, <3>1, <3>2, GoneMove
    <3>3. CASE p # w
      BY <2>1, <2>3, <3>1, <3>3, BecomesState DEF Goto, WorkerMoves
    <3> QED
      BY <3>2, <3>3
  <2> QED
    BY <1>6, <2>2, <2>3 DEF SweepBegin, SweepStep, SweepEnd, SweepExpire, SweepConflict, SweepLeave
<1> QED
  BY <1>1, <1>2, <1>3, <1>4, <1>5, <1>6 DEF Next, vars, queueVars

LEMMA SweepsMove ==
    ASSUME FundingInv, [Next]_vars, NEW p \in Sweeper, NEW c \in sweep'[p].todo
    PROVE  c.revision # 0
<1> USE DEF FundingInv
<1>1. sweep \in [Sweeper -> SweepState]
  BY DEF TypeOK
<1>2. CASE UNCHANGED sweep
  BY <1>2 DEF DecisionsSawSavedRuns
<1>3. ASSUME NEW q \in Sweeper, sweep' = [sweep EXCEPT ![q] = NoSweep] PROVE c.revision # 0
  <2>1. p # q /\ sweep'[p] = sweep[p]
    BY <1>1, <1>3 DEF NoSweep
  <2> QED
    BY <2>1 DEF DecisionsSawSavedRuns
<1>4. ASSUME NEW q \in Sweeper, SweepBegin(q) PROVE c.revision # 0
  <2>1. CASE p # q
    BY <1>1, <1>4, <2>1 DEF SweepBegin, DecisionsSawSavedRuns
  <2>2. CASE p = q
    <3>1. c \in Candidates
      BY <1>1, <1>4, <2>2 DEF SweepBegin
    <3> QED
      BY <3>1 DEF Candidates, Unsettled, RevisionsTellQuoted
  <2> QED
    BY <2>1, <2>2
<1>5. ASSUME NEW q \in Sweeper, NEW d \in sweep[q].todo, SweepExpire(q, d) PROVE c.revision # 0
  <2>1. sweep[q] \in [open : {TRUE}, todo : SUBSET [run : Run, revision : Nat]]
    BY RunOfCandidate
  <2>2. c \in sweep[p].todo
    BY <1>1, <1>5, <2>1 DEF SweepExpire
  <2> QED
    BY <2>2 DEF DecisionsSawSavedRuns
<1>6. CASE ApiStep
  BY <1>2, <1>6 DEF ApiStep, CreateRun, PaymentTransaction, ChallengeBegin, CreateOrder,
                    SavePaymentRequired, RequestFails
<1>7. CASE EnvironmentStep
  BY <1>2, <1>7 DEF EnvironmentStep, QuoteDeadline, OrderDeadline, OrchestratorStarts,
                    LeaseTimeout, MerchantConfirms, ReceiptIndexed
<1>8. ASSUME NEW w \in Worker, WorkerStep(w) PROVE UNCHANGED sweep
  <2>1. CASE PollStale(w) \/ PollNothing(w) \/ Rest(w) \/ Restart(w) \/ \E r \in Run : PollClaim(w, r)
    BY <2>1 DEF PollStale, PollNothing, Rest, Restart, PollClaim
  <2>2. CASE HandlerStep(w)
    BY <2>2 DEF HandlerStep, LoadRun, QueryOrder, SettleOrder, ReconcileFails, ExpireLoad,
                ExpireCommit, ExpireConflict, FinishJob, FinishConflict
  <2> QED
    BY <1>8, <2>1, <2>2 DEF WorkerStep
<1>9. ASSUME NEW w \in Worker, Crash(w) PROVE c.revision # 0
  BY <1>3, <1>9 DEF Crash, Sweeper
<1>10. ASSUME NEW q \in Sweeper, SweepStep(q) PROVE c.revision # 0
  BY <1>3, <1>5, <1>10 DEF SweepStep, SweepEnd, SweepConflict, SweepLeave
<1> QED
  BY <1>2, <1>4, <1>6, <1>7, <1>8, <1>9, <1>10 DEF Next, vars

LEMMA DecisionsInv ==
    ASSUME FundingInv, [Next]_vars PROVE DecisionsSawSavedRuns'
<1> USE DEF FundingInv
<1>1. ASSUME NEW w \in Worker, worker'[w].pc = "expire" PROVE worker'[w].revision # 0
  <2>1. CASE worker'[w] = worker[w]
    BY <1>1, <2>1 DEF DecisionsSawSavedRuns
  <2>2. CASE /\ held[w].job \in Run /\ run[held[w].job].status = "PAYMENT_REQUIRED"
             /\ worker'[w].revision = run[held[w].job].revision
    BY <2>2 DEF RevisionsTellQuoted
  <2> QED
    BY <1>1, <2>1, <2>2, StepMovesWorkers DEF WorkerMoves
<1> QED
  BY <1>1, SweepsMove DEF DecisionsSawSavedRuns

LEMMA VerdictsInv ==
    ASSUME FundingInv, [Next]_vars, RunChange, WorldGrows, TypeOK' PROVE VerdictsAreSound'
<1> USE DEF FundingInv
<1> SUFFICES ASSUME NEW w \in Worker
             PROVE  /\ worker'[w].pc = "settle" =>
                           worker'[w].tx \in Tx /\ worker'[w].tx = merchant'[held'[w].job]
                    /\ worker'[w].pc = "finish" /\ worker'[w].verdict \in {"ACK", "RESOLVED"}
                           => run'[held'[w].job].status \notin Unfunded
                    /\ worker'[w].pc = "finish" /\ worker'[w].verdict = "RETRY"
                           => held'[w].attempt < MaxAttempts
  BY DEF VerdictsAreSound
<1> DEFINE r == held[w].job
<1>1. NoTx \notin Tx
  BY TxAssumption
<1>2. WorkerMoves(w)
  BY StepMovesWorkers
<1>3. CASE worker'[w].pc \notin {"settle", "expire", "finish"}
  BY <1>3
<1>4. CASE worker'[w].pc \in {"settle", "finish"} /\ worker'[w] = worker[w] /\ held'[w] = held[w]
  <2>1. r \in Run
    BY <1>4, RunOfHandler DEF Handling
  <2>2. merchant[r] # NoTx => merchant'[r] = merchant[r]
    BY <2>1 DEF WorldGrows
  <2>3. run[r].status \notin Unfunded => run'[r].status \notin Unfunded
    BY <2>1, RunChangeMoves DEF RunMoves, Same, Passes, Unfunded, Unsettled
  <2> QED
    BY <1>1, <1>4, <2>1, <2>2, <2>3 DEF VerdictsAreSound
<1>5. CASE /\ worker'[w].pc \in {"settle", "finish"} /\ held'[w] = held[w] /\ r \in Run
           /\ worker'[w].pc = "settle" => worker'[w].tx = merchant[r] /\ merchant[r] # NoTx
           /\ worker'[w].pc = "finish" =>
                 /\ worker'[w].verdict \in {"ACK", "RESOLVED"} => run'[r].status \notin Unfunded
                 /\ worker'[w].verdict = "RETRY" => held[w].attempt < MaxAttempts
  <2>1. merchant[r] # NoTx => merchant'[r] = merchant[r] /\ merchant[r] \in Tx
    BY <1>5 DEF WorldGrows, TypeOK
  <2> QED
    BY <1>5, <2>1
<1> QED
  BY <1>2, <1>3, <1>4, <1>5 DEF WorkerMoves

-----------------------------------------------------------------------------
(* The theorems.                                                           *)

LEMMA FundingInitInv == ASSUME Init PROVE FundingInv
<1>1. QueueInv /\ QueueTypeOK
  BY QueueInitInv DEF Init, QueueInv
<1>2. \A w \in Worker : ~Holding(w)
  BY DEF Init, QueueInit, Holding
<1>3. TypeOK
  <2>1. RunsTypeOK /\ WorldTypeOK
    BY DEF Init, RunsTypeOK, WorldTypeOK, RunState, Unfunded
  <2>2. IdleWorker \in WorkerState /\ NoSweep \in SweepState /\ NoRequest \in RequestState
    BY DEF IdleWorker, WorkerState, WorkerPC, SweepState, RequestState
  <2>3. ProcessesTypeOK
    BY <1>2, <2>2, MaxCrashesAssumption
    DEF Init, ProcessesTypeOK, IdleWorker, NoSweep, Handling, Sweeper
  <2> QED
    BY <1>1, <2>1, <2>3, TypeParts
<1>4. /\ RevisionsTellQuoted /\ RequestsSawQuotedRuns /\ FundingIsBacked
      /\ OneTransferOneRun /\ OpenRunIsWatched
  BY DEF Init, RevisionsTellQuoted, RequestsSawQuotedRuns, FundingIsBacked, OneTransferOneRun,
         OpenRunIsWatched, FundedOrLater
<1>5. DecisionsSawSavedRuns /\ VerdictsAreSound
  BY DEF Init, DecisionsSawSavedRuns, VerdictsAreSound, NoSweep, IdleWorker, Sweeper
<1>6. JobsFollowRuns
  <2>1. AbsentRow.status = "ABSENT"
    BY DEF AbsentRow, Released
  <2> QED
    BY <1>2, <2>1 DEF Init, QueueInit, JobsFollowRuns, Run
<1> QED
  BY <1>1, <1>3, <1>4, <1>5, <1>6 DEF FundingInv

LEMMA FundingStepInv == ASSUME FundingInv, [Next]_vars PROVE FundingInv'
<1>1. TypeOK /\ VerdictsAreSound /\ QueueInv /\ RevisionsTellQuoted /\ FundingIsBacked
      /\ OneTransferOneRun
  BY DEF FundingInv
<1>2. [QueueNext]_queueVars
  BY <1>1, StepUsesQueue
<1>3. QueueInv'
  BY <1>1, <1>2, QueueStepInv
<1>4. TypeOK'
  BY <1>1, <1>2, <1>3, TypeStep DEF QueueInv
<1>5. RunChange /\ WorldGrows /\ JobChange
  BY <1>1, StepChangesRuns, StepGrowsWorld, StepChangesJobs
<1>6. RevisionsTellQuoted' /\ FundingIsBacked' /\ OneTransferOneRun'
  BY <1>1, <1>5, RevisionsInv, FundingBackedInv, OneTransferInv
<1>7. OpenRunIsWatched' /\ JobsFollowRuns'
  BY <1>2, <1>5, WatchedInv, JobsFollowInv
<1>8. RequestsSawQuotedRuns' /\ DecisionsSawSavedRuns' /\ VerdictsAreSound'
  BY <1>4, <1>5, RequestsInv, DecisionsInv, VerdictsInv
<1> QED
  BY <1>3, <1>4, <1>6, <1>7, <1>8 DEF FundingInv

\* Everything below rests on this invariant: what requests, workers and sweeps
\* remember stays true however they interleave with deadlines, customers,
\* leases that lapse, crashes and each other.
THEOREM FundingInvariance == Spec => []FundingInv
<1>1. Init => FundingInv
  BY FundingInitInv
<1>2. FundingInv /\ [Next]_vars => FundingInv'
  BY FundingStepInv
<1> QED
  BY <1>1, <1>2, PTL DEF Spec

\* Variables keep their types; a worker has a claim exactly while it handles a job.
THEOREM FundingTypeCorrect == Spec => []TypeOK
<1>1. FundingInv => TypeOK
  BY DEF FundingInv
<1> QED
  BY <1>1, FundingInvariance, PTL

\* commitFundedRun funds a run only with the verified transfer its merchant
\* reported, and hands every funded run to the orchestrator.
THEOREM FundingBacked == Spec => []FundingIsBacked
<1>1. FundingInv => FundingIsBacked
  BY DEF FundingInv
<1> QED
  BY <1>1, FundingInvariance, PTL

\* The unique receipt index: no transfer funds two runs, whatever the merchant reports.
THEOREM NoTransferFundsTwoRuns == Spec => []OneTransferOneRun
<1>1. FundingInv => OneTransferOneRun
  BY DEF FundingInv
<1> QED
  BY <1>1, FundingInvariance, PTL

\* A run that awaits payment never loses its reconciliation job: a worker that
\* completes a job has seen its run settle, and no run comes back to PAYMENT_REQUIRED.
THEOREM OpenRunsStayWatched == Spec => []OpenRunIsWatched
<1>1. FundingInv => OpenRunIsWatched
  BY DEF FundingInv
<1> QED
  BY <1>1, FundingInvariance, PTL

\* The payment worker uses the queue as the queue's own specification expects,
\* so the queue's theorems hold of payment_reconciliation_jobs.
THEOREM FundingImplementsQueue == Spec => ImplementsQueue
<1>1. Init => QueueInit
  BY DEF Init
<1>2. FundingInv /\ [Next]_vars => [QueueNext]_queueVars
  BY StepUsesQueue DEF FundingInv
<1> QED
  BY <1>1, <1>2, FundingInvariance, PTL DEF Spec, ImplementsQueue, QueueSpec

\* Whoever changes a run, API, worker, sweep or orchestrator, takes one step of
\* the transition table.
THEOREM FundingImplementsLifecycle == Spec => ImplementsLifecycle
<1>1. Init => Lifecycle!Init
  BY DEF Init, Lifecycle!Init
<1>2. ASSUME FundingInv, [Next]_vars PROVE [Lifecycle!Next]_run
  <2>1. TypeOK /\ RunChange
    BY <1>2, StepChangesRuns DEF FundingInv
  <2>2. ASSUME NEW r \in Run, NEW from, NEW to, NEW actors, NEW actor \in actors,
               <<from, to, actors>> \in Lifecycle!Rules,
               run[r].status = from, run' = Moved(r, to)
        PROVE  Lifecycle!Next
    BY <2>2 DEF Moved, Lifecycle!Next, Lifecycle!Transition
  <2>3. /\ <<"DRAFT", "QUOTED", {"QUOTE_ENGINE"}>> \in Lifecycle!Rules
        /\ <<"QUOTED", "PAYMENT_REQUIRED", {"MERCHANT_GATEWAY"}>> \in Lifecycle!Rules
        /\ <<"PAYMENT_REQUIRED", "FUNDED", {"PAYMENT_RECONCILER"}>> \in Lifecycle!Rules
        /\ <<"FUNDED", "ANALYZING", {"ORCHESTRATOR"}>> \in Lifecycle!Rules
        /\ \A from \in Unsettled : <<from, "EXPIRED", {"SYSTEM"}>> \in Lifecycle!Rules
    BY DEF Lifecycle!Rules, Unsettled
  <2>4. ASSUME NEW r \in Run, Advance(r, {"DRAFT"}, "QUOTED") PROVE Lifecycle!Next
    BY <2>2, <2>3, <2>4 DEF Advance
  <2>5. ASSUME NEW r \in Run, Advance(r, {"QUOTED"}, "PAYMENT_REQUIRED") PROVE Lifecycle!Next
    BY <2>2, <2>3, <2>5 DEF Advance
  <2>6. ASSUME NEW r \in Run, Advance(r, Unsettled, "EXPIRED") PROVE Lifecycle!Next
    BY <2>2, <2>3, <2>6 DEF Advance
  <2>7. ASSUME NEW r \in Run, Advance(r, {"FUNDED"}, "ANALYZING") PROVE Lifecycle!Next
    BY <2>2, <2>3, <2>7 DEF Advance
  <2>8. ASSUME NEW r \in Run, NEW t \in Tx, Fund(r, t) PROVE Lifecycle!Next
    BY <2>2, <2>3, <2>8 DEF Fund, CommitFunded
  <2> QED
    BY <2>1, <2>4, <2>5, <2>6, <2>7, <2>8 DEF RunChange
<1> QED
  BY <1>1, <1>2, FundingInvariance, PTL DEF Spec, ImplementsLifecycle, Lifecycle!Spec

=============================================================================
