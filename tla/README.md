# Shipyard402 in TLA+

Shipyard402 sells a verification run: a customer gets a quote, pays an on-chain
order, and a pipeline of workers then buys access to the customer's endpoint,
probes it, builds an evidence pack, attests the verdict on a registry contract
and delivers it. The money moves before the work does, several processes share
one PostgreSQL database, a wallet and append-only chains, and any of them may
stop between two steps. This directory holds TLA+ modules of that program, the
TLC configurations that check them, and TLAPS proofs about them.

1. [The system](#1-the-system)
2. [Modules and the code](#2-modules-and-the-code)
3. [Runs](#3-runs)
4. [Fairness](#4-fairness)
5. [Proofs](#5-proofs)
6. [Divergences found](#6-divergences-found)
7. [What is not modelled](#7-what-is-not-modelled)
8. [Plan](#8-plan)

To repeat a run: `tlc -config MCPaymentFunding.cfg MCPaymentFunding`; a proof:
`tlapm PaymentFundingProofs.tla`. The runs are listed in `PROJECT.json`, with a
mutant for each property: a plausible bug in one definition that makes TLC
find the property violated. `PROJECT.json` also maps each definition to the
source lines it stands for, and lists the hazards the properties are for.

## 1. The system

| Component | State | Operations | Interacts with |
|---|---|---|---|
| `apps/web-dashboard`, `packages/public-api-client` | the form's target, quote, request key, run; polls in flight | quote, create run, ask for payment, follow | API |
| `apps/api-gateway` | quotes, runs, orders, sessions | `POST /v1/quotes`, `/v1/runs`, `payment-challenge`, `payment-tx`, onboarding, read routes | customer, catalog, merchant adapter, queue |
| `persistence-postgres` catalog | services, releases | `onboardService`, directory, `resolveCatalogBinding` | owners, API |
| `packages/goat-flow-adapter` and its store | the order of a run | `createOrder`, `getOrderStatus`, `getOrderProof` | GOAT Flow, API, reconciler |
| `packages/bot-chain-adapter` and its store | order snapshot: submitted hash, proof | `createOrder`, `submitPaymentTransaction`, `getOrderStatus`, `getOrderProof` | API, reconciler, BOT Chain RPC |
| `packages/run-domain` state machine | a run's status and revision | `transitionRun` | every component that changes a run |
| `persistence-postgres` job queues | `payment_reconciliation_jobs`, `orchestrator_jobs`: status, attempts, lock | enqueue, `claimNext`, `mark*`, `rearm` | API and stores enqueue, workers claim |
| `packages/payment-reconciliation` and its store | runs, payment orders, receipts | `reconcile`, `expireRun`, `sweepExpiredRuns`, `commitFundedRun`, `commitExpiredRun` | merchant adapter, chain reader, queue |
| `apps/payment-worker` | one leased job | loop: claim, handle, mark, or sweep; `expire-stale-orders.ts` | queue, reconciler, supervisor |
| `apps/orchestrator-worker` and its stores | one leased job; checkpoints, packs, attestations | the pipeline's phases, the finalizer, `finalize-stuck-runs.ts` | queue, wallet, registry, targets |
| cross-chain procurement (phase, `bnb-x402-client`, `stargate-bridge-adapter`) | claims on bridge and authorization, settlement legs | bridge quote, claim, send, status; x402 acquire | two chains, bridge, facilitator |
| `apps/bnb-x402-target`, `apps/x402-demo-target` | verified and settled authorizations | verify, settle, deliver | orchestrator, token |
| `packages/policy-engine`, `quote-engine`, `risk-classifier` | none | pure decisions | API, orchestrator |
| `packages/protected-delivery-runner`, `evidence-sdk` | none | probes, hashing, signing | orchestrator |
| `contracts/ShipyardRunRegistry.sol` | append-only map of runs, pause | `recordRun`, `pause` | orchestrator |

What is hard about it:

- **Leases.** A worker holds a job for a lease it cannot renew. If it is slow,
  another worker reclaims the job while the first is still in the middle of it;
  both then act on the same run. The guard is a fence of status, owner and
  attempt count, and the attempt count goes down as well as up.
- **Optimistic revisions.** A run is read, other systems are awaited, and the
  run is then written *at the revision that was read*. What else the decision
  rested on (an order, a deadline, a transfer) is not part of the revision.
- **Copies.** The BOT adapter reads an order's JSON, awaits the chain, and
  writes the JSON back whole. An orchestrator attempt reads run and checkpoint
  once and works on these copies to its end. A browser goes on quoting a
  service's row that has been rewritten since.
- **Effects before records**: order created but run not updated, funding
  committed but its answer lost, refund sent or bridge transfer broadcast but not
  recorded, authorization presented but its evidence not checkpointed.
- **Things that must eventually happen**: a quoted run must not stay open for
  ever, a paid order must be recognised, a lease and a job must end, a
  delivered verdict must reach the page that waits for it.

What makes each part correct:

- *Life of a run*: every change is in the transition table; no paid run goes back.
- *Queue*: an overtaken worker cannot write, the rightful one always can, no
  row is stranded, no lease is stolen, every lease ends.
- *Checkout*: a quote becomes one run and one order, on the quoted terms and for
  the target that was registered.
- *Funding*: funded exactly with a verified transfer of its own order and an
  orchestrator job; one transfer funds one run; a run that awaits payment is
  watched; every quoted run settles; its job leaves the queue.
- *BOT order*: a stored proof belongs to the stored hash; a run keeps its order,
  which the code does not ensure; the submitted payment of an order that stays
  readable is eventually recognised whatever overwrites what.
- *Orchestration*: one authorization per run, purchase and refund within the
  prepaid budget, a PASS only for a target that earned it, nothing delivered
  without its attestation, no job acknowledged without a delivery.
- *Cross-chain purchase*: one transfer, one authorization, paid only with what
  has arrived, completed only when paid.
- *Following*: the page shows its own run, sends nothing after a transfer it knows
  of, and shows the attestation in the end.

## 2. Modules and the code

| Module | Models | Uses |
|---|---|---|
| `RunLifecycle` | the run state machine | |
| `LeaseQueue` | both job queues | |
| `PaymentFunding` | API, payment worker, reconciliation, sweep | extends LeaseQueue; implements it and RunLifecycle |
| `BotChainOrder` | one BOT order and everyone who copies it | |
| `Procurement`, `Probe` | pure decisions: plan, mandate, purchase; target, runners, verdict | |
| `Orchestration` | orchestrator workers, finalizer, script, registry, wallet, target | extends LeaseQueue, Procurement, Probe; implements RunLifecycle and RunSettlement |
| `RunSettlement` | the orchestrator's promise about money and verdict | |
| `CrossChainProcurement` | the cross-chain phase, its claims, bridge, facilitator | extends LeaseQueue, Procurement; implements CrossChainStates |
| `CrossChainStates` | `transitionCrossChainProcurement` | |
| `Catalog`, `Checkout` | onboarding and quotes; form, API, GOAT Flow orders | Checkout extends Catalog |
| `RunFollowing` | the dashboard's polling and its pay panel | uses RunLifecycle's table |

The `MC*` modules give values to constants; the `*Proofs` modules hold the proofs.
In every module a database transaction is one action, and so is what a process
does up to the next await after which something it read may be stale. An effect
whose answer is lost is the effect followed by a failure of the process.

### RunLifecycle

`Rules` is the table `TRANSITIONS` of `run-state-machine.ts`, `Moved` is what
`transitionRun` does to an aggregate at the expected revision. One action,
`Transition(r, rule, actor)`. Idempotency keys and timestamps are left out: no
component modelled replays a key at the same revision.

### LeaseQueue

Both queue tables, which have the same code. `job` is the table, `held` what
each worker's process remembers of its claim, `overtaken` a history variable:
the workers whose job was swept or reclaimed under them.

| Code | Action |
|---|---|
| `INSERT ... ON CONFLICT DO NOTHING` | `Enqueue` |
| `rearm` | `Rearm` |
| `claimNext`, first statement | `DeadLetterExhausted` |
| `claimNext`, second statement | `ClaimNext`, `NothingDue` |
| `#finishLease` behind each `mark*` | `Finish`, `MarkCompleted`, `MarkRetry`, `MarkWaiting`, `MarkDeadLetter`; `FinishRejected` when its WHERE matches no row |
| process death | `Abandon` |
| `locked_at` older than the lease | `LeaseLapses` |

The two statements of `claimNext` are separate actions, since they are not in
one transaction. Times are abstracted to "the lease has lapsed" and "a
scheduled row may or may not be due". Worker ids are distinct
(`IdOfAssumption`), as the supervisor's fixed ids are; two processes started
with one id are outside the model.

### PaymentFunding

Its workers claim LeaseQueue's jobs. It models

- the API routes: `CreateRun`, `ChallengeBegin` / `CreateOrder` /
  `SavePaymentRequired` (three steps, for the awaits between them), `PaymentTransaction`;
- the worker loop: `PollStale`, `PollClaim`, `PollNothing`, `Rest`, then the
  handler `LoadRun`, `QueryOrder`, `SettleOrder`, `ExpireLoad`, `ExpireCommit`,
  and `FinishJob`; the conflicts that end the process, `ExpireConflict` and
  `FinishConflict`; `ReconcileFails` for a dependency that throws; `Crash` and
  `Restart`;
- the sweep, from a worker's idle branch or from the script: `SweepBegin`
  (its query), `SweepExpire`, `SweepConflict`, `SweepEnd`;
- the environment: deadlines, a merchant that confirms an order with any
  transfer (the same one for two orders, or one that does not pay), a chain
  reader that sees receipts late, and the orchestrator's first transition.

The settlement reads between `QueryOrder` and the commit are one action with it
because neither a proof nor a receipt changes once it is there. `SettleOrder`
includes the lost answer of a COMMIT: the run is funded and the worker still
schedules a retry.

Assumed of the merchant: once it reports a transfer for an order it keeps
reporting it. That holds for GOAT Flow; the BOT adapter can take a proof back,
which is what BotChainOrder is about. A worker knows only what it stored in
its local variables: `worker[w].revision` and `.tx`, `sweep[p].todo`,
`request[g].revision`.

### BotChainOrder

One order of the BOT adapter. `column` is `payment_orders.order_id`, `snapshot`
the JSON beside it. Each client (`CreateLookup`/`CreatePut`,
`SubmitBegin`/`SubmitRead`/`SubmitPut`,
`ReconcileLoad`/`StatusRead`/`ProofRead`/`VerifyTransfer`/`PutProof`/`Settle`)
keeps the copy it read and puts it back whole. Creations may overlap, as the
payment-challenge route lets them: the row is `Readable` as long as its column
and its snapshot name the same order. Amounts, parties and log
indexes are folded into `Paying`, the set of transactions that carry the exact
transfer. Deadlines and queue are left to PaymentFunding: here a reconciler may
start again at any time until the run is funded.

### Procurement and Probe

Decisions without state, as operators. `Procurement`: `compileTestPlan` cuts a
proposed budget to the ceiling; `BuildMandate` and `MandateIsValid` are what the
orchestrator asks the policy engine with, `DenialCodes` what `authorizePurchase`
may answer; `Payable` is the payer client's choice of a requirement. `Probe`:
`PaidResource` is the demo target in its protected and its vulnerable mode,
`ReplayResult` and `CredentialResult` the two runners, `Trusted` the provenance
check, `Aggregate` the verdict, `Receipted` the refusal to receipt a request
nobody answered. A response is its HTTP status.

### Orchestration

A process (worker, or `finalize-stuck-runs.ts`) has a place in the code,
`act[p].pc`, and the copies it decides on: `status` and `revision` of the run,
`local`, the checkpoint, read once per attempt. Pipeline and finalizer share
their places; they differ in the statuses they take a run on from (`Loadable`),
in the copy they work with (`WorkingCopy`: the finalizer forces its result) and
in the steps between (`PipelineSteps`, `FinalizerSteps`).

| Code | Action |
|---|---|
| `claimNext`, `mark*`, exit | `Sweep`, `Poll`, `Report`, `ReportRejected`, `Crash` |
| `runOrchestratorPipeline`: load, `advance` | `LoadRun`, `LoadCheckpoint`, `Advance` (a save at the revision read, or a skip) |
| `runRiskAnalysisPhase` | `Plan` |
| `runProcurementPhase` | `Deny`, `Acquire`, then the refund: `ReserveNonce`, `CheckNonce`, `SendRefund`, `SaveRefund` |
| `runExecutionPhase` | `Present`, `Replay`, `SaveEvidence` |
| `runEvidencePhase` | `Pack`, `PutPack` |
| `runAttestationPhase` and delivery | `Submit`, `SaveAttestation`, `Store`, `PutAttestation`, `Deliver` |
| `finalizeRunAsInconclusive`, `#deadLetter`, the script | `Finalize`, `FinalizerSteps`, `ScriptStart` |
| any other error | `Fail`: retry, or finalize on the last attempt |

`Merge` is the checkpoint's upsert, each column COALESCEd. The environment is
the wallet's other transactions (`ForeignTransaction`), the owner of the
registry, the authorization's validity window, and leases that lapse under a
worker that is still busy. Refunds are enabled; the registry's roles and the
content of a pack beyond its result are left out.

### CrossChainProcurement

The funding of the destination (`ClaimBridge` to `FundedLeg`), the purchase
(`PaymentLeg` to `AuthorizedLeg`) and the target's verify, settle and deliver
(`Verify`, `Settle`, `SaveSettlement`, `Unsettled`), for runs whose payer is
prefunded and runs that bridge first. `bridgeRow` and `purchaseRow` are the two
claim tables, `sent` counts broadcasts, `verified` is the facilitator's map in
memory. An attempt decides on the checkpoint it loaded; only the payment it
presents is the one the upsert answered with (`Kept`). The facilitator may settle
and the target's answer not say so (`Unconfirmed`). A bridge may deliver, deliver less, fail, or never end; the scan
service lags behind it. What precedes and follows in the pipeline is Orchestration.

### Catalog and Checkout

One service row that onboarding rewrites, with its releases; browsers remember
any target the directory ever named (`listings`). In Checkout `page` is the
release-run form, `request` the requests in the gateway, each handled in the
steps its handler awaits: `HandleQuote`; `LookupKey`, `InsertRun`; `LoadRun`,
`FindOrder`, `RemoteOrder`, `PutOrder`, `SavePaymentRequired`. Answers are lost,
the gateway dies with the requests it handles, prices and merchant are
redeployed, services re-onboarded, quotes expire. What happens to a run after
its order is `RunAdvances`, a summary of PaymentFunding.

### RunFollowing

The effect of `useRunProgress` with its cancellation flag: polls of an abandoned
effect stay in flight, the requests of one poll are answered in any order.
`Advance` is any transition of the table within `Reached`.

What a page renders is state here, because a component's state lives as long as
it stays mounted: `Display` is every assignment of the polled data together with
what it mounts. `WalletPayPanel` is `panel`, from connecting and switching the
network to the transfer, one action per await (`ConnectToPay`, `NetworkChecked`,
`Pay`, `ChainEnsured`, `BalanceRead`, `WalletAnswers`); each may fail and offers
the button again. Only the panel remembers that it has paid. The wallet answers
with a hash (`Confirmed`), an error (`Rejected`), or with an error for a
transaction it has broadcast (`AnswerLost`), which `handlePay` cannot tell from the
former. A payment whose panel is unmounted by new data goes on (`"orphaned"`) and
may still be sent; one whose page was left altogether is not followed. The chain
the wallet is on is abstracted to the outcome of its check. `Show` drops the data
shown, as the hook does when there is no run: the form lets go of its run before
it creates another, and the permalink's page is mounted anew.

## 3. Runs

| Run | Instance | Shows |
|---|---|---|
| `LeaseQueue` | 2 jobs, 3 workers, 2 attempts | the fence admits exactly the rightful holder; no row stranded; leases respected; every lease ends |
| `PaymentFunding` | 1 run, 2 workers, 1 request, a genuine and a false transfer, late confirmations | funded only with backing; watched while open; implements RunLifecycle and LeaseQueue; settles; its job leaves the queue |
| `PaymentFundingTwoRuns` | 2 runs, 2 workers, 1 transfer, 1 attempt, 1 crash | one transfer funds one run |
| `BotChainOrder` | 2 creations, 2 submissions, 2 reconcilers, 2 ids, 2 hashes of which 1 pays | proofs match submissions; the submitted payment of a readable order is recognised |
| `Orchestration` | 1 run, 2 workers, 2 proposals, 2 prices, a lease that lapses under a busy worker | one purchase per run, the budget kept, verdicts earned, deliveries attested; implements RunLifecycle |
| `OrchestrationFaults` | 1 run, 1 worker and the script, one each of: crash, overrun, pause, foreign transaction, expired authorization | implements RunSettlement; every job ends |
| `CrossChainProcurement` | 1 run in either mode, 2 workers, prices at and above the ceiling, deliveries on both sides of it, 2 faults | one transfer, one authorization, funded before paid, completed when paid; implements CrossChainStates; every job ends |
| `Checkout` | 2 registrations, 3 terms of which 1 exceeds the limit, 2 requests, 2 quotes, 2 orders of one run, 2 faults | one run per quote; asked as quoted; the order named is the order stored; the quoted target was registered |
| `RunFollowing` | 2 runs, 2 polls, 1 fault | the page shows its own run; a transfer it has heard of is the last; a delivered run's attestation appears |
| `LostExpiryIsANoOp`, `RunKeepsItsOrder`, `SpendOnceIsNotRepeated` | the smallest instance that shows it | a violation each, see section 6 |

Why the bounds are enough:

- *Two workers* hold the same job after a lapsed lease; three, in LeaseQueue,
  let a job change hands twice while the first holder is still busy. Two
  attempts is the least for which a first failure and a last failure differ.
- *Two runs* are needed only for what relates two runs: the shared transfer, and
  two pages following different runs. Everything else about a run concerns its
  own rows; what other runs do to the shared wallet is `ForeignTransaction`.
- *Faults* are bounded by constants (`MaxCrashes`, `MaxOverruns`, `MaxPauses`,
  `MaxForeign`, `MaxExpired`, `MaxFaults`). Conflicts that end a process,
  errors, lost answers of an attempt and retries are not bounded by these: they
  may happen at every step. An overrun is what lets two workers into one
  pipeline; a second one is covered by the crash, after which the job is
  likewise reclaimed. The two runs of Orchestration split the faults between
  them: two workers at once in one, everything that may go wrong around a
  single worker and the script in the other.
- `MaxQuotes`, `MaxOrders`, `MaxOnboardings` leave one quote, one order and one
  onboarding that compete with another of their kind.
- Attempts are bounded by the code, revisions by the statuses a run goes through.
- Two deliveries and two budgets lie on both sides of their limit, and so do the
  prices of Orchestration. Those of CrossChainProcurement are at the ceiling and above
  it. A price below leaves the AUTHORIZED row at an amount other than the one a
  retry claims: that branch is covered by the theorems, not by the run.
- The first two terms of Checkout can both be quoted and ordered on, so a redeployment
  between quote and order, and a quote anew on other terms, do occur.
- One fault in RunFollowing is a session that ends, a poll that is lost, or a wallet
  answer that is lost: each leads to its hazard alone. `FollowInv` is proved for
  any number.
- Symmetry is used in `PaymentFundingTwoRuns` and `Orchestration`, whose
  properties are all safety properties.
- Two order ids are what a creation and its repetition can draw; two hashes, of
  which one pays, are what a customer's mistake and correction take.

Deadlock is checked in `LeaseQueue`, both runs of `PaymentFunding`,
`BotChainOrder` and `RunFollowing`. Orchestration and CrossChainProcurement
stop when every job is acknowledged or dead, Checkout when its bounds are used up.

## 4. Fairness

Safety needs none. For liveness:

- *LeaseQueue*: time passes, so leases lapse (WF). A worker that lost its claim
  gets to the database and is told (WF). Polling and claiming are strongly
  fair (SF): a busy worker is not always able to poll, but the loop brings it
  back, and rows are claimed in `available_at` order, so each gets its turn.
  `EveryLeaseEnds` also needs SF of a holder's outcome: a reclaim costs no
  attempt, so a handler that is overtaken every time would be reclaimed for ever
  (listed as a hazard: the code has no bound that would exclude it).
- *PaymentFunding*: deadlines pass (WF), each worker process takes its next
  step and the supervisor restarts a dead one (WF on `WorkerStep`), a sweep once
  begun goes on (WF), each run's job has its turn (SF). Some worker sometimes
  finds nothing due, because a scheduled retry waits 5 to 30 seconds, and then
  sometimes sweeps, because the sweep interval passes (SF). No fairness is
  given to customer, merchant, chain, orchestrator or crash. Two assumptions
  are stated as formulas: `CustomersCalmDown` (`payment-tx` re-arms a dead job
  each time it is called) and `LeasesOutliveHandlers` (from some time on
  handlers end within their lease, which ADR 0018 requires of the
  configuration).
- *BotChainOrder*: a reconciler goes on (WF), a paying transaction is mined
  (WF), failures of dependencies end (a failed attempt is kept apart from one that
  gave up for a reason, which no fairness excludes). Nothing is assumed of the
  submitter, which may go on overwriting the row.
- *Orchestration*: an attempt goes on, if only to fail, since its calls time out
  (WF on `Progress \/ Fail`: success is never assumed), and reports (WF); leases
  lapse (WF); polling and sweeping as in LeaseQueue (SF). Nothing is assumed of
  the registry's owner, of the target or of the wallet's other users.
- *CrossChainProcurement*: the same, and the clock passes a bridge's deadline
  (WF). The bridge itself may never deliver.
- *RunFollowing*: timers fire and requests end (WF), and a customer whose
  session has expired connects when the page asks for it (WF). The form's page
  has no such button, which is why `DeliveredIsShown` excepts it.

## 5. Proofs

For every number of runs, workers, transfers, requests, attempts and faults.
Assumed are only the named assumptions on the constants.

| Module | Theorems | Argument |
|---|---|---|
| RunLifecycleProofs | `PaidRunsStayPaid` | `Paid` is closed under `Rules` |
| LeaseQueueProofs | `QueueInvariance`, `QueueTypeCorrect`, `OvertakenAreFenced`, `HoldersPassFence`, `NoRowIsStranded`, `LeasesAreRespected` | `QueueInv` |
| PaymentFundingProofs | `FundingInvariance`, `FundingTypeCorrect`, `FundingBacked`, `NoTransferFundsTwoRuns`, `OpenRunsStayWatched`, `FundingImplementsQueue`, `FundingImplementsLifecycle` | `FundingInv` |
| BotChainOrderProofs | `OrderInvariance`, `OrderTypeCorrect`, `ProofsMatchSubmissions` | `OrderInv` |
| OrchestrationProofs | `OrchestrationInvariance`, `OrchestrationTypeCorrect`, `PurchasesAreUnique`, `BudgetsAreConserved`, `VerdictsAreEarned`, `DeliveriesAreAttested`, `CompletionsAreDelivered`, `OrchestrationImplementsLifecycle`, `OrchestrationSettlesOnce`, `PipelineLeasesAreRespected`, `PipelineReportsAreFenced` | `OrchestrationInv` |
| CrossChainProofs | `CrossChainTypeCorrect`, `TransfersAreNotRepeated`, `AuthorizationsAreUnique`, `PaymentsAreFunded`, `CompletionsArePaid`, `CrossChainLeasesAreRespected`, `CrossChainReportsAreFenced` | `Inv` |
| | `CrossChainImplementsStates` | `Inv`, `StatesInv` |
| CheckoutProofs | `CheckoutInvariance`, `OneRunPerQuoteHolds`, `AskedAsQuotedHolds`, `AnsweredOrderIsStoredHolds`, `QuotedTargetWasRegisteredHolds` | `CheckoutInv` |
| RunFollowingProofs | `ProgressIsOfShownRunHolds`, `HeardTransferIsLastHolds` | `FollowInv` |

*The queue.* `OvertakenIsFenced` alone is not inductive: that an overtaken
worker fails the fence now does not say the row cannot return to the values it
remembers, for `rearm` resets the attempts and a wait lowers them. `QueueInv`
strengthens it to `OvertakenOwnsNothing`: the row is not locked in the
overtaken worker's name, whatever its attempts. A row is locked in a worker's
name only by that worker's `ClaimNext`, which it does not call while it holds a
claim, so this is preserved by every step; worker ids must differ for it
(`IdOfAssumption`), and the attempt count is then not needed for safety between
distinct workers. Its converse, that a holder nobody overtook owns the row with
exactly the attempt it remembers, is `HolderPassesFence`.
`LockedRowsSpentAnAttempt` makes the claim well formed that a reclaim takes over.
`LiveLeaseIsRespected` needs only the types, and is stated once for any step of
the queue (`QueueStepsRespectLeases`). The two pipelines use the queue with all
their rows inserted and without `Rearm`; that every step of theirs is a step of
the queue (`StepUsesQueue`) rests on their own invariants, since a retry is only a
step of the queue while an attempt is left. So their leases are respected and
their reports fenced too.

*Funding.* What has to be shown is that nobody acts on a run other than the one
it decided upon. `RevisionsTellQuoted` says that revisions 0 and 1 belong to
DRAFT and QUOTED, so a challenge request whose revision still matches faces a
quoted run (`RequestsSawQuotedRuns`), and a sweep or an expiry never one that was
not saved (`DecisionsSawSavedRuns`). `JobsFollowRuns`: a run has no job before it
awaits payment, so `Enqueue` does insert one. `VerdictsAreSound` is what a
worker carries across its awaits: about to settle, it holds the transfer that
the merchant reports for this order; about to complete a job, it has seen the
run leave PAYMENT_REQUIRED, to which no run returns (`OpenRunIsWatched` fails
without it); about to ask for a retry, it has attempts left. `FundingInv`
is these with `QueueInv`, `TypeOK` and the three properties proved. The
refinement of RunLifecycle follows from it, step by step. So does that of the
queue: each action of PaymentFunding is an action of LeaseQueue or leaves its
variables alone, so the queue's theorems hold of the payment worker.

*The BOT order.* What must be invariant is not only the row but every copy of it
in flight: each copy is *sound* (a proof in it is verified and equals the
submitted hash beside it). Since the row is only ever replaced by copies, and a
copy only ever extended by a proof of its own hash, the row stays sound, also
when creations overlap and the row's order is replaced (`RunKeepsItsOrder`).

*Orchestration.* None of the properties is inductive, because every process acts
on copies: the run and the checkpoint it read when its attempt began, whoever
has the job by now. `OrchestrationInv` says of each process what these copies
are still worth (`ProcessOK`), and of each run that its rows, the wallet, the token
and the registry fit together (`RunOK`). The first survives the steps of other
processes because rows only grow (`Grows`): a filled column of a checkpoint keeps
its value, packs, attestations and registry entries stay, revisions never
go down and an equal revision is the same run, and a delivered run does not change. So a
process need only know that what it did see is true: its status belongs to its
revision and place (`StatusFits`, `RevisionTells`), its filled columns are
those of the row (`CopyIsKept`), and its place implies the columns and rows of the
steps before it (`StepsTaken`, `RowsLeft`). A worker that was overtaken either
saves a run at its old revision, which is refused, or does again what the rows
already hold. `RunOK` has the money (`MoneyFits`: only the checkpointed
authorization is ever presented, and a refund is the rest of it, sent under a
checkpointed nonce that the wallet has used), the verdict (`VerdictFits`: a
PASS in the evidence and on the registry is earned) and the delivery
(`DeliveryFits`). The actions of the pipeline, the finalizer and the script are taken
one by one, each reduced first to where it moves its process and to the one
row it patches.

`ImplementsLifecycle` follows because a save succeeds only at the current
revision, where `StatusFits` tells the status, so the move is the table's. For
`SettlesOnce` the abstract ledger of a run (`Ledger`) is its checkpointed payment,
its settlements, its refund and its registry entry: a patch without a payment, or
for a row that has one, is a stutter (`MergeStays`); `Acquire`, a collection, `SendRefund`
and `Submit` are the four moves of RunSettlement, and that each happens once is
what `MoneyFits` and the copies of the process at that place give. Two
assumptions on the constants are used: workers and scripts are different
processes (`ActorAssumption`) and the absent job is no run (`RunAssumption`).

*Checkout.* `OneRunPerQuote` needs the idempotency key to be followed wherever it
is: a quote and a key *ask* for each other when the page, a request in flight or
a run has the pair. `PairsInv` says that such pairs match one to one, that runs
have distinct keys, and that a quote that was just answered is asked for by nobody yet;
the insert of a run, guarded by the key's uniqueness, then finds no second run of
the quote. For the rest, `CheckoutInv` says that every order belongs to the run it
was made for and was made on its quote's terms (`RunsOrders`, `OrdersTerms`), that
each request works on an existing run and an order of that run, also after it lost
the insert to another (`CallsInv`), and that the service's row is always a whole
registration, so what one statement of a quote takes from it is too.

*Following.* A poll whose effect was not cleaned up polls the run of the page, and
there is one such poll; it answers in order. A status that is paid, on the page
or in the hands of a poll, is that of a paid run and so stays paid
(`SeenPaidIsPaid`, by the table's closure), so the pay panel, once a payment has
removed it, never comes back. While it is mounted it remembers a transfer whose hash
it was given, and none but that panel's own payment was under way (`TransferIsRemembered`):
a lost answer leaves `heard` as it was, and so does an orphaned payment until it
ends, after which there is no panel to start another. `HeardTransferIsLast` follows: where
the wallet may answer, nothing has been heard.

*The cross-chain purchase.* `Inv` has a part for each promise, over `Typed` and
`QueueInv`. `BridgeInv`: whoever is between claim and broadcast is alone there,
and its run has sent nothing, so the claim can be given back without a second
transfer; after the broadcast no place on the path gives it back. `PurchaseInv`:
one process at a time holds a purchase claim, a row is AUTHORIZED exactly when it
holds a payment, and every copy of a payment (a checkpoint's, a process's) is the
row's. That is what survives a worker that was overtaken: its `Abandoned` removes
a row that is still CLAIMED, which then is its own claim. `FundingInv`: whoever
knows of a delivery, or stands behind the place where one is required, has one
that covers the ceiling, and deliveries do not change once made. `PaidInv`: an
acknowledgement is only reached past a settlement, and a retry is only asked for
while an attempt is left, which `MarkRetry` relies on. Steps of an attempt are
first reduced to where they move the process (`Moving`, `Steps`), so that each
part of the invariant looks only at the places that can disturb it.

*Its refinement of CrossChainStates.* `ProcurementOf` reads the abstract position
of a run off its rows, so the proof is about how each write of a row moves that
position (`Advances`) or leaves it (`Stands`). `Inv` is not enough: an attempt saves
what it learned some steps earlier, and the order of the columns must still come out
as the state machine's. `StatesInv` adds that whoever waits for a delivery has a
SUBMITTED claim and whoever is past it has it on record (`ReceiptOf`), that the
columns of a checkpoint fit the other rows (`RecordsFit`): a transfer on record has
a SUBMITTED claim, a payment of a bridged run comes with its funding, a claimed
payment names its run; and that what has settled of a run is its checkpointed
payment. It is inductive over `Inv` because records only
grow (`Gains`). A run's own process then makes one of the moves send, receive, pay or
settle, or none; other processes and the environment stand still for it
(`OthersStand`, `RestSteps`).

Only model-checked: liveness and everything under fairness (`EveryLeaseEnds`,
`EveryRunSettles`, `SettledRunsLeaveQueue`, `SubmittedPaymentIsFunded`,
`EveryJobEnds` of both pipelines, `DeliveredIsShown`), which is out of the
prover's reach. Every invariant, action property and refinement that a passing
run checks is also a theorem.

## 6. Divergences found

Each of these is a run whose one property states what the repository says of itself.

- **`SpendOnceIsNotRepeated`** (`worker.ts:114`, `pipeline.ts:72`): a re-claimed
  job is said to pick up from its artifacts "instead of repeating spend-once
  side effects". Presenting the authorization and checkpointing its evidence are two
  steps; an attempt that resumes between them presents a settled authorization
  as if for the first time, and a protected target's 409 is then recorded as a FAIL.
- **`LostExpiryIsANoOp`** (`payment-reconciliation-store.ts:170`,
  `payment-reconciler.ts:198` and `:211`): an expiry that comes too late is said
  to affect no rows, be safe, be skipped. It throws: out of the handler's catch
  block it ends the worker process, out of a sweep it drops the other candidates.
- **`RunKeepsItsOrder`** (`merchant-adapter.ts:214` against
  `bot-chain-order-context-store.ts:99`): the in-memory store refuses a second
  order of one run, the PostgreSQL store replaces its snapshot but not its
  `order_id`. After two concurrent challenges the order cannot be found by its id.

Others were met while modelling. They are modelled as the code has them, and the
properties are stated so that they hold of it:

- *Expiry.* `commitExpiredRun` guards revision and status. An order created, or
  a payment made, after the sweep's query changes neither, so such a run is
  expired, although `payment-reconciliation-store.ts:137` lets the order's
  deadline win and `expire-stale-orders.ts:9` the payment.
- *Registry.* `pipeline.ts:256` says the finalizer continues rather than
  duplicates. A worker that dies between `recordRun` and the checkpoint leaves a
  run the registry refuses from then on: it stays at ATTESTING, its job is
  dead-lettered. `EveryJobEnds` says only that the job ends.
- *Unanswered probes.* A scenario whose first request got no answer is
  checkpointed and cannot be receipted, so every retry fails the same way and the
  run ends inconclusive on its last attempt.
- *Verdicts.* A settlement that is unavailable for a moment gives a protected
  target a FAIL; an authorization that expires between delivery and replay gives
  a vulnerable one a PASS, which is why `VerdictIsEarned` names `expired`.
- *Cross-chain claims.* A bridge claim is compared by a quote id that contains
  the quote's expiry, so a retry nearly always conflicts with its own claim. A
  claim for an authorization is compared by the ceiling, which
  `markAuthorized` has replaced by the price. A worker that dies holding either
  leaves the row CLAIMED for good. All of these end in a dead letter, never in a
  second transfer. The payment leg is CONFIRMED when the payment is authorized,
  before it is settled.
- *A lost wallet answer.* `eth_sendTransaction` may reject although the transaction
  was broadcast. The catch at `wallet-pay-panel.tsx:119` offers the button again and
  remembers nothing, so a second transfer can follow in the same visit. Hence
  `HeardTransferIsLast` speaks of transfers whose hash the wallet gave, and nothing
  says that a visit pays once.
- *Overlapping challenges* leave an order that neither `payment-tx` nor the
  reconciler can read (`RunKeepsItsOrder`), so `SubmittedPaymentIsFunded` supposes
  that it stays readable.
- *Delivered status and registry.* `pipeline.ts:246` says that a finalized run is
  DELIVERED_INCONCLUSIVE with "an on-chain attestation carrying the INCONCLUSIVE
  result". The finalizer forces its own result but keeps an attestation that is
  checkpointed, so it delivers INCONCLUSIVE beside a PASS on the registry. The other way
  round, an attempt that loads its checkpoint after another one's attestation was
  recorded delivers its own evidence's verdict: two workers that probed
  differently, or a worker beside a finalizer, end in DELIVERED_PASS beside a
  registry entry of FAIL or INCONCLUSIVE. Procurement executes the row the
  checkpoint kept, execution (`execution-phase.ts:62`) its own results. A TLC run of
  `run[r].status = "DELIVERED_PASS" => registry[r] = "PASS"` on the
  `Orchestration` instance finds it violated. `DeliveredIsAttested` and
  `SettlesOnce` therefore relate the delivery to the presence, and the verdict to the
  permanence, of the registry entry.
- *The pay panel.* `stepIndexForStatus` (`use-run-progress.ts:31`) gives an
  EXPIRED or CANCELLED run the step of an unpaid one and the API goes on sending
  its challenge, so the page announces a terminal state and still offers to pay;
  `docs/state-machine.md:26` forbids spending in it. `ensureChain` promises
  (`goat-wallet.ts:132`) never to open a transaction on faith, but the balance is
  read in between, and choosing another service meanwhile switches the wallet.
- *Checkout.* A `payment-challenge` that loses to a concurrent one answers that
  the payment is recorded while the run is still QUOTED. Onboarding an older
  OpenAPI document again keeps that release's old age, so the directory goes on
  listing the newer one.

## 7. What is not modelled

- *Time as a number.* Deadlines, leases, validity windows and session lifetimes
  pass, in any order the code does not exclude. The sweep's `LIMIT 100` is left
  out: a sweep takes every candidate.
- *Cryptography, encoding, HTTP, RPC.* `verifySettlement` is the set `Genuine`,
  the chain reader the set `indexed`; of evidence-sdk only that an unanswered
  request has no receipt. Signing, hashing and the exact-EVM payload have no state.
- *Money and the economic ledger* of run-domain: exported and tested, called by
  no application.
- *The dashboard* beyond the release-run form's way to an order, the polling and
  the payment: the wallet's chain, the report of the payment's hash (a request
  of BotChainOrder), run history and its paging, onboarding's form, several
  backends at once, and everything that only draws. What is left holds
  no state another component reads.
- *Run history, rate limits, the content of session tokens, read-only routes* of
  the API. Cancellation is in the transition table and has no route.
- *Runtime configuration*: parsed once at start; what it lets an operator choose
  are the constants of the modules.
- *Risk classification* by a language model or by rules: any member of
  `Proposal`. *Refunds disabled*: the refund's steps are then skipped.
- *`ShipyardTestToken.sol`* beyond "an authorization is consumed once", the
  registry's roles, network configuration tables, and scripts other than the
  supervisor.
- *The pipeline around the cross-chain phase*: Orchestration and
  CrossChainProcurement are not composed into one state space. A run takes one
  way or the other: the second stands for `Acquire` to `SaveEvidence` of the first,
  and sets the payment columns of the checkpoint in its place.

## 8. Plan

Done: the life of a run from the listed service to the attestation on the
customer's page, on either chain, with the proofs above.

Next, in this order:

1. **Composing BotChainOrder with PaymentFunding**: whether a paid BOT order can
   be lost to a proof erased just before its deadline, and to a `rearm` that
   finds the job still PROCESSING.
2. **Checkout with two pages**: two tabs that pay one order, and a wallet whose
   chain or account changes in between.
