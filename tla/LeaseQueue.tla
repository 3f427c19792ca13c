----------------------------- MODULE LeaseQueue -----------------------------
(***************************************************************************)
(* The leased job queues of packages/persistence-postgres: one row per run *)
(* in payment_reconciliation_jobs and, with the same SQL, in               *)
(* orchestrator_jobs.  Workers poll, claim a row under a lease, work on it *)
(* without renewing the lease, and write the outcome back under a fence    *)
(* (status, locked_by, attempts).  A worker may crash at any point, and a  *)
(* lease may lapse while its worker is still busy.                         *)
(*                                                                         *)
(* Abstractions.  locked_at <= now() - lease becomes the flag "stale",     *)
(* raised by LeaseLapses at any moment after a claim.  available_at is not *)
(* kept: a RETRY_SCHEDULED row may or may not be due, so a poll may claim  *)
(* it and may also find nothing.  error codes and timestamps are left out. *)
(***************************************************************************)
EXTENDS Naturals

CONSTANTS
    Job,          \* runs that may own a row of the table
    Worker,       \* worker processes
    WorkerId,     \* values of locked_by (PAYMENT_WORKER_ID, ORCHESTRATOR_WORKER_ID)
    IdOf,         \* the id each worker process is configured with
    NoOwner,      \* locked_by IS NULL
    MaxAttempts   \* maximum_attempts of a row (24 for payments, 8 for orchestration)

\* The fence tells processes apart by their configured id only.
ASSUME IdOfAssumption ==
    /\ IdOf \in [Worker -> WorkerId]
    /\ \A v, w \in Worker : IdOf[v] = IdOf[w] => v = w
ASSUME NoOwnerAssumption == NoOwner \notin WorkerId
ASSUME MaxAttemptsAssumption == MaxAttempts \in Nat \ {0}

VARIABLES
    job,       \* the table: one row per run, status "ABSENT" before it is inserted
    held,      \* what each worker process believes it has claimed
    overtaken  \* history: workers whose claim was taken from them meanwhile

queueVars == <<job, held, overtaken>>

JobStatus == {"PENDING", "PROCESSING", "RETRY_SCHEDULED", "COMPLETED", "DEAD_LETTER"}

JobRow == [status   : JobStatus \cup {"ABSENT"},
           attempts : 0..MaxAttempts,
           owner    : WorkerId \cup {NoOwner},
           stale    : BOOLEAN]

Claim == [job : Job, attempt : 1..MaxAttempts]
NoClaim == [job |-> "NONE", attempt |-> 0]

Holding(w) == held[w] # NoClaim

\* A row that nobody holds, with the given status and attempt count.
Released(status, attempts) ==
    [status |-> status, attempts |-> attempts, owner |-> NoOwner, stale |-> FALSE]

AbsentRow == Released("ABSENT", 0)
PendingRow == Released("PENDING", 0)

QueueInit ==
    /\ job = [j \in Job |-> AbsentRow]
    /\ held = [w \in Worker |-> NoClaim]
    /\ overtaken = {}

-----------------------------------------------------------------------------
(* Enqueueing and re-arming, inside transactions of the API and the store. *)

\* INSERT ... ON CONFLICT (run_id) DO NOTHING
Inserted(j) == IF job[j].status = "ABSENT" THEN [job EXCEPT ![j] = PendingRow] ELSE job

Enqueue(j) ==
    /\ job' = Inserted(j)
    /\ UNCHANGED <<held, overtaken>>

\* Mutant of Rearm: the attempts already spent are kept.
RearmKeepingAttempts(j) ==
    /\ job' = IF job[j].status = "DEAD_LETTER" THEN [job EXCEPT ![j].status = "PENDING"] ELSE job
    /\ UNCHANGED <<held, overtaken>>

\* Mutant of Rearm: whatever the status of the row, its reconciliation starts over.
RearmAnyStatus(j) ==
    /\ job' = IF job[j].status # "ABSENT" THEN [job EXCEPT ![j] = PendingRow] ELSE job
    /\ UNCHANGED <<held, overtaken>>

\* rearm: a dead letter is reopened with a fresh budget, any other row is left alone.
Rearm(j) ==
    /\ job' = IF job[j].status = "DEAD_LETTER" THEN [job EXCEPT ![j] = PendingRow] ELSE job
    /\ UNCHANGED <<held, overtaken>>

-----------------------------------------------------------------------------
(* claimNext: two statements, each atomic, with other workers in between.  *)

\* Mutant of Exhausted: off by one.
ExhaustedOffByOne(row) == row.status = "PROCESSING" /\ row.stale /\ row.attempts > MaxAttempts

Exhausted(row) == row.status = "PROCESSING" /\ row.stale /\ row.attempts >= MaxAttempts

Fresh(row) == row.status \in {"PENDING", "RETRY_SCHEDULED"} /\ row.attempts < MaxAttempts
\* Mutant of Reclaimable: the lease is not looked at.
ReclaimableUnexpired(row) == row.status = "PROCESSING" /\ row.attempts < MaxAttempts

Reclaimable(row) == row.status = "PROCESSING" /\ row.stale /\ row.attempts < MaxAttempts

\* Workers other than w that believe they hold one of these jobs.
HoldersOf(jobs, w) == {v \in Worker \ {w} : Holding(v) /\ held[v].job \in jobs}

\* First statement: rows whose last attempt was abandoned become dead letters.
DeadLetterExhausted(w) ==
    LET swept == {j \in Job : Exhausted(job[j])} IN
    /\ ~Holding(w)
    /\ job' = [j \in Job |-> IF j \in swept
                             THEN Released("DEAD_LETTER", job[j].attempts)
                             ELSE job[j]]
    /\ overtaken' = overtaken \cup HoldersOf(swept, w)
    /\ UNCHANGED held

\* Second statement: take one due row, or one whose lease lapsed; only the
\* former costs an attempt.
ClaimNext(w, j) ==
    LET attempt == job[j].attempts + (IF job[j].status = "PROCESSING" THEN 0 ELSE 1) IN
    /\ ~Holding(w)
    /\ Fresh(job[j]) \/ Reclaimable(job[j])
    /\ job' = [job EXCEPT ![j] = [status   |-> "PROCESSING",
                                  attempts |-> attempt,
                                  owner    |-> IdOf[w],
                                  stale    |-> FALSE]]
    /\ held' = [held EXCEPT ![w] = [job |-> j, attempt |-> attempt]]
    /\ overtaken' = overtaken \cup HoldersOf({j}, w)

\* The second statement matches no row.  A RETRY_SCHEDULED row may not be due.
NothingDue ==
    \A j \in Job : /\ ~(job[j].status = "PENDING" /\ Fresh(job[j]))
                   /\ ~Reclaimable(job[j])

LeaseLapses(j) ==
    /\ job[j].status = "PROCESSING"
    /\ ~job[j].stale
    /\ job' = [job EXCEPT ![j].stale = TRUE]
    /\ UNCHANGED <<held, overtaken>>

-----------------------------------------------------------------------------
(* #finishLease: every outcome is written under the same fence.            *)

\* Mutant of Fence: locked_by is not compared.
FenceWithoutOwner(w) ==
    /\ Holding(w)
    /\ job[held[w].job].status = "PROCESSING"
    /\ job[held[w].job].attempts = held[w].attempt

Fence(w) ==
    /\ Holding(w)
    /\ job[held[w].job].status = "PROCESSING"
    /\ job[held[w].job].owner = IdOf[w]
    /\ job[held[w].job].attempts = held[w].attempt

LetGo(w) ==
    /\ held' = [held EXCEPT ![w] = NoClaim]
    /\ overtaken' = overtaken \ {w}

\* Mutant of Finish: locked_by and locked_at are not cleared.
FinishStillLocked(w, status, attempts) ==
    /\ Fence(w)
    /\ job' = [job EXCEPT ![held[w].job].status = status]
    /\ LetGo(w)

Finish(w, status, attempts) ==
    /\ Fence(w)
    /\ job' = [job EXCEPT ![held[w].job] = Released(status, attempts)]
    /\ LetGo(w)

MarkCompleted(w) == Finish(w, "COMPLETED", held[w].attempt)
MarkRetry(w) == Finish(w, "RETRY_SCHEDULED", held[w].attempt)
MarkWaiting(w) == Finish(w, "RETRY_SCHEDULED", held[w].attempt - 1)
MarkDeadLetter(w) == Finish(w, "DEAD_LETTER", held[w].attempt)

\* rowCount # 1: "lease ownership conflict" is thrown and no row changes.
FinishRejected(w) ==
    /\ Holding(w)
    /\ ~Fence(w)
    /\ LetGo(w)
    /\ UNCHANGED job

\* The process dies with the claim in memory; the row keeps its lock.
Abandon(w) ==
    /\ Holding(w)
    /\ LetGo(w)
    /\ UNCHANGED job

-----------------------------------------------------------------------------
(***************************************************************************)
(* The queue on its own.  What a worker does between claim and outcome is  *)
(* arbitrary, except that the handlers never ask for a retry on the last   *)
(* attempt (they dead-letter instead).                                     *)
(***************************************************************************)
Outcome(w) ==
    \/ MarkCompleted(w)
    \/ held[w].attempt < MaxAttempts /\ MarkRetry(w)
    \/ MarkWaiting(w)
    \/ MarkDeadLetter(w)

QueueNext ==
    \/ \E j \in Job : Enqueue(j) \/ Rearm(j) \/ LeaseLapses(j)
    \/ \E w \in Worker, j \in Job : ClaimNext(w, j)
    \/ \E w \in Worker : \/ DeadLetterExhausted(w)
                         \/ Outcome(w)
                         \/ FinishRejected(w)
                         \/ Abandon(w)

QueueSpec == QueueInit /\ [][QueueNext]_queueVars

(***************************************************************************)
(* Fairness: time passes, so a lease lapses; a worker that holds a claim   *)
(* gets back to the database; some worker keeps polling, each poll sweeps  *)
(* first and, rows being claimed in available_at order, every row gets its *)
(* turn; and a job's holder is not overtaken or killed on every attempt.   *)
(***************************************************************************)
QueueFairness ==
    /\ \A j \in Job :
        /\ WF_queueVars(LeaseLapses(j))
        /\ SF_queueVars(\E w \in Worker : ClaimNext(w, j))
        /\ SF_queueVars(\E w \in Worker : held[w].job = j /\ Outcome(w))
    /\ \A w \in Worker : WF_queueVars(FinishRejected(w))
    /\ SF_queueVars(\E w \in Worker : DeadLetterExhausted(w))

QueueFairSpec == QueueSpec /\ QueueFairness

-----------------------------------------------------------------------------
(* Properties. *)

\* Rows satisfy the CHECK constraints of the table (attempts within the
\* budget, locked exactly while PROCESSING) and every claim a worker holds is
\* one that validateJob and #finishLease accept.
QueueTypeOK ==
    /\ job \in [Job -> JobRow]
    /\ held \in [Worker -> Claim \cup {NoClaim}]
    /\ overtaken \in SUBSET Worker
    /\ \A j \in Job : (job[j].status = "PROCESSING") <=> (job[j].owner # NoOwner)

\* A worker whose claim was swept or reclaimed can no longer write an outcome,
\* whatever its job went through since: status, locked_by and attempts of the
\* row never come back to the values the worker remembers.
OvertakenIsFenced == \A w \in overtaken : Holding(w) /\ ~Fence(w)

\* A worker that was not overtaken can always write its outcome: the fence
\* never turns away the rightful holder.
HolderPassesFence == \A w \in Worker : Holding(w) /\ w \notin overtaken => Fence(w)

\* A row that waits to be claimed is claimable: none is left behind with its
\* attempts used up, where neither the poll nor the sweep would find it.
WaitingRowsAreClaimable ==
    \A j \in Job : job[j].status \in {"PENDING", "RETRY_SCHEDULED"} => Fresh(job[j])

\* A live lease is never stolen: a row changes hands, or is swept, only after
\* its lease lapsed.
LiveLeaseIsRespected ==
    [][\A j \in Job : /\ job[j].status = "PROCESSING"
                      /\ job'[j] # job[j]
                      /\ ~job[j].stale
                      => \/ job'[j] = [job[j] EXCEPT !.stale = TRUE]
                         \/ \E w \in Worker : Fence(w) /\ held[w].job = j /\ held'[w] = NoClaim
      ]_queueVars

\* No row stays PROCESSING forever, even when the worker crashed on the last
\* attempt ("never retried, never dead-lettered, invisible to anyone").
EveryLeaseEnds == \A j \in Job : job[j].status = "PROCESSING" ~> job[j].status # "PROCESSING"

=============================================================================
