-------------------------- MODULE LeaseQueueProofs --------------------------
(***************************************************************************)
(* The safety of the leased queue, for any number of workers and jobs and  *)
(* any attempt budget.  The invariants of LeaseQueue are not inductive by  *)
(* themselves: that an overtaken worker stays fenced off rests on its own  *)
(* id never being written into a row again while it holds a claim, and     *)
(* that a reclaimed claim is well formed on a locked row having spent at   *)
(* least one attempt.                                                      *)
(***************************************************************************)
EXTENDS LeaseQueue, TLAPS

\* Why an overtaken worker is fenced off: its row is not locked in its name.
OvertakenOwnsNothing ==
    \A w \in overtaken :
        /\ Holding(w)
        /\ ~(job[held[w].job].status = "PROCESSING" /\ job[held[w].job].owner = IdOf[w])

LockedRowsSpentAnAttempt == \A j \in Job : job[j].status = "PROCESSING" => job[j].attempts >= 1

QueueInv ==
    /\ QueueTypeOK
    /\ OvertakenOwnsNothing
    /\ HolderPassesFence
    /\ WaitingRowsAreClaimable
    /\ LockedRowsSpentAnAttempt

-----------------------------------------------------------------------------
(* What a row and a claim look like. *)

LEMMA HolderHasClaim ==
    ASSUME QueueTypeOK, NEW w \in Worker, Holding(w)
    PROVE  held[w] \in Claim
BY DEF QueueTypeOK, Holding

LEMMA ClaimFields ==
    ASSUME NEW c \in Claim
    PROVE  /\ c.job \in Job /\ c.attempt \in 1..MaxAttempts
           /\ c.attempt \in Nat /\ c.attempt - 1 \in 0..MaxAttempts
           /\ c # NoClaim
BY MaxAttemptsAssumption DEF Claim, NoClaim

LEMMA RowFields ==
    ASSUME QueueTypeOK, NEW j \in Job
    PROVE  /\ job[j] = [status |-> job[j].status, attempts |-> job[j].attempts,
                        owner |-> job[j].owner, stale |-> job[j].stale]
           /\ job[j].status \in JobStatus \cup {"ABSENT"}
           /\ job[j].attempts \in 0..MaxAttempts
           /\ job[j].attempts \in Nat
           /\ job[j].owner \in WorkerId \cup {NoOwner}
           /\ job[j].stale \in BOOLEAN
BY MaxAttemptsAssumption DEF QueueTypeOK, JobRow

\* Giving up a lease with a status other than PROCESSING leaves a legal, unlocked row.
LEMMA ReleasedRow ==
    ASSUME NEW status \in (JobStatus \cup {"ABSENT"}) \ {"PROCESSING"}, NEW attempts \in 0..MaxAttempts
    PROVE  /\ Released(status, attempts) \in JobRow
           /\ Released(status, attempts).status = status
           /\ Released(status, attempts).attempts = attempts
           /\ Released(status, attempts).owner = NoOwner
BY DEF Released, JobRow, JobStatus

\* Giving up a claim clears it, and nobody else's.
LEMMA LetGoClears ==
    ASSUME QueueTypeOK, NEW w \in Worker, LetGo(w)
    PROVE  /\ held' \in [Worker -> Claim \cup {NoClaim}]
           /\ overtaken' = overtaken \ {w}
           /\ held'[w] = NoClaim
           /\ \A v \in Worker \ {w} : held'[v] = held[v]
BY DEF QueueTypeOK, LetGo

LEMMA QueueInitInv == QueueInit => QueueInv
<1> SUFFICES ASSUME QueueInit PROVE QueueInv
  OBVIOUS
<1>1. AbsentRow \in JobRow /\ AbsentRow.status = "ABSENT" /\ AbsentRow.owner = NoOwner
  BY MaxAttemptsAssumption, ReleasedRow DEF AbsentRow, JobStatus
<1> QED
  BY <1>1 DEF QueueInit, QueueInv, QueueTypeOK, OvertakenOwnsNothing, HolderPassesFence,
              WaitingRowsAreClaimable, LockedRowsSpentAnAttempt, Holding

-----------------------------------------------------------------------------
(* Every step keeps QueueInv. *)

\* A row nobody holds may be replaced by a fresh one.
LEMMA FreshRowInv ==
    ASSUME QueueInv, NEW j \in Job, job[j].status # "PROCESSING",
           job' = [job EXCEPT ![j] = PendingRow], UNCHANGED <<held, overtaken>>
    PROVE  QueueInv'
<1> USE DEF QueueInv
<1>1. /\ PendingRow \in JobRow /\ PendingRow.status = "PENDING"
      /\ PendingRow.attempts = 0 /\ PendingRow.owner = NoOwner
  BY ReleasedRow, MaxAttemptsAssumption DEF PendingRow, JobStatus
<1>2. /\ \A k \in Job \ {j} : job'[k] = job[k]
      /\ job'[j] = PendingRow /\ job' \in [Job -> JobRow]
  BY <1>1 DEF QueueTypeOK
<1>3. QueueTypeOK'
  BY <1>1, <1>2 DEF QueueTypeOK
<1>4. \A w \in Worker : Holding(w) => held[w].job \in Job
  BY HolderHasClaim, ClaimFields
<1>5. \A w \in overtaken : w \in Worker
  BY DEF QueueTypeOK
<1>6. OvertakenOwnsNothing'
  BY <1>1, <1>2, <1>4, <1>5 DEF OvertakenOwnsNothing, Holding
<1>7. HolderPassesFence'
  BY <1>1, <1>2, <1>4 DEF HolderPassesFence, Holding, Fence
<1>8. WaitingRowsAreClaimable'
  BY <1>1, <1>2, MaxAttemptsAssumption DEF WaitingRowsAreClaimable, Fresh
<1>9. LockedRowsSpentAnAttempt'
  BY <1>1, <1>2 DEF LockedRowsSpentAnAttempt
<1> QED
  BY <1>3, <1>6, <1>7, <1>8, <1>9

\* Nothing the invariant speaks of changes.
LEMMA StutterInv ==
    ASSUME QueueInv, UNCHANGED queueVars
    PROVE  QueueInv'
BY DEF QueueInv, queueVars, QueueTypeOK, OvertakenOwnsNothing, HolderPassesFence, Holding, Fence,
       WaitingRowsAreClaimable, Fresh, LockedRowsSpentAnAttempt

LEMMA EnqueueInv == ASSUME QueueInv, NEW j \in Job, Enqueue(j) PROVE QueueInv'
<1>1. CASE job[j].status = "ABSENT"
  BY <1>1, FreshRowInv DEF Enqueue, Inserted
<1>2. CASE job[j].status # "ABSENT"
  BY <1>2, StutterInv DEF Enqueue, Inserted, queueVars
<1> QED
  BY <1>1, <1>2

LEMMA RearmInv == ASSUME QueueInv, NEW j \in Job, Rearm(j) PROVE QueueInv'
<1>1. CASE job[j].status = "DEAD_LETTER"
  BY <1>1, FreshRowInv DEF Rearm
<1>2. CASE job[j].status # "DEAD_LETTER"
  BY <1>2, StutterInv DEF Rearm, queueVars
<1> QED
  BY <1>1, <1>2

LEMMA LeaseLapsesInv == ASSUME QueueInv, NEW j \in Job, LeaseLapses(j) PROVE QueueInv'
<1> USE DEF QueueInv
<1>1. /\ \A k \in Job \ {j} : job'[k] = job[k]
      /\ job'[j] \in JobRow
      /\ job'[j].status = job[j].status /\ job'[j].attempts = job[j].attempts
      /\ job'[j].owner = job[j].owner
      /\ job' \in [Job -> JobRow]
  BY RowFields DEF LeaseLapses, QueueTypeOK, JobRow
<1>2. \A k \in Job : /\ job'[k].status = job[k].status /\ job'[k].attempts = job[k].attempts
                     /\ job'[k].owner = job[k].owner
  BY <1>1
<1>3. UNCHANGED <<held, overtaken>>
  BY DEF LeaseLapses
<1>4. QueueTypeOK'
  BY <1>1, <1>2, <1>3 DEF QueueTypeOK
<1>5. \A w \in Worker : Holding(w) => held[w].job \in Job
  BY HolderHasClaim, ClaimFields
<1>6. OvertakenOwnsNothing'
  BY <1>2, <1>3, <1>5 DEF OvertakenOwnsNothing, Holding, QueueTypeOK
<1>7. HolderPassesFence'
  BY <1>2, <1>3, <1>5 DEF HolderPassesFence, Holding, Fence
<1>8. WaitingRowsAreClaimable' /\ LockedRowsSpentAnAttempt'
  BY <1>2 DEF WaitingRowsAreClaimable, Fresh, LockedRowsSpentAnAttempt
<1> QED
  BY <1>4, <1>6, <1>7, <1>8

\* The sweep takes rows from their holders, who are then overtaken.
LEMMA DeadLetterExhaustedInv ==
    ASSUME QueueInv, NEW w \in Worker, DeadLetterExhausted(w) PROVE QueueInv'
<1> USE DEF QueueInv
<1> DEFINE swept == {j \in Job : Exhausted(job[j])}
<1>1. /\ ~Holding(w) /\ held' = held
      /\ job' = [j \in Job |-> IF j \in swept THEN Released("DEAD_LETTER", job[j].attempts)
                                              ELSE job[j]]
      /\ overtaken' = overtaken \cup HoldersOf(swept, w)
  BY DEF DeadLetterExhausted
<1>2. \A j \in Job \ swept : job'[j] = job[j]
  BY <1>1
<1>3. \A j \in swept : /\ job'[j] \in JobRow /\ job'[j].status = "DEAD_LETTER"
                       /\ job'[j].owner = NoOwner
  <2> SUFFICES ASSUME NEW j \in swept
               PROVE  /\ job'[j] \in JobRow /\ job'[j].status = "DEAD_LETTER"
                      /\ job'[j].owner = NoOwner
    OBVIOUS
  <2>1. j \in Job /\ job'[j] = Released("DEAD_LETTER", job[j].attempts)
    BY <1>1
  <2>2. job[j].attempts \in 0..MaxAttempts
    BY <2>1, RowFields
  <2> QED
    BY <2>1, <2>2, ReleasedRow DEF JobStatus
<1>4. QueueTypeOK'
  <2>1. job' \in [Job -> JobRow]
    BY <1>1, <1>2, <1>3 DEF QueueTypeOK
  <2>2. overtaken' \in SUBSET Worker
    BY <1>1 DEF QueueTypeOK, HoldersOf
  <2> QED
    BY <1>1, <1>2, <1>3, <2>1, <2>2 DEF QueueTypeOK
<1>5. \A v \in Worker : Holding(v) => held[v].job \in Job
  BY HolderHasClaim, ClaimFields
<1>6. OvertakenOwnsNothing'
  BY <1>1, <1>2, <1>3, <1>5 DEF OvertakenOwnsNothing, Holding, HoldersOf, QueueTypeOK
<1>7. HolderPassesFence'
  <2> SUFFICES ASSUME NEW v \in Worker, Holding(v), v \notin overtaken'
               PROVE  Fence(v)'
    BY <1>1 DEF HolderPassesFence, Holding
  <2>1. v # w /\ v \notin overtaken /\ held[v].job \notin swept
    BY <1>1 DEF HoldersOf
  <2>2. job'[held[v].job] = job[held[v].job]
    BY <1>2, <1>5, <2>1
  <2> QED
    BY <1>1, <2>1, <2>2 DEF HolderPassesFence, Fence, Holding
<1>8. WaitingRowsAreClaimable' /\ LockedRowsSpentAnAttempt'
  BY <1>2, <1>3 DEF WaitingRowsAreClaimable, Fresh, LockedRowsSpentAnAttempt
<1> QED
  BY <1>4, <1>6, <1>7, <1>8

\* A successful claim: a locked row that spent an attempt, and a claim on it.
LEMMA ClaimedRow ==
    ASSUME QueueInv, NEW w \in Worker, NEW j \in Job, ClaimNext(w, j)
    PROVE  /\ ~Holding(w)
           /\ job'[j] \in JobRow /\ job'[j].status = "PROCESSING" /\ job'[j].owner = IdOf[w]
           /\ held'[w] \in Claim /\ held'[w] # NoClaim /\ held'[w].job = j
           /\ job'[j].attempts = held'[w].attempt /\ held'[w].attempt \in 1..MaxAttempts
           /\ job' \in [Job -> JobRow] /\ held' \in [Worker -> Claim \cup {NoClaim}]
           /\ \A k \in Job \ {j} : job'[k] = job[k]
           /\ \A v \in Worker \ {w} : held'[v] = held[v]
<1> USE DEF QueueInv
<1> DEFINE attempt == job[j].attempts + (IF job[j].status = "PROCESSING" THEN 0 ELSE 1)
           row == [status |-> "PROCESSING", attempts |-> attempt, owner |-> IdOf[w], stale |-> FALSE]
           claim == [job |-> j, attempt |-> attempt]
<1>1. /\ ~Holding(w)
      /\ Fresh(job[j]) \/ Reclaimable(job[j])
      /\ job' = [job EXCEPT ![j] = row] /\ held' = [held EXCEPT ![w] = claim]
  BY DEF ClaimNext
<1>2. attempt \in 1..MaxAttempts
  <2>1. job[j].attempts \in Nat /\ job[j].attempts < MaxAttempts /\ MaxAttempts \in Nat
    BY <1>1, RowFields, MaxAttemptsAssumption DEF Fresh, Reclaimable
  <2>2. CASE job[j].status = "PROCESSING"
    BY <2>1, <2>2 DEF LockedRowsSpentAnAttempt
  <2>3. CASE job[j].status # "PROCESSING"
    BY <2>1, <2>3
  <2> QED
    BY <2>2, <2>3
<1>3. /\ row \in JobRow /\ row.status = "PROCESSING" /\ row.owner = IdOf[w] /\ row.attempts = attempt
  BY <1>2, IdOfAssumption, MaxAttemptsAssumption DEF JobRow, JobStatus
<1>4. claim \in Claim /\ claim # NoClaim /\ claim.job = j /\ claim.attempt = attempt
  BY <1>2, MaxAttemptsAssumption DEF Claim, NoClaim
<1> HIDE DEF attempt, row, claim
<1> QED
  BY <1>1, <1>2, <1>3, <1>4 DEF QueueTypeOK

\* A claim overtakes whoever believed to hold the row.
LEMMA ClaimNextInv ==
    ASSUME QueueInv, NEW w \in Worker, NEW j \in Job, ClaimNext(w, j) PROVE QueueInv'
<1> USE DEF QueueInv
<1>1. overtaken' = overtaken \cup HoldersOf({j}, w) /\ ~Holding(w)
  BY DEF ClaimNext
<1>2. IdOf[w] \in WorkerId /\ IdOf[w] # NoOwner
  BY IdOfAssumption, NoOwnerAssumption
<1>3. /\ job'[j] \in JobRow /\ job'[j].status = "PROCESSING" /\ job'[j].owner = IdOf[w]
      /\ job'[j].attempts = held'[w].attempt /\ held'[w].attempt \in 1..MaxAttempts
  BY ClaimedRow
<1>4. held'[w] \in Claim /\ held'[w] # NoClaim /\ held'[w].job = j
  BY ClaimedRow
<1>5. job' \in [Job -> JobRow] /\ held' \in [Worker -> Claim \cup {NoClaim}]
  BY ClaimedRow
<1>6. /\ \A k \in Job \ {j} : job'[k] = job[k]
      /\ \A v \in Worker \ {w} : held'[v] = held[v]
  BY ClaimedRow
<1>7. QueueTypeOK'
  <2>1. overtaken' \in SUBSET Worker
    BY <1>1 DEF QueueTypeOK, HoldersOf
  <2> QED
    BY <1>2, <1>3, <1>5, <1>6, <2>1 DEF QueueTypeOK
<1>8. \A v \in Worker : Holding(v) => held[v].job \in Job
  BY HolderHasClaim, ClaimFields
<1>9. \A v \in overtaken' : v \in Worker \ {w} /\ Holding(v)
  BY <1>1 DEF HoldersOf, OvertakenOwnsNothing, QueueTypeOK
<1>10. OvertakenOwnsNothing'
  <2> SUFFICES ASSUME NEW v \in overtaken'
               PROVE  /\ Holding(v)'
                      /\ ~(job'[held'[v].job].status = "PROCESSING" /\ job'[held'[v].job].owner = IdOf[v])
    BY DEF OvertakenOwnsNothing
  <2>1. v \in Worker \ {w} /\ Holding(v) /\ held'[v] = held[v] /\ held[v].job \in Job
    BY <1>6, <1>8, <1>9
  <2>2. CASE held[v].job = j
    BY <1>3, <2>1, <2>2, IdOfAssumption DEF Holding
  <2>3. CASE held[v].job # j
    <3>1. v \in overtaken
      BY <1>1, <2>3 DEF HoldersOf
    <3>2. ~(job[held[v].job].status = "PROCESSING" /\ job[held[v].job].owner = IdOf[v])
      BY <3>1 DEF OvertakenOwnsNothing
    <3> QED
      BY <1>6, <2>1, <2>3, <3>2 DEF Holding
  <2> QED
    BY <2>2, <2>3
<1>11. HolderPassesFence'
  <2> SUFFICES ASSUME NEW v \in Worker, Holding(v)', v \notin overtaken'
               PROVE  Fence(v)'
    BY DEF HolderPassesFence
  <2>1. CASE v = w
    BY <1>3, <1>4, <2>1 DEF Fence, Holding
  <2>2. CASE v # w
    <3>1. Holding(v) /\ held'[v] = held[v] /\ held[v].job \in Job /\ v \notin overtaken
      BY <1>1, <1>6, <1>8, <2>2 DEF Holding
    <3>2. held[v].job # j
      BY <1>1, <2>2, <3>1 DEF HoldersOf
    <3> QED
      BY <1>6, <3>1, <3>2 DEF HolderPassesFence, Fence, Holding
  <2> QED
    BY <2>1, <2>2
<1>12. WaitingRowsAreClaimable'
  BY <1>3, <1>6 DEF WaitingRowsAreClaimable, Fresh
<1>13. LockedRowsSpentAnAttempt'
  BY <1>3, <1>6, MaxAttemptsAssumption DEF LockedRowsSpentAnAttempt
<1> QED
  BY <1>7, <1>10, <1>11, <1>12, <1>13

\* An outcome is written through the fence, so nobody else holds the row by right.
LEMMA FinishInv ==
    ASSUME QueueInv, NEW w \in Worker,
           NEW status \in JobStatus \ {"PROCESSING"}, NEW attempts \in 0..MaxAttempts,
           status \in {"PENDING", "RETRY_SCHEDULED"} => attempts < MaxAttempts,
           Finish(w, status, attempts)
    PROVE  QueueInv'
<1> USE DEF QueueInv
<1> DEFINE j == held[w].job
           row == Released(status, attempts)
<1>1. Fence(w) /\ Holding(w) /\ j \in Job /\ LetGo(w)
  BY HolderHasClaim, ClaimFields DEF Finish, Fence
<1>2. /\ row \in JobRow /\ row.status = status /\ row.attempts = attempts /\ row.owner = NoOwner
  BY ReleasedRow
<1>3. /\ job' = [job EXCEPT ![j] = row]
      /\ job'[j] = row /\ \A k \in Job \ {j} : job'[k] = job[k]
  BY <1>1 DEF Finish, QueueTypeOK
<1>4. job[j].owner = IdOf[w]
  BY <1>1 DEF Fence
<1> HIDE DEF j, row
<1>5. /\ held' \in [Worker -> Claim \cup {NoClaim}] /\ overtaken' = overtaken \ {w}
      /\ held'[w] = NoClaim /\ \A v \in Worker \ {w} : held'[v] = held[v]
  BY <1>1, LetGoClears
<1>6. QueueTypeOK'
  BY <1>2, <1>3, <1>5 DEF QueueTypeOK
<1>7. \A v \in Worker : Holding(v) => held[v].job \in Job
  BY HolderHasClaim, ClaimFields
<1>8. OvertakenOwnsNothing'
  BY <1>2, <1>3, <1>5, <1>7 DEF OvertakenOwnsNothing, Holding, QueueTypeOK
<1>9. HolderPassesFence'
  <2> SUFFICES ASSUME NEW v \in Worker, Holding(v)', v \notin overtaken'
               PROVE  Fence(v)'
    BY DEF HolderPassesFence
  <2>1. v # w /\ Holding(v) /\ held'[v] = held[v] /\ held[v].job \in Job /\ v \notin overtaken
    BY <1>5, <1>7 DEF Holding
  <2>2. Fence(v)
    BY <2>1 DEF HolderPassesFence
  <2>3. held[v].job # j
    BY <1>4, <2>1, <2>2, IdOfAssumption DEF Fence
  <2> QED
    BY <1>3, <2>1, <2>2, <2>3 DEF Fence, Holding
<1>10. WaitingRowsAreClaimable'
  BY <1>2, <1>3 DEF WaitingRowsAreClaimable, Fresh
<1>11. LockedRowsSpentAnAttempt'
  BY <1>2, <1>3 DEF LockedRowsSpentAnAttempt
<1> QED
  BY <1>6, <1>8, <1>9, <1>10, <1>11

LEMMA OutcomeInv == ASSUME QueueInv, NEW w \in Worker, Outcome(w) PROVE QueueInv'
<1>1. Fence(w) /\ held[w] \in Claim
  BY HolderHasClaim DEF Outcome, MarkCompleted, MarkRetry, MarkWaiting, MarkDeadLetter,
                        Finish, Fence, QueueInv
<1>2. held[w].attempt \in 1..MaxAttempts /\ held[w].attempt - 1 \in 0..MaxAttempts
  BY <1>1, ClaimFields
<1>3. held[w].attempt \in 0..MaxAttempts /\ held[w].attempt - 1 < MaxAttempts
  BY <1>2, MaxAttemptsAssumption
<1>4. ASSUME MarkCompleted(w) PROVE QueueInv'
  BY <1>3, <1>4, FinishInv DEF MarkCompleted, JobStatus
<1>5. ASSUME held[w].attempt < MaxAttempts, MarkRetry(w) PROVE QueueInv'
  BY <1>3, <1>5, FinishInv DEF MarkRetry, JobStatus
<1>6. ASSUME MarkWaiting(w) PROVE QueueInv'
  BY <1>2, <1>3, <1>6, FinishInv DEF MarkWaiting, JobStatus
<1>7. ASSUME MarkDeadLetter(w) PROVE QueueInv'
  BY <1>3, <1>7, FinishInv DEF MarkDeadLetter, JobStatus
<1> QED
  BY <1>4, <1>5, <1>6, <1>7 DEF Outcome

\* A worker that forgets its claim leaves every row, and every other claim, alone.
LEMMA ForgetInv ==
    ASSUME QueueInv, NEW w \in Worker, LetGo(w), UNCHANGED job PROVE QueueInv'
<1> USE DEF QueueInv
<1>1. /\ held' \in [Worker -> Claim \cup {NoClaim}] /\ overtaken' = overtaken \ {w}
      /\ held'[w] = NoClaim /\ \A v \in Worker \ {w} : held'[v] = held[v]
  BY LetGoClears
<1>2. QueueTypeOK'
  BY <1>1 DEF QueueTypeOK
<1>3. OvertakenOwnsNothing' /\ HolderPassesFence'
  BY <1>1 DEF OvertakenOwnsNothing, HolderPassesFence, Fence, Holding, QueueTypeOK
<1>4. WaitingRowsAreClaimable' /\ LockedRowsSpentAnAttempt'
  BY DEF WaitingRowsAreClaimable, Fresh, LockedRowsSpentAnAttempt
<1> QED
  BY <1>2, <1>3, <1>4

LEMMA QueueStepInv == QueueInv /\ [QueueNext]_queueVars => QueueInv'
<1> SUFFICES ASSUME QueueInv, [QueueNext]_queueVars PROVE QueueInv'
  OBVIOUS
<1>1. ASSUME NEW j \in Job, Enqueue(j) \/ Rearm(j) \/ LeaseLapses(j) PROVE QueueInv'
  BY <1>1, EnqueueInv, RearmInv, LeaseLapsesInv
<1>2. ASSUME NEW w \in Worker, NEW j \in Job, ClaimNext(w, j) PROVE QueueInv'
  BY <1>2, ClaimNextInv
<1>3. ASSUME NEW w \in Worker, DeadLetterExhausted(w) PROVE QueueInv'
  BY <1>3, DeadLetterExhaustedInv
<1>4. ASSUME NEW w \in Worker, Outcome(w) PROVE QueueInv'
  BY <1>4, OutcomeInv
<1>5. ASSUME NEW w \in Worker, FinishRejected(w) \/ Abandon(w) PROVE QueueInv'
  BY <1>5, ForgetInv DEF FinishRejected, Abandon
<1>6. CASE UNCHANGED queueVars
  BY <1>6, StutterInv
<1> QED
  BY <1>1, <1>2, <1>3, <1>4, <1>5, <1>6 DEF QueueNext

-----------------------------------------------------------------------------
(* The theorems. *)

THEOREM QueueInvariance == QueueSpec => []QueueInv
  BY QueueInitInv, QueueStepInv, PTL DEF QueueSpec

\* What an overtaken worker lacks is what the fence asks for.
LEMMA QueueInvFences == QueueInv => OvertakenIsFenced
  BY DEF QueueInv, OvertakenOwnsNothing, OvertakenIsFenced, Fence

\* Rows obey the table's constraints and claims stay within the attempt
\* budget, for every number of workers, jobs and attempts.
THEOREM QueueTypeCorrect == QueueSpec => []QueueTypeOK
<1>1. QueueInv => QueueTypeOK
  BY DEF QueueInv
<1> QED
  BY <1>1, QueueInvariance, PTL

\* Of the workers that believe to hold a claim, the fence turns away all that were
\* overtaken (#finishLease), however their row got back its attempt count.
THEOREM OvertakenAreFenced == QueueSpec => []OvertakenIsFenced
<1>1. QueueInv => OvertakenIsFenced
  BY QueueInvFences DEF QueueInv
<1> QED
  BY <1>1, QueueInvariance, PTL

\* And it lets the others through: a rearm or a sweep never locks out the holder.
THEOREM HoldersPassFence == QueueSpec => []HolderPassesFence
<1>1. QueueInv => HolderPassesFence
  BY QueueInvFences DEF QueueInv
<1> QED
  BY <1>1, QueueInvariance, PTL

\* No waiting row has used up its attempts, where neither poll nor sweep finds it.
THEOREM NoRowIsStranded == QueueSpec => []WaitingRowsAreClaimable
<1>1. QueueInv => WaitingRowsAreClaimable
  BY DEF QueueInv
<1> QED
  BY <1>1, QueueInvariance, PTL

-----------------------------------------------------------------------------
(* Leases. *)

\* What may happen to the locked row of a live lease.
LeaseStep(j) ==
    (job[j].status = "PROCESSING" /\ job'[j] # job[j] /\ ~job[j].stale)
        => \/ job'[j] = [job[j] EXCEPT !.stale = TRUE]
           \/ \E w \in Worker : Fence(w) /\ held[w].job = j /\ held'[w] = NoClaim

LEMMA QueueStepRespectsLease ==
    ASSUME QueueTypeOK, QueueNext, NEW j \in Job
    PROVE  LeaseStep(j)
<1>1. ASSUME NEW k \in Job, Enqueue(k) \/ Rearm(k) PROVE LeaseStep(j)
  BY <1>1 DEF Enqueue, Inserted, Rearm, LeaseStep, QueueTypeOK
<1>2. ASSUME NEW k \in Job, LeaseLapses(k) PROVE LeaseStep(j)
  BY <1>2 DEF LeaseLapses, LeaseStep, QueueTypeOK
<1>3. ASSUME NEW w \in Worker, NEW k \in Job, ClaimNext(w, k) PROVE LeaseStep(j)
  BY <1>3 DEF ClaimNext, Fresh, Reclaimable, LeaseStep, QueueTypeOK
<1>4. ASSUME NEW w \in Worker, DeadLetterExhausted(w) PROVE LeaseStep(j)
  BY <1>4 DEF DeadLetterExhausted, Exhausted, LeaseStep
<1>5. ASSUME NEW w \in Worker, Outcome(w) PROVE LeaseStep(j)
  <2>1. PICK status, attempts : Finish(w, status, attempts)
    BY <1>5 DEF Outcome, MarkCompleted, MarkRetry, MarkWaiting, MarkDeadLetter
  <2>2. Fence(w) /\ held'[w] = NoClaim
    BY <2>1, LetGoClears DEF Finish
  <2> QED
    BY <2>1, <2>2 DEF Finish, LeaseStep, QueueTypeOK
<1>6. ASSUME NEW w \in Worker, FinishRejected(w) \/ Abandon(w) PROVE LeaseStep(j)
  BY <1>6 DEF FinishRejected, Abandon, LeaseStep
<1> QED
  BY <1>1, <1>2, <1>3, <1>4, <1>5, <1>6 DEF QueueNext

LEMMA QueueStepsRespectLeases ==
    QueueInv /\ [QueueNext]_queueVars
        => [\A j \in Job : /\ job[j].status = "PROCESSING"
                           /\ job'[j] # job[j]
                           /\ ~job[j].stale
                           => \/ job'[j] = [job[j] EXCEPT !.stale = TRUE]
                              \/ \E w \in Worker : Fence(w) /\ held[w].job = j /\ held'[w] = NoClaim
           ]_queueVars
BY QueueStepRespectsLease DEF LeaseStep, QueueInv

\* While its lease runs, only its holder ends a claim: no sweep and no other worker's
\* poll takes the row (claimNext compares locked_at with the lease in both statements).
THEOREM LeasesAreRespected == QueueSpec => LiveLeaseIsRespected
  BY QueueStepsRespectLeases, QueueInvariance, PTL DEF QueueSpec, LiveLeaseIsRespected

=============================================================================
