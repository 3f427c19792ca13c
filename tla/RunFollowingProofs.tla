------------------------- MODULE RunFollowingProofs -------------------------
(***************************************************************************)
(* What a page shows is of the run it follows, and once the wallet gave it *)
(* the hash of a transfer it sends no other.  One poll is live at a time   *)
(* and it is of the run the page follows; what it has read of a paid run   *)
(* is paid, because the transition table never leads back from there; so   *)
(* the panel of a paid run goes away and no later answer brings a new one. *)
(***************************************************************************)
EXTENDS RunFollowing, TLAPS

Status == Unpaid \cup Life!Paid

PollRecord == [run : Run \cup {NoRun}, cancelled : BOOLEAN,
               status : Status \cup {"NONE"}, attestation : {"NONE", "YES", "NO"}]

TypeOK ==
    /\ status \in [Run -> Status]
    /\ page \in [kind : {"form", "detail"}, run : Run \cup {NoRun}]
    /\ polls \in [Poll -> PollRecord]
    /\ shown \in [run : Run \cup {NoRun}, status : Status \cup {"NONE"},
                  attestation : {"NONE", "YES", "NO"}]
    /\ transfers \in Nat /\ heard \in BOOLEAN

LivePollsFollowPage == \A i \in Live : polls[i].run = page.run

OnePollIsLive == \A i, j \in Live : i = j

\* Neither what is shown nor what was read is ahead of the run's payment.
SeenPaidIsPaid ==
    /\ shown.run # NoRun =>
        /\ shown.status \in Status
        /\ shown.status \in Life!Paid => status[page.run] \in Life!Paid
    /\ \A i \in Live :
        /\ polls[i].status \in Life!Paid => status[page.run] \in Life!Paid
        /\ shown.run # NoRun /\ shown.status \in Life!Paid => polls[i].status \notin Unpaid

Gone == {"absent", "orphaned"}

\* A panel is there as long as its run shows as unpaid; it is only orphaned by data.
PanelIsMounted ==
    /\ panel \in Gone <=> ~PanelMounted(shown)
    /\ panel = "orphaned" => shown.run # NoRun

\* A transfer whose hash was given is remembered by its panel, until the page shows a
\* payment; no other payment is under way then.
TransferIsRemembered == heard => panel = "paid" \/ (panel = "absent" /\ shown.run # NoRun)

FollowInv ==
    /\ TypeOK
    /\ LivePollsFollowPage
    /\ OnePollIsLive
    /\ ProgressIsOfShownRun
    /\ SeenPaidIsPaid
    /\ PanelIsMounted
    /\ TransferIsRemembered
-----------------------------------------------------------------------------
(* Facts about the operators.                                              *)

\* An unpaid status is no paid one, and neither is the absence of a status.
LEMMA StatusesApart == /\ Unpaid \cap Life!Paid = {}
                       /\ "NONE" \notin Status
BY DEF Status, Unpaid, Life!Paid, Life!Delivered

\* The table leads from known statuses to known ones, and from paid ones to paid ones.
LEMMA RulesKeepPaid ==
    \A rule \in Life!Rules :
        /\ rule[2] \in Status
        /\ rule[1] \in Life!Paid => rule[2] \in Life!Paid
<1> SUFFICES ASSUME NEW rule \in Life!Rules
             PROVE  rule[2] \in Status /\ (rule[1] \in Life!Paid => rule[2] \in Life!Paid)
  OBVIOUS
<1> QED
  BY DEF Life!Rules, Life!Paid, Life!Delivered, Status, Unpaid

\* Cleaning the effect up leaves no live poll.
LEMMA CancelledIsNotLive ==
    ASSUME TypeOK, polls' = Cancelled
    PROVE  Live' = {} /\ polls' \in [Poll -> PollRecord]
<1>1. \A i \in Poll : polls'[i] \in PollRecord /\ (polls'[i].run = NoRun \/ polls'[i].cancelled)
  BY NullAssumption DEF TypeOK, Cancelled, NoPoll, PollRecord
<1>2. polls' \in [Poll -> PollRecord]
  BY <1>1 DEF Cancelled
<1> QED
  BY <1>1, <1>2 DEF Live

\* A change of one poll that ends it or takes nothing from the others.
LEMMA OnlyThisPollChanges ==
    ASSUME TypeOK, NEW i \in Poll, NEW p \in PollRecord, polls' = [polls EXCEPT ![i] = p]
    PROVE  /\ polls' \in [Poll -> PollRecord]
           /\ \A j \in Poll : polls'[j] = IF j = i THEN p ELSE polls[j]
           /\ Live' = IF p.run # NoRun /\ ~p.cancelled THEN Live \cup {i} ELSE Live \ {i}
<1>1. polls' \in [Poll -> PollRecord] /\ \A j \in Poll : polls'[j] = IF j = i THEN p ELSE polls[j]
  BY DEF TypeOK
<1>2. \A j \in Poll : j \in Live' <=> (IF j = i THEN p.run # NoRun /\ ~p.cancelled ELSE j \in Live)
  BY <1>1 DEF Live
<1>3. \A j : j \in Live' \/ j \in Live => j \in Poll
  BY DEF Live
<1> QED
  BY <1>1, <1>2, <1>3

-----------------------------------------------------------------------------
(* One lemma per group of actions.                                         *)

LEMMA RunStepsKeepInv ==
    ASSUME FollowInv, NEW r \in Run, Advance(r) \/ StoreAttestation(r)
    PROVE  FollowInv'
<1> USE DEF FollowInv
<1>1. UNCHANGED <<page, polls, shown, payVars>>
  BY DEF Advance, StoreAttestation
<1>2. /\ status' \in [Run -> Status]
      /\ \A s \in Run : status[s] \in Life!Paid => status'[s] \in Life!Paid
  <2>1. CASE StoreAttestation(r)
    BY <2>1 DEF StoreAttestation, TypeOK
  <2>2. CASE Advance(r)
    <3>1. PICK rule \in Life!Rules : rule[1] = status[r] /\ status' = [status EXCEPT ![r] = rule[2]]
      BY <2>2 DEF Advance
    <3> QED
      BY <3>1, RulesKeepPaid DEF TypeOK
  <2> QED
    BY <2>1, <2>2
<1>3. Live' = Live /\ PanelMounted(shown)' = PanelMounted(shown)
  BY <1>1 DEF Live, PanelMounted
<1>4. page.run \notin Run => shown.run = NoRun /\ \A i \in Live : FALSE
  BY DEF TypeOK, LivePollsFollowPage, ProgressIsOfShownRun, Live
<1>5. TypeOK'
  BY <1>1, <1>2 DEF TypeOK, payVars
<1>6. SeenPaidIsPaid'
  BY <1>1, <1>2, <1>3, <1>4 DEF SeenPaidIsPaid, TypeOK
<1> QED
  BY <1>1, <1>3, <1>5, <1>6
     DEF LivePollsFollowPage, OnePollIsLive, ProgressIsOfShownRun, PanelIsMounted,
         TransferIsRemembered, payVars

\* Another run, or none, is shown: nothing is remembered of the one before.
LEMMA ShowKeepsInv ==
    ASSUME FollowInv, UNCHANGED runVars,
           NEW next \in [kind : {"form", "detail"}, run : Run \cup {NoRun}], Show(next)
    PROVE  FollowInv'
<1> USE DEF FollowInv
<1>1. Live' = {} /\ polls' \in [Poll -> PollRecord]
  BY CancelledIsNotLive DEF Show
<1>2. page' = next /\ shown' = NothingShown /\ transfers' = 0 /\ heard' = FALSE /\ panel' = "absent"
  BY DEF Show
<1>3. TypeOK'
  BY <1>1, <1>2 DEF TypeOK, NothingShown, runVars
<1> QED
  BY <1>1, <1>2, <1>3 DEF LivePollsFollowPage, OnePollIsLive, ProgressIsOfShownRun, SeenPaidIsPaid,
     PanelIsMounted, PanelMounted, TransferIsRemembered, NothingShown, Gone

LEMMA StartPollKeepsInv ==
    ASSUME FollowInv, StartPoll
    PROVE  FollowInv'
<1> USE DEF FollowInv
<1>1. PICK i \in Poll : polls' = Started(i)
  BY DEF StartPoll
<1> DEFINE p == [NoPoll EXCEPT !.run = page.run]
<1>2. page.run # NoRun /\ Live = {} /\ UNCHANGED <<runVars, page, shown, session, payVars, faults>>
  BY DEF StartPoll
<1>3. p \in PollRecord /\ p.run = page.run /\ ~p.cancelled /\ p.status = "NONE"
  BY DEF NoPoll, PollRecord, TypeOK
<1>4. polls' = [polls EXCEPT ![i] = p]
  BY <1>1 DEF Started
<1> HIDE DEF p
<1>5. polls' \in [Poll -> PollRecord] /\ polls'[i] = p /\ Live' = {i}
  BY <1>2, <1>3, <1>4, OnlyThisPollChanges
<1>6. TypeOK'
  BY <1>2, <1>5 DEF TypeOK, runVars, payVars
<1> QED
  BY <1>2, <1>3, <1>5, <1>6, StatusesApart
     DEF LivePollsFollowPage, OnePollIsLive, ProgressIsOfShownRun, SeenPaidIsPaid, Status,
         PanelIsMounted, PanelMounted, TransferIsRemembered, runVars, payVars

\* Reading the run's status or attestation.
LEMMA ReadKeepsInv ==
    ASSUME FollowInv, NEW i \in Poll, ReadRun(i) \/ ReadAttestation(i)
    PROVE  FollowInv'
<1> USE DEF FollowInv
<1>1. i \in Live /\ UNCHANGED <<runVars, page, shown, session, payVars, faults>>
  BY DEF ReadRun, ReadAttestation
<1>2. polls[i] \in PollRecord /\ polls[i].run = page.run /\ polls[i].run # NoRun
  BY <1>1 DEF TypeOK, Live, LivePollsFollowPage
<1>3. page.run \in Run
  BY <1>2 DEF PollRecord
<1>4. PICK p \in PollRecord :
        /\ polls' = [polls EXCEPT ![i] = p]
        /\ p.run = polls[i].run
        /\ p.cancelled = polls[i].cancelled
        /\ p.status \in {polls[i].status, status[page.run]}
  <2>1. CASE ReadRun(i)
    <3>1. [polls[i] EXCEPT !.status = status[page.run]] \in PollRecord
      BY <1>2, <1>3 DEF TypeOK, PollRecord
    <3> QED
      BY <2>1, <3>1, <1>2 DEF ReadRun, PollRecord, TypeOK
  <2>2. CASE ReadAttestation(i)
    <3> DEFINE a == IF polls[i].run \in attested THEN "YES" ELSE "NO"
    <3>1. [polls[i] EXCEPT !.attestation = a] \in PollRecord
      BY <1>2 DEF PollRecord
    <3> QED
      BY <2>2, <3>1, <1>2 DEF ReadAttestation, PollRecord, TypeOK
  <2> QED
    BY <2>1, <2>2
<1>5. /\ polls' \in [Poll -> PollRecord]
      /\ \A j \in Poll : polls'[j] = IF j = i THEN p ELSE polls[j]
      /\ Live' = Live \cup {i}
  BY <1>1, <1>4, OnlyThisPollChanges DEF Live
<1>6. Live' = Live
  BY <1>1, <1>5
<1>7. TypeOK'
  BY <1>1, <1>5 DEF TypeOK, runVars, payVars
<1>8. SeenPaidIsPaid'
  BY <1>1, <1>3, <1>4, <1>5, <1>6, StatusesApart DEF SeenPaidIsPaid, runVars, Live
<1> QED
  BY <1>1, <1>2, <1>4, <1>5, <1>6, <1>7, <1>8
     DEF LivePollsFollowPage, OnePollIsLive, ProgressIsOfShownRun, PanelIsMounted, PanelMounted,
         TransferIsRemembered, payVars, Live

\* An ended poll is no longer live, and the others go on.
LEMMA EndedPollKeepsTypes ==
    ASSUME TypeOK, NEW i \in Poll, polls' = [polls EXCEPT ![i] = NoPoll]
    PROVE  /\ polls' \in [Poll -> PollRecord]
           /\ \A j \in Poll : j # i => polls'[j] = polls[j]
           /\ Live' = Live \ {i}
<1>1. NoPoll \in PollRecord /\ NoPoll.run = NoRun
  BY DEF NoPoll, PollRecord
<1> QED
  BY <1>1, OnlyThisPollChanges

LEMMA PollDoneKeepsInv ==
    ASSUME FollowInv, NEW i \in Poll, PollDone(i)
    PROVE  FollowInv'
<1> USE DEF FollowInv
<1>1. i \in Live /\ UNCHANGED <<runVars, page, session, transfers, heard, faults>>
      /\ polls[i].status # "NONE"
  BY DEF PollDone
<1>2. polls[i] \in PollRecord /\ polls[i].run = page.run /\ polls[i].run # NoRun
  BY <1>1 DEF TypeOK, Live, LivePollsFollowPage
<1>3. /\ shown' \in [run : Run \cup {NoRun}, status : Status \cup {"NONE"},
                     attestation : {"NONE", "YES", "NO"}]
      /\ shown'.run = page.run /\ shown'.status = polls[i].status
      /\ panel' = PanelFor(shown')
  BY <1>2 DEF PollDone, Display, PollRecord
<1>4. Live' = {} /\ polls' \in [Poll -> PollRecord]
  BY <1>1, EndedPollKeepsTypes DEF PollDone, OnePollIsLive
<1>5. shown'.status \in Status /\ shown'.run # NoRun /\ shown'.run = page'.run
  BY <1>1, <1>2, <1>3 DEF PollRecord
<1>6. TypeOK'
  BY <1>1, <1>3, <1>4 DEF TypeOK, runVars
<1>7. SeenPaidIsPaid'
  BY <1>1, <1>3, <1>4, <1>5 DEF SeenPaidIsPaid, runVars
<1>8. PanelIsMounted'
  BY <1>3, <1>5 DEF PanelIsMounted, PanelFor, PanelMounted, Gone, Paying
<1>9. TransferIsRemembered'
  <2>1. CASE panel = "absent" /\ shown.run # NoRun
    <3>1. shown.status \in Life!Paid
      BY <2>1 DEF PanelIsMounted, PanelMounted, SeenPaidIsPaid, Status, Gone
    <3>2. shown'.status \notin Unpaid
      BY <1>1, <1>3, <2>1, <3>1 DEF SeenPaidIsPaid
    <3> QED
      BY <1>1, <1>3, <1>5, <3>2, <2>1 DEF TransferIsRemembered, PanelFor, PanelMounted, Paying
  <2>2. CASE panel = "paid"
    BY <1>1, <1>3, <1>5, <2>2 DEF TransferIsRemembered, PanelFor, PanelMounted, Paying
  <2> QED
    BY <1>1, <2>1, <2>2 DEF TransferIsRemembered
<1> QED
  BY <1>4, <1>5, <1>6, <1>7, <1>8, <1>9 DEF LivePollsFollowPage, OnePollIsLive, ProgressIsOfShownRun

\* A poll that brings nothing: refused, lost, or of an effect cleaned up before.
LEMMA EmptyPollKeepsInv ==
    ASSUME FollowInv, NEW i \in Poll, PollRefused(i) \/ PollLost(i) \/ PollIgnored(i)
    PROVE  FollowInv'
<1> USE DEF FollowInv
<1>1. polls' = [polls EXCEPT ![i] = NoPoll] /\ UNCHANGED <<status, page, shown, panel, transfers, heard>>
  BY DEF PollRefused, PollLost, PollIgnored, Display, AfterError, PanelFor, PanelIsMounted,
         Gone, Paying, runVars, payVars
<1>2. /\ polls' \in [Poll -> PollRecord]
      /\ \A j \in Poll : j # i => polls'[j] = polls[j]
      /\ Live' = Live \ {i}
  BY <1>1, EndedPollKeepsTypes
<1>3. TypeOK'
  BY <1>1, <1>2 DEF TypeOK
<1> QED
  BY <1>1, <1>2, <1>3 DEF LivePollsFollowPage, OnePollIsLive, ProgressIsOfShownRun, SeenPaidIsPaid,
     PanelIsMounted, PanelMounted, TransferIsRemembered, Live

\* The panel's own steps happen while it is mounted and knows of no transfer.
LEMMA PanelKeepsInv ==
    ASSUME FollowInv, ConnectToPay \/ NetworkChecked \/ Pay \/ ChainEnsured \/ BalanceRead
    PROVE  FollowInv'
<1> USE DEF FollowInv
<1>1. /\ panel \notin Gone \cup {"paid"} /\ panel' \notin Gone
      /\ UNCHANGED <<status, page, polls, shown, transfers, heard>>
  BY DEF ConnectToPay, NetworkChecked, Pay, Payable, ChainEnsured, BalanceRead, PanelMoves,
         Gone, runVars
<1>2. ~heard
  BY <1>1 DEF TransferIsRemembered, Gone
<1>3. Live' = Live
  BY <1>1 DEF Live
<1> QED
  BY <1>1, <1>2, <1>3 DEF TypeOK, LivePollsFollowPage, OnePollIsLive, ProgressIsOfShownRun,
     SeenPaidIsPaid, PanelIsMounted, PanelMounted, TransferIsRemembered

\* The wallet answers a panel, which stays, or the orphaned payment of one.
LEMMA WalletKeepsInv ==
    ASSUME FollowInv, WalletAnswers
    PROVE  FollowInv'
<1> USE DEF FollowInv
<1>1. /\ panel \in {"confirming", "orphaned"}
      /\ UNCHANGED <<status, page, polls, shown>>
      /\ transfers' \in {transfers, transfers + 1}
      /\ panel' = IF panel = "orphaned" THEN "absent" ELSE IF heard' THEN "paid" ELSE "ready"
      /\ heard' \in BOOLEAN
  <2>1. panel \in {"confirming", "orphaned"} /\ UNCHANGED <<status, page, polls, shown>>
    BY DEF WalletAnswers, runVars
  <2>2. heard = FALSE
    BY <2>1 DEF TransferIsRemembered, TypeOK
  <2> QED
    BY <2>1, <2>2 DEF WalletAnswers, Confirmed, Rejected, AnswerLost, After
<1>2. Live' = Live
  BY <1>1 DEF Live
<1>3. TypeOK'
  BY <1>1 DEF TypeOK
<1>4. PanelIsMounted' /\ TransferIsRemembered'
  BY <1>1 DEF PanelIsMounted, PanelMounted, TransferIsRemembered, Gone
<1> QED
  BY <1>1, <1>2, <1>3, <1>4 DEF LivePollsFollowPage, OnePollIsLive, ProgressIsOfShownRun,
     SeenPaidIsPaid

LEMMA UntouchedKeepsInv ==
    ASSUME FollowInv, UNCHANGED <<status, page, polls, shown, panel, transfers, heard>>
    PROVE  FollowInv'
<1>1. Live' = Live
  BY DEF Live
<1> QED
  BY <1>1 DEF FollowInv, TypeOK, LivePollsFollowPage, OnePollIsLive, ProgressIsOfShownRun,
     SeenPaidIsPaid, PanelIsMounted, PanelMounted, TransferIsRemembered

-----------------------------------------------------------------------------
(* The theorems.                                                           *)

LEMMA FollowInit == Init => FollowInv
<1> SUFFICES ASSUME Init PROVE FollowInv
  OBVIOUS
<1>1. TypeOK
  BY DEF Init, TypeOK, NoPage, NoPoll, NothingShown, PollRecord, Status, Unpaid
<1>2. Live = {}
  BY DEF Init, Live, NoPoll
<1> QED
  BY <1>1, <1>2 DEF Init, FollowInv, LivePollsFollowPage, OnePollIsLive, ProgressIsOfShownRun,
     SeenPaidIsPaid, PanelIsMounted, PanelMounted, TransferIsRemembered, NothingShown, Gone

LEMMA FollowStep == FollowInv /\ [Next]_vars => FollowInv'
<1> SUFFICES ASSUME FollowInv, [Next]_vars PROVE FollowInv'
  OBVIOUS
<1>1. ASSUME NEW r \in Run, Advance(r) \/ StoreAttestation(r)
      PROVE  FollowInv'
  BY <1>1, RunStepsKeepInv
<1>2. ASSUME NEW r \in Run, ShowCreatedRun(r) \/ OpenDetail(r)
      PROVE  FollowInv'
  <2>1. PICK kind \in {"form", "detail"} : Show([kind |-> kind, run |-> r])
    BY <1>2 DEF ShowCreatedRun, OpenDetail
  <2> QED
    BY <1>2, <2>1, ShowKeepsInv DEF ShowCreatedRun, OpenDetail
<1>3. CASE Leave
  BY <1>3, ShowKeepsInv DEF Leave, NoPage
<1>4. CASE StartPoll
  BY <1>4, StartPollKeepsInv
<1>5. ASSUME NEW i \in Poll, Read(i) \/ PollLost(i) \/ PollIgnored(i)
      PROVE  FollowInv'
  BY <1>5, ReadKeepsInv, PollDoneKeepsInv, EmptyPollKeepsInv DEF Read
<1>6. CASE SessionExpires \/ Connect \/ UNCHANGED vars
  BY <1>6, UntouchedKeepsInv DEF SessionExpires, Connect, vars, runVars, payVars
<1>7. CASE ConnectToPay \/ NetworkChecked \/ Pay \/ ChainEnsured \/ BalanceRead \/ WalletAnswers
  BY <1>7, PanelKeepsInv, WalletKeepsInv
<1> QED
  BY <1>1, <1>2, <1>3, <1>4, <1>5, <1>6, <1>7 DEF Next

\* The page never shows one run's progress as another's, whatever polls of earlier
\* runs are still in flight (the effect of useRunProgress cancels itself only).
THEOREM ProgressIsOfShownRunHolds == Spec => []ProgressIsOfShownRun
<1>1. FollowInv => ProgressIsOfShownRun
  BY DEF FollowInv
<1> QED
  BY FollowInit, FollowStep, <1>1, PTL DEF Spec

\* Transfers are sent by the wallet's answers alone, and forgotten by a new visit alone.
LEMMA OnlyWalletsTransfer ==
    ASSUME [Next]_vars, transfers' # transfers
    PROVE  WalletAnswers \/ heard' = FALSE
<1>1. ASSUME NEW r \in Run, Advance(r) \/ StoreAttestation(r)
      PROVE  FALSE
  BY <1>1 DEF Advance, StoreAttestation, payVars
<1>2. ASSUME NEW r \in Run, ShowCreatedRun(r) \/ OpenDetail(r)
      PROVE  heard' = FALSE
  BY <1>2 DEF ShowCreatedRun, OpenDetail, Show
<1>3. CASE Leave
  BY <1>3 DEF Leave, Show
<1>4. ASSUME NEW i \in Poll, Read(i) \/ PollLost(i) \/ PollIgnored(i)
      PROVE  FALSE
  BY <1>4 DEF Read, ReadRun, ReadAttestation, PollDone, PollRefused, PollLost, PollIgnored, payVars
<1>5. ~(StartPoll \/ SessionExpires \/ Connect \/ UNCHANGED vars)
  BY DEF StartPoll, SessionExpires, Connect, vars, payVars
<1>6. ~(ConnectToPay \/ NetworkChecked \/ Pay \/ ChainEnsured \/ BalanceRead)
  BY DEF ConnectToPay, NetworkChecked, Pay, ChainEnsured, BalanceRead, PanelMoves
<1> QED
  BY <1>1, <1>2, <1>3, <1>4, <1>5, <1>6 DEF Next

\* After the wallet gave a visit the hash of a transfer, that visit sends no other,
\* however polls fail and lag and whatever became of the attempts before it
\* (WalletPayPanel's handlePay, in both pages).
THEOREM HeardTransferIsLastHolds == Spec => HeardTransferIsLast
<1>1. FollowInv /\ [Next]_vars => [heard /\ heard' => transfers' = transfers]_vars
  <2> SUFFICES ASSUME FollowInv, [Next]_vars, heard, heard', transfers' # transfers PROVE FALSE
    OBVIOUS
  <2>1. WalletAnswers
    BY OnlyWalletsTransfer
  <2>2. panel \in {"confirming", "orphaned"}
    BY <2>1 DEF WalletAnswers
  <2> QED
    BY <2>2 DEF FollowInv, TransferIsRemembered
<1> QED
  BY FollowInit, FollowStep, <1>1, PTL DEF Spec, HeardTransferIsLast
=============================================================================
