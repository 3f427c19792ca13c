---------------------------- MODULE RunFollowing ----------------------------
(***************************************************************************)
(* How the pages of apps/web-dashboard follow a run and pay for it:        *)
(* useRunProgress polls the API every few seconds, for the release-run     *)
(* form and for the run's permalink, while the run moves on, the customer  *)
(* shows another run and the session token expires; WalletPayPanel lives   *)
(* as long as the polled data shows a run without its payment.  One        *)
(* backend is modelled: each keeps runs and sessions of its own.           *)
(***************************************************************************)
EXTENDS Naturals

CONSTANTS
    Run, NoRun,
    Reached,       \* statuses runs go through
    Poll,          \* polls that can be in flight together
    MaxFaults      \* bound on session expiries, lost polls and lost wallet answers

ASSUME NullAssumption == NoRun \notin Run
ASSUME BoundAssumption == MaxFaults \in Nat

VARIABLES
    status,        \* status of every run, in its backend's database
    attested,      \* runs whose attestation is stored
    page,          \* the run being followed, and by which page
    polls,         \* polls in flight, those of abandoned effects included
    shown,         \* what the page shows of its run
    session,       \* does this browser hold a valid token?
    panel,         \* what the pay panel is at, "absent" when it is not mounted
    transfers,     \* transfers sent since the page follows its run
    heard,         \* has the wallet answered one of them with its hash?
    faults

runVars == <<status, attested>>
payVars == <<panel, transfers, heard>>
vars == <<runVars, page, polls, shown, session, payVars, faults>>

Life == INSTANCE RunLifecycle WITH
            Run <- Run,
            run <- [r \in Run |-> [status |-> status[r], revision |-> 0]]

NoPage == [kind |-> "form", run |-> NoRun]
NoPoll == [run |-> NoRun, cancelled |-> FALSE, status |-> "NONE", attestation |-> "NONE"]
NothingShown == [run |-> NoRun, status |-> "NONE", attestation |-> "NONE"]

Init ==
    /\ status = [r \in Run |-> "PAYMENT_REQUIRED"]
    /\ attested = {}
    /\ page = NoPage
    /\ polls = [i \in Poll |-> NoPoll]
    /\ shown = NothingShown
    /\ session = FALSE
    /\ panel = "absent"
    /\ transfers = 0
    /\ heard = FALSE
    /\ faults = 0

Fault == faults < MaxFaults /\ faults' = faults + 1

-----------------------------------------------------------------------------
(* The run, as the pages see it.                                           *)

\* Any transition of the table within Reached; the attestation is stored before its delivery.
Advance(r) ==
    \E rule \in Life!Rules :
        /\ rule[1] = status[r]
        /\ rule[2] \in Reached
        /\ rule[2] \in Life!Delivered => r \in attested
        /\ status' = [status EXCEPT ![r] = rule[2]]
        /\ UNCHANGED <<attested, page, polls, shown, session, payVars, faults>>

StoreAttestation(r) ==
    /\ status[r] = "ATTESTING"
    /\ attested' = attested \cup {r}
    /\ UNCHANGED <<status, page, polls, shown, session, payVars, faults>>

-----------------------------------------------------------------------------
(* What is on the page.                                                    *)

\* Statuses before the first step of the stepper; a closed run never reached it.
Unpaid == {"DRAFT", "QUOTED", "PAYMENT_REQUIRED", "CANCELLED", "EXPIRED"}

\* The pay panel is the payment card's preview, mounted while its run shows as unpaid.
PanelMounted(data) == data.run # NoRun /\ data.status \in Unpaid

\* handlePay goes on when its panel is unmounted.
Paying == {"switching", "reading", "confirming"}

\* A panel that stays mounted keeps its state; a new one is handed the form's wallet,
\* and checks its network at once, or has to ask for one.
PanelFor(data) ==
    IF PanelMounted(data)
    THEN IF panel \notin {"absent", "orphaned"} THEN panel
         ELSE IF page.kind = "form" THEN "checking" ELSE "connect"
    ELSE IF panel \in Paying \cup {"orphaned"} THEN "orphaned" ELSE "absent"

Display(data) == shown' = data /\ panel' = PanelFor(data)

-----------------------------------------------------------------------------
(* The effect of useRunProgress.                                           *)

Live == {i \in Poll : polls[i].run # NoRun /\ ~polls[i].cancelled}

\* Cleaning the effect up: a poll in flight will be ignored, so what it has read
\* is forgotten here.
Cancelled ==
    [i \in Poll |-> IF polls[i].run = NoRun THEN NoPoll
                    ELSE [NoPoll EXCEPT !.run = polls[i].run, !.cancelled = TRUE]]

\* Another run, or none: the old effect is cleaned up.  Its data is dropped, which the
\* hook does when there is no run: the form lets go of its run before it creates another,
\* and the permalink's page is mounted anew.  A payment begun before is of that visit.
Show(next) ==
    /\ page' = next
    /\ polls' = Cancelled
    /\ shown' = NothingShown
    /\ panel' = "absent"
    /\ transfers' = 0
    /\ heard' = FALSE

\* POST /v1/auth/session: a wallet signature buys a token.
SignIn == session' = TRUE

\* createRun of the form, which signs in first.
ShowCreatedRun(r) ==
    /\ page.run = NoRun
    /\ Show([kind |-> "form", run |-> r])
    /\ SignIn
    /\ UNCHANGED <<runVars, faults>>

\* The permalink of a run; a wallet that is already authorised signs in at once.
OpenDetail(r) ==
    /\ page # [kind |-> "detail", run |-> r]
    /\ Show([kind |-> "detail", run |-> r])
    /\ SignIn \/ UNCHANGED session
    /\ UNCHANGED <<runVars, faults>>

\* A new target, a new quote, or the way back to the form.
Leave ==
    /\ page.run # NoRun
    /\ Show(NoPage)
    /\ UNCHANGED <<runVars, session, faults>>

\* Mutant of Started: the flag is one ref of the component, reset by the next effect.
StartedSharing(i) ==
    [j \in Poll |-> IF j = i THEN [NoPoll EXCEPT !.run = page.run]
                    ELSE [polls[j] EXCEPT !.cancelled = FALSE]]

Started(i) == [polls EXCEPT ![i] = [NoPoll EXCEPT !.run = page.run]]

\* Mutant of KeepsPolling: the interval ends with the run.
KeepsPollingUntilTerminal == shown.status \notin Life!Delivered \cup {"CANCELLED", "EXPIRED"}

\* A terminal status only makes the interval longer.
KeepsPolling == TRUE

\* One poll at a time: the next is scheduled when the last one has been handled.
StartPoll ==
    /\ page.run # NoRun
    /\ Live = {}
    /\ KeepsPolling
    /\ \E i \in Poll :
        /\ polls[i] = NoPoll
        /\ i = CHOOSE j \in Poll : polls[j] = NoPoll
        /\ polls' = Started(i)
    /\ UNCHANGED <<runVars, page, shown, session, payVars, faults>>

\* requireSession and loadOwnedRun, in front of every route of a run.
Authorized == session

\* The requests of a poll are answered in any order; evidence and plan go as the
\* attestation does, null until there is one.
ReadRun(i) ==
    /\ i \in Live
    /\ Authorized
    /\ polls[i].status = "NONE"
    /\ polls' = [polls EXCEPT ![i].status = status[polls[i].run]]
    /\ UNCHANGED <<runVars, page, shown, session, payVars, faults>>

ReadAttestation(i) ==
    /\ i \in Live
    /\ Authorized
    /\ polls[i].attestation = "NONE"
    /\ polls' = [polls EXCEPT ![i].attestation = IF polls[i].run \in attested THEN "YES" ELSE "NO"]
    /\ UNCHANGED <<runVars, page, shown, session, payVars, faults>>

PollDone(i) ==
    /\ i \in Live
    /\ polls[i].status # "NONE"
    /\ polls[i].attestation # "NONE"
    /\ Display([run |-> polls[i].run, status |-> polls[i].status, attestation |-> polls[i].attestation])
    /\ polls' = [polls EXCEPT ![i] = NoPoll]
    /\ UNCHANGED <<runVars, page, session, transfers, heard, faults>>

\* Mutant of AfterError: an error is shown in place of the data.
AfterErrorBlank == NothingShown

\* An error is shown beside the old data.
AfterError == shown

\* Promise.all fails with its first request.
PollRefused(i) ==
    /\ i \in Live
    /\ ~Authorized
    /\ Display(AfterError)
    /\ polls' = [polls EXCEPT ![i] = NoPoll]
    /\ UNCHANGED <<runVars, page, session, transfers, heard, faults>>

PollLost(i) ==
    /\ Fault
    /\ i \in Live
    /\ Display(AfterError)
    /\ polls' = [polls EXCEPT ![i] = NoPoll]
    /\ UNCHANGED <<runVars, page, session, transfers, heard>>

\* Its answer, whatever it is, is dropped.
PollIgnored(i) ==
    /\ polls[i].cancelled
    /\ polls' = [polls EXCEPT ![i] = NoPoll]
    /\ UNCHANGED <<runVars, page, shown, session, payVars, faults>>

-----------------------------------------------------------------------------
(* Sessions.                                                               *)

SessionExpires ==
    /\ Fault
    /\ session
    /\ session' = FALSE
    /\ UNCHANGED <<runVars, page, polls, shown, payVars>>

\* handleConnect, offered by the permalink's page only.
Connect ==
    /\ page.kind = "detail"
    /\ ~session
    /\ SignIn
    /\ UNCHANGED <<runVars, page, polls, shown, payVars, faults>>

-----------------------------------------------------------------------------
(* WalletPayPanel: what it awaits of the wallet may fail, and leaves the   *)
(* button to try again.                                                    *)

PanelMoves(from, to) ==
    /\ panel = from
    /\ panel' \in to
    /\ UNCHANGED <<runVars, page, polls, shown, session, transfers, heard, faults>>

\* Connect, and the effect that switches the network as soon as there is an address,
\* after which the button is offered whatever came of it.
ConnectToPay == PanelMoves("connect", {"connect", "checking"})

NetworkChecked == PanelMoves("checking", {"ready"})

\* Busy and paid panels have no button.
Payable == panel = "ready"

Pay ==
    /\ Payable
    /\ PanelMoves(panel, {"switching"})

\* ensureChain asks, reads the chain again, and throws if the wallet stayed elsewhere.
ChainEnsured == PanelMoves("switching", {"reading", "ready"})

\* Too little of the token, or no token contract on this chain, ends here.
BalanceRead == PanelMoves("reading", {"confirming", "ready"})

\* What handlePay leaves, of its panel or of nothing.
After(outcome) == IF panel = "orphaned" THEN "absent" ELSE outcome

\* The customer confirms the transaction, and the panel remembers its hash.
Confirmed ==
    /\ panel' = After("paid")
    /\ transfers' = transfers + 1
    /\ heard' = TRUE
    /\ UNCHANGED faults

\* The customer rejects it, or an orphaned payment ends before it gets there.
Rejected ==
    /\ panel' = After("ready")
    /\ UNCHANGED <<transfers, heard, faults>>

\* The transaction was sent and its request fails all the same: one catch takes this for
\* a rejection, and the button is offered again.
AnswerLost ==
    /\ Fault
    /\ panel' = After("ready")
    /\ transfers' = transfers + 1
    /\ UNCHANGED heard

WalletAnswers ==
    /\ panel \in {"confirming", "orphaned"}
    /\ Confirmed \/ Rejected \/ AnswerLost
    /\ UNCHANGED <<runVars, page, polls, shown, session>>

-----------------------------------------------------------------------------
Read(i) == ReadRun(i) \/ ReadAttestation(i) \/ PollDone(i) \/ PollRefused(i)

Next ==
    \/ \E r \in Run : Advance(r) \/ StoreAttestation(r) \/ ShowCreatedRun(r) \/ OpenDetail(r)
    \/ Leave
    \/ StartPoll
    \/ \E i \in Poll : Read(i) \/ PollLost(i) \/ PollIgnored(i)
    \/ SessionExpires
    \/ Connect
    \/ ConnectToPay \/ NetworkChecked
    \/ Pay \/ ChainEnsured \/ BalanceRead \/ WalletAnswers

Spec == Init /\ [][Next]_vars

\* Timers fire, requests end, and the customer connects when the page asks for it.
FairSpec ==
    /\ Spec
    /\ WF_vars(StartPoll)
    /\ \A i \in Poll : WF_vars(Read(i)) /\ WF_vars(PollIgnored(i))
    /\ WF_vars(Connect)

-----------------------------------------------------------------------------
\* What the page shows is of the run it follows: the answer to a poll of an earlier
\* run never replaces it ("each invocation must only ever cancel itself").
ProgressIsOfShownRun == shown.run \in {NoRun, page.run}

\* The transfer whose hash the wallet gave is the last one this visit sends, although
\* polls fail or are refused, the status shown lags behind the payment, and earlier
\* attempts were rejected, lost their answer or outlived their panel: the panel that
\* knows of the transfer stays mounted until the payment shows.
HeardTransferIsLast == [][heard /\ heard' => transfers' = transfers]_vars

\* A delivered run that a page keeps following gets its attestation shown, although
\* a poll may read the status after the delivery and the attestation before it; only
\* the form's page, which has no button to sign in again, may be stopped by its session.
DeliveredIsShown ==
    \A r \in Run :
        (page.run = r /\ status[r] \in Life!Delivered)
            ~> (page.run # r \/ shown.attestation = "YES" \/ (page.kind = "form" /\ ~session))
=============================================================================
