------------------------------ MODULE Checkout ------------------------------
(***************************************************************************)
(* A customer's way from a listed service to a payment order: one page     *)
(* of apps/web-dashboard (release-run-form.tsx), the routes of             *)
(* apps/api-gateway it calls, the catalog, and the GOAT Flow merchant      *)
(* adapter that issues payment orders.                                     *)
(*                                                                         *)
(* A request is handled in the steps its handler awaits, while other       *)
(* requests run; the page may lose the answer and the gateway may die half *)
(* way.  What happens to a run after its order (PaymentFunding) is         *)
(* summarised here; how the page follows it is RunFollowing.               *)
(***************************************************************************)
EXTENDS Catalog, FiniteSets

CONSTANTS
    Terms,         \* [cost, feeRateBps, merchant]: pricing and merchant capability in force
    Budget,        \* the customer's spending limit
    Request,       \* concurrent requests in the gateway
    NoRequest,
    MaxQuotes,     \* bound on quotes
    MaxOrders,     \* bound on the orders the merchant makes of one run
    MaxFaults      \* bound on lost answers, gateway crashes, redeployments

ASSUME NullAssumption == NoRequest \notin Request
ASSUME BoundsAssumption == MaxQuotes \in Nat /\ MaxOrders \in Nat /\ MaxFaults \in Nat

VARIABLES
    terms,         \* terms the deployment quotes now
    quotes,        \* quotes, in order
    runs,          \* runs, in order
    remote,        \* orders at the merchant: [run, terms]
    request,       \* requests in the gateway
    page,          \* state of the release-run form
    faults

gatewayVars == <<terms, quotes, runs, remote>>
vars == <<catalogVars, gatewayVars, request, page, faults>>

NoQuote == 0
NoRun == 0
NoKey == 0
NoOrder == 0

Unpaid == {"QUOTED", "PAYMENT_REQUIRED"}

Idle == [pc |-> "idle", target |-> NoTarget, quote |-> NoQuote, key |-> NoKey, run |-> NoRun,
         status |-> "NONE", order |-> NoOrder]
Answers == {"quoted", "created", "answered", "refused"}
EmptyPage == [target |-> NoTarget, quote |-> NoQuote, key |-> NoKey, keys |-> 0,
              run |-> NoRun, awaits |-> NoRequest]

Init ==
    /\ CatalogInit
    /\ terms \in Terms
    /\ quotes = <<>>
    /\ runs = <<>>
    /\ remote = <<>>
    /\ request = [g \in Request |-> Idle]
    /\ page = EmptyPage
    /\ faults = 0

-----------------------------------------------------------------------------
(* The page: choosing a target, asking for a quote, creating the run.      *)

\* A new target or a new quote request drops quote, run and key.
Emptied(target) == [page EXCEPT !.target = target, !.quote = NoQuote, !.key = NoKey, !.run = NoRun]

\* Picking a card, or the first listing adopted by an empty form.  The directory was
\* read when the page was loaded, at any earlier time.
SelectService ==
    \E target \in listings :
        /\ page' = Emptied(target)
        /\ UNCHANGED <<catalogVars, gatewayVars, request, faults>>

\* The customer is an owner too, and quotes what was just registered.
OnboardOwn ==
    \E g \in Registration :
        /\ Onboard(g)
        /\ page' = Emptied([endpoint |-> g.endpoint, version |-> g.version])
        /\ UNCHANGED <<gatewayVars, request, faults>>

\* Another owner's call, or one whose answer the page did not wait for.
OnboardElsewhere ==
    \E g \in Registration :
        /\ Onboard(g)
        /\ UNCHANGED <<gatewayVars, request, page, faults>>

Busy == page.awaits # NoRequest

\* One call at a time: the buttons are disabled while busy.
Send(g, call) ==
    /\ ~Busy
    /\ request[g] = Idle
    /\ g = CHOOSE h \in Request : request[h] = Idle
    /\ request' = [request EXCEPT ![g] = call]

RequestQuote(g) ==
    /\ page.target # NoTarget
    /\ Len(quotes) < MaxQuotes
    /\ Send(g, [Idle EXCEPT !.pc = "quote", !.target = page.target])
    /\ page' = [Emptied(page.target) EXCEPT !.awaits = g]
    /\ UNCHANGED <<catalogVars, gatewayVars, faults>>

\* Mutant of RequestKey: every click has a key of its own.
RequestKeyPerClick == [page EXCEPT !.keys = page.keys + 1, !.key = page.keys + 1]

\* The key made with the quote is kept for every retry.
RequestKey == page

CreateRun(g) ==
    /\ page.quote # NoQuote
    /\ page.key # NoKey
    /\ page.run = NoRun
    /\ Send(g, [Idle EXCEPT !.pc = "lookup", !.quote = page.quote, !.key = RequestKey.key])
    /\ page' = [RequestKey EXCEPT !.awaits = g]
    /\ UNCHANGED <<catalogVars, gatewayVars, faults>>

\* "Request a new quote" on an expired one.
DismissQuote ==
    /\ page.quote # NoQuote
    /\ quotes[page.quote].expired
    /\ page.run = NoRun
    /\ page' = [page EXCEPT !.quote = NoQuote]
    /\ UNCHANGED <<catalogVars, gatewayVars, request, faults>>

\* An answer reaches the handler that awaits it, whatever the form shows by then.
ReceiveQuote(g) ==
    /\ request[g].pc = "quoted"
    /\ page.awaits = g
    /\ page' = [page EXCEPT !.quote = request[g].quote, !.keys = page.keys + 1,
                            !.key = page.keys + 1, !.awaits = NoRequest]
    /\ request' = [request EXCEPT ![g] = Idle]
    /\ UNCHANGED <<catalogVars, gatewayVars, faults>>

\* createRun goes on to requestPaymentChallenge for the run it was given.
ReceiveRun(g) ==
    /\ request[g].pc = "created"
    /\ page.awaits = g
    /\ request' = [request EXCEPT ![g] = [Idle EXCEPT !.pc = "load", !.run = request[g].run]]
    /\ UNCHANGED <<catalogVars, gatewayVars, page, faults>>

ReceiveChallenge(g) ==
    /\ request[g].pc = "answered"
    /\ page.awaits = g
    /\ page' = [page EXCEPT !.run = request[g].run, !.awaits = NoRequest]
    /\ request' = [request EXCEPT ![g] = Idle]
    /\ UNCHANGED <<catalogVars, gatewayVars, faults>>

ReceiveError(g) ==
    /\ request[g].pc = "refused"
    /\ page.awaits = g
    /\ page' = [page EXCEPT !.awaits = NoRequest]
    /\ request' = [request EXCEPT ![g] = Idle]
    /\ UNCHANGED <<catalogVars, gatewayVars, faults>>

-----------------------------------------------------------------------------
(* The gateway: POST /v1/quotes, /v1/runs and /payment-challenge.          *)

Fault == faults < MaxFaults /\ faults' = faults + 1

\* A call with some of its fields replaced.
With(call, fields) == [f \in DOMAIN call |-> IF f \in DOMAIN fields THEN fields[f] ELSE call[f]]

Proceed(g, fields) == request' = [request EXCEPT ![g] = With(request[g], fields)]

\* The answer is dropped when nobody waits for it any more.
Answered(g, fields) == IF page.awaits = g THEN With(Idle, fields) ELSE Idle
Reply(g, fields) == request' = [request EXCEPT ![g] = Answered(g, fields)]
Refuse(g) == Reply(g, [pc |-> "refused"])

\* The take rate solves fee / (fee + cost) = feeRateBps / 10000, rounded down.
Total(t) == t.cost + (t.cost * t.feeRateBps) \div (10000 - t.feeRateBps)

\* The row of a quote: the terms of the moment, and the chain of the service it is bound to.
StoredQuote(target) == [target |-> target, chain |-> service.chain, terms |-> terms, expired |-> FALSE]

\* Nothing is stored beyond the customer's limit, or for a target the catalog does not know.
HandleQuote(g) ==
    /\ request[g].pc = "quote"
    /\ IF Total(terms) <= Budget /\ Binds(request[g].target)
       THEN /\ quotes' = Append(quotes, StoredQuote(request[g].target))
            /\ Reply(g, [pc |-> "quoted", quote |-> Len(quotes) + 1])
       ELSE /\ Refuse(g)
            /\ UNCHANGED quotes
    /\ UNCHANGED <<catalogVars, terms, runs, remote, page, faults>>

RunsWithKey(key) == {r \in DOMAIN runs : runs[r].key = key}

\* The run of the key is the answer, if it is for the same quote; a new one is
\* drafted for a quote that has not expired.
LookupKey(g) ==
    /\ request[g].pc = "lookup"
    /\ \/ \E r \in RunsWithKey(request[g].key) :
            IF runs[r].quote = request[g].quote
            THEN Reply(g, [pc |-> "created", run |-> r])
            ELSE Refuse(g)
       \/ /\ RunsWithKey(request[g].key) = {}
          /\ IF quotes[request[g].quote].expired
             THEN Refuse(g)
             ELSE Proceed(g, [pc |-> "insert"])
    /\ UNCHANGED <<catalogVars, gatewayVars, page, faults>>

\* createDraftRun and its transition to QUOTED.
DraftedRun(g) == [quote |-> request[g].quote, key |-> request[g].key,
                  status |-> "QUOTED", order |-> NoOrder]

\* request_idempotency_key is unique: the loser of a race answers with the winner's run.
InsertRun(g) ==
    /\ request[g].pc = "insert"
    /\ \/ \E r \in RunsWithKey(request[g].key) :
            /\ Reply(g, [pc |-> "created", run |-> r])
            /\ UNCHANGED runs
       \/ /\ RunsWithKey(request[g].key) = {}
          /\ runs' = Append(runs, DraftedRun(g))
          /\ Reply(g, [pc |-> "created", run |-> Len(runs) + 1])
    /\ UNCHANGED <<catalogVars, terms, quotes, remote, page, faults>>

QuoteOf(r) == quotes[runs[r].quote]

\* The record the handler works on: a run with an order only needs its status.
LoadRun(g) ==
    LET r == request[g].run
    IN  /\ request[g].pc = "load"
        /\ IF runs[r].order # NoOrder
           THEN Proceed(g, [pc |-> "save", status |-> runs[r].status, order |-> runs[r].order])
           ELSE IF runs[r].status = "QUOTED" /\ ~QuoteOf(r).expired
                THEN Proceed(g, [pc |-> "find", status |-> "QUOTED"])
                ELSE Refuse(g)
        /\ UNCHANGED <<catalogVars, gatewayVars, page, faults>>

\* createOrder of the GOAT Flow adapter: an order already stored for the run is reused.
FindOrder(g) ==
    LET r == request[g].run
    IN  /\ request[g].pc = "find"
        /\ IF runs[r].order # NoOrder
           THEN Proceed(g, [pc |-> "save", order |-> runs[r].order])
           ELSE Proceed(g, [pc |-> "remote"])
        /\ UNCHANGED <<catalogVars, gatewayVars, page, faults>>

\* Mutant of OrderedTerms: the order is made out on the terms of the moment.
OrderedTermsCurrent(r) == terms

\* The challenge is created from the quote's own amount and capability snapshot.
OrderedTerms(r) == QuoteOf(r).terms

\* The merchant answers with a new order, or with the one it has for this dappOrderId.
RemoteOrder(g) ==
    LET r == request[g].run
    IN  /\ request[g].pc = "remote"
        /\ \/ /\ Cardinality({o \in DOMAIN remote : remote[o].run = r}) < MaxOrders
              /\ remote' = Append(remote, [run |-> r, terms |-> OrderedTerms(r)])
              /\ Proceed(g, [pc |-> "put", order |-> Len(remote) + 1])
           \/ \E o \in DOMAIN remote :
                /\ remote[o].run = r
                /\ UNCHANGED remote
                /\ Proceed(g, [pc |-> "put", order |-> o])
        /\ UNCHANGED <<catalogVars, terms, quotes, runs, page, faults>>

\* Mutant of PutOrder: the row that was there already is not compared.
PutOrderUnchecked(g) ==
    LET r == request[g].run
    IN  /\ request[g].pc = "put"
        /\ runs' = IF runs[r].order = NoOrder
                   THEN [runs EXCEPT ![r].order = request[g].order] ELSE runs
        /\ Proceed(g, [pc |-> "save"])
        /\ UNCHANGED <<catalogVars, terms, quotes, remote, page, faults>>

\* INSERT ... ON CONFLICT DO NOTHING, then the row is read back and compared;
\* a conflict is answered with the order that is stored.
PutOrder(g) ==
    LET r == request[g].run
    IN  /\ request[g].pc = "put"
        /\ \/ /\ runs[r].order = NoOrder
              /\ runs' = [runs EXCEPT ![r].order = request[g].order]
              /\ Proceed(g, [pc |-> "save"])
           \/ /\ runs[r].order = request[g].order
              /\ UNCHANGED runs
              /\ Proceed(g, [pc |-> "save"])
           \/ /\ runs[r].order \notin {NoOrder, request[g].order}
              /\ UNCHANGED runs
              /\ Reply(g, [pc |-> "answered", run |-> r, order |-> runs[r].order])
        /\ UNCHANGED <<catalogVars, terms, quotes, remote, page, faults>>

\* createOrder fails: an order stored meanwhile is still answered, else it is a 502.
OrderFails(g) ==
    LET r == request[g].run
    IN  /\ Fault
        /\ request[g].pc = "remote"
        /\ IF runs[r].order # NoOrder
           THEN Reply(g, [pc |-> "answered", run |-> r, order |-> runs[r].order])
           ELSE Refuse(g)
        /\ UNCHANGED <<catalogVars, gatewayVars, page>>

\* ensurePaymentRequired: only a record read as QUOTED is moved, and only if the
\* run has not moved since; otherwise the current run is the answer.
SavePaymentRequired(g) ==
    LET r == request[g].run
    IN  /\ request[g].pc = "save"
        /\ IF request[g].status = "QUOTED" /\ runs[r].status = "QUOTED"
           THEN runs' = [runs EXCEPT ![r].status = "PAYMENT_REQUIRED"]
           ELSE UNCHANGED runs
        /\ Reply(g, [pc |-> "answered", run |-> r, order |-> request[g].order])
        /\ UNCHANGED <<catalogVars, terms, quotes, remote, page, faults>>

-----------------------------------------------------------------------------
(* The environment.                                                        *)

\* The connection breaks: the page shows an error, the gateway carries on.
AnswerLost ==
    /\ Fault
    /\ Busy
    /\ page' = [page EXCEPT !.awaits = NoRequest]
    /\ request' = IF request[page.awaits].pc \in Answers
                  THEN [request EXCEPT ![page.awaits] = Idle] ELSE request
    /\ UNCHANGED <<catalogVars, gatewayVars>>

\* The gateway dies with the requests it was handling.
GatewayDies ==
    /\ Fault
    /\ \E g \in Request : request[g] # Idle
    /\ request' = [g \in Request |-> Answered(g, [pc |-> "refused"])]
    /\ UNCHANGED <<catalogVars, gatewayVars, page>>

\* A deployment with other prices or another merchant capability.
Redeploy ==
    /\ Fault
    /\ \E t \in Terms \ {terms} : terms' = t
    /\ UNCHANGED <<catalogVars, quotes, runs, remote, request, page>>

QuoteExpires ==
    \E q \in DOMAIN quotes :
        /\ ~quotes[q].expired
        /\ quotes' = [quotes EXCEPT ![q].expired = TRUE]
        /\ UNCHANGED <<catalogVars, terms, runs, remote, request, page, faults>>

\* PaymentFunding: the order is paid, or the run expires.
RunAdvances ==
    \E r \in DOMAIN runs :
        /\ \/ /\ runs[r].status = "PAYMENT_REQUIRED"
              /\ runs' = [runs EXCEPT ![r].status = "FUNDED"]
           \/ /\ runs[r].status \in Unpaid
              /\ QuoteOf(r).expired
              /\ runs' = [runs EXCEPT ![r].status = "EXPIRED"]
        /\ UNCHANGED <<catalogVars, terms, quotes, remote, request, page, faults>>

-----------------------------------------------------------------------------
Handle(g) ==
    \/ HandleQuote(g) \/ LookupKey(g) \/ InsertRun(g)
    \/ LoadRun(g) \/ FindOrder(g) \/ RemoteOrder(g) \/ OrderFails(g) \/ PutOrder(g)
    \/ SavePaymentRequired(g)

Receive(g) == ReceiveQuote(g) \/ ReceiveRun(g) \/ ReceiveChallenge(g) \/ ReceiveError(g)

Next ==
    \/ SelectService \/ OnboardOwn \/ OnboardElsewhere \/ DismissQuote
    \/ \E g \in Request : RequestQuote(g) \/ CreateRun(g) \/ Handle(g) \/ Receive(g)
    \/ AnswerLost \/ GatewayDies \/ Redeploy
    \/ QuoteExpires \/ RunAdvances

Spec == Init /\ [][Next]_vars

-----------------------------------------------------------------------------
\* A quote becomes one run, however often its button is pressed, answers are lost
\* and two of its requests run at once (POST /v1/runs, "Create idempotent run").
OneRunPerQuote == \A r, s \in DOMAIN runs : runs[r].quote = runs[s].quote => r = s

\* What the page asks the customer to pay for its run is what the quote beside it
\* says, and within the customer's limit: whatever was redeployed, re-quoted or
\* selected while requests were under way.
AskedAsQuoted ==
    \A o \in DOMAIN remote :
        page.run # NoRun /\ page.quote # NoQuote /\ runs[page.run].order = o
            => /\ remote[o].run = page.run
               /\ remote[o].terms = quotes[page.quote].terms
               /\ Total(remote[o].terms) <= Budget

\* The order a payment-challenge answer names is the one stored for the run, which
\* is where the payment will be looked for, even if two requests made two orders.
AnsweredOrderIsStored ==
    \A g \in Request : request[g].pc = "answered" => request[g].order = runs[request[g].run].order

\* A quote's endpoint and chain were registered together, although onboarding
\* rewrites the row while browsers still show, and quote, what it was before.
QuotedTargetWasRegistered ==
    \A q \in DOMAIN quotes : \E i \in DOMAIN registered :
        /\ registered[i].endpoint = quotes[q].target.endpoint
        /\ registered[i].chain = quotes[q].chain
=============================================================================
