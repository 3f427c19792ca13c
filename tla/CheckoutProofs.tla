--------------------------- MODULE CheckoutProofs ---------------------------
(***************************************************************************)
(* What the checkout promises, for any number of concurrent requests, of   *)
(* quotes, of orders and of faults, any catalog and any terms.             *)
(*                                                                         *)
(* Everything rests on two facts that span the page, the requests in       *)
(* flight and the stored runs: wherever a quote appears together with a    *)
(* key, it appears with the same key, and that key with no other quote;    *)
(* and a request whose answer is ready is the one the page awaits.         *)
(***************************************************************************)
EXTENDS Checkout, SequenceTheorems, TLAPS

-----------------------------------------------------------------------------
(* Types.                                                                  *)

Endpoint == {g.endpoint : g \in Registration}
Version == {g.version : g \in Registration}
Chain == {g.chain : g \in Registration}

AnyTarget == [endpoint : Endpoint \cup {"NONE"}, version : Version \cup {"NONE"}]

Status == {"QUOTED", "PAYMENT_REQUIRED", "FUNDED", "EXPIRED"}

Step == {"idle", "quote", "lookup", "insert", "load", "find", "remote", "put", "save"} \cup Answers

Call == [pc : Step, target : AnyTarget, quote : Nat, key : Nat, run : Nat,
         status : Status \cup {"NONE"}, order : Nat]

QuoteRecord == [target : AnyTarget, chain : Chain, terms : Terms, expired : BOOLEAN]

RunRecord == [quote : Nat, key : Nat, status : Status, order : Nat]

OrderRecord == [run : Nat, terms : Terms]

PageRecord == [target : AnyTarget, quote : Nat, key : Nat, keys : Nat, run : Nat,
               awaits : Request \cup {NoRequest}]

CatalogTyped ==
    /\ service \in [endpoint : Endpoint, chain : Chain, listed : {g.listed : g \in Registration}]
    /\ releases \in Seq(Version)
    /\ releases # <<>>
    /\ listings \subseteq AnyTarget
    /\ registered \in Seq(Registration)

StoreTyped ==
    /\ terms \in Terms
    /\ quotes \in Seq(QuoteRecord)
    /\ runs \in Seq(RunRecord)
    /\ remote \in Seq(OrderRecord)

TypeOK ==
    /\ CatalogTyped
    /\ StoreTyped
    /\ request \in [Request -> Call]
    /\ page \in PageRecord

-----------------------------------------------------------------------------
(* The inductive invariant.                                                *)

\* The catalog's row is one that was registered, and so is what a quote took from it.
WasRegistered(endpoint, chain) ==
    \E i \in DOMAIN registered : registered[i].endpoint = endpoint /\ registered[i].chain = chain

ServiceWasRegistered == WasRegistered(service.endpoint, service.chain)

QuotesWithinBudget == \A q \in DOMAIN quotes : Total(quotes[q].terms) <= Budget

\* Places where a quote goes with an idempotency key.
PageAsks(q, k) == page.quote = q /\ q # NoQuote /\ page.key = k
CallAsks(g, q, k) == request[g].pc \in {"lookup", "insert"} /\ request[g].quote = q /\ request[g].key = k
RunAsks(r, q, k) == runs[r].quote = q /\ runs[r].key = k

Asks(q, k) ==
    \/ PageAsks(q, k)
    \/ \E g \in Request : CallAsks(g, q, k)
    \/ \E r \in DOMAIN runs : RunAsks(r, q, k)

AskedPairsExist == \A q, k \in Nat : Asks(q, k) => q \in 1..Len(quotes) /\ k \in 1..page.keys

AskedPairsMatch ==
    \A q, k, p, j \in Nat : Asks(q, k) /\ Asks(p, j) => (q = p <=> k = j)

KeysAreUnique == \A r, s \in DOMAIN runs : runs[r].key = runs[s].key => r = s

NewQuoteIsUnasked ==
    \A g \in Request : request[g].pc = "quoted" =>
        /\ request[g].quote \in 1..Len(quotes)
        /\ \A k \in Nat : ~Asks(request[g].quote, k)

PairsInv == AskedPairsExist /\ AskedPairsMatch /\ KeysAreUnique /\ NewQuoteIsUnasked

\* Orders and the runs they were made for.
RunsOrders ==
    \A r \in DOMAIN runs : runs[r].order # NoOrder =>
        runs[r].order \in DOMAIN remote /\ remote[runs[r].order].run = r

OrdersTerms ==
    \A o \in DOMAIN remote :
        /\ remote[o].run \in DOMAIN runs
        /\ remote[o].terms = QuoteOf(remote[o].run).terms

OrdersInv == RunsOrders /\ OrdersTerms

\* A request works on a run that exists and with an order of that run.
OfRun == {"created", "load", "find", "remote", "put", "save", "answered"}

CallOK(g) ==
    /\ request[g].pc \in OfRun => request[g].run \in DOMAIN runs
    /\ request[g].pc = "put" =>
        request[g].order \in DOMAIN remote /\ remote[request[g].order].run = request[g].run
    /\ request[g].pc \in {"save", "answered"} =>
        request[g].order # NoOrder /\ request[g].order = runs[request[g].run].order

CallsInv == \A g \in Request : CallOK(g)

AnswersAreAwaited == \A g \in Request : request[g].pc \in Answers => page.awaits = g

\* While the page awaits a request, it shows no run, and the quote of that request or none.
AwaitedIsShown ==
    Busy =>
        LET g == page.awaits
        IN  /\ page.run = NoRun
            /\ request[g].pc \in {"quote", "quoted"} => page.quote = NoQuote
            /\ page.quote # NoQuote /\ request[g].pc \in {"lookup", "insert"} =>
                request[g].quote = page.quote
            /\ page.quote # NoQuote /\ request[g].pc \in OfRun =>
                runs[request[g].run].quote = page.quote

ShownRunIsOfQuote ==
    page.run # NoRun =>
        /\ page.run \in DOMAIN runs
        /\ page.quote # NoQuote => runs[page.run].quote = page.quote

PageInv == AnswersAreAwaited /\ AwaitedIsShown /\ ShownRunIsOfQuote

CheckoutInv ==
    /\ TypeOK
    /\ ServiceWasRegistered
    /\ QuotedTargetWasRegistered
    /\ QuotesWithinBudget
    /\ PairsInv
    /\ OrdersInv
    /\ CallsInv
    /\ PageInv

-----------------------------------------------------------------------------
(* Facts about the operators.                                              *)

\* Overriding fields of a call keeps the others.
LEMMA WithFields ==
    ASSUME NEW c \in Call, NEW fields, DOMAIN fields \subseteq DOMAIN c
    PROVE  /\ DOMAIN c = {"pc", "target", "quote", "key", "run", "status", "order"}
           /\ With(c, fields) =
                [pc     |-> IF "pc" \in DOMAIN fields THEN fields["pc"] ELSE c.pc,
                 target |-> IF "target" \in DOMAIN fields THEN fields["target"] ELSE c.target,
                 quote  |-> IF "quote" \in DOMAIN fields THEN fields["quote"] ELSE c.quote,
                 key    |-> IF "key" \in DOMAIN fields THEN fields["key"] ELSE c.key,
                 run    |-> IF "run" \in DOMAIN fields THEN fields["run"] ELSE c.run,
                 status |-> IF "status" \in DOMAIN fields THEN fields["status"] ELSE c.status,
                 order  |-> IF "order" \in DOMAIN fields THEN fields["order"] ELSE c.order]
<1>1. DOMAIN c = {"pc", "target", "quote", "key", "run", "status", "order"}
  BY DEF Call
<1> DEFINE merged(f) == IF f \in DOMAIN fields THEN fields[f] ELSE c[f]
           record == [pc |-> merged("pc"), target |-> merged("target"), quote |-> merged("quote"),
                      key |-> merged("key"), run |-> merged("run"), status |-> merged("status"),
                      order |-> merged("order")]
<1>2. With(c, fields) = [f \in DOMAIN c |-> merged(f)]
  BY DEF With
<1> HIDE DEF merged
<1>3. \A f \in DOMAIN c : record[f] = merged(f)
  BY <1>1
<1>4. record = [f \in DOMAIN c |-> record[f]]
  BY <1>1
<1>5. With(c, fields) = record
  BY <1>2, <1>3, <1>4
<1> QED
  BY <1>1, <1>5 DEF merged

LEMMA AppendElements ==
    ASSUME NEW S, NEW s \in Seq(S), NEW e \in S
    PROVE  /\ Append(s, e) \in Seq(S)
           /\ Len(Append(s, e)) = Len(s) + 1
           /\ DOMAIN s = 1..Len(s)
           /\ DOMAIN Append(s, e) = 1..(Len(s) + 1)
           /\ Len(s) \in Nat
           /\ \A i \in 1..Len(s) : Append(s, e)[i] = s[i] /\ s[i] \in S
           /\ Append(s, e)[Len(s) + 1] = e
OBVIOUS

LEMMA ReplaceElement ==
    ASSUME NEW S, NEW s \in Seq(S), NEW n \in DOMAIN s, NEW e \in S
    PROVE  /\ [s EXCEPT ![n] = e] \in Seq(S)
           /\ Len([s EXCEPT ![n] = e]) = Len(s)
           /\ DOMAIN s = 1..Len(s)
           /\ DOMAIN [s EXCEPT ![n] = e] = 1..Len(s)
           /\ \A i \in DOMAIN s : [s EXCEPT ![n] = e][i] = IF i = n THEN e ELSE s[i]
BY ExceptSeq

LEMMA SeqDomain ==
    ASSUME NEW S, NEW s \in Seq(S)
    PROVE  Len(s) \in Nat /\ DOMAIN s = 1..Len(s) /\ \A i \in DOMAIN s : s[i] \in S
OBVIOUS

\* The fields of stored rows.
LEMMA StoredFields ==
    ASSUME StoreTyped
    PROVE  /\ \A q \in DOMAIN quotes : quotes[q] \in QuoteRecord /\ quotes[q].terms \in Terms
           /\ \A r \in DOMAIN runs : /\ runs[r] \in RunRecord /\ runs[r].status \in Status
                                     /\ runs[r].quote \in Nat /\ runs[r].key \in Nat
                                     /\ runs[r].order \in Nat
           /\ \A o \in DOMAIN remote : remote[o] \in OrderRecord /\ remote[o].run \in Nat
           /\ DOMAIN quotes = 1..Len(quotes) /\ Len(quotes) \in Nat
           /\ DOMAIN runs = 1..Len(runs) /\ Len(runs) \in Nat
           /\ DOMAIN remote = 1..Len(remote) /\ Len(remote) \in Nat
<1>1. \A q \in DOMAIN quotes : quotes[q] \in QuoteRecord
  BY SeqDomain DEF StoreTyped
<1>2. \A r \in DOMAIN runs : runs[r] \in RunRecord
  BY SeqDomain DEF StoreTyped
<1>3. \A o \in DOMAIN remote : remote[o] \in OrderRecord
  BY SeqDomain DEF StoreTyped
<1>4. /\ DOMAIN quotes = 1..Len(quotes) /\ Len(quotes) \in Nat
      /\ DOMAIN runs = 1..Len(runs) /\ Len(runs) \in Nat
      /\ DOMAIN remote = 1..Len(remote) /\ Len(remote) \in Nat
  BY SeqDomain DEF StoreTyped
<1> QED
  BY <1>1, <1>2, <1>3, <1>4 DEF QuoteRecord, RunRecord, OrderRecord

LEMMA IdleTyped == Idle \in Call /\ NoTarget \in AnyTarget
BY DEF Idle, Call, Step, Answers, NoTarget, AnyTarget, NoQuote, NoKey, NoRun, NoOrder

\* What Answered leaves of a request: its answer if the page waits for it, else nothing.
LEMMA AnsweredFields ==
    ASSUME NEW g, NEW fields, DOMAIN fields \subseteq DOMAIN Idle
    PROVE  \/ page.awaits = g /\ Answered(g, fields) = With(Idle, fields)
           \/ page.awaits # g /\ Answered(g, fields) = Idle
BY DEF Answered

LEMMA RefusedCall ==
    /\ With(Idle, [pc |-> "refused"]) \in Call
    /\ With(Idle, [pc |-> "refused"]).pc = "refused"
BY IdleTyped, WithFields DEF Call, Step, Answers

LEMMA CreatedCall ==
    ASSUME NEW r \in Nat
    PROVE  /\ With(Idle, [pc |-> "created", run |-> r]) \in Call
           /\ With(Idle, [pc |-> "created", run |-> r]).pc = "created"
           /\ With(Idle, [pc |-> "created", run |-> r]).run = r
BY IdleTyped, WithFields DEF Call, Step, Answers

LEMMA QuotedCall ==
    ASSUME NEW q \in Nat
    PROVE  /\ With(Idle, [pc |-> "quoted", quote |-> q]) \in Call
           /\ With(Idle, [pc |-> "quoted", quote |-> q]).pc = "quoted"
           /\ With(Idle, [pc |-> "quoted", quote |-> q]).quote = q
BY IdleTyped, WithFields DEF Call, Step, Answers

LEMMA OrderedCall ==
    ASSUME NEW r \in Nat, NEW o \in Nat
    PROVE  /\ With(Idle, [pc |-> "answered", run |-> r, order |-> o]) \in Call
           /\ With(Idle, [pc |-> "answered", run |-> r, order |-> o]).pc = "answered"
           /\ With(Idle, [pc |-> "answered", run |-> r, order |-> o]).run = r
           /\ With(Idle, [pc |-> "answered", run |-> r, order |-> o]).order = o
<1> DEFINE fields == [pc |-> "answered", run |-> r, order |-> o]
<1>1. DOMAIN fields = {"pc", "run", "order"}
  OBVIOUS
<1>2. /\ "pc" \in DOMAIN fields /\ "run" \in DOMAIN fields /\ "order" \in DOMAIN fields
      /\ "target" \notin DOMAIN fields /\ "quote" \notin DOMAIN fields
      /\ "key" \notin DOMAIN fields /\ "status" \notin DOMAIN fields
      /\ fields["pc"] = "answered" /\ fields["run"] = r /\ fields["order"] = o
  BY <1>1
<1>3. DOMAIN fields \subseteq DOMAIN Idle
  BY <1>1, IdleTyped DEF Call
<1> HIDE DEF fields
<1>4. With(Idle, fields) = [pc |-> "answered", target |-> Idle.target, quote |-> Idle.quote,
                            key |-> Idle.key, run |-> r, status |-> Idle.status, order |-> o]
  BY <1>2, <1>3, IdleTyped, WithFields
<1>5. With(Idle, fields) \in Call
  BY <1>4, IdleTyped DEF Call, Step, Answers
<1> QED
  BY <1>4, <1>5 DEF fields

\* A request that goes on keeps its quote, its key and its run.
LEMMA StepCall ==
    ASSUME NEW c \in Call, NEW step \in Step
    PROVE  LET d == With(c, [pc |-> step])
           IN  d \in Call /\ d.pc = step /\ d.quote = c.quote /\ d.key = c.key /\ d.run = c.run
               /\ d.order = c.order
BY WithFields DEF Call

LEMMA StatusCall ==
    ASSUME NEW c \in Call, NEW step \in Step, NEW status \in Status
    PROVE  LET d == With(c, [pc |-> step, status |-> status])
           IN  d \in Call /\ d.pc = step /\ d.quote = c.quote /\ d.key = c.key /\ d.run = c.run
BY WithFields DEF Call

LEMMA OrderCall ==
    ASSUME NEW c \in Call, NEW step \in Step, NEW order \in Nat
    PROVE  LET d == With(c, [pc |-> step, order |-> order])
           IN  d \in Call /\ d.pc = step /\ d.quote = c.quote /\ d.key = c.key /\ d.run = c.run
               /\ d.order = order
BY WithFields DEF Call

LEMMA StatusOrderCall ==
    ASSUME NEW c \in Call, NEW step \in Step, NEW status \in Status, NEW order \in Nat
    PROVE  LET d == With(c, [pc |-> step, status |-> status, order |-> order])
           IN  d \in Call /\ d.pc = step /\ d.quote = c.quote /\ d.key = c.key /\ d.run = c.run
               /\ d.order = order
BY WithFields DEF Call

-----------------------------------------------------------------------------
(* What every step keeps: rows are added, and of a stored row neither the  *)
(* terms, nor quote and key, nor an order once set ever change.            *)

Grown ==
    /\ Len(quotes) <= Len(quotes')
    /\ \A q \in DOMAIN quotes : quotes'[q].terms = quotes[q].terms
    /\ Len(runs) <= Len(runs')
    /\ \A r \in DOMAIN runs :
        /\ runs'[r].quote = runs[r].quote
        /\ runs'[r].key = runs[r].key
        /\ runs[r].order # NoOrder => runs'[r].order = runs[r].order
    /\ Len(remote) <= Len(remote')
    /\ \A o \in DOMAIN remote : remote'[o] = remote[o]

LEMMA SameRowsGrow == ASSUME StoreTyped, UNCHANGED <<quotes, runs, remote>> PROVE Grown
<1>1. Len(quotes) \in Nat /\ Len(runs) \in Nat /\ Len(remote) \in Nat
  BY SeqDomain DEF StoreTyped
<1> QED
  BY <1>1 DEF Grown

LEMMA GrownDomains ==
    ASSUME StoreTyped, StoreTyped', Grown
    PROVE  /\ DOMAIN quotes \subseteq DOMAIN quotes' /\ DOMAIN runs \subseteq DOMAIN runs'
           /\ DOMAIN remote \subseteq DOMAIN remote'
<1>1. /\ DOMAIN quotes = 1..Len(quotes) /\ DOMAIN quotes' = 1..Len(quotes')
      /\ DOMAIN runs = 1..Len(runs) /\ DOMAIN runs' = 1..Len(runs')
      /\ DOMAIN remote = 1..Len(remote) /\ DOMAIN remote' = 1..Len(remote')
  BY SeqDomain DEF StoreTyped
<1>2. /\ Len(quotes) \in Nat /\ Len(quotes)' \in Nat /\ Len(runs) \in Nat /\ Len(runs)' \in Nat
      /\ Len(remote) \in Nat /\ Len(remote)' \in Nat
  BY SeqDomain DEF StoreTyped
<1> QED
  BY <1>1, <1>2 DEF Grown

\* A request that a step leaves alone works on with what it had.
LEMMA CallCarries ==
    ASSUME StoreTyped, StoreTyped', Grown, NEW g \in Request, CallOK(g), request'[g] = request[g]
    PROVE  CallOK(g)'
<1>1. DOMAIN runs \subseteq DOMAIN runs' /\ DOMAIN remote \subseteq DOMAIN remote'
  BY GrownDomains
<1>2. request[g].pc = "put" => request[g].order \in DOMAIN remote
                               /\ remote'[request[g].order].run = request[g].run
  BY DEF CallOK, Grown
<1>3. request[g].pc \in {"save", "answered"} =>
        request[g].order # NoOrder /\ request[g].order = runs'[request[g].run].order
  BY DEF CallOK, Grown, OfRun
<1> QED
  BY <1>1, <1>2, <1>3 DEF CallOK

\* Orders stay with their runs, whatever else is stored.
LEMMA OrdersCarry ==
    ASSUME CheckoutInv, StoreTyped', Grown,
           \A r \in DOMAIN runs' : runs'[r].order # NoOrder =>
               \/ r \in DOMAIN runs /\ runs'[r].order = runs[r].order
               \/ runs'[r].order \in DOMAIN remote /\ remote[runs'[r].order].run = r,
           \A o \in DOMAIN remote' :
               \/ o \in DOMAIN remote
               \/ remote'[o].run \in DOMAIN runs /\ remote'[o].terms = QuoteOf(remote'[o].run).terms
    PROVE  OrdersInv'
<1>1. /\ DOMAIN quotes \subseteq DOMAIN quotes' /\ DOMAIN runs \subseteq DOMAIN runs'
      /\ DOMAIN remote \subseteq DOMAIN remote'
  BY GrownDomains DEF CheckoutInv, TypeOK
<1>2. \A r \in DOMAIN runs : runs[r].quote \in DOMAIN quotes
  <2> SUFFICES ASSUME NEW r \in DOMAIN runs PROVE runs[r].quote \in DOMAIN quotes
    OBVIOUS
  <2>1. runs[r].quote \in Nat /\ runs[r].key \in Nat /\ DOMAIN quotes = 1..Len(quotes)
    BY StoredFields DEF CheckoutInv, TypeOK
  <2>2. Asks(runs[r].quote, runs[r].key)
    BY DEF Asks, RunAsks
  <2> QED
    BY <2>1, <2>2 DEF CheckoutInv, PairsInv, AskedPairsExist
<1>3. RunsOrders'
  BY <1>1 DEF CheckoutInv, OrdersInv, RunsOrders, Grown
<1>4. \A r \in DOMAIN runs : quotes'[runs'[r].quote].terms = QuoteOf(r).terms
  BY <1>2 DEF QuoteOf, Grown
<1>5. OrdersTerms'
  <2> SUFFICES ASSUME NEW o \in DOMAIN remote'
               PROVE  remote'[o].run \in DOMAIN runs' /\ remote'[o].terms = quotes'[runs'[remote'[o].run].quote].terms
    BY DEF OrdersTerms, QuoteOf
  <2>1. remote'[o].run \in DOMAIN runs /\ remote'[o].terms = QuoteOf(remote'[o].run).terms
    BY DEF CheckoutInv, OrdersInv, OrdersTerms, Grown
  <2> QED
    BY <1>1, <1>4, <2>1
<1> QED
  BY <1>3, <1>5 DEF OrdersInv

-----------------------------------------------------------------------------
(* Quotes and keys.                                                        *)

\* Pairs are only copied or dropped, so they still exist, match and leave a new quote alone.
LEMMA PairsCarry ==
    ASSUME AskedPairsExist, AskedPairsMatch,
           Len(quotes) \in Nat, Len(quotes)' \in Nat, Len(quotes) <= Len(quotes)',
           page.keys \in Nat, page.keys' \in Nat, page.keys <= page.keys',
           \A q, k \in Nat : Asks(q, k)' => Asks(q, k)
    PROVE  AskedPairsExist' /\ AskedPairsMatch'
<1>1. AskedPairsExist'
  <2> SUFFICES ASSUME NEW q \in Nat, NEW k \in Nat, Asks(q, k)'
               PROVE  q \in 1..Len(quotes') /\ k \in 1..page'.keys
    BY DEF AskedPairsExist
  <2>1. q \in 1..Len(quotes) /\ k \in 1..page.keys
    BY DEF AskedPairsExist
  <2> QED
    BY <2>1
<1>2. AskedPairsMatch'
  <2> SUFFICES ASSUME NEW q \in Nat, NEW k \in Nat, NEW p \in Nat, NEW j \in Nat,
                      Asks(q, k)', Asks(p, j)'
               PROVE  q = p <=> k = j
    BY DEF AskedPairsMatch
  <2> QED
    BY DEF AskedPairsMatch
<1> QED
  BY <1>1, <1>2

\* The pairs after a step that changes one request, and at most adds a run that was
\* asked for.
LEMMA AskedBefore ==
    ASSUME page'.quote \in {page.quote, NoQuote}, page'.key = page.key \/ page'.quote = NoQuote,
           \A h \in Request : request'[h].pc \in {"lookup", "insert"} =>
               \/ PageAsks(request'[h].quote, request'[h].key)
               \/ \E g \in Request : CallAsks(g, request'[h].quote, request'[h].key),
           \A r \in DOMAIN runs' :
               \/ r \in DOMAIN runs /\ runs'[r].quote = runs[r].quote /\ runs'[r].key = runs[r].key
               \/ \E g \in Request : CallAsks(g, runs'[r].quote, runs'[r].key)
    PROVE  \A q, k \in Nat : Asks(q, k)' => Asks(q, k)
<1> SUFFICES ASSUME NEW q \in Nat, NEW k \in Nat, Asks(q, k)'
             PROVE  Asks(q, k)
  OBVIOUS
<1>1. CASE page'.quote = q /\ q # NoQuote /\ page'.key = k
  BY <1>1 DEF Asks, PageAsks
<1>2. ASSUME NEW h \in Request, request'[h].pc \in {"lookup", "insert"},
             request'[h].quote = q, request'[h].key = k
      PROVE  Asks(q, k)
  BY <1>2 DEF Asks
<1>3. ASSUME NEW r \in DOMAIN runs', runs'[r].quote = q, runs'[r].key = k
      PROVE  Asks(q, k)
  BY <1>3 DEF Asks, RunAsks
<1> QED
  BY <1>1, <1>2, <1>3 DEF Asks, PageAsks, CallAsks, RunAsks

\* Nobody but the awaited request has a new quote, and it keeps it to itself.
LEMMA NewQuoteCarries ==
    ASSUME NewQuoteIsUnasked, Len(quotes) \in Nat, Len(quotes)' \in Nat, Len(quotes) <= Len(quotes)',
           \A q, k \in Nat : Asks(q, k)' => Asks(q, k),
           \A h \in Request : request'[h].pc = "quoted" =>
               request[h].pc = "quoted" /\ request'[h].quote = request[h].quote
    PROVE  NewQuoteIsUnasked'
<1> SUFFICES ASSUME NEW h \in Request, request'[h].pc = "quoted"
             PROVE  /\ request'[h].quote \in 1..Len(quotes')
                    /\ \A k \in Nat : ~Asks(request[h].quote, k)'
                    /\ request'[h].quote = request[h].quote
  BY DEF NewQuoteIsUnasked
<1>1. request'[h].quote = request[h].quote /\ request[h].quote \in 1..Len(quotes)
      /\ \A k \in Nat : ~Asks(request[h].quote, k)
  BY DEF NewQuoteIsUnasked
<1> QED
  BY <1>1

-----------------------------------------------------------------------------
(* The steps of a handler: one request moves on, the page stays.           *)

\* What the next state of a request must be like, for the page and for itself.
Continues(g, c) ==
    /\ c \in Call
    /\ c.pc \in Answers => page.awaits = g
    /\ c.pc \in OfRun => c.run \in DOMAIN runs'
    /\ c.pc = "put" => c.order \in DOMAIN remote' /\ remote'[c.order].run = c.run
    /\ c.pc \in {"save", "answered"} => c.order # NoOrder /\ c.order = runs'[c.run].order
    /\ page.awaits = g =>
        /\ c.pc \in {"quote", "quoted"} => page.quote = NoQuote
        /\ page.quote # NoQuote /\ c.pc \in {"lookup", "insert"} => c.quote = page.quote
        /\ page.quote # NoQuote /\ c.pc \in OfRun => runs'[c.run].quote = page.quote

\* A request that moves on so leaves the invariants of page and requests intact.
LEMMA HandlerStep ==
    ASSUME CheckoutInv, StoreTyped', Grown, UNCHANGED <<catalogVars, page>>,
           NEW g \in Request, NEW c, Continues(g, c), request' = [request EXCEPT ![g] = c]
    PROVE  TypeOK' /\ CallsInv' /\ PageInv' /\ ServiceWasRegistered'
<1> USE DEF CheckoutInv
<1>1. /\ request' \in [Request -> Call]
      /\ request'[g] = c /\ \A h \in Request \ {g} : request'[h] = request[h]
  BY DEF TypeOK, Continues
<1>2. TypeOK' /\ ServiceWasRegistered'
  BY <1>1 DEF TypeOK, CatalogTyped, catalogVars, ServiceWasRegistered, WasRegistered
<1>3. CallsInv'
  <2> SUFFICES ASSUME NEW h \in Request PROVE CallOK(h)'
    BY DEF CallsInv
  <2>1. CASE h = g
    BY <1>1, <2>1 DEF Continues, CallOK
  <2>2. CASE h # g
    BY <1>1, <2>2, CallCarries DEF CallsInv, TypeOK
  <2> QED
    BY <2>1, <2>2
<1>4. AnswersAreAwaited'
  BY <1>1 DEF PageInv, AnswersAreAwaited, Continues
<1>5. page.awaits \in Request \cup {NoRequest}
  BY DEF TypeOK, PageRecord
<1>6. DOMAIN runs \subseteq DOMAIN runs'
  BY GrownDomains DEF TypeOK
<1>7. AwaitedIsShown'
  <2>1. CASE page.awaits = g
    BY <1>1, <2>1 DEF PageInv, AwaitedIsShown, Busy, Continues
  <2>2. CASE page.awaits # g
    <3>1. Busy => request'[page.awaits] = request[page.awaits]
      BY <1>1, <1>5, <2>2 DEF Busy
    <3>2. Busy /\ request[page.awaits].pc \in OfRun => request[page.awaits].run \in DOMAIN runs
      BY <1>5 DEF CallsInv, CallOK, Busy
    <3> QED
      BY <3>1, <3>2 DEF PageInv, AwaitedIsShown, Busy, Grown
  <2> QED
    BY <2>1, <2>2
<1>8. ShownRunIsOfQuote'
  BY <1>6 DEF PageInv, ShownRunIsOfQuote, Grown
<1> QED
  BY <1>2, <1>3, <1>4, <1>7, <1>8 DEF PageInv

\* A handler that keeps its quote and key while it still needs them, and adds a run at
\* most for what it asks.
LEMMA GatewayStep ==
    ASSUME CheckoutInv, StoreTyped', Grown, UNCHANGED <<catalogVars, page, quotes>>,
           NEW g \in Request, NEW c, Continues(g, c), request' = [request EXCEPT ![g] = c],
           c.pc \in {"lookup", "insert"} => CallAsks(g, c.quote, c.key),
           c.pc # "quoted",
           \A r \in DOMAIN runs' : r \in DOMAIN runs \/ CallAsks(g, runs'[r].quote, runs'[r].key),
           KeysAreUnique', OrdersInv'
    PROVE  CheckoutInv'
<1> USE DEF CheckoutInv
<1>2. TypeOK' /\ CallsInv' /\ PageInv' /\ ServiceWasRegistered'
  BY HandlerStep DEF CheckoutInv
<1>3. request'[g] = c /\ \A h \in Request \ {g} : request'[h] = request[h]
  BY DEF TypeOK
<1>4. \A q, k \in Nat : Asks(q, k)' => Asks(q, k)
  <2>1. \A h \in Request : request'[h].pc \in {"lookup", "insert"} =>
            \E e \in Request : CallAsks(e, request'[h].quote, request'[h].key)
    <3> SUFFICES ASSUME NEW h \in Request, request'[h].pc \in {"lookup", "insert"}
                 PROVE  \E e \in Request : CallAsks(e, request'[h].quote, request'[h].key)
      OBVIOUS
    <3>1. CallAsks(h, request'[h].quote, request'[h].key)
      BY <1>3 DEF CallAsks
    <3> QED
      BY <3>1
  <2>2. \A r \in DOMAIN runs' :
            \/ r \in DOMAIN runs /\ runs'[r].quote = runs[r].quote /\ runs'[r].key = runs[r].key
            \/ \E e \in Request : CallAsks(e, runs'[r].quote, runs'[r].key)
    BY DEF Grown
  <2> QED
    BY <2>1, <2>2, AskedBefore
<1>5. Len(quotes) \in Nat /\ page.keys \in Nat
  BY StoredFields DEF TypeOK, PageRecord
<1>6. AskedPairsExist' /\ AskedPairsMatch'
  BY <1>4, <1>5, PairsCarry DEF PairsInv
<1>7. NewQuoteIsUnasked'
  BY <1>3, <1>4, <1>5, NewQuoteCarries DEF PairsInv
<1>8. QuotesWithinBudget' /\ QuotedTargetWasRegistered'
  BY DEF QuotesWithinBudget, QuotedTargetWasRegistered, catalogVars
<1> QED
  BY <1>2, <1>6, <1>7, <1>8 DEF PairsInv

\* A handler that changes nothing but its request.
LEMMA RequestStep ==
    ASSUME CheckoutInv, UNCHANGED <<catalogVars, gatewayVars, page>>,
           NEW g \in Request, NEW c, Continues(g, c), request' = [request EXCEPT ![g] = c],
           c.pc \in {"lookup", "insert"} => CallAsks(g, c.quote, c.key),
           c.pc # "quoted"
    PROVE  CheckoutInv'
<1>1. StoreTyped' /\ Grown
  BY SameRowsGrow DEF CheckoutInv, gatewayVars, TypeOK, StoreTyped
<1>2. KeysAreUnique' /\ OrdersInv'
  BY DEF CheckoutInv, KeysAreUnique, PairsInv, OrdersInv, RunsOrders, OrdersTerms, QuoteOf, gatewayVars
<1> QED
  BY <1>1, <1>2, GatewayStep DEF gatewayVars

\* The three answers, and the steps between.
LEMMA RefusedContinues ==
    ASSUME NEW g \in Request
    PROVE  LET c == Answered(g, [pc |-> "refused"])
           IN  Continues(g, c) /\ c.pc \in {"refused", "idle"}
<1>1. DOMAIN [pc |-> "refused"] \subseteq DOMAIN Idle /\ Idle.pc = "idle"
  BY IdleTyped DEF Call, Idle
<1> QED
  BY <1>1, AnsweredFields, RefusedCall, IdleTyped DEF Continues, OfRun, Answers

LEMMA CreatedContinues ==
    ASSUME CheckoutInv, NEW g \in Request, request[g].pc \in {"lookup", "insert"},
           NEW r \in Nat, r \in DOMAIN runs', runs'[r].quote = request[g].quote
    PROVE  LET c == Answered(g, [pc |-> "created", run |-> r])
           IN  Continues(g, c) /\ c.pc \in {"created", "idle"}
<1> DEFINE fields == [pc |-> "created", run |-> r]
<1>1. DOMAIN fields \subseteq DOMAIN Idle /\ Idle.pc = "idle"
  BY IdleTyped DEF Call, Idle
<1>2. With(Idle, fields) \in Call /\ With(Idle, fields).pc = "created" /\ With(Idle, fields).run = r
  BY CreatedCall
<1>3. page.awaits = g /\ page.quote # NoQuote => runs'[r].quote = page.quote
  BY NullAssumption DEF CheckoutInv, PageInv, AwaitedIsShown, Busy
<1> SUFFICES Continues(g, Answered(g, fields)) /\ Answered(g, fields).pc \in {"created", "idle"}
  OBVIOUS
<1> HIDE DEF fields
<1>4. CASE page.awaits = g /\ Answered(g, fields) = With(Idle, fields)
  BY <1>2, <1>3, <1>4 DEF Continues, OfRun, Answers
<1>5. CASE page.awaits # g /\ Answered(g, fields) = Idle
  BY <1>1, <1>5, IdleTyped DEF Continues, OfRun, Answers
<1> QED
  BY <1>1, <1>4, <1>5, AnsweredFields

\* The page, when it awaits a request of a run, shows the quote of that run or none.
LEMMA AwaitedRunIsShown ==
    ASSUME CheckoutInv, Grown, NEW g \in Request, request[g].pc \in OfRun, page.awaits = g,
           page.quote # NoQuote
    PROVE  runs'[request[g].run].quote = page.quote
<1>1. runs[request[g].run].quote = page.quote
  BY NullAssumption DEF CheckoutInv, PageInv, AwaitedIsShown, Busy
<1>2. request[g].run \in DOMAIN runs
  BY DEF CheckoutInv, CallsInv, CallOK
<1> QED
  BY <1>1, <1>2 DEF Grown

LEMMA OrderedContinues ==
    ASSUME CheckoutInv, StoreTyped', Grown, NEW g \in Request, request[g].pc \in OfRun,
           NEW o \in Nat \ {NoOrder}, o = runs'[request[g].run].order
    PROVE  LET c == Answered(g, [pc |-> "answered", run |-> request[g].run, order |-> o])
           IN  Continues(g, c) /\ c.pc \in {"answered", "idle"}
<1> DEFINE r == request[g].run
           fields == [pc |-> "answered", run |-> r, order |-> o]
<1>1. r \in DOMAIN runs /\ r \in DOMAIN runs' /\ r \in Nat
  BY GrownDomains, StoredFields DEF CheckoutInv, CallsInv, CallOK, TypeOK, Call
<1>2. DOMAIN fields \subseteq DOMAIN Idle /\ Idle.pc = "idle"
  BY IdleTyped DEF Call, Idle
<1>3. /\ With(Idle, fields) \in Call /\ With(Idle, fields).pc = "answered"
      /\ With(Idle, fields).run = r /\ With(Idle, fields).order = o
  BY <1>1, OrderedCall
<1>4. page.awaits = g /\ page.quote # NoQuote => runs'[r].quote = page.quote
  BY AwaitedRunIsShown
<1> SUFFICES Continues(g, Answered(g, fields)) /\ Answered(g, fields).pc \in {"answered", "idle"}
  OBVIOUS
<1> HIDE DEF fields
<1>5. CASE page.awaits = g /\ Answered(g, fields) = With(Idle, fields)
  BY <1>1, <1>3, <1>4, <1>5 DEF Continues, OfRun, Answers
<1>6. CASE page.awaits # g /\ Answered(g, fields) = Idle
  BY <1>2, <1>6, IdleTyped DEF Continues, OfRun, Answers
<1> QED
  BY <1>2, <1>5, <1>6, AnsweredFields

LEMMA RunContinues ==
    ASSUME CheckoutInv, StoreTyped', Grown, NEW g \in Request, request[g].pc \in OfRun,
           NEW c \in Call, c.run = request[g].run,
           c.pc \in {"load", "find", "remote", "put", "save"},
           c.pc = "put" => c.order \in DOMAIN remote' /\ remote'[c.order].run = c.run,
           c.pc = "save" => c.order # NoOrder /\ c.order = runs'[c.run].order
    PROVE  Continues(g, c)
<1>1. c.run \in DOMAIN runs'
  BY GrownDomains DEF CheckoutInv, CallsInv, CallOK, TypeOK
<1>2. page.awaits = g /\ page.quote # NoQuote => runs'[c.run].quote = page.quote
  BY AwaitedRunIsShown
<1> QED
  BY <1>1, <1>2 DEF Continues, Answers

-----------------------------------------------------------------------------
(* POST /v1/runs.                                                          *)

LEMMA LookupKeyInv == ASSUME CheckoutInv, NEW g \in Request, LookupKey(g) PROVE CheckoutInv'
<1>1. request[g].pc = "lookup" /\ UNCHANGED <<catalogVars, gatewayVars, page>>
  BY DEF LookupKey
<1>2. CASE Refuse(g)
  BY <1>1, <1>2, RefusedContinues, RequestStep DEF Refuse, Reply
<1>3. ASSUME NEW r \in RunsWithKey(request[g].key), runs[r].quote = request[g].quote,
             Reply(g, [pc |-> "created", run |-> r])
      PROVE  CheckoutInv'
  <2>1. r \in DOMAIN runs /\ r \in Nat /\ runs' = runs
    BY <1>1, StoredFields DEF RunsWithKey, CheckoutInv, TypeOK, gatewayVars
  <2>2. LET c == Answered(g, [pc |-> "created", run |-> r])
        IN  Continues(g, c) /\ c.pc \in {"created", "idle"}
    BY <1>1, <1>3, <2>1, CreatedContinues
  <2> QED
    BY <1>1, <1>3, <2>2, RequestStep DEF Reply
<1>4. CASE Proceed(g, [pc |-> "insert"])
  <2> DEFINE c == With(request[g], [pc |-> "insert"])
  <2>1. c \in Call /\ c.pc = "insert" /\ c.quote = request[g].quote /\ c.key = request[g].key
    BY StepCall DEF CheckoutInv, TypeOK, Step
  <2> HIDE DEF c
  <2>2. Continues(g, c)
    BY <1>1, <2>1, NullAssumption
       DEF Continues, Answers, OfRun, CheckoutInv, PageInv, AwaitedIsShown, Busy
  <2>3. CallAsks(g, c.quote, c.key)
    BY <1>1, <2>1 DEF CallAsks
  <2> QED
    BY <1>1, <1>4, <2>1, <2>2, <2>3, RequestStep DEF Proceed, c
<1> QED
  BY <1>2, <1>3, <1>4 DEF LookupKey

LEMMA InsertRunInv == ASSUME CheckoutInv, NEW g \in Request, InsertRun(g) PROVE CheckoutInv'
<1> USE DEF CheckoutInv
<1>1. request[g].pc = "insert" /\ UNCHANGED <<catalogVars, terms, quotes, remote, page>>
  BY DEF InsertRun
<1>2. CallAsks(g, request[g].quote, request[g].key) /\ request[g].quote \in Nat /\ request[g].key \in Nat
  BY <1>1 DEF CallAsks, TypeOK, Call
<1>3. ASSUME NEW r \in RunsWithKey(request[g].key), runs' = runs,
             Reply(g, [pc |-> "created", run |-> r])
      PROVE  CheckoutInv'
  <2>1. r \in DOMAIN runs /\ r \in Nat /\ runs[r].key = request[g].key /\ runs[r].quote \in Nat
    BY StoredFields DEF RunsWithKey, TypeOK
  <2>2. Asks(runs[r].quote, runs[r].key)
    BY <2>1 DEF Asks, RunAsks
  <2>3. runs[r].quote = request[g].quote
    BY <1>2, <2>1, <2>2 DEF Asks, PairsInv, AskedPairsMatch
  <2>4. LET c == Answered(g, [pc |-> "created", run |-> r])
        IN  Continues(g, c) /\ c.pc \in {"created", "idle"}
    BY <1>1, <1>3, <2>1, <2>3, CreatedContinues
  <2> QED
    BY <1>1, <1>3, <2>4, RequestStep DEF Reply, gatewayVars
<1>4. ASSUME RunsWithKey(request[g].key) = {}, runs' = Append(runs, DraftedRun(g)),
             Reply(g, [pc |-> "created", run |-> Len(runs) + 1])
      PROVE  CheckoutInv'
  <2> DEFINE n == Len(runs) + 1
  <2>1. /\ DraftedRun(g) \in RunRecord /\ DraftedRun(g).quote = request[g].quote
        /\ DraftedRun(g).key = request[g].key /\ DraftedRun(g).order = NoOrder
    BY <1>2 DEF DraftedRun, RunRecord, Status, NoOrder
  <2>2. runs \in Seq(RunRecord)
    BY DEF TypeOK, StoreTyped
  <2>3. /\ runs' \in Seq(RunRecord) /\ Len(runs') = n /\ DOMAIN runs = 1..Len(runs)
        /\ DOMAIN runs' = 1..n /\ Len(runs) \in Nat
        /\ \A i \in DOMAIN runs : runs'[i] = runs[i]
        /\ runs'[n] = DraftedRun(g)
    BY <1>4, <2>1, <2>2, AppendElements
  <2> HIDE DEF n
  <2>4. /\ DOMAIN runs' = DOMAIN runs \cup {n} /\ n \notin DOMAIN runs /\ n \in Nat
        /\ Len(runs) <= Len(runs')
    BY <2>3 DEF n
  <2>5. StoreTyped' /\ Grown
    <3>1. StoreTyped'
      BY <1>1, <2>3 DEF TypeOK, StoreTyped
    <3>2. Len(quotes) <= Len(quotes') /\ Len(remote) <= Len(remote')
      BY <1>1, StoredFields DEF TypeOK
    <3> QED
      BY <1>1, <2>3, <2>4, <3>1, <3>2 DEF Grown
  <2>6. OrdersInv'
    <3>1. \A r \in DOMAIN runs' : runs'[r].order # NoOrder =>
               r \in DOMAIN runs /\ runs'[r].order = runs[r].order
      BY <2>1, <2>3, <2>4
    <3>2. \A o \in DOMAIN remote' : o \in DOMAIN remote
      BY <1>1
    <3> QED
      BY <2>5, <3>1, <3>2, OrdersCarry
  <2>7. KeysAreUnique'
    <3>1. \A r \in DOMAIN runs : runs[r].key # request[g].key
      BY <1>4 DEF RunsWithKey
    <3> QED
      BY <2>1, <2>3, <2>4, <3>1 DEF KeysAreUnique, PairsInv
  <2>8. LET c == Answered(g, [pc |-> "created", run |-> n])
        IN  Continues(g, c) /\ c.pc \in {"created", "idle"}
    BY <1>1, <2>1, <2>3, <2>4, CreatedContinues
  <2>9. \A r \in DOMAIN runs' : r \in DOMAIN runs \/ CallAsks(g, runs'[r].quote, runs'[r].key)
    BY <1>2, <2>1, <2>3, <2>4
  <2> QED
    BY <1>1, <1>4, <2>5, <2>6, <2>7, <2>8, <2>9, GatewayStep DEF Reply, n
<1> QED
  BY <1>3, <1>4 DEF InsertRun

-----------------------------------------------------------------------------
(* POST /payment-challenge.                                                *)

LEMMA LoadRunInv == ASSUME CheckoutInv, NEW g \in Request, LoadRun(g) PROVE CheckoutInv'
<1> USE DEF CheckoutInv
<1> DEFINE r == request[g].run
<1>1. request[g].pc = "load" /\ UNCHANGED <<catalogVars, gatewayVars, page>>
  BY DEF LoadRun
<1>2. r \in DOMAIN runs /\ runs[r].status \in Status /\ runs[r].order \in Nat /\ runs' = runs
  BY <1>1, StoredFields DEF CallsInv, CallOK, OfRun, TypeOK, gatewayVars
<1>3. StoreTyped' /\ Grown /\ request[g] \in Call
  BY <1>1, SameRowsGrow DEF TypeOK, StoreTyped, gatewayVars
<1>4. CASE Refuse(g)
  BY <1>1, <1>4, RefusedContinues, RequestStep DEF Refuse, Reply
<1>5. ASSUME runs[r].order # NoOrder,
             Proceed(g, [pc |-> "save", status |-> runs[r].status, order |-> runs[r].order])
      PROVE  CheckoutInv'
  <2> DEFINE c == With(request[g], [pc |-> "save", status |-> runs[r].status, order |-> runs[r].order])
  <2>1. c \in Call /\ c.pc = "save" /\ c.run = r /\ c.order = runs[r].order
    BY <1>2, <1>3, StatusOrderCall DEF Step
  <2> HIDE DEF c
  <2>2. Continues(g, c)
    BY <1>1, <1>2, <1>3, <1>5, <2>1, RunContinues DEF OfRun
  <2> QED
    BY <1>1, <1>5, <2>1, <2>2, RequestStep DEF Proceed, c
<1>6. CASE Proceed(g, [pc |-> "find", status |-> "QUOTED"])
  <2> DEFINE c == With(request[g], [pc |-> "find", status |-> "QUOTED"])
  <2>1. c \in Call /\ c.pc = "find" /\ c.run = r
    BY <1>3, StatusCall DEF Step, Status
  <2> HIDE DEF c
  <2>2. Continues(g, c)
    BY <1>1, <1>3, <2>1, RunContinues DEF OfRun
  <2> QED
    BY <1>1, <1>6, <2>1, <2>2, RequestStep DEF Proceed, c
<1> QED
  BY <1>4, <1>5, <1>6 DEF LoadRun

LEMMA FindOrderInv == ASSUME CheckoutInv, NEW g \in Request, FindOrder(g) PROVE CheckoutInv'
<1> USE DEF CheckoutInv
<1> DEFINE r == request[g].run
<1>1. request[g].pc = "find" /\ UNCHANGED <<catalogVars, gatewayVars, page>>
  BY DEF FindOrder
<1>2. r \in DOMAIN runs /\ runs[r].order \in Nat /\ runs' = runs
  BY <1>1, StoredFields DEF CallsInv, CallOK, OfRun, TypeOK, gatewayVars
<1>3. StoreTyped' /\ Grown /\ request[g] \in Call
  BY <1>1, SameRowsGrow DEF TypeOK, StoreTyped, gatewayVars
<1>4. ASSUME runs[r].order # NoOrder, Proceed(g, [pc |-> "save", order |-> runs[r].order])
      PROVE  CheckoutInv'
  <2> DEFINE c == With(request[g], [pc |-> "save", order |-> runs[r].order])
  <2>1. c \in Call /\ c.pc = "save" /\ c.run = r /\ c.order = runs[r].order
    BY <1>2, <1>3, OrderCall DEF Step
  <2> HIDE DEF c
  <2>2. Continues(g, c)
    BY <1>1, <1>2, <1>3, <1>4, <2>1, RunContinues DEF OfRun
  <2> QED
    BY <1>1, <1>4, <2>1, <2>2, RequestStep DEF Proceed, c
<1>5. CASE Proceed(g, [pc |-> "remote"])
  <2> DEFINE c == With(request[g], [pc |-> "remote"])
  <2>1. c \in Call /\ c.pc = "remote" /\ c.run = r
    BY <1>3, StepCall DEF Step
  <2> HIDE DEF c
  <2>2. Continues(g, c)
    BY <1>1, <1>3, <2>1, RunContinues DEF OfRun
  <2> QED
    BY <1>1, <1>5, <2>1, <2>2, RequestStep DEF Proceed, c
<1> QED
  BY <1>4, <1>5 DEF FindOrder

LEMMA OrderFailsInv == ASSUME CheckoutInv, NEW g \in Request, OrderFails(g) PROVE CheckoutInv'
<1> USE DEF CheckoutInv
<1> DEFINE r == request[g].run
<1>1. request[g].pc = "remote" /\ UNCHANGED <<catalogVars, gatewayVars, page>>
  BY DEF OrderFails
<1>2. r \in DOMAIN runs /\ runs[r].order \in Nat /\ runs' = runs
  BY <1>1, StoredFields DEF CallsInv, CallOK, OfRun, TypeOK, gatewayVars
<1>3. StoreTyped' /\ Grown
  BY <1>1, SameRowsGrow DEF TypeOK, StoreTyped, gatewayVars
<1>4. CASE Refuse(g)
  BY <1>1, <1>4, RefusedContinues, RequestStep DEF Refuse, Reply
<1>5. ASSUME runs[r].order # NoOrder,
             Reply(g, [pc |-> "answered", run |-> r, order |-> runs[r].order])
      PROVE  CheckoutInv'
  <2>1. LET c == Answered(g, [pc |-> "answered", run |-> r, order |-> runs[r].order])
        IN  Continues(g, c) /\ c.pc \in {"answered", "idle"}
    BY <1>1, <1>2, <1>3, <1>5, OrderedContinues DEF OfRun
  <2> QED
    BY <1>1, <1>5, <2>1, RequestStep DEF Reply
<1> QED
  BY <1>4, <1>5 DEF OrderFails

\* The merchant's order is made on the terms of the run's quote.
LEMMA RemoteOrderInv == ASSUME CheckoutInv, NEW g \in Request, RemoteOrder(g) PROVE CheckoutInv'
<1> USE DEF CheckoutInv
<1> DEFINE r == request[g].run
<1>1. request[g].pc = "remote" /\ UNCHANGED <<catalogVars, terms, quotes, runs, page>>
  BY DEF RemoteOrder
<1>2. r \in DOMAIN runs /\ r \in Nat /\ request[g] \in Call
  BY <1>1, StoredFields DEF CallsInv, CallOK, OfRun, TypeOK
<1>3. ASSUME NEW o \in DOMAIN remote, remote[o].run = r, remote' = remote,
             Proceed(g, [pc |-> "put", order |-> o])
      PROVE  CheckoutInv'
  <2> DEFINE c == With(request[g], [pc |-> "put", order |-> o])
  <2>1. o \in Nat
    BY StoredFields DEF TypeOK
  <2>2. c \in Call /\ c.pc = "put" /\ c.run = r /\ c.order = o
    BY <1>2, <2>1, OrderCall DEF Step
  <2> HIDE DEF c
  <2>3. StoreTyped' /\ Grown
    BY <1>1, <1>3, SameRowsGrow DEF TypeOK, StoreTyped
  <2>4. Continues(g, c)
    BY <1>1, <1>3, <2>2, <2>3, RunContinues DEF OfRun
  <2> QED
    BY <1>1, <1>3, <2>2, <2>4, RequestStep DEF Proceed, c, gatewayVars
<1>4. ASSUME remote' = Append(remote, [run |-> r, terms |-> OrderedTerms(r)]),
             Proceed(g, [pc |-> "put", order |-> Len(remote) + 1])
      PROVE  CheckoutInv'
  <2> DEFINE n == Len(remote) + 1
             order == [run |-> r, terms |-> OrderedTerms(r)]
             c == With(request[g], [pc |-> "put", order |-> n])
  <2>1. runs[r].quote \in DOMAIN quotes
    <3>1. runs[r].quote \in Nat /\ runs[r].key \in Nat /\ DOMAIN quotes = 1..Len(quotes)
      BY <1>2, StoredFields DEF TypeOK
    <3>2. Asks(runs[r].quote, runs[r].key)
      BY <1>2 DEF Asks, RunAsks
    <3> QED
      BY <3>1, <3>2 DEF PairsInv, AskedPairsExist
  <2>2. order \in OrderRecord /\ order.run = r /\ order.terms = QuoteOf(r).terms
    BY <1>2, <2>1, StoredFields DEF OrderRecord, OrderedTerms, QuoteOf, TypeOK
  <2>3. remote \in Seq(OrderRecord)
    BY DEF TypeOK, StoreTyped
  <2> HIDE DEF order
  <2>4. /\ remote' \in Seq(OrderRecord) /\ Len(remote') = n /\ DOMAIN remote = 1..Len(remote)
        /\ DOMAIN remote' = 1..n /\ Len(remote) \in Nat
        /\ \A i \in DOMAIN remote : remote'[i] = remote[i]
        /\ remote'[n] = order
    BY <1>4, <2>2, <2>3, AppendElements DEF order
  <2>5. /\ DOMAIN remote' = DOMAIN remote \cup {n} /\ n \in Nat /\ Len(remote) <= Len(remote')
    BY <2>4
  <2> HIDE DEF n
  <2>6. StoreTyped' /\ Grown
    <3>1. StoreTyped'
      BY <1>1, <2>4 DEF TypeOK, StoreTyped
    <3>2. Len(quotes) <= Len(quotes') /\ Len(runs) <= Len(runs')
      BY <1>1, StoredFields DEF TypeOK
    <3> QED
      BY <1>1, <2>4, <2>5, <3>1, <3>2 DEF Grown
  <2>7. c \in Call /\ c.pc = "put" /\ c.run = r /\ c.order = n
    <3>1. n \in Nat /\ "put" \in Step
      BY <2>5 DEF Step
    <3> QED
      BY <1>2, <3>1, OrderCall
  <2> HIDE DEF c
  <2>8. Continues(g, c)
    BY <1>1, <2>2, <2>4, <2>5, <2>6, <2>7, RunContinues DEF OfRun
  <2>9. OrdersInv'
    <3>1. \A s \in DOMAIN runs' : s \in DOMAIN runs /\ runs'[s].order = runs[s].order
      BY <1>1
    <3>2. \A o \in DOMAIN remote' :
            \/ o \in DOMAIN remote
            \/ remote'[o].run \in DOMAIN runs /\ remote'[o].terms = QuoteOf(remote'[o].run).terms
      BY <1>2, <2>2, <2>4, <2>5
    <3> QED
      BY <2>6, <3>1, <3>2, OrdersCarry
  <2>10. KeysAreUnique'
    BY <1>1 DEF KeysAreUnique, PairsInv
  <2>11. \A s \in DOMAIN runs' : s \in DOMAIN runs
    BY <1>1
  <2> QED
    BY <1>1, <1>4, <2>6, <2>7, <2>8, <2>9, <2>10, <2>11, GatewayStep DEF Proceed, c, n
<1> QED
  BY <1>3, <1>4 DEF RemoteOrder

\* A change of one run that keeps what it was asked for and an order it has.
LEMMA RunChanges ==
    ASSUME StoreTyped, UNCHANGED <<terms, quotes, remote>>, NEW r \in DOMAIN runs, NEW e \in RunRecord,
           runs' = [runs EXCEPT ![r] = e], e.quote = runs[r].quote, e.key = runs[r].key,
           runs[r].order # NoOrder => e.order = runs[r].order
    PROVE  /\ StoreTyped' /\ Grown
           /\ DOMAIN runs' = DOMAIN runs
           /\ runs'[r] = e
           /\ \A s \in DOMAIN runs : s # r => runs'[s] = runs[s]
<1>1. runs \in Seq(RunRecord)
  BY DEF StoreTyped
<1>2. /\ runs' \in Seq(RunRecord) /\ Len(runs') = Len(runs)
      /\ DOMAIN runs' = DOMAIN runs
      /\ \A s \in DOMAIN runs : runs'[s] = IF s = r THEN e ELSE runs[s]
  BY <1>1, ReplaceElement
<1>3. Len(quotes) <= Len(quotes') /\ Len(runs) <= Len(runs') /\ Len(remote) <= Len(remote')
  BY <1>2, StoredFields
<1> QED
  BY <1>2, <1>3 DEF StoreTyped, Grown

\* The two fields of a run that change.
LEMMA RunFieldChanges ==
    ASSUME NEW run \in RunRecord, NEW order \in Nat, NEW status \in Status
    PROVE  /\ [run EXCEPT !.order = order] \in RunRecord
           /\ [run EXCEPT !.order = order].quote = run.quote
           /\ [run EXCEPT !.order = order].key = run.key
           /\ [run EXCEPT !.order = order].order = order
           /\ [run EXCEPT !.status = status] \in RunRecord
           /\ [run EXCEPT !.status = status].quote = run.quote
           /\ [run EXCEPT !.status = status].key = run.key
           /\ [run EXCEPT !.status = status].order = run.order
BY DEF RunRecord

LEMMA PutOrderInv == ASSUME CheckoutInv, NEW g \in Request, PutOrder(g) PROVE CheckoutInv'
<1> USE DEF CheckoutInv
<1> DEFINE r == request[g].run
<1>1. request[g].pc = "put" /\ UNCHANGED <<catalogVars, terms, quotes, remote, page>>
  BY DEF PutOrder
<1>2. /\ r \in DOMAIN runs /\ runs[r] \in RunRecord /\ runs[r].order \in Nat
      /\ request[g] \in Call /\ request[g].order \in Nat
  BY <1>1, StoredFields DEF CallsInv, CallOK, OfRun, TypeOK, Call
<1>3. request[g].order \in DOMAIN remote /\ remote[request[g].order].run = r /\ request[g].order # NoOrder
  BY <1>1, StoredFields DEF CallsInv, CallOK, TypeOK, NoOrder
<1> DEFINE c == With(request[g], [pc |-> "save"])
<1>4. c \in Call /\ c.pc = "save" /\ c.run = r /\ c.order = request[g].order
  BY <1>2, StepCall DEF Step
<1> HIDE DEF c
<1>5. ASSUME runs[r].order = NoOrder, runs' = [runs EXCEPT ![r].order = request[g].order],
             Proceed(g, [pc |-> "save"])
      PROVE  CheckoutInv'
  <2> DEFINE e == [runs[r] EXCEPT !.order = request[g].order]
  <2>1. e \in RunRecord /\ e.quote = runs[r].quote /\ e.key = runs[r].key /\ e.order = request[g].order
    BY <1>2, RunFieldChanges DEF Status
  <2>2. runs' = [runs EXCEPT ![r] = e]
    BY <1>5
  <2> HIDE DEF e
  <2>3. /\ StoreTyped' /\ Grown /\ DOMAIN runs' = DOMAIN runs /\ runs'[r] = e
        /\ \A s \in DOMAIN runs : s # r => runs'[s] = runs[s]
    BY <1>1, <1>2, <1>5, <2>1, <2>2, RunChanges DEF TypeOK
  <2>4. Continues(g, c)
    BY <1>1, <1>3, <1>4, <2>1, <2>3, RunContinues DEF OfRun
  <2>5. OrdersInv'
    <3>1. \A s \in DOMAIN runs' : runs'[s].order # NoOrder =>
               \/ s \in DOMAIN runs /\ runs'[s].order = runs[s].order
               \/ runs'[s].order \in DOMAIN remote /\ remote[runs'[s].order].run = s
      BY <1>3, <2>1, <2>3
    <3>2. \A o \in DOMAIN remote' : o \in DOMAIN remote
      BY <1>1
    <3> QED
      BY <2>3, <3>1, <3>2, OrdersCarry
  <2>6. KeysAreUnique'
    BY <1>1, <2>3 DEF KeysAreUnique, PairsInv, Grown
  <2>7. \A s \in DOMAIN runs' : s \in DOMAIN runs
    BY <2>3
  <2> QED
    BY <1>1, <1>4, <1>5, <2>3, <2>4, <2>5, <2>6, <2>7, GatewayStep DEF Proceed, c
<1>6. ASSUME runs[r].order = request[g].order, runs' = runs, Proceed(g, [pc |-> "save"])
      PROVE  CheckoutInv'
  <2>1. StoreTyped' /\ Grown
    BY <1>1, <1>6, SameRowsGrow DEF TypeOK, StoreTyped
  <2>2. Continues(g, c)
    BY <1>1, <1>3, <1>4, <1>6, <2>1, RunContinues DEF OfRun
  <2> QED
    BY <1>1, <1>4, <1>6, <2>2, RequestStep DEF Proceed, c, gatewayVars
<1>7. ASSUME runs[r].order # NoOrder, runs' = runs,
             Reply(g, [pc |-> "answered", run |-> r, order |-> runs[r].order])
      PROVE  CheckoutInv'
  <2>1. StoreTyped' /\ Grown
    BY <1>1, <1>7, SameRowsGrow DEF TypeOK, StoreTyped
  <2>2. LET d == Answered(g, [pc |-> "answered", run |-> r, order |-> runs[r].order])
        IN  Continues(g, d) /\ d.pc \in {"answered", "idle"}
    BY <1>1, <1>2, <1>7, <2>1, OrderedContinues DEF OfRun
  <2> QED
    BY <1>1, <1>7, <2>2, RequestStep DEF Reply, gatewayVars
<1> QED
  BY <1>5, <1>6, <1>7 DEF PutOrder

\* Only the status of the run changes, and the answer names the order the run has.
LEMMA SavePaymentRequiredInv ==
    ASSUME CheckoutInv, NEW g \in Request, SavePaymentRequired(g) PROVE CheckoutInv'
<1> USE DEF CheckoutInv
<1> DEFINE r == request[g].run
           o == request[g].order
<1>1. /\ request[g].pc = "save" /\ UNCHANGED <<catalogVars, terms, quotes, remote, page>>
      /\ Reply(g, [pc |-> "answered", run |-> r, order |-> o])
  BY DEF SavePaymentRequired
<1>2. /\ r \in DOMAIN runs /\ runs[r] \in RunRecord
      /\ o \in Nat \ {NoOrder} /\ o = runs[r].order
  BY <1>1, StoredFields DEF CallsInv, CallOK, OfRun, TypeOK, Call
<1>3. /\ StoreTyped' /\ Grown /\ DOMAIN runs' = DOMAIN runs
      /\ \A s \in DOMAIN runs : runs'[s].order = runs[s].order
  <2>1. CASE runs' = runs
    BY <1>1, <2>1, SameRowsGrow DEF TypeOK, StoreTyped
  <2>2. CASE runs' = [runs EXCEPT ![r].status = "PAYMENT_REQUIRED"]
    <3> DEFINE e == [runs[r] EXCEPT !.status = "PAYMENT_REQUIRED"]
    <3>1. /\ e \in RunRecord /\ e.quote = runs[r].quote /\ e.key = runs[r].key
          /\ e.order = runs[r].order
      BY <1>2, RunFieldChanges DEF Status
    <3>2. runs' = [runs EXCEPT ![r] = e]
      BY <2>2
    <3> HIDE DEF e
    <3> QED
      BY <1>1, <1>2, <3>1, <3>2, RunChanges DEF TypeOK
  <2> QED
    BY <2>1, <2>2 DEF SavePaymentRequired
<1>4. LET d == Answered(g, [pc |-> "answered", run |-> r, order |-> o])
      IN  Continues(g, d) /\ d.pc \in {"answered", "idle"}
  BY <1>1, <1>2, <1>3, OrderedContinues DEF OfRun
<1>5. OrdersInv'
  <2>1. \A s \in DOMAIN runs' : s \in DOMAIN runs /\ runs'[s].order = runs[s].order
    BY <1>3
  <2>2. \A p \in DOMAIN remote' : p \in DOMAIN remote
    BY <1>1
  <2> QED
    BY <1>3, <2>1, <2>2, OrdersCarry
<1>6. KeysAreUnique' /\ \A s \in DOMAIN runs' : s \in DOMAIN runs
  BY <1>3 DEF KeysAreUnique, PairsInv, Grown
<1> QED
  BY <1>1, <1>3, <1>4, <1>5, <1>6, GatewayStep DEF Reply

-----------------------------------------------------------------------------
(* POST /v1/quotes.                                                        *)

\* A quote that is stored is within the budget, for a registered endpoint and chain, and
\* nobody has asked anything of it.
LEMMA HandleQuoteInv == ASSUME CheckoutInv, NEW g \in Request, HandleQuote(g) PROVE CheckoutInv'
<1> USE DEF CheckoutInv
<1>1. request[g].pc = "quote" /\ UNCHANGED <<catalogVars, terms, runs, remote, page>>
      /\ request[g] \in Call
  BY DEF HandleQuote, TypeOK
<1>2. ASSUME Refuse(g), quotes' = quotes PROVE CheckoutInv'
  BY <1>1, <1>2, RefusedContinues, RequestStep DEF Refuse, Reply, gatewayVars
<1>3. ASSUME Total(terms) <= Budget, Binds(request[g].target),
             quotes' = Append(quotes, StoredQuote(request[g].target)),
             Reply(g, [pc |-> "quoted", quote |-> Len(quotes) + 1])
      PROVE  CheckoutInv'
  <2> DEFINE n == Len(quotes) + 1
             q == StoredQuote(request[g].target)
             fields == [pc |-> "quoted", quote |-> n]
             c == Answered(g, fields)
  <2>1. q \in QuoteRecord /\ q.terms = terms /\ q.chain = service.chain
        /\ q.target.endpoint = service.endpoint
    BY <1>1, <1>3 DEF StoredQuote, QuoteRecord, TypeOK, CatalogTyped, StoreTyped, Call, Binds
  <2>2. quotes \in Seq(QuoteRecord)
    BY DEF TypeOK, StoreTyped
  <2>3. quotes' = Append(quotes, q)
    BY <1>3
  <2> HIDE DEF q
  <2>4. /\ quotes' \in Seq(QuoteRecord) /\ Len(quotes') = n /\ DOMAIN quotes = 1..Len(quotes)
        /\ DOMAIN quotes' = 1..n /\ Len(quotes) \in Nat
        /\ \A i \in DOMAIN quotes : quotes'[i] = quotes[i]
        /\ quotes'[n] = q
    BY <2>1, <2>2, <2>3, AppendElements
  <2>5. DOMAIN quotes' = DOMAIN quotes \cup {n} /\ n \in Nat /\ Len(quotes) <= Len(quotes') /\ n \in 1..Len(quotes')
    BY <2>4
  <2>6. \A k \in Nat : ~Asks(n, k)
    BY <2>4 DEF PairsInv, AskedPairsExist
  <2> HIDE DEF n
  <2>7. StoreTyped' /\ Grown
    <3>1. StoreTyped'
      BY <1>1, <2>4 DEF TypeOK, StoreTyped
    <3>2. Len(remote) <= Len(remote') /\ Len(runs) <= Len(runs')
      BY <1>1, StoredFields DEF TypeOK
    <3> QED
      BY <1>1, <2>4, <2>5, <3>1, <3>2 DEF Grown
  <2>8. DOMAIN fields \subseteq DOMAIN Idle /\ Idle.pc = "idle"
    BY IdleTyped DEF Call, Idle
  <2>9. With(Idle, fields) \in Call /\ With(Idle, fields).pc = "quoted" /\ With(Idle, fields).quote = n
    BY <2>5, QuotedCall
  <2>10. page.awaits = g => page.quote = NoQuote
    BY <1>1, NullAssumption DEF PageInv, AwaitedIsShown, Busy
  <2> HIDE DEF fields
  <2>11. /\ Continues(g, c)
         /\ c.pc = "idle" \/ (c.pc = "quoted" /\ c.quote = n)
    <3>1. CASE page.awaits = g /\ Answered(g, fields) = With(Idle, fields)
      BY <2>9, <2>10, <3>1 DEF Continues, OfRun, Answers
    <3>2. CASE page.awaits # g /\ Answered(g, fields) = Idle
      BY <2>8, <3>2, IdleTyped DEF Continues, OfRun, Answers
    <3> QED
      BY <2>8, <3>1, <3>2, AnsweredFields
  <2>12. request' = [request EXCEPT ![g] = c]
    BY <1>3 DEF Reply, fields, n
  <2> HIDE DEF c
  <2>13. TypeOK' /\ CallsInv' /\ PageInv' /\ ServiceWasRegistered'
    BY <1>1, <2>7, <2>11, <2>12, HandlerStep
  <2>14. request'[g] = c /\ \A h \in Request \ {g} : request'[h] = request[h]
    BY <2>12 DEF TypeOK
  <2>15. \A p, k \in Nat : Asks(p, k)' => Asks(p, k)
    <3>1. \A h \in Request : request'[h].pc \in {"lookup", "insert"} =>
              \E e \in Request : CallAsks(e, request'[h].quote, request'[h].key)
      BY <2>11, <2>14 DEF CallAsks
    <3>2. \A r \in DOMAIN runs' :
              r \in DOMAIN runs /\ runs'[r].quote = runs[r].quote /\ runs'[r].key = runs[r].key
      BY <1>1
    <3> QED
      BY <1>1, <3>1, <3>2, AskedBefore
  <2>16. AskedPairsExist' /\ AskedPairsMatch'
    <3>1. Len(quotes) \in Nat /\ Len(quotes)' \in Nat /\ page.keys \in Nat /\ page'.keys = page.keys
      BY <1>1, <2>4, <2>5 DEF TypeOK, PageRecord
    <3> QED
      BY <2>5, <2>15, <3>1, PairsCarry DEF PairsInv
  <2>17. NewQuoteIsUnasked'
    <3> SUFFICES ASSUME NEW h \in Request, request'[h].pc = "quoted"
                 PROVE  /\ request'[h].quote \in 1..Len(quotes')
                        /\ \A k \in Nat : ~Asks(request[h].quote, k)'
      BY DEF NewQuoteIsUnasked
    <3>1. CASE h = g
      BY <2>5, <2>6, <2>11, <2>14, <2>15, <3>1
    <3>2. CASE h # g
      <4>1. request'[h] = request[h] /\ request[h].quote \in 1..Len(quotes)
            /\ \A k \in Nat : ~Asks(request[h].quote, k)
        BY <2>14, <3>2 DEF PairsInv, NewQuoteIsUnasked
      <4> QED
        BY <2>4, <2>5, <2>15, <4>1
    <3> QED
      BY <3>1, <3>2
  <2>18. KeysAreUnique'
    BY <1>1 DEF KeysAreUnique, PairsInv
  <2>19. OrdersInv'
    <3>1. \A r \in DOMAIN runs' : r \in DOMAIN runs /\ runs'[r].order = runs[r].order
      BY <1>1
    <3>2. \A o \in DOMAIN remote' : o \in DOMAIN remote
      BY <1>1
    <3> QED
      BY <2>7, <3>1, <3>2, OrdersCarry
  <2>20. QuotesWithinBudget'
    BY <1>3, <2>1, <2>4, <2>5 DEF QuotesWithinBudget
  <2>21. QuotedTargetWasRegistered'
    BY <1>1, <2>1, <2>4, <2>5 DEF QuotedTargetWasRegistered, ServiceWasRegistered, WasRegistered, catalogVars
  <2> QED
    BY <2>13, <2>16, <2>17, <2>18, <2>19, <2>20, <2>21 DEF PairsInv
<1> QED
  BY <1>2, <1>3 DEF HandleQuote

-----------------------------------------------------------------------------
(* The page.                                                               *)

\* The page forgets quote or run, or requests end: pairs are dropped, none is made.
LEMMA PairsDrop ==
    ASSUME CheckoutInv, UNCHANGED gatewayVars, page' \in PageRecord, page'.keys = page.keys,
           page'.quote \in {page.quote, NoQuote}, page'.key = page.key \/ page'.quote = NoQuote,
           \A h \in Request :
               \/ request'[h] = request[h]
               \/ request'[h].pc = "lookup" /\ PageAsks(request'[h].quote, request'[h].key)
               \/ request'[h].pc \notin {"lookup", "insert", "quoted"}
    PROVE  PairsInv' /\ OrdersInv' /\ QuotesWithinBudget'
<1> USE DEF CheckoutInv
<1>1. quotes' = quotes /\ runs' = runs /\ remote' = remote
  BY DEF gatewayVars
<1>2. \A q, k \in Nat : Asks(q, k)' => Asks(q, k)
  <2>1. \A h \in Request : request'[h].pc \in {"lookup", "insert"} =>
            \/ PageAsks(request'[h].quote, request'[h].key)
            \/ \E e \in Request : CallAsks(e, request'[h].quote, request'[h].key)
    <3> SUFFICES ASSUME NEW h \in Request, request'[h].pc \in {"lookup", "insert"},
                        ~PageAsks(request'[h].quote, request'[h].key)
                 PROVE  \E e \in Request : CallAsks(e, request'[h].quote, request'[h].key)
      OBVIOUS
    <3>1. request'[h] = request[h]
      OBVIOUS
    <3> QED
      BY <3>1 DEF CallAsks
  <2> QED
    BY <1>1, <2>1, AskedBefore
<1>3. Len(quotes) \in Nat /\ page.keys \in Nat
  BY StoredFields DEF TypeOK, PageRecord
<1>4. AskedPairsExist' /\ AskedPairsMatch'
  BY <1>1, <1>2, <1>3, PairsCarry DEF PairsInv
<1>5. \A h \in Request : request'[h].pc = "quoted" =>
          request[h].pc = "quoted" /\ request'[h].quote = request[h].quote
  OBVIOUS
<1>6. NewQuoteIsUnasked'
  BY <1>1, <1>2, <1>3, <1>5, NewQuoteCarries DEF PairsInv
<1> QED
  BY <1>1, <1>4, <1>6 DEF PairsInv, KeysAreUnique, OrdersInv, RunsOrders, OrdersTerms, QuoteOf, QuotesWithinBudget

LEMMA PageForgets ==
    ASSUME CheckoutInv, UNCHANGED <<gatewayVars, request>>,
           CatalogTyped', ServiceWasRegistered', QuotedTargetWasRegistered',
           page' \in PageRecord, page'.keys = page.keys, page'.awaits = page.awaits,
           page'.quote \in {page.quote, NoQuote}, page'.key = page.key \/ page'.quote = NoQuote,
           page'.run \in {page.run, NoRun}
    PROVE  CheckoutInv'
<1> USE DEF CheckoutInv
<1>1. PairsInv' /\ OrdersInv' /\ QuotesWithinBudget'
  BY PairsDrop
<1>2. TypeOK' /\ CallsInv'
  BY DEF TypeOK, StoreTyped, gatewayVars, CallsInv, CallOK
<1>3. PageInv'
  BY DEF PageInv, AnswersAreAwaited, AwaitedIsShown, Busy, ShownRunIsOfQuote, gatewayVars
<1> QED
  BY <1>1, <1>2, <1>3

\* Onboarding adds to what was registered, and its row is the last of it.
LEMMA OnboardCatalog ==
    ASSUME CheckoutInv, NEW g \in Registration, Onboard(g), UNCHANGED gatewayVars
    PROVE  CatalogTyped' /\ ServiceWasRegistered' /\ QuotedTargetWasRegistered'
<1> USE DEF CheckoutInv
<1>1. registered \in Seq(Registration) /\ registered' = Append(registered, g)
  BY DEF Onboard, TypeOK, CatalogTyped
<1>2. /\ registered' \in Seq(Registration) /\ DOMAIN registered = 1..Len(registered)
      /\ DOMAIN registered' = 1..(Len(registered) + 1) /\ Len(registered) \in Nat
      /\ \A i \in DOMAIN registered : registered'[i] = registered[i]
      /\ registered'[Len(registered) + 1] = g
  BY <1>1, AppendElements
<1>3. /\ DOMAIN registered \subseteq DOMAIN registered'
      /\ Len(registered) + 1 \in DOMAIN registered'
  BY <1>2
<1>4. service' = [endpoint |-> g.endpoint, chain |-> g.chain, listed |-> g.listed]
  BY DEF Onboard
<1>5. releases' \in Seq(Version) /\ releases' # <<>>
  <2>1. releases \in Seq(Version) /\ releases # <<>> /\ g.version \in Version
    BY DEF TypeOK, CatalogTyped, Version
  <2>2. Append(releases, g.version) \in Seq(Version) /\ Append(releases, g.version) # <<>>
    BY <2>1
  <2> QED
    BY <2>1, <2>2 DEF Onboard
<1>6. Last(releases') \in Version
  BY <1>5 DEF Last
<1>7. service'.endpoint \in Endpoint
  BY <1>4 DEF Endpoint
<1>8. Listing(service', releases') \subseteq AnyTarget
  BY <1>6, <1>7 DEF Listing, AnyTarget
<1>9. listings' \subseteq AnyTarget
  BY <1>8 DEF Onboard, TypeOK, CatalogTyped
<1>10. service' \in [endpoint : Endpoint, chain : Chain, listed : {e.listed : e \in Registration}]
  BY <1>4 DEF Endpoint, Chain
<1>11. CatalogTyped'
  BY <1>2, <1>5, <1>9, <1>10 DEF CatalogTyped
<1>12. ServiceWasRegistered'
  BY <1>2, <1>3, <1>4 DEF ServiceWasRegistered, WasRegistered
<1>13. QuotedTargetWasRegistered'
  BY <1>2, <1>3 DEF QuotedTargetWasRegistered, gatewayVars
<1> QED
  BY <1>11, <1>12, <1>13

LEMMA EmptiedPage ==
    ASSUME page \in PageRecord, NEW target \in AnyTarget
    PROVE  /\ Emptied(target) \in PageRecord /\ Emptied(target).quote = NoQuote
           /\ Emptied(target).run = NoRun /\ Emptied(target).keys = page.keys
           /\ Emptied(target).awaits = page.awaits
BY DEF Emptied, PageRecord, NoQuote, NoKey, NoRun

LEMMA SelectServiceInv == ASSUME CheckoutInv, SelectService PROVE CheckoutInv'
<1>1. PICK target \in listings : page' = Emptied(target)
  BY DEF SelectService
<1>2. UNCHANGED <<catalogVars, gatewayVars, request>>
  BY DEF SelectService
<1>3. target \in AnyTarget /\ page \in PageRecord
  BY DEF CheckoutInv, TypeOK, CatalogTyped
<1>4. CatalogTyped' /\ ServiceWasRegistered' /\ QuotedTargetWasRegistered'
  BY <1>2 DEF CheckoutInv, TypeOK, CatalogTyped, ServiceWasRegistered, WasRegistered,
     QuotedTargetWasRegistered, catalogVars, gatewayVars
<1> QED
  BY <1>1, <1>2, <1>3, <1>4, EmptiedPage, PageForgets

LEMMA OnboardInv == ASSUME CheckoutInv, OnboardOwn \/ OnboardElsewhere PROVE CheckoutInv'
<1>1. PICK g \in Registration :
        /\ Onboard(g)
        /\ page' = page \/ page' = Emptied([endpoint |-> g.endpoint, version |-> g.version])
  BY DEF OnboardOwn, OnboardElsewhere
<1>2. UNCHANGED <<gatewayVars, request>>
  BY DEF OnboardOwn, OnboardElsewhere
<1>3. /\ [endpoint |-> g.endpoint, version |-> g.version] \in AnyTarget
      /\ page \in PageRecord
  BY DEF CheckoutInv, TypeOK, AnyTarget, Endpoint, Version
<1>4. CatalogTyped' /\ ServiceWasRegistered' /\ QuotedTargetWasRegistered'
  BY <1>1, <1>2, OnboardCatalog
<1> QED
  BY <1>1, <1>2, <1>3, <1>4, EmptiedPage, PageForgets

LEMMA DismissQuoteInv == ASSUME CheckoutInv, DismissQuote PROVE CheckoutInv'
<1>1. page' = [page EXCEPT !.quote = NoQuote] /\ UNCHANGED <<catalogVars, gatewayVars, request>>
  BY DEF DismissQuote
<1>2. /\ page' \in PageRecord /\ page'.keys = page.keys /\ page'.awaits = page.awaits
      /\ page'.quote = NoQuote /\ page'.run = page.run
  BY <1>1 DEF CheckoutInv, TypeOK, PageRecord, NoQuote
<1>3. CatalogTyped' /\ ServiceWasRegistered' /\ QuotedTargetWasRegistered'
  BY <1>1 DEF CheckoutInv, TypeOK, CatalogTyped, ServiceWasRegistered, WasRegistered,
     QuotedTargetWasRegistered, catalogVars, gatewayVars
<1> QED
  BY <1>1, <1>2, <1>3, PageForgets

\* A call is sent when none is awaited, so when no answer is ready.
LEMMA SendStep ==
    ASSUME CheckoutInv, UNCHANGED <<catalogVars, gatewayVars>>, ~Busy,
           NEW g \in Request, NEW c \in Call, request' = [request EXCEPT ![g] = c],
           page' \in PageRecord, page'.awaits = g, page'.run = NoRun, page'.keys = page.keys,
           page'.quote \in {page.quote, NoQuote}, page'.key = page.key \/ page'.quote = NoQuote,
           \/ c.pc = "quote" /\ page'.quote = NoQuote
           \/ c.pc = "lookup" /\ page'.quote = page.quote /\ PageAsks(c.quote, c.key)
    PROVE  CheckoutInv'
<1> USE DEF CheckoutInv
<1>1. request'[g] = c /\ \A h \in Request \ {g} : request'[h] = request[h]
  BY DEF TypeOK
<1>2. \A h \in Request :
         \/ request'[h] = request[h]
         \/ request'[h].pc = "lookup" /\ PageAsks(request'[h].quote, request'[h].key)
         \/ request'[h].pc \notin {"lookup", "insert", "quoted"}
  BY <1>1
<1>3. PairsInv' /\ OrdersInv' /\ QuotesWithinBudget'
  BY <1>2, PairsDrop
<1>4. TypeOK' /\ ServiceWasRegistered' /\ QuotedTargetWasRegistered'
  BY DEF TypeOK, CatalogTyped, StoreTyped, ServiceWasRegistered, WasRegistered,
         QuotedTargetWasRegistered, catalogVars, gatewayVars
<1>5. CallsInv'
  BY <1>1 DEF CallsInv, CallOK, OfRun, gatewayVars
<1>6. \A h \in Request : request[h].pc \notin Answers
  BY NullAssumption DEF PageInv, AnswersAreAwaited, Busy
<1>7. AnswersAreAwaited'
  BY <1>1, <1>6 DEF AnswersAreAwaited, Answers
<1>8. AwaitedIsShown' /\ ShownRunIsOfQuote'
  BY <1>1 DEF AwaitedIsShown, ShownRunIsOfQuote, PageAsks, OfRun, Busy
<1> QED
  BY <1>3, <1>4, <1>5, <1>7, <1>8 DEF PageInv

LEMMA RequestQuoteInv == ASSUME CheckoutInv, NEW g \in Request, RequestQuote(g) PROVE CheckoutInv'
<1> DEFINE c == [Idle EXCEPT !.pc = "quote", !.target = page.target]
<1>1. /\ ~Busy /\ request' = [request EXCEPT ![g] = c] /\ UNCHANGED <<catalogVars, gatewayVars>>
      /\ page' = [Emptied(page.target) EXCEPT !.awaits = g]
  BY DEF RequestQuote, Send
<1>2. c \in Call /\ c.pc = "quote"
  BY IdleTyped DEF CheckoutInv, TypeOK, PageRecord, Call, Step
<1>3. page \in PageRecord /\ page.target \in AnyTarget
  BY DEF CheckoutInv, TypeOK, PageRecord
<1>4. /\ page' \in PageRecord /\ page'.awaits = g /\ page'.run = NoRun /\ page'.keys = page.keys
      /\ page'.quote = NoQuote
  BY <1>1, <1>3, EmptiedPage DEF PageRecord
<1> HIDE DEF c
<1> QED
  BY <1>1, <1>2, <1>4, SendStep

LEMMA CreateRunInv == ASSUME CheckoutInv, NEW g \in Request, CreateRun(g) PROVE CheckoutInv'
<1> DEFINE c == [Idle EXCEPT !.pc = "lookup", !.quote = page.quote, !.key = page.key]
<1>1. /\ ~Busy /\ request' = [request EXCEPT ![g] = c] /\ UNCHANGED <<catalogVars, gatewayVars>>
      /\ page' = [page EXCEPT !.awaits = g] /\ page.quote # NoQuote /\ page.run = NoRun
  BY DEF CreateRun, Send, RequestKey
<1>2. c \in Call /\ c.pc = "lookup" /\ c.quote = page.quote /\ c.key = page.key
  BY IdleTyped DEF CheckoutInv, TypeOK, PageRecord, Call, Step
<1>3. /\ page' \in PageRecord /\ page'.awaits = g /\ page'.run = NoRun /\ page'.keys = page.keys
      /\ page'.quote = page.quote /\ page'.key = page.key
  BY <1>1 DEF CheckoutInv, TypeOK, PageRecord
<1>4. PageAsks(c.quote, c.key)
  BY <1>1, <1>2 DEF PageAsks
<1> HIDE DEF c
<1> QED
  BY <1>1, <1>2, <1>3, <1>4, SendStep

\* Answers that end a request, and requests that die: the page awaits less than before.
LEMMA RequestsEnd ==
    ASSUME CheckoutInv, UNCHANGED <<catalogVars, gatewayVars>>,
           request' \in [Request -> Call],
           \A h \in Request : request'[h] = request[h] \/ request'[h].pc \in {"idle", "refused"},
           page' \in PageRecord, page'.keys = page.keys, page'.quote = page.quote, page'.key = page.key,
           page'.awaits \in {page.awaits, NoRequest},
           page'.awaits # NoRequest => page'.run = page.run,
           AnswersAreAwaited', ShownRunIsOfQuote'
    PROVE  CheckoutInv'
<1> USE DEF CheckoutInv
<1>1. PairsInv' /\ OrdersInv' /\ QuotesWithinBudget'
  BY PairsDrop
<1>2. TypeOK' /\ ServiceWasRegistered' /\ QuotedTargetWasRegistered'
  BY DEF TypeOK, CatalogTyped, StoreTyped, ServiceWasRegistered, WasRegistered,
         QuotedTargetWasRegistered, catalogVars, gatewayVars
<1>3. CallsInv'
  BY DEF CallsInv, CallOK, OfRun, gatewayVars
<1>4. AwaitedIsShown'
  <2>1. page'.awaits \in Request \cup {NoRequest}
    BY DEF PageRecord
  <2> QED
    BY <2>1 DEF PageInv, AwaitedIsShown, Busy, OfRun, gatewayVars
<1> QED
  BY <1>1, <1>2, <1>3, <1>4 DEF PageInv

\* Nobody else's answer is ready when the page takes the one it awaits.
LEMMA AnswerTaken ==
    ASSUME CheckoutInv, NEW g \in Request, page.awaits = g, request' = [request EXCEPT ![g] = Idle]
    PROVE  /\ request' \in [Request -> Call]
           /\ request'[g] = Idle /\ \A h \in Request \ {g} : request'[h] = request[h]
           /\ \A h \in Request : request'[h].pc \notin Answers
<1>1. Idle.pc \notin Answers /\ Idle \in Call
  BY IdleTyped DEF Idle, Answers
<1>2. /\ request' \in [Request -> Call]
      /\ request'[g] = Idle /\ \A h \in Request \ {g} : request'[h] = request[h]
  BY <1>1 DEF CheckoutInv, TypeOK
<1> QED
  BY <1>1, <1>2 DEF CheckoutInv, PageInv, AnswersAreAwaited

LEMMA ReceiveChallengeInv == ASSUME CheckoutInv, NEW g \in Request, ReceiveChallenge(g) PROVE CheckoutInv'
<1>1. /\ request[g].pc = "answered" /\ page.awaits = g /\ UNCHANGED <<catalogVars, gatewayVars>>
      /\ page' = [page EXCEPT !.run = request[g].run, !.awaits = NoRequest]
      /\ request' = [request EXCEPT ![g] = Idle]
  BY DEF ReceiveChallenge
<1>2. /\ request' \in [Request -> Call]
      /\ request'[g] = Idle /\ \A h \in Request \ {g} : request'[h] = request[h]
      /\ \A h \in Request : request'[h].pc \notin Answers
  BY <1>1, AnswerTaken
<1>3. request[g] \in Call /\ request[g].run \in Nat /\ page \in PageRecord
  BY DEF CheckoutInv, TypeOK, Call
<1>4. /\ page' \in PageRecord /\ page'.keys = page.keys /\ page'.quote = page.quote
      /\ page'.key = page.key /\ page'.awaits = NoRequest /\ page'.run = request[g].run
  BY <1>1, <1>3 DEF PageRecord
<1>5. request[g].run \in DOMAIN runs
  BY <1>1 DEF CheckoutInv, CallsInv, CallOK, OfRun
<1>6. page.quote # NoQuote => runs[request[g].run].quote = page.quote
  BY <1>1, NullAssumption DEF CheckoutInv, PageInv, AwaitedIsShown, Busy, OfRun
<1>7. ShownRunIsOfQuote' /\ AnswersAreAwaited'
  BY <1>1, <1>2, <1>4, <1>5, <1>6 DEF ShownRunIsOfQuote, AnswersAreAwaited, gatewayVars
<1>8. \A h \in Request : request'[h] = request[h] \/ request'[h].pc \in {"idle", "refused"}
  BY <1>2 DEF Idle
<1> QED
  BY <1>1, <1>2, <1>4, <1>7, <1>8, RequestsEnd

LEMMA ReceiveErrorInv == ASSUME CheckoutInv, NEW g \in Request, ReceiveError(g) PROVE CheckoutInv'
<1>1. /\ page.awaits = g /\ UNCHANGED <<catalogVars, gatewayVars>>
      /\ page' = [page EXCEPT !.awaits = NoRequest]
      /\ request' = [request EXCEPT ![g] = Idle]
  BY DEF ReceiveError
<1>2. /\ request' \in [Request -> Call]
      /\ request'[g] = Idle /\ \A h \in Request \ {g} : request'[h] = request[h]
      /\ \A h \in Request : request'[h].pc \notin Answers
  BY <1>1, AnswerTaken
<1>3. /\ page' \in PageRecord /\ page'.keys = page.keys /\ page'.quote = page.quote
      /\ page'.key = page.key /\ page'.awaits = NoRequest /\ page'.run = page.run
  BY <1>1 DEF CheckoutInv, TypeOK, PageRecord
<1>4. ShownRunIsOfQuote' /\ AnswersAreAwaited'
  BY <1>1, <1>2, <1>3 DEF CheckoutInv, PageInv, ShownRunIsOfQuote, AnswersAreAwaited, gatewayVars
<1>5. \A h \in Request : request'[h] = request[h] \/ request'[h].pc \in {"idle", "refused"}
  BY <1>2 DEF Idle
<1> QED
  BY <1>1, <1>2, <1>3, <1>4, <1>5, RequestsEnd

LEMMA AnswerLostInv == ASSUME CheckoutInv, AnswerLost PROVE CheckoutInv'
<1> DEFINE g == page.awaits
<1>1. /\ Busy /\ UNCHANGED <<catalogVars, gatewayVars>>
      /\ page' = [page EXCEPT !.awaits = NoRequest]
      /\ request' = IF request[g].pc \in Answers THEN [request EXCEPT ![g] = Idle] ELSE request
  BY DEF AnswerLost
<1>2. g \in Request
  BY <1>1 DEF CheckoutInv, TypeOK, PageRecord, Busy
<1>3. /\ request' \in [Request -> Call]
      /\ \A h \in Request : request'[h] = request[h] \/ request'[h] = Idle
      /\ \A h \in Request : request'[h].pc \notin Answers
  <2>1. CASE request[g].pc \in Answers
    BY <1>1, <1>2, <2>1, AnswerTaken
  <2>2. CASE request[g].pc \notin Answers
    BY <1>1, <2>2 DEF CheckoutInv, TypeOK, PageInv, AnswersAreAwaited
  <2> QED
    BY <2>1, <2>2
<1>4. /\ page' \in PageRecord /\ page'.keys = page.keys /\ page'.quote = page.quote
      /\ page'.key = page.key /\ page'.awaits = NoRequest /\ page'.run = page.run
  BY <1>1 DEF CheckoutInv, TypeOK, PageRecord
<1>5. ShownRunIsOfQuote' /\ AnswersAreAwaited'
  BY <1>1, <1>3, <1>4 DEF CheckoutInv, PageInv, ShownRunIsOfQuote, AnswersAreAwaited, gatewayVars
<1>6. \A h \in Request : request'[h] = request[h] \/ request'[h].pc \in {"idle", "refused"}
  BY <1>3 DEF Idle
<1> QED
  BY <1>1, <1>3, <1>4, <1>5, <1>6, RequestsEnd

LEMMA GatewayDiesInv == ASSUME CheckoutInv, GatewayDies PROVE CheckoutInv'
<1>1. /\ UNCHANGED <<catalogVars, gatewayVars, page>>
      /\ request' = [g \in Request |-> Answered(g, [pc |-> "refused"])]
  BY DEF GatewayDies
<1>2. \A h \in Request : /\ request'[h] \in Call /\ request'[h].pc \in {"idle", "refused"}
                         /\ request'[h].pc \in Answers => page.awaits = h
  BY <1>1, RefusedContinues DEF Continues
<1>3. request' \in [Request -> Call]
  BY <1>1, <1>2
<1>4. page \in PageRecord
  BY DEF CheckoutInv, TypeOK
<1>5. ShownRunIsOfQuote' /\ AnswersAreAwaited'
  BY <1>1, <1>2 DEF CheckoutInv, PageInv, ShownRunIsOfQuote, AnswersAreAwaited, gatewayVars
<1> QED
  BY <1>1, <1>2, <1>3, <1>4, <1>5, RequestsEnd

\* The page takes the answer of its quote request with a key it never used.
LEMMA ReceiveQuoteInv == ASSUME CheckoutInv, NEW g \in Request, ReceiveQuote(g) PROVE CheckoutInv'
<1> USE DEF CheckoutInv
<1> DEFINE n == request[g].quote
           m == page.keys + 1
<1>1. /\ request[g].pc = "quoted" /\ page.awaits = g /\ UNCHANGED <<catalogVars, gatewayVars>>
      /\ page' = [page EXCEPT !.quote = n, !.keys = m, !.key = m, !.awaits = NoRequest]
      /\ request' = [request EXCEPT ![g] = Idle]
  BY DEF ReceiveQuote
<1>2. /\ request' \in [Request -> Call]
      /\ request'[g] = Idle /\ \A h \in Request \ {g} : request'[h] = request[h]
      /\ \A h \in Request : request'[h].pc \notin Answers
  BY <1>1, AnswerTaken
<1>3. request[g] \in Call /\ n \in Nat /\ page \in PageRecord /\ page.keys \in Nat /\ m \in Nat
  BY DEF TypeOK, Call, PageRecord
<1>4. n \in 1..Len(quotes) /\ \A k \in Nat : ~Asks(n, k)
  BY <1>1 DEF PairsInv, NewQuoteIsUnasked
<1>5. /\ page' \in PageRecord /\ page'.keys = m /\ page'.quote = n
      /\ page'.key = m /\ page'.awaits = NoRequest /\ page'.run = page.run
  BY <1>1, <1>3 DEF PageRecord
<1>6. page.run = NoRun
  BY <1>1, NullAssumption DEF PageInv, AwaitedIsShown, Busy
<1>7. quotes' = quotes /\ runs' = runs /\ remote' = remote
  BY <1>1 DEF gatewayVars
<1>8. Len(quotes) \in Nat
  BY StoredFields DEF TypeOK
<1> HIDE DEF n
<1>9. \A q, k \in Nat : Asks(q, k)' => Asks(q, k) \/ (q = n /\ k = m)
  <2> SUFFICES ASSUME NEW q \in Nat, NEW k \in Nat, Asks(q, k)'
               PROVE  Asks(q, k) \/ (q = n /\ k = m)
    OBVIOUS
  <2>1. CASE page'.quote = q /\ page'.key = k
    BY <1>5, <2>1
  <2>2. ASSUME NEW h \in Request, request'[h].pc \in {"lookup", "insert"},
               request'[h].quote = q, request'[h].key = k
        PROVE  Asks(q, k)
    <3>1. request'[h] = request[h]
      BY <1>2, <2>2 DEF Idle
    <3> QED
      BY <2>2, <3>1 DEF Asks, CallAsks
  <2>3. ASSUME NEW r \in DOMAIN runs', runs'[r].quote = q, runs'[r].key = k
        PROVE  Asks(q, k)
    BY <1>7, <2>3 DEF Asks, RunAsks
  <2> QED
    BY <2>1, <2>2, <2>3 DEF Asks, PageAsks, CallAsks, RunAsks
<1>10. \A q, k \in Nat : Asks(q, k) => q # n /\ k # m
  <2> SUFFICES ASSUME NEW q \in Nat, NEW k \in Nat, Asks(q, k) PROVE q # n /\ k # m
    OBVIOUS
  <2>1. k \in 1..page.keys
    BY DEF PairsInv, AskedPairsExist
  <2> QED
    BY <1>3, <1>4, <2>1
<1>11. AskedPairsExist'
  <2> SUFFICES ASSUME NEW q \in Nat, NEW k \in Nat, Asks(q, k)'
               PROVE  q \in 1..Len(quotes') /\ k \in 1..page'.keys
    BY DEF AskedPairsExist
  <2>1. CASE q = n /\ k = m
    BY <1>3, <1>4, <1>5, <1>7, <2>1
  <2>2. CASE Asks(q, k)
    <3>1. q \in 1..Len(quotes) /\ k \in 1..page.keys
      BY <2>2 DEF PairsInv, AskedPairsExist
    <3> QED
      BY <1>3, <1>5, <1>7, <3>1
  <2> QED
    BY <1>9, <2>1, <2>2
<1>12. AskedPairsMatch'
  <2> SUFFICES ASSUME NEW q \in Nat, NEW k \in Nat, NEW p \in Nat, NEW j \in Nat,
                      Asks(q, k)', Asks(p, j)'
               PROVE  q = p <=> k = j
    BY DEF AskedPairsMatch
  <2>1. CASE Asks(q, k) /\ Asks(p, j)
    BY <2>1 DEF PairsInv, AskedPairsMatch
  <2>2. CASE ~(Asks(q, k) /\ Asks(p, j))
    BY <1>9, <1>10, <2>2
  <2> QED
    BY <2>1, <2>2
<1>13. NewQuoteIsUnasked' /\ AnswersAreAwaited'
  BY <1>2 DEF NewQuoteIsUnasked, AnswersAreAwaited, Answers
<1>14. KeysAreUnique' /\ OrdersInv' /\ QuotesWithinBudget'
  BY <1>7 DEF KeysAreUnique, PairsInv, OrdersInv, RunsOrders, OrdersTerms, QuoteOf, QuotesWithinBudget
<1>15. TypeOK' /\ ServiceWasRegistered' /\ QuotedTargetWasRegistered'
  BY <1>1, <1>2, <1>5 DEF TypeOK, CatalogTyped, StoreTyped, ServiceWasRegistered, WasRegistered,
         QuotedTargetWasRegistered, catalogVars, gatewayVars
<1>16. CallsInv'
  <2> SUFFICES ASSUME NEW h \in Request PROVE CallOK(h)'
    BY DEF CallsInv
  <2>1. CASE h = g
    BY <1>2, <2>1 DEF CallOK, OfRun, Idle
  <2>2. CASE h # g
    BY <1>2, <1>7, <2>2 DEF CallsInv, CallOK
  <2> QED
    BY <2>1, <2>2
<1>17. AwaitedIsShown' /\ ShownRunIsOfQuote'
  BY <1>5, <1>6 DEF AwaitedIsShown, ShownRunIsOfQuote, Busy
<1> QED
  BY <1>11, <1>12, <1>13, <1>14, <1>15, <1>16, <1>17 DEF PairsInv, PageInv

\* createRun goes on with the run it was given.
LEMMA ReceiveRunInv == ASSUME CheckoutInv, NEW g \in Request, ReceiveRun(g) PROVE CheckoutInv'
<1> DEFINE c == [Idle EXCEPT !.pc = "load", !.run = request[g].run]
<1>1. /\ request[g].pc = "created" /\ UNCHANGED <<catalogVars, gatewayVars, page>>
      /\ request' = [request EXCEPT ![g] = c]
  BY DEF ReceiveRun
<1>2. c \in Call /\ c.pc = "load" /\ c.run = request[g].run
  BY IdleTyped DEF CheckoutInv, TypeOK, Call, Step
<1>3. StoreTyped' /\ Grown
  BY <1>1, SameRowsGrow DEF CheckoutInv, TypeOK, StoreTyped, gatewayVars
<1> HIDE DEF c
<1>4. Continues(g, c)
  BY <1>1, <1>2, <1>3, RunContinues DEF OfRun
<1> QED
  BY <1>1, <1>2, <1>4, RequestStep

-----------------------------------------------------------------------------
(* The environment.                                                        *)

\* Stored rows change in what the invariant does not speak of.
LEMMA RowsAge ==
    ASSUME CheckoutInv, StoreTyped', Grown, UNCHANGED <<catalogVars, request, page>>,
           DOMAIN runs' = DOMAIN runs, \A r \in DOMAIN runs : runs'[r].order = runs[r].order,
           DOMAIN remote' = DOMAIN remote, DOMAIN quotes' = DOMAIN quotes,
           \A q \in DOMAIN quotes : quotes'[q].target = quotes[q].target /\ quotes'[q].chain = quotes[q].chain
    PROVE  CheckoutInv'
<1> USE DEF CheckoutInv
<1>1. \A q, k \in Nat : Asks(q, k)' => Asks(q, k)
  BY DEF Asks, PageAsks, CallAsks, RunAsks, Grown
<1>2. Len(quotes) \in Nat /\ Len(quotes)' \in Nat /\ page.keys \in Nat /\ Len(quotes) <= Len(quotes)'
  BY StoredFields DEF TypeOK, PageRecord, Grown, StoreTyped
<1>3. AskedPairsExist' /\ AskedPairsMatch'
  BY <1>1, <1>2, PairsCarry DEF PairsInv
<1>4. NewQuoteIsUnasked'
  BY <1>1, <1>2, NewQuoteCarries DEF PairsInv
<1>5. KeysAreUnique'
  BY DEF KeysAreUnique, PairsInv, Grown
<1>6. OrdersInv'
  <2>1. \A r \in DOMAIN runs' : r \in DOMAIN runs /\ runs'[r].order = runs[r].order
    OBVIOUS
  <2>2. \A o \in DOMAIN remote' : o \in DOMAIN remote
    OBVIOUS
  <2> QED
    BY <2>1, <2>2, OrdersCarry
<1>7. CallsInv'
  BY CallCarries DEF CallsInv, TypeOK
<1>8. PageInv'
  <2>1. page.awaits \in Request \cup {NoRequest}
    BY DEF TypeOK, PageRecord
  <2>2. Busy /\ request[page.awaits].pc \in OfRun => request[page.awaits].run \in DOMAIN runs
    BY <2>1 DEF CallsInv, CallOK, Busy
  <2>3. AwaitedIsShown'
    BY <2>2 DEF PageInv, AwaitedIsShown, Busy, Grown
  <2> QED
    BY <2>3 DEF PageInv, AnswersAreAwaited, ShownRunIsOfQuote, Grown
<1>9. QuotesWithinBudget' /\ QuotedTargetWasRegistered'
  BY DEF QuotesWithinBudget, QuotedTargetWasRegistered, Grown, catalogVars
<1>10. TypeOK' /\ ServiceWasRegistered'
  BY DEF TypeOK, CatalogTyped, ServiceWasRegistered, WasRegistered, catalogVars
<1> QED
  BY <1>3, <1>4, <1>5, <1>6, <1>7, <1>8, <1>9, <1>10 DEF PairsInv

LEMMA RedeployInv == ASSUME CheckoutInv, Redeploy PROVE CheckoutInv'
<1>1. terms' \in Terms /\ UNCHANGED <<catalogVars, quotes, runs, remote, request, page>>
  BY DEF Redeploy
<1>2. StoreTyped' /\ Grown
  BY <1>1, SameRowsGrow DEF CheckoutInv, TypeOK, StoreTyped
<1> QED
  BY <1>1, <1>2, RowsAge

LEMMA QuoteExpiresInv == ASSUME CheckoutInv, QuoteExpires PROVE CheckoutInv'
<1>1. PICK q \in DOMAIN quotes : quotes' = [quotes EXCEPT ![q].expired = TRUE]
  BY DEF QuoteExpires
<1>2. UNCHANGED <<catalogVars, terms, runs, remote, request, page>>
  BY DEF QuoteExpires
<1> DEFINE e == [quotes[q] EXCEPT !.expired = TRUE]
<1>3. quotes[q] \in QuoteRecord /\ quotes \in Seq(QuoteRecord)
  BY StoredFields DEF CheckoutInv, TypeOK, StoreTyped
<1>4. /\ e \in QuoteRecord /\ e.target = quotes[q].target /\ e.chain = quotes[q].chain
      /\ e.terms = quotes[q].terms
  BY <1>3 DEF QuoteRecord
<1>5. quotes' = [quotes EXCEPT ![q] = e]
  BY <1>1
<1> HIDE DEF e
<1>6. /\ quotes' \in Seq(QuoteRecord) /\ Len(quotes') = Len(quotes)
      /\ DOMAIN quotes' = DOMAIN quotes
      /\ \A p \in DOMAIN quotes : quotes'[p] = IF p = q THEN e ELSE quotes[p]
  BY <1>3, <1>4, <1>5, ReplaceElement
<1>7. StoreTyped' /\ Grown
  <2>1. Len(quotes) <= Len(quotes') /\ Len(runs) <= Len(runs') /\ Len(remote) <= Len(remote')
    BY <1>2, <1>6, StoredFields DEF CheckoutInv, TypeOK
  <2> QED
    BY <1>2, <1>4, <1>6, <2>1 DEF CheckoutInv, TypeOK, StoreTyped, Grown
<1> QED
  BY <1>2, <1>4, <1>6, <1>7, RowsAge

LEMMA RunAdvancesInv == ASSUME CheckoutInv, RunAdvances PROVE CheckoutInv'
<1>1. PICK r \in DOMAIN runs, status \in Status : runs' = [runs EXCEPT ![r].status = status]
  BY DEF RunAdvances, Status
<1>2. UNCHANGED <<catalogVars, terms, quotes, remote, request, page>>
  BY DEF RunAdvances
<1> DEFINE e == [runs[r] EXCEPT !.status = status]
<1>3. runs[r] \in RunRecord
  BY StoredFields DEF CheckoutInv, TypeOK
<1>4. e \in RunRecord /\ e.quote = runs[r].quote /\ e.key = runs[r].key /\ e.order = runs[r].order
  BY <1>3 DEF RunRecord
<1>5. runs' = [runs EXCEPT ![r] = e]
  BY <1>1
<1> HIDE DEF e
<1>6. /\ StoreTyped' /\ Grown /\ DOMAIN runs' = DOMAIN runs /\ runs'[r] = e
      /\ \A s \in DOMAIN runs : s # r => runs'[s] = runs[s]
  BY <1>2, <1>4, <1>5, RunChanges DEF CheckoutInv, TypeOK
<1>7. \A s \in DOMAIN runs : runs'[s].order = runs[s].order
  BY <1>4, <1>6
<1> QED
  BY <1>2, <1>6, <1>7, RowsAge

LEMMA CheckoutStutter == ASSUME CheckoutInv, UNCHANGED vars PROVE CheckoutInv'
<1>1. UNCHANGED <<catalogVars, quotes, runs, remote, request, page>>
      /\ StoreTyped' /\ Grown
  BY SameRowsGrow DEF vars, gatewayVars, CheckoutInv, TypeOK, StoreTyped
<1> QED
  BY <1>1, RowsAge

-----------------------------------------------------------------------------
(* The theorems.                                                           *)

LEMMA CheckoutInit == Init => CheckoutInv
<1> SUFFICES ASSUME Init PROVE CheckoutInv
  OBVIOUS
<1>1. PICK g \in Registration :
        /\ service = [endpoint |-> g.endpoint, chain |-> g.chain, listed |-> g.listed]
        /\ releases = <<g.version>>
        /\ listings = Listing(service, releases)
        /\ registered = <<g>>
  BY DEF Init, CatalogInit
<1>2. releases \in Seq(Version) /\ releases # <<>> /\ registered \in Seq(Registration)
  BY <1>1 DEF Version
<1>3. CatalogTyped
  <2>1. Last(releases) \in Version
    BY <1>2 DEF Last
  <2>2. /\ service.endpoint \in Endpoint
        /\ service \in [endpoint : Endpoint, chain : Chain, listed : {e.listed : e \in Registration}]
    BY <1>1 DEF Endpoint, Chain
  <2> QED
    BY <1>1, <1>2, <2>1, <2>2 DEF CatalogTyped, Listing, AnyTarget
<1>4. /\ terms \in Terms /\ quotes = <<>> /\ runs = <<>> /\ remote = <<>>
      /\ request = [h \in Request |-> Idle] /\ page = EmptyPage
  BY DEF Init
<1>5. EmptyPage \in PageRecord /\ EmptyPage.quote = NoQuote /\ EmptyPage.run = NoRun
      /\ EmptyPage.awaits = NoRequest
  BY IdleTyped DEF EmptyPage, PageRecord, NoQuote, NoKey, NoRun
<1>6. Idle \in Call /\ Idle.pc = "idle"
  BY IdleTyped DEF Idle
<1>7. TypeOK
  BY <1>3, <1>4, <1>5, <1>6 DEF TypeOK, StoreTyped
<1>8. \A h \in Request : request[h].pc = "idle"
  BY <1>4, <1>6
<1>9. \A q, k \in Nat : ~Asks(q, k)
  BY <1>4, <1>5, <1>8 DEF Asks, PageAsks, CallAsks
<1>10. PairsInv
  BY <1>4, <1>8, <1>9 DEF PairsInv, AskedPairsExist, AskedPairsMatch, KeysAreUnique, NewQuoteIsUnasked
<1>11. OrdersInv /\ QuotesWithinBudget /\ QuotedTargetWasRegistered
  BY <1>4 DEF OrdersInv, RunsOrders, OrdersTerms, QuotesWithinBudget, QuotedTargetWasRegistered
<1>12. CallsInv /\ PageInv
  BY <1>4, <1>5, <1>8 DEF CallsInv, CallOK, OfRun, PageInv, AnswersAreAwaited, Answers, AwaitedIsShown,
     Busy, ShownRunIsOfQuote
<1>13. ServiceWasRegistered
  BY <1>1 DEF ServiceWasRegistered, WasRegistered
<1> QED
  BY <1>7, <1>10, <1>11, <1>12, <1>13 DEF CheckoutInv

LEMMA CheckoutStep == CheckoutInv /\ [Next]_vars => CheckoutInv'
<1> SUFFICES ASSUME CheckoutInv, [Next]_vars PROVE CheckoutInv'
  OBVIOUS
<1>1. CASE SelectService \/ OnboardOwn \/ OnboardElsewhere \/ DismissQuote
  BY <1>1, SelectServiceInv, OnboardInv, DismissQuoteInv
<1>2. ASSUME NEW g \in Request, RequestQuote(g) \/ CreateRun(g)
      PROVE  CheckoutInv'
  BY <1>2, RequestQuoteInv, CreateRunInv
<1>3. ASSUME NEW g \in Request, Handle(g)
      PROVE  CheckoutInv'
  BY <1>3, HandleQuoteInv, LookupKeyInv, InsertRunInv, LoadRunInv, FindOrderInv, RemoteOrderInv,
     OrderFailsInv, PutOrderInv, SavePaymentRequiredInv DEF Handle
<1>4. ASSUME NEW g \in Request, Receive(g)
      PROVE  CheckoutInv'
  BY <1>4, ReceiveQuoteInv, ReceiveRunInv, ReceiveChallengeInv, ReceiveErrorInv DEF Receive
<1>5. CASE AnswerLost \/ GatewayDies \/ Redeploy
  BY <1>5, AnswerLostInv, GatewayDiesInv, RedeployInv
<1>6. CASE QuoteExpires \/ RunAdvances
  BY <1>6, QuoteExpiresInv, RunAdvancesInv
<1>7. CASE UNCHANGED vars
  BY <1>7, CheckoutStutter
<1> QED
  BY <1>1, <1>2, <1>3, <1>4, <1>5, <1>6, <1>7 DEF Next

\* Catalog, quotes, runs, orders, requests in flight and the page fit together after every
\* step of the browser, the API and the merchant (POST /v1/quotes, /v1/runs, payment-challenge).
THEOREM CheckoutInvariance == Spec => []CheckoutInv
  BY CheckoutInit, CheckoutStep, PTL DEF Spec

\* However often the button of a quote is pressed and its requests overlap, the idempotency
\* key it carries makes one run of it (createRun of the release-run form, POST /v1/runs).
THEOREM OneRunPerQuoteHolds == Spec => []OneRunPerQuote
<1>1. CheckoutInv => OneRunPerQuote
  <2> SUFFICES ASSUME CheckoutInv, NEW r \in DOMAIN runs, NEW s \in DOMAIN runs,
                      runs[r].quote = runs[s].quote
               PROVE  r = s
    BY DEF OneRunPerQuote
  <2>1. /\ runs[r].quote \in Nat /\ runs[r].key \in Nat /\ runs[s].quote \in Nat /\ runs[s].key \in Nat
    BY StoredFields DEF CheckoutInv, TypeOK
  <2>2. Asks(runs[r].quote, runs[r].key) /\ Asks(runs[s].quote, runs[s].key)
    BY DEF Asks, RunAsks
  <2>3. runs[r].key = runs[s].key
    BY <2>1, <2>2 DEF CheckoutInv, PairsInv, AskedPairsMatch
  <2> QED
    BY <2>3 DEF CheckoutInv, PairsInv, KeysAreUnique
<1> QED
  BY <1>1, CheckoutInvariance, PTL

\* What the page asks to be paid for the run it shows is what the quote it shows says,
\* whatever was redeployed, re-quoted or selected meanwhile.
THEOREM AskedAsQuotedHolds == Spec => []AskedAsQuoted
<1>1. CheckoutInv => AskedAsQuoted
  <2> SUFFICES ASSUME CheckoutInv, NEW o \in DOMAIN remote, page.run # NoRun, page.quote # NoQuote,
                      runs[page.run].order = o
               PROVE  /\ remote[o].run = page.run
                      /\ remote[o].terms = quotes[page.quote].terms
                      /\ Total(remote[o].terms) <= Budget
    BY DEF AskedAsQuoted
  <2>1. page.run \in DOMAIN runs /\ runs[page.run].quote = page.quote
    BY DEF CheckoutInv, PageInv, ShownRunIsOfQuote
  <2>2. o # NoOrder
    BY StoredFields DEF CheckoutInv, TypeOK, NoOrder
  <2>3. remote[o].run = page.run
    BY <2>1, <2>2 DEF CheckoutInv, OrdersInv, RunsOrders
  <2>4. remote[o].terms = quotes[page.quote].terms
    BY <2>1, <2>3 DEF CheckoutInv, OrdersInv, OrdersTerms, QuoteOf
  <2>5. page.quote \in DOMAIN quotes
    <3>1. page.quote \in Nat /\ page.key \in Nat /\ DOMAIN quotes = 1..Len(quotes)
      BY StoredFields DEF CheckoutInv, TypeOK, PageRecord
    <3>2. Asks(page.quote, page.key)
      BY DEF Asks, PageAsks
    <3> QED
      BY <3>1, <3>2 DEF CheckoutInv, PairsInv, AskedPairsExist
  <2> QED
    BY <2>3, <2>4, <2>5 DEF CheckoutInv, QuotesWithinBudget
<1> QED
  BY <1>1, CheckoutInvariance, PTL

\* A payment-challenge answer names the order that is stored for its run, even when two
\* requests had an order made (PostgresPaymentOrderStore.put and its readers).
THEOREM AnsweredOrderIsStoredHolds == Spec => []AnsweredOrderIsStored
<1>1. CheckoutInv => AnsweredOrderIsStored
  BY DEF CheckoutInv, CallsInv, CallOK, AnsweredOrderIsStored
<1> QED
  BY <1>1, CheckoutInvariance, PTL

\* No quote mixes the endpoint of one registration with the chain of another
\* (resolveCatalogBinding under a concurrent onboardService).
THEOREM QuotedTargetWasRegisteredHolds == Spec => []QuotedTargetWasRegistered
<1>1. CheckoutInv => QuotedTargetWasRegistered
  BY DEF CheckoutInv
<1> QED
  BY <1>1, CheckoutInvariance, PTL

=============================================================================
