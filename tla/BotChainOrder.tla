---------------------------- MODULE BotChainOrder ----------------------------
(***************************************************************************)
(* One payment order of packages/bot-chain-adapter, which has no merchant  *)
(* to ask: the adapter issues the order itself, the customer names a       *)
(* transaction, and the reconciler looks for the transfer on the chain.    *)
(* All three read the order's row, work on their copy and put it back      *)
(* whole, with no lock between read and write.                             *)
(*                                                                         *)
(* Abstractions.  The row belongs to one run.  Amounts, parties and log    *)
(* indexes are folded into Paying, the transactions that carry the exact   *)
(* transfer.  Deadlines and the job queue are those of PaymentFunding: a   *)
(* reconciler here may start again at any time until the run is funded.    *)
(***************************************************************************)
EXTENDS Naturals

CONSTANTS
    Creator,     \* payment-challenge requests in progress
    Submitter,   \* payment-tx requests in progress
    Reconciler,  \* payment workers that hold this run's job
    OrderId,     \* order ids the adapter may draw at random
    Hash,        \* transaction hashes a customer may name
    Paying,      \* those that carry the exact Transfer of this order
    NoId, NoHash

ASSUME OrderConstantsAssumption ==
    /\ Paying \subseteq Hash
    /\ NoId \notin OrderId
    /\ NoHash \notin Hash

VARIABLES
    column,     \* payment_orders.order_id, NoId while there is no row
    snapshot,   \* payment_orders.order_snapshot
    mined,      \* transactions whose receipt the BOT Chain RPC returns
    funded,     \* the transaction of the run's CUSTOMER_IN receipt
    creator,    \* the order a creator is about to put
    submitter,  \* what a submitter was asked and has read
    reconciler  \* where a reconciler is and what it has read

orderVars == <<column, snapshot, mined, funded, creator, submitter, reconciler>>

Snapshot == [order : OrderId \cup {NoId}, submitted : Hash \cup {NoHash}, proof : Hash \cup {NoHash}]
Unread == [order |-> NoId, submitted |-> NoHash, proof |-> NoHash]

At(pc, order, hash, read) == [pc |-> pc, order |-> order, hash |-> hash, read |-> read]
Resting == At("idle", NoId, NoHash, Unread)
Failed == At("failed", NoId, NoHash, Unread)

Init ==
    /\ column = NoId
    /\ snapshot = Unread
    /\ mined = {}
    /\ funded = NoHash
    /\ creator = [c \in Creator |-> NoId]
    /\ submitter = [s \in Submitter |-> Resting]
    /\ reconciler = [p \in Reconciler |-> Resting]

\* INSERT ... ON CONFLICT (dapp_order_id) DO UPDATE: the snapshot is replaced,
\* the order_id column keeps the value it was inserted with.
Put(order, submitted, proof) ==
    /\ column' = IF column = NoId THEN order ELSE column
    /\ snapshot' = [order |-> order, submitted |-> submitted, proof |-> proof]

\* get: rows are found by the column, and answered with the snapshot.
Found(order) == order # NoId /\ column = order

-----------------------------------------------------------------------------
(* createOrder: look the run's order up, then put a new one.               *)

\* dappOrderId has no order yet.
MayCreate == column = NoId

\* The id is random, so no other request has drawn it.
CreateLookup(c, id) ==
    /\ creator[c] = NoId
    /\ MayCreate
    /\ \A d \in Creator : creator[d] # id
    /\ creator' = [creator EXCEPT ![c] = id]
    /\ UNCHANGED <<column, snapshot, mined, funded, submitter, reconciler>>

\* Mutant of CreatePut: a request that has nothing to put puts it.
CreatePutAgain(c) ==
    /\ Put(creator[c], NoHash, NoHash)
    /\ creator' = [creator EXCEPT ![c] = NoId]
    /\ UNCHANGED <<mined, funded, submitter, reconciler>>

CreatePut(c) ==
    /\ creator[c] # NoId
    /\ Put(creator[c], NoHash, NoHash)
    /\ creator' = [creator EXCEPT ![c] = NoId]
    /\ UNCHANGED <<mined, funded, submitter, reconciler>>

\* The request fails, or the API stops, before the row is written.
CreateFails(c) ==
    /\ creator[c] # NoId
    /\ creator' = [creator EXCEPT ![c] = NoId]
    /\ UNCHANGED <<column, snapshot, mined, funded, submitter, reconciler>>

-----------------------------------------------------------------------------
(* payment-tx and submitPaymentTransaction.                                *)

\* The route loads the run with its order and passes the snapshot's order id on.
SubmitBegin(s, h) ==
    /\ submitter[s] = Resting
    /\ snapshot.order # NoId
    /\ submitter' = [submitter EXCEPT ![s] = At("read", snapshot.order, h, Unread)]
    /\ UNCHANGED <<column, snapshot, mined, funded, creator, reconciler>>

\* Mutant of MayReplace: a confirmed payment may be replaced.
MayReplaceAlways(h) == TRUE

\* A proof settles the order; without one, any hash may take the place of another.
MayReplace(h) == snapshot.proof # NoHash => snapshot.submitted = h

SubmitRead(s) ==
    /\ submitter[s].pc = "read"
    /\ submitter' = [submitter EXCEPT ![s] =
           IF Found(@.order) /\ MayReplace(@.hash)
           THEN At("put", @.order, @.hash, snapshot)
           ELSE Resting]
    /\ UNCHANGED <<column, snapshot, mined, funded, creator, reconciler>>

SubmitPut(s) ==
    LET read == submitter[s].read IN
    /\ submitter[s].pc = "put"
    /\ Put(read.order, submitter[s].hash, read.proof)
    /\ submitter' = [submitter EXCEPT ![s] = Resting]
    /\ UNCHANGED <<mined, funded, creator, reconciler>>

SubmitFails(s) ==
    /\ submitter[s] # Resting
    /\ submitter' = [submitter EXCEPT ![s] = Resting]
    /\ UNCHANGED <<column, snapshot, mined, funded, creator, reconciler>>

-----------------------------------------------------------------------------
(* reconcile: getOrderStatus, getOrderProof, then verifySettlement and     *)
(* commitFundedRun.  Both adapter calls read the row, may look for the     *)
(* transfer, and put the proof they found.                                 *)

\* The receipt is there, succeeded, and holds the exact Transfer.
Verified(h) == h \in mined \cap Paying

Becomes(p, pc, order, hash, read) ==
    /\ reconciler' = [reconciler EXCEPT ![p] = At(pc, order, hash, read)]
    /\ UNCHANGED <<mined, creator, submitter>>

Rest(p) ==
    /\ reconciler' = [reconciler EXCEPT ![p] = Resting]
    /\ UNCHANGED <<column, snapshot, mined, funded, creator, submitter>>

ReconcileLoad(p) ==
    /\ reconciler[p] \in {Resting, Failed}
    /\ snapshot.order # NoId
    /\ funded = NoHash
    /\ Becomes(p, "status", snapshot.order, NoHash, Unread)
    /\ UNCHANGED <<column, snapshot, funded>>

\* getOrderStatus: a stored proof confirms the order, else the named hash is looked up.
StatusRead(p) ==
    /\ reconciler[p].pc = "status"
    /\ Found(reconciler[p].order)
    /\ UNCHANGED <<column, snapshot, funded>>
    /\ \/ snapshot.proof # NoHash /\ Becomes(p, "proof", snapshot.order, NoHash, Unread)
       \/ /\ snapshot.proof = NoHash
          /\ snapshot.submitted # NoHash
          /\ Becomes(p, "statusVerify", snapshot.order, snapshot.submitted, snapshot)

\* Mutant of ProofRead: only a stored proof is returned, else the job is retried.
StoredProofRead(p) ==
    /\ reconciler[p].pc = "proof"
    /\ Found(reconciler[p].order)
    /\ \/ snapshot.proof = NoHash /\ Rest(p)
       \/ /\ snapshot.proof # NoHash
          /\ Becomes(p, "settle", snapshot.order, snapshot.proof, Unread)
          /\ UNCHANGED <<column, snapshot, funded>>

\* getOrderProof reads the row anew, and looks again if the proof is not there.
ProofRead(p) ==
    /\ reconciler[p].pc = "proof"
    /\ Found(reconciler[p].order)
    /\ UNCHANGED <<column, snapshot, funded>>
    /\ \/ snapshot.proof # NoHash /\ Becomes(p, "settle", snapshot.order, snapshot.proof, Unread)
       \/ /\ snapshot.proof = NoHash
          /\ snapshot.submitted # NoHash
          /\ Becomes(p, "proofVerify", snapshot.order, snapshot.submitted, snapshot)

\* #tryVerifyPayment, from either call.
VerifyTransfer(p) ==
    LET at == reconciler[p] IN
    /\ at.pc \in {"statusVerify", "proofVerify"}
    /\ Verified(at.hash)
    /\ Becomes(p, IF at.pc = "statusVerify" THEN "statusPut" ELSE "proofPut", at.order, at.hash, at.read)
    /\ UNCHANGED <<column, snapshot, funded>>

\* The confirmed order is put with its proof, over whatever the row holds by now.
PutProof(p) ==
    LET at == reconciler[p] IN
    /\ at.pc \in {"statusPut", "proofPut"}
    /\ Put(at.order, at.read.submitted, at.hash)
    /\ \/ at.pc = "statusPut" /\ Becomes(p, "proof", at.order, NoHash, Unread)
       \/ at.pc = "proofPut" /\ Becomes(p, "settle", at.order, at.hash, Unread)
    /\ UNCHANGED funded

\* verifySettlement on the proof's receipt, and the commit, which writes the
\* order (and nothing else) back into the snapshot.
Settle(p) ==
    LET at == reconciler[p] IN
    /\ at.pc = "settle"
    /\ Verified(at.hash)
    /\ funded = NoHash
    /\ funded' = at.hash
    /\ snapshot' = [snapshot EXCEPT !.order = at.order]
    /\ Becomes(p, "idle", NoId, NoHash, Unread)
    /\ UNCHANGED column

\* No row under this id, no hash named, no transfer found, or a run that was
\* funded meanwhile: the job waits or is retried.
GiveUp(p) ==
    LET at == reconciler[p] IN
    /\ \/ at.pc \in {"status", "proof"} /\ ~Found(at.order)
       \/ at.pc \in {"status", "proof"} /\ snapshot.proof = NoHash /\ snapshot.submitted = NoHash
       \/ at.pc \in {"statusVerify", "proofVerify", "settle"} /\ ~Verified(at.hash)
       \/ at.pc = "settle" /\ funded # NoHash
    /\ Rest(p)

\* The database or the RPC fails, or the worker stops.
ReconcileFails(p) ==
    /\ reconciler[p] \notin {Resting, Failed}
    /\ reconciler' = [reconciler EXCEPT ![p] = Failed]
    /\ UNCHANGED <<column, snapshot, mined, funded, creator, submitter>>

Mined(h) ==
    /\ h \notin mined
    /\ mined' = mined \cup {h}
    /\ UNCHANGED <<column, snapshot, funded, creator, submitter, reconciler>>

ReconcileStep(p) ==
    \/ ReconcileLoad(p) \/ StatusRead(p) \/ ProofRead(p)
    \/ VerifyTransfer(p) \/ PutProof(p) \/ Settle(p) \/ GiveUp(p)

Next ==
    \/ \E c \in Creator : CreatePut(c) \/ CreateFails(c) \/ \E id \in OrderId : CreateLookup(c, id)
    \/ \E s \in Submitter : \/ \E h \in Hash : SubmitBegin(s, h)
                            \/ SubmitRead(s) \/ SubmitPut(s) \/ SubmitFails(s)
    \/ \E p \in Reconciler : ReconcileStep(p) \/ ReconcileFails(p)
    \/ \E h \in Hash : Mined(h)

Spec == Init /\ [][Next]_orderVars

(***************************************************************************)
(* Fairness: a worker that has the job works on it, the job comes back as  *)
(* long as the run is not funded, transactions that pay are mined, and     *)
(* the failures of its dependencies do not go on forever.  Nothing is      *)
(* assumed of the customer.                                                *)
(***************************************************************************)
FairSpec ==
    /\ Spec
    /\ \A p \in Reconciler : WF_orderVars(ReconcileStep(p))
    /\ \A h \in Paying : WF_orderVars(Mined(h))
    /\ <>[][\A p \in Reconciler : ~ReconcileFails(p)]_orderVars

-----------------------------------------------------------------------------
(* Properties. *)

Reading == {"read", "put", "idle"}
Reconciling == {"idle", "failed", "status", "statusVerify", "statusPut", "proof", "proofVerify", "proofPut", "settle"}
Locals(pcs) == [pc : pcs, order : OrderId \cup {NoId}, hash : Hash \cup {NoHash}, read : Snapshot]

\* Every variable has its type, and the row's column and snapshot are filled together.
TypeOK ==
    /\ column \in OrderId \cup {NoId} /\ snapshot \in Snapshot
    /\ mined \subseteq Hash /\ funded \in Hash \cup {NoHash}
    /\ creator \in [Creator -> OrderId \cup {NoId}]
    /\ submitter \in [Submitter -> Locals(Reading)]
    /\ reconciler \in [Reconciler -> Locals(Reconciling)]
    /\ (column = NoId) <=> (snapshot.order = NoId)

\* A stored proof is a verified transfer, and is the one of the transaction
\* the order names: no late write of an old copy pairs a proof with another hash.
ProofMatchesSubmission ==
    snapshot.proof # NoHash => snapshot.proof = snapshot.submitted /\ Verified(snapshot.proof)

\* The API and the reconciler take the order's id from the snapshot; get looks for
\* it in the column.  Two overlapping challenges can leave them apart.
Readable == column = snapshot.order

\* An order whose customer goes on naming paying transactions is eventually funded,
\* however often their writes erase the reconciler's proof, and whatever became of
\* overlapping challenges, as long as its row stays readable.
SubmittedPaymentIsFunded ==
    <>[](snapshot.submitted \in Paying /\ Readable) => <>(funded # NoHash)

-----------------------------------------------------------------------------
(* What the in-memory store asserts and the PostgreSQL store does not keep. *)

\* InMemoryBotChainOrderContextStore.put, the store the adapter's tests use:
\* a run's order, once put, is not replaced by another order of the same run.
\* The PostgreSQL store of the same interface replaces it.
RunKeepsItsOrder == [][snapshot.order # NoId => snapshot'.order = snapshot.order]_orderVars

=============================================================================
