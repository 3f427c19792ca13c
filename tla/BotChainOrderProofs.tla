------------------------ MODULE BotChainOrderProofs -------------------------
(***************************************************************************)
(* Theorems about BotChainOrder, for any number of requests, workers and   *)
(* transactions.  Every writer puts a whole copy of the row, so what holds *)
(* of the row must hold of each copy in flight: a proof in it is verified  *)
(* and belongs to the hash it stands beside.                               *)
(***************************************************************************)
EXTENDS BotChainOrder, TLAPS

Good == mined \cap Paying

\* What a row, or a copy of it, may say about its payment.
Sound(copy) == copy.proof # NoHash => copy.proof = copy.submitted /\ copy.proof \in Good

\* A submission about to be put would not pair a proof with another hash.
SubmitterSound(s) ==
    submitter[s].pc = "put" =>
        /\ submitter[s].read.order # NoId /\ column # NoId
        /\ Sound(submitter[s].read)
        /\ submitter[s].read.proof # NoHash => submitter[s].read.submitted = submitter[s].hash

\* A reconciler verified the hash it is about to put or to settle with.
ReconcilerSound(p) ==
    LET at == reconciler[p] IN
    /\ at.pc \notin {"idle", "failed"} => at.order # NoId /\ column # NoId
    /\ at.pc \in {"statusVerify", "statusPut", "proofVerify", "proofPut"} => at.read.submitted = at.hash
    /\ at.pc \in {"statusPut", "proofPut", "settle"} => at.hash \in Good

OrderInv ==
    /\ TypeOK
    /\ Sound(snapshot)
    /\ \A s \in Submitter : SubmitterSound(s)
    /\ \A p \in Reconciler : ReconcilerSound(p)

LEMMA InitOrder == Init => OrderInv
  BY OrderConstantsAssumption
     DEF Init, OrderInv, TypeOK, Snapshot, Unread, Resting, At, Locals, Reading, Reconciling, Sound,
         SubmitterSound, ReconcilerSound

LEMMA CreatorSteps ==
  ASSUME OrderInv, NEW c \in Creator,
         CreatePut(c) \/ CreateFails(c) \/ \E id \in OrderId : CreateLookup(c, id)
  PROVE  OrderInv'
  BY OrderConstantsAssumption
     DEF OrderInv, TypeOK, Snapshot, Locals, Reading, Reconciling, Sound, Good,
         SubmitterSound, ReconcilerSound, CreateLookup, CreatePut, CreateFails, Put

\* A row that exists is put again as a sound copy.
LEMMA PutKeepsRow ==
  ASSUME OrderInv, NEW order \in OrderId, NEW submitted \in Hash \cup {NoHash},
         NEW proof \in Hash \cup {NoHash}, column # NoId,
         proof # NoHash => proof = submitted /\ proof \in Good,
         Put(order, submitted, proof), mined' = mined
  PROVE  /\ column' = column /\ snapshot' \in Snapshot
         /\ snapshot'.order # NoId
         /\ Sound(snapshot)'
  BY OrderConstantsAssumption DEF OrderInv, TypeOK, Put, Snapshot, Sound, Good

\* A submitter moves on, with the row as it was or put soundly.
LEMMA SubmitterMoves ==
  ASSUME OrderInv, NEW s \in Submitter, NEW next \in Locals(Reading),
         submitter' = [submitter EXCEPT ![s] = next],
         UNCHANGED <<column, mined, funded, creator, reconciler>>,
         snapshot' \in Snapshot, (column = NoId) <=> (snapshot'.order = NoId), Sound(snapshot)',
         next.pc = "put" => /\ next.read.order # NoId /\ column # NoId
                            /\ Sound(next.read)
                            /\ next.read.proof # NoHash => next.read.submitted = next.hash
  PROVE  OrderInv'
<1>1. TypeOK'
  BY DEF OrderInv, TypeOK
<1>2. \A q \in Submitter : SubmitterSound(q)'
  <2> SUFFICES ASSUME NEW q \in Submitter PROVE SubmitterSound(q)'
    OBVIOUS
  <2>1. CASE q = s
    BY <2>1 DEF OrderInv, TypeOK, SubmitterSound, Sound, Good
  <2>2. CASE q # s
    BY <2>2 DEF OrderInv, TypeOK, SubmitterSound, Sound, Good
  <2> QED
    BY <2>1, <2>2
<1>3. \A p \in Reconciler : ReconcilerSound(p)'
  BY DEF OrderInv, ReconcilerSound, Good
<1> QED
  BY <1>1, <1>2, <1>3 DEF OrderInv

LEMMA SubmitterSteps ==
  ASSUME OrderInv, NEW s \in Submitter,
         (\E h \in Hash : SubmitBegin(s, h)) \/ SubmitRead(s) \/ SubmitPut(s) \/ SubmitFails(s)
  PROVE  OrderInv'
<1>0. /\ submitter[s] \in Locals(Reading) /\ Resting \in Locals(Reading) /\ Unread \in Snapshot
      /\ snapshot \in Snapshot
      /\ SubmitterSound(s)
  BY DEF OrderInv, TypeOK, Resting, At, Locals, Reading, Unread, Snapshot
<1>1. ASSUME NEW h \in Hash, SubmitBegin(s, h) PROVE OrderInv'
  <2> DEFINE next == At("read", snapshot.order, h, Unread)
  <2>1. next \in Locals(Reading) /\ next.pc = "read"
    BY <1>0 DEF At, Locals, Reading, Snapshot
  <2> QED
    BY <1>1, <1>0, <2>1, SubmitterMoves DEF SubmitBegin, OrderInv, TypeOK, Sound, Good
<1>2. ASSUME SubmitRead(s) PROVE OrderInv'
  <2> DEFINE at == submitter[s]
             next == IF Found(at.order) /\ MayReplace(at.hash)
                     THEN At("put", at.order, at.hash, snapshot) ELSE Resting
  <2>1. /\ next \in Locals(Reading)
        /\ next.pc = "put" => /\ next.read = snapshot /\ next.hash = at.hash
                              /\ Found(at.order) /\ MayReplace(at.hash)
    BY <1>0 DEF At, Locals, Reading, Snapshot, Resting
  <2>2. next.pc = "put" => next.read.order # NoId /\ column # NoId
    BY <2>1 DEF OrderInv, TypeOK, Found
  <2>3. submitter' = [submitter EXCEPT ![s] = next]
    BY <1>2 DEF SubmitRead
  <2> HIDE DEF next
  <2> QED
    BY <1>2, <1>0, <2>1, <2>2, <2>3, SubmitterMoves DEF SubmitRead, OrderInv, TypeOK, Sound, Good, MayReplace
<1>3. ASSUME SubmitPut(s) PROVE OrderInv'
  <2> DEFINE at == submitter[s]
  <2>1. at.pc = "put" /\ at.read \in Snapshot /\ at.hash \in Hash \cup {NoHash}
    BY <1>3, <1>0 DEF SubmitPut, Locals
  <2>2. /\ at.read.order \in OrderId /\ at.read.proof \in Hash \cup {NoHash}
        /\ at.read.proof # NoHash => at.read.proof = at.hash /\ at.read.proof \in Good
    BY <2>1, <1>0 DEF SubmitterSound, Snapshot, Sound
  <2>3. column # NoId
    BY <1>3, <1>0, <2>1 DEF SubmitterSound
  <2>4. /\ column' = column /\ snapshot' \in Snapshot /\ snapshot'.order # NoId
        /\ Sound(snapshot)'
    BY <1>3, <2>1, <2>2, <2>3, PutKeepsRow DEF SubmitPut
  <2> QED
    BY <1>3, <1>0, <2>3, <2>4, SubmitterMoves DEF SubmitPut, Resting, At
<1>4. ASSUME SubmitFails(s) PROVE OrderInv'
  BY <1>4, <1>0, SubmitterMoves DEF SubmitFails, OrderInv, TypeOK, Sound, Good, Resting, At
<1> QED
  BY <1>1, <1>2, <1>3, <1>4

LEMMA MinedStep ==
  ASSUME OrderInv, NEW h \in Hash, Mined(h)
  PROVE  OrderInv'
  BY DEF OrderInv, TypeOK, Sound, Good, SubmitterSound, ReconcilerSound, Mined

\* A reconciler moves on, with the row as it was or put soundly.
LEMMA ReconcilerMoves ==
  ASSUME OrderInv, NEW p \in Reconciler, NEW next \in Locals(Reconciling),
         reconciler' = [reconciler EXCEPT ![p] = next],
         UNCHANGED <<column, mined, creator, submitter>>,
         snapshot' \in Snapshot, (column = NoId) <=> (snapshot'.order = NoId), Sound(snapshot)',
         funded' \in Hash \cup {NoHash},
         next.pc \notin {"idle", "failed"} => next.order # NoId /\ column # NoId,
         next.pc \in {"statusVerify", "statusPut", "proofVerify", "proofPut"} => next.read.submitted = next.hash,
         next.pc \in {"statusPut", "proofPut", "settle"} => next.hash \in Good
  PROVE  OrderInv'
<1>1. TypeOK'
  BY DEF OrderInv, TypeOK
<1>2. \A q \in Reconciler : ReconcilerSound(q)'
  <2> SUFFICES ASSUME NEW q \in Reconciler PROVE ReconcilerSound(q)'
    OBVIOUS
  <2>1. CASE q = p
    BY <2>1 DEF OrderInv, TypeOK, ReconcilerSound, Good
  <2>2. CASE q # p
    BY <2>2 DEF OrderInv, TypeOK, ReconcilerSound, Good
  <2> QED
    BY <2>1, <2>2
<1>3. \A s \in Submitter : SubmitterSound(s)'
  BY DEF OrderInv, SubmitterSound, Sound, Good
<1> QED
  BY <1>1, <1>2, <1>3 DEF OrderInv

LEMMA ReconcilerSteps ==
  ASSUME OrderInv, NEW p \in Reconciler, ReconcileStep(p) \/ ReconcileFails(p)
  PROVE  OrderInv'
<1> DEFINE at == reconciler[p]
<1>0. /\ at \in Locals(Reconciling) /\ {Resting, Failed} \subseteq Locals(Reconciling) /\ Unread \in Snapshot
      /\ snapshot \in Snapshot /\ Sound(snapshot)
      /\ (column = NoId) <=> (snapshot.order = NoId)
      /\ funded \in Hash \cup {NoHash}
      /\ ReconcilerSound(p)
  BY DEF OrderInv, TypeOK, Resting, Failed, At, Locals, Reconciling, Unread, Snapshot, Good
\* A copy taken of the row, or an order and a hash alone, is well typed.
<1>1. \A pc \in Reconciling, order \in OrderId \cup {NoId}, hash \in Hash \cup {NoHash}, read \in Snapshot :
          At(pc, order, hash, read) \in Locals(Reconciling)
  BY DEF At, Locals
<1>2. ASSUME UNCHANGED <<column, snapshot, funded>>, NEW pc \in Reconciling,
             NEW order \in OrderId \cup {NoId}, NEW hash \in Hash \cup {NoHash}, NEW read \in Snapshot,
             Becomes(p, pc, order, hash, read),
             pc \notin {"idle", "failed"} => order # NoId /\ column # NoId,
             pc \in {"statusVerify", "statusPut", "proofVerify", "proofPut"} => read.submitted = hash,
             pc \in {"statusPut", "proofPut", "settle"} => hash \in Good
      PROVE  OrderInv'
  <2> DEFINE next == At(pc, order, hash, read)
  <2>1. /\ next \in Locals(Reconciling) /\ next.pc = pc
        /\ next.order = order /\ next.hash = hash /\ next.read = read
    BY <1>1 DEF At
  <2>2. reconciler' = [reconciler EXCEPT ![p] = next] /\ UNCHANGED <<mined, creator, submitter>>
    BY <1>2 DEF Becomes
  <2>3. snapshot' \in Snapshot /\ ((column = NoId) <=> (snapshot'.order = NoId)) /\ Sound(snapshot)'
    BY <1>0, <1>2, <2>2 DEF Sound, Good
  <2> HIDE DEF next
  <2> QED
    BY <1>0, <1>2, <2>1, <2>2, <2>3, ReconcilerMoves
<1>3. ASSUME Rest(p) PROVE OrderInv'
  BY <1>3, <1>0, ReconcilerMoves DEF Rest, Resting, At, Sound, Good
<1>4. ASSUME ReconcileLoad(p) PROVE OrderInv'
  BY <1>4, <1>0, <1>2, OrderConstantsAssumption DEF ReconcileLoad, Reconciling, Snapshot
<1>5. ASSUME StatusRead(p) PROVE OrderInv'
  BY <1>5, <1>0, <1>2 DEF StatusRead, Found, Reconciling, Snapshot
<1>6. ASSUME ProofRead(p) PROVE OrderInv'
  BY <1>6, <1>0, <1>2 DEF ProofRead, Found, Reconciling, Snapshot, Sound
<1>7. ASSUME VerifyTransfer(p) PROVE OrderInv'
  BY <1>7, <1>0, <1>2 DEF VerifyTransfer, Verified, Good, ReconcilerSound, Locals, Reconciling
<1>8. ASSUME PutProof(p) PROVE OrderInv'
  <2>1. /\ at.pc \in {"statusPut", "proofPut"} /\ at.order \in OrderId /\ column # NoId
        /\ at.read \in Snapshot /\ at.hash = at.read.submitted /\ at.hash \in Good
        /\ at.hash \in Hash \cup {NoHash}
    BY <1>8, <1>0 DEF PutProof, ReconcilerSound, Locals
  <2>2. /\ column' = column /\ snapshot' \in Snapshot /\ snapshot'.order # NoId
        /\ Sound(snapshot)'
    BY <1>8, <2>1, PutKeepsRow DEF PutProof, Becomes
  <2>3. PICK next \in Locals(Reconciling) :
          /\ reconciler' = [reconciler EXCEPT ![p] = next]
          /\ next.pc \in {"proof", "settle"} /\ next.order = at.order
          /\ next.pc = "settle" => next.hash = at.hash
    <3>1. CASE at.pc = "statusPut"
      BY <1>8, <1>0, <1>1, <2>1, <3>1 DEF PutProof, Becomes, At, Reconciling
    <3>2. CASE at.pc = "proofPut"
      BY <1>8, <1>0, <1>1, <2>1, <3>2 DEF PutProof, Becomes, At, Reconciling
    <3> QED
      BY <2>1, <3>1, <3>2
  <2>4. UNCHANGED <<mined, creator, submitter, funded>>
    BY <1>8 DEF PutProof, Becomes
  <2> QED
    BY <1>0, <2>1, <2>2, <2>3, <2>4, OrderConstantsAssumption, ReconcilerMoves
<1>9. ASSUME Settle(p) PROVE OrderInv'
  <2>1. /\ at.pc = "settle" /\ at.order \in OrderId /\ column # NoId
        /\ at.hash \in Good /\ at.hash \in Hash \cup {NoHash}
    BY <1>9, <1>0 DEF Settle, ReconcilerSound, Locals
  <2>2. /\ snapshot' \in Snapshot /\ snapshot'.order # NoId /\ Sound(snapshot)'
    BY <1>9, <1>0, <2>1, OrderConstantsAssumption DEF Settle, Becomes, Snapshot, Sound, Good
  <2>3. At("idle", NoId, NoHash, Unread) = Resting
    BY DEF Resting
  <2> QED
    BY <1>9, <1>0, <2>1, <2>2, <2>3, ReconcilerMoves DEF Settle, Becomes, Resting, At
<1>10. ASSUME GiveUp(p) PROVE OrderInv'
  BY <1>10, <1>3 DEF GiveUp
<1>11. ASSUME ReconcileFails(p) PROVE OrderInv'
  BY <1>11, <1>0, ReconcilerMoves DEF ReconcileFails, Failed, At, Sound, Good
<1> QED
  BY <1>4, <1>5, <1>6, <1>7, <1>8, <1>9, <1>10, <1>11 DEF ReconcileStep

-----------------------------------------------------------------------------
LEMMA OrderStep == OrderInv /\ [Next]_orderVars => OrderInv'
<1> SUFFICES ASSUME OrderInv, [Next]_orderVars PROVE OrderInv'
  OBVIOUS
<1>1. ASSUME NEW c \in Creator, CreatePut(c) \/ CreateFails(c) \/ \E id \in OrderId : CreateLookup(c, id)
      PROVE  OrderInv'
  BY <1>1, CreatorSteps
<1>2. ASSUME NEW s \in Submitter,
             (\E h \in Hash : SubmitBegin(s, h)) \/ SubmitRead(s) \/ SubmitPut(s) \/ SubmitFails(s)
      PROVE  OrderInv'
  BY <1>2, SubmitterSteps
<1>3. ASSUME NEW p \in Reconciler, ReconcileStep(p) \/ ReconcileFails(p)
      PROVE  OrderInv'
  BY <1>3, ReconcilerSteps
<1>4. ASSUME NEW h \in Hash, Mined(h) PROVE OrderInv'
  BY <1>4, MinedStep
<1>5. CASE UNCHANGED orderVars
  BY <1>5 DEF orderVars, OrderInv, TypeOK, Sound, Good, SubmitterSound, ReconcilerSound
<1> QED
  BY <1>1, <1>2, <1>3, <1>4, <1>5 DEF Next

\* The inductive invariant holds of every behaviour of the adapter.
THEOREM OrderInvariance == Spec => []OrderInv
  BY InitOrder, OrderStep, PTL DEF Spec

\* Every variable keeps its type, and the row's two columns are filled together.
THEOREM OrderTypeCorrect == Spec => []TypeOK
<1>1. OrderInv => TypeOK
  BY DEF OrderInv
<1> QED
  BY OrderInvariance, <1>1, PTL

\* However submissions and reconcilers overwrite each other's copies, a stored
\* proof is verified and is the proof of the hash beside it.
THEOREM ProofsMatchSubmissions == Spec => []ProofMatchesSubmission
<1>1. OrderInv => ProofMatchesSubmission
  BY DEF OrderInv, ProofMatchesSubmission, Sound, Good, Verified
<1> QED
  BY OrderInvariance, <1>1, PTL

=============================================================================
