------------------------- MODULE RunLifecycleProofs -------------------------
EXTENDS RunLifecycle, TLAPS

EveryRunHasStatus == DOMAIN run = Run

LEMMA MovePreservesPaid ==
    ASSUME EveryRunHasStatus, Next
    PROVE  /\ EveryRunHasStatus'
           /\ \A r \in Run : run[r].status \in Paid => run'[r].status \in Paid
<1>1. PICK s \in Run, rule \in Rules : \E actor \in rule[3] : Transition(s, rule, actor)
  BY DEF Next
<1>2. run' = [run EXCEPT ![s] = Moved(run[s], rule[2])] /\ rule[1] = run[s].status
  BY <1>1 DEF Transition
<1>3. rule[1] \in Paid => rule[2] \in Paid
  BY DEF Rules, Paid, Delivered
<1> QED
  BY <1>2, <1>3 DEF Moved, EveryRunHasStatus

\* Whatever sequence of legal transitions a paid run takes, it is never cancelled
\* nor expired and never awaits payment again (docs/state-machine.md after FUNDED).
THEOREM PaidRunsStayPaid == Spec => PaidRunsAreDelivered
<1>1. Init => EveryRunHasStatus
  BY DEF Init, EveryRunHasStatus
<1>2. EveryRunHasStatus /\ [Next]_run => EveryRunHasStatus'
  BY MovePreservesPaid DEF EveryRunHasStatus
<1>3. EveryRunHasStatus /\ [Next]_run
          => [\A r \in Run : run[r].status \in Paid => run'[r].status \in Paid]_run
  BY MovePreservesPaid
<1> QED
  BY <1>1, <1>2, <1>3, PTL DEF Spec, PaidRunsAreDelivered
=============================================================================
