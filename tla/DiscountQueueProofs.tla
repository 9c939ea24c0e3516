------------------------ MODULE DiscountQueueProofs ------------------------
(***************************************************************************)
(* Proofs about the discount queue, for any number of discounts and any    *)
(* number of scheduler copies unless a theorem says otherwise.             *)
(***************************************************************************)
EXTENDS MCDiscountQueue, TLAPS

\* The receipts on their way keep their type when a transaction ends.
LEMMA ConcludeType ==
  ASSUME rung \subseteq Receipt, NEW r \in Runners,
         NEW started \in SUBSET Discounts, Conclude(r, started)
  PROVE  rung' \subseteq Receipt
<1> SUFFICES ASSUME NEW receipt \in rung
             PROVE  [drink |-> receipt.drink,
                     during |-> IF r \in receipt.jobs
                                THEN receipt.during \cup started
                                ELSE receipt.during,
                     jobs |-> receipt.jobs \ {r}] \in Receipt
  BY DEF Conclude
<1> QED
  BY DEF Receipt

\* Every step of the queue keeps the types: one case per operation.
LEMMA TypeStep ==
  ASSUME TypeOK, [Next]_vars
  PROVE  TypeOK'
<1> USE DiscountsAreIds, PaidAreDiscounts, DrinkTyping, NoneIsNothingElse DEF TypeOK
<1>1. ASSUME NEW d \in Discounts, Buy(d), UNCHANGED r2Failed
      PROVE  TypeOK'
  <2> DEFINE s == [status EXCEPT ![d] = "queued"]
  <2>1. s \in [Discounts -> {"none", "queued", "active", "done", "refunded"}]
    OBVIOUS
  <2> HIDE DEF s
  <2>2. CASE status' = s /\ UNCHANGED <<causes, deployment>>
    BY <1>1, <2>1, <2>2 DEF Buy
  <2>3. ASSUME NEW e \in Discounts, Activate(e, s)
        PROVE  TypeOK'
    BY <1>1, <2>1, <2>3 DEF Buy, Activate
  <2> QED
    BY <1>1, <2>2, <2>3 DEF Buy, ActivateNext, s
<1>2. ASSUME NEW drink \in Drinks, Ring(drink), UNCHANGED r2Failed
      PROVE  TypeOK'
  BY <1>2 DEF Ring, Receipt
<1>3. ASSUME NEW a \in Discounts, NEW rows \in SUBSET Discounts,
             EndActive(a, rows)
      PROVE  /\ status' \in [Discounts ->
                   {"none", "queued", "active", "done", "refunded"}]
             /\ deployment' \in [Discounts -> Nat]
             /\ causes' \in Seq(Discounts \cup {Prices, Admin})
             /\ 1..Len(causes) \subseteq 1..Len(causes')
  <2> DEFINE s == [d \in Discounts |-> IF d \in rows THEN "refunded"
                                       ELSE IF d = a THEN "done"
                                       ELSE status[d]]
  <2>1. s \in [Discounts -> {"none", "queued", "active", "done", "refunded"}]
    OBVIOUS
  <2>2. \/ status' = s /\ causes' = Append(causes, Prices) /\ UNCHANGED deployment
        \/ \E d \in Discounts : IsNext(d, s) /\ Activate(d, s)
    BY <1>3 DEF EndActive
  <2> HIDE DEF s
  <2>3. CASE status' = s /\ causes' = Append(causes, Prices) /\ UNCHANGED deployment
    BY <2>1, <2>3
  <2>4. ASSUME NEW d \in Discounts, Activate(d, s)
        PROVE  /\ status' \in [Discounts ->
                     {"none", "queued", "active", "done", "refunded"}]
               /\ deployment' \in [Discounts -> Nat]
               /\ causes' \in Seq(Discounts \cup {Prices, Admin})
               /\ 1..Len(causes) \subseteq 1..Len(causes')
    BY <2>1, <2>4 DEF Activate
  <2> QED
    BY <2>2, <2>3, <2>4
<1>4. ASSUME NEW receipt \in rung, IngestReceipt(receipt), UNCHANGED r2Failed
      PROVE  TypeOK'
  <2>1. CASE UNCHANGED <<status, endedBy, causes, deployment>>
    BY <1>4, <2>1 DEF IngestReceipt
  <2>2. ASSUME NEW a \in ActiveRows, EndActive(a, {}),
               endedBy' = [endedBy EXCEPT ![a] = "receipt"]
        PROVE  TypeOK'
    <3>1. a \in Discounts
      BY DEF ActiveRows
    <3> QED
      BY <1>3, <1>4, <2>2, <3>1 DEF IngestReceipt
  <2> QED
    BY <1>4, <2>1, <2>2 DEF IngestReceipt
<1>5. CASE WindowPasses /\ UNCHANGED r2Failed
  BY <1>5 DEF WindowPasses, ActiveRows
<1>6. ASSUME NEW r \in Runners, ReadExpired(r), UNCHANGED r2Failed
      PROVE  TypeOK'
  BY <1>6 DEF ReadExpired
<1>7. ASSUME NEW r \in Runners, SelectFailed(r), UNCHANGED r2Failed
      PROVE  TypeOK'
  <2>1. Failing \in SUBSET Discounts /\ Failing \cap ActiveRows \in SUBSET Discounts
    BY DEF Failing
  <2> QED
    BY <1>7, <2>1 DEF SelectFailed
<1>8. ASSUME NEW r \in Runners, CommitJob(r), UNCHANGED r2Failed
      PROVE  TypeOK'
  <2> DEFINE rows == runner[r].rows
             ending == IF MustEnd(r) THEN ActiveRows ELSE {}
  <2>1. rows \in SUBSET Discounts /\ ending \subseteq Discounts
    BY DEF ActiveRows
  <2>2. /\ status' \in [Discounts ->
              {"none", "queued", "active", "done", "refunded"}]
        /\ deployment' \in [Discounts -> Nat]
        /\ causes' \in Seq(Discounts \cup {Prices, Admin})
        /\ 1..Len(causes) \subseteq 1..Len(causes')
    <3>1. CASE /\ status' = [d \in Discounts |->
                               IF d \in rows THEN "refunded" ELSE status[d]]
               /\ UNCHANGED <<causes, deployment>>
      BY <3>1
    <3>2. CASE \E a \in ending : EndActive(a, rows)
      BY <1>3, <2>1, <3>2
    <3> QED
      BY <1>8, <3>1, <3>2 DEF CommitJob
  <2>3. endedBy' \in [Discounts -> {"time", "receipt", "failed", None}]
    BY <1>8 DEF CommitJob, EndReason
  <2>4. refunds' \in [Discounts -> Nat]
    BY <1>8 DEF CommitJob
  <2>5. /\ lock' \in Runners \cup {None}
        /\ runner' = [runner EXCEPT ![r] = Idle]
        /\ UNCHANGED <<elapsed, r2Failed>>
    BY <1>8 DEF CommitJob
  <2>6. rung' \subseteq Receipt
    <3>1. {d \in QueuedRows : status'[d] = "active"} \in SUBSET Discounts
      BY DEF QueuedRows
    <3> QED
      BY <1>8, <3>1, ConcludeType DEF CommitJob
  <2> QED
    BY <2>2, <2>3, <2>4, <2>5, <2>6 DEF Idle
<1>9. ASSUME NEW r \in Runners, AbortJob(r), UNCHANGED r2Failed
      PROVE  TypeOK'
  <2>1. rung' \subseteq Receipt
    BY <1>9, ConcludeType DEF AbortJob
  <2> QED
    BY <1>9, <2>1 DEF AbortJob, Idle
<1>10. CASE \/ \E ids \in SUBSET (1..Len(causes)) : TargetsFail(ids)
            \/ \E i \in r2Failed : TargetRestored(i)
  BY <1>10 DEF TargetsFail, TargetRestored, queueVars
<1>11. CASE UNCHANGED vars
  BY <1>11 DEF vars, queueVars
<1> QED
  BY <1>1, <1>2, <1>4, <1>5, <1>6, <1>7, <1>8, <1>9, <1>10, <1>11
  DEF Next, QueueStep, JobStep

\* The rows, the deployments and the job's transaction keep their types.
THEOREM TypeCorrect == Safety => []TypeOK
<1>1. Init => TypeOK
  BY NoneIsNothingElse DEF Init, TypeOK, Idle
<1> QED
  BY <1>1, TypeStep, PTL DEF Safety

(***************************************************************************)
(* The safety of the rows rests on one fact about the job's transaction:   *)
(* however stale its selected rows are, they are active or over, and an    *)
(* active one among them makes the transaction end the active row.         *)
(***************************************************************************)
SelectedRows ==
  \A r \in Runners : runner[r].at = "selected" =>
    \A d \in runner[r].rows :
      /\ status[d] \in {"active", "done", "refunded"}
      /\ status[d] = "active" => MustEnd(r)

QInv == TypeOK /\ OneActive /\ QueueKeepsMoving /\ SelectedRows

(***************************************************************************)
(* What one step may do to the rows and the deployments.                   *)
(***************************************************************************)
Marked(a, rows) == [d \in Discounts |-> IF d \in rows THEN "refunded"
                                        ELSE IF d = a THEN "done"
                                        ELSE status[d]]
Deploys(cause) == causes' = Append(causes, cause)
Owns(d) == deployment' = [deployment EXCEPT ![d] = Len(causes) + 1]

Same == UNCHANGED <<status, causes, deployment>>
Waits(d) ==
  /\ status[d] = "none" /\ ActiveRows # {}
  /\ status' = [status EXCEPT ![d] = "queued"]
  /\ UNCHANGED <<causes, deployment>>
Starts(d) ==
  /\ status[d] = "none" /\ ActiveRows = {} /\ QueuedRows = {}
  /\ status' = [status EXCEPT ![d] = "active"]
  /\ Deploys(d) /\ Owns(d)
Refunds(rows) ==
  /\ rows \subseteq Ended
  /\ status' = [d \in Discounts |-> IF d \in rows THEN "refunded" ELSE status[d]]
  /\ UNCHANGED <<causes, deployment>>
Ends(a, rows) ==
  /\ a \in ActiveRows /\ QueuedRows = {}
  /\ rows \subseteq Ended \cup {a}
  /\ status' = Marked(a, rows)
  /\ Deploys(Prices) /\ UNCHANGED deployment
HandsOver(a, d, rows) ==
  /\ a \in ActiveRows /\ d \in QueuedRows
  /\ rows \subseteq Ended \cup {a}
  /\ \A e \in QueuedRows : d <= e
  /\ status' = [Marked(a, rows) EXCEPT ![d] = "active"]
  /\ Deploys(d) /\ Owns(d)

Moves ==
  \/ Same
  \/ \E d \in Discounts : Waits(d) \/ Starts(d)
  \/ \E rows \in SUBSET Discounts : Refunds(rows)
  \/ \E a \in Discounts, rows \in SUBSET Discounts :
       Ends(a, rows) \/ \E d \in Discounts : HandsOver(a, d, rows)

\* A purchase waits behind the active discount or starts on a free point.
LEMMA BuyMoves ==
  ASSUME QInv, NEW d \in Discounts, Buy(d)
  PROVE  Waits(d) \/ Starts(d)
<1> USE DEF QInv, TypeOK
<1> DEFINE s == [status EXCEPT ![d] = "queued"]
<1>1. status[d] = "none" /\ ActivateNext(s)
  BY DEF Buy
<1>2. CASE ActiveRows # {}
  <2>1. PICK a \in Discounts : status[a] = "active"
    BY <1>2 DEF ActiveRows
  <2>2. s[a] = "active"
    BY <1>1, <2>1
  <2>3. status' = s /\ UNCHANGED <<causes, deployment>>
    BY <1>1, <2>2 DEF ActivateNext
  <2> QED
    BY <1>1, <1>2, <2>3 DEF Waits
<1>3. CASE ActiveRows = {}
  <2>1. QueuedRows = {}
    BY <1>3 DEF QueueKeepsMoving
  <2>2. \A a \in Discounts : s[a] # "active"
    BY <1>3 DEF ActiveRows
  <2>3. PICK e \in Discounts : IsNext(e, s) /\ Activate(e, s)
    BY <1>1, <2>2 DEF ActivateNext
  <2>4. e = d
    BY <2>1, <2>3 DEF IsNext, QueuedRows
  <2>5. status' = [status EXCEPT ![d] = "active"]
    BY <2>3, <2>4 DEF Activate
  <2> QED
    BY <1>1, <1>3, <2>1, <2>3, <2>4, <2>5 DEF Starts, Activate, Deploys, Owns
<1> QED
  BY <1>2, <1>3

\* endActive leaves nobody waiting or hands the point to the oldest row.
LEMMA EndMoves ==
  ASSUME QInv, NEW a \in ActiveRows, NEW rows \in SUBSET Discounts,
         rows \subseteq Ended \cup {a}, EndActive(a, rows)
  PROVE  Ends(a, rows) \/ \E d \in Discounts : HandsOver(a, d, rows)
<1> USE DEF QInv, TypeOK
<1> DEFINE s == Marked(a, rows)
<1>0. a \in Discounts /\ status[a] = "active"
  BY DEF ActiveRows
<1>1. \/ /\ \A d \in Discounts : s[d] # "queued"
         /\ status' = s /\ Deploys(Prices) /\ UNCHANGED deployment
      \/ \E d \in Discounts : IsNext(d, s) /\ Activate(d, s)
  BY DEF EndActive, Marked, Deploys
<1>2. \A d \in Discounts : s[d] = "queued" <=> d \in QueuedRows
  BY <1>0 DEF Marked, QueuedRows, Ended
<1>3. CASE /\ \A d \in Discounts : s[d] # "queued"
           /\ status' = s /\ Deploys(Prices) /\ UNCHANGED deployment
  <2>1. QueuedRows = {}
    BY <1>2, <1>3 DEF QueuedRows
  <2> QED
    BY <1>3, <2>1 DEF Ends
<1>4. ASSUME NEW d \in Discounts, IsNext(d, s), Activate(d, s)
      PROVE  HandsOver(a, d, rows)
  <2>1. d \in QueuedRows /\ \A e \in QueuedRows : d <= e
    BY <1>2, <1>4 DEF IsNext, QueuedRows
  <2> QED
    BY <1>4, <2>1 DEF HandsOver, Activate, Deploys, Owns
<1> QED
  BY <1>1, <1>3, <1>4

\* The job's commit ends the active row, refunds rows that are over, or
\* both; never anything else, although its selection may be stale.
LEMMA CommitMoves ==
  ASSUME QInv, NEW r \in Runners, CommitJob(r)
  PROVE  Moves
<1> USE DEF QInv, TypeOK
<1> DEFINE rows == runner[r].rows
           ending == IF MustEnd(r) THEN ActiveRows ELSE {}
<1>1. rows \in SUBSET Discounts
  OBVIOUS
<1>2. \A d \in rows : \/ d \in Ended
                      \/ d \in ActiveRows /\ MustEnd(r)
  BY <1>1 DEF CommitJob, SelectedRows, Ended, ActiveRows
<1>3. CASE /\ ending = {}
           /\ status' = [d \in Discounts |->
                           IF d \in rows THEN "refunded" ELSE status[d]]
           /\ UNCHANGED <<causes, deployment>>
  <2>1. rows \subseteq Ended
    BY <1>2, <1>3
  <2> QED
    BY <1>1, <1>3, <2>1 DEF Moves, Refunds
<1>4. ASSUME NEW a \in ending, EndActive(a, rows)
      PROVE  Moves
  <2>1. a \in ActiveRows /\ a \in Discounts
    BY <1>4 DEF ActiveRows
  <2>2. rows \subseteq Ended \cup {a}
    BY <1>2, <2>1 DEF OneActive
  <2>3. Ends(a, rows) \/ \E d \in Discounts : HandsOver(a, d, rows)
    BY <1>1, <1>4, <2>1, <2>2, EndMoves
  <2> QED
    BY <1>1, <2>1, <2>3 DEF Moves
<1> QED
  BY <1>3, <1>4 DEF CommitJob

\* Every step of the specification is one of the moves.
LEMMA StepMoves ==
  ASSUME QInv, [Next]_vars
  PROVE  Moves
<1>1. ASSUME NEW d \in Discounts, Buy(d)
      PROVE  Moves
  BY <1>1, BuyMoves DEF Moves
<1>2. ASSUME NEW receipt \in rung, IngestReceipt(receipt)
      PROVE  Moves
  <2>1. CASE UNCHANGED <<status, endedBy, causes, deployment>>
    BY <2>1 DEF Moves, Same
  <2>2. ASSUME NEW a \in ActiveRows, EndActive(a, {})
        PROVE  Moves
    <3>1. Ends(a, {}) \/ \E d \in Discounts : HandsOver(a, d, {})
      BY <2>2, EndMoves
    <3>2. a \in Discounts
      BY DEF ActiveRows
    <3> QED
      BY <3>1, <3>2 DEF Moves
  <2> QED
    BY <1>2, <2>1, <2>2 DEF IngestReceipt
<1>3. ASSUME NEW r \in Runners, JobStep(r)
      PROVE  Moves
  BY <1>3, CommitMoves
  DEF JobStep, ReadExpired, SelectFailed, AbortJob, Moves, Same
<1>4. CASE \/ \E ids \in SUBSET (1..Len(causes)) : TargetsFail(ids)
           \/ \E i \in r2Failed : TargetRestored(i)
  BY <1>4 DEF TargetsFail, TargetRestored, queueVars, Moves, Same
<1>5. CASE WindowPasses \/ \E drink \in Drinks : Ring(drink)
  BY <1>5 DEF WindowPasses, Ring, Moves, Same
<1>6. CASE UNCHANGED vars
  BY <1>6 DEF vars, queueVars, Moves, Same
<1> QED
  BY <1>1, <1>2, <1>3, <1>4, <1>5, <1>6 DEF Next, QueueStep

\* The moves keep one active discount and a moving queue.
LEMMA MovesKeepQueue ==
  ASSUME TypeOK, OneActive, QueueKeepsMoving, Moves
  PROVE  OneActive' /\ QueueKeepsMoving'
<1> USE DEF TypeOK
<1>1. CASE Same
  BY <1>1 DEF Same, OneActive, QueueKeepsMoving, ActiveRows, QueuedRows
<1>2. ASSUME NEW d \in Discounts, Waits(d)
      PROVE  OneActive' /\ QueueKeepsMoving'
  <2>1. ActiveRows' = ActiveRows
    BY <1>2 DEF Waits, ActiveRows
  <2> QED
    BY <1>2, <2>1 DEF Waits, OneActive, QueueKeepsMoving
<1>3. ASSUME NEW d \in Discounts, Starts(d)
      PROVE  OneActive' /\ QueueKeepsMoving'
  <2>1. ActiveRows' = {d}
    BY <1>3 DEF Starts, ActiveRows
  <2> QED
    BY <2>1 DEF OneActive, QueueKeepsMoving
<1>4. ASSUME NEW rows \in SUBSET Discounts, Refunds(rows)
      PROVE  OneActive' /\ QueueKeepsMoving'
  <2>1. ActiveRows' = ActiveRows /\ QueuedRows' = QueuedRows
    BY <1>4 DEF Refunds, ActiveRows, QueuedRows, Ended
  <2> QED
    BY <2>1 DEF OneActive, QueueKeepsMoving
<1>5. ASSUME NEW a \in Discounts, NEW rows \in SUBSET Discounts, Ends(a, rows)
      PROVE  OneActive' /\ QueueKeepsMoving'
  <2>1. ActiveRows' = {} /\ QueuedRows' = {}
    BY <1>5 DEF Ends, Marked, ActiveRows, QueuedRows, Ended, OneActive
  <2> QED
    BY <2>1 DEF OneActive, QueueKeepsMoving
<1>6. ASSUME NEW a \in Discounts, NEW d \in Discounts,
             NEW rows \in SUBSET Discounts, HandsOver(a, d, rows)
      PROVE  OneActive' /\ QueueKeepsMoving'
  <2>1. ActiveRows' = {d}
    BY <1>6 DEF HandsOver, Marked, ActiveRows, QueuedRows, Ended, OneActive
  <2> QED
    BY <2>1 DEF OneActive, QueueKeepsMoving
<1> QED
  BY <1>1, <1>2, <1>3, <1>4, <1>5, <1>6 DEF Moves

\* A move never takes a row that is over, or active and not ended by it,
\* out of the stages a selection may hold.
LEMMA MovesKeepStages ==
  ASSUME TypeOK, OneActive, Moves, NEW d \in Discounts,
         status[d] \in {"active", "done", "refunded"}
  PROVE  /\ status'[d] \in {"active", "done", "refunded"}
         /\ status'[d] = "active" => status[d] = "active"
BY DEF TypeOK, Moves, Same, Waits, Starts, Refunds, Ends, HandsOver, Marked,
       QueuedRows, ActiveRows, Ended

\* The job's selection stays true of the rows while others move them.
LEMMA SelectedRowsStep ==
  ASSUME QInv, [Next]_vars
  PROVE  SelectedRows'
<1> USE DEF QInv
<1> SUFFICES ASSUME NEW r \in Runners, runner'[r].at = "selected",
                    NEW d \in runner'[r].rows
             PROVE  /\ status'[d] \in {"active", "done", "refunded"}
                    /\ status'[d] = "active" => MustEnd(r)'
  BY DEF SelectedRows
<1>0. TypeOK'
  BY TypeStep
<1>1. Moves
  BY StepMoves
<1>2. CASE runner'[r] = runner[r]
  <2>1. /\ d \in Discounts
        /\ status[d] \in {"active", "done", "refunded"}
        /\ status[d] = "active" => MustEnd(r)
    BY <1>2 DEF SelectedRows, TypeOK
  <2>2. /\ status'[d] \in {"active", "done", "refunded"}
        /\ status'[d] = "active" => status[d] = "active"
    BY <1>1, <2>1, MovesKeepStages
  <2> QED
    BY <1>2, <2>1, <2>2 DEF MustEnd
<1>3. CASE SelectFailed(r)
  <2>1. /\ d \in Failing
        /\ UNCHANGED status
        /\ runner'[r].expired = runner[r].expired
        /\ runner'[r].active = IF runner[r].expired THEN {}
                               ELSE Failing \cap ActiveRows
    BY <1>3 DEF SelectFailed, TypeOK
  <2> QED
    BY <2>1 DEF Failing, ActiveRows, MustEnd
<1>4. CASE ReadExpired(r) \/ CommitJob(r) \/ AbortJob(r)
  BY <1>4 DEF ReadExpired, CommitJob, AbortJob, Idle, TypeOK
<1>5. \/ runner'[r] = runner[r]
      \/ SelectFailed(r)
      \/ ReadExpired(r) \/ CommitJob(r) \/ AbortJob(r)
  <2>1. ASSUME NEW q \in Runners, JobStep(q), q # r
        PROVE  runner'[r] = runner[r]
    BY <2>1 DEF JobStep, ReadExpired, SelectFailed, CommitJob, AbortJob, TypeOK
  <2>2. CASE UNCHANGED runner
    BY <2>2
  <2>3. \/ UNCHANGED runner
        \/ \E q \in Runners : JobStep(q)
    BY DEF Next, QueueStep, Buy, Ring, IngestReceipt, WindowPasses,
           TargetsFail, TargetRestored, queueVars, vars
  <2> QED
    BY <2>1, <2>2, <2>3 DEF JobStep
<1> QED
  BY <1>2, <1>3, <1>4, <1>5

\* The empty queue satisfies the invariant of the queue.
LEMMA QInvInitially == Init => QInv
BY NoneIsNothingElse
DEF Init, QInv, TypeOK, OneActive, QueueKeepsMoving, SelectedRows,
    ActiveRows, QueuedRows, Idle

\* Every step of the system keeps the invariant of the queue: it is one of Moves,
\* and these keep it.
LEMMA QInvStep == QInv /\ [Next]_vars => QInv'
<1> SUFFICES ASSUME QInv, [Next]_vars PROVE QInv'
  OBVIOUS
<1>1. OneActive' /\ QueueKeepsMoving'
  BY StepMoves, MovesKeepQueue DEF QInv
<1> QED
  BY <1>1, TypeStep, SelectedRowsStep DEF QInv

\* The invariant of the queue holds in every state of every behaviour.
LEMMA QInvHolds == Safety => []QInv
BY QInvInitially, QInvStep, PTL DEF Safety

\* However purchases, receipts and any number of scheduler passes
\* interleave, at most one discount is active on the point.
THEOREM AtMostOneActive == Safety => []OneActive
<1>1. QInv => OneActive
  BY DEF QInv
<1> QED
  BY <1>1, QInvHolds, PTL

\* The queue never waits on a free point.
THEOREM QueueNeverStalls == Safety => []QueueKeepsMoving
<1>1. QInv => QueueKeepsMoving
  BY DEF QInv
<1> QED
  BY <1>1, QInvHolds, PTL

\* No interleaving takes a row back to an earlier stage.
THEOREM RowsOnlyAdvance == Safety => RowsGoForward
<1>1. QInv /\ [Next]_vars =>
        [\A d \in Discounts : Stage[status[d]] <= Stage[status'[d]]]_vars
  <2> SUFFICES ASSUME QInv, [Next]_vars, NEW d \in Discounts
               PROVE  Stage[status[d]] <= Stage[status'[d]]
    OBVIOUS
  <2>1. Moves /\ TypeOK /\ TypeOK' /\ OneActive
    BY StepMoves, TypeStep DEF QInv
  <2>2. \/ status'[d] = status[d]
        \/ status[d] = "none" /\ status'[d] \in {"queued", "active"}
        \/ status[d] = "queued" /\ status'[d] = "active"
        \/ status[d] = "active" /\ status'[d] \in {"done", "refunded"}
        \/ status[d] = "done" /\ status'[d] = "refunded"
    <3> USE <2>1 DEF TypeOK, QueuedRows, ActiveRows, Ended
    <3>1. CASE Same
      BY <3>1 DEF Same
    <3>2. CASE \E e \in Discounts : Waits(e)
      BY <3>2 DEF Waits
    <3>3. CASE \E e \in Discounts : Starts(e)
      BY <3>3 DEF Starts
    <3>4. CASE \E rows \in SUBSET Discounts : Refunds(rows)
      BY <3>4 DEF Refunds
    <3>5. ASSUME NEW a \in Discounts, NEW rows \in SUBSET Discounts, Ends(a, rows)
          PROVE  \/ status'[d] = status[d]
                 \/ status[d] = "active" /\ status'[d] \in {"done", "refunded"}
                 \/ status[d] = "done" /\ status'[d] = "refunded"
      BY <3>5 DEF Ends, Marked
    <3>6. ASSUME NEW a \in Discounts, NEW rows \in SUBSET Discounts,
                 NEW e \in Discounts, HandsOver(a, e, rows)
          PROVE  \/ status'[d] = status[d]
                 \/ status[d] = "queued" /\ status'[d] = "active"
                 \/ status[d] = "active" /\ status'[d] \in {"done", "refunded"}
                 \/ status[d] = "done" /\ status'[d] = "refunded"
      BY <3>6 DEF HandsOver, Marked
    <3> QED
      BY <2>1, <3>1, <3>2, <3>3, <3>4, <3>5, <3>6 DEF Moves
  <2>3. status[d] \in {"none", "queued", "active", "done", "refunded"}
    BY <2>1 DEF TypeOK
  <2> QED
    BY <2>2, <2>3 DEF Stage
<1> QED
  BY <1>1, QInvHolds, PTL DEF Safety, RowsGoForward

(***************************************************************************)
(* The columns of a row agree.  The reason is written by whoever ends the  *)
(* row, the deployment by whoever starts it, in other statements than the  *)
(* status, and the job writes reasons for rows it selected earlier.        *)
(***************************************************************************)
Reasons == \A d \in Discounts : endedBy[d] # None <=> d \in Ended
Menus == \A d \in Discounts : deployment[d] # 0 <=> d \in Ended \cup ActiveRows

\* What is deployed for a row, one move after the other.
LEMMA MovesKeepDeployments ==
  ASSUME TypeOK, TypeOK', Menus, Moves
  PROVE  Menus'
<1> USE DEF TypeOK, Menus, ActiveRows, Ended
<1>1. CASE Same
  BY <1>1 DEF Same
<1>2. ASSUME NEW d \in Discounts, Waits(d) \/ Starts(d)
      PROVE  Menus'
  <2>1. CASE Waits(d)
    BY <1>2, <2>1 DEF Waits
  <2>2. CASE Starts(d)
    <3>1. Len(causes) + 1 # 0
      OBVIOUS
    <3> QED
      BY <1>2, <2>2, <3>1 DEF Starts, Owns
  <2> QED
    BY <1>2, <2>1, <2>2
<1>3. ASSUME NEW rows \in SUBSET Discounts, Refunds(rows)
      PROVE  Menus'
  BY <1>3 DEF Refunds
<1>4. ASSUME NEW a \in Discounts, NEW rows \in SUBSET Discounts, Ends(a, rows)
      PROVE  Menus'
  BY <1>4 DEF Ends, Marked
<1>5. ASSUME NEW a \in Discounts, NEW rows \in SUBSET Discounts,
             NEW d \in Discounts, HandsOver(a, d, rows)
      PROVE  Menus'
  <2>1. Len(causes) \in Nat /\ d # a
    BY <1>5 DEF HandsOver, QueuedRows
  <2> QED
    BY <1>5, <2>1 DEF HandsOver, Marked, Owns, QueuedRows
<1> QED
  BY <1>1, <1>2, <1>3, <1>4, <1>5 DEF Moves

\* Who ends a and refunds rows has ended a, and nothing else.
LEMMA EndsOne ==
  ASSUME QInv, NEW a \in ActiveRows, NEW rows \in SUBSET Discounts,
         rows \subseteq Ended \cup {a}, EndActive(a, rows)
  PROVE  Ended' = Ended \cup {a}
<1>1. Ends(a, rows) \/ \E d \in Discounts : HandsOver(a, d, rows)
  BY EndMoves
<1>2. TypeOK /\ OneActive /\ status[a] = "active" /\ a \in Discounts
  BY DEF QInv, ActiveRows
<1>3. CASE Ends(a, rows)
  BY <1>2, <1>3 DEF TypeOK, Ends, Marked, Ended
<1>4. ASSUME NEW d \in Discounts, HandsOver(a, d, rows)
      PROVE  Ended' = Ended \cup {a}
  BY <1>2, <1>4 DEF TypeOK, HandsOver, Marked, QueuedRows, Ended
<1> QED
  BY <1>1, <1>3, <1>4

\* Why a row is over, one action after the other.
LEMMA ReasonsStep ==
  ASSUME QInv, Reasons, [Next]_vars
  PROVE  Reasons'
<1> USE NoneIsNothingElse DEF Reasons
<1>0. /\ endedBy \in [Discounts -> {"time", "receipt", "failed", None}]
      /\ ActiveRows \subseteq Discounts /\ Ended \subseteq Discounts
  BY DEF QInv, TypeOK, ActiveRows, Ended
<1>1. ASSUME NEW d \in Discounts, Buy(d)
      PROVE  Reasons'
  <2>1. Ended' = Ended
    BY <1>1, BuyMoves DEF QInv, TypeOK, Waits, Starts, Ended
  <2> QED
    BY <1>1, <2>1 DEF Buy
<1>2. ASSUME NEW receipt \in rung, IngestReceipt(receipt)
      PROVE  Reasons'
  <2>1. CASE UNCHANGED <<status, endedBy, causes, deployment>>
    BY <2>1 DEF Ended
  <2>2. ASSUME NEW a \in ActiveRows, EndActive(a, {}),
               endedBy' = [endedBy EXCEPT ![a] = "receipt"]
        PROVE  Reasons'
    <3>1. Ended' = Ended \cup {a}
      BY <2>2, EndsOne
    <3> QED
      BY <1>0, <2>2, <3>1
  <2> QED
    BY <1>2, <2>1, <2>2 DEF IngestReceipt
<1>3. ASSUME NEW r \in Runners, CommitJob(r)
      PROVE  Reasons'
  <2> DEFINE rows == runner[r].rows
             ending == IF MustEnd(r) THEN ActiveRows ELSE {}
  <2>1. rows \in SUBSET Discounts /\ rows \subseteq Ended \cup ending
    BY <1>3 DEF QInv, TypeOK, CommitJob, SelectedRows, Ended, ActiveRows
  <2>2. Ended' = Ended \cup ending
    <3>1. CASE /\ ending = {}
               /\ status' = [d \in Discounts |->
                               IF d \in rows THEN "refunded" ELSE status[d]]
      BY <2>1, <3>1 DEF QInv, TypeOK, Ended
    <3>2. ASSUME NEW a \in ending, EndActive(a, rows)
          PROVE  Ended' = Ended \cup ending
      <4>1. a \in ActiveRows /\ ending = {a}
        BY <3>2 DEF QInv, OneActive
      <4> HIDE DEF ending
      <4>2. Ended' = Ended \cup {a}
        BY <2>1, <3>2, <4>1, EndsOne
      <4> QED
        BY <4>1, <4>2
    <3> QED
      BY <1>3, <3>1, <3>2 DEF CommitJob
  <2>3. endedBy' = [d \in Discounts |-> IF d \in rows THEN "failed"
                                        ELSE IF d \in ending THEN EndReason(r)
                                        ELSE endedBy[d]]
    BY <1>3 DEF CommitJob
  <2>4. EndReason(r) \in {"time", "failed"}
    BY DEF EndReason
  <2> HIDE DEF rows, ending
  <2> QED
    BY <1>0, <2>1, <2>2, <2>3, <2>4
<1>4. CASE UNCHANGED <<status, endedBy>>
  BY <1>4 DEF Ended
<1> QED
  BY <1>1, <1>2, <1>3, <1>4
  DEF Next, QueueStep, JobStep, Ring, WindowPasses, ReadExpired, SelectFailed,
      AbortJob, TargetsFail, TargetRestored, queueVars, vars

\* Whatever ends a discount - a receipt, its time, a failed upload, all in one
\* pass or at once - a row says why exactly when it is over, and names its menu
\* exactly when it has been active (lib/discounts.js; scheduler/jobs/discounts.js).
THEOREM RowsAgree == Safety => []RowsAreConsistent
<1>1. Init => Reasons /\ Menus
  BY DEF Init, Reasons, Menus, Ended, ActiveRows
<1>2. QInv /\ QInv' /\ Reasons /\ Menus /\ [Next]_vars => Reasons' /\ Menus'
  BY ReasonsStep, StepMoves, MovesKeepDeployments DEF QInv
<1>3. Reasons /\ Menus => RowsAreConsistent
  BY DEF Reasons, Menus, RowsAreConsistent
<1> QED
  BY <1>1, <1>2, <1>3, QInvHolds, PTL DEF Safety

(***************************************************************************)
(* Beans come back once.  With one copy of the job at a time nobody else   *)
(* refunds between its select and its commit, so the rows it holds are     *)
(* still unpaid.  With two copies this fails, and so does the theorem.     *)
(***************************************************************************)
SoleRunner == \A q, r \in Runners : q = r

FreshRows ==
  \A r \in Runners : runner[r].at = "selected" =>
    \A d \in runner[r].rows : status[d] \in {"active", "done"}

RefundInv == QInv /\ FreshRows /\ RefundedOnce

\* Only the job's commit marks rows refunded, and only those it selected.
LEMMA OnlyCommitRefunds ==
  ASSUME QInv, [Next]_vars, NEW d \in Discounts,
         \A r \in Runners : ~CommitJob(r)
  PROVE  /\ refunds' = refunds
         /\ status'[d] = "refunded" <=> status[d] = "refunded"
<1> USE DEF QInv, TypeOK
<1>1. ASSUME NEW e \in Discounts, Buy(e)
      PROVE  status'[d] = "refunded" <=> status[d] = "refunded"
  BY <1>1, BuyMoves DEF Waits, Starts
<1>2. ASSUME NEW receipt \in rung, IngestReceipt(receipt)
      PROVE  status'[d] = "refunded" <=> status[d] = "refunded"
  <2>1. CASE UNCHANGED <<status, endedBy, causes, deployment>>
    BY <2>1
  <2>2. ASSUME NEW a \in ActiveRows, EndActive(a, {})
        PROVE  status'[d] = "refunded" <=> status[d] = "refunded"
    <3>1. Ends(a, {}) \/ \E e \in Discounts : HandsOver(a, e, {})
      BY <2>2, EndMoves
    <3> QED
      BY <3>1 DEF Ends, HandsOver, Marked, ActiveRows, QueuedRows
  <2> QED
    BY <1>2, <2>1, <2>2 DEF IngestReceipt
<1>3. /\ refunds' = refunds
      /\ \/ UNCHANGED status
         \/ \E e \in Discounts : Buy(e)
         \/ \E receipt \in rung : IngestReceipt(receipt)
  BY DEF Next, QueueStep, JobStep, Buy, Ring, IngestReceipt, WindowPasses,
         ReadExpired, SelectFailed, AbortJob, TargetsFail, TargetRestored,
         queueVars, vars
<1> QED
  BY <1>1, <1>2, <1>3

\* A commit marks exactly its rows, besides those refunded before.
LEMMA CommitRefunds ==
  ASSUME QInv, NEW r \in Runners, CommitJob(r), NEW d \in Discounts
  PROVE  /\ status'[d] = "refunded" <=>
              status[d] = "refunded" \/ d \in runner[r].rows
         /\ refunds'[d] = IF d \in runner[r].rows \cap Paid
                          THEN refunds[d] + 1 ELSE refunds[d]
<1> USE DEF QInv, TypeOK
<1> DEFINE rows == runner[r].rows
<1>1. CASE status' = [e \in Discounts |->
                        IF e \in rows THEN "refunded" ELSE status[e]]
  BY <1>1 DEF CommitJob
<1>2. ASSUME NEW a \in ActiveRows, EndActive(a, rows)
      PROVE  status'[d] = "refunded" <=> status[d] = "refunded" \/ d \in rows
  <2>1. rows \subseteq Ended \cup ActiveRows
    BY DEF CommitJob, SelectedRows, Ended, ActiveRows
  <2>2. rows \in SUBSET Discounts /\ rows \subseteq Ended \cup {a}
    BY <2>1 DEF OneActive
  <2>3. Ends(a, rows) \/ \E e \in Discounts : HandsOver(a, e, rows)
    BY <1>2, <2>2, EndMoves
  <2> QED
    BY <2>2, <2>3 DEF Ends, HandsOver, Marked, ActiveRows, QueuedRows, Ended
<1> QED
  BY <1>1, <1>2 DEF CommitJob

\* Under one copy of the job, whose rows are those it has just read, a step keeps
\* refunds and rows in agreement.
LEMMA RefundStep ==
  ASSUME SoleRunner, RefundInv, [Next]_vars
  PROVE  RefundInv'
<1> USE DEF RefundInv
<1>1. QInv'
  BY QInvStep
<1>2. RefundedOnce'
  <2>1. ASSUME NEW r \in Runners, CommitJob(r)
        PROVE  RefundedOnce'
    <3> SUFFICES ASSUME NEW d \in Discounts
                 PROVE  refunds'[d] = IF d \in Paid /\ status'[d] = "refunded"
                                      THEN 1 ELSE 0
      BY DEF RefundedOnce
    <3>1. d \in runner[r].rows => status[d] # "refunded"
      BY <2>1 DEF FreshRows, CommitJob
    <3>2. refunds[d] = IF d \in Paid /\ status[d] = "refunded" THEN 1 ELSE 0
      BY DEF RefundedOnce
    <3> QED
      BY <2>1, <3>1, <3>2, CommitRefunds
  <2>2. CASE \A r \in Runners : ~CommitJob(r)
    BY <2>2, OnlyCommitRefunds DEF RefundedOnce
  <2> QED
    BY <2>1, <2>2
<1>3. FreshRows'
  <2> SUFFICES ASSUME NEW r \in Runners, runner'[r].at = "selected",
                      NEW d \in runner'[r].rows
               PROVE  status'[d] \in {"active", "done"}
    BY DEF FreshRows
  <2>1. d \in Discounts /\ TypeOK /\ TypeOK'
    BY <1>1 DEF QInv, TypeOK
  <2>2. status'[d] \in {"active", "done", "refunded"}
    BY <1>1 DEF QInv, SelectedRows
  <2>3. ~CommitJob(r)
    BY <2>1 DEF CommitJob, Idle, TypeOK
  <2>4. \A q \in Runners : ~CommitJob(q)
    BY <2>3 DEF SoleRunner
  <2>5. status'[d] = "refunded" <=> status[d] = "refunded"
    BY <2>1, <2>4, OnlyCommitRefunds
  <2>6. CASE SelectFailed(r)
    BY <2>1, <2>2, <2>5, <2>6 DEF SelectFailed, Failing, TypeOK
  <2>7. CASE ~SelectFailed(r)
    <3>1. runner' = runner
      <4>1. ~ReadExpired(r) /\ ~AbortJob(r)
        BY <2>1 DEF ReadExpired, AbortJob, Idle, TypeOK
      <4> QED
        BY <2>3, <2>7, <4>1
        DEF SoleRunner, Next, QueueStep, JobStep, Buy, Ring, IngestReceipt,
            WindowPasses, TargetsFail, TargetRestored, queueVars, vars
    <3> QED
      BY <2>2, <2>5, <3>1 DEF FreshRows
  <2> QED
    BY <2>6, <2>7
<1> QED
  BY <1>1, <1>2, <1>3

\* Under the Redis lock of the job - one copy at a time - the beans of a
\* discount are given back once, and exactly when its row says so.
THEOREM BeansComeBackOnce == ASSUME SoleRunner PROVE Safety => []RefundedOnce
<1>1. Init => RefundInv
  BY QInvInitially DEF RefundInv, Init, FreshRows, RefundedOnce, Idle
<1>2. RefundInv /\ [Next]_vars => RefundInv'
  BY RefundStep, SoleRunner
<1>3. RefundInv => RefundedOnce
  BY DEF RefundInv
<1> QED
  BY <1>1, <1>2, <1>3, PTL DEF Safety

(***************************************************************************)
(* The menus.  A menu is deployed for a discount when it starts, and none  *)
(* before; this holds also while an admin deploys menus of his own.        *)
(***************************************************************************)
NoMenuBefore ==
  \A d \in Discounts : status[d] \in {"none", "queued"} => \A i \in 1..Len(causes) : causes[i] # d

MenuInv == QInv /\ NoMenuBefore /\ NewestMenuMatches

\* A deployment of the admin leaves the rows alone.
LEMMA AdminKeepsQueue == QInv /\ AdminDeploy /\ UNCHANGED r2Failed => QInv'
<1> SUFFICES ASSUME QInv, AdminDeploy, UNCHANGED r2Failed PROVE QInv'
  OBVIOUS
<1>1. TypeOK'
  <2>1. causes' \in Seq(Discounts \cup {Prices, Admin}) /\ Len(causes') = Len(causes) + 1
    BY DEF AdminDeploy, QInv, TypeOK
  <2> QED
    BY <2>1 DEF AdminDeploy, QInv, TypeOK
<1> QED
  BY <1>1 DEF QInv, AdminDeploy, OneActive, QueueKeepsMoving, SelectedRows, ActiveRows, QueuedRows, MustEnd

\* The menu of the discount that starts, or of the normal prices after the last
\* one, is the newest.
LEMMA MovesKeepMenus ==
  ASSUME MenuInv, Moves
  PROVE  NoMenuBefore' /\ NewestMenuMatches'
<1> USE CausesDiffer DEF MenuInv, QInv, TypeOK, ActiveRows, QueuedRows
<1>1. CASE Same
  BY <1>1 DEF Same, NoMenuBefore, NewestMenuMatches
<1>2. ASSUME NEW d \in Discounts, Waits(d)
      PROVE  NoMenuBefore' /\ NewestMenuMatches'
  BY <1>2 DEF Waits, NoMenuBefore, NewestMenuMatches
<1>3. ASSUME NEW rows \in SUBSET Discounts, Refunds(rows)
      PROVE  NoMenuBefore' /\ NewestMenuMatches'
  <2>1. /\ ActiveRows' = ActiveRows /\ UNCHANGED <<causes, deployment>>
        /\ \A e \in Discounts : status'[e] \in {"none", "queued"} => status[e] \in {"none", "queued"}
    BY <1>3 DEF Refunds, Ended
  <2> HIDE DEF ActiveRows
  <2> QED
    BY <2>1 DEF NoMenuBefore, NewestMenuMatches
\* Who starts had no menu before.
<1>4. ASSUME NEW d \in Discounts, status[d] \in {"none", "queued"}, Deploys(d), Owns(d),
             ActiveRows' = {d},
             \A e \in Discounts : status'[e] \in {"none", "queued"} =>
               status[e] \in {"none", "queued"} /\ e # d
      PROVE  NoMenuBefore' /\ NewestMenuMatches'
  <2>1. /\ Len(causes') = Len(causes) + 1
        /\ \A i \in 1..Len(causes) : causes'[i] = causes[i]
        /\ causes'[Len(causes) + 1] = d
        /\ deployment'[d] = Len(causes) + 1
        /\ Len(causes) \in Nat
        /\ \A i \in 1..Len(causes') : i \in 1..Len(causes) \/ i = Len(causes) + 1
    BY <1>4 DEF Deploys, Owns
  <2>2. \A i \in 1..Len(causes) : causes[i] # d
    BY <1>4 DEF NoMenuBefore
  <2>3. NoMenuBefore'
    BY <1>4, <2>1 DEF NoMenuBefore
  <2>4. \A i, j \in 1..Len(causes') :
          causes'[i] = causes'[j] /\ causes'[i] \in Discounts => i = j
    <3> SUFFICES ASSUME NEW i \in 1..Len(causes'), NEW j \in 1..Len(causes'),
                        causes'[i] = causes'[j], causes'[i] \in Discounts
                 PROVE  i = j
      OBVIOUS
    <3>1. CASE i \in 1..Len(causes) /\ j \in 1..Len(causes)
      BY <2>1, <3>1 DEF NewestMenuMatches
    <3>2. CASE i = Len(causes) + 1 \/ j = Len(causes) + 1
      BY <2>1, <2>2, <3>2
    <3> QED
      BY <2>1, <3>1, <3>2
  <2>5. \A a \in ActiveRows' :
          /\ deployment'[a] \in 1..Len(causes')
          /\ causes'[deployment'[a]] = a
          /\ \A i \in deployment'[a] + 1 .. Len(causes') : causes'[i] = Admin
    BY <1>4, <2>1
  <2> QED
    BY <1>4, <2>3, <2>4, <2>5 DEF NewestMenuMatches
<1>5. ASSUME NEW d \in Discounts, Starts(d)
      PROVE  NoMenuBefore' /\ NewestMenuMatches'
  <2>1. /\ status[d] = "none" /\ ActiveRows' = {d} /\ Deploys(d) /\ Owns(d)
        /\ \A e \in Discounts : status'[e] \in {"none", "queued"} =>
             status[e] \in {"none", "queued"} /\ e # d
    BY <1>5 DEF Starts
  <2> QED
    BY <1>4, <2>1
<1>6. ASSUME NEW a \in Discounts, NEW rows \in SUBSET Discounts, Ends(a, rows)
      PROVE  NoMenuBefore' /\ NewestMenuMatches'
  <2>1. /\ Len(causes') = Len(causes) + 1
        /\ \A i \in 1..Len(causes) : causes'[i] = causes[i]
        /\ causes'[Len(causes) + 1] = Prices
        /\ Len(causes) \in Nat
        /\ \A i \in 1..Len(causes') : i \in 1..Len(causes) \/ i = Len(causes) + 1
    BY <1>6 DEF Ends, Deploys
  <2>2. /\ ActiveRows' = {}
        /\ \A e \in Discounts : status'[e] \in {"none", "queued"} => status[e] \in {"none", "queued"}
    BY <1>6 DEF Ends, Marked, Ended, OneActive
  <2>3. NoMenuBefore'
    BY <2>1, <2>2 DEF NoMenuBefore
  <2>4. \A i, j \in 1..Len(causes') :
          causes'[i] = causes'[j] /\ causes'[i] \in Discounts => i = j
    <3> SUFFICES ASSUME NEW i \in 1..Len(causes'), NEW j \in 1..Len(causes'),
                        causes'[i] = causes'[j], causes'[i] \in Discounts
                 PROVE  i = j
      OBVIOUS
    <3>1. i \in 1..Len(causes) /\ j \in 1..Len(causes)
      BY <2>1
    <3>2. causes[i] = causes[j] /\ causes[i] \in Discounts
      BY <2>1, <3>1
    <3> QED
      BY <3>1, <3>2 DEF NewestMenuMatches
  <2>5. \A i \in 1..Len(causes') : causes'[i] \in Discounts =>
          \E j \in i + 1 .. Len(causes') : causes'[j] = Prices
    <3>1. \A i \in 1..Len(causes') : causes'[i] \in Discounts => i \in 1..Len(causes)
      BY <2>1
    <3>2. \A i \in 1..Len(causes) : Len(causes) + 1 \in i + 1 .. Len(causes')
      BY <2>1
    <3> QED
      BY <2>1, <3>1, <3>2
  <2> QED
    BY <2>2, <2>3, <2>4, <2>5 DEF NewestMenuMatches
<1>7. ASSUME NEW a \in Discounts, NEW d \in Discounts, NEW rows \in SUBSET Discounts,
             HandsOver(a, d, rows)
      PROVE  NoMenuBefore' /\ NewestMenuMatches'
  <2>1. /\ status[d] = "queued" /\ ActiveRows' = {d}
        /\ \A e \in Discounts : status'[e] \in {"none", "queued"} =>
             status[e] \in {"none", "queued"} /\ e # d
    <3>1. status[d] = "queued"
      BY <1>7 DEF HandsOver
    <3>2. \A e \in Discounts : status'[e] \in {"none", "queued"} =>
            status[e] \in {"none", "queued"} /\ e # d
      BY <1>7 DEF HandsOver, Marked
    <3>3. ActiveRows' = {d}
      BY <1>7 DEF HandsOver, Marked, Ended, OneActive
    <3> QED
      BY <3>1, <3>2, <3>3
  <2> QED
    BY <1>4, <1>7, <2>1 DEF HandsOver
<1> QED
  BY <1>1, <1>2, <1>3, <1>5, <1>6, <1>7 DEF Moves

\* A step keeps the list of deployments and the rows in agreement, an admin's
\* deployment included.
LEMMA MenuStep == MenuInv /\ [NextWithAdmin]_vars => MenuInv'
<1> SUFFICES ASSUME MenuInv, [NextWithAdmin]_vars PROVE MenuInv'
  OBVIOUS
<1>1. CASE [Next]_vars
  BY <1>1, StepMoves, QInvStep, MovesKeepMenus DEF MenuInv
<1>2. CASE AdminDeploy /\ UNCHANGED r2Failed
  <2>1. /\ Len(causes') = Len(causes) + 1
        /\ \A i \in 1..Len(causes) : causes'[i] = causes[i]
        /\ causes'[Len(causes) + 1] = Admin
        /\ UNCHANGED <<status, deployment>>
    BY <1>2 DEF AdminDeploy, MenuInv, QInv, TypeOK
  <2>2. NoMenuBefore'
    BY <2>1, CausesDiffer DEF MenuInv, NoMenuBefore
  <2>3. Len(causes) \in Nat /\ deployment \in [Discounts -> Nat]
    BY DEF MenuInv, QInv, TypeOK
  <2>4. NewestMenuMatches'
    <3>1. /\ \A i \in 1..Len(causes') :
               (i \in 1..Len(causes) /\ causes'[i] = causes[i]) \/ causes'[i] = Admin
          /\ 1..Len(causes) \subseteq 1..Len(causes')
          /\ Admin \notin Discounts /\ Admin # Prices /\ ActiveRows' = ActiveRows
      BY <2>1, <2>3, CausesDiffer DEF ActiveRows
    <3>2. \A i, j \in 1..Len(causes') :
            causes'[i] = causes'[j] /\ causes'[i] \in Discounts => i = j
      BY <3>1 DEF MenuInv, NewestMenuMatches
    <3>3. \A a \in ActiveRows' :
            /\ deployment'[a] \in 1..Len(causes')
            /\ causes'[deployment'[a]] = a
            /\ \A i \in deployment'[a] + 1 .. Len(causes') : causes'[i] = Admin
      BY <2>1, <2>3, <3>1 DEF MenuInv, NewestMenuMatches, ActiveRows
    <3>4. ActiveRows' = {} =>
            \A i \in 1..Len(causes') : causes'[i] \in Discounts =>
              \E j \in i + 1 .. Len(causes') : causes'[j] = Prices
      BY <2>1, <2>3, <3>1 DEF MenuInv, NewestMenuMatches
    <3> QED
      BY <3>2, <3>3, <3>4 DEF NewestMenuMatches
  <2> QED
    BY <1>2, <2>2, <2>4, AdminKeepsQueue DEF MenuInv
<1> QED
  BY <1>1, <1>2 DEF NextWithAdmin

\* The menu a kiosk is given last is the one the rows ask for, whatever the admin
\* deploys in between (discounts.js:5-11).
THEOREM MenuIsOfTheRows == SpecWithAdmin => []NewestMenuMatches
<1>1. Init => MenuInv
  BY QInvInitially DEF MenuInv, Init, NoMenuBefore, NewestMenuMatches, ActiveRows
<1>2. MenuInv => NewestMenuMatches
  BY DEF MenuInv
<1> QED
  BY <1>1, <1>2, MenuStep, PTL DEF SpecWithAdmin

(***************************************************************************)
(* The queue implements its contract (DiscountContract), read through the  *)
(* statuses of the rows: a purchase is a Join, the end of a discount a     *)
(* HandOver, and what the job refunds is paid back in the same step.       *)
(***************************************************************************)
\* A purchase joins the queue, or takes a free point at once.
LEMMA BuyIsJoin ==
  ASSUME QInv, NEW d \in Discounts, Buy(d)
  PROVE  Contract!Join(d)
<1> USE DEF QInv, TypeOK
<1>1. status[d] = "none" /\ d \notin QueuedRows \cup ActiveRows \cup Ended
  BY DEF Buy, QueuedRows, ActiveRows, Ended
<1>2. CASE Waits(d)
  <2>1. /\ QueuedRows' = QueuedRows \cup {d}
        /\ ActiveRows' = ActiveRows /\ Ended' = Ended
    BY <1>2 DEF Waits, QueuedRows, ActiveRows, Ended
  <2> QED
    BY <1>1, <1>2, <2>1 DEF Waits, Buy, Contract!Join
<1>3. CASE Starts(d)
  <2>1. /\ ActiveRows' = {d}
        /\ QueuedRows' = QueuedRows /\ Ended' = Ended
    BY <1>3 DEF Starts, QueuedRows, ActiveRows, Ended
  <2> QED
    BY <1>1, <1>3, <2>1 DEF Starts, Buy, Contract!Join
<1> QED
  BY <1>2, <1>3, BuyMoves

\* endActive hands the point to the oldest discount waiting, or frees it.
LEMMA EndIsHandOver ==
  ASSUME QInv, NEW a \in ActiveRows, NEW rows \in SUBSET Discounts,
         rows \subseteq Ended \cup {a}, EndActive(a, rows)
  PROVE  Contract!HandOver /\ rows \subseteq Ended'
<1> USE DEF QInv, TypeOK
<1>1. ActiveRows = {a} /\ a \in Discounts
  BY DEF OneActive, ActiveRows
<1>2. CASE Ends(a, rows)
  <2>1. /\ QueuedRows = {} /\ QueuedRows' = {} /\ ActiveRows' = {}
        /\ Ended' = Ended \cup {a}
    BY <1>1, <1>2 DEF Ends, Marked, QueuedRows, ActiveRows, Ended
  <2> QED
    BY <1>1, <2>1 DEF Contract!HandOver
<1>3. ASSUME NEW d \in Discounts, HandsOver(a, d, rows)
      PROVE  Contract!HandOver /\ rows \subseteq Ended'
  <2>1. /\ d \in QueuedRows /\ \A e \in QueuedRows : d <= e
        /\ QueuedRows' = QueuedRows \ {d} /\ ActiveRows' = {d}
        /\ Ended' = Ended \cup {a}
    <3>1. d \in QueuedRows /\ \A e \in QueuedRows : d <= e
      BY <1>3 DEF HandsOver, QueuedRows
    <3>2. QueuedRows' = QueuedRows \ {d}
      <4>1. \A e \in Discounts : status'[e] = "queued" <=> status[e] = "queued" /\ e # d
        BY <1>3 DEF HandsOver, Marked, ActiveRows, QueuedRows, Ended
      <4> QED
        BY <4>1 DEF QueuedRows
    <3>3. ActiveRows' = {d}
      BY <1>1, <1>3 DEF HandsOver, Marked, QueuedRows, ActiveRows, Ended
    <3>4. Ended' = Ended \cup {a}
      BY <1>1, <1>3 DEF HandsOver, Marked, QueuedRows, ActiveRows, Ended
    <3> QED
      BY <3>1, <3>2, <3>3, <3>4
  <2> QED
    BY <1>1, <2>1 DEF Contract!HandOver, Contract!Oldest
<1> QED
  BY <1>2, <1>3, EndMoves

\* What ends without a refund pays nothing back.
LEMMA NothingPaidBack ==
  ASSUME TypeOK, UNCHANGED refunds
  PROVE  Contract!PayBack({})
BY DEF TypeOK, Contract!PayBack

\* A commit of the job pays back the rows it marks that were bought, each for the
\* first time.
LEMMA CommitPaysBack ==
  ASSUME RefundInv, NEW r \in Runners, CommitJob(r), runner[r].rows \subseteq Ended'
  PROVE  Contract!PayBack(runner[r].rows \cap Paid)
<1> DEFINE rows == runner[r].rows
<1>1. rows \in SUBSET Discounts
  BY DEF RefundInv, QInv, TypeOK
<1>2. \A d \in rows \cap Paid : refunds[d] = 0
  <2>1. \A d \in rows : status[d] # "refunded"
    BY DEF CommitJob, RefundInv, FreshRows
  <2> QED
    BY <1>1, <2>1 DEF RefundInv, RefundedOnce
<1>3. refunds' = [d \in Discounts |-> IF d \in rows \cap Paid THEN 1 ELSE refunds[d]]
  BY <1>2 DEF CommitJob
<1> QED
  BY <1>2, <1>3 DEF Contract!PayBack

\* What a commit of the job does is a step of the contract, with or without a
\* discount that ends in it.
LEMMA CommitKeepsContract ==
  ASSUME RefundInv, NEW r \in Runners, CommitJob(r)
  PROVE  Contract!Next
<1> USE DEF RefundInv, QInv, TypeOK
<1> DEFINE rows == runner[r].rows
           ending == IF MustEnd(r) THEN ActiveRows ELSE {}
<1>1. rows \in SUBSET Discounts /\ rows \cap Paid \in SUBSET Paid
  OBVIOUS
<1>2. \A d \in rows : \/ d \in Ended
                      \/ d \in ActiveRows /\ MustEnd(r)
  BY <1>1 DEF CommitJob, SelectedRows, Ended, ActiveRows
<1>3. CASE /\ ending = {}
           /\ status' = [d \in Discounts |-> IF d \in rows THEN "refunded" ELSE status[d]]
  <2>1. rows \subseteq Ended
    BY <1>2, <1>3
  <2>2. QueuedRows' = QueuedRows /\ ActiveRows' = ActiveRows /\ Ended' = Ended
    BY <1>3, <2>1 DEF QueuedRows, ActiveRows, Ended
  <2>3. Contract!Stay /\ Contract!PayBack(rows \cap Paid)
    BY <2>1, <2>2, CommitPaysBack DEF Contract!Stay
  <2> QED
    BY <1>1, <2>3 DEF Contract!Next
<1>4. ASSUME NEW a \in ending, EndActive(a, rows)
      PROVE  Contract!Next
  <2>1. a \in ActiveRows /\ rows \subseteq Ended \cup {a}
    BY <1>2, <1>4 DEF OneActive
  <2>2. Contract!HandOver /\ Contract!PayBack(rows \cap Paid)
    BY <1>1, <1>4, <2>1, EndIsHandOver, CommitPaysBack
  <2> QED
    BY <1>1, <2>2 DEF Contract!Next
<1> QED
  BY <1>3, <1>4 DEF CommitJob

\* Every step of the queue is a step of its contract or changes nothing of it.
LEMMA ContractStep ==
  ASSUME RefundInv, [Next]_vars
  PROVE  [Contract!Next]_Contract!contractVars
<1> USE DEF RefundInv
<1>1. ASSUME NEW d \in Discounts, Buy(d)
      PROVE  Contract!Next
  BY <1>1, BuyIsJoin DEF Contract!Next
<1>2. ASSUME NEW receipt \in rung, IngestReceipt(receipt)
      PROVE  [Contract!Next]_Contract!contractVars
  <2>1. CASE UNCHANGED <<status, endedBy, causes, deployment>>
    BY <1>2, <2>1 DEF IngestReceipt, Contract!contractVars, QueuedRows, ActiveRows, Ended
  <2>2. ASSUME NEW a \in ActiveRows, EndActive(a, {})
        PROVE  Contract!Next
    <3>1. Contract!HandOver
      BY <2>2, EndIsHandOver
    <3>2. Contract!PayBack({})
      BY <1>2, NothingPaidBack DEF IngestReceipt, QInv
    <3> QED
      BY <3>1, <3>2 DEF Contract!Next
  <2> QED
    BY <1>2, <2>1, <2>2 DEF IngestReceipt
<1>3. ASSUME NEW r \in Runners, CommitJob(r)
      PROVE  Contract!Next
  BY <1>3, CommitKeepsContract
\* Nothing else touches a row or a refund.
<1>4. CASE UNCHANGED <<status, refunds>>
  BY <1>4 DEF Contract!contractVars, QueuedRows, ActiveRows, Ended
<1>5. \/ UNCHANGED <<status, refunds>>
      \/ \E d \in Discounts : Buy(d)
      \/ \E receipt \in rung : IngestReceipt(receipt)
      \/ \E r \in Runners : CommitJob(r)
  BY DEF Next, QueueStep, JobStep, Ring, WindowPasses, ReadExpired, SelectFailed, AbortJob,
         TargetsFail, TargetRestored, queueVars, vars
<1> QED
  BY <1>1, <1>2, <1>3, <1>4, <1>5

\* Under the Redis lock of the job the queue of the code keeps the promise of
\* docs/gamification_economy.md: first come first served, one at a time, handed
\* over without a gap, and beans that come back at most once.
THEOREM QueueKeepsContract == ASSUME SoleRunner PROVE Safety => KeepsContract
<1>1. Init => RefundInv /\ Contract!Init
  <2>1. Init => RefundInv
    BY QInvInitially DEF RefundInv, Init, FreshRows, RefundedOnce, Idle
  <2>2. Init => Contract!Init
    BY DEF Init, Contract!Init, QueuedRows, ActiveRows, Ended
  <2> QED
    BY <2>1, <2>2
<1>2. RefundInv /\ [Next]_vars => RefundInv'
  BY RefundStep, SoleRunner
<1>3. RefundInv /\ [Next]_vars => [Contract!Next]_Contract!contractVars
  BY ContractStep
<1> QED
  BY <1>1, <1>2, <1>3, PTL DEF Safety, KeepsContract, Contract!Spec


\* What the rollout of MCDiscountQueue keeps: the invariant of MenuRollout at whichever points
\* it runs and, at the point without a machine, that every scheduler at work holds the lock.
MenusAreInOrder ==
  /\ part = "one point" => OnePoint!IInv /\ OnePoint!NoMachine
  /\ part = "two points" => TwoPoints!IInv

LEMMA MenusStayInOrder ==
  ASSUME MenusAreInOrder, [MCNext]_<<part, menus, vars>>
  PROVE  MenusAreInOrder'
<1>1. CASE RollingOut
  <2>1. [OnePoint!Next]_(OnePoint!rolloutVars) /\ UNCHANGED part
    BY <1>1 DEF RollingOut, Few
  <2>2. OnePoint!IInv' /\ OnePoint!NoMachine'
    BY <1>1, <2>1, MenusAreSound, OnePoint!StepIInv, OnePoint!StepNoMachine
       DEF MenusAreInOrder, RollingOut
  <2> QED
    BY <1>1, <2>1, <2>2 DEF MenusAreInOrder, RollingOut
<1>2. CASE Scheduling
  <2>1. [TwoPoints!Next]_(TwoPoints!rolloutVars) /\ UNCHANGED part
    BY <1>2 DEF Scheduling, Few
  <2>2. TwoPoints!IInv'
    BY <1>2, <2>1, MenusAreSound, TwoPoints!StepIInv DEF MenusAreInOrder, Scheduling
  <2> QED
    BY <1>2, <2>1, <2>2 DEF MenusAreInOrder, Scheduling
<1>3. CASE UNCHANGED <<part, menus>>
  <2>1. [OnePoint!Next]_(OnePoint!rolloutVars) /\ [TwoPoints!Next]_(TwoPoints!rolloutVars)
    BY <1>3 DEF menus, OnePoint!rolloutVars, TwoPoints!rolloutVars
  <2> QED
    BY <1>3, <2>1, MenusAreSound, OnePoint!StepIInv, OnePoint!StepNoMachine, TwoPoints!StepIInv
       DEF MenusAreInOrder
<1> QED
  BY <1>1, <1>2, <1>3 DEF MCNext, Queueing

\* Two copies of the scheduler do not roll out at the same time where there is no machine to
\* verify, and never the same deployment anywhere; what counts as carried out is in the bucket;
\* an acknowledgement that came too late still counts (jobs/menu.js, lib/deployments.js).
THEOREM MenusTakeTurns == MCSpec => []MenusComeInTurn
<1>1. MCInit => MenusAreInOrder
  <2>1. OnePoint!Init => OnePoint!IInv /\ OnePoint!NoMachine
    BY MenusAreSound, OnePoint!InitIInv, OnePoint!NoMachineAtATime
  <2>2. TwoPoints!Init => TwoPoints!IInv
    BY MenusAreSound, TwoPoints!InitIInv
  <2> QED
    BY <2>1, <2>2 DEF MCInit, MenusAreInOrder
<1>2. MenusAreInOrder /\ [MCNext]_<<part, menus, vars>> => MenusAreInOrder'
  BY MenusStayInOrder
<1>3. MenusAreInOrder => MenusComeInTurn
  BY OnePoint!NoMachineAtATime
     DEF MenusAreInOrder, MenusComeInTurn, OnePoint!IInv, TwoPoints!IInv
<1> QED
  BY <1>1, <1>2, <1>3, PTL DEF MCSpec
=============================================================================
