--------------------------- MODULE DiscountQueue ---------------------------
(***************************************************************************)
(* The queue of coffee-shop discounts of one point                         *)
(* (backend/lib/src/discounts.js): rows of point_discounts that go         *)
(* queued -> active -> done | refunded.  Players buy them                  *)
(* (api/routes/purchases.js), a receipt that is ingested ends the active   *)
(* one (checkbox/receipts.js), and the scheduler's job `discounts` ends    *)
(* those whose window passed and gives the beans back for those whose      *)
(* menu did not arrive (scheduler/jobs/discounts.js).                      *)
(*                                                                         *)
(* Every query of the code filters by point_id and every transition takes  *)
(* the advisory lock of the point, so points are independent and one point *)
(* is modelled.  A transaction that takes the lock first is one step.  The *)
(* scheduler's transaction reads before it locks, so it takes three steps: *)
(* the reads, at READ COMMITTED, see what others commit in between.        *)
(*                                                                         *)
(* Time is relative: a receipt on its way remembers which discounts have   *)
(* started_at <= its fiscal_date.  started_at is now(), the moment the     *)
(* activating transaction began, so a receipt that is rung while the job's *)
(* transaction runs counts as rung during a discount it activates.  (Those *)
(* of one step begin and end at once: no receipt is rung inside them.)     *)
(***************************************************************************)
EXTENDS Integers, Sequences

CONSTANTS
  Discounts,   \* ids of point_discounts rows, from a sequence
  Paid,        \* those bought with beans; an admin's test discount is free
  Drinks,      \* drink slots
  DrinkOf,     \* drink_slot of a discount; AnyDrink in the oldest rows
  AnyDrink,
  Runners,     \* scheduler copies that hold the job's Redis lock at once
  Prices,      \* cause of the deployment that restores normal prices
  Admin,       \* cause of a deployment an admin queues
  None

ASSUME DiscountsAreIds == Discounts \subseteq Nat
ASSUME PaidAreDiscounts == Paid \subseteq Discounts
ASSUME DrinkTyping == DrinkOf \in [Discounts -> Drinks \cup {AnyDrink}]
ASSUME CausesDiffer ==
  Prices \notin Discounts /\ Admin \notin Discounts /\ Prices # Admin
ASSUME NoneIsNothingElse ==
  None \notin Runners \cup {"time", "receipt", "failed"}

VARIABLES
  status,      \* point_discounts.status; "none" before the purchase commits
  endedBy,     \* ended_reason
  deployment,  \* deployment_id of the lowered menu; 0 while it has none
  elapsed,     \* active or past discounts with ends_at <= now()
  refunds,     \* refund rows in ledger_entries, each with its outbox event
  causes,      \* why each menu deployment of the point was made, in id order
  r2Failed,    \* deployments whose target r2 is failed
  rung,        \* receipts rung at the machine and not ingested yet
  lock,        \* holder of the point's advisory lock between two steps
  runner       \* the scheduler's transaction `discounts`

queueVars == <<status, endedBy, deployment, elapsed, refunds,
               causes, rung, lock, runner>>
vars == <<queueVars, r2Failed>>

Receipt == [drink : Drinks,
            during : SUBSET Discounts,  \* started_at <= fiscal_date
            jobs : SUBSET Runners]      \* transactions running at that moment
Idle == [at |-> "idle", expired |-> FALSE, rows |-> {}, active |-> {}]

ActiveRows == {d \in Discounts : status[d] = "active"}
QueuedRows == {d \in Discounts : status[d] = "queued"}
Ended == {d \in Discounts : status[d] \in {"done", "refunded"}}

\* Mutant of Failing: the status filter forgotten.
FailingAnyStatus == {d \in Discounts : /\ status[d] # "none"
                                       /\ deployment[d] \in r2Failed}
\* The rows refundFailed selects: the lowered menu's target r2 has failed.
Failing == {d \in Discounts : /\ status[d] \in {"active", "done"}
                              /\ deployment[d] \in r2Failed}

LockFree(who) == lock \in {None, who}

Init ==
  /\ status = [d \in Discounts |-> "none"]
  /\ endedBy = [d \in Discounts |-> None]
  /\ deployment = [d \in Discounts |-> 0]
  /\ elapsed = {}
  /\ refunds = [d \in Discounts |-> 0]
  /\ causes = << >>
  /\ r2Failed = {}
  /\ rung = {}
  /\ lock = None
  /\ runner = [r \in Runners |-> Idle]

(***************************************************************************)
(* Transitions of the queue, each inside the transaction of its caller.    *)
(***************************************************************************)

\* Mutant of IsNext: order by id desc.
IsNextNewest(d, s) ==
  /\ d \in Discounts /\ s[d] = "queued"
  /\ \A e \in Discounts : s[e] = "queued" => e <= d

\* The head of the queue in the rows s: order by id limit 1.
IsNext(d, s) ==
  /\ d \in Discounts /\ s[d] = "queued"
  /\ \A e \in Discounts : s[e] = "queued" => d <= e

\* activateNext when nobody is active: d becomes active and its lowered
\* menu is queued for deployment.  s: the rows as the transaction left them.
Activate(d, s) ==
  /\ status' = [s EXCEPT ![d] = "active"]
  /\ causes' = Append(causes, d)
  /\ deployment' = [deployment EXCEPT ![d] = Len(causes) + 1]

\* Mutant of ActivateNext: nobody looks whether one is active already.
ActivateNextBlindly(s) == \E d \in Discounts : IsNext(d, s) /\ Activate(d, s)

\* activateNext, for a purchase: nothing happens while one is active.
ActivateNext(s) ==
  \/ /\ \E a \in Discounts : s[a] = "active"
     /\ status' = s
     /\ UNCHANGED <<causes, deployment>>
  \/ /\ \A a \in Discounts : s[a] # "active"
     /\ \E d \in Discounts : IsNext(d, s) /\ Activate(d, s)

\* Mutants of EndActive: the next one is not activated; the normal prices
\* are not deployed.
EndActiveOnly(a, refunded) ==
  /\ status' = [d \in Discounts |-> IF d \in refunded THEN "refunded"
                                    ELSE IF d = a THEN "done"
                                    ELSE status[d]]
  /\ causes' = Append(causes, Prices)
  /\ UNCHANGED deployment
EndActiveQuietly(a, refunded) ==
  LET s == [d \in Discounts |-> IF d \in refunded THEN "refunded"
                                ELSE IF d = a THEN "done"
                                ELSE status[d]]
  IN \/ /\ \A d \in Discounts : s[d] # "queued"
        /\ status' = s
        /\ UNCHANGED <<causes, deployment>>
     \/ \E d \in Discounts : IsNext(d, s) /\ Activate(d, s)

\* endActive once it has found the active row a: the next in the queue is
\* activated or, when there is none, the normal prices are deployed.
\* refunded: the rows the same transaction then marks refunded.
EndActive(a, refunded) ==
  LET s == [d \in Discounts |-> IF d \in refunded THEN "refunded"
                                ELSE IF d = a THEN "done"
                                ELSE status[d]]
  IN \/ /\ \A d \in Discounts : s[d] # "queued"
        /\ status' = s
        /\ causes' = Append(causes, Prices)
        /\ UNCHANGED deployment
     \/ \E d \in Discounts : IsNext(d, s) /\ Activate(d, s)

(***************************************************************************)
(* Purchase, receipt, time.                                                *)
(***************************************************************************)

\* POST /shop/buy pos_discount: spend the beans and queueDiscount.  The id
\* comes from a sequence before the lock, so ids may commit out of order.
Buy(d) ==
  /\ status[d] = "none"
  /\ lock = None
  /\ ActivateNext([status EXCEPT ![d] = "queued"])
  /\ UNCHANGED <<endedBy, elapsed, refunds, rung, lock, runner>>

\* The machine prints a receipt; it reaches `ingest` later, by webhook or
\* by polling, in any order.
Ring(drink) ==
  /\ rung' = rung \cup
       {[drink |-> drink,
         during |-> {d \in Discounts : deployment[d] # 0},
         jobs |-> {r \in Runners : runner[r].at # "idle"}]}
  /\ UNCHANGED <<status, endedBy, deployment, elapsed, refunds,
                 causes, lock, runner>>

\* The receipt was rung when a had started and sells its drink.
Closes(receipt, a) ==
  /\ a \in receipt.during
  /\ DrinkOf[a] \in {AnyDrink, receipt.drink}

\* ingest: endActive(point, "receipt", {after, slots}) in its transaction.
IngestReceipt(receipt) ==
  /\ receipt \in rung
  /\ lock = None
  /\ rung' = rung \ {receipt}
  /\ \/ /\ \A a \in ActiveRows : ~Closes(receipt, a)
        /\ UNCHANGED <<status, endedBy, causes, deployment>>
     \/ \E a \in ActiveRows :
          /\ Closes(receipt, a)
          /\ EndActive(a, {})
          /\ endedBy' = [endedBy EXCEPT ![a] = "receipt"]
  /\ UNCHANGED <<elapsed, refunds, lock, runner>>

\* The window_s seconds of the active discount are over.
WindowPasses ==
  /\ \E a \in ActiveRows \ elapsed : elapsed' = elapsed \cup {a}
  /\ UNCHANGED <<status, endedBy, deployment, refunds, causes,
                 rung, lock, runner>>

\* An admin queues a deployment (admin.js, admin-ops.js): normal prices or
\* a new promo, on every point, with no look at the discounts.
AdminDeploy ==
  /\ causes' = Append(causes, Admin)
  /\ UNCHANGED <<status, endedBy, deployment, elapsed, refunds,
                 rung, lock, runner>>

(***************************************************************************)
(* The scheduler's job `discounts`: one transaction, three steps.          *)
(***************************************************************************)

\* expireDiscounts selects the point if its active discount has elapsed.
ReadExpired(r) ==
  /\ runner[r].at = "idle"
  /\ runner' = [runner EXCEPT ![r] =
       [at |-> "read", expired |-> ActiveRows \cap elapsed # {},
        rows |-> {}, active |-> {}]]
  /\ UNCHANGED <<status, endedBy, deployment, elapsed, refunds,
                 causes, rung, lock>>

\* With something to expire the transaction takes the point's lock and ends
\* whichever row is active by then; its effect is visible at commit.  Then
\* refundFailed selects its rows: the one just ended already counts as done.
SelectFailed(r) ==
  /\ runner[r].at = "read"
  /\ runner[r].expired => LockFree(r)
  /\ lock' = IF runner[r].expired THEN r ELSE lock
  /\ runner' = [runner EXCEPT ![r] =
       [at |-> "selected", expired |-> runner[r].expired, rows |-> Failing,
        active |-> IF runner[r].expired THEN {} ELSE Failing \cap ActiveRows]]
  /\ UNCHANGED <<status, endedBy, deployment, elapsed, refunds,
                 causes, rung>>

\* The transaction must end the active row: its window passed, or one of
\* the selected rows was active when it was read.
MustEnd(r) == runner[r].expired \/ runner[r].active # {}
EndReason(r) == IF runner[r].expired THEN "time" ELSE "failed"

\* The transaction of r is over.  For the receipts rung while it ran, the
\* discounts it started have started_at <= fiscal_date.
Conclude(r, started) ==
  rung' = {[drink |-> receipt.drink,
            during |-> IF r \in receipt.jobs THEN receipt.during \cup started
                       ELSE receipt.during,
            jobs |-> receipt.jobs \ {r}] : receipt \in rung}

\* endActive ends the row that is active now, then every selected row is
\* marked refunded and its beans are given back, with the outbox event and
\* the message of the plant.
CommitJob(r) ==
  LET rows == runner[r].rows
      ending == IF MustEnd(r) THEN ActiveRows ELSE {}
  IN /\ runner[r].at = "selected"
     /\ MustEnd(r) => LockFree(r)
     /\ \/ /\ ending = {}
           /\ status' = [d \in Discounts |->
                           IF d \in rows THEN "refunded" ELSE status[d]]
           /\ UNCHANGED <<causes, deployment>>
        \/ \E a \in ending : EndActive(a, rows)
     /\ endedBy' = [d \in Discounts |-> IF d \in rows THEN "failed"
                                        ELSE IF d \in ending THEN EndReason(r)
                                        ELSE endedBy[d]]
     /\ refunds' = [d \in Discounts |->
                      IF d \in rows \cap Paid THEN refunds[d] + 1
                      ELSE refunds[d]]
     /\ lock' = IF lock = r THEN None ELSE lock
     /\ runner' = [runner EXCEPT ![r] = Idle]
     /\ Conclude(r, {d \in QueuedRows : status'[d] = "active"})
     /\ UNCHANGED elapsed

\* The transaction is rolled back: a failed query, a deadlock Postgres
\* resolves against it (a purchase locks the buyer's row and then the point,
\* a refund the point and then the buyer), a killed scheduler.
AbortJob(r) ==
  /\ runner[r].at # "idle"
  /\ lock' = IF lock = r THEN None ELSE lock
  /\ runner' = [runner EXCEPT ![r] = Idle]
  /\ Conclude(r, {})
  /\ UNCHANGED <<status, endedBy, deployment, elapsed, refunds, causes>>

(***************************************************************************)
(* The rollout, as far as the queue sees it: r2 targets of deployments     *)
(* fail, several in one statement of the overseer, and a late              *)
(* acknowledgement restores one (MenuRollout says when).                   *)
(***************************************************************************)
TargetsFail(ids) ==
  /\ ids \subseteq 1..Len(causes)
  /\ r2Failed' = r2Failed \cup ids
  /\ UNCHANGED queueVars

TargetRestored(i) ==
  /\ i \in r2Failed
  /\ r2Failed' = r2Failed \ {i}
  /\ UNCHANGED queueVars

JobStep(r) == ReadExpired(r) \/ SelectFailed(r) \/ CommitJob(r) \/ AbortJob(r)

QueueStep ==
  \/ \E d \in Discounts : Buy(d)
  \/ \E drink \in Drinks : Ring(drink)
  \/ \E receipt \in rung : IngestReceipt(receipt)
  \/ WindowPasses
  \/ \E r \in Runners : JobStep(r)

Next ==
  \/ QueueStep /\ UNCHANGED r2Failed
  \/ \E ids \in SUBSET (1..Len(causes)) : TargetsFail(ids)
  \/ \E i \in r2Failed : TargetRestored(i)

\* The job runs every five seconds in a loop that survives errors (every()
\* in jobs.js), so a pass that can go on does; SF because passes may be
\* rolled back now and then, though not forever.
Fairness ==
  /\ WF_vars(WindowPasses /\ UNCHANGED r2Failed)
  /\ \A r \in Runners :
       /\ WF_vars(ReadExpired(r) /\ UNCHANGED r2Failed)
       /\ SF_vars(SelectFailed(r) /\ UNCHANGED r2Failed)
       /\ SF_vars(CommitJob(r) /\ UNCHANGED r2Failed)

Safety == Init /\ [][Next]_vars
Spec == Safety /\ Fairness

\* With an admin who deploys menus of his own.
NextWithAdmin == Next \/ (AdminDeploy /\ UNCHANGED r2Failed)
SpecWithAdmin == Init /\ [][NextWithAdmin]_vars

(***************************************************************************)
(* Properties.                                                             *)
(***************************************************************************)

\* Types of the rows, of the job's local state.
TypeOK ==
  /\ status \in [Discounts ->
                   {"none", "queued", "active", "done", "refunded"}]
  /\ endedBy \in [Discounts -> {"time", "receipt", "failed", None}]
  /\ deployment \in [Discounts -> Nat]
  /\ elapsed \subseteq Discounts
  /\ refunds \in [Discounts -> Nat]
  /\ causes \in Seq(Discounts \cup {Prices, Admin})
  /\ r2Failed \subseteq 1..Len(causes)
  /\ rung \subseteq Receipt
  /\ lock \in Runners \cup {None}
  /\ runner \in [Runners -> [at : {"idle", "read", "selected"},
                             expired : BOOLEAN,
                             rows : SUBSET Discounts,
                             active : SUBSET Discounts]]

\* Two purchases, a receipt and the job never leave two discounts active on
\* the point, in whatever order they take the lock (discounts.js:16-18).
OneActive == \A a, b \in ActiveRows : a = b

\* A discount waits only while another one is active: endActive and
\* activateNext hand the point over in one transaction, so a queue is never
\* left without anybody to move it.
QueueKeepsMoving == QueuedRows # {} => ActiveRows # {}

\* Each discount gets its lowered menu deployed once, and the newest menu
\* the queue deployed agrees with the rows: the active discount's own menu,
\* or normal prices after the last discount (discounts.js:5-11).
NewestMenuMatches ==
  /\ \A i, j \in 1..Len(causes) :
       causes[i] = causes[j] /\ causes[i] \in Discounts => i = j
  /\ \A a \in ActiveRows :
       /\ deployment[a] \in 1..Len(causes)
       /\ causes[deployment[a]] = a
       /\ \A i \in deployment[a] + 1 .. Len(causes) : causes[i] = Admin
  /\ ActiveRows = {} =>
       \A i \in 1..Len(causes) : causes[i] \in Discounts =>
         \E j \in i + 1 .. Len(causes) : causes[j] = Prices

\* Beans come back once, exactly for the bought discounts that are marked
\* refunded; needs the job to run in one copy (lock:discounts in Redis).
RefundedOnce ==
  \A d \in Discounts :
    refunds[d] = IF d \in Paid /\ status[d] = "refunded" THEN 1 ELSE 0

\* A row has a reason to be over exactly when it is over, and a deployment
\* exactly when it has been active.
RowsAreConsistent ==
  \A d \in Discounts :
    /\ endedBy[d] # None <=> d \in Ended
    /\ deployment[d] # 0 <=> d \in Ended \cup ActiveRows

Stage == [none |-> 0, queued |-> 1, active |-> 2, done |-> 3, refunded |-> 4]

\* A row never goes back: nothing that ended is active or queued again, and
\* nothing refunded becomes merely done, whatever stale rows the job holds.
RowsGoForward ==
  [][\A d \in Discounts : Stage[status[d]] <= Stage[status'[d]]]_vars

\* A discount somebody paid for gets its turn and its end.
EveryDiscountEnds ==
  \A d \in Discounts : status[d] \in {"queued", "active"} ~> d \in Ended

\* A failed menu is paid back unless the kiosk shows it after all: the beans
\* are returned by themselves (docs/gamification_economy.md:889-893).
FailureIsRefunded ==
  \A d \in Discounts :
    d \in Failing ~> (status[d] = "refunded" \/ deployment[d] \notin r2Failed)

\* A discount ended because its menu failed is given back
\* (discounts.js:124-126).
FailedEndIsRefunded ==
  \A d \in Discounts : endedBy[d] = "failed" => status[d] = "refunded"

\* The rows, read as the contract of DiscountContract reads them.
Contract == INSTANCE DiscountContract WITH
  waiting <- QueuedRows, active <- ActiveRows, over <- Ended

\* The queue keeps the contract: first come first served, one at a time,
\* handed over without a gap, refunded at most once.
KeepsContract == Contract!Spec
=============================================================================
