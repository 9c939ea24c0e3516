-------------------------- MODULE DiscountRollout --------------------------
(***************************************************************************)
(* The discount queue and the menu rollout together, at one point: every   *)
(* activation and every end of a discount queues a deployment, and a       *)
(* failed r2 target sends the beans back.  Both jobs run in the same       *)
(* scheduler process, side by side.                                        *)
(***************************************************************************)
EXTENDS Integers, Sequences, TLAPS

CONSTANTS Discounts, Paid, Drinks, DrinkOf, AnyDrink, Prices, Admin, None,
          Point, Machines, Scheduler

VARIABLES
  status, endedBy, deployment, elapsed, refunds, causes, rung, lock, runner,
  dep, target, acked, draft, jobLock, deployer, recounts, requests, bucket,
  held, screen, confirmed

\* Mutant of Failed: a menu nobody acknowledged is not a failure.
FailedUploads == {i \in 1..Len(dep) : target[i][<<Point, "r2">>] = "failed"}

\* The deployments whose r2 target is failed, as refundFailed asks for them.
Failed == {i \in 1..Len(dep) : target[i][<<Point, "r2">>] \in {"failed", "unacked"}}

Queue == INSTANCE DiscountQueue WITH Runners <- {Scheduler}, r2Failed <- Failed
Rollout == INSTANCE MenuRollout WITH Points <- {Point}, Schedulers <- {Scheduler},
                                     Lists <- {}

queueVars == <<status, endedBy, deployment, elapsed, refunds, causes, rung,
               lock, runner>>
rolloutVars == <<dep, target, acked, draft, jobLock, deployer, recounts,
                 requests, bucket, held, screen, confirmed>>
vars == <<queueVars, rolloutVars>>

Init == Rollout!Init /\ Queue!Init

\* A step of the queue; a new deployment comes with its rows.
QueueStep ==
  /\ Queue!QueueStep
  /\ IF causes' = causes THEN UNCHANGED rolloutVars
     ELSE Rollout!EnqueueDiscount(Point)

\* Whether the discount of deployment i may still run (buildMenu, live): not
\* when its window passed; surely while it is active and has not.
Running(i) == IF i = 0 THEN {FALSE}
              ELSE IF causes[i] \notin Discounts \ elapsed THEN {FALSE}
              ELSE IF status[causes[i]] = "active" THEN {TRUE}
              ELSE BOOLEAN

Deploy == /\ \E lowered \in Running(deployer[Scheduler].id) :
               Rollout!DeployStep(Scheduler, lowered)
          /\ UNCHANGED queueVars

Kiosk == /\ \E lowered \in Running(held[Point].id) :
              Rollout!KioskStep(Point, lowered /\ held[Point].lowered)
         /\ UNCHANGED queueVars

Api == Rollout!ApiStep /\ UNCHANGED queueVars
Overseer == Rollout!OverseerStep /\ UNCHANGED queueVars
LockExpires == Rollout!LockExpires /\ UNCHANGED queueVars
LoseAck == /\ \E request \in requests : Rollout!LoseAck(request)
           /\ UNCHANGED queueVars
Crash == Rollout!Crash(Scheduler) /\ UNCHANGED queueVars

Next == QueueStep \/ Deploy \/ Kiosk \/ Api \/ Overseer \/ LockExpires \/ LoseAck

\* The jobs run in loops that survive errors (every() in lib/jobs.js), the
\* overseer too; nothing is asked of the kiosk or of the network.
Fairness ==
  /\ WF_vars(QueueStep /\ Queue!WindowPasses)
  /\ WF_vars(QueueStep /\ Queue!ReadExpired(Scheduler))
  /\ SF_vars(QueueStep /\ Queue!SelectFailed(Scheduler))
  /\ SF_vars(QueueStep /\ Queue!CommitJob(Scheduler))
  /\ WF_vars(Deploy)
  /\ WF_vars(LockExpires)
  /\ WF_vars(Overseer)
  /\ WF_vars(Api)

Safety == Init /\ [][Next]_vars
Spec == Safety /\ Fairness
SpecWithCrash == Init /\ [][Next \/ Crash]_vars /\ Fairness

(***************************************************************************)
(* Properties.                                                             *)
(***************************************************************************)

\* What DiscountQueue takes for granted about the rollout is what the
\* rollout does: targets exist from the same transaction as their
\* deployment, none is born failed, and only the overseer, the job and late
\* acknowledgements change them.
KeepsQueue == Queue!Safety

\* The kiosk acknowledged the lowered menu of d.
Acknowledged(d) == \E i \in 1..Len(dep) : causes[i] = d /\ Point \in acked[i]

\* Beans are gone only for something: a paid discount that is over was
\* acknowledged by the kiosk or is refunded, if no scheduler dies
\* (docs/gamification_economy.md:889-893).
PaidDiscountSettles ==
  \A d \in Paid :
    status[d] = "done" ~> status[d] = "refunded" \/ Acknowledged(d)

-----------------------------------------------------------------------------
(***************************************************************************)
(* Proofs: the two together are a rollout, and the rollout is what the     *)
(* queue takes for granted, for any discounts and with or without a        *)
(* machine at the point.  What holds them together is that the deployments *)
(* of the queue are the rows of the rollout, one for one (Paired).         *)
(***************************************************************************)
Causes == Discounts \cup {Prices, Admin}
Paired == causes \in Seq(Causes) /\ Len(causes) = Len(dep)

\* A step of both is a step of the rollout.
LEMMA RollsOut ==
  ASSUME Rollout!Typed, [Next \/ Crash]_vars
  PROVE  [Rollout!Next]_rolloutVars
<1>1. CASE QueueStep
  BY <1>1 DEF QueueStep, Rollout!Next
<1>2. CASE Deploy
  <2>1. PICK lowered \in Running(deployer[Scheduler].id) : Rollout!DeployStep(Scheduler, lowered)
    BY <1>2 DEF Deploy
  <2>2. lowered \in BOOLEAN
    BY DEF Running
  <2> QED
    BY <2>1, <2>2 DEF Rollout!Next
<1>3. CASE Kiosk
  <2>1. PICK lowered \in Running(held[Point].id) :
          Rollout!KioskStep(Point, lowered /\ held[Point].lowered)
    BY <1>3 DEF Kiosk
  <2>2. (lowered /\ held[Point].lowered) \in BOOLEAN
    OBVIOUS
  <2> QED
    BY <2>1, <2>2 DEF Rollout!Next
<1>4. CASE Api \/ Overseer \/ LockExpires \/ LoseAck \/ Crash
  BY <1>4 DEF Api, Overseer, LockExpires, LoseAck, Crash, Rollout!Next, Rollout!Failure
<1>5. CASE UNCHANGED vars
  BY <1>5 DEF vars
<1> QED
  BY <1>1, <1>2, <1>3, <1>4, <1>5 DEF Next

\* A step of the queue queues at most one deployment.
LEMMA OneCause ==
  ASSUME Queue!QueueStep
  PROVE  causes' = causes \/ \E c \in Causes : causes' = Append(causes, c)
<1>1. ASSUME NEW a, NEW refunded, Queue!EndActive(a, refunded)
      PROVE  \E c \in Causes : causes' = Append(causes, c)
  BY <1>1 DEF Queue!EndActive, Queue!IsNext, Queue!Activate, Causes
<1>2. ASSUME NEW d, Queue!Buy(d)
      PROVE  causes' = causes \/ \E c \in Causes : causes' = Append(causes, c)
  BY <1>2 DEF Queue!Buy, Queue!ActivateNext, Queue!IsNext, Queue!Activate, Causes
<1>3. ASSUME NEW receipt, Queue!IngestReceipt(receipt)
      PROVE  causes' = causes \/ \E c \in Causes : causes' = Append(causes, c)
  BY <1>1, <1>3 DEF Queue!IngestReceipt
<1>4. ASSUME NEW r, Queue!CommitJob(r)
      PROVE  causes' = causes \/ \E c \in Causes : causes' = Append(causes, c)
  BY <1>1, <1>4 DEF Queue!CommitJob
<1>5. ASSUME NEW r, Queue!ReadExpired(r) \/ Queue!SelectFailed(r) \/ Queue!AbortJob(r)
      PROVE  causes' = causes
  BY <1>5 DEF Queue!ReadExpired, Queue!SelectFailed, Queue!AbortJob
<1>6. ASSUME NEW drink, Queue!Ring(drink) PROVE causes' = causes
  BY <1>6 DEF Queue!Ring
<1>7. Queue!WindowPasses => causes' = causes
  BY DEF Queue!WindowPasses
<1> QED
  BY <1>2, <1>3, <1>4, <1>5, <1>6, <1>7 DEF Queue!QueueStep, Queue!JobStep

\* A deployment of the queue is a row of the rollout.
LEMMA PairedStep ==
  ASSUME Rollout!Typed, Paired, [Next \/ Crash]_vars
  PROVE  Paired'
<1> DEFINE S == Rollout!Statuses
           C == Causes
<1>1. dep \in Seq(S) /\ causes \in Seq(C) /\ Len(causes) = Len(dep)
  BY DEF Rollout!Typed, Paired
<1>2. CASE QueueStep
  <2>1. CASE causes' = causes
    BY <1>1, <1>2, <2>1 DEF QueueStep, rolloutVars, Paired
  <2>2. CASE causes' # causes
    <3>1. PICK c \in C : causes' = Append(causes, c)
      BY <1>2, <2>2, OneCause DEF QueueStep
    <3>2. dep' = Append(dep, "queued") /\ "queued" \in S
      BY <1>2, <2>2 DEF QueueStep, Rollout!EnqueueDiscount, Rollout!NewDeployment,
                        Rollout!Statuses
    <3> HIDE DEF S, C
    <3> QED
      BY <1>1, <3>1, <3>2 DEF Paired, C
  <2> QED
    BY <2>1, <2>2
<1>3. ASSUME causes' = causes, dep' = dep \/ \E i, to : dep' = [dep EXCEPT ![i] = to]
      PROVE  Paired'
  <2> HIDE DEF S
  <2>1. Len(dep') = Len(dep)
    BY <1>1, <1>3
  <2> QED
    BY <1>1, <1>3, <2>1 DEF Paired
<1>4. ASSUME NEW lowered, Rollout!DeployStep(Scheduler, lowered)
      PROVE  dep' = dep \/ \E i, to : dep' = [dep EXCEPT ![i] = to]
  BY <1>4 DEF Rollout!DeployStep, Rollout!Take, Rollout!ReadTargets, Rollout!PutMenu,
              Rollout!PutFails, Rollout!RollTill, Rollout!BuildFails, Rollout!Announce,
              Rollout!Finish, Rollout!rowVars
<1>5. CASE Deploy
  BY <1>3, <1>4, <1>5 DEF Deploy, queueVars
<1>6. CASE Overseer
  BY <1>3, <1>6 DEF Overseer, queueVars, Rollout!OverseerStep, Rollout!MarkUnacked, Rollout!Recount
<1>7. CASE Kiosk \/ Api \/ LockExpires \/ LoseAck \/ Crash \/ UNCHANGED vars
  BY <1>3, <1>7 DEF Kiosk, Api, LockExpires, LoseAck, Crash, vars, queueVars, rolloutVars,
       Rollout!KioskStep, Rollout!Fetch, Rollout!SendAck, Rollout!Draw, Rollout!ApiStep,
       Rollout!RecordAck, Rollout!RestoreAcked, Rollout!LockExpires, Rollout!LoseAck,
       Rollout!Crash, Rollout!rowVars
<1> QED
  BY <1>2, <1>5, <1>6, <1>7 DEF Next

\* What the rollout does to the failed r2 targets: some fail, or one is restored.
Fails == \E ids \in SUBSET (1..Len(dep)) : Failed' = Failed \cup ids
Restores == \E i \in Failed : Failed' = Failed \ {i}

\* A target of one deployment gets a status.
LEMMA OneRowFails ==
  ASSUME Rollout!Typed, Len(dep') = Len(dep), NEW i, NEW t, NEW to,
         target' = [target EXCEPT ![i][t] = to]
  PROVE  Fails \/ Restores
<1> DEFINE S == Rollout!Targets
<1>1. target \in Seq(S) /\ Len(target) = Len(dep) /\ Len(dep) \in Nat
  BY DEF Rollout!Typed
<1> HIDE DEF S
<1>2. \A j \in 1..Len(dep) : j # i => target'[j] = target[j]
  BY <1>1
<1>3. \A j \in 1..Len(dep) : j # i => (j \in Failed' <=> j \in Failed)
  BY <1>2 DEF Failed
<1>4. Failed \subseteq 1..Len(dep) /\ Failed' \subseteq 1..Len(dep)
  BY DEF Failed
<1>5. CASE i \in Failed' /\ i \notin Failed
  <2>1. Failed' = Failed \cup {i} /\ {i} \in SUBSET (1..Len(dep))
    BY <1>3, <1>4, <1>5
  <2> QED
    BY <2>1 DEF Fails
<1>6. CASE i \in Failed /\ i \notin Failed'
  <2>1. Failed' = Failed \ {i}
    BY <1>3, <1>4, <1>6
  <2> QED
    BY <1>6, <2>1 DEF Restores
<1>7. CASE i \in Failed <=> i \in Failed'
  <2>1. Failed' = Failed \cup {} /\ {} \in SUBSET (1..Len(dep))
    BY <1>3, <1>4, <1>7
  <2> QED
    BY <2>1 DEF Fails
<1> QED
  BY <1>5, <1>6, <1>7

\* Nothing is born failed.
LEMMA NoneIsBornFailed ==
  ASSUME Rollout!Typed, Rollout!EnqueueDiscount(Point)
  PROVE  Failed' = Failed
<1> DEFINE S == Rollout!Targets
           R == Rollout!Statuses
           rows == Rollout!SlotsOf(Point)
           new == [t \in Rollout!Slots |-> IF t \in rows THEN "queued" ELSE "none"]
<1>1. /\ target \in Seq(S) /\ dep \in Seq(R) /\ Len(target) = Len(dep) /\ Len(dep) \in Nat
      /\ "queued" \in R
  BY DEF Rollout!Typed, Rollout!Statuses
<1>2. dep' = Append(dep, "queued") /\ target' = Append(target, new)
  BY DEF Rollout!EnqueueDiscount, Rollout!NewDeployment
<1>3. new \in S /\ new[<<Point, "r2">>] \notin {"failed", "unacked"}
  BY DEF Rollout!Targets, Rollout!Slots
<1> HIDE DEF S, R, new
<1>4. /\ 1..Len(dep') = 1..Len(dep) \cup {Len(dep) + 1}
      /\ target'[Len(dep) + 1] = new /\ \A i \in 1..Len(dep) : target'[i] = target[i]
  BY <1>1, <1>2, <1>3
<1> QED
  BY <1>3, <1>4 DEF Failed

\* Every other step of the rollout makes targets fail or restores one.
LEMMA RolloutFails ==
  ASSUME Rollout!Typed, Rollout!Ids, [Next \/ Crash]_vars, ~QueueStep, UNCHANGED queueVars
  PROVE  Fails \/ Restores
<1>1. Len(dep) \in Nat /\ Len(target) = Len(dep) /\ dep \in Seq(Rollout!Statuses)
  BY DEF Rollout!Typed
<1>2. ASSUME target' = target, Len(dep') = Len(dep) PROVE Fails
  <2>1. Failed' = Failed \cup {} /\ {} \in SUBSET (1..Len(dep))
    BY <1>2 DEF Failed
  <2> QED
    BY <2>1 DEF Fails
<1>3. ASSUME dep' = dep \/ \E i, to : dep' = [dep EXCEPT ![i] = to] PROVE Len(dep') = Len(dep)
  <2> DEFINE S == Rollout!Statuses
  <2>1. dep \in Seq(S)
    BY <1>1
  <2> HIDE DEF S
  <2> QED
    BY <1>3, <2>1
<1>4. ASSUME NEW t, NEW to, Rollout!Settle(Scheduler, t, to), Len(dep') = Len(dep)
      PROVE  Fails \/ Restores
  BY <1>4, OneRowFails DEF Rollout!Settle
<1>5. CASE Deploy
  <2>1. PICK lowered : Rollout!DeployStep(Scheduler, lowered)
    BY <1>5 DEF Deploy
  <2>2. dep' = dep \/ \E i, to : dep' = [dep EXCEPT ![i] = to]
    BY <2>1 DEF Rollout!DeployStep, Rollout!Take, Rollout!ReadTargets, Rollout!PutMenu,
                Rollout!PutFails, Rollout!RollTill, Rollout!BuildFails, Rollout!Announce,
                Rollout!Finish, Rollout!rowVars
  <2>3. target' = target \/ \E t, to : Rollout!Settle(Scheduler, t, to)
    BY <2>1 DEF Rollout!DeployStep, Rollout!Take, Rollout!ReadTargets, Rollout!PutMenu,
                Rollout!PutFails, Rollout!RollTill, Rollout!BuildFails, Rollout!Announce,
                Rollout!Finish, Rollout!rowVars
  <2> QED
    BY <1>2, <1>3, <1>4, <2>2, <2>3
<1>6. CASE Api
  <2>1. dep' = dep /\ (target' = target \/ \E i, t : target' = [target EXCEPT ![i][t] = "done"])
    BY <1>6 DEF Api, Rollout!ApiStep, Rollout!RecordAck, Rollout!RestoreAcked, Rollout!rowVars
  <2> QED
    BY <1>2, <2>1, OneRowFails
<1>7. CASE Overseer
  <2>1. ASSUME NEW i \in recounts, Rollout!Recount(i) PROVE Fails
    BY <1>2, <1>3, <2>1 DEF Rollout!Recount
  <2>2. ASSUME NEW overdue \in SUBSET (1..Len(dep)), Rollout!MarkUnacked(overdue) PROVE Fails
    <3> DEFINE ids == {i \in overdue : Point \in Rollout!Unacked(i)}
               new(i) == [t \in Rollout!Slots |->
                            IF t[2] = "r2" /\ t[1] \in Rollout!Unacked(i) THEN "unacked"
                            ELSE target[i][t]]
    <3>1. /\ UNCHANGED dep
          /\ \A i \in 1..Len(dep) : target'[i] = IF i \in overdue THEN new(i) ELSE target[i]
      BY <1>1, <2>2 DEF Rollout!MarkUnacked
    <3>2. \A i : new(i)[<<Point, "r2">>] = IF Point \in Rollout!Unacked(i) THEN "unacked"
                                           ELSE target[i][<<Point, "r2">>]
      BY DEF Rollout!Slots
    <3> HIDE DEF new
    <3>3. Failed' = Failed \cup ids
      BY <3>1, <3>2 DEF Failed
    <3> QED
      BY <3>3 DEF Fails
  <2> QED
    BY <1>7, <2>1, <2>2 DEF Overseer, Rollout!OverseerStep
<1>8. CASE Kiosk \/ LockExpires \/ LoseAck \/ Crash \/ UNCHANGED vars
  <2>1. UNCHANGED <<dep, target>>
    BY <1>8 DEF Kiosk, LockExpires, LoseAck, Crash, vars, rolloutVars, Rollout!KioskStep,
         Rollout!Fetch, Rollout!SendAck, Rollout!Draw, Rollout!LockExpires, Rollout!LoseAck,
         Rollout!Crash, Rollout!rowVars
  <2> QED
    BY <1>2, <2>1
<1> QED
  BY <1>5, <1>6, <1>7, <1>8 DEF Next

\* Every step of both is a step of the queue or a stutter.
LEMMA QueuesOn ==
  ASSUME Rollout!Typed, Rollout!Ids, Paired, [Next \/ Crash]_vars
  PROVE  [Queue!Next]_(Queue!vars)
<1>1. CASE QueueStep
  <2>1. Failed' = Failed
    <3>1. CASE causes' = causes
      BY <1>1, <3>1 DEF QueueStep, rolloutVars, Failed
    <3>2. CASE causes' # causes
      BY <1>1, <3>2, NoneIsBornFailed DEF QueueStep
    <3> QED
      BY <3>1, <3>2
  <2> QED
    BY <1>1, <2>1 DEF QueueStep, Queue!Next
<1>2. CASE ~QueueStep
  <2>1. UNCHANGED queueVars
    BY <1>2 DEF Next, Deploy, Kiosk, Api, Overseer, LockExpires, LoseAck, Crash, vars
  <2>2. UNCHANGED Queue!queueVars
    BY <2>1 DEF queueVars, Queue!queueVars
  <2>3. CASE Fails
    <3>1. PICK ids \in SUBSET (1..Len(causes)) : Failed' = Failed \cup ids
      BY <2>3 DEF Fails, Paired
    <3> QED
      BY <2>2, <3>1 DEF Queue!Next, Queue!TargetsFail
  <2>4. CASE Restores
    BY <2>2, <2>4 DEF Restores, Queue!Next, Queue!TargetRestored
  <2> QED
    BY <1>2, <2>1, <2>3, <2>4, RolloutFails
<1> QED
  BY <1>1, <1>2

\* The queue and the rollout together are a rollout, also when the scheduler dies now and
\* then: what MenuRollout proves holds here too.
THEOREM IsARollout ==
  ASSUME Rollout!ConstantsAreSound
  PROVE  Safety \/ SpecWithCrash => Rollout!Safety
<1>1. Init => Rollout!IInv /\ Rollout!Init
  BY Rollout!InitIInv DEF Init
<1>2. Rollout!IInv /\ [Next \/ Crash]_vars =>
        Rollout!IInv' /\ [Rollout!Next]_(Rollout!rolloutVars)
  BY RollsOut, Rollout!StepIInv DEF Rollout!IInv, rolloutVars, Rollout!rolloutVars
<1>3. [Next]_vars => [Next \/ Crash]_vars
  OBVIOUS
<1> QED
  BY <1>1, <1>2, <1>3, PTL DEF Safety, SpecWithCrash, Rollout!Safety

\* The rollout does to the queue what the queue takes for granted, also when the scheduler
\* dies now and then: a deployment has its rows from the same transaction on, none of them
\* failed; then some fail, or one is restored by a late acknowledgement (discounts.js,
\* jobs/menu.js, lib/deployments.js).
THEOREM KeepsTheQueue ==
  ASSUME Rollout!ConstantsAreSound
  PROVE  Safety \/ SpecWithCrash => KeepsQueue
<1>1. Init => Rollout!IInv /\ Paired /\ Queue!Init
  <2>1. Init => Paired
    BY DEF Init, Paired, Rollout!Init, Queue!Init
  <2> QED
    BY <2>1, Rollout!InitIInv DEF Init
<1>2. Rollout!IInv /\ Paired /\ [Next \/ Crash]_vars =>
        Rollout!IInv' /\ Paired' /\ [Queue!Next]_(Queue!vars)
  BY RollsOut, Rollout!StepIInv, PairedStep, QueuesOn
     DEF Rollout!IInv, rolloutVars, Rollout!rolloutVars
<1>3. [Next]_vars => [Next \/ Crash]_vars
  OBVIOUS
<1> QED
  BY <1>1, <1>2, <1>3, PTL DEF Safety, SpecWithCrash, KeepsQueue, Queue!Safety
=============================================================================
