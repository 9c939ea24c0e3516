---------------------------- MODULE MenuRollout ----------------------------
(***************************************************************************)
(* Rolling a menu out to the points: rows of menu_deployments with one     *)
(* target per point and kind (r2: the menu.json the kiosk reads; checkbox: *)
(* the catalogue of the till; jetinno: the coffee machine).                *)
(*                                                                         *)
(* The admin panel and the discount queue queue deployments, the           *)
(* scheduler's job `menu-deploy` carries them out one after another        *)
(* (scheduler/jobs/menu.js), kiosks poll the bucket, acknowledge and draw  *)
(* (kiosk/main.c), the api records the acknowledgement (routes/points.js), *)
(* and the overseer fails the targets nobody acknowledged in three minutes *)
(* (lib/deployments.js).                                                   *)
(*                                                                         *)
(* Abstractions: a menu is the number of its deployment and whether it     *)
(* carries a running discount.  Deployment ids are taken in commit order.  *)
(* The outbox event menu.deployed only hurries a poll, so it is left out;  *)
(* that writing it may fail is kept.                                       *)
(***************************************************************************)
EXTENDS Integers, Sequences, FiniteSets, TLAPS

CONSTANTS
  Points,
  Machines,    \* the points with a coffee machine (points.jetinno_vmc)
  Schedulers,  \* scheduler processes
  Lists,       \* the lists of points an admin asks for, in the order of ids
  None

ConstantsAreSound ==
  /\ Machines \subseteq Points
  /\ Lists \subseteq Seq(Points) \ {<< >>}
  /\ None \notin Schedulers

VARIABLES
  dep,        \* menu_deployments.status, by id
  target,     \* menu_deployment_targets.status, by id; "none": no such row
  acked,      \* the points whose r2 target has acked_at, by id
  draft,      \* the request of an admin that is still inserting targets
  jobLock,    \* lock:menu-deploy in Redis
  deployer,   \* what each scheduler is doing
  recounts,   \* deployments whose status is about to be recounted
  requests,   \* acknowledgements on their way to the api or inside it
  bucket,     \* points/<id>/menu.json
  held,       \* the menu a kiosk fetched last, as in its disk cache
  screen,     \* the menu a kiosk has drawn
  confirmed   \* the deployment a kiosk knows to be acknowledged

rowVars == <<dep, target, acked>>
schedulerVars == <<jobLock, deployer>>
kioskVars == <<held, screen, confirmed>>
rolloutVars == <<dep, target, acked, draft, jobLock, deployer, recounts,
                 requests, bucket, held, screen, confirmed>>

Slots == Points \X {"r2", "checkbox", "jetinno"}
Menu == [id : Nat, lowered : BOOLEAN]
NoMenu == [id |-> 0, lowered |-> FALSE]
Resting == [at |-> "idle", id |-> 0, todo |-> {}, point |-> None,
            done |-> FALSE, failed |-> FALSE, verified |-> 0]
NoDraft == [id |-> 0, points |-> << >>, machine |-> FALSE]

Finished == {"done", "partial", "failed"}
Rows(i) == {t \in Slots : target[i][t] # "none"}
Delivered(i) == {t \in Slots : target[i][t] \in {"done", "skipped"}}

Init ==
  /\ dep = << >>
  /\ target = << >>
  /\ acked = << >>
  /\ draft = NoDraft
  /\ jobLock = None
  /\ deployer = [s \in Schedulers |-> Resting]
  /\ recounts = {}
  /\ requests = {}
  /\ bucket = [p \in Points |-> NoMenu]
  /\ held = [p \in Points |-> NoMenu]
  /\ screen = [p \in Points |-> NoMenu]
  /\ confirmed = [p \in Points |-> 0]

(***************************************************************************)
(* Queueing.                                                               *)
(***************************************************************************)

\* Mutant of NewDeployment: a screen counts as failed until it is done.
NewDeploymentFailed(rows) ==
  /\ dep' = Append(dep, "queued")
  /\ target' = Append(target, [t \in Slots |-> IF t \notin rows THEN "none"
                                              ELSE IF t[2] = "r2" THEN "failed"
                                              ELSE "queued"])
  /\ acked' = Append(acked, {})

\* A new deployment with the targets in rows.
NewDeployment(rows) ==
  /\ dep' = Append(dep, "queued")
  /\ target' = Append(target, [t \in Slots |-> IF t \in rows THEN "queued"
                                              ELSE "none"])
  /\ acked' = Append(acked, {})

SlotsOf(p) == {<<p, "r2">>, <<p, "checkbox">>} \cup
              (IF p \in Machines THEN {<<p, "jetinno">>} ELSE {})

\* The discount queue (discounts.js deploy), in its caller's transaction.
EnqueueDiscount(p) ==
  /\ NewDeployment(SlotsOf(p))
  /\ UNCHANGED <<draft, schedulerVars, recounts, requests, bucket, kioskVars>>

\* A new promo (queueMenuRefresh): screens only, in one transaction.
EnqueueRefresh ==
  /\ NewDeployment(Points \X {"r2"})
  /\ UNCHANGED <<draft, schedulerVars, recounts, requests, bucket, kioskVars>>

\* POST /admin/menu/deployments: the row first, then its targets point by
\* point, every insert a transaction of its own.
AdminInsert(points) ==
  /\ draft = NoDraft
  /\ NewDeployment({})
  /\ draft' = [id |-> Len(dep) + 1, points |-> points, machine |-> FALSE]
  /\ UNCHANGED <<schedulerVars, recounts, requests, bucket, kioskVars>>

\* The next insert: r2 and checkbox of a point, then jetinno of its machine.
AdminTargets ==
  LET p == Head(draft.points)
      rows == IF draft.machine THEN {<<p, "jetinno">>}
              ELSE {<<p, "r2">>, <<p, "checkbox">>}
      more == ~draft.machine /\ p \in Machines
  IN /\ draft # NoDraft
     /\ target' = [target EXCEPT ![draft.id] =
          [t \in Slots |-> IF t \in rows THEN "queued" ELSE @[t]]]
     /\ draft' = IF more THEN [draft EXCEPT !.machine = TRUE]
                 ELSE IF Len(draft.points) = 1 THEN NoDraft
                 ELSE [draft EXCEPT !.points = Tail(@), !.machine = FALSE]
     /\ UNCHANGED <<dep, acked, schedulerVars, recounts, requests, bucket,
                    kioskVars>>

\* The api dies over the request: the rest of the targets is never made.
AdminGone ==
  /\ draft # NoDraft
  /\ draft' = NoDraft
  /\ UNCHANGED <<rowVars, schedulerVars, recounts, requests, bucket, kioskVars>>

(***************************************************************************)
(* The job menu-deploy.                                                    *)
(***************************************************************************)

\* Mutant of Take: without the lock.
TakeUnlocked(s, i) ==
  /\ deployer[s].at = "idle"
  /\ i \in 1..Len(dep) /\ dep[i] = "queued"
  /\ \A j \in 1..i - 1 : dep[j] # "queued"
  /\ dep' = [dep EXCEPT ![i] = "deploying"]
  /\ jobLock' = s
  /\ deployer' = [deployer EXCEPT ![s] = [Resting EXCEPT !.at = "taken", !.id = i]]
  /\ UNCHANGED <<target, acked, draft, recounts, requests, bucket, kioskVars>>

\* withLock, then deployNext: the oldest queued deployment, for update skip
\* locked, becomes deploying.
Take(s, i) ==
  /\ deployer[s].at = "idle"
  /\ jobLock = None
  /\ i \in 1..Len(dep) /\ dep[i] = "queued"
  /\ \A j \in 1..i - 1 : dep[j] # "queued"
  /\ dep' = [dep EXCEPT ![i] = "deploying"]
  /\ jobLock' = s
  /\ deployer' = [deployer EXCEPT ![s] = [Resting EXCEPT !.at = "taken", !.id = i]]
  /\ UNCHANGED <<target, acked, draft, recounts, requests, bucket, kioskVars>>

\* The targets that are queued at this moment.
ReadTargets(s) ==
  LET i == deployer[s].id
  IN /\ deployer[s].at = "taken"
     /\ deployer' = [deployer EXCEPT
          ![s].at = "rolling",
          ![s].todo = {t \in Slots : target[i][t] = "queued"}]
     /\ UNCHANGED <<rowVars, draft, jobLock, recounts, requests, bucket,
                    kioskVars>>

\* Screens go first: order by kind = 'r2' desc.
NextTarget(s, t) ==
  /\ deployer[s].at = "rolling"
  /\ t \in deployer[s].todo
  /\ t[2] # "r2" => \A u \in deployer[s].todo : u[2] # "r2"

\* The target t of the deployment s works on gets its status.
Settle(s, t, to) ==
  /\ target' = [target EXCEPT ![deployer[s].id][t] = to]
  /\ deployer' = [deployer EXCEPT
       ![s].at = "rolling", ![s].point = None,
       ![s].todo = @ \ {t},
       ![s].done = @ \/ to # "failed",
       ![s].failed = @ \/ to = "failed",
       ![s].verified = IF t[2] = "jetinno" THEN @ + 1 ELSE @]

\* menu.json is in the bucket; the row does not say so yet.
PutMenu(s, t, lowered) ==
  /\ NextTarget(s, t) /\ t[2] = "r2"
  /\ bucket' = [bucket EXCEPT ![t[1]] = [id |-> deployer[s].id, lowered |-> lowered]]
  /\ deployer' = [deployer EXCEPT ![s].at = "put", ![s].point = t[1]]
  /\ UNCHANGED <<rowVars, draft, jobLock, recounts, requests, kioskVars>>

\* The row becomes done and the event is written; when that fails, in two
\* statements without a transaction, the row ends as failed.
Announce(s) ==
  /\ deployer[s].at = "put"
  /\ \E to \in {"done", "failed"} : Settle(s, <<deployer[s].point, "r2">>, to)
  /\ UNCHANGED <<dep, acked, draft, jobLock, recounts, requests, bucket, kioskVars>>

\* The menu cannot be built, which marks the whole deployment failed until
\* Finish, or the bucket does not take it.
PutFails(s, t) ==
  /\ NextTarget(s, t) /\ t[2] = "r2"
  /\ Settle(s, t, "failed")
  /\ \/ UNCHANGED dep
     \/ dep' = [dep EXCEPT ![deployer[s].id] = "failed"]
  /\ UNCHANGED <<acked, draft, jobLock, recounts, requests, bucket, kioskVars>>

\* deployCheckbox or deployJetinno; every failure is caught inside.
RollTill(s, t) ==
  /\ NextTarget(s, t) /\ t[2] # "r2"
  /\ \E to \in {"done", "failed", "skipped"} : Settle(s, t, to)
  /\ UNCHANGED <<dep, acked, draft, jobLock, recounts, requests, bucket, kioskVars>>

Free(s) == jobLock' = IF jobLock = s THEN None ELSE jobLock

\* The menu for a till cannot be built: menuFor throws out of the job.
BuildFails(s, t) ==
  /\ NextTarget(s, t) /\ t[2] # "r2"
  /\ dep' = [dep EXCEPT ![deployer[s].id] = "failed"]
  /\ deployer' = [deployer EXCEPT ![s] = Resting]
  /\ Free(s)
  /\ UNCHANGED <<target, acked, draft, recounts, requests, bucket, kioskVars>>

\* The status of the deployment, from what this pass counted.
Finish(s) ==
  LET d == deployer[s]
  IN /\ d.at = "rolling" /\ d.todo = {}
     /\ dep' = [dep EXCEPT ![d.id] = IF ~d.failed THEN "done"
                                     ELSE IF ~d.done THEN "failed"
                                     ELSE "partial"]
     /\ deployer' = [deployer EXCEPT ![s] = Resting]
     /\ Free(s)
     /\ UNCHANGED <<target, acked, draft, recounts, requests, bucket, kioskVars>>

\* The scheduler dies; its lock stays until it expires.
Crash(s) ==
  /\ deployer[s].at # "idle"
  /\ deployer' = [deployer EXCEPT ![s] = Resting]
  /\ UNCHANGED <<rowVars, draft, jobLock, recounts, requests, bucket, kioskVars>>

\* The lock lives seven minutes, the verification of one machine takes up to
\* five: the lock outlives the first verification of a pass, not the second.
LockExpires ==
  /\ jobLock # None
  /\ \/ deployer[jobLock].at = "idle"
     \/ /\ deployer[jobLock].verified >= 1
        /\ \E p \in Points : NextTarget(jobLock, <<p, "jetinno">>)
     \/ deployer[jobLock].verified >= 2
  /\ jobLock' = None
  /\ UNCHANGED <<rowVars, draft, deployer, recounts, requests, bucket, kioskVars>>

(***************************************************************************)
(* Kiosks and their acknowledgements.                                      *)
(***************************************************************************)

\* menu_poll_thread reads a new menu.json and keeps its body in the cache.
Fetch(p) ==
  /\ held[p].id # bucket[p].id
  /\ held[p] = screen[p]
  /\ held' = [held EXCEPT ![p] = bucket[p]]
  /\ UNCHANGED <<rowVars, draft, schedulerVars, recounts, requests, bucket,
                 screen, confirmed>>

\* menu_ack, right after the fetch and again in every round until a 2xx.
SendAck(p) ==
  /\ held[p].id \notin {0, confirmed[p]}
  /\ \A request \in requests : request.point # p
  /\ requests' = requests \cup {[id |-> held[p].id, point |-> p, at |-> "sent"]}
  /\ UNCHANGED <<rowVars, draft, schedulerVars, recounts, bucket, kioskVars>>

\* The menu is drawn.  A discount whose time is up is taken off, before the
\* menu is drawn for the first time or later.
Draw(p, lowered) ==
  /\ lowered => held[p].lowered
  /\ screen[p] # [id |-> held[p].id, lowered |-> lowered]
  /\ screen' = [screen EXCEPT ![p] = [id |-> held[p].id, lowered |-> lowered]]
  /\ held' = [held EXCEPT ![p] = [id |-> held[p].id, lowered |-> lowered]]
  /\ UNCHANGED <<rowVars, draft, schedulerVars, recounts, requests, bucket,
                 confirmed>>

\* api, menu/ack, first statement: acked_at = coalesce(acked_at, now()).
RecordAck(request) ==
  /\ request \in requests /\ request.at = "sent"
  /\ acked' = [acked EXCEPT ![request.id] =
       IF target[request.id][<<request.point, "r2">>] # "none"
       THEN @ \cup {request.point} ELSE @]
  /\ requests' = (requests \ {request}) \cup {[request EXCEPT !.at = "recorded"]}
  /\ UNCHANGED <<dep, target, draft, schedulerVars, recounts, bucket, kioskVars>>

\* restoreAcked: a target that failed for want of an acknowledgement is done
\* again.  The kiosk learns of the 2xx, or its connection is gone by then.
RestoreAcked(request) ==
  /\ request \in requests /\ request.at = "recorded"
  /\ \/ /\ target[request.id][<<request.point, "r2">>] = "unacked"
        /\ target' = [target EXCEPT ![request.id][<<request.point, "r2">>] = "done"]
        /\ recounts' = recounts \cup {request.id}
     \/ /\ target[request.id][<<request.point, "r2">>] # "unacked"
        /\ UNCHANGED <<target, recounts>>
  /\ requests' = requests \ {request}
  /\ \/ confirmed' = [confirmed EXCEPT ![request.point] = request.id]
     \/ UNCHANGED confirmed
  /\ UNCHANGED <<dep, acked, draft, schedulerVars, bucket, held, screen>>

\* The request does not arrive, or the api dies over it.
LoseAck(request) ==
  /\ request \in requests
  /\ requests' = requests \ {request}
  /\ UNCHANGED <<rowVars, draft, schedulerVars, recounts, bucket, kioskVars>>

(***************************************************************************)
(* The overseer.                                                           *)
(***************************************************************************)

Unacked(i) == {p \in Points : /\ target[i][<<p, "r2">>] = "done"
                              /\ p \notin acked[i]}

\* markUnacked: one statement fails every target whose three minutes are
\* over: of the deployments in overdue.
MarkUnacked(overdue) ==
  /\ \E i \in overdue : Unacked(i) # {}
  /\ target' = [i \in 1..Len(target) |->
       IF i \in overdue
       THEN [t \in Slots |-> IF t[2] = "r2" /\ t[1] \in Unacked(i) THEN "unacked"
                             ELSE target[i][t]]
       ELSE target[i]]
  /\ recounts' = recounts \cup {i \in overdue : Unacked(i) # {}}
  /\ UNCHANGED <<dep, acked, draft, schedulerVars, requests, bucket, kioskVars>>

\* What recountDeployments makes of the targets.
StatusOf(i) ==
  IF Delivered(i) = Rows(i) THEN "done"
  ELSE IF Delivered(i) = {} THEN "failed"
  ELSE "partial"

Recount(i) ==
  /\ i \in recounts
  /\ recounts' = recounts \ {i}
  /\ dep' = IF dep[i] \in Finished THEN [dep EXCEPT ![i] = StatusOf(i)] ELSE dep
  /\ UNCHANGED <<target, acked, draft, schedulerVars, requests, bucket, kioskVars>>

\* The process that was to recount dies first.
LoseRecount(i) ==
  /\ i \in recounts
  /\ recounts' = recounts \ {i}
  /\ UNCHANGED <<rowVars, draft, schedulerVars, requests, bucket, kioskVars>>

(***************************************************************************)
(* The whole rollout.                                                      *)
(***************************************************************************)

\* lowered: whether the menu being put carries a running discount.
DeployStep(s, lowered) ==
  \/ \E i \in 1..Len(dep) : Take(s, i)
  \/ ReadTargets(s)
  \/ \E t \in deployer[s].todo :
       \/ PutMenu(s, t, lowered)
       \/ PutFails(s, t)
       \/ RollTill(s, t)
       \/ BuildFails(s, t)
  \/ Announce(s)
  \/ Finish(s)

\* lowered: whether the discount of the menu being drawn still runs.
KioskStep(p, lowered) == Fetch(p) \/ SendAck(p) \/ Draw(p, lowered)

ApiStep == \E request \in requests : RecordAck(request) \/ RestoreAcked(request)

OverseerStep ==
  \/ \E overdue \in SUBSET (1..Len(dep)) : MarkUnacked(overdue)
  \/ \E i \in recounts : Recount(i)

AdminStep ==
  \/ EnqueueRefresh
  \/ \E points \in Lists : AdminInsert(points)
  \/ AdminTargets

\* What the network and the processes may do at their worst.
Failure ==
  \/ \E s \in Schedulers : Crash(s)
  \/ \E request \in requests : LoseAck(request)
  \/ \E i \in recounts : LoseRecount(i)
  \/ AdminGone

Next ==
  \/ \E p \in Points : EnqueueDiscount(p)
  \/ AdminStep
  \/ \E s \in Schedulers, lowered \in BOOLEAN : DeployStep(s, lowered)
  \/ LockExpires
  \/ \E p \in Points, lowered \in BOOLEAN : KioskStep(p, lowered)
  \/ ApiStep
  \/ OverseerStep
  \/ Failure

Safety == Init /\ [][Next]_rolloutVars

(***************************************************************************)
(* Properties.                                                             *)
(***************************************************************************)

\* Types of the rows, of the scheduler, of the kiosks.
TypeOK ==
  /\ dep \in Seq({"queued", "deploying"} \cup Finished)
  /\ target \in Seq([Slots -> {"none", "queued", "done", "failed", "unacked",
                               "skipped"}])
  /\ acked \in Seq(SUBSET Points)
  /\ Len(target) = Len(dep) /\ Len(acked) = Len(dep)
  /\ draft \in [id : 0..Len(dep), points : Seq(Points), machine : BOOLEAN]
  /\ jobLock \in Schedulers \cup {None}
  /\ deployer \in [Schedulers ->
       [at : {"idle", "taken", "rolling", "put"}, id : 0..Len(dep),
        todo : SUBSET Slots, point : Points \cup {None},
        done : BOOLEAN, failed : BOOLEAN, verified : Nat]]
  /\ recounts \subseteq 1..Len(dep)
  /\ requests \subseteq [id : 1..Len(dep), point : Points, at : {"sent", "recorded"}]
  /\ bucket \in [Points -> Menu]
  /\ held \in [Points -> Menu]
  /\ screen \in [Points -> Menu]
  /\ confirmed \in [Points -> 0..Len(dep)]

\* "Two copies of the scheduler do not take the same deployment"
\* (jobs/menu.js:202-203), also when the lock in Redis has expired.
OneDeployerEach ==
  \A s, u \in Schedulers :
    deployer[s].id # 0 /\ deployer[s].id = deployer[u].id => s = u

\* "A second copy of the scheduler cannot take the next deployment while
\* this one is still being verified" (scheduler/index.js:44-46).
OneRolloutAtATime ==
  \A s, u \in Schedulers :
    deployer[s].at # "idle" /\ deployer[u].at # "idle" => s = u

Rank == [queued |-> 0, deploying |-> 1, done |-> 2, partial |-> 2, failed |-> 2]

\* A deployment is carried out once: its status never returns to the queue
\* and no scheduler starts on it again, whatever is recounted meanwhile.
GoForward ==
  /\ Len(dep) <= Len(dep')
  /\ \A i \in 1..Len(dep) : Rank[dep[i]] <= Rank[dep'[i]]
DeploymentsGoForward == [][GoForward]_rolloutVars

\* A target that was carried out has its menu, or a newer one, in the bucket.
DoneMeansInBucket ==
  \A i \in 1..Len(dep), p \in Points :
    target[i][<<p, "r2">>] \in {"done", "unacked"} => bucket[p].id >= i

\* A kiosk acknowledges only what it got: acked_at says the menu, or a newer
\* one, reached that kiosk.
AckedMeansFetched ==
  \A i \in 1..Len(dep) : \A p \in acked[i] : held[p].id >= i

\* A target that is failed for want of an acknowledgement although acked_at
\* is set is about to be restored, or its kiosk does not know of the
\* acknowledgement and repeats it.
LateAckIsRestored ==
  \A i \in 1..Len(dep), p \in Points :
    target[i][<<p, "r2">>] = "unacked" /\ p \in acked[i] =>
      \/ \E request \in requests : request.id = i /\ request.point = p
      \/ confirmed[p] # i

-----------------------------------------------------------------------------
(***************************************************************************)
(* Proofs: for any points, machines, schedulers and lists of points.       *)
(*                                                                         *)
(* The lock of the job may expire under a scheduler, so it does not keep   *)
(* two of them apart.  What does is smaller: a scheduler that still has a  *)
(* screen to write holds the lock (HoldsLock), since the lock expires only *)
(* after all screens are written, and the rows are taken oldest first, so  *)
(* what is in the buckets is older than what such a scheduler carries      *)
(* (BeforeScreens): no bucket ever gets an older menu.                     *)
(***************************************************************************)
Statuses == {"queued", "deploying"} \cup Finished
Work == [at : {"idle", "taken", "rolling", "put"}, id : Nat,
         todo : SUBSET Slots, point : Points \cup {None},
         done : BOOLEAN, failed : BOOLEAN, verified : Nat]
Targets == [Slots -> {"none", "queued", "done", "failed", "unacked", "skipped"}]

\* Types, with ids of any number.
Typed ==
  /\ dep \in Seq(Statuses) /\ target \in Seq(Targets) /\ acked \in Seq(SUBSET Points)
  /\ Len(target) = Len(dep) /\ Len(acked) = Len(dep)
  /\ draft \in [id : Nat, points : Seq(Points), machine : BOOLEAN]
  /\ jobLock \in Schedulers \cup {None}
  /\ deployer \in [Schedulers -> Work]
  /\ requests \subseteq [id : Nat, point : Points, at : {"sent", "recorded"}]
  /\ bucket \in [Points -> Menu] /\ held \in [Points -> Menu] /\ screen \in [Points -> Menu]
  /\ confirmed \in [Points -> Nat]

\* The ids are of deployments that are there, and a request has points to go through.
Ids ==
  /\ draft.id <= Len(dep) /\ (draft # NoDraft => draft.points # << >> /\ draft.id # 0)
  /\ recounts \subseteq 1..Len(dep)
  /\ \A r \in requests : r.id \in 1..Len(dep)
  /\ \A p \in Points : confirmed[p] <= Len(dep)

\* A scheduler at work has a deployment that is not queued any more.
Working ==
  \A s \in Schedulers :
    IF deployer[s].at = "idle" THEN deployer[s] = Resting
    ELSE deployer[s].id \in 1..Len(dep) /\ dep[deployer[s].id] # "queued"

\* Deployments leave the queue in the order of their ids.
QueueIsNewest ==
  \A i, j \in 1..Len(dep) : i < j /\ dep[i] = "queued" => dep[j] = "queued"

\* s has screens to write.
Screens(s) ==
  deployer[s].at \in {"taken", "put"} \/ \E t \in deployer[s].todo : t[2] = "r2"

\* Whoever has screens to write holds the lock: it is verified for machines only after them.
HoldsLock ==
  \A s \in Schedulers :
    /\ Screens(s) => jobLock = s
    /\ deployer[s].verified # 0 => ~Screens(s)

\* What is in the buckets was taken from the queue, and before what is written now.
BeforeScreens ==
  /\ \A p \in Points :
       bucket[p].id # 0 => bucket[p].id <= Len(dep) /\ dep[bucket[p].id] # "queued"
  /\ \A s \in Schedulers : Screens(s) => \A p \in Points : bucket[p].id <= deployer[s].id
  /\ \A s \in Schedulers :
       deployer[s].at = "put" =>
         deployer[s].point \in Points /\ bucket[deployer[s].point].id = deployer[s].id

\* A kiosk holds what was in its bucket and acknowledges what it holds, one at a time and
\* until it knows that it did.
Acks ==
  /\ \A p \in Points : held[p].id <= bucket[p].id
  /\ \A r \in requests : r.id <= held[r.point].id /\ r.id # confirmed[r.point]
  /\ \A r, q \in requests : r.point = q.point => r = q

\* The invariant of the rollout.
IInv ==
  /\ Typed /\ Ids /\ Working /\ QueueIsNewest /\ OneDeployerEach /\ HoldsLock
  /\ BeforeScreens /\ Acks
  /\ DoneMeansInBucket /\ AckedMeansFetched /\ LateAckIsRestored

\* A sequence with an element more.
LEMMA Longer ==
  ASSUME NEW S, NEW s \in Seq(S), NEW e \in S
  PROVE  /\ Append(s, e) \in Seq(S) /\ Len(s) \in Nat
         /\ Len(Append(s, e)) = Len(s) + 1
         /\ 1..Len(Append(s, e)) = 1..Len(s) \cup {Len(s) + 1}
         /\ Len(s) + 1 \notin 1..Len(s)
         /\ Append(s, e)[Len(s) + 1] = e
         /\ \A i \in 1..Len(s) : Append(s, e)[i] = s[i]
  OBVIOUS

\* A sequence with one element replaced.
LEMMA Replaced ==
  ASSUME NEW S, NEW s \in Seq(S), NEW i \in 1..Len(s), NEW e \in S, NEW t,
         t = [s EXCEPT ![i] = e]
  PROVE  /\ t \in Seq(S) /\ Len(t) = Len(s) /\ Len(s) \in Nat
         /\ \A j \in 1..Len(s) : t[j] = IF j = i THEN e ELSE s[j]
  OBVIOUS

\* The rows of menu_deployments and of its targets.
LEMMA RowTypes ==
  ASSUME Typed, NEW i \in 1..Len(dep)
  PROVE  dep[i] \in Statuses /\ target[i] \in Targets /\ acked[i] \in SUBSET Points /\ i \in Nat
<1> DEFINE A == Statuses
           B == Targets
           C == SUBSET Points
<1>1. /\ dep \in Seq(A) /\ target \in Seq(B) /\ acked \in Seq(C)
      /\ Len(target) = Len(dep) /\ Len(acked) = Len(dep)
  BY DEF Typed
<1> HIDE DEF A, B, C
<1>2. dep[i] \in A /\ target[i] \in B /\ acked[i] \in C
  BY <1>1
<1> QED
  BY <1>1, <1>2 DEF A, B, C

\* In the beginning there is nothing.
LEMMA InitIInv == ConstantsAreSound /\ Init => IInv
<1> SUFFICES ASSUME ConstantsAreSound, Init PROVE IInv
  OBVIOUS
<1> USE DEF Init
<1>1. Typed
  BY DEF Typed, Work, Resting, NoDraft, NoMenu, Menu
<1>2. Ids /\ Working /\ QueueIsNewest /\ OneDeployerEach /\ HoldsLock
  BY DEF Ids, Working, QueueIsNewest, OneDeployerEach, HoldsLock, Screens, Resting, NoDraft
<1>3. BeforeScreens /\ Acks
  BY DEF BeforeScreens, Acks, Screens, Resting, NoMenu
<1>4. DoneMeansInBucket /\ AckedMeansFetched /\ LateAckIsRestored
  BY DEF DoneMeansInBucket, AckedMeansFetched, LateAckIsRestored
<1> QED
  BY <1>1, <1>2, <1>3, <1>4 DEF IInv

\* A deployment is queued with rows that are all queued.
LEMMA NewDeploymentKeeps ==
  ASSUME IInv, NEW rows, NewDeployment(rows),
         draft' \in [id : Nat, points : Seq(Points), machine : BOOLEAN],
         draft'.id <= Len(dep) + 1,
         draft' # NoDraft => draft'.points # << >> /\ draft'.id # 0,
         UNCHANGED <<schedulerVars, recounts, requests, bucket, kioskVars>>
  PROVE  IInv'
<1> DEFINE n == Len(dep) + 1
           new == [t \in Slots |-> IF t \in rows THEN "queued" ELSE "none"]
<1> USE DEF schedulerVars, kioskVars
<1>1. /\ dep \in Seq(Statuses) /\ target \in Seq(Targets) /\ acked \in Seq(SUBSET Points)
      /\ Len(target) = Len(dep) /\ Len(acked) = Len(dep)
  BY DEF IInv, Typed
<1>2. new \in Targets /\ "queued" \in Statuses /\ {} \in SUBSET Points
      /\ \A p \in Points : new[<<p, "r2">>] \notin {"done", "unacked"}
  BY DEF Targets, Statuses, Slots
<1>3. dep' = Append(dep, "queued") /\ target' = Append(target, new) /\ acked' = Append(acked, {})
  BY DEF NewDeployment
<1> HIDE DEF new
<1>4. /\ dep' \in Seq(Statuses) /\ Len(dep) \in Nat /\ Len(dep') = n
      /\ 1..Len(dep') = 1..Len(dep) \cup {n} /\ n \notin 1..Len(dep)
      /\ dep'[n] = "queued" /\ \A i \in 1..Len(dep) : dep'[i] = dep[i]
  <2> HIDE DEF Statuses
  <2> QED
    BY <1>1, <1>2, <1>3, Longer
<1>5. /\ target' \in Seq(Targets) /\ Len(target') = n
      /\ target'[n] = new /\ \A i \in 1..Len(dep) : target'[i] = target[i]
  <2> HIDE DEF Targets
  <2> QED
    BY <1>1, <1>2, <1>3, Longer
<1>6. /\ acked' \in Seq(SUBSET Points) /\ Len(acked') = n
      /\ acked'[n] = {} /\ \A i \in 1..Len(dep) : acked'[i] = acked[i]
  BY <1>1, <1>2, <1>3, Longer
<1> HIDE DEF n
<1>7. Typed'
  BY <1>4, <1>5, <1>6 DEF IInv, Typed, Work, Slots
<1>8. Ids'
  BY <1>4 DEF IInv, Ids, Typed, n
<1>9. Working' /\ OneDeployerEach' /\ HoldsLock'
  BY <1>4 DEF IInv, Working, OneDeployerEach, HoldsLock, Screens
<1>10. QueueIsNewest'
  BY <1>4 DEF IInv, QueueIsNewest, n
<1>11. BeforeScreens' /\ Acks'
  <2>1. \A p \in Points : bucket[p].id \in Nat
    BY DEF IInv, Typed, Menu
  <2>2. BeforeScreens'
    BY <1>4, <2>1 DEF IInv, BeforeScreens, Screens, n
  <2> QED
    BY <2>2 DEF IInv, Acks
<1>12. DoneMeansInBucket' /\ AckedMeansFetched' /\ LateAckIsRestored'
  <2>1. DoneMeansInBucket'
    BY <1>2, <1>4, <1>5 DEF IInv, DoneMeansInBucket
  <2>2. AckedMeansFetched'
    BY <1>4, <1>6 DEF IInv, AckedMeansFetched
  <2>3. LateAckIsRestored'
    <3> SUFFICES ASSUME NEW i \in 1..Len(dep'), NEW p \in Points,
                        target'[i][<<p, "r2">>] = "unacked", p \in acked'[i]
                 PROVE  (\E r \in requests : r.id = i /\ r.point = p) \/ confirmed[p] # i
      BY DEF LateAckIsRestored
    <3>1. i \in 1..Len(dep) /\ target[i][<<p, "r2">>] = "unacked" /\ p \in acked[i]
      BY <1>2, <1>4, <1>5, <1>6
    <3> QED
      BY <3>1 DEF IInv, LateAckIsRestored
  <2> QED
    BY <2>1, <2>2, <2>3
<1> QED
  BY <1>7, <1>8, <1>9, <1>10, <1>11, <1>12 DEF IInv

\* The target t of deployment i gets a status.
Gets(i, t, to) == target' = [target EXCEPT ![i][t] = to]
LEMMA OneTarget ==
  ASSUME Typed, NEW i \in 1..Len(dep), NEW t \in Slots,
         NEW to \in {"done", "failed", "skipped"}, Gets(i, t, to)
  PROVE  /\ target' \in Seq(Targets) /\ Len(target') = Len(target)
         /\ \A j \in 1..Len(dep) : \A u \in Slots :
              target'[j][u] = IF j = i /\ u = t THEN to ELSE target[j][u]
<1> DEFINE S == Targets
           row == [target[i] EXCEPT ![t] = to]
<1>1. target \in Seq(S) /\ Len(target) = Len(dep) /\ target[i] \in S
  BY RowTypes DEF Typed
<1>2. row \in S /\ \A u \in Slots : row[u] = IF u = t THEN to ELSE target[i][u]
  BY <1>1 DEF Targets
<1>3. target' = [target EXCEPT ![i] = row]
  BY DEF Gets
<1> HIDE DEF S, row
<1>4. /\ target' \in Seq(S) /\ Len(target') = Len(target)
      /\ \A j \in 1..Len(dep) : target'[j] = IF j = i THEN row ELSE target[j]
  BY <1>1, <1>2, <1>3, Replaced
<1> QED
  BY <1>2, <1>4 DEF S

\* The admin's request: its targets are queued, and it may be gone.
LEMMA AdminKeeps ==
  ASSUME IInv, ConstantsAreSound, AdminTargets \/ AdminGone
  PROVE  IInv'
<1>1. /\ draft' \in [id : Nat, points : Seq(Points), machine : BOOLEAN]
      /\ draft'.id <= Len(dep) /\ (draft' # NoDraft => draft'.points # << >> /\ draft'.id # 0)
  <2>0. /\ draft \in [id : Nat, points : Seq(Points), machine : BOOLEAN]
        /\ draft.id <= Len(dep) /\ (draft # NoDraft => draft.points # << >> /\ draft.id # 0)
        /\ Len(dep) \in Nat
    BY DEF IInv, Typed, Ids
  <2>1. NoDraft \in [id : Nat, points : Seq(Points), machine : BOOLEAN] /\ NoDraft.id <= Len(dep)
    BY <2>0 DEF NoDraft
  <2>2. CASE draft' = NoDraft
    BY <2>1, <2>2
  <2>3. CASE draft # NoDraft /\ draft' = [draft EXCEPT !.machine = TRUE]
    BY <2>0, <2>3
  <2>4. CASE /\ draft # NoDraft /\ Len(draft.points) # 1
             /\ draft' = [draft EXCEPT !.points = Tail(@), !.machine = FALSE]
    <3> DEFINE points == draft.points
    <3>1. points \in Seq(Points) /\ points # << >> /\ Len(points) # 1
      BY <2>0, <2>4
    <3> HIDE DEF points
    <3>2. Tail(points) \in Seq(Points) /\ Tail(points) # << >>
      <4>1. Len(points) \in Nat /\ Len(points) # 0
        BY <3>1
      <4>2. Tail(points) \in Seq(Points) /\ Len(Tail(points)) = Len(points) - 1
        BY <3>1, <4>1
      <4>3. Len(Tail(points)) # 0
        BY <3>1, <4>1, <4>2
      <4>4. Len(<< >>) = 0
        OBVIOUS
      <4> QED
        BY <4>2, <4>3, <4>4
    <3>3. draft' = [draft EXCEPT !.points = Tail(points), !.machine = FALSE]
      BY <2>4 DEF points
    <3> QED
      BY <2>0, <2>4, <3>2, <3>3
  <2> QED
    BY <2>2, <2>3, <2>4 DEF AdminTargets, AdminGone
<1>2. /\ target' \in Seq(Targets) /\ Len(target') = Len(target)
      /\ \A i \in 1..Len(dep), t \in Slots : target'[i][t] \in {target[i][t], "queued"}
  <2>1. CASE AdminGone
    BY <2>1 DEF AdminGone, rowVars, IInv, Typed
  <2>2. CASE AdminTargets
    <3>1. PICK rows :
            target' = [target EXCEPT ![draft.id] =
                         [t \in Slots |-> IF t \in rows THEN "queued" ELSE target[draft.id][t]]]
      BY <2>2 DEF AdminTargets
    <3> DEFINE new == [t \in Slots |-> IF t \in rows THEN "queued" ELSE target[draft.id][t]]
               S == Targets
    <3>2. draft.id \in 1..Len(dep)
      BY <2>2 DEF AdminTargets, IInv, Ids, Typed
    <3>3. new \in S /\ \A t \in Slots : new[t] \in {target[draft.id][t], "queued"}
      BY <3>2, RowTypes DEF IInv, Targets
    <3>4. target \in Seq(S) /\ Len(target) = Len(dep) /\ target' = [target EXCEPT ![draft.id] = new]
      BY <3>1 DEF IInv, Typed
    <3> HIDE DEF new, S
    <3>5. /\ target' \in Seq(S) /\ Len(target') = Len(target)
          /\ \A j \in 1..Len(dep) : target'[j] = IF j = draft.id THEN new ELSE target[j]
      BY <3>2, <3>3, <3>4, Replaced
    <3> QED
      BY <3>3, <3>5 DEF S
  <2> QED
    BY <2>1, <2>2
<1>3. UNCHANGED <<dep, acked, jobLock, deployer, recounts, requests, bucket, held, screen,
                  confirmed>>
  BY DEF AdminTargets, AdminGone, rowVars, schedulerVars, kioskVars
<1>4. \A p \in Points : <<p, "r2">> \in Slots
  BY DEF Slots
<1>5. Typed' /\ Ids'
  BY <1>1, <1>2, <1>3 DEF IInv, Typed, Ids
<1>6. (Working /\ QueueIsNewest /\ OneDeployerEach /\ HoldsLock /\ BeforeScreens /\ Acks)'
  BY <1>3 DEF IInv, Working, QueueIsNewest, OneDeployerEach, HoldsLock, BeforeScreens, Acks, Screens
<1>7. (DoneMeansInBucket /\ AckedMeansFetched /\ LateAckIsRestored)'
  BY <1>2, <1>3, <1>4 DEF IInv, DoneMeansInBucket, AckedMeansFetched, LateAckIsRestored
<1> QED
  BY <1>5, <1>6, <1>7 DEF IInv

\* A scheduler goes on with the deployment it has, or leaves it.
LEMMA GoesOn ==
  ASSUME IInv, ConstantsAreSound, NEW s \in Schedulers, deployer[s].at # "idle",
         NEW d \in Work, deployer' = [deployer EXCEPT ![s] = d],
         \/ d = Resting
         \/ /\ d.at = "rolling" /\ d.id = deployer[s].id
            /\ (\E t \in d.todo : t[2] = "r2") =>
                 Screens(s) /\ d.verified = 0,
         jobLock' = jobLock \/ (d = Resting /\ Free(s)),
         \/ dep' = dep
         \/ \E to \in Statuses \ {"queued"} : dep' = [dep EXCEPT ![deployer[s].id] = to],
         \/ target' = target
         \/ \E t \in Slots, to \in {"done", "failed", "skipped"} :
              /\ target' = [target EXCEPT ![deployer[s].id][t] = to]
              /\ t[2] = "r2" /\ to = "done" => bucket[t[1]].id = deployer[s].id,
         UNCHANGED <<acked, draft, recounts, requests, bucket, kioskVars>>
  PROVE  IInv'
<1> DEFINE i == deployer[s].id
<1>1. i \in 1..Len(dep) /\ dep[i] # "queued" /\ Len(dep) \in Nat
  BY DEF IInv, Working, Typed
<1>2. /\ dep' \in Seq(Statuses) /\ Len(dep') = Len(dep)
      /\ \A j \in 1..Len(dep) : dep'[j] = "queued" <=> dep[j] = "queued"
  <2>1. CASE dep' = dep
    BY <2>1 DEF IInv, Typed
  <2>2. ASSUME NEW to \in Statuses \ {"queued"}, dep' = [dep EXCEPT ![i] = to]
        PROVE  /\ dep' \in Seq(Statuses) /\ Len(dep') = Len(dep)
               /\ \A j \in 1..Len(dep) : dep'[j] = "queued" <=> dep[j] = "queued"
    <3> DEFINE S == Statuses
    <3>1. dep \in Seq(S) /\ to \in S /\ to # "queued"
      BY <2>2 DEF IInv, Typed
    <3> HIDE DEF S, i
    <3>2. /\ dep' \in Seq(S) /\ Len(dep') = Len(dep)
          /\ \A j \in 1..Len(dep) : dep'[j] = IF j = i THEN to ELSE dep[j]
      <4>1. i \in 1..Len(dep)
        BY <1>1
      <4> QED
        BY <2>2, <3>1, <4>1, Replaced
    <3> QED
      BY <1>1, <3>1, <3>2 DEF S
  <2> QED
    BY <2>1, <2>2
<1>3. /\ target' \in Seq(Targets) /\ Len(target') = Len(target)
      /\ \A j \in 1..Len(dep), p \in Points :
           \/ target'[j][<<p, "r2">>] = target[j][<<p, "r2">>]
           \/ target'[j][<<p, "r2">>] \notin {"done", "unacked"}
           \/ target'[j][<<p, "r2">>] = "done" /\ bucket[p].id = j
  <2>1. CASE target' = target
    BY <2>1 DEF IInv, Typed
  <2>2. ASSUME NEW t \in Slots, NEW to \in {"done", "failed", "skipped"},
               target' = [target EXCEPT ![i][t] = to],
               t[2] = "r2" /\ to = "done" => bucket[t[1]].id = i
        PROVE  /\ target' \in Seq(Targets) /\ Len(target') = Len(target)
               /\ \A j \in 1..Len(dep), p \in Points :
                    \/ target'[j][<<p, "r2">>] = target[j][<<p, "r2">>]
                    \/ target'[j][<<p, "r2">>] \notin {"done", "unacked"}
                    \/ target'[j][<<p, "r2">>] = "done" /\ bucket[p].id = j
    <3>0. Gets(i, t, to) /\ Typed
      BY <2>2 DEF Gets, IInv
    <3>1. /\ target' \in Seq(Targets) /\ Len(target') = Len(target)
          /\ \A j \in 1..Len(dep) : \A u \in Slots :
               target'[j][u] = IF j = i /\ u = t THEN to ELSE target[j][u]
      BY <1>1, <3>0, OneTarget
    <3>2. \A p \in Points : <<p, "r2">> \in Slots /\ <<p, "r2">>[1] = p /\ <<p, "r2">>[2] = "r2"
      BY DEF Slots
    <3>3. ASSUME NEW j \in 1..Len(dep), NEW p \in Points
          PROVE  \/ target'[j][<<p, "r2">>] = target[j][<<p, "r2">>]
                 \/ target'[j][<<p, "r2">>] \notin {"done", "unacked"}
                 \/ target'[j][<<p, "r2">>] = "done" /\ bucket[p].id = j
      <4>1. CASE j = i /\ t = <<p, "r2">>
        <5>1. target'[j][<<p, "r2">>] = to /\ t[1] = p /\ t[2] = "r2"
          BY <3>1, <3>2, <4>1
        <5> QED
          BY <2>2, <4>1, <5>1
      <4>2. CASE ~(j = i /\ t = <<p, "r2">>)
        BY <3>1, <3>2, <4>2
      <4> QED
        BY <4>1, <4>2
    <3> QED
      BY <3>1, <3>3
  <2> QED
    BY <2>1, <2>2
<1> HIDE DEF i
<1>4. /\ deployer' \in [Schedulers -> Work] /\ deployer'[s] = d
      /\ \A u \in Schedulers : u # s => deployer'[u] = deployer[u]
  BY DEF IInv, Typed
<1>5. /\ None \notin Schedulers /\ Resting.at = "idle" /\ Resting.todo = {} /\ Resting.id = 0
      /\ Resting.verified = 0
  BY DEF ConstantsAreSound, Resting
<1>6. /\ jobLock' \in Schedulers \cup {None}
      /\ \A u \in Schedulers : u # s /\ jobLock = u => jobLock' = u
  BY DEF Free, IInv, Typed
<1>7. Typed' /\ Ids'
  BY <1>2, <1>3, <1>4, <1>6 DEF IInv, Typed, Ids, kioskVars
<1>8. Working'
  BY <1>1, <1>2, <1>4, <1>5 DEF IInv, Working, i
<1>9. QueueIsNewest'
  BY <1>2 DEF IInv, QueueIsNewest
<1>10. OneDeployerEach'
  BY <1>4, <1>5 DEF IInv, OneDeployerEach
<1>11. HoldsLock'
  <2> SUFFICES ASSUME NEW u \in Schedulers
               PROVE  /\ Screens(u)' => jobLock' = u
                      /\ deployer'[u].verified # 0 => ~Screens(u)'
    BY DEF HoldsLock
  <2>1. CASE u = s
    BY <1>4, <1>5, <2>1 DEF IInv, HoldsLock, Screens
  <2>2. CASE u # s
    BY <1>4, <1>6, <2>2 DEF IInv, HoldsLock, Screens
  <2> QED
    BY <2>1, <2>2
<1>12. BeforeScreens'
  <2>1. \A p \in Points : bucket[p].id \in Nat
    BY DEF IInv, Typed, Menu
  <2>2. \A p \in Points :
          bucket[p].id # 0 => bucket[p].id <= Len(dep) /\ dep'[bucket[p].id] # "queued"
    <3>1. \A p \in Points :
            bucket[p].id # 0 => bucket[p].id <= Len(dep) /\ dep[bucket[p].id] # "queued"
      BY DEF IInv, BeforeScreens
    <3> QED
      BY <1>1, <1>2, <2>1, <3>1
  <2>3. \A u \in Schedulers : Screens(u)' => \A p \in Points : bucket[p].id <= deployer'[u].id
    BY <1>4, <1>5 DEF IInv, BeforeScreens, Screens
  <2>4. \A u \in Schedulers : deployer'[u].at = "put" =>
          deployer'[u].point \in Points /\ bucket[deployer'[u].point].id = deployer'[u].id
    BY <1>4, <1>5 DEF IInv, BeforeScreens
  <2> QED
    BY <1>2, <2>2, <2>3, <2>4 DEF BeforeScreens
<1>13. Acks' /\ AckedMeansFetched'
  BY <1>2 DEF IInv, Acks, AckedMeansFetched, kioskVars
<1>14. DoneMeansInBucket'
  <2> SUFFICES ASSUME NEW j \in 1..Len(dep), NEW p \in Points,
                      target'[j][<<p, "r2">>] \in {"done", "unacked"}
               PROVE  bucket[p].id >= j
    BY <1>2 DEF DoneMeansInBucket
  <2>1. target[j][<<p, "r2">>] \in {"done", "unacked"} \/ bucket[p].id = j
    BY <1>3
  <2>2. DoneMeansInBucket
    BY DEF IInv
  <2> QED
    BY <2>1, <2>2 DEF DoneMeansInBucket
<1>15. LateAckIsRestored'
  <2>1. UNCHANGED <<acked, requests, confirmed>>
    BY <1>2 DEF kioskVars
  <2> SUFFICES ASSUME NEW j \in 1..Len(dep), NEW p \in Points,
                      target'[j][<<p, "r2">>] = "unacked", p \in acked[j]
               PROVE  \/ \E request \in requests : request.id = j /\ request.point = p
                      \/ confirmed[p] # j
    <3>1. 1..Len(dep') = 1..Len(dep)
      BY <1>2
    <3> QED
      BY <2>1, <3>1 DEF LateAckIsRestored
  <2>2. target[j][<<p, "r2">>] = "unacked"
    BY <1>3
  <2> QED
    BY <2>2 DEF IInv, LateAckIsRestored
<1> QED
  BY <1>7, <1>8, <1>9, <1>10, <1>11, <1>12, <1>13, <1>14, <1>15 DEF IInv

\* What a scheduler is after it settled a target.
LEMMA SettleIs ==
  ASSUME Typed, NEW s \in Schedulers, NEW t \in Slots,
         NEW to \in {"done", "failed", "skipped"}, Settle(s, t, to)
  PROVE  \E d \in Work :
           /\ deployer' = [deployer EXCEPT ![s] = d]
           /\ d.at = "rolling" /\ d.id = deployer[s].id /\ d.todo = deployer[s].todo \ {t}
           /\ t[2] # "jetinno" => d.verified = deployer[s].verified
<1> DEFINE old == deployer[s]
           todo == old.todo \ {t}
           done == old.done \/ to # "failed"
           failed == old.failed \/ to = "failed"
           verified == IF t[2] = "jetinno" THEN old.verified + 1 ELSE old.verified
           new == [old EXCEPT !.at = "rolling", !.point = None, !.todo = todo, !.done = done,
                              !.failed = failed, !.verified = verified]
<1>1. old \in Work
  BY DEF Typed
<1>2. done \in BOOLEAN /\ failed \in BOOLEAN /\ verified \in Nat /\ todo \in SUBSET Slots
  BY <1>1 DEF Work
<1>3. deployer' = [deployer EXCEPT ![s] = new]
  BY DEF Settle
<1> HIDE DEF todo, done, failed, verified, old
<1>4. /\ new \in Work /\ new.at = "rolling" /\ new.id = old.id
      /\ new.todo = todo /\ new.verified = verified
  BY <1>1, <1>2 DEF Work
<1> HIDE DEF new
<1> QED
  BY <1>3, <1>4 DEF old, todo, verified

\* The steps of a scheduler that has a deployment, but for the write of a screen.
LEMMA JobKeeps ==
  ASSUME IInv, ConstantsAreSound, NEW s \in Schedulers,
         \/ ReadTargets(s) \/ Announce(s) \/ Finish(s) \/ Crash(s)
         \/ \E t \in deployer[s].todo : PutFails(s, t) \/ RollTill(s, t) \/ BuildFails(s, t)
  PROVE  IInv'
<1> USE DEF rowVars, kioskVars
<1>1. /\ deployer[s] \in Work /\ Resting \in Work
      /\ \A t \in deployer[s].todo : t \in Slots
  BY DEF IInv, Typed, Work, Resting
<1>2. Screens(s) => deployer[s].verified = 0
  BY DEF IInv, HoldsLock
<1>3. CASE ReadTargets(s)
  <2> DEFINE todo == {t \in Slots : target[deployer[s].id][t] = "queued"}
             d == [deployer[s] EXCEPT !.at = "rolling", !.todo = todo]
  <2>1. deployer[s].at = "taken" /\ Screens(s)
    BY <1>3 DEF ReadTargets, Screens
  <2>2. /\ d \in Work /\ d.at = "rolling" /\ d.id = deployer[s].id
        /\ d.verified = deployer[s].verified
    BY <1>1 DEF Work
  <2>3. deployer' = [deployer EXCEPT ![s] = d]
    BY <1>3 DEF ReadTargets
  <2> HIDE DEF d
  <2> QED
    BY <1>2, <1>3, <2>1, <2>2, <2>3, GoesOn DEF ReadTargets
<1>4. CASE Announce(s)
  <2> DEFINE t == <<deployer[s].point, "r2">>
  <2>1. /\ deployer[s].at = "put" /\ Screens(s) /\ deployer[s].point \in Points
        /\ bucket[deployer[s].point].id = deployer[s].id
    BY <1>4 DEF Announce, Screens, IInv, BeforeScreens
  <2>2. t \in Slots /\ t[2] = "r2" /\ t[1] = deployer[s].point
    BY <2>1 DEF Slots
  <2>3. PICK to \in {"done", "failed"} : Settle(s, t, to)
    BY <1>4 DEF Announce
  <2> HIDE DEF t
  <2>4. PICK d \in Work :
          /\ deployer' = [deployer EXCEPT ![s] = d]
          /\ d.at = "rolling" /\ d.id = deployer[s].id /\ d.todo = deployer[s].todo \ {t}
          /\ t[2] # "jetinno" => d.verified = deployer[s].verified
    BY <2>2, <2>3, SettleIs DEF IInv
  <2>5. target' = [target EXCEPT ![deployer[s].id][t] = to]
    BY <2>3 DEF Settle
  <2> QED
    BY <1>2, <1>4, <2>1, <2>2, <2>3, <2>4, <2>5, GoesOn DEF Announce
<1>5. ASSUME NEW t \in deployer[s].todo, PutFails(s, t)
      PROVE  IInv'
  <2>1. /\ t \in Slots /\ t[2] = "r2" /\ Screens(s) /\ deployer[s].at = "rolling"
        /\ Settle(s, t, "failed")
    BY <1>1, <1>5 DEF PutFails, NextTarget, Screens
  <2>2. PICK d \in Work :
          /\ deployer' = [deployer EXCEPT ![s] = d]
          /\ d.at = "rolling" /\ d.id = deployer[s].id /\ d.todo = deployer[s].todo \ {t}
          /\ t[2] # "jetinno" => d.verified = deployer[s].verified
    BY <2>1, SettleIs DEF IInv
  <2>3. target' = [target EXCEPT ![deployer[s].id][t] = "failed"]
    BY <2>1 DEF Settle
  <2>4. "failed" \in Statuses \ {"queued"}
    BY DEF Statuses, Finished
  <2> QED
    BY <1>2, <1>5, <2>1, <2>2, <2>3, <2>4, GoesOn DEF PutFails
<1>6. ASSUME NEW t \in deployer[s].todo, RollTill(s, t)
      PROVE  IInv'
  <2>1. /\ t \in Slots /\ t[2] # "r2" /\ deployer[s].at = "rolling"
        /\ \A u \in deployer[s].todo : u[2] # "r2"
    BY <1>1, <1>6 DEF RollTill, NextTarget
  <2>2. PICK to \in {"done", "failed", "skipped"} : Settle(s, t, to)
    BY <1>6 DEF RollTill
  <2>3. PICK d \in Work :
          /\ deployer' = [deployer EXCEPT ![s] = d]
          /\ d.at = "rolling" /\ d.id = deployer[s].id /\ d.todo = deployer[s].todo \ {t}
    BY <2>1, <2>2, SettleIs DEF IInv
  <2>4. target' = [target EXCEPT ![deployer[s].id][t] = to]
    BY <2>2 DEF Settle
  <2> QED
    BY <1>6, <2>1, <2>2, <2>3, <2>4, GoesOn DEF RollTill
<1>7. ASSUME NEW t \in deployer[s].todo, BuildFails(s, t)
      PROVE  IInv'
  <2>1. "failed" \in Statuses \ {"queued"}
    BY DEF Statuses, Finished
  <2> QED
    BY <1>1, <1>7, <2>1, GoesOn DEF BuildFails, NextTarget
<1>8. CASE Finish(s)
  <2> DEFINE to == IF ~deployer[s].failed THEN "done"
                   ELSE IF ~deployer[s].done THEN "failed" ELSE "partial"
  <2>1. to \in Statuses \ {"queued"} /\ dep' = [dep EXCEPT ![deployer[s].id] = to]
    BY <1>8 DEF Statuses, Finished, Finish
  <2> HIDE DEF to
  <2> QED
    BY <1>1, <1>8, <2>1, GoesOn DEF Finish
<1>9. CASE Crash(s)
  BY <1>1, <1>9, GoesOn DEF Crash
<1> QED
  BY <1>3, <1>4, <1>5, <1>6, <1>7, <1>8, <1>9

\* The oldest deployment is taken under the lock.
LEMMA TakeKeeps ==
  ASSUME IInv, ConstantsAreSound, NEW s \in Schedulers, NEW i \in 1..Len(dep), Take(s, i)
  PROVE  IInv'
<1> DEFINE d == [Resting EXCEPT !.at = "taken", !.id = i]
<1> USE DEF rowVars, kioskVars
<1>1. /\ d \in Work /\ d.at = "taken" /\ d.id = i /\ d.todo = {} /\ d.verified = 0
      /\ i \in Nat /\ i # 0
  <2>1. i \in Nat /\ i # 0
    OBVIOUS
  <2>2. Resting \in Work /\ Resting.todo = {} /\ Resting.verified = 0
    BY DEF Work, Resting
  <2> QED
    BY <2>1, <2>2 DEF Work
<1>2. /\ jobLock = None /\ dep[i] = "queued" /\ \A j \in 1..i - 1 : dep[j] # "queued"
      /\ dep' = [dep EXCEPT ![i] = "deploying"] /\ jobLock' = s
      /\ deployer' = [deployer EXCEPT ![s] = d]
      /\ UNCHANGED <<target, acked, draft, recounts, requests, bucket, held, screen, confirmed>>
  BY DEF Take
<1> HIDE DEF d
<1>3. /\ dep' \in Seq(Statuses) /\ Len(dep') = Len(dep) /\ Len(dep) \in Nat
      /\ \A j \in 1..Len(dep) : dep'[j] = IF j = i THEN "deploying" ELSE dep[j]
  <2> DEFINE S == Statuses
  <2>1. dep \in Seq(S) /\ "deploying" \in S
    BY DEF IInv, Typed, Statuses
  <2> HIDE DEF S
  <2>2. /\ dep' \in Seq(S) /\ Len(dep') = Len(dep) /\ Len(dep) \in Nat
        /\ \A j \in 1..Len(dep) : dep'[j] = IF j = i THEN "deploying" ELSE dep[j]
    BY <1>2, <2>1, Replaced
  <2> QED
    BY <2>2 DEF S
<1>4. /\ deployer' \in [Schedulers -> Work] /\ deployer'[s] = d
      /\ \A u \in Schedulers : u # s => deployer'[u] = deployer[u]
  BY <1>1, <1>2 DEF IInv, Typed
<1>5. \A u \in Schedulers : ~Screens(u)
  BY <1>2 DEF IInv, HoldsLock, ConstantsAreSound
<1>6. \A u \in Schedulers : deployer[u].at # "idle" => deployer[u].id # i /\ deployer[u].id # 0
  BY <1>2 DEF IInv, Working
<1>7. \A u \in Schedulers : deployer[u].at = "idle" => deployer[u].id = 0
  BY DEF IInv, Working, Resting
<1>8. \A p \in Points : bucket[p].id \in Nat /\ bucket[p].id < i
  <2> SUFFICES ASSUME NEW p \in Points PROVE bucket[p].id \in Nat /\ bucket[p].id < i
    OBVIOUS
  <2>1. bucket[p].id \in Nat
    BY DEF IInv, Typed, Menu
  <2>2. CASE bucket[p].id = 0
    BY <1>1, <2>2
  <2>3. CASE bucket[p].id # 0
    <3>1. bucket[p].id \in 1..Len(dep) /\ dep[bucket[p].id] # "queued"
      BY <1>3, <2>1, <2>3 DEF IInv, BeforeScreens
    <3> QED
      BY <1>1, <1>2, <3>1 DEF IInv, QueueIsNewest
  <2> QED
    BY <2>2, <2>3
<1>9. Typed' /\ Ids'
  BY <1>2, <1>3, <1>4 DEF IInv, Typed, Ids
<1>10. Working'
  BY <1>1, <1>3, <1>4 DEF IInv, Working
<1>11. QueueIsNewest'
  <2> SUFFICES ASSUME NEW j \in 1..Len(dep), NEW k \in 1..Len(dep), j < k, dep'[j] = "queued"
               PROVE  dep'[k] = "queued"
    BY <1>3 DEF QueueIsNewest
  <2>1. j # i /\ dep[j] = "queued" /\ dep[k] = "queued"
    BY <1>3 DEF IInv, QueueIsNewest
  <2>2. i < k
    BY <1>1, <1>2, <2>1
  <2> QED
    BY <1>3, <2>1, <2>2
<1>12. OneDeployerEach'
  BY <1>1, <1>4, <1>6, <1>7 DEF IInv, OneDeployerEach
<1>13. HoldsLock'
  BY <1>1, <1>2, <1>4, <1>5 DEF IInv, HoldsLock, Screens
<1>14. BeforeScreens'
  <2>1. \A p \in Points :
          bucket[p].id # 0 => bucket[p].id <= Len(dep) /\ dep'[bucket[p].id] # "queued"
    BY <1>3, <1>8 DEF IInv, BeforeScreens
  <2>2. \A u \in Schedulers : Screens(u)' => \A p \in Points : bucket[p].id <= deployer'[u].id
    BY <1>1, <1>4, <1>5, <1>8 DEF Screens
  <2>3. \A u \in Schedulers : deployer'[u].at = "put" =>
          deployer'[u].point \in Points /\ bucket[deployer'[u].point].id = deployer'[u].id
    BY <1>1, <1>4 DEF IInv, BeforeScreens
  <2> QED
    BY <1>2, <1>3, <2>1, <2>2, <2>3 DEF BeforeScreens
<1>15. (Acks /\ DoneMeansInBucket /\ AckedMeansFetched /\ LateAckIsRestored)'
  BY <1>2, <1>3 DEF IInv, Acks, DoneMeansInBucket, AckedMeansFetched, LateAckIsRestored
<1> QED
  BY <1>9, <1>10, <1>11, <1>12, <1>13, <1>14, <1>15 DEF IInv

\* A screen is written by the one scheduler that has screens to write.
LEMMA PutMenuKeeps ==
  ASSUME IInv, ConstantsAreSound, NEW s \in Schedulers, NEW t \in deployer[s].todo,
         NEW lowered \in BOOLEAN, PutMenu(s, t, lowered)
  PROVE  IInv'
<1> DEFINE p == t[1]
           d == [deployer[s] EXCEPT !.at = "put", !.point = p]
           menu == [id |-> deployer[s].id, lowered |-> lowered]
<1> USE DEF rowVars, kioskVars
<1>1. /\ t \in Slots /\ t[2] = "r2" /\ p \in Points /\ deployer[s].at = "rolling" /\ Screens(s)
      /\ deployer[s] \in Work
  BY DEF PutMenu, NextTarget, Screens, IInv, Typed, Work, Slots
<1>2. /\ d \in Work /\ d.at = "put" /\ d.id = deployer[s].id /\ d.point = p
      /\ d.verified = deployer[s].verified
  BY <1>1 DEF Work
<1>3. /\ bucket' = [bucket EXCEPT ![p] = menu] /\ deployer' = [deployer EXCEPT ![s] = d]
      /\ UNCHANGED <<dep, target, acked, draft, jobLock, recounts, requests, held, screen,
                     confirmed>>
  BY DEF PutMenu
<1>4. menu \in Menu /\ menu.id = deployer[s].id
  BY <1>1 DEF Menu, Work
<1> HIDE DEF d, menu, p
<1>5. /\ deployer' \in [Schedulers -> Work] /\ deployer'[s] = d
      /\ \A u \in Schedulers : u # s => deployer'[u] = deployer[u]
  BY <1>2, <1>3 DEF IInv, Typed
<1>6. /\ bucket' \in [Points -> Menu] /\ bucket'[p] = menu
      /\ \A q \in Points : q # p => bucket'[q] = bucket[q]
  BY <1>1, <1>3, <1>4 DEF IInv, Typed
<1>7. jobLock = s /\ \A u \in Schedulers : u # s => ~Screens(u)
  BY <1>1 DEF IInv, HoldsLock
<1>8. \A q \in Points : /\ bucket[q].id \in Nat /\ bucket'[q].id \in Nat
                        /\ bucket[q].id <= bucket'[q].id /\ bucket'[q].id <= deployer[s].id
  <2>1. /\ \A q \in Points : bucket[q].id \in Nat /\ bucket[q].id <= deployer[s].id
        /\ deployer[s].id \in Nat
    BY <1>1 DEF IInv, BeforeScreens, Typed, Menu, Work
  <2> QED
    BY <1>4, <1>6, <2>1
<1>9. Typed' /\ Ids'
  BY <1>3, <1>5, <1>6 DEF IInv, Typed, Ids
<1>10. Working' /\ QueueIsNewest' /\ OneDeployerEach'
  BY <1>1, <1>2, <1>3, <1>5 DEF IInv, Working, QueueIsNewest, OneDeployerEach
<1>11. HoldsLock'
  <2> SUFFICES ASSUME NEW u \in Schedulers
               PROVE  /\ Screens(u)' => jobLock' = u
                      /\ deployer'[u].verified # 0 => ~Screens(u)'
    BY DEF HoldsLock
  <2>1. CASE u = s
    BY <1>1, <1>2, <1>3, <1>5, <1>7, <2>1 DEF IInv, HoldsLock
  <2>2. CASE u # s
    BY <1>3, <1>5, <2>2 DEF IInv, HoldsLock, Screens
  <2> QED
    BY <2>1, <2>2
<1>12. BeforeScreens'
  <2>1. deployer[s].id <= Len(dep) /\ dep[deployer[s].id] # "queued"
    BY <1>1 DEF IInv, Working
  <2>2. \A q \in Points :
          bucket'[q].id # 0 => bucket'[q].id <= Len(dep) /\ dep[bucket'[q].id] # "queued"
    BY <1>4, <1>6, <2>1 DEF IInv, BeforeScreens
  <2>3. \A u \in Schedulers : Screens(u)' => \A q \in Points : bucket'[q].id <= deployer'[u].id
    BY <1>2, <1>5, <1>7, <1>8 DEF Screens
  <2>4. \A u \in Schedulers : deployer'[u].at = "put" =>
          deployer'[u].point \in Points /\ bucket'[deployer'[u].point].id = deployer'[u].id
    <3>1. \A u \in Schedulers : u # s => deployer[u].at # "put"
      BY <1>7 DEF Screens
    <3> QED
      BY <1>1, <1>2, <1>4, <1>5, <1>6, <3>1
  <2> QED
    BY <1>3, <2>2, <2>3, <2>4 DEF BeforeScreens
<1>13. Acks' /\ DoneMeansInBucket'
  <2>1. \A q \in Points : held[q].id \in Nat
    BY DEF IInv, Typed, Menu
  <2>2. Acks'
    BY <1>3, <1>8, <2>1 DEF IInv, Acks
  <2>3. DoneMeansInBucket'
    BY <1>3, <1>8 DEF IInv, DoneMeansInBucket
  <2> QED
    BY <2>2, <2>3
<1>14. (AckedMeansFetched /\ LateAckIsRestored)'
  BY <1>3 DEF IInv, AckedMeansFetched, LateAckIsRestored
<1> QED
  BY <1>9, <1>10, <1>11, <1>12, <1>13, <1>14 DEF IInv

\* The lock expires: its holder has no screens to write any more.
LEMMA LockExpiresKeeps ==
  ASSUME IInv, ConstantsAreSound, LockExpires
  PROVE  IInv'
<1> USE DEF rowVars, kioskVars
<1>1. /\ jobLock' = None /\ jobLock \in Schedulers
      /\ UNCHANGED <<dep, target, acked, draft, deployer, recounts, requests, bucket, held, screen,
                     confirmed>>
  BY DEF LockExpires, IInv, Typed
<1>2. deployer[jobLock].at = "idle" \/ deployer[jobLock].verified # 0
  BY <1>1 DEF LockExpires, IInv, Typed, Work
<1>3. ~Screens(jobLock)
  BY <1>1, <1>2 DEF IInv, HoldsLock, Working, Screens, Resting
<1>4. HoldsLock'
  BY <1>1, <1>3 DEF IInv, HoldsLock, Screens
<1>5. Typed' /\ Ids'
  BY <1>1 DEF IInv, Typed, Ids
<1>6. (Working /\ QueueIsNewest /\ OneDeployerEach /\ BeforeScreens /\ Acks)'
  BY <1>1 DEF IInv, Working, QueueIsNewest, OneDeployerEach, BeforeScreens, Acks, Screens
<1>7. (DoneMeansInBucket /\ AckedMeansFetched /\ LateAckIsRestored)'
  BY <1>1 DEF IInv, DoneMeansInBucket, AckedMeansFetched, LateAckIsRestored
<1> QED
  BY <1>4, <1>5, <1>6, <1>7 DEF IInv

\* A kiosk fetches, acknowledges and draws.
LEMMA KioskKeeps ==
  ASSUME IInv, NEW p \in Points, NEW lowered \in BOOLEAN, KioskStep(p, lowered)
  PROVE  IInv'
<1> USE DEF rowVars, schedulerVars, kioskVars
<1>1. UNCHANGED <<dep, target, acked, draft, jobLock, deployer, recounts, bucket, confirmed>>
  BY DEF KioskStep, Fetch, SendAck, Draw
<1>2. /\ held \in [Points -> Menu] /\ bucket \in [Points -> Menu] /\ screen \in [Points -> Menu]
      /\ \A q \in Points : held[q].id \in Nat /\ bucket[q].id \in Nat /\ confirmed[q] \in Nat
  BY DEF IInv, Typed, Menu
<1>3. (Working /\ QueueIsNewest /\ OneDeployerEach /\ HoldsLock /\ BeforeScreens)'
  BY <1>1 DEF IInv, Working, QueueIsNewest, OneDeployerEach, HoldsLock, BeforeScreens, Screens
<1>4. DoneMeansInBucket'
  BY <1>1 DEF IInv, DoneMeansInBucket
<1>5. /\ held' \in [Points -> Menu] /\ screen' \in [Points -> Menu]
      /\ \A q \in Points : held[q].id <= held'[q].id /\ held'[q].id <= bucket[q].id
  <2> DEFINE menu == [id |-> held[p].id, lowered |-> lowered]
  <2>1. menu \in Menu /\ menu.id = held[p].id
    BY <1>2 DEF Menu
  <2>2. \A q \in Points : held[q].id <= bucket[q].id
    BY DEF IInv, Acks
  <2>3. CASE Fetch(p)
    BY <1>2, <2>2, <2>3 DEF Fetch
  <2>4. CASE SendAck(p)
    BY <1>2, <2>2, <2>4 DEF SendAck
  <2>5. CASE Draw(p, lowered)
    <3>1. held' = [held EXCEPT ![p] = menu] /\ screen' = [screen EXCEPT ![p] = menu]
      BY <2>5 DEF Draw
    <3> HIDE DEF menu
    <3> QED
      BY <1>2, <2>1, <2>2, <3>1
  <2> QED
    BY <2>3, <2>4, <2>5 DEF KioskStep
<1>6. /\ requests' \subseteq [id : Nat, point : Points, at : {"sent", "recorded"}]
      /\ requests \subseteq requests'
      /\ \A r \in requests' : /\ r.id \in 1..Len(dep) /\ r.id <= held'[r.point].id
                              /\ r.id # confirmed[r.point]
      /\ \A r, q \in requests' : r.point = q.point => r = q
  <2>1. /\ requests \subseteq [id : Nat, point : Points, at : {"sent", "recorded"}]
        /\ \A r \in requests : /\ r.id \in 1..Len(dep) /\ r.id <= held[r.point].id
                               /\ r.id # confirmed[r.point]
        /\ \A r, q \in requests : r.point = q.point => r = q
    BY DEF IInv, Typed, Ids, Acks
  <2>2. CASE requests' = requests
    <3>1. \A r \in requests : r.point \in Points /\ r.id \in Nat
      BY <2>1
    <3>2. \A q \in Points : held[q].id \in Nat /\ held'[q].id \in Nat
      BY <1>2, <1>5 DEF Menu
    <3> QED
      BY <1>5, <2>1, <2>2, <3>1, <3>2
  <2>3. CASE SendAck(p)
    <3> DEFINE new == [id |-> held[p].id, point |-> p, at |-> "sent"]
    <3>1. /\ held[p].id # 0 /\ held[p].id <= bucket[p].id
          /\ bucket[p].id <= Len(dep) /\ Len(dep) \in Nat
      BY <1>2, <2>3 DEF SendAck, IInv, Acks, BeforeScreens, Typed
    <3>2. /\ new.id = held[p].id /\ new.point = p /\ new.id \in 1..Len(dep)
          /\ new \in [id : Nat, point : Points, at : {"sent", "recorded"}]
      BY <1>2, <3>1
    <3>3. /\ requests' = requests \cup {new} /\ held' = held /\ held[p].id # confirmed[p]
          /\ \A r \in requests : r.point # p
      BY <2>3 DEF SendAck
    <3> HIDE DEF new
    <3> QED
      BY <1>2, <2>1, <3>2, <3>3
  <2> QED
    BY <2>2, <2>3 DEF KioskStep, Fetch, Draw
<1>7. Typed' /\ Ids'
  BY <1>1, <1>5, <1>6 DEF IInv, Typed, Ids
<1>8. Acks'
  BY <1>1, <1>5, <1>6 DEF Acks
<1>9. AckedMeansFetched'
  <2>1. \A i \in 1..Len(dep) : \A q \in acked[i] : q \in Points /\ i \in Nat
    BY RowTypes DEF IInv
  <2>2. \A q \in Points : held[q].id \in Nat /\ held'[q].id \in Nat
    BY <1>2, <1>5 DEF Menu
  <2> QED
    BY <1>1, <1>5, <2>1, <2>2 DEF IInv, AckedMeansFetched
<1>10. LateAckIsRestored'
  BY <1>1, <1>6 DEF IInv, LateAckIsRestored
<1> QED
  BY <1>3, <1>4, <1>7, <1>8, <1>9, <1>10 DEF IInv

\* An acknowledgement arrives in two statements, or is lost.
LEMMA ApiKeeps ==
  ASSUME IInv, NEW request \in requests,
         RecordAck(request) \/ RestoreAcked(request) \/ LoseAck(request)
  PROVE  IInv'
<1> DEFINE i == request.id
           p == request.point
           t == <<p, "r2">>
<1> USE DEF rowVars, schedulerVars, kioskVars
<1>1. /\ i \in 1..Len(dep) /\ p \in Points /\ i <= held[p].id /\ i # confirmed[p] /\ t \in Slots
      /\ i \in Nat /\ i <= Len(dep)
  BY DEF IInv, Typed, Ids, Acks, Slots
<1>2. UNCHANGED <<dep, draft, jobLock, deployer, bucket, held, screen>>
  BY DEF RecordAck, RestoreAcked, LoseAck
<1>3. (Working /\ QueueIsNewest /\ OneDeployerEach /\ HoldsLock /\ BeforeScreens)'
  BY <1>2 DEF IInv, Working, QueueIsNewest, OneDeployerEach, HoldsLock, BeforeScreens, Screens
<1>4. CASE RecordAck(request)
  <2> DEFINE new == [request EXCEPT !.at = "recorded"]
             row == IF target[i][t] # "none" THEN acked[i] \cup {p} ELSE acked[i]
  <2>1. /\ new.id = i /\ new.point = p
        /\ new \in [id : Nat, point : Points, at : {"sent", "recorded"}]
    BY DEF IInv, Typed
  <2>2. /\ requests' = (requests \ {request}) \cup {new} /\ acked' = [acked EXCEPT ![i] = row]
        /\ UNCHANGED <<target, recounts, confirmed>>
    BY <1>4 DEF RecordAck
  <2>3. row \in SUBSET Points /\ acked[i] \subseteq row /\ row \subseteq acked[i] \cup {p}
    BY <1>1, RowTypes DEF IInv
  <2> HIDE DEF new, row, i, p, t
  <2>4. /\ acked' \in Seq(SUBSET Points) /\ Len(acked') = Len(acked)
        /\ \A j \in 1..Len(dep) : acked'[j] = IF j = i THEN row ELSE acked[j]
    BY <1>1, <2>2, <2>3, Replaced DEF IInv, Typed
  <2>5. Typed' /\ Ids'
    BY <1>1, <1>2, <2>1, <2>2, <2>4 DEF IInv, Typed, Ids
  <2>6. Acks'
    BY <1>1, <1>2, <2>1, <2>2 DEF IInv, Acks, i, p
  <2>7. DoneMeansInBucket'
    BY <1>2, <2>2 DEF IInv, DoneMeansInBucket
  <2>8. AckedMeansFetched'
    BY <1>1, <1>2, <2>3, <2>4 DEF IInv, AckedMeansFetched
  <2>9. LateAckIsRestored'
    <3>1. \A r \in requests : \E q \in requests' : q.id = r.id /\ q.point = r.point
      BY <2>1, <2>2 DEF i, p
    <3>2. new \in requests'
      BY <2>2
    <3> SUFFICES ASSUME NEW j \in 1..Len(dep), NEW q \in Points,
                        target[j][<<q, "r2">>] = "unacked", q \in acked'[j]
                 PROVE  \/ \E r \in requests' : r.id = j /\ r.point = q
                        \/ confirmed[q] # j
      BY <1>2, <2>2 DEF LateAckIsRestored
    <3>3. CASE q \in acked[j]
      BY <3>1, <3>3 DEF IInv, LateAckIsRestored
    <3>4. CASE q \notin acked[j]
      <4>1. j = i /\ q = p
        BY <2>3, <2>4, <3>4
      <4> QED
        BY <2>1, <3>2, <4>1
    <3> QED
      BY <3>3, <3>4
  <2> QED
    BY <1>3, <2>5, <2>6, <2>7, <2>8, <2>9 DEF IInv
<1>5. CASE RestoreAcked(request) \/ LoseAck(request)
  <2>1. /\ requests' = requests \ {request} /\ acked' = acked
        /\ recounts' \subseteq recounts \cup {i}
    BY <1>5 DEF RestoreAcked, LoseAck
  <2>2. \/ UNCHANGED confirmed
        \/ confirmed' = [confirmed EXCEPT ![p] = i] /\ RestoreAcked(request)
    BY <1>5 DEF RestoreAcked, LoseAck
  <2>3. /\ confirmed' \in [Points -> Nat] /\ confirmed'[p] \in {confirmed[p], i}
        /\ \A q \in Points : q # p => confirmed'[q] = confirmed[q]
    <3>1. confirmed \in [Points -> Nat] /\ p \in Points /\ i \in Nat
      BY <1>1 DEF IInv, Typed
    <3> HIDE DEF i, p
    <3>2. CASE UNCHANGED confirmed
      BY <3>1, <3>2
    <3>3. CASE confirmed' = [confirmed EXCEPT ![p] = i]
      BY <3>1, <3>3
    <3> QED
      BY <2>2, <3>2, <3>3
  <2>4. /\ target' \in Seq(Targets) /\ Len(target') = Len(target)
        /\ \A j \in 1..Len(dep), u \in Slots :
             \/ target'[j][u] = target[j][u] /\ (RestoreAcked(request) /\ j = i /\ u = t =>
                                                   target[j][u] # "unacked")
             \/ j = i /\ u = t /\ target[j][u] = "unacked" /\ target'[j][u] = "done"
    <3>1. CASE target' = target /\ (RestoreAcked(request) => target[i][t] # "unacked")
      BY <3>1 DEF IInv, Typed
    <3>2. CASE target[i][t] = "unacked" /\ target' = [target EXCEPT ![i][t] = "done"]
      <4> HIDE DEF i, p, t
      <4>0. Gets(i, t, "done") /\ Typed
        BY <3>2 DEF Gets, IInv
      <4>1. /\ target' \in Seq(Targets) /\ Len(target') = Len(target)
            /\ \A j \in 1..Len(dep) : \A u \in Slots :
                 target'[j][u] = IF j = i /\ u = t THEN "done" ELSE target[j][u]
        BY <1>1, <4>0, OneTarget
      <4> QED
        BY <3>2, <4>1
    <3>3. CASE LoseAck(request) /\ ~RestoreAcked(request)
      BY <3>3 DEF LoseAck, IInv, Typed
    <3>4. RestoreAcked(request) =>
            \/ target' = target /\ target[i][t] # "unacked"
            \/ target[i][t] = "unacked" /\ target' = [target EXCEPT ![i][t] = "done"]
      BY DEF RestoreAcked
    <3> QED
      BY <1>5, <3>1, <3>2, <3>3, <3>4
  <2> HIDE DEF i, p, t
  <2>5. Typed' /\ Ids'
    <3>1. Typed'
      BY <1>2, <2>1, <2>3, <2>4 DEF IInv, Typed
    <3>2. \A q \in Points : confirmed'[q] <= Len(dep)
      BY <1>1, <2>3 DEF IInv, Ids
    <3> QED
      BY <1>1, <1>2, <2>1, <3>1, <3>2 DEF IInv, Ids
  <2>6. Acks'
    <3>1. \A r \in requests : r # request => r.point # p /\ r.point \in Points
      BY DEF IInv, Acks, Typed, p
    <3> QED
      BY <1>2, <2>1, <2>3, <3>1 DEF IInv, Acks
  <2>7. \A q \in Points : <<q, "r2">> \in Slots
    BY DEF Slots
  <2>8. DoneMeansInBucket'
    BY <1>2, <2>4, <2>7 DEF IInv, DoneMeansInBucket
  <2>9. AckedMeansFetched'
    BY <1>2, <2>1 DEF IInv, AckedMeansFetched
  <2>10. LateAckIsRestored'
    <3> SUFFICES ASSUME NEW j \in 1..Len(dep), NEW q \in Points,
                        target'[j][<<q, "r2">>] = "unacked", q \in acked[j]
                 PROVE  \/ \E r \in requests' : r.id = j /\ r.point = q
                        \/ confirmed'[q] # j
      BY <1>2, <2>1 DEF LateAckIsRestored
    <3>1. /\ target[j][<<q, "r2">>] = "unacked"
          /\ RestoreAcked(request) /\ j = i => <<q, "r2">> # t
      BY <2>4, <2>7
    <3>2. CASE q = p /\ j = i
      <4>1. ~RestoreAcked(request)
        BY <3>1, <3>2 DEF t
      <4>2. confirmed' = confirmed
        BY <2>2, <4>1
      <4> QED
        BY <1>1, <3>2, <4>2
    <3>3. CASE q = p /\ j # i
      BY <1>1, <2>1, <2>3, <3>1, <3>3 DEF IInv, LateAckIsRestored, i
    <3>4. CASE q # p
      BY <2>1, <2>3, <3>1, <3>4 DEF IInv, LateAckIsRestored, p
    <3> QED
      BY <3>2, <3>3, <3>4
  <2> QED
    BY <1>3, <2>5, <2>6, <2>8, <2>9, <2>10 DEF IInv
<1> QED
  BY <1>4, <1>5

\* The overseer fails what nobody acknowledged and counts again.
LEMMA OverseerKeeps ==
  ASSUME IInv, OverseerStep \/ \E i \in recounts : LoseRecount(i)
  PROVE  IInv'
<1> USE DEF rowVars, schedulerVars, kioskVars
<1>1. /\ UNCHANGED <<acked, draft, jobLock, deployer, requests, bucket, held, screen, confirmed>>
      /\ recounts' \subseteq recounts \cup 1..Len(dep)
  BY DEF OverseerStep, MarkUnacked, Recount, LoseRecount
<1>2. /\ dep' \in Seq(Statuses) /\ Len(dep') = Len(dep) /\ Len(dep) \in Nat
      /\ \A i \in 1..Len(dep) : dep'[i] = "queued" <=> dep[i] = "queued"
  <2>1. CASE dep' = dep
    BY <2>1 DEF IInv, Typed
  <2>2. ASSUME NEW i \in recounts, Recount(i), dep' # dep
        PROVE  /\ dep' \in Seq(Statuses) /\ Len(dep') = Len(dep) /\ Len(dep) \in Nat
               /\ \A j \in 1..Len(dep) : dep'[j] = "queued" <=> dep[j] = "queued"
    <3> DEFINE to == StatusOf(i)
               S == Statuses
    <3>1. to \in S /\ to # "queued"
      BY DEF StatusOf, Statuses, Finished
    <3>2. dep' = [dep EXCEPT ![i] = to] /\ dep[i] # "queued" /\ dep \in Seq(S) /\ i \in 1..Len(dep)
      BY <2>2 DEF Recount, Finished, IInv, Typed, Ids
    <3> HIDE DEF to, S
    <3>3. /\ dep' \in Seq(S) /\ Len(dep') = Len(dep) /\ Len(dep) \in Nat
          /\ \A j \in 1..Len(dep) : dep'[j] = IF j = i THEN to ELSE dep[j]
      BY <3>1, <3>2, Replaced
    <3> QED
      BY <3>1, <3>2, <3>3 DEF S
  <2> QED
    BY <2>1, <2>2 DEF OverseerStep, MarkUnacked, LoseRecount
<1>3. /\ target' \in Seq(Targets) /\ Len(target') = Len(target)
      /\ \A i \in 1..Len(dep), p \in Points :
           \/ target'[i][<<p, "r2">>] = target[i][<<p, "r2">>]
           \/ target[i][<<p, "r2">>] = "done" /\ p \notin acked[i]
  <2>1. CASE target' = target
    BY <2>1 DEF IInv, Typed
  <2>2. ASSUME NEW overdue \in SUBSET (1..Len(dep)), MarkUnacked(overdue)
        PROVE  /\ target' \in Seq(Targets) /\ Len(target') = Len(target)
               /\ \A i \in 1..Len(dep), p \in Points :
                    \/ target'[i][<<p, "r2">>] = target[i][<<p, "r2">>]
                    \/ target[i][<<p, "r2">>] = "done" /\ p \notin acked[i]
    <3> DEFINE new(i) == [t \in Slots |-> IF t[2] = "r2" /\ t[1] \in Unacked(i) THEN "unacked"
                                          ELSE target[i][t]]
               S == Targets
    <3>1. target' = [i \in 1..Len(target) |-> IF i \in overdue THEN new(i) ELSE target[i]]
      BY <2>2 DEF MarkUnacked
    <3>2. Len(target) = Len(dep) /\ Len(dep) \in Nat /\ \A i \in 1..Len(dep) : target[i] \in S
      BY RowTypes DEF IInv, Typed
    <3>3. \A i \in 1..Len(dep) : new(i) \in S
      BY <3>2 DEF Targets
    <3>4. \A i \in 1..Len(dep), p \in Points :
            \/ new(i)[<<p, "r2">>] = target[i][<<p, "r2">>]
            \/ target[i][<<p, "r2">>] = "done" /\ p \notin acked[i]
      BY DEF Slots, Unacked
    <3> HIDE DEF new, S
    <3>5. \A i \in 1..Len(dep) : target'[i] = IF i \in overdue THEN new(i) ELSE target[i]
      BY <3>1, <3>2
    <3>6. target' \in Seq(S) /\ Len(target') = Len(target)
      BY <3>1, <3>2, <3>3
    <3> QED
      BY <3>4, <3>5, <3>6 DEF S
  <2> QED
    BY <2>1, <2>2 DEF OverseerStep, Recount, LoseRecount
<1>4. Typed' /\ Ids'
  BY <1>1, <1>2, <1>3 DEF IInv, Typed, Ids
<1>5. Working' /\ QueueIsNewest' /\ OneDeployerEach' /\ HoldsLock'
  BY <1>1, <1>2 DEF IInv, Working, QueueIsNewest, OneDeployerEach, HoldsLock, Screens
<1>6. BeforeScreens'
  <2>1. \A p \in Points : bucket[p].id \in Nat
    BY DEF IInv, Typed, Menu
  <2> QED
    BY <1>1, <1>2, <2>1 DEF IInv, BeforeScreens, Screens
<1>7. Acks' /\ AckedMeansFetched'
  BY <1>1, <1>2 DEF IInv, Acks, AckedMeansFetched
<1>8. DoneMeansInBucket'
  <2> SUFFICES ASSUME NEW i \in 1..Len(dep), NEW p \in Points,
                      target'[i][<<p, "r2">>] \in {"done", "unacked"}
               PROVE  bucket[p].id >= i
    BY <1>1, <1>2 DEF DoneMeansInBucket
  <2> QED
    BY <1>3 DEF IInv, DoneMeansInBucket
<1>9. LateAckIsRestored'
  <2> SUFFICES ASSUME NEW i \in 1..Len(dep), NEW p \in Points,
                      target'[i][<<p, "r2">>] = "unacked", p \in acked[i]
               PROVE  (\E r \in requests : r.id = i /\ r.point = p) \/ confirmed[p] # i
    BY <1>1, <1>2 DEF LateAckIsRestored
  <2> QED
    BY <1>3 DEF IInv, LateAckIsRestored
<1> QED
  BY <1>4, <1>5, <1>6, <1>7, <1>8, <1>9 DEF IInv

\* Every step keeps the invariant.
LEMMA StepIInv == ConstantsAreSound /\ IInv /\ [Next]_rolloutVars => IInv'
<1> SUFFICES ASSUME ConstantsAreSound, IInv, [Next]_rolloutVars PROVE IInv'
  OBVIOUS
<1> DEFINE Drafts == [id : Nat, points : Seq(Points), machine : BOOLEAN]
<1>1. draft \in Drafts /\ draft.id <= Len(dep) + 1 /\ Len(dep) \in Nat
      /\ (draft # NoDraft => draft.points # << >> /\ draft.id # 0)
  BY DEF IInv, Typed, Ids
<1>2. ASSUME NEW p \in Points, EnqueueDiscount(p) PROVE IInv'
  BY <1>1, <1>2, NewDeploymentKeeps DEF EnqueueDiscount
<1>3. CASE EnqueueRefresh
  BY <1>1, <1>3, NewDeploymentKeeps DEF EnqueueRefresh
<1>4. ASSUME NEW points \in Lists, AdminInsert(points) PROVE IInv'
  <2>1. points \in Seq(Points) /\ points # << >>
    BY DEF ConstantsAreSound
  <2>2. /\ draft' \in Drafts /\ draft'.id <= Len(dep) + 1
        /\ draft'.points # << >> /\ draft'.id # 0
    BY <1>1, <1>4, <2>1 DEF AdminInsert
  <2> QED
    BY <1>4, <2>2, NewDeploymentKeeps DEF AdminInsert
<1>5. CASE AdminTargets \/ AdminGone
  BY <1>5, AdminKeeps
<1>6. ASSUME NEW s \in Schedulers, NEW lowered \in BOOLEAN, DeployStep(s, lowered) PROVE IInv'
  BY <1>6, TakeKeeps, PutMenuKeeps, JobKeeps DEF DeployStep
<1>7. ASSUME NEW s \in Schedulers, Crash(s) PROVE IInv'
  BY <1>7, JobKeeps
<1>8. CASE LockExpires
  BY <1>8, LockExpiresKeeps
<1>9. ASSUME NEW p \in Points, NEW lowered \in BOOLEAN, KioskStep(p, lowered) PROVE IInv'
  BY <1>9, KioskKeeps
<1>10. CASE ApiStep \/ \E request \in requests : LoseAck(request)
  BY <1>10, ApiKeeps DEF ApiStep
<1>11. CASE OverseerStep \/ \E i \in recounts : LoseRecount(i)
  BY <1>11, OverseerKeeps
<1>12. CASE UNCHANGED rolloutVars
  <2>1. UNCHANGED <<dep, target, acked, draft, jobLock, deployer, recounts, requests, bucket,
                    held, screen, confirmed>>
    BY <1>12 DEF rolloutVars
  <2>2. Typed' /\ Ids'
    BY <2>1 DEF IInv, Typed, Ids
  <2>3. (Working /\ QueueIsNewest /\ OneDeployerEach /\ HoldsLock /\ BeforeScreens)'
    BY <2>1 DEF IInv, Working, QueueIsNewest, OneDeployerEach, HoldsLock, BeforeScreens, Screens
  <2>4. (Acks /\ DoneMeansInBucket /\ AckedMeansFetched /\ LateAckIsRestored)'
    BY <2>1 DEF IInv, Acks, DoneMeansInBucket, AckedMeansFetched, LateAckIsRestored
  <2> QED
    BY <2>2, <2>3, <2>4 DEF IInv
<1> QED
  BY <1>2, <1>3, <1>4, <1>5, <1>6, <1>7, <1>8, <1>9, <1>10, <1>11, <1>12
     DEF Next, AdminStep, Failure

\* The invariant holds of every behaviour.
LEMMA Inductive ==
  ASSUME ConstantsAreSound
  PROVE  Safety => []IInv
<1>1. Init => IInv
  BY InitIInv
<1>2. IInv /\ [Next]_rolloutVars => IInv'
  BY StepIInv
<1> QED
  BY <1>1, <1>2, PTL DEF Safety

\* Types of the rows, of the scheduler and of the kiosks.
THEOREM TypeCorrect ==
  ASSUME ConstantsAreSound
  PROVE  Safety => []TypeOK
<1>1. IInv => TypeOK
  <2> SUFFICES ASSUME IInv PROVE TypeOK
    OBVIOUS
  <2>1. /\ dep \in Seq(Statuses) /\ Len(dep) \in Nat
        /\ deployer \in [Schedulers -> Work]
        /\ draft \in [id : Nat, points : Seq(Points), machine : BOOLEAN]
    BY DEF IInv, Typed
  <2>2. \A s \in Schedulers : deployer[s].id \in 0..Len(dep)
    BY <2>1 DEF IInv, Working, Resting, Work
  <2>3. deployer \in [Schedulers ->
          [at : {"idle", "taken", "rolling", "put"}, id : 0..Len(dep),
           todo : SUBSET Slots, point : Points \cup {None},
           done : BOOLEAN, failed : BOOLEAN, verified : Nat]]
    BY <2>1, <2>2 DEF Work
  <2>4. draft \in [id : 0..Len(dep), points : Seq(Points), machine : BOOLEAN]
    BY <2>1 DEF IInv, Ids
  <2>5. /\ requests \subseteq [id : 1..Len(dep), point : Points, at : {"sent", "recorded"}]
        /\ confirmed \in [Points -> 0..Len(dep)]
    BY <2>1 DEF IInv, Typed, Ids
  <2> QED
    BY <2>3, <2>4, <2>5 DEF TypeOK, IInv, Typed, Ids, Statuses, Targets
<1> QED
  BY <1>1, Inductive, PTL

\* Two copies of the scheduler never carry out the same deployment, though the
\* lock in Redis may expire under either (scheduler/jobs/menu.js takeNext).
THEOREM EachHasItsOwn ==
  ASSUME ConstantsAreSound
  PROVE  Safety => []OneDeployerEach
<1>1. IInv => OneDeployerEach
  BY DEF IInv
<1> QED
  BY <1>1, Inductive, PTL

\* What the row of a screen says is in the bucket, or something newer is: a menu is
\* never written over a newer one.
THEOREM DoneIsInBucket ==
  ASSUME ConstantsAreSound
  PROVE  Safety => []DoneMeansInBucket
<1>1. IInv => DoneMeansInBucket
  BY DEF IInv
<1> QED
  BY <1>1, Inductive, PTL

\* An acknowledged menu, or a newer one, is on the disk of its kiosk.
THEOREM AckedWasFetched ==
  ASSUME ConstantsAreSound
  PROVE  Safety => []AckedMeansFetched
<1>1. IInv => AckedMeansFetched
  BY DEF IInv
<1> QED
  BY <1>1, Inductive, PTL

\* An acknowledgement that came after the overseer had given the target up still
\* counts: it is on its way to restore the target, or the kiosk will repeat it.
THEOREM LateAckCounts ==
  ASSUME ConstantsAreSound
  PROVE  Safety => []LateAckIsRestored
<1>1. IInv => LateAckIsRestored
  BY DEF IInv
<1> QED
  BY <1>1, Inductive, PTL

\* What a step does to the statuses: one is added, or one goes on.
LEMMA DepSteps ==
  ASSUME IInv, [Next]_rolloutVars
  PROVE  \/ dep' = dep \/ dep' = Append(dep, "queued")
         \/ \E i \in 1..Len(dep), to \in Statuses \ {"queued"} :
              /\ dep' = [dep EXCEPT ![i] = to]
              /\ to = "deploying" => dep[i] = "queued"
<1> USE DEF rowVars
<1> DEFINE Goes(i, to) == /\ to # "queued" /\ dep' = [dep EXCEPT ![i] = to]
                          /\ to = "deploying" => dep[i] = "queued"
           Any == \/ dep' = dep \/ dep' = Append(dep, "queued")
                  \/ \E i \in 1..Len(dep), to \in Statuses : Goes(i, to)
<1>1. \A s \in Schedulers : deployer[s].at # "idle" => deployer[s].id \in 1..Len(dep)
  BY DEF IInv, Working
<1>2. /\ {"deploying", "failed", "done", "partial"} \subseteq Statuses
      /\ recounts \subseteq 1..Len(dep)
  BY DEF Statuses, Finished, IInv, Ids
<1>3. ASSUME NEW p \in Points, EnqueueDiscount(p) PROVE Any
  BY <1>3 DEF EnqueueDiscount, NewDeployment
<1>4. CASE AdminStep
  BY <1>4 DEF AdminStep, EnqueueRefresh, AdminInsert, AdminTargets, NewDeployment
<1>5. ASSUME NEW s \in Schedulers, NEW lowered \in BOOLEAN, DeployStep(s, lowered) PROVE Any
  <2>1. ASSUME NEW i \in 1..Len(dep), Take(s, i) PROVE Any
    BY <1>2, <2>1 DEF Take
  <2>2. CASE ReadTargets(s) \/ Announce(s)
    BY <2>2 DEF ReadTargets, Announce
  <2>3. ASSUME NEW t \in deployer[s].todo, PutMenu(s, t, lowered) \/ RollTill(s, t) PROVE Any
    BY <2>3 DEF PutMenu, RollTill
  <2>4. ASSUME NEW t \in deployer[s].todo, PutFails(s, t) \/ BuildFails(s, t) PROVE Any
    BY <1>1, <1>2, <2>4 DEF PutFails, BuildFails, NextTarget
  <2>5. CASE Finish(s)
    <3> DEFINE to == IF ~deployer[s].failed THEN "done"
                     ELSE IF ~deployer[s].done THEN "failed" ELSE "partial"
    <3>1. to \in Statuses /\ to \notin {"queued", "deploying"}
      BY <1>2
    <3>2. dep' = [dep EXCEPT ![deployer[s].id] = to] /\ deployer[s].id \in 1..Len(dep)
      BY <1>1, <2>5 DEF Finish
    <3> HIDE DEF to
    <3> QED
      BY <3>1, <3>2
  <2> QED
    BY <1>5, <2>1, <2>2, <2>3, <2>4, <2>5 DEF DeployStep
<1>6. CASE LockExpires \/ ApiStep \/ Failure
  BY <1>6 DEF LockExpires, ApiStep, Failure, RecordAck, RestoreAcked, LoseAck, LoseRecount, Crash,
              AdminGone
<1>7. ASSUME NEW p \in Points, NEW lowered \in BOOLEAN, KioskStep(p, lowered) PROVE Any
  BY <1>7 DEF KioskStep, Fetch, SendAck, Draw
<1>8. CASE OverseerStep
  <2>1. ASSUME NEW i \in recounts, Recount(i) PROVE Any
    <3>1. StatusOf(i) \in Statuses /\ StatusOf(i) \notin {"queued", "deploying"}
      BY <1>2 DEF StatusOf
    <3> QED
      BY <1>2, <2>1, <3>1 DEF Recount
  <2> QED
    BY <1>8, <2>1 DEF OverseerStep, MarkUnacked
<1>9. CASE UNCHANGED rolloutVars
  BY <1>9 DEF rolloutVars
<1> QED
  BY <1>3, <1>4, <1>5, <1>6, <1>7, <1>8, <1>9 DEF Next

\* A deployment never returns to the queue and a finished one is not begun again.
THEOREM NoneGoesBack ==
  ASSUME ConstantsAreSound
  PROVE  Safety => DeploymentsGoForward
<1>1. IInv /\ [Next]_rolloutVars => [GoForward]_rolloutVars
  <2> SUFFICES ASSUME IInv, [Next]_rolloutVars PROVE GoForward
    OBVIOUS
  <2> DEFINE S == Statuses
  <2>1. dep \in Seq(S) /\ Len(dep) \in Nat /\ \A i \in 1..Len(dep) : dep[i] \in S
    BY RowTypes DEF IInv, Typed
  <2>2. /\ \A st \in S : Rank[st] \in 0..2
        /\ \A st \in S \ {"queued", "deploying"} : Rank[st] = 2
        /\ Rank["queued"] = 0 /\ Rank["deploying"] = 1 /\ {"queued", "deploying"} \subseteq S
    BY DEF Statuses, Finished, Rank
  <2> HIDE DEF S
  <2>3. CASE dep' = dep
    BY <2>1, <2>2, <2>3 DEF GoForward
  <2>4. CASE dep' = Append(dep, "queued")
    <3>1. Len(dep) <= Len(dep') /\ \A i \in 1..Len(dep) : dep'[i] = dep[i]
      BY <2>1, <2>2, <2>4, Longer
    <3> QED
      BY <2>1, <2>2, <3>1 DEF GoForward
  <2>5. ASSUME NEW i \in 1..Len(dep), NEW to \in S, to # "queued",
               dep' = [dep EXCEPT ![i] = to], to = "deploying" => dep[i] = "queued"
        PROVE  GoForward
    <3>1. Len(dep') = Len(dep) /\ \A j \in 1..Len(dep) : dep'[j] = IF j = i THEN to ELSE dep[j]
      BY <2>1, <2>5, Replaced
    <3>2. Rank[dep[i]] <= Rank[to]
      BY <2>1, <2>2, <2>5
    <3> QED
      BY <2>1, <2>2, <3>1, <3>2 DEF GoForward
  <2> QED
    BY <2>3, <2>4, <2>5, DepSteps DEF S
<1> QED
  BY <1>1, Inductive, PTL DEF Safety, DeploymentsGoForward

\* Where there is no coffee machine nothing outlives the lock: no target is a machine's, so
\* none is verified, and every scheduler at work holds the lock.
NoMachine ==
  /\ ~draft.machine
  /\ \A i \in 1..Len(dep), p \in Points : target[i][<<p, "jetinno">>] = "none"
  /\ \A s \in Schedulers :
       /\ deployer[s].verified = 0 /\ \A t \in deployer[s].todo : t[2] # "jetinno"
       /\ deployer[s].at # "idle" => jobLock = s

\* A step of a scheduler keeps that.
LEMMA NoMachineGoesOn ==
  ASSUME ConstantsAreSound, IInv, NoMachine, NEW s \in Schedulers, NEW d,
         deployer' = [deployer EXCEPT ![s] = d],
         d.verified = 0, \A t \in d.todo : t[2] # "jetinno",
         d.at # "idle" => jobLock \in {None, s} /\ jobLock' = s,
         deployer[s].at # "idle" \/ jobLock = None,
         jobLock' \in {jobLock, None, s}
  PROVE  \A u \in Schedulers :
           /\ deployer'[u].verified = 0 /\ \A t \in deployer'[u].todo : t[2] # "jetinno"
           /\ deployer'[u].at # "idle" => jobLock' = u
<1>1. /\ deployer'[s] = d /\ \A u \in Schedulers : u # s => deployer'[u] = deployer[u]
  BY DEF IInv, Typed
<1>2. \A u \in Schedulers : u # s => deployer[u].at = "idle"
  BY DEF NoMachine, ConstantsAreSound
<1> QED
  BY <1>1, <1>2 DEF NoMachine

\* Nor does any other step bring a machine in.
LEMMA StepNoMachine ==
  ASSUME ConstantsAreSound, Machines = {}, IInv, NoMachine, [Next]_rolloutVars
  PROVE  NoMachine'
<1> USE DEF rowVars, schedulerVars, kioskVars
<1> DEFINE Tills == \A i \in 1..Len(dep), p \in Points : target[i][<<p, "jetinno">>] = "none"
           AtWork == \A s \in Schedulers :
                       /\ deployer[s].verified = 0 /\ \A t \in deployer[s].todo : t[2] # "jetinno"
                       /\ deployer[s].at # "idle" => jobLock = s
<1>1. /\ dep \in Seq(Statuses) /\ target \in Seq(Targets)
      /\ Len(target) = Len(dep) /\ Len(dep) \in Nat
      /\ deployer \in [Schedulers -> Work] /\ Tills /\ AtWork /\ ~draft.machine
      /\ jobLock \in Schedulers \cup {None} /\ None \notin Schedulers
  BY DEF IInv, Typed, NoMachine, ConstantsAreSound
<1>2. \A p \in Points : <<p, "jetinno">> \in Slots /\ <<p, "jetinno">>[2] = "jetinno"
  BY DEF Slots
<1>3. \A s \in Schedulers : /\ deployer[s].todo \subseteq Slots
                            /\ deployer[s].at # "idle" => deployer[s].id \in 1..Len(dep)
  BY <1>1 DEF Work, IInv, Working
<1>4. Resting.verified = 0 /\ Resting.todo = {} /\ Resting.at = "idle"
  BY DEF Resting
<1>5. ASSUME NEW rows, NewDeployment(rows), \A p \in Points : <<p, "jetinno">> \notin rows
      PROVE  Tills'
  <2> DEFINE new == [t \in Slots |-> IF t \in rows THEN "queued" ELSE "none"]
             S == Targets
             R == Statuses
  <2>1. new \in S /\ \A p \in Points : new[<<p, "jetinno">>] = "none"
    BY <1>2, <1>5 DEF Targets
  <2>2. dep' = Append(dep, "queued") /\ target' = Append(target, new) /\ "queued" \in R
    BY <1>5 DEF NewDeployment, Statuses
  <2> HIDE DEF new, S, R
  <2>3. Len(dep') = Len(target) + 1
    BY <1>1, <2>2, Longer DEF R
  <2>4. /\ 1..Len(dep') = 1..Len(target) \cup {Len(target) + 1}
        /\ target'[Len(target) + 1] = new /\ \A i \in 1..Len(target) : target'[i] = target[i]
    BY <1>1, <2>1, <2>2, <2>3, Longer DEF S
  <2> SUFFICES ASSUME NEW i \in 1..Len(dep'), NEW p \in Points
               PROVE  target'[i][<<p, "jetinno">>] = "none"
    OBVIOUS
  <2>5. CASE i \in 1..Len(target)
    BY <1>1, <2>4, <2>5
  <2>6. CASE i = Len(target) + 1
    BY <2>1, <2>4, <2>6
  <2> QED
    BY <2>4, <2>5, <2>6
<1>6. ASSUME NEW p \in Points, EnqueueDiscount(p) PROVE NoMachine'
  <2>1. \A q \in Points : <<q, "jetinno">> \notin SlotsOf(p)
    BY DEF SlotsOf
  <2> QED
    BY <1>1, <1>5, <1>6, <2>1 DEF EnqueueDiscount, NoMachine
<1>7. CASE EnqueueRefresh
  <2>1. \A q \in Points : <<q, "jetinno">> \notin Points \X {"r2"}
    OBVIOUS
  <2> QED
    BY <1>1, <1>5, <1>7, <2>1 DEF EnqueueRefresh, NoMachine
<1>8. ASSUME NEW points \in Lists, AdminInsert(points) PROVE NoMachine'
  <2>1. ~draft'.machine
    BY <1>8 DEF AdminInsert
  <2> QED
    BY <1>1, <1>5, <1>8, <2>1 DEF AdminInsert, NoMachine
<1>9. CASE AdminTargets \/ AdminGone
  <2>1. ~draft'.machine /\ UNCHANGED <<dep, deployer, jobLock>>
    <3>1. \/ draft' = NoDraft \/ draft' = [draft EXCEPT !.points = Tail(@), !.machine = FALSE]
      BY <1>9 DEF AdminTargets, AdminGone
    <3>2. draft \in [id : Nat, points : Seq(Points), machine : BOOLEAN] /\ ~NoDraft.machine
      BY DEF IInv, Typed, NoDraft
    <3> QED
      BY <1>9, <3>1, <3>2 DEF AdminTargets, AdminGone
  <2>2. \A i \in 1..Len(dep), p \in Points :
          target'[i][<<p, "jetinno">>] = target[i][<<p, "jetinno">>]
    <3>1. CASE AdminGone
      BY <3>1 DEF AdminGone
    <3>2. CASE AdminTargets
      <4> DEFINE p == Head(draft.points)
                 rows == {<<p, "r2">>, <<p, "checkbox">>}
                 new == [t \in Slots |-> IF t \in rows THEN "queued" ELSE target[draft.id][t]]
                 S == Targets
      <4>1. target' = [target EXCEPT ![draft.id] = new]
        BY <1>1, <3>2 DEF AdminTargets
      <4>2. \A q \in Points : new[<<q, "jetinno">>] = target[draft.id][<<q, "jetinno">>]
        BY <1>2
      <4>3. draft.id \in 1..Len(target) /\ target[draft.id] \in S
        BY <1>1, <3>2, RowTypes DEF AdminTargets, IInv, Ids, Typed
      <4>4. new \in S /\ target \in Seq(S)
        BY <1>1, <4>3 DEF Targets
      <4> HIDE DEF new, S
      <4>5. \A i \in 1..Len(target) : target'[i] = IF i = draft.id THEN new ELSE target[i]
        BY <4>1, <4>3, <4>4, Replaced
      <4> QED
        BY <1>1, <4>2, <4>5
    <3> QED
      BY <1>9, <3>1, <3>2
  <2> QED
    BY <1>1, <2>1, <2>2 DEF NoMachine
<1>10. ASSUME NEW s \in Schedulers, NEW lowered \in BOOLEAN, DeployStep(s, lowered) PROVE NoMachine'
  <2> DEFINE SameTills == \A i \in 1..Len(dep), p \in Points :
                            target'[i][<<p, "jetinno">>] = target[i][<<p, "jetinno">>]
  <2>1. /\ deployer[s] \in Work /\ deployer[s].verified = 0
        /\ \A t \in deployer[s].todo : t \in Slots /\ t[2] # "jetinno"
        /\ deployer[s].at # "idle" => jobLock = s /\ deployer[s].id \in 1..Len(dep)
    BY <1>1, <1>3
  <2>2. ASSUME NEW i \in 1..Len(dep), Take(s, i) PROVE SameTills /\ AtWork'
    <3> DEFINE d == [Resting EXCEPT !.at = "taken", !.id = i]
    <3>1. d.verified = 0 /\ d.todo = {}
      BY <1>4
    <3>2. /\ jobLock = None /\ jobLock' = s /\ deployer' = [deployer EXCEPT ![s] = d]
          /\ UNCHANGED target
      BY <2>2 DEF Take
    <3> HIDE DEF d
    <3> QED
      BY <3>1, <3>2, NoMachineGoesOn
  <2>3. ASSUME ReadTargets(s) PROVE SameTills /\ AtWork'
    <3> DEFINE todo == {t \in Slots : target[deployer[s].id][t] = "queued"}
               d == [deployer[s] EXCEPT !.at = "rolling", !.todo = todo]
    <3>1. d.verified = 0 /\ d.todo = todo
      BY <2>1 DEF Work
    <3>2. /\ deployer[s].at # "idle" /\ deployer' = [deployer EXCEPT ![s] = d]
          /\ UNCHANGED <<target, jobLock>>
      BY <2>3 DEF ReadTargets
    <3>3. \A t \in todo : t[2] # "jetinno"
      <4> SUFFICES ASSUME NEW t \in todo, t[2] = "jetinno" PROVE FALSE
        OBVIOUS
      <4>1. t[1] \in Points /\ t = <<t[1], "jetinno">>
        BY DEF Slots
      <4> QED
        BY <1>1, <2>1, <3>2, <4>1
    <3> HIDE DEF d, todo
    <3> QED
      BY <2>1, <3>1, <3>2, <3>3, NoMachineGoesOn
  <2>4. ASSUME NEW t \in Slots, t[2] # "jetinno", deployer[s].at # "idle", jobLock' = jobLock,
               NEW to \in {"done", "failed", "skipped"}, Settle(s, t, to)
        PROVE  SameTills /\ AtWork'
    <3>1. PICK d \in Work :
            /\ deployer' = [deployer EXCEPT ![s] = d]
            /\ d.at = "rolling" /\ d.id = deployer[s].id /\ d.todo = deployer[s].todo \ {t}
            /\ t[2] # "jetinno" => d.verified = deployer[s].verified
      BY <2>4, SettleIs DEF IInv
    <3>2. AtWork'
      BY <2>1, <2>4, <3>1, NoMachineGoesOn
    <3>3. Gets(deployer[s].id, t, to) /\ Typed /\ deployer[s].id \in 1..Len(dep)
      BY <2>1, <2>4 DEF Gets, IInv, Settle
    <3>4. \A i \in 1..Len(dep) : \A u \in Slots :
            target'[i][u] = IF i = deployer[s].id /\ u = t THEN to ELSE target[i][u]
      BY <3>3, OneTarget
    <3> QED
      BY <1>2, <2>4, <3>2, <3>4
  <2>5. ASSUME NEW t \in deployer[s].todo, PutFails(s, t) \/ RollTill(s, t)
        PROVE  SameTills /\ AtWork'
    <3>1. /\ t \in Slots /\ t[2] # "jetinno" /\ deployer[s].at # "idle" /\ jobLock' = jobLock
          /\ \E to \in {"done", "failed", "skipped"} : Settle(s, t, to)
      BY <2>1, <2>5 DEF PutFails, RollTill, NextTarget
    <3> QED
      BY <2>4, <3>1
  <2>6. ASSUME Announce(s) PROVE SameTills /\ AtWork'
    <3> DEFINE t == <<deployer[s].point, "r2">>
    <3>1. /\ t \in Slots /\ t[2] # "jetinno" /\ deployer[s].at # "idle" /\ jobLock' = jobLock
          /\ \E to \in {"done", "failed", "skipped"} : Settle(s, t, to)
      BY <2>6 DEF Announce, IInv, BeforeScreens, Slots
    <3> HIDE DEF t
    <3> QED
      BY <2>4, <3>1
  <2>7. ASSUME NEW t \in deployer[s].todo, PutMenu(s, t, lowered) PROVE SameTills /\ AtWork'
    <3> DEFINE d == [deployer[s] EXCEPT !.at = "put", !.point = t[1]]
    <3>1. d.verified = 0 /\ d.todo = deployer[s].todo
      BY <2>1 DEF Work
    <3>2. /\ deployer[s].at # "idle" /\ deployer' = [deployer EXCEPT ![s] = d]
          /\ UNCHANGED <<target, jobLock>>
      BY <2>7 DEF PutMenu, NextTarget
    <3> HIDE DEF d
    <3> QED
      BY <2>1, <3>1, <3>2, NoMachineGoesOn
  <2>8. ASSUME Finish(s) \/ \E t \in deployer[s].todo : BuildFails(s, t)
        PROVE  SameTills /\ AtWork'
    <3>1. /\ deployer[s].at # "idle" /\ deployer' = [deployer EXCEPT ![s] = Resting]
          /\ UNCHANGED target /\ jobLock' \in {jobLock, None, s}
      BY <2>8 DEF Finish, BuildFails, NextTarget, Free
    <3> QED
      BY <1>4, <3>1, NoMachineGoesOn
  <2>9. SameTills /\ AtWork'
    BY <1>10, <2>2, <2>3, <2>5, <2>6, <2>7, <2>8 DEF DeployStep
  <2>10. UNCHANGED draft /\ Len(dep') = Len(dep)
    <3>1. UNCHANGED draft
      BY <1>10 DEF DeployStep, Take, ReadTargets, PutMenu, PutFails, RollTill, BuildFails, Announce,
                   Finish
    <3>2. CASE \E i \in 1..Len(dep) : Take(s, i)
      BY <1>1, <3>2 DEF Take
    <3>3. CASE \/ ReadTargets(s) \/ Announce(s)
               \/ \E t \in deployer[s].todo : PutMenu(s, t, lowered) \/ RollTill(s, t)
      BY <3>3 DEF ReadTargets, Announce, PutMenu, RollTill
    <3>4. CASE \E t \in deployer[s].todo : PutFails(s, t) \/ BuildFails(s, t)
      BY <1>1, <3>4 DEF PutFails, BuildFails
    <3>5. CASE Finish(s)
      BY <1>1, <3>5 DEF Finish
    <3> QED
      BY <1>10, <3>1, <3>2, <3>3, <3>4, <3>5 DEF DeployStep
  <2> QED
    BY <1>1, <2>9, <2>10 DEF NoMachine
<1>11. ASSUME NEW s \in Schedulers, Crash(s) PROVE NoMachine'
  <2>1. jobLock' \in {jobLock, None, s} /\ deployer' = [deployer EXCEPT ![s] = Resting]
        /\ deployer[s].at # "idle" /\ UNCHANGED <<dep, target, draft>>
    BY <1>11 DEF Crash
  <2>2. AtWork'
    BY <1>4, <2>1, NoMachineGoesOn
  <2> QED
    BY <1>1, <2>1, <2>2 DEF NoMachine
<1>12. CASE LockExpires
  <2>1. /\ jobLock' = None /\ jobLock \in Schedulers /\ deployer[jobLock].at = "idle"
        /\ UNCHANGED <<dep, target, draft, deployer>>
    BY <1>1, <1>12 DEF LockExpires
  <2> QED
    BY <1>1, <2>1 DEF NoMachine
<1>13. ASSUME NEW p \in Points, NEW lowered \in BOOLEAN, KioskStep(p, lowered) PROVE NoMachine'
  BY <1>1, <1>13 DEF KioskStep, Fetch, SendAck, Draw, NoMachine
<1>14. ASSUME NEW request \in requests,
              RecordAck(request) \/ RestoreAcked(request) \/ LoseAck(request)
       PROVE NoMachine'
  <2>1. UNCHANGED <<dep, draft, deployer, jobLock>>
    BY <1>14 DEF RecordAck, RestoreAcked, LoseAck
  <2>2. \A i \in 1..Len(dep), p \in Points :
          target'[i][<<p, "jetinno">>] = target[i][<<p, "jetinno">>]
    <3> DEFINE t == <<request.point, "r2">>
    <3>1. request.id \in 1..Len(dep) /\ t \in Slots
      BY DEF IInv, Ids, Typed, Slots
    <3>2. CASE target' = target
      BY <3>2
    <3>3. CASE target' = [target EXCEPT ![request.id][t] = "done"]
      <4>1. Gets(request.id, t, "done") /\ Typed
        BY <3>3 DEF Gets, IInv
      <4>2. \A i \in 1..Len(dep) : \A u \in Slots :
              target'[i][u] = IF i = request.id /\ u = t THEN "done" ELSE target[i][u]
        BY <3>1, <4>1, OneTarget
      <4> QED
        BY <1>2, <4>2
    <3> QED
      BY <1>14, <3>2, <3>3 DEF RecordAck, RestoreAcked, LoseAck
  <2> QED
    BY <1>1, <2>1, <2>2 DEF NoMachine
<1>15. CASE OverseerStep \/ \E i \in recounts : LoseRecount(i)
  <2>1. UNCHANGED <<draft, deployer, jobLock>>
    BY <1>15 DEF OverseerStep, MarkUnacked, Recount, LoseRecount
  <2>2. Len(dep') = Len(dep)
    BY <1>1, <1>15 DEF OverseerStep, MarkUnacked, Recount, LoseRecount
  <2>3. \A i \in 1..Len(dep), p \in Points :
          target'[i][<<p, "jetinno">>] = target[i][<<p, "jetinno">>]
    <3>1. CASE target' = target
      BY <3>1
    <3>2. ASSUME NEW overdue \in SUBSET (1..Len(dep)), MarkUnacked(overdue),
                 NEW i \in 1..Len(dep), NEW p \in Points
          PROVE  target'[i][<<p, "jetinno">>] = target[i][<<p, "jetinno">>]
      <4>1. target'[i] = IF i \in overdue
              THEN [t \in Slots |-> IF t[2] = "r2" /\ t[1] \in Unacked(i) THEN "unacked"
                                    ELSE target[i][t]]
              ELSE target[i]
        BY <1>1, <3>2 DEF MarkUnacked
      <4> QED
        BY <1>2, <4>1
    <3> QED
      BY <1>15, <3>1, <3>2 DEF OverseerStep, Recount, LoseRecount
  <2> QED
    BY <1>1, <2>1, <2>2, <2>3 DEF NoMachine
<1>16. CASE UNCHANGED rolloutVars
  BY <1>16 DEF rolloutVars, NoMachine
<1> QED
  BY <1>6, <1>7, <1>8, <1>9, <1>10, <1>11, <1>12, <1>13, <1>14, <1>15, <1>16
     DEF Next, AdminStep, ApiStep, Failure

\* It holds at the start, and it is what keeps two schedulers from rolling out at once.
LEMMA NoMachineAtATime == (Init => NoMachine) /\ (NoMachine => OneRolloutAtATime)
BY DEF Init, NoMachine, NoDraft, Resting, OneRolloutAtATime

\* Where no point has a coffee machine, a second copy of the scheduler cannot take the next
\* deployment while one is being carried out (scheduler/index.js:44-46).  With machines the
\* lock may expire under a scheduler that verifies them.
THEOREM OneAtATimeWithoutMachines ==
  ASSUME ConstantsAreSound, Machines = {}
  PROVE  Safety => []OneRolloutAtATime
<1>1. IInv /\ NoMachine /\ [Next]_rolloutVars => NoMachine'
  BY StepNoMachine
<1> QED
  BY <1>1, NoMachineAtATime, Inductive, PTL DEF Safety
=============================================================================
