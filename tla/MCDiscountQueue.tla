-------------------------- MODULE MCDiscountQueue --------------------------
(***************************************************************************)
(* Small instances of DiscountQueue and of MenuRollout, which a behaviour  *)
(* runs one of (part).                                                     *)
(*                                                                         *)
(* Of the queue at most MaxRung receipts are on their way and MaxFailed    *)
(* targets are failed at once; the targets of deployments that lower no    *)
(* price are left alone: the queue does not read them.  There are at most  *)
(* MaxDeployments deployments.                                             *)
(*                                                                         *)
(* The rollout has two deployments, either at one point without a machine  *)
(* or at two points with one; there the kiosks stay offline, the overseer  *)
(* down and the targets without failures.  What a menu costs does not      *)
(* matter, so no menu carries a discount.  BothSpec runs the two together. *)
(***************************************************************************)
EXTENDS DiscountQueue, FiniteSets

CONSTANTS latte, MaxDeployments, MaxRung, MaxFailed

VARIABLES
  part,
  dep, target, acked, draft, jobLock, deployer, recounts, requests, bucket, held, screen,
  confirmed

\* The first discount holds for any drink, as the oldest rows do; the others
\* for one drink each.
MCDrinkOf == [d \in Discounts |-> IF d = 1 THEN AnyDrink ELSE latte]

\* The variables of MenuRollout, in the order of the module.
OnePoint == INSTANCE MenuRollout WITH
       Points <- {"kyiv"}, Machines <- {}, Lists <- {<<"kyiv">>}, Schedulers <- {"s1", "s2"}

TwoPoints == INSTANCE MenuRollout WITH
       Points <- {"kyiv", "lviv"}, Machines <- {"kyiv", "lviv"}, Lists <- {<<"kyiv", "lviv">>},
       Schedulers <- {"s1", "s2"}

menus == <<dep, target, acked, draft, jobLock, deployer, recounts, requests, bucket, held, screen,
           confirmed>>

ASSUME MenusAreSound == OnePoint!ConstantsAreSound /\ TwoPoints!ConstantsAreSound

MCInit ==
  /\ Init
  /\ \/ part \in {"queue", "one point"} /\ OnePoint!Init
     \/ part = "two points" /\ TwoPoints!Init

Queueing ==
  /\ part = "queue" /\ NextWithAdmin
  /\ Cardinality(rung') <= MaxRung
  /\ Cardinality(r2Failed') <= MaxFailed
  /\ \A i \in r2Failed' : causes'[i] \in Discounts
  /\ Len(causes') <= MaxDeployments
  /\ UNCHANGED <<part, menus>>

Few(points) ==
  /\ Len(dep') <= 2
  /\ \A p \in points : ~bucket'[p].lowered
  /\ UNCHANGED <<part, vars>>
RollingOut == part = "one point" /\ OnePoint!Next /\ Few({"kyiv"})
Scheduling ==
  /\ part = "two points" /\ TwoPoints!Next /\ Few({"kyiv", "lviv"})
  /\ UNCHANGED held
  /\ \A i \in 1..Len(dep') : \A t \in TwoPoints!Slots : target'[i][t] \in {"none", "queued", "done"}

MCNext == Queueing \/ RollingOut \/ Scheduling
MCSpec == MCInit /\ [][MCNext]_<<part, menus, vars>>

\* One discount and its menu together.  Here a receipt is the end of a discount
\* before its time; the tills always take the menu.  The kiosk is offline after
\* it fetched the menu of deployment 1, which the liveness is about.
Both == INSTANCE DiscountRollout WITH
       Discounts <- {1}, Paid <- {1}, Drinks <- {latte}, DrinkOf <- [d \in {1} |-> latte],
       Point <- "kyiv", Machines <- {}, Scheduler <- "s1"

Together ==
  /\ part = "both" /\ Both!Next
  /\ Cardinality(rung') <= MaxRung
  /\ held'["kyiv"].id <= 1
  /\ \A i \in 1..Len(dep') : target'[i][<<"kyiv", "checkbox">>] \in {"queued", "done"}
  /\ UNCHANGED <<part, r2Failed>>
BothInit == part = "both" /\ r2Failed = {} /\ Both!Init
BothSpec == BothInit /\ [][Together]_<<part, menus, vars>> /\ Both!Fairness

\* Two copies of the scheduler do not roll out at the same time, and never the
\* same deployment though the lock may expire while a machine is verified; what
\* counts as carried out is in the bucket; and an acknowledgement that came too
\* late still counts in the end (MenuRollout).
MenusComeInTurn ==
  /\ part = "one point" => /\ OnePoint!OneRolloutAtATime /\ OnePoint!DoneMeansInBucket
                           /\ OnePoint!LateAckIsRestored
  /\ part = "two points" => TwoPoints!OneDeployerEach

\* The rollout is what the queue takes for granted, and a paid discount settles
\* (DiscountRollout).
KeepsQueue == Both!KeepsQueue
PaidDiscountSettles == Both!PaidDiscountSettles
=============================================================================
