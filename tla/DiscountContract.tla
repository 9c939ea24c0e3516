-------------------------- MODULE DiscountContract --------------------------
(***************************************************************************)
(* What the discount queue of a point promises to the people at it, as     *)
(* docs/gamification_economy.md tells it and backend/lib/src/discounts.js  *)
(* does it: a discount waits its turn, has the point for itself, makes     *)
(* room for the oldest one waiting, and its beans may come back once.      *)
(***************************************************************************)
EXTENDS Integers

CONSTANTS Discounts, Paid

VARIABLES
  waiting,   \* discounts in the queue
  active,    \* the discount that holds the point, as a set
  over,      \* discounts that had their turn
  refunds    \* how often the beans of a discount came back

contractVars == <<waiting, active, over, refunds>>

Init ==
  /\ waiting = {}
  /\ active = {}
  /\ over = {}
  /\ refunds = [d \in Discounts |-> 0]

\* d is the oldest of the set S.
Oldest(d, S) == d \in S /\ \A e \in S : d <= e

\* A new discount starts at once on a free point and queues on a busy one.
Join(d) ==
  /\ d \in Discounts \ (waiting \cup active \cup over)
  /\ \/ /\ active = {}
        /\ waiting = {}
        /\ active' = {d}
        /\ UNCHANGED waiting
     \/ /\ active # {}
        /\ waiting' = waiting \cup {d}
        /\ UNCHANGED active
  /\ UNCHANGED <<over, refunds>>

\* The active discount ends and the oldest one waiting takes over.
HandOver ==
  /\ active # {}
  /\ over' = over \cup active
  /\ \/ waiting = {} /\ active' = {} /\ UNCHANGED waiting
     \/ \E d \in waiting : /\ Oldest(d, waiting)
                           /\ active' = {d}
                           /\ waiting' = waiting \ {d}

Stay == UNCHANGED <<waiting, active, over>>

\* The beans of the discounts in S come back, for the first time.
PayBack(S) ==
  /\ S \subseteq Paid \cap over'
  /\ \A d \in S : refunds[d] = 0
  /\ refunds' = [d \in Discounts |-> IF d \in S THEN 1 ELSE refunds[d]]

Next ==
  \/ \E d \in Discounts : Join(d)
  \/ \E S \in SUBSET Paid : (HandOver \/ Stay) /\ PayBack(S)

Spec == Init /\ [][Next]_contractVars
=============================================================================
