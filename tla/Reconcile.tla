------------------------------ MODULE Reconcile ------------------------------
(***************************************************************************)
(* The cups a coffee machine says it has sold against the receipts of the  *)
(* cash register (scheduler/jobs/jetinno.js, reconcile): each order looks  *)
(* for a receipt of its own near in time, over the last day; and the       *)
(* orders that failed against the money given back (overseer/src/checks.js,*)
(* checkFailedOrders).                                                     *)
(*                                                                         *)
(* The machine makes one cup at a time.  A receipt is of the moment a cup  *)
(* is paid for, an order of the moment it is done or has failed; the       *)
(* portal tells of the orders at the next poll.                            *)
(***************************************************************************)
EXTENDS Integers, Sequences, FiniteSets

CONSTANTS MakeTime,     \* from the payment to the order
          Match,        \* MATCH_S
          OrderGrace,   \* ORDER_GRACE_S
          ReceiptGrace, \* RECEIPT_GRACE_S
          Day,          \* 24 hours
          PollEvery,    \* JETINNO_TELEMETRY_MIN
          Kinds,        \* of cups: <<pay type, comes out, has a receipt>>
          MaxCups,      \* bound
          Horizon       \* bound

VARIABLES now,
          cups,         \* in their order: [paid, done, pay, ok, fiscal]
          polled,       \* when machine_orders were last taken over
          refunded      \* the cups whose receipt has a return

reconcileVars == <<now, cups, polled, refunded>>

Init == now = 0 /\ cups = <<>> /\ polled = 0 /\ refunded = {}

Abs(x) == IF x < 0 THEN -x ELSE x
IsFree == \A i \in DOMAIN cups : cups[i].done <= now

---------------------------------------------------------------------------

(* One in the world is paid for; whether it comes out, and whether the     *)
(* register makes a receipt, is for the world to say.                      *)
Buy(pay, ok, fiscal) ==
  /\ Len(cups) < MaxCups /\ IsFree
  /\ cups' = Append(cups, [paid |-> now, done |-> now + MakeTime, pay |-> pay, ok |-> ok, fiscal |-> fiscal])
  /\ UNCHANGED <<now, polled, refunded>>

(* syncOrders of a pass *)
Poll ==
  /\ polled < now
  /\ polled' = now
  /\ UNCHANGED <<now, cups, refunded>>

(* receipt_returns: the money of a cup that failed is given back. *)
Refund(i) ==
  /\ ~ cups[i].ok /\ cups[i].fiscal /\ cups[i].done <= now /\ i \notin refunded
  /\ refunded' = refunded \cup {i}
  /\ UNCHANGED <<now, cups, polled>>

TimePasses ==
  /\ now < Horizon /\ now - polled < PollEvery
  /\ now' = now + 1
  /\ UNCHANGED <<cups, polled, refunded>>

Next ==
  \/ \E k \in Kinds : Buy(k[1], k[2], k[3])
  \/ \E i \in DOMAIN cups : Refund(i)
  \/ Poll \/ TimePasses

Spec == Init /\ [][Next]_reconcileVars

---------------------------------------------------------------------------
(* reconcile, in the pass that has just polled *)

Listed(t) == t > now - Day - Match
InDay(t) == t > now - Day

Orders == {i \in DOMAIN cups : cups[i].done <= polled /\ Listed(cups[i].done)}
Receipts == {i \in DOMAIN cups : cups[i].fiscal /\ cups[i].paid <= now /\ Listed(cups[i].paid)}

Apart(i, r) == Abs(cups[r].paid - cups[i].done)

(* The nearest one that is free, the first of two. *)
Nearest(i, free) ==
  LET near == {r \in free : Apart(i, r) <= Match}
      best == {r \in near : \A s \in near : Apart(i, r) <= Apart(i, s)}
  IN {r \in best : \A s \in best : r <= s}

Free(taken) == Receipts \ taken

(* What the first i orders of the list have taken, one after the other *)
TakenBy ==
  LET f[i \in 0 .. Len(cups)] ==
        IF i = 0 THEN {}
        ELSE IF i \in Orders THEN f[i - 1] \cup Nearest(i, Free(f[i - 1])) ELSE f[i - 1]
  IN f
Taken == TakenBy[Len(cups)]
Paired(i) == Nearest(i, Free(TakenBy[i - 1])) # {}

NoReceipt ==
  {i \in Orders : cups[i].pay = "card" /\ InDay(cups[i].done) /\ ~ Paired(i) /\ now - cups[i].done > OrderGrace}
NoOrder ==
  {r \in Receipts : InDay(cups[r].paid) /\ r \notin Taken /\ now - cups[r].paid > ReceiptGrace}

(* checkFailedOrders: the receipt nearest in time, whoever's it is *)
ReceiptOf(i) == Nearest(i, {r \in DOMAIN cups : cups[r].fiscal /\ cups[r].paid <= now})
Failed == {i \in DOMAIN cups : cups[i].done <= polled /\ ~ cups[i].ok /\ cups[i].pay = "card" /\ ReceiptOf(i) # {}}
Says(i) == IF ReceiptOf(i) \subseteq refunded THEN "ok" ELSE "unrefunded"

---------------------------------------------------------------------------

TypeOK ==
  /\ now \in 0 .. Horizon /\ polled \in 0 .. now
  /\ Len(cups) <= MaxCups /\ refunded \subseteq DOMAIN cups

AllFiscal == \A i \in DOMAIN cups : cups[i].fiscal
(* the edge of the list falls between a receipt and its order *)
CutByTheEdge == \E i \in DOMAIN cups : Listed(cups[i].done) /\ ~ Listed(cups[i].paid)
Fresh == polled = now

(* Red is only a real one: while each cup has its receipt, no order is     *)
(* without a receipt and no receipt without an order, as long as the edge  *)
(* of the list does not part a pair, and cups are not sold without a pause *)
(* for as long as Match (jetinno.js:80-91).                                *)
RedIsReal == (Fresh /\ AllFiscal /\ ~ CutByTheEdge) => NoReceipt = {} /\ NoOrder = {}

(* Less receipts than orders are seen: a receipt stands for one order only,*)
(* so that each missing one shows once the grace of the orders is over.    *)
MissingShows ==
  (Fresh /\ \A i \in DOMAIN cups : cups[i].pay = "card" /\ InDay(cups[i].paid) /\ now - cups[i].done > OrderGrace) =>
    Cardinality(NoReceipt) >= Cardinality({i \in DOMAIN cups : ~ cups[i].fiscal})

(* Of a failed cup that was sold alone the overseer says what is true.     *)
Alone(i) == \A r \in DOMAIN cups \ {i} : Apart(i, r) > Match
RefundIsSeenAlone == \A i \in Failed : Alone(i) => (Says(i) = "ok") = (i \in refunded)

ReconcileIsTrue == RedIsReal /\ MissingShows /\ RefundIsSeenAlone

(* "both lists are taken with MATCH_S beyond the edge of the day, and a     *)
(* pair that the edge has parted meets all the same" (jetinno.js:85-87).   *)
PartedPairsMeet == (Fresh /\ AllFiscal) => NoReceipt = {} /\ NoOrder = {}

(* "Returned: there is a receipt_returns of this receipt" (checks.js:445-  *)
(* 446): who buys again at once after a failed cup has two receipts, and   *)
(* the nearer one is the second.                                           *)
RefundIsSeen == \A i \in Failed : i \in refunded => Says(i) = "ok"
=============================================================================
