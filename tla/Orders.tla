------------------------------- MODULE Orders -------------------------------
(***************************************************************************)
(* Orders for beans: the checkout and the print of a player                *)
(* (routes/delivery.js), the status an admin sets (routes/admin-ops.js)    *)
(* and the hourly tracking of Nova Poshta (jobs/novaposhta.js), which      *)
(* reads the open orders, asks the carrier, and writes one order after the *)
(* other.  Every write is a transaction under the lock of its row.         *)
(***************************************************************************)
EXTENDS Integers, Sequences, FiniteSets, SequencesExt

CONSTANTS
  OrderIds,       \* orders that may be placed
  Printed,        \* those whose product is printed (a cup, a T-shirt)
  Beans,          \* how many orders the player can pay
  Limit,          \* orders of one pass of the tracking (100 in the code)
  Posts,          \* POST .../print that one order may have on their way
  AdminStatuses,  \* statuses an admin picks in the run
  MaxAdmin        \* changes by an admin

Finished == {"received", "returned", "cancelled"}
Statuses == {"new", "printing", "packing", "shipped", "arrived"} \union Finished

ConstantsAreSound ==
  /\ Printed \subseteq OrderIds /\ AdminStatuses \subseteq Statuses
  /\ Beans \in Nat /\ Limit \in Nat \ {0} /\ MaxAdmin \in Nat

NoOrder == [status |-> "none", ttn |-> FALSE, key |-> FALSE]
Idle == [at |-> "idle", read |-> <<>>, left |-> {}, code |-> <<>>]

VARIABLES
  beans,          \* what the player has left, in orders
  order,          \* the table redemptions
  byChange,       \* orders by status_changed_at, the oldest first
  lastEvent,      \* order -> status of its newest row of redemption_events
  lastTold,       \* order -> status of the newest notice and event to the player
  uploaded,       \* orders whose print is in the bucket
  headed,         \* POST .../print that has seen the file and not yet written
  printReady,     \* order -> events order_print_ready sent to the owner
  parcel,         \* order -> what the carrier says
  pass,           \* the tracking pass that is on
  changes         \* changes by an admin so far

orderVars == <<beans, order, byChange, lastEvent, lastTold, uploaded, headed,
               printReady, parcel, pass, changes>>

Init ==
  /\ beans = Beans /\ order = [o \in OrderIds |-> NoOrder] /\ byChange = <<>>
  /\ lastEvent = [o \in OrderIds |-> "none"] /\ lastTold = [o \in OrderIds |-> "none"]
  /\ uploaded = {} /\ headed = {} /\ printReady = [o \in OrderIds |-> 0]
  /\ parcel = [o \in OrderIds |-> "none"] /\ pass = Idle /\ changes = 0

-----------------------------------------------------------------------------
(* a write of a status, with its event and its notice in one transaction *)

Touched(o) == Append(SelectSeq(byChange, LAMBDA x : x # o), o)

Write(o, status) ==
  /\ byChange' = Touched(o)
  /\ lastEvent' = [lastEvent EXCEPT ![o] = status]
  /\ lastTold' = [lastTold EXCEPT ![o] = status]

(* POST /me/redemptions *)
PlaceOrder(o) ==
  /\ order[o] = NoOrder /\ beans > 0
  /\ beans' = beans - 1
  /\ order' = [order EXCEPT ![o].status = "new"]
  /\ Write(o, "new")
  /\ UNCHANGED <<uploaded, headed, printReady, parcel, pass, changes>>

(* the application uploads the print by the signed link *)
UploadPrint(o) ==
  /\ o \in Printed /\ order[o] # NoOrder /\ o \notin uploaded
  /\ uploaded' = uploaded \union {o}
  /\ UNCHANGED <<beans, order, byChange, lastEvent, lastTold, headed, printReady, parcel, pass, changes>>

(* POST /me/redemptions/:id/print: HEAD of the file, then the transaction; *)
(* the key is written, and the owner told, by the first of several         *)
HeadPrint(o) ==
  /\ o \in uploaded /\ \E n \in Posts : <<o, n>> \notin headed /\ headed' = headed \union {<<o, n>>}
  /\ UNCHANGED <<beans, order, byChange, lastEvent, lastTold, uploaded, printReady, parcel, pass, changes>>

\* A plausible bug: the update forgets "and print_r2_key is null".
KeepsKeyNever(o) == order[o] # NoOrder

KeepsKey(o) == ~order[o].key

RecordPrint(o, n) ==
  /\ <<o, n>> \in headed /\ headed' = headed \ {<<o, n>>}
  /\ IF KeepsKey(o)
     THEN /\ order' = [order EXCEPT ![o].key = TRUE]
          /\ printReady' = [printReady EXCEPT ![o] = @ + 1]
     ELSE UNCHANGED <<order, printReady>>
  /\ UNCHANGED <<beans, byChange, lastEvent, lastTold, uploaded, parcel, pass, changes>>

-----------------------------------------------------------------------------
(* POST /admin/orders/:id/status: any status, also the one it has; only a  *)
(* change moves status_changed_at and is told to the player                *)

StatusAllowed(o, status) == status = "printing" => o \in Printed

AdminSets(o, status, ttn) ==
  /\ changes < MaxAdmin /\ changes' = changes + 1
  /\ order[o] # NoOrder /\ StatusAllowed(o, status)
  /\ order' = [order EXCEPT ![o].status = status, ![o].ttn = @ \/ ttn]
  /\ IF order[o].status # status THEN Write(o, status)
     ELSE lastEvent' = [lastEvent EXCEPT ![o] = status] /\ UNCHANGED <<byChange, lastTold>>
  /\ UNCHANGED <<beans, uploaded, headed, printReady, parcel, pass>>

-----------------------------------------------------------------------------
(* the carrier *)

ParcelMoves(o) ==
  /\ order[o].ttn
  /\ \E to \in {"moving", "arrived", "received", "returned"} :
       /\ <<parcel[o], to>> \in {<<"none", "moving">>, <<"moving", "arrived">>,
            <<"arrived", "received">>, <<"arrived", "returned">>}
       /\ parcel' = [parcel EXCEPT ![o] = to]
  /\ UNCHANGED <<beans, order, byChange, lastEvent, lastTold, uploaded, headed, printReady, pass, changes>>

-----------------------------------------------------------------------------
(* trackShipments *)

JobOnly == UNCHANGED <<beans, uploaded, headed, printReady, parcel, changes>>
NoWrite == UNCHANGED <<order, byChange, lastEvent, lastTold>>

\* A plausible bug: a parcel that has arrived counts as delivered.
TrackedToBranch(o) == order[o].ttn /\ order[o].status \notin Finished \union {"arrived"}

Tracked(o) == order[o].ttn /\ order[o].status \notin Finished
Batch == LET open == SelectSeq(byChange, Tracked)
         IN  ToSet(SubSeq(open, 1, IF Len(open) < Limit THEN Len(open) ELSE Limit))

PassBegins ==
  /\ pass = Idle /\ Batch # {}
  /\ pass' = [Idle EXCEPT !.at = "asking", !.read = [o \in Batch |-> order[o].status], !.left = Batch]
  /\ NoWrite /\ JobOnly

(* getStatusDocuments answers for all of them at once *)
CarrierAnswers ==
  /\ pass.at = "asking"
  /\ pass' = [pass EXCEPT !.at = "writing", !.code = [o \in pass.left |-> parcel[o]]]
  /\ NoWrite /\ JobOnly

CarrierFails == pass.at = "asking" /\ pass' = Idle /\ NoWrite /\ JobOnly

(* STATUS_BY_CODE; an order is moved when the carrier's status is not the  *)
(* one the pass has read, whatever the row says by now                     *)
Known == {"arrived", "received", "returned"}
MovesOn(o) == pass.code[o] \in Known /\ pass.code[o] # pass.read[o]

Done(o) == pass' = IF pass.left = {o} THEN Idle ELSE [pass EXCEPT !.left = @ \ {o}]

WriteItem(o) ==
  /\ pass.at = "writing" /\ o \in pass.left /\ MovesOn(o)
  /\ order' = [order EXCEPT ![o].status = pass.code[o]]
  /\ Write(o, pass.code[o])
  /\ Done(o) /\ JobOnly

(* nothing to write, or the transaction was rolled back *)
SkipItem(o) == pass.at = "writing" /\ o \in pass.left /\ ~MovesOn(o) /\ Done(o) /\ NoWrite /\ JobOnly
ItemFails(o) == pass.at = "writing" /\ o \in pass.left /\ MovesOn(o) /\ Done(o) /\ NoWrite /\ JobOnly

-----------------------------------------------------------------------------
Next ==
  \/ PassBegins \/ CarrierAnswers \/ CarrierFails
  \/ \E o \in OrderIds :
       \/ PlaceOrder(o) \/ UploadPrint(o) \/ HeadPrint(o)
       \/ \E n \in Posts : RecordPrint(o, n)
       \/ \E s \in AdminStatuses, t \in BOOLEAN : AdminSets(o, s, t)
       \/ ParcelMoves(o) \/ WriteItem(o) \/ SkipItem(o) \/ ItemFails(o)

Spec == Init /\ [][Next]_orderVars

(* the hourly job runs for ever, and neither the carrier nor the database  *)
(* refuses every time                                                      *)
Fairness ==
  /\ WF_orderVars(PassBegins) /\ SF_orderVars(CarrierAnswers)
  /\ \A o \in OrderIds : SF_orderVars(WriteItem(o)) /\ WF_orderVars(SkipItem(o))

FairSpec == Spec /\ Fairness

-----------------------------------------------------------------------------
TypeOK ==
  /\ beans \in 0..Beans /\ changes \in 0..MaxAdmin
  /\ order \in [OrderIds -> [status: Statuses \union {"none"}, ttn: BOOLEAN, key: BOOLEAN]]
  /\ uploaded \subseteq OrderIds /\ headed \subseteq OrderIds \X Posts
  /\ ToSet(byChange) = {o \in OrderIds : order[o] # NoOrder}

(* Whoever writes last, an admin or a tracking pass that read the order    *)
(* long before: the history of the order and the last notice to the player *)
(* tell the status it has, and the owner gets a finished print exactly     *)
(* once (admin-ops.js:752, "історія замовлення не має розходитися з його   *)
(* станом"; delivery.js:275-286).                                          *)
EveryoneIsTold ==
  \A o \in OrderIds :
    /\ lastEvent[o] = order[o].status /\ lastTold[o] = order[o].status
    /\ printReady[o] = (IF order[o].key THEN 1 ELSE 0)

(* A parcel that was handed out, or sent back, closes its order, although  *)
(* passes fail, statuses are set by hand meanwhile, and the pass compares  *)
(* with what it read before it asked (novaposhta.js:111-163).              *)
DeliveryIsNoticed ==
  \A o \in OrderIds : []<>(parcel[o] \in {"received", "returned"} => order[o].status \in Finished)

(* A finished order is not opened again by the tracking: what an admin has *)
(* closed while the carrier was asked stays closed ("Завершені більше не   *)
(* турбуємо", novaposhta.js:109).                                          *)
FinishedStaysFinished ==
  [][\A o \in OrderIds : WriteItem(o) => order[o].status \notin Finished]_orderVars

(* What makes EveryoneIsTold inductive: every write of a status writes the *)
(* event and the notice with it, so only the types are missing.  An order  *)
(* that does not exist has the status "none" in all three places, and the  *)
(* carrier's word is written only when it is a status (Known).             *)
OrderStatus == Statuses \union {"none"}
Row == [status: OrderStatus, ttn: BOOLEAN, key: BOOLEAN]
Told ==
  /\ order \in [OrderIds -> Row]
  /\ lastEvent \in [OrderIds -> OrderStatus] /\ lastTold \in [OrderIds -> OrderStatus]
  /\ printReady \in [OrderIds -> Nat]
  /\ EveryoneIsTold
=============================================================================
