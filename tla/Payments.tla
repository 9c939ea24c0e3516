------------------------------ MODULE Payments ------------------------------
(***************************************************************************)
(* Invoices of mono pay (routes/payments.js, payments/mono.js): an invoice *)
(* is created at the bank and then stored; the bank reports its status by  *)
(* webhooks that are lost, repeated and reordered, and the player asks for *)
(* it.  Both ways end in settle, one transaction under the lock of the     *)
(* row.                                                                    *)
(***************************************************************************)
EXTENDS Integers, FiniteSets, TLAPS

CONSTANTS
  Invoices,       \* invoices that may be created, for coins or for a crate
  SaleIsOn        \* features.js: coin_packs and crate_cash

BankStatuses == {"created", "processing", "hold", "success", "failure", "expired", "reversed"}
Statuses == BankStatuses \ {"hold"}
NoRow == [status |-> "none", credited |-> FALSE]

VARIABLES
  bank,           \* invoice -> its status at the bank, "none" before
  hooks,          \* webhooks sent, <<invoice, status>>; they may come at any time
  asked,          \* answers of the bank that a GET has read and not settled
  row,            \* the table payments
  entries,        \* invoice -> entries of the ledger, or crates, it brought
  paid            \* observation: invoices that settle was told a success of

payVars == <<bank, hooks, asked, row, entries, paid>>

Init ==
  /\ bank = [i \in Invoices |-> "none"] /\ hooks = {} /\ asked = {}
  /\ row = [i \in Invoices |-> NoRow]
  /\ entries = [i \in Invoices |-> 0] /\ paid = {}

(* statuses of the bank in our words: what is held is not ours yet *)
Ours(status) == IF status = "hold" THEN "processing" ELSE status

-----------------------------------------------------------------------------
(* POST .../invoice: the call of the bank, then the row; between the two   *)
(* the process may die or the insert may fail, and the page of the bank is *)
(* shown to nobody.                                                        *)

CreateInvoice(i) ==
  /\ SaleIsOn /\ bank[i] = "none"
  /\ bank' = [bank EXCEPT ![i] = "created"]
  /\ UNCHANGED <<hooks, asked, row, entries, paid>>

StoreInvoice(i) ==
  /\ bank[i] # "none" /\ row[i] = NoRow
  /\ row' = [row EXCEPT ![i] = [status |-> "created", credited |-> FALSE]]
  /\ UNCHANGED <<bank, hooks, asked, entries, paid>>

-----------------------------------------------------------------------------
(* the bank: a payment needs the page, which is sent after the row *)

Moves == {<<"created", "processing">>, <<"created", "hold">>, <<"created", "success">>,
          <<"created", "failure">>, <<"created", "expired">>,
          <<"processing", "success">>, <<"processing", "failure">>, <<"hold", "success">>,
          <<"hold", "failure">>, <<"success", "reversed">>}

BankMoves(i) ==
  \E to \in BankStatuses :
    /\ <<bank[i], to>> \in Moves
    /\ to = "expired" \/ row[i] # NoRow
    /\ bank' = [bank EXCEPT ![i] = to]
    /\ hooks' = hooks \union {<<i, to>>}
    /\ UNCHANGED <<asked, row, entries, paid>>

-----------------------------------------------------------------------------
(* settle: what is credited is left alone; otherwise the status is noted,  *)
(* and a success brings the coins or the crate                             *)

\* A plausible bug: the guard of what is already credited is missing.
SettleAgain(i, status) ==
  /\ IF row[i] = NoRow THEN UNCHANGED <<row, entries>>
     ELSE /\ row' = [row EXCEPT ![i] = [status |-> status, credited |-> status = "success"]]
          /\ entries' = [entries EXCEPT ![i] = @ + (IF status = "success" THEN 1 ELSE 0)]
  /\ paid' = IF status = "success" THEN paid \union {i} ELSE paid

Settle(i, status) ==
  /\ IF row[i] = NoRow \/ row[i].credited THEN UNCHANGED <<row, entries>>
     ELSE /\ row' = [row EXCEPT ![i] = [status |-> status, credited |-> status = "success"]]
          /\ entries' = [entries EXCEPT ![i] = @ + (IF status = "success" THEN 1 ELSE 0)]
  /\ paid' = IF status = "success" THEN paid \union {i} ELSE paid

Webhook(i, status) ==
  /\ <<i, status>> \in hooks
  /\ Settle(i, Ours(status))
  /\ UNCHANGED <<bank, hooks, asked>>

(* GET /me/payments/:invoiceId, until the row is credited *)
Ask(i) ==
  /\ row[i] # NoRow /\ ~row[i].credited
  /\ asked' = asked \union {<<i, Ours(bank[i])>>}
  /\ UNCHANGED <<bank, hooks, row, entries, paid>>

(* the answer is settled, however late, or the call has failed *)
Answered(i, status) ==
  /\ <<i, status>> \in asked
  /\ asked' = asked \ {<<i, status>>}
  /\ Settle(i, status) \/ UNCHANGED <<row, entries, paid>>
  /\ UNCHANGED <<bank, hooks>>

Next ==
  \E i \in Invoices :
    \/ CreateInvoice(i) \/ StoreInvoice(i) \/ BankMoves(i) \/ Ask(i)
    \/ \E s \in BankStatuses : Webhook(i, s) \/ Answered(i, s)

Spec == Init /\ [][Next]_payVars

-----------------------------------------------------------------------------
TypeOK ==
  /\ bank \in [Invoices -> BankStatuses \union {"none"}]
  /\ hooks \subseteq Invoices \X BankStatuses /\ asked \subseteq Invoices \X Statuses
  /\ row \in [Invoices -> [status: Statuses \union {"none"}, credited: BOOLEAN]]
  /\ entries \in [Invoices -> Nat]

(* What was paid is brought once and only then: as soon as either way has  *)
(* settled a success the coins or the crate are there, whatever older      *)
(* answers and repeated webhooks come before and after it; nothing is      *)
(* brought for an invoice that the bank never took the money for           *)
(* (payments.js: "рівно раз на інвойс, у транзакції разом із журналом").   *)
PaidIsBroughtOnce ==
  \A i \in Invoices :
    /\ entries[i] = (IF i \in paid THEN 1 ELSE 0)
    /\ entries[i] = 1 => row[i].credited /\ bank[i] \in {"success", "reversed"}

-----------------------------------------------------------------------------
(* Proofs, for any invoices.  A success is told only of an invoice that    *)
(* has its row: the page of the bank is not shown before (Told).  So no    *)
(* settle of a success falls into the gap between the call of the bank and *)
(* the insert, and credited says whether one was settled (Brought).        *)

\* What is known of the money at the bank, and of what was said of it.
Told ==
  \A i \in Invoices :
    /\ row[i] # NoRow => bank[i] # "none"
    /\ bank[i] \in {"processing", "hold", "success", "failure", "reversed"} => row[i] # NoRow
    /\ <<i, "success">> \in hooks \union asked => bank[i] \in {"success", "reversed"}

\* What was brought, by the row.
Brought ==
  \A i \in Invoices :
    /\ i \in paid <=> row[i].credited
    /\ entries[i] = IF row[i].credited THEN 1 ELSE 0
    /\ row[i].credited => row[i] # NoRow /\ bank[i] \in {"success", "reversed"}

IInv == TypeOK /\ Told /\ Brought

LEMMA InitIInv == Init => IInv
  BY DEF Init, IInv, TypeOK, Told, Brought, NoRow, BankStatuses, Statuses

\* The lock of the row and its flag: what is settled twice is brought once.
LEMMA SettleKeeps ==
  ASSUME IInv, NEW i \in Invoices, NEW status \in Statuses, Settle(i, status),
         UNCHANGED <<bank, hooks>>, asked' \subseteq asked,
         status = "success" => bank[i] \in {"success", "reversed"}
  PROVE  IInv'
<1> DEFINE new == [status |-> status, credited |-> status = "success"]
           Rows == [status : Statuses \union {"none"}, credited : BOOLEAN]
<1>1. /\ new \in Rows /\ new # NoRow /\ new.credited = (status = "success")
  BY DEF NoRow, Statuses, BankStatuses
<1>2. /\ row \in [Invoices -> Rows] /\ entries \in [Invoices -> Nat]
      /\ hooks \subseteq Invoices \X BankStatuses /\ asked \subseteq Invoices \X Statuses
      /\ bank \in [Invoices -> BankStatuses \union {"none"}]
  BY DEF IInv, TypeOK
<1>3. CASE row[i] = NoRow \/ row[i].credited
  <2>1. row' = row /\ entries' = entries
    BY <1>3 DEF Settle
  <2>2. status = "success" => i \in paid
    BY <1>3 DEF IInv, Told, Brought
  <2>3. paid' = paid
    BY <2>2 DEF Settle
  <2> QED
    BY <1>2, <2>1, <2>3 DEF IInv, TypeOK, Told, Brought
<1>4. CASE row[i] # NoRow /\ ~row[i].credited
  <2>1. /\ row' = [row EXCEPT ![i] = new]
        /\ entries' = [entries EXCEPT ![i] = entries[i] + (IF status = "success" THEN 1 ELSE 0)]
    BY <1>4 DEF Settle
  <2>2. entries[i] = 0 /\ i \notin paid
    BY <1>4 DEF IInv, Brought
  <2> HIDE DEF new, Rows
  <2>3. /\ row' \in [Invoices -> Rows] /\ row'[i] = new
        /\ \A j \in Invoices : j # i => row'[j] = row[j]
        /\ entries' \in [Invoices -> Nat] /\ entries'[i] = IF status = "success" THEN 1 ELSE 0
        /\ \A j \in Invoices : j # i => entries'[j] = entries[j]
    BY <1>1, <1>2, <2>1, <2>2
  <2>4. /\ i \in paid' <=> status = "success"
        /\ \A j \in Invoices : j # i => (j \in paid' <=> j \in paid)
    BY <2>2 DEF Settle
  <2>5. TypeOK'
    BY <1>2, <2>3 DEF TypeOK, Rows
  <2>6. Told'
    BY <1>1, <1>4, <2>3 DEF IInv, Told
  <2>7. Brought'
    <3> SUFFICES ASSUME NEW j \in Invoices
                 PROVE  /\ j \in paid' <=> row'[j].credited
                        /\ entries'[j] = IF row'[j].credited THEN 1 ELSE 0
                        /\ row'[j].credited =>
                             row'[j] # NoRow /\ bank[j] \in {"success", "reversed"}
      BY DEF Brought
    <3>1. CASE j = i
      BY <1>1, <2>3, <2>4, <3>1
    <3>2. CASE j # i
      BY <2>3, <2>4, <3>2 DEF IInv, Brought
    <3> QED
      BY <3>1, <3>2
  <2> QED
    BY <2>5, <2>6, <2>7 DEF IInv
<1> QED
  BY <1>3, <1>4

LEMMA StepIInv == IInv /\ [Next]_payVars => IInv'
<1> SUFFICES ASSUME IInv, [Next]_payVars PROVE IInv'
  OBVIOUS
<1> DEFINE Rows == [status : Statuses \union {"none"}, credited : BOOLEAN]
<1>1. /\ row \in [Invoices -> Rows] /\ entries \in [Invoices -> Nat]
      /\ hooks \subseteq Invoices \X BankStatuses /\ asked \subseteq Invoices \X Statuses
      /\ bank \in [Invoices -> BankStatuses \union {"none"}]
  BY DEF IInv, TypeOK
<1>2. ASSUME NEW i \in Invoices, CreateInvoice(i) PROVE IInv'
  <2>1. /\ bank' = [bank EXCEPT ![i] = "created"] /\ bank[i] = "none"
        /\ UNCHANGED <<hooks, asked, row, entries, paid>>
    BY <1>2 DEF CreateInvoice
  <2> QED
    BY <1>1, <2>1 DEF IInv, TypeOK, Told, Brought, BankStatuses
<1>3. ASSUME NEW i \in Invoices, StoreInvoice(i) PROVE IInv'
  <2> DEFINE new == [status |-> "created", credited |-> FALSE]
  <2>1. new \in Rows /\ new # NoRow /\ ~new.credited
    BY DEF NoRow, Statuses, BankStatuses
  <2>2. /\ row' = [row EXCEPT ![i] = new] /\ row[i] = NoRow /\ bank[i] # "none"
        /\ UNCHANGED <<bank, hooks, asked, entries, paid>>
    BY <1>3 DEF StoreInvoice
  <2>3. ~NoRow.credited
    BY DEF NoRow
  <2> HIDE DEF new, Rows
  <2>4. /\ row' \in [Invoices -> Rows] /\ row'[i] = new
        /\ \A j \in Invoices : j # i => row'[j] = row[j]
    BY <1>1, <2>1, <2>2
  <2>5. TypeOK'
    BY <1>1, <2>2, <2>4 DEF TypeOK, Rows
  <2>6. Told' /\ Brought'
    BY <2>1, <2>2, <2>3, <2>4 DEF IInv, Told, Brought
  <2> QED
    BY <2>5, <2>6 DEF IInv
<1>4. ASSUME NEW i \in Invoices, BankMoves(i) PROVE IInv'
  <2>1. PICK to \in BankStatuses :
          /\ <<bank[i], to>> \in Moves /\ (to = "expired" \/ row[i] # NoRow)
          /\ bank' = [bank EXCEPT ![i] = to] /\ hooks' = hooks \union {<<i, to>>}
          /\ UNCHANGED <<asked, row, entries, paid>>
    BY <1>4 DEF BankMoves
  <2>2. /\ to # "none" /\ bank[i] # "none"
        /\ bank[i] \in {"success", "reversed"} => to = "reversed"
    BY <2>1 DEF Moves, BankStatuses
  <2>3. /\ bank' \in [Invoices -> BankStatuses \union {"none"}] /\ bank'[i] = to
        /\ \A j \in Invoices : j # i => bank'[j] = bank[j]
    BY <1>1, <2>1
  <2>4. TypeOK'
    BY <1>1, <2>1, <2>3 DEF TypeOK
  <2>5. Told'
    BY <2>1, <2>2, <2>3 DEF IInv, Told
  <2>6. Brought'
    BY <2>1, <2>2, <2>3 DEF IInv, Brought
  <2> QED
    BY <2>4, <2>5, <2>6 DEF IInv
<1>5. ASSUME NEW i \in Invoices, Ask(i) PROVE IInv'
  <2> DEFINE answer == Ours(bank[i])
  <2>1. /\ asked' = asked \union {<<i, answer>>} /\ row[i] # NoRow
        /\ UNCHANGED <<bank, hooks, row, entries, paid>>
    BY <1>5 DEF Ask
  <2>2. answer \in Statuses /\ (answer = "success" => bank[i] = "success")
    BY <1>1, <2>1 DEF IInv, Told, Ours, Statuses, BankStatuses
  <2> HIDE DEF answer
  <2>3. TypeOK'
    BY <1>1, <2>1, <2>2 DEF TypeOK
  <2>4. Told' /\ Brought'
    BY <2>1, <2>2 DEF IInv, Told, Brought
  <2> QED
    BY <2>3, <2>4 DEF IInv
<1>6. ASSUME NEW i \in Invoices, NEW s \in BankStatuses, Webhook(i, s) PROVE IInv'
  <2>1. Ours(s) \in Statuses /\ (Ours(s) = "success" => s = "success")
    BY DEF Ours, Statuses, BankStatuses
  <2>2. Ours(s) = "success" => bank[i] \in {"success", "reversed"}
    BY <1>6, <2>1 DEF Webhook, IInv, Told
  <2>3. Settle(i, Ours(s)) /\ UNCHANGED <<bank, hooks>> /\ asked' \subseteq asked
    BY <1>6 DEF Webhook
  <2> QED
    BY <2>1, <2>2, <2>3, SettleKeeps
<1>7. ASSUME NEW i \in Invoices, NEW s \in BankStatuses, Answered(i, s) PROVE IInv'
  <2>1. /\ s \in Statuses /\ (s = "success" => bank[i] \in {"success", "reversed"})
        /\ UNCHANGED <<bank, hooks>> /\ asked' \subseteq asked
    BY <1>1, <1>7 DEF Answered, IInv, Told
  <2>2. CASE Settle(i, s)
    BY <2>1, <2>2, SettleKeeps
  <2>3. CASE UNCHANGED <<row, entries, paid>>
    <3>1. TypeOK'
      BY <1>1, <2>1, <2>3 DEF TypeOK
    <3>2. Told' /\ Brought'
      BY <2>1, <2>3 DEF IInv, Told, Brought
    <3> QED
      BY <3>1, <3>2 DEF IInv
  <2> QED
    BY <1>7, <2>2, <2>3 DEF Answered
<1>8. CASE UNCHANGED payVars
  BY <1>8 DEF payVars, IInv, TypeOK, Told, Brought
<1> QED
  BY <1>2, <1>3, <1>4, <1>5, <1>6, <1>7, <1>8 DEF Next

LEMMA Inductive == Spec => []IInv
  BY InitIInv, StepIInv, PTL DEF Spec

(* The rows, the ledger and what the bank says keep their types.           *)
THEOREM TypeCorrect == Spec => []TypeOK
<1>1. IInv => TypeOK
  BY DEF IInv
<1> QED
  BY <1>1, Inductive, PTL

(* The coins or the crate of an invoice are brought once, when and only    *)
(* when either way settled its success, however the webhooks and answers   *)
(* are lost, repeated and reordered (routes/payments.js, settle).          *)
THEOREM PaidIsBrought == Spec => []PaidIsBroughtOnce
<1>1. IInv => PaidIsBroughtOnce
  BY DEF IInv, Brought, PaidIsBroughtOnce
<1> QED
  BY <1>1, Inductive, PTL
=============================================================================
