----------------------------- MODULE ReceiptPoll -----------------------------
(***************************************************************************)
(* How the receipts of Checkbox reach the database (checkbox/src/index.js, *)
(* poll.js, cashier.js and the beginning of receipts.js): a signed webhook *)
(* that may be lost or refused, and a poll that asks for a window of time, *)
(* page by page, from its cursor minus an overlap.  What a sale then does  *)
(* is in BonusFlow and DiscountQueue; here it is one row.                  *)
(*                                                                         *)
(* A receipt has the date of its making; it is a fact only when it is      *)
(* fiscal, which may be later.  A return is of one sale, and its row keeps *)
(* the row of that sale when there is one.                                 *)
(***************************************************************************)
EXTENDS Integers, FiniteSets, Sequences, SequencesExt

CONSTANTS
  Receipts,
  SaleOf,         \* the sale of a return; of a sale None
  Copies,         \* copies of the service
  Overlap,        \* OVERLAP_MS
  MaxDelay,       \* how long a receipt may stay a draft
  PageSize,       \* PAGE
  NewestFirst,    \* the order in which Checkbox lists receipts
  Horizon,        \* bound on time
  MaxFaults,      \* bound on failures
  None

VARIABLES
  now,
  date, state,    \* of each receipt: when it was made; "none", "draft" or "fiscal"
  rows,           \* receipts and receipt_returns
  linked,         \* the returns whose row knows its sale
  cursor,         \* sync_cursors
  lock,           \* the lock of the poll
  poll,           \* each copy, see Poll
  token,          \* the token of the cashier each copy keeps: "none", "good", "stale"
  hooks,          \* webhooks on their way: [receipt, key, sale]
  signs, stored,  \* the key Checkbox signs with, the key in webhook_keys
  cached,         \* the key each copy keeps
  faults

receiptVars == <<now, date, state, rows, linked, cursor, lock, poll, token, hooks, signs,
                 stored, cached, faults>>

Keys == 1..2
Seen == {"unasked", "absent", "present"}   \* what a return has read of its sale
Hooks == [receipt: Receipts, key: Keys, sale: Seen]

\* at: between turns, asking for a page, or taking the receipts of one.
Poll == [at: {"idle", "ask", "take"}, from: Int, to: 0..Horizon, offset: Nat,
         todo: Seq(Receipts), full: BOOLEAN, sale: Seen]
Idle == [at |-> "idle", from |-> 0, to |-> 0, offset |-> 0, todo |-> << >>, full |-> FALSE,
         sale |-> "unasked"]

TypeOK ==
  /\ now \in 0..Horizon /\ faults \in 0..MaxFaults
  /\ date \in [Receipts -> 0..Horizon] /\ state \in [Receipts -> {"none", "draft", "fiscal"}]
  /\ rows \subseteq Receipts /\ linked \subseteq rows
  /\ cursor \in 0..Horizon \cup {None} /\ lock \in Copies \cup {None}
  /\ poll \in [Copies -> Poll] /\ token \in [Copies -> {"none", "good", "stale"}]
  /\ hooks \subseteq Hooks /\ signs \in Keys /\ stored \in Keys /\ cached \in [Copies -> Keys]

Init ==
  /\ now = 0 /\ faults = 0
  /\ date = [r \in Receipts |-> 0] /\ state = [r \in Receipts |-> "none"]
  /\ rows = {} /\ linked = {} /\ cursor = None /\ lock = None
  /\ poll = [c \in Copies |-> Idle] /\ token = [c \in Copies |-> "none"]
  /\ hooks = {} /\ signs = 1 /\ stored = 1 /\ cached = [c \in Copies |-> 1]

checkbox == <<date, state, signs>>
database == <<rows, linked, cursor, stored>>
service == <<lock, poll, token, cached>>

Fault == faults < MaxFaults /\ faults' = faults + 1

-----------------------------------------------------------------------------
(* Checkbox. *)

\* A sale, or the return of a sale that is fiscal.
Make(r) ==
  /\ state[r] = "none"
  /\ SaleOf[r] # None => state[SaleOf[r]] = "fiscal"
  /\ state' = [state EXCEPT ![r] = "draft"] /\ date' = [date EXCEPT ![r] = now]
  /\ UNCHANGED <<now, database, service, hooks, signs, faults>>

\* It is fiscal and its webhook leaves.
Fiscalise(r) ==
  /\ state[r] = "draft" /\ state' = [state EXCEPT ![r] = "fiscal"]
  /\ hooks' = hooks \cup {[receipt |-> r, key |-> signs, sale |-> "unasked"]}
  /\ UNCHANGED <<now, date, signs, database, service, faults>>

LoseHook(h) ==
  /\ Fault /\ h \in hooks /\ hooks' = hooks \ {h}
  /\ UNCHANGED <<now, checkbox, database, service>>

\* register-webhook.mjs: Checkbox gives a new key, which is then stored.
Register ==
  /\ signs = 1 /\ Fault /\ signs' = 2
  /\ UNCHANGED <<now, date, state, database, service, hooks>>
StoreKey ==
  /\ stored # signs /\ stored' = signs
  /\ UNCHANGED <<now, checkbox, rows, linked, cursor, service, hooks, faults>>

-----------------------------------------------------------------------------
(* ingest. *)

\* A return reads its sale and then writes its row, no transaction around the
\* two; a sale is one transaction.
Reads(r, sale) == SaleOf[r] # None /\ sale = "unasked"
ReadSale(r) == IF SaleOf[r] \in rows THEN "present" ELSE "absent"

\* on conflict do nothing: the second coming of a receipt changes nothing.
Write(r, sale) ==
  /\ rows' = rows \cup {r}
  /\ linked' = IF r \notin rows /\ sale = "present" THEN linked \cup {r} ELSE linked

-----------------------------------------------------------------------------
(* The webhook: the key is read anew when the signature does not match.     *)

Hook(h) ==
  /\ h \in hooks
  /\ \E c \in Copies :
       /\ cached' = [cached EXCEPT ![c] = IF h.key = cached[c] THEN @ ELSE stored]
       /\ IF h.key # cached'[c]
          THEN hooks' = hooks \ {h} /\ UNCHANGED <<rows, linked>>
          ELSE IF Reads(h.receipt, h.sale)
          THEN /\ hooks' = (hooks \ {h}) \cup {[h EXCEPT !.sale = ReadSale(h.receipt)]}
               /\ UNCHANGED <<rows, linked>>
          ELSE Write(h.receipt, h.sale) /\ hooks' = hooks \ {h}
  /\ UNCHANGED <<now, checkbox, cursor, stored, lock, poll, token, faults>>

-----------------------------------------------------------------------------
(* The poll. *)

\* The window begins before the cursor; without one, a day before (all of the
\* time here).
From(c) == IF c = None THEN 0 ELSE c - Overlap

Begin(c) ==
  /\ poll[c].at = "idle" /\ lock = None /\ lock' = c
  /\ token' = [token EXCEPT ![c] = IF @ = "none" THEN "good" ELSE @]
  /\ poll' = [poll EXCEPT ![c] = [Idle EXCEPT !.at = "ask", !.from = From(cursor), !.to = now]]
  /\ UNCHANGED <<now, checkbox, database, cached, hooks, faults>>

\* receipts/search: a page of what is in the window when it is asked for.
Listed(p) == {r \in Receipts : state[r] # "none" /\ date[r] >= p.from /\ date[r] <= p.to}
Sooner(r, s) == date[r] < date[s]
Orders(S) ==
  {q \in SetToSeqs(S) : \A i, j \in DOMAIN q :
     i < j => IF NewestFirst THEN ~Sooner(q[i], q[j]) ELSE ~Sooner(q[j], q[i])}
PageOf(q, offset) ==
  SubSeq(q, offset + 1, IF Len(q) < offset + PageSize THEN Len(q) ELSE offset + PageSize)

Ask(c) ==
  /\ poll[c].at = "ask" /\ token[c] = "good"
  /\ LET q == CHOOSE s \in Orders(Listed(poll[c])) : TRUE
         page == PageOf(q, poll[c].offset) IN
     poll' = [poll EXCEPT ![c].at = "take", ![c].todo = page, ![c].full = Len(page) = PageSize]
  /\ UNCHANGED <<now, checkbox, database, lock, token, cached, hooks, faults>>

\* One receipt of the page: a draft is passed over.
Take(c) ==
  /\ poll[c].at = "take" /\ poll[c].todo # << >>
  /\ LET r == Head(poll[c].todo)
         rest == [poll EXCEPT ![c].todo = Tail(@), ![c].sale = "unasked"] IN
     IF state[r] = "draft" THEN poll' = rest /\ UNCHANGED <<rows, linked>>
     ELSE IF Reads(r, poll[c].sale)
     THEN poll' = [poll EXCEPT ![c].sale = ReadSale(r)] /\ UNCHANGED <<rows, linked>>
     ELSE Write(r, poll[c].sale) /\ poll' = rest
  /\ UNCHANGED <<now, checkbox, cursor, stored, lock, token, cached, hooks, faults>>

\* A full page is followed by another.
NextPage(c) ==
  /\ poll[c].at = "take" /\ poll[c].todo = << >> /\ poll[c].full
  /\ poll' = [poll EXCEPT ![c].at = "ask", ![c].offset = @ + PageSize]
  /\ UNCHANGED <<now, checkbox, database, lock, token, cached, hooks, faults>>

Release(c) == lock' = IF lock = c THEN None ELSE lock

\* After the last page the cursor goes to the end of the window, which is when
\* the poll began.
End(c) ==
  /\ poll[c].at = "take" /\ poll[c].todo = << >> /\ ~poll[c].full
  /\ cursor' = poll[c].to
  /\ poll' = [poll EXCEPT ![c] = Idle] /\ Release(c)
  /\ UNCHANGED <<now, checkbox, rows, linked, stored, token, cached, hooks, faults>>

\* Any failure ends the poll and leaves the cursor; a token that is refused is
\* forgotten.
Fails(c) ==
  /\ poll[c].at # "idle"
  /\ IF poll[c].at = "ask" /\ token[c] = "stale" THEN faults' = faults ELSE Fault
  /\ token' = [token EXCEPT ![c] = IF @ = "stale" THEN "none" ELSE @]
  /\ poll' = [poll EXCEPT ![c] = Idle] /\ Release(c)
  /\ UNCHANGED <<now, checkbox, database, cached, hooks>>

\* The token ends before its hour; the lock before a slow poll; a copy dies and
\* leaves its lock.
TokenEnds(c) ==
  /\ token[c] = "good" /\ Fault /\ token' = [token EXCEPT ![c] = "stale"]
  /\ UNCHANGED <<now, checkbox, database, lock, poll, cached, hooks>>
LockEnds ==
  /\ lock # None /\ Fault /\ lock' = None
  /\ UNCHANGED <<now, checkbox, database, poll, token, cached, hooks>>
Dies(c) ==
  /\ poll[c].at # "idle" /\ Fault
  /\ poll' = [poll EXCEPT ![c] = Idle] /\ token' = [token EXCEPT ![c] = "none"]
  /\ cached' = [cached EXCEPT ![c] = stored]
  /\ UNCHANGED <<now, checkbox, database, lock, hooks>>

\* A draft does not get older than MaxDelay.
TimePasses ==
  /\ now < Horizon /\ now' = now + 1
  /\ \A r \in Receipts : state[r] = "draft" => now < date[r] + MaxDelay
  /\ UNCHANGED <<checkbox, database, service, hooks, faults>>

Checkbox == Register \/ StoreKey \/ \E r \in Receipts : Make(r) \/ Fiscalise(r)
Polls(c) == Begin(c) \/ Ask(c) \/ Take(c) \/ NextPage(c) \/ End(c) \/ Fails(c)

Next ==
  \/ Checkbox \/ TimePasses \/ LockEnds
  \/ \E h \in hooks : Hook(h) \/ LoseHook(h)
  \/ \E c \in Copies : Polls(c) \/ TokenEnds(c) \/ Dies(c)

Spec == Init /\ [][Next]_receiptVars

-----------------------------------------------------------------------------
(* Properties. *)

\* The polls alone miss nothing (poll.js:4-6): a receipt that no row holds is
\* still in the window of the next poll, however late it became fiscal, whoever
\* failed in between, and whether or not its webhook came.
NoneIsMissed ==
  \A r \in Receipts : state[r] # "none" /\ r \notin rows => date[r] >= From(cursor)

\* The row of a return knows the row of its sale.  It does not hold: a return
\* that comes before its sale, or beside it, never learns of it.
ReturnKnowsItsSale ==
  \A r \in rows : SaleOf[r] \in rows => r \in linked
=============================================================================
