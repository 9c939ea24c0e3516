----------------------------- MODULE StockBook ------------------------------
(***************************************************************************)
(* What should be left of a material at a coffee machine, and what a       *)
(* stocktaking finds (lib/src/stock.js, admin-stock.js, jobs/stock.js).    *)
(* The first half of the state is the shelf itself; the second is what has *)
(* been written down about it, always later and not always in order: the   *)
(* purchases and counts that admins enter, correct and delete, the orders  *)
(* of the portal, and the daily journal of the scheduler.                  *)
(*                                                                         *)
(* Time is counted in hours of which DayLength make a day.  Of a delivery  *)
(* and a count in the same hour the delivery is first.                     *)
(***************************************************************************)
EXTENDS Integers, FiniteSets, FiniteSetsExt

CONSTANTS
  Deliveries, Cups, Counts, \* the deliveries, the cups sold, the stocktakings
  Admins, Items,            \* requests of admins; the materials of the journal
  LotMax, StartMax,         \* the largest delivery; what may be there at first
  PerDay,                   \* stock_items.per_day, in units per hour
  DayLength, Horizon,       \* bounds on time
  None

VARIABLES
  now, left,               \* the hour, and what is on the shelf
  first,                   \* what was there at the beginning
  came, drunk, counted,    \* when each delivery, cup and stocktaking happened
  purchases, usage, counts,\* what is recorded of them
  request,                 \* of each admin
  daily, pass              \* stock_daily, and the pass of the scheduler

bookVars == <<now, left, first, came, drunk, counted, purchases, usage, counts, request, daily, pass>>
shelf == <<now, left, first, came, drunk, counted>>
records == <<purchases, usage, counts>>

Days == 0..(Horizon \div DayLength)
DayOf(t) == t \div DayLength
EndOf(day) == (day + 1) * DayLength

NoRow == [asOf |-> None, book |-> None, items |-> {}, whole |-> FALSE]
NoPass == [today |-> 0, days |-> {}]
Resting == [at |-> "idle", count |-> None, qty |-> 0]

Init ==
  /\ now = 0 /\ left \in 0..StartMax /\ first = left
  /\ came = [d \in Deliveries |-> None] /\ purchases = [d \in Deliveries |-> None]
  /\ drunk = [c \in Cups |-> None] /\ usage = {}
  /\ counted = [k \in Counts |-> None] /\ counts = [k \in Counts |-> None]
  /\ request = [a \in Admins |-> Resting]
  /\ daily = [d \in Days |-> NoRow] /\ pass = NoPass

-----------------------------------------------------------------------------
\* The shelf.  An hour is over for it once a count or a row of the journal was made
\* in it.
Happened(f) == {x \in DOMAIN f : f[x] # None}
Quiet ==
  /\ \A k \in Happened(counted) : counted[k].at < now
  /\ \A day \in Days : daily[day].asOf # now

Deliver(d, q) ==
  /\ came[d] = None /\ Quiet
  /\ came' = [came EXCEPT ![d] = [at |-> now, qty |-> q]]
  /\ left' = left + q
  /\ UNCHANGED <<now, first, drunk, counted, records, request, daily, pass>>

Drink(c) ==
  /\ drunk[c] = None /\ left > 0 /\ Quiet
  /\ drunk' = [drunk EXCEPT ![c] = now]
  /\ left' = left - 1
  /\ UNCHANGED <<now, first, came, counted, records, request, daily, pass>>

TakeStock(k) ==
  /\ counted[k] = None
  /\ counted' = [counted EXCEPT ![k] = [at |-> now, qty |-> left]]
  /\ UNCHANGED <<now, left, first, came, drunk, records, request, daily, pass>>

TimePasses ==
  /\ now < Horizon /\ left >= PerDay
  /\ now' = now + 1 /\ left' = left - PerDay
  /\ UNCHANGED <<first, came, drunk, counted, records, request, daily, pass>>

-----------------------------------------------------------------------------
\* bookAt: the last count, what was bought after it, less what was used after it.
Qty(f, S) == MapThenSumSet(LAMBDA x : f[x].qty, S)
AfterOrAt(t, from) == from = None \/ t >= from
After(t, from) == from = None \/ t > from
LastCount(t, strict) ==
  LET past == {k \in Happened(counts) :
                 IF strict THEN counts[k].at < t ELSE counts[k].at <= t} IN
    IF past = {} THEN None ELSE CHOOSE k \in past : \A l \in past : counts[l].at <= counts[k].at

BoughtIn(from, t) ==
  {d \in Happened(purchases) : purchases[d].at <= t /\ After(purchases[d].at, from)}
UsedIn(from, t) == {c \in usage : drunk[c] <= t /\ After(drunk[c], from)}
FirstIn(t) ==
  LET past == {purchases[d].at : d \in {e \in Happened(purchases) : purchases[e].at <= t}} IN
    IF past = {} THEN None ELSE Min(past)

BookAt(t, strict) ==
  LET k == LastCount(t, strict)
      counted_at == IF k = None THEN None ELSE counts[k].at
      from == IF k = None THEN FirstIn(t) ELSE counted_at IN
    IF from = None THEN None
    ELSE (IF k = None THEN 0 ELSE counts[k].qty)
         + Qty(purchases, BoughtIn(counted_at, t)) - Cardinality(UsedIn(counted_at, t))
         - PerDay * (t - from)

-----------------------------------------------------------------------------
\* The orders come from the portal, their usage from syncUsage.
SyncUsage ==
  /\ usage # Happened(drunk)
  /\ usage' = Happened(drunk)
  /\ UNCHANGED <<shelf, purchases, counts, request, daily, pass>>

\* POST, PUT and DELETE of a purchase; the quantity may be entered wrong.
Enter(d) ==
  /\ came[d] # None
  /\ \E slip \in {0, 1} :
       purchases' = [purchases EXCEPT ![d] = [at |-> came[d].at, qty |-> came[d].qty + slip]]
  /\ UNCHANGED <<shelf, usage, counts, request, daily, pass>>

Drop(d) ==
  /\ purchases[d] # None
  /\ purchases' = [purchases EXCEPT ![d] = None]
  /\ UNCHANGED <<shelf, usage, counts, request, daily, pass>>

Asks(a, what, k, q) == request' = [request EXCEPT ![a] = [at |-> what, count |-> k, qty |-> q]]
Latest(k) == counts[k] # None /\ \A l \in Happened(counts) : counts[l].at <= counts[k].at

\* POST of a count asks first that it is after the last one, PUT and DELETE
\* that it is the last one; a PUT corrects what was counted.
AskCount(a, k) ==
  /\ request[a] = Resting /\ counted[k] # None /\ counts[k] = None
  /\ \A l \in Happened(counts) : counts[l].at < counted[k].at
  /\ \E slip \in {0, 1} : Asks(a, "insert", k, counted[k].qty + slip)
  /\ UNCHANGED <<shelf, records, daily, pass>>

AskEdit(a, k) ==
  /\ request[a] = Resting /\ Latest(k)
  /\ \A l \in Happened(counts) \ {k} : counts[l].at < counted[k].at
  /\ Asks(a, "update", k, counted[k].qty)
  /\ UNCHANGED <<shelf, records, daily, pass>>

AskDelete(a, k) ==
  /\ request[a] = Resting /\ Latest(k)
  /\ Asks(a, "delete", k, 0)
  /\ UNCHANGED <<shelf, records, daily, pass>>

WriteCount(a) ==
  LET r == request[a] IN
    /\ r # Resting
    /\ r.at = "insert" => counts[r.count] = None
    /\ counts' = [counts EXCEPT ![r.count] =
         CASE r.at = "insert" -> [at |-> counted[r.count].at, qty |-> r.qty]
           [] r.at = "update" -> IF @ = None THEN None ELSE [@ EXCEPT !.qty = r.qty]
           [] r.at = "delete" -> None]
    /\ request' = [request EXCEPT ![a] = Resting]
    /\ UNCHANGED <<shelf, purchases, usage, daily, pass>>

-----------------------------------------------------------------------------
\* Everything that happened is on record, and the count it starts from is right;
\* only without a count must nothing have been there before.
Right(t, strict) ==
  LET k == LastCount(t, strict) IN
    /\ \A d \in Happened(came) : came[d].at <= t => purchases[d] = came[d]
    /\ \A c \in Happened(drunk) : drunk[c] <= t => c \in usage
    /\ IF k = None THEN first = 0 ELSE counts[k] = counted[k]

\* journal: a pass begins with today's date and the days that have a row, and
\* goes through the days from the first one on.
FirstDay == {purchases[d].at : d \in Happened(purchases)} \cup
            {counts[k].at : k \in Happened(counts)} \cup {drunk[c] : c \in Happened(drunk)}

PassBegins ==
  LET today == DayOf(now)
      done == {d \in Days : daily[d].items # {}} IN
    /\ pass = NoPass /\ FirstDay # {}
    /\ pass' = [today |-> today, days |-> {today} \cup ((DayOf(Min(FirstDay))..today) \ done)]
    /\ UNCHANGED <<shelf, records, request, daily>>

\* snapshot: the book at the end of a past day, or at this moment; its rows are
\* written one by one, and an error or a stop ends the pass.
MomentOf(day) == IF day = pass.today THEN now ELSE EndOf(day)
Snapshot ==
  LET day == Min(pass.days)
      t == MomentOf(day) IN
    /\ pass.days # {}
    /\ \E S \in SUBSET Items \ {{}} :
         /\ daily' = [daily EXCEPT ![day] =
              [asOf |-> t, book |-> BookAt(t, FALSE), items |-> @.items \cup S, whole |-> Right(t, FALSE)]]
         /\ pass' = IF S = Items /\ pass.days # {day} THEN [pass EXCEPT !.days = @ \ {day}] ELSE NoPass
    /\ UNCHANGED <<shelf, records, request>>

Stop ==
  /\ pass # NoPass
  /\ pass' = NoPass
  /\ UNCHANGED <<shelf, records, request, daily>>

Next ==
  \/ \E d \in Deliveries, q \in 1..LotMax : Deliver(d, q)
  \/ \E c \in Cups : Drink(c)
  \/ \E k \in Counts : TakeStock(k)
  \/ TimePasses \/ SyncUsage
  \/ \E d \in Deliveries : Drop(d) \/ Enter(d)
  \/ \E a \in Admins : WriteCount(a) \/ \E k \in Counts : AskCount(a, k) \/ AskEdit(a, k) \/ AskDelete(a, k)
  \/ PassBegins \/ Snapshot \/ Stop

Spec == Init /\ [][Next]_bookVars

-----------------------------------------------------------------------------
Maybe(S) == S \cup {None}
Lots == [at : 0..Horizon, qty : 0..((LotMax + 1) * Cardinality(Deliveries) + StartMax + 1)]

TypeOK ==
  /\ now \in 0..Horizon /\ left \in Nat /\ first \in 0..StartMax
  /\ came \in [Deliveries -> Maybe(Lots)] /\ purchases \in [Deliveries -> Maybe(Lots)]
  /\ drunk \in [Cups -> Maybe(0..Horizon)] /\ usage \subseteq Cups
  /\ counted \in [Counts -> Maybe(Lots)] /\ counts \in [Counts -> Maybe(Lots)]
  /\ \A d \in Days : daily[d].asOf \in Maybe(0..Horizon) /\ daily[d].items \subseteq Items

\* Once everything is on record, in whatever order and after whatever was wrong
\* at first, the book says what is on the shelf ...
BookIsTruth == Right(now, FALSE) => BookAt(now, FALSE) \in {left, None}
\* ... a stocktaking finds what the book before it expected (compare) ...
CountsAgree ==
  \A k \in Happened(counts) :
    Right(counts[k].at, TRUE) => BookAt(counts[k].at, TRUE) \in {counted[k].qty, None}
\* ... and so does the journal, counted on from the moment of its row.
JournalAddsUp ==
  \A day \in Days :
    LET row == daily[day] IN
      row.whole /\ row.book # None /\ Right(now, FALSE) =>
        left = row.book + Qty(purchases, BoughtIn(row.asOf, now))
               - Cardinality(UsedIn(row.asOf, now)) - PerDay * (now - row.asOf)
StockIsTruth == BookIsTruth /\ CountsAgree /\ JournalAddsUp

\* A count is only ever inserted after the last one (admin-stock.js:333-334); the
\* question is asked before the insert.
OnlyAfterTheLast ==
  [][\A k, l \in Counts : counts[k] = None /\ counts[k]' # None /\ counts[l] # None
       => counts[k]'.at > counts[l].at]_counts

\* The row of a day is of a moment of that day; a pass that begins before midnight
\* and ends after it writes a later one.
RowIsOfItsDay == \A d \in Days : daily[d].asOf # None => daily[d].asOf <= EndOf(d)

\* The rows of a day are all written; a pass that stops half-way leaves some out,
\* and the next one takes the day for done.
NoItemIsMissing ==
  \A d \in Days : pass = NoPass /\ daily[d].items # {} /\ d < DayOf(now) => daily[d].items = Items
=============================================================================
