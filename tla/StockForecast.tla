---------------------------- MODULE StockForecast ----------------------------
(***************************************************************************)
(* What a material is foreseen to do (lib/src/stock.js): a curve of the    *)
(* days ahead, kept in the daily journal (scheduler/jobs/stock.js), from   *)
(* which the screen and the overseer tell whether the stock lasts, and a   *)
(* stocktaking what had been foreseen for it (admin-stock.js, compare).    *)
(*                                                                         *)
(* The world does here what the model of the demand foresees, drink by     *)
(* drink, at whatever hours; so what is foreseen can be held against what  *)
(* comes.  A drink takes one unit.  The spread of the demand and the 90 %  *)
(* are left out, and the stock of today is right (StockBook has the rest). *)
(***************************************************************************)
EXTENDS Integers, FiniteSets, FiniteSetsExt

CONSTANTS DayLength,  \* hours
          WeekLength, \* days
          Foreseen,   \* drinks of each day of the week: level and week factor
          CurveDays,  \* STOCK.curveDays
          CoverDays,  \* STOCK.coverDays
          Lot,        \* of a delivery
          StartMax,   \* bound: what is there at first
          Deliveries, \* bound: how many
          Horizon,    \* bound: hours
          None

VARIABLES now,
          sold,       \* drinks of each day
          left,       \* the stock
          closing,    \* ... at the end of each day
          bought,     \* deliveries: when
          daily       \* stock_daily: [asOf, book, lastDay, doneToday]

forecastVars == <<now, sold, left, closing, bought, daily>>

Days == 0 .. (Horizon \div DayLength)
Today == now \div DayLength
Dow(day) == day % WeekLength
Midnight(day) == (day + 1) * DayLength

Init ==
  /\ now = 0 /\ left \in 0 .. StartMax
  /\ sold = [d \in Days |-> 0]
  /\ closing = [d \in Days |-> None] /\ bought = {} /\ daily = [d \in Days |-> None]

---------------------------------------------------------------------------

Sell ==
  /\ sold[Today] < Foreseen[Dow(Today)] /\ left > 0
  /\ sold' = [sold EXCEPT ![Today] = @ + 1]
  /\ left' = left - 1
  /\ UNCHANGED <<now, closing, bought, daily>>

(* A lot comes, one in an hour, before the scheduler looks. *)
Deliver ==
  /\ Cardinality(bought) < Deliveries /\ now \notin bought /\ now % DayLength # 0
  /\ \A d \in Days : daily[d] # None => daily[d].asOf < now
  /\ bought' = bought \cup {now}
  /\ left' = left + Lot
  /\ UNCHANGED <<now, sold, closing, daily>>

HourPasses ==
  LET ends == (now + 1) % DayLength = 0 IN
    /\ now < Horizon
    /\ ends => sold[Today] = Foreseen[Dow(Today)]
    /\ now' = now + 1
    /\ closing' = IF ends THEN [closing EXCEPT ![Today] = left] ELSE closing
    /\ UNCHANGED <<sold, left, bought, daily>>

(* snapshot: of today as of this moment, after the days up to yesterday,    *)
(* without what is sold already; of a day that was missed as of its end.    *)
LiveRow == [asOf |-> now, book |-> left, lastDay |-> Today - 1, doneToday |-> sold[Today]]
PastRow(d) == [asOf |-> Midnight(d), book |-> closing[d], lastDay |-> d, doneToday |-> 0]

(* journal: today's row is written anew each time, the others are not. *)
Journal ==
  /\ daily' = [d \in Days |-> IF d = Today THEN LiveRow
                              ELSE IF d < Today /\ daily[d] = None THEN PastRow(d) ELSE daily[d]]
  /\ daily' # daily
  /\ UNCHANGED <<now, sold, left, closing, bought>>

Next == Sell \/ Deliver \/ HourPasses \/ Journal

Spec == Init /\ [][Next]_forecastVars

---------------------------------------------------------------------------
(* drinksCurve, itemCurve: what is used in the first h days after lastDay,  *)
(* the first of them without what had been sold.                            *)
Mu(row, h) ==
  LET mu == Foreseen[Dow(row.lastDay + h)] IN IF h = 1 THEN Max({0, mu - row.doneToday}) ELSE mu

Mean(row, h) == MapThenSumSet(LAMBDA k : Mu(row, k), 1 .. h)

(* curveAt, of a time in hours, times DayLength: between two days it is a   *)
(* line, beyond the curve its last value.                                   *)
CurveAt(row, hours) ==
  LET x == Min({hours, CurveDays * DayLength})
      i == x \div DayLength
      hi == Mean(row, Min({i + 1, CurveDays}))
  IN Mean(row, i) * DayLength + (hi - Mean(row, i)) * (x % DayLength)

(* coverDays: the day in whose course the curve takes the last of the       *)
(* stock; here: whether that is after the first days of it.                 *)
Lasts(row, stock, days) == \A h \in 1 .. days : Mean(row, h) <= stock

(* stockStatus: the curve of the newest row, the stock of now *)
Newest == daily[Max({d \in Days : daily[d] # None})]
HasRow == \E d \in Days : daily[d] # None
Status == IF Mean(Newest, CoverDays) = 0 THEN "nonorm"
          ELSE IF Lasts(Newest, left, CoverDays) THEN "ok" ELSE "low"

(* compare: what the row of a day foresaw for now, times DayLength *)
BoughtAfter(t) == Lot * Cardinality({b \in bought : b > t})
Projected(row) == (row.book + BoughtAfter(row.asOf)) * DayLength - CurveAt(row, now - row.asOf)

---------------------------------------------------------------------------

TypeOK ==
  /\ now \in 0 .. Horizon /\ left \in 0 .. StartMax + Lot * Deliveries
  /\ \A d \in Days : sold[d] \in 0 .. Foreseen[Dow(d)]
  /\ bought \subseteq 0 .. Horizon

Ahead(days) == MapThenSumSet(LAMBDA k : Foreseen[Dow(Today + k)], 1 .. days)
RestOfToday == Foreseen[Dow(Today)] - sold[Today]

(* "ok" and "low" of the screen and of the alert are true, whenever they    *)
(* are asked for since the day's first row, and whatever was sold or        *)
(* brought since: an ok stock lasts today and the CoverDays - 1 days after, *)
(* a low one not longer than CoverDays whole days (stock.js:385-418).       *)
StatusIsTrue ==
  daily[Today] # None =>
    /\ Status = "ok" => left >= RestOfToday + Ahead(CoverDays - 1)
    /\ Status = "low" => left < Foreseen[Dow(Today)] + Ahead(CoverDays - 1)

(* A row of a midnight, as the ones of missed days are, foresees each later *)
(* midnight, whatever was bought since (admin-stock.js:86-99).              *)
WithinCurve(row) == now - row.asOf \in 0 .. CurveDays * DayLength
Rows == {daily[d] : d \in {e \in Days : daily[e] # None}}
RowsForesee ==
  now % DayLength = 0 /\ sold[Today] = 0 =>
    \A row \in Rows :
      row.asOf % DayLength = 0 /\ row.doneToday = 0 /\ WithinCurve(row) => Projected(row) = left * DayLength

ForecastIsTrue == StatusIsTrue /\ RowsForesee

(* "the stock at the end of the day X days ago, plus what was bought after, *)
(* less the forecast of the time that has passed" (docs/stock.md): whole    *)
(* days after a row, with all of its day sold before it, and of today too.  *)
(* The curve of such a row begins with a day of nothing.                    *)
LiveRowsForesee ==
  sold[Today] = Foreseen[Dow(Today)] =>
    \A row \in Rows :
      (now - row.asOf) % DayLength = 0 /\ row.doneToday = Foreseen[Dow(row.lastDay + 1)] /\ WithinCurve(row)
        => Projected(row) = left * DayLength
=============================================================================
