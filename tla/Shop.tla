-------------------------------- MODULE Shop --------------------------------
(***************************************************************************)
(* What a player buys for coins and beans and gets at once (the API,       *)
(* purchases.js and crate.js; the screens ShopItem.jsx and Crate.jsx), and *)
(* the crates they open.  Several requests of one player run at the same   *)
(* time: two tabs, two taps, a request whose answer was lost and the next. *)
(*                                                                         *)
(* Abstractions: a request is its statements between the locks it takes,   *)
(* and a transaction shows what it wrote when it commits.  Of the care and *)
(* the clothing bought directly, which differ in the column or the table   *)
(* they fill, one stands for all; a discount is the matter of              *)
(* DiscountQueue.                                                          *)
(***************************************************************************)
EXTENDS Integers, FiniteSets, FiniteSetsExt

CONSTANTS
  Tabs,        \* screens of the player
  Calls,       \* requests the API works at
  Crates,      \* rows user_crates may get (a bound): numbers, the oldest first
  Kinds,       \* the pieces of clothing a crate may hold
  PriceOf,     \* economy.json: the price of "crate", "care", "sapling" and "sapling_beans"
  Rate,        \* the coins for a bean
  Loot,        \* the coins a crate may hold
  Start,       \* the balances at first
  None

Purses == {"silver", "yellow", "beans"}
Balances == [Purses -> Int]
ConstantsAreSound ==
  /\ Crates \subseteq Nat /\ IsFiniteSet(Crates) /\ IsFiniteSet(Kinds) /\ Loot \subseteq Nat
  /\ PriceOf \in [{"crate", "care", "sapling", "sapling_beans"} -> Nat] /\ Rate \in Nat
  /\ Start \in Balances /\ \A p \in Purses : Start[p] >= 0

VARIABLES
  wallet,      \* users: coins_silver, coins_yellow, beans
  ledger,      \* the sum of ledger_entries
  got,         \* how many of each were bought, and how many beans exchanged
  closed,      \* user_crates without opened_at
  openings,    \* crate_openings: the crate and the coins of each
  items,       \* user_items, by kind
  call,        \* the transactions
  tab

shopVars == <<wallet, ledger, got, closed, openings, items, call, tab>>

ForCoins == {"crate", "care", "sapling"}
ForBeans == {"sapling_beans", "exchange"}
Goods == ForCoins \cup ForBeans

Sum(a, b) == [c \in DOMAIN a |-> a[c] + b[c]]
Nothing == [silver |-> 0, yellow |-> 0, beans |-> 0]
Idle == [at |-> "idle", what |-> None, delta |-> Nothing, crate |-> None, kind |-> None]
Rest == [at |-> "rest", what |-> None, call |-> None]

Init ==
  /\ wallet = Start /\ ledger = Nothing
  /\ got = [g \in Goods |-> 0]
  /\ closed = {} /\ openings = {} /\ items = [k \in Kinds |-> 0]
  /\ call = [c \in Calls |-> Idle] /\ tab = [t \in Tabs |-> Rest]

rows == <<wallet, ledger, got, closed, openings, items>>

-----------------------------------------------------------------------------
(* The screen: the price opens a popup, the popup sends one request and is  *)
(* deaf until it is answered; an answer that is lost is an error to it.     *)

Confirm(t, what) ==
  /\ tab[t].at = "rest"
  /\ tab' = [tab EXCEPT ![t] = [@ EXCEPT !.at = "confirm", !.what = what]]
  /\ UNCHANGED <<rows, call>>

Cancel(t) ==
  /\ tab[t].at = "confirm"
  /\ tab' = [tab EXCEPT ![t] = Rest]
  /\ UNCHANGED <<rows, call>>

Send(t, c) ==
  /\ tab[t].at = "confirm" /\ call[c] = Idle
  /\ tab' = [tab EXCEPT ![t] = [@ EXCEPT !.at = "busy", !.call = c]]
  /\ call' = [call EXCEPT ![c] = [Idle EXCEPT !.at = "begins", !.what = tab[t].what]]
  /\ UNCHANGED rows

\* The button of the stock opens a crate without asking.
OpenCrate(t, c) ==
  /\ tab[t].at = "rest" /\ closed # {} /\ call[c] = Idle
  /\ tab' = [tab EXCEPT ![t] = [at |-> "busy", what |-> "open", call |-> c]]
  /\ call' = [call EXCEPT ![c] = [Idle EXCEPT !.at = "begins", !.what = "open"]]
  /\ UNCHANGED rows

Answered(t) ==
  /\ tab[t].at = "busy" /\ call[tab[t].call].at = "done"
  /\ call' = [call EXCEPT ![tab[t].call] = Idle]
  /\ tab' = [tab EXCEPT ![t] = Rest]
  /\ UNCHANGED rows

GivesUp(t) ==
  /\ tab[t].at = "busy"
  /\ tab' = [tab EXCEPT ![t] = Rest]
  /\ UNCHANGED <<rows, call>>

-----------------------------------------------------------------------------
(* Money.                                                                   *)

\* Nobody holds the row of the player: select ... for update, or an update.
MayPay == \A c \in Calls : call[c].at \notin {"spent", "coined"}

\* Silver first, then yellow (spendCoins).
Coins(price) ==
  LET silver == Min({wallet.silver, price}) IN
    [silver |-> -silver, yellow |-> silver - price, beans |-> 0]

\* What a good costs and what an exchange brings; n beans are exchanged.
Costs(what, n) ==
  CASE what \in ForCoins -> Coins(PriceOf[what])
    [] what = "exchange" -> [silver |-> 0, yellow |-> n * Rate, beans |-> -n]
    [] OTHER -> [silver |-> 0, yellow |-> 0, beans |-> -PriceOf[what]]

Enough(what, n) ==
  IF what \in ForCoins THEN wallet.silver + wallet.yellow >= PriceOf[what]
  ELSE wallet.beans >= IF what = "exchange" THEN n ELSE PriceOf[what]

Spend(c, n) ==
  /\ call[c].at = "begins" /\ call[c].what \in Goods
  /\ call[c].what # "exchange" => n = 1
  /\ MayPay
  /\ call' = [call EXCEPT ![c] =
       IF Enough(@.what, n) THEN [@ EXCEPT !.at = "spent", !.delta = Costs(call[c].what, n)]
       ELSE [@ EXCEPT !.at = "done"]]
  /\ UNCHANGED <<rows, tab>>

\* What was paid for is given, and the transaction ends.
NewCrate(what) == IF what = "crate" THEN {Cardinality(closed) + Cardinality(openings) + 1} ELSE {}
Give(c) ==
  /\ call[c].at = "spent"
  /\ NewCrate(call[c].what) \subseteq Crates
  /\ wallet' = Sum(wallet, call[c].delta) /\ ledger' = Sum(ledger, call[c].delta)
  /\ got' = [got EXCEPT ![call[c].what] = @ + IF call[c].what = "exchange" THEN -call[c].delta.beans ELSE 1]
  /\ closed' = closed \cup NewCrate(call[c].what)
  /\ call' = [call EXCEPT ![c] = [Idle EXCEPT !.at = "done"]]
  /\ UNCHANGED <<openings, items, tab>>

-----------------------------------------------------------------------------
(* Crates.                                                                  *)

\* Mutant of Free: select ... for nothing.
FreeOrNot == closed
\* The oldest one that no other request has locked (skip locked).
Free == closed \ {call[c].crate : c \in Calls}
Pick(c) ==
  /\ call[c].at = "begins" /\ call[c].what = "open"
  /\ call' = [call EXCEPT ![c] = IF Free = {} THEN [@ EXCEPT !.at = "done"]
                                 ELSE [@ EXCEPT !.at = "picked", !.crate = Min(Free)]]
  /\ UNCHANGED <<rows, tab>>

\* openCrate: the piece of clothing, then the coins, with the row of the player.
Roll(c, kind, coins) ==
  /\ call[c].at = "picked" /\ MayPay
  /\ call' = [call EXCEPT ![c] = [@ EXCEPT !.at = "coined", !.kind = kind, !.delta.yellow = coins]]
  /\ UNCHANGED <<rows, tab>>

Opened(c) ==
  /\ call[c].at = "coined"
  /\ wallet' = Sum(wallet, call[c].delta) /\ ledger' = Sum(ledger, call[c].delta)
  /\ items' = [items EXCEPT ![call[c].kind] = @ + 1]
  /\ openings' = openings \cup {[crate |-> call[c].crate, coins |-> call[c].delta.yellow]}
  /\ closed' = closed \ {call[c].crate}
  /\ call' = [call EXCEPT ![c] = [Idle EXCEPT !.at = "done"]]
  /\ UNCHANGED <<got, tab>>

-----------------------------------------------------------------------------
\* The transaction is rolled back: an error, or the process died.
RollsBack(c) ==
  /\ call[c].at \in {"spent", "picked", "coined"}
  /\ call' = [call EXCEPT ![c] = [Idle EXCEPT !.at = "done"]]
  /\ UNCHANGED <<rows, tab>>

\* Nobody waits for the answer any more.
Dropped(c) ==
  /\ call[c].at = "done" /\ \A t \in Tabs : tab[t].call # c
  /\ call' = [call EXCEPT ![c] = Idle]
  /\ UNCHANGED <<rows, tab>>

Next ==
  \/ \E t \in Tabs :
       \/ \E g \in Goods : Confirm(t, g)
       \/ Cancel(t) \/ Answered(t) \/ GivesUp(t)
       \/ \E c \in Calls : Send(t, c) \/ OpenCrate(t, c)
  \/ \E c \in Calls :
       \/ \E n \in 1..Start.beans : Spend(c, n)
       \/ Give(c) \/ Pick(c) \/ Opened(c) \/ RollsBack(c) \/ Dropped(c)
       \/ \E k \in Kinds, coins \in Loot : Roll(c, k, coins)

Spec == Init /\ [][Next]_shopVars

-----------------------------------------------------------------------------
TypeOK ==
  /\ wallet \in Balances /\ ledger \in Balances /\ got \in [Goods -> Nat]
  /\ closed \subseteq Crates /\ items \in [Kinds -> Nat]
  /\ \A o \in openings : o.crate \in Crates /\ o.coins \in Loot
  /\ \A c \in Calls : call[c].at \in {"idle", "begins", "spent", "picked", "coined", "done"}
  /\ \A t \in Tabs : tab[t].at \in {"rest", "confirm", "busy"}

\* Nothing is owed, the ledger tells the wallet, and the wallet tells what was
\* bought: whatever two tabs or a second try do at once, each paid price has its
\* good, and each crate that is opened its one piece of clothing and its coins.
CostOf(what) == got[what] * IF what = "exchange" THEN -Rate ELSE PriceOf[what]
CoinsFound == SumFunction([o \in openings |-> o.coins])

NothingIsOwed == \A c \in DOMAIN wallet : wallet[c] >= 0 /\ wallet[c] = Start[c] + ledger[c]
CoinsAddUp ==
  wallet.silver + wallet.yellow
      + CostOf("crate") + CostOf("care") + CostOf("sapling") + CostOf("exchange")
    = Start.silver + Start.yellow + CoinsFound
BeansAddUp == wallet.beans + CostOf("sapling_beans") + got["exchange"] = Start.beans
CratesAddUp ==
  /\ got["crate"] = Cardinality(closed) + Cardinality(openings)
  /\ SumFunction(items) = Cardinality(openings)
WalletAddsUp == NothingIsOwed /\ CoinsAddUp /\ BeansAddUp /\ CratesAddUp

\* What makes it inductive: what a transaction has charged is the price and can be
\* paid, since it has the row of the player (OneHasThePurse); a crate is with the
\* request that locked it; and the crates are numbered one after the other.
CallRow == [at : {"idle", "begins", "spent", "picked", "coined", "done"},
            what : Goods \cup {"open", None}, delta : Balances, crate : Crates \cup {None},
            kind : Kinds \cup {None}]
TabRow == [at : {"rest", "confirm", "busy"}, what : Goods \cup {"open", None}, call : Calls \cup {None}]
TabsAreTyped ==
  tab \in [Tabs -> TabRow] /\ \A t \in Tabs : tab[t].at = "busy" => tab[t].call \in Calls
Typed ==
  /\ wallet \in Balances /\ ledger \in Balances /\ got \in [Goods -> Nat]
  /\ closed \subseteq Crates /\ items \in [Kinds -> Nat]
  /\ openings \subseteq [crate : Crates, coins : Loot] /\ IsFiniteSet(openings)
  /\ call \in [Calls -> CallRow] /\ TabsAreTyped

HasPurse(at) == at \in {"spent", "coined"}
HasCrate(at) == at \in {"picked", "coined"}

IsPriceOf(what, d) ==
  /\ what \in ForCoins => d.silver + d.yellow = -PriceOf[what] /\ d.beans = 0
  /\ what = "exchange" => d.silver = 0 /\ d.yellow = (-d.beans) * Rate /\ d.beans <= 0
  /\ what = "sapling_beans" => d.silver = 0 /\ d.yellow = 0 /\ d.beans = -PriceOf[what]
CallIsTrue(r) ==
  /\ r.at \in {"begins", "picked"} => r.delta = Nothing
  /\ r.at = "spent" => /\ r.what \in Goods /\ IsPriceOf(r.what, r.delta)
                       /\ \A p \in Purses : wallet[p] + r.delta[p] >= 0
  /\ HasCrate(r.at) => r.crate \in closed
  /\ r.at = "coined" => /\ r.kind \in Kinds /\ r.delta.yellow \in Loot
                        /\ r.delta.silver = 0 /\ r.delta.beans = 0
CallsAreTrue == \A c \in Calls : CallIsTrue(call[c])

OneHasThePurse == \A c, d \in Calls : HasPurse(call[c].at) /\ HasPurse(call[d].at) => c = d
OneHasACrate ==
  \A c, d \in Calls : HasCrate(call[c].at) /\ HasCrate(call[d].at) /\ call[c].crate = call[d].crate => c = d

OpenedCrates == {o.crate : o \in openings}
CratesAreNumbered ==
  /\ closed \cup OpenedCrates = 1..(Cardinality(closed) + Cardinality(openings))
  /\ closed \cap OpenedCrates = {}

ShopInv ==
  Typed /\ CallsAreTrue /\ OneHasThePurse /\ OneHasACrate /\ CratesAreNumbered /\ WalletAddsUp
=============================================================================
