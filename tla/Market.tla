------------------------------- MODULE Market -------------------------------
(***************************************************************************)
(* Who owns what: the plants of the players, the clothes they wear and the *)
(* market where both are sold (api/routes/market.js, plants.js,            *)
(* wardrobe.js, wallet.js, account.js).                                    *)
(*                                                                         *)
(* A request is a transaction of Postgres at read committed.  Where the    *)
(* rows it locks first are all it decides on, it is one action: another    *)
(* request on these rows waits, or one of two that wait for each other is  *)
(* aborted and changes nothing.  Three requests decide on more than they   *)
(* lock, and are two actions: the sale and the gift of a plant count the   *)
(* owner's plants, and putting on a set locks nothing at all.  So are the  *)
(* sale of an item (the deletion of the account does not see a listing     *)
(* that is not committed) and the deletion (sessions end after it).        *)
(*                                                                         *)
(* Abstractions: one price and one currency; every plant is grown and      *)
(* every tier pays beans; items come from nowhere (shop, crates and drops  *)
(* only insert rows).                                                      *)
(***************************************************************************)
EXTENDS Integers, Sequences, FiniteSets, FiniteSetTheorems, TLAPS

Ext == INSTANCE FiniteSetsExt

CONSTANTS
  Players,
  Plants,
  Items,
  Slots,
  SlotOf,        \* the slot of an item
  Price,
  Commission,    \* of a price, rounded
  Amounts,       \* what a transfer may be of
  Nobody,        \* owner of what does not exist yet
  Gone           \* owner of what was deleted

ASSUME PlayersAreFinite == IsFiniteSet(Players)
ASSUME SlotsAreOfItems == SlotOf \in [Items -> Slots]
ASSUME CommissionIsAPart == Price \in Nat /\ Commission \in 0..Price
ASSUME AmountsAreAboveZero == Amounts \subseteq Nat \ {0}
ASSUME NamesDiffer ==
  /\ Nobody # Gone /\ Nobody \notin Players /\ Gone \notin Players \cup Plants
  /\ Plants \cap Items = {}

VARIABLES
  plants,        \* owner, listing (0: none), worn set (0: none)
  items,         \* user_items: user, locked, set, listing
  room,          \* wardrobe_set_items: the set an item is in (0: none)
  sets,          \* wardrobe_sets by id: plant (Gone once deleted), gifted
  listings,      \* market_listings by id
  trades,        \* market_trades, oldest first
  coins,         \* coins_yellow
  rewards,       \* ledger_entries with reason 'wardrobe_set': items of each
  requests,      \* transactions that hold locks or stale reads
  deleted,       \* accounts with deleted_at
  online         \* players with a session

wardrobeVars == <<items, room, sets, rewards>>
marketVars == <<listings, trades, coins>>
accountVars == <<deleted, online>>
vars == <<plants, wardrobeVars, marketVars, requests, accountVars>>

Sets == 1..Len(sets)
Listings == 1..Len(listings)
OwnPlants(u) == {p \in Plants : plants[p].owner = u}
Fitting(p) == {s \in Sets : sets[s].plant = p /\ ~sets[s].gifted}
Listing(u, thing) == [seller |-> u, thing |-> thing, status |-> "active"]
Request(op, u, thing, arg) == [op |-> op, user |-> u, thing |-> thing, arg |-> arg]

\* Rows under for update of a request that has not committed.
Held == {r.thing : r \in {r \in requests : r.op # "wear"}}

Init ==
  /\ plants \in [Plants -> [owner : Players \cup {Nobody}, listing : {0}, worn : {0}]]
  /\ items \in [Items -> [user : Players, locked : {FALSE}, set : {0}, listing : {0}]]
  /\ room = [i \in Items |-> 0] /\ sets = << >> /\ rewards = << >>
  /\ listings = << >> /\ trades = << >>
  /\ coins \in [Players -> {Price}]
  /\ requests = {} /\ deleted = {} /\ online = Players

(***************************************************************************)
(* What the handlers share: the tables after a statement.                  *)
(***************************************************************************)

\* user_items and wardrobe_set_items without the items of I in any set.
Undressed(I) == [i \in Items |-> IF i \in I THEN [items[i] EXCEPT !.set = 0] ELSE items[i]]
Emptied(I) == [i \in Items |-> IF i \in I THEN 0 ELSE room[i]]

\* The sets of S deleted, and their items (on delete cascade).
WithoutSets(S) ==
  [s \in Sets |-> IF s \in S THEN [sets[s] EXCEPT !.plant = Gone] ELSE sets[s]]

\* What is in the fitting room of p.
InFitting(p) == {i \in Items : room[i] \in Fitting(p)}

\* releaseFittingRoom: the unfinished set is gone, its items are back in the
\* wardrobe of the owner.
ReleaseFittingRoom(p) ==
  /\ items' = [i \in Items |-> IF items[i].set \in Fitting(p)
                               THEN [items[i] EXCEPT !.set = 0] ELSE items[i]]
  /\ room' = Emptied(InFitting(p))
  /\ sets' = WithoutSets(Fitting(p))

\* plants.worn_set_id is a foreign key, on delete set null.
WornAfter(p, deletedSets) == IF plants[p].worn \in deletedSets THEN 0 ELSE plants[p].worn

(***************************************************************************)
(* The market.                                                             *)
(***************************************************************************)

ListItemBegin(u, i) ==
  /\ u \in online /\ i \notin Held
  /\ items[i].user = u /\ ~items[i].locked
  /\ items[i].listing = 0 /\ items[i].set = 0
  /\ requests' = requests \cup {Request("list_item", u, i, 0)}
  /\ UNCHANGED <<plants, wardrobeVars, marketVars, accountVars>>

ListItemCommit(r) ==
  /\ r \in requests /\ r.op = "list_item"
  /\ listings' = Append(listings, Listing(r.user, r.thing))
  /\ items' = [items EXCEPT ![r.thing].listing = Len(listings) + 1]
  /\ requests' = requests \ {r}
  /\ UNCHANGED <<plants, room, sets, rewards, trades, coins, accountVars>>

\* The last plant is not sold: the plants without a listing are counted.
ListPlantBegin(u, p) ==
  /\ u \in online /\ p \notin Held
  /\ plants[p].owner = u /\ plants[p].listing = 0
  /\ Cardinality({q \in OwnPlants(u) : plants[q].listing = 0}) > 1
  /\ requests' = requests \cup {Request("list_plant", u, p, 0)}
  /\ UNCHANGED <<plants, wardrobeVars, marketVars, accountVars>>

ListPlantCommit(r) ==
  LET p == r.thing
  IN /\ r \in requests /\ r.op = "list_plant"
     /\ listings' = Append(listings, Listing(r.user, p))
     /\ plants' = [plants EXCEPT ![p] = [@ EXCEPT !.listing = Len(listings) + 1,
                                                  !.worn = WornAfter(p, Fitting(p))]]
     /\ ReleaseFittingRoom(p)
     /\ requests' = requests \ {r}
     /\ UNCHANGED <<rewards, trades, coins, accountVars>>

\* The things of the listings L are on sale no more.
OffSale(L) ==
  /\ items' = [i \in Items |-> IF \E l \in L : listings[l].thing = i
                               THEN [items[i] EXCEPT !.listing = 0] ELSE items[i]]
  /\ plants' = [p \in Plants |-> IF \E l \in L : listings[l].thing = p
                                 THEN [plants[p] EXCEPT !.listing = 0] ELSE plants[p]]

Closed(L, status) ==
  [l \in Listings |-> IF l \in L THEN [listings[l] EXCEPT !.status = status]
                      ELSE listings[l]]

\* Mutant of Cancel: the status is not looked at.
CancelAny(u, l) ==
  /\ u \in online /\ listings[l].thing \notin Held
  /\ listings[l].seller = u
  /\ listings' = Closed({l}, "cancelled")
  /\ OffSale({l})
  /\ UNCHANGED <<room, sets, rewards, trades, coins, requests, accountVars>>

Cancel(u, l) ==
  /\ u \in online /\ listings[l].thing \notin Held
  /\ listings[l].seller = u /\ listings[l].status = "active"
  /\ listings' = Closed({l}, "cancelled")
  /\ OffSale({l})
  /\ UNCHANGED <<room, sets, rewards, trades, coins, requests, accountVars>>

\* Mutant of MaySell: a listing that is gone can be bought.
MaySellAny(u, l) == listings[l].seller # u /\ coins[u] >= Price

\* The listing is locked: what is not active is already gone.
MaySell(u, l) ==
  listings[l].status = "active" /\ listings[l].seller # u /\ coins[u] >= Price

\* The commission stays with nobody.
Pay(u, l) ==
  /\ coins' = [coins EXCEPT ![u] = @ - Price,
                            ![listings[l].seller] = @ + (Price - Commission)]
  /\ trades' = Append(trades, [listing |-> l, buyer |-> u])
  /\ listings' = Closed({l}, "sold")

BuyItem(u, l) ==
  LET i == listings[l].thing
  IN /\ u \in online /\ i \in Items \ Held
     /\ MaySell(u, l)
     /\ Pay(u, l)
     /\ items' = [items EXCEPT ![i] = [@ EXCEPT !.user = u, !.listing = 0]]
     /\ UNCHANGED <<plants, room, sets, rewards, requests, accountVars>>

\* The gifted sets go with the plant; their rows of user_items are not touched.
BuyPlant(u, l) ==
  LET p == listings[l].thing
  IN /\ u \in online /\ p \in Plants \ Held
     /\ MaySell(u, l)
     /\ Pay(u, l)
     /\ ReleaseFittingRoom(p)
     /\ plants' = [plants EXCEPT ![p] = [owner |-> u, listing |-> 0, worn |-> 0]]
     /\ UNCHANGED <<rewards, requests, accountVars>>

(***************************************************************************)
(* The plant.                                                              *)
(***************************************************************************)

\* Not the last one: all the plants are counted, those on sale too.
GiftPlantBegin(u, p, v) ==
  /\ u \in online /\ p \notin Held
  /\ plants[p].owner = u /\ plants[p].listing = 0
  /\ v # u /\ v \notin deleted
  /\ Cardinality(OwnPlants(u)) > 1
  /\ requests' = requests \cup {Request("gift_plant", u, p, v)}
  /\ UNCHANGED <<plants, wardrobeVars, marketVars, accountVars>>

GiftPlantCommit(r) ==
  LET p == r.thing
  IN /\ r \in requests /\ r.op = "gift_plant"
     /\ items' = [i \in Items |->
                    IF items[i].set \in Fitting(p) THEN [items[i] EXCEPT !.set = 0]
                    ELSE IF room[i] # 0 /\ sets[room[i]].plant = p
                         THEN [items[i] EXCEPT !.user = r.arg] ELSE items[i]]
     /\ room' = Emptied(InFitting(p))
     /\ sets' = WithoutSets(Fitting(p))
     /\ plants' = [plants EXCEPT ![p] = [@ EXCEPT !.owner = r.arg,
                                                  !.worn = WornAfter(p, Fitting(p))]]
     /\ requests' = requests \ {r}
     /\ UNCHANGED <<rewards, marketVars, accountVars>>

\* The plant dies with its gifted sets and their items; a sapling q is born.
Scythe(u, p, q) ==
  LET gifted == {s \in Sets : sets[s].plant = p /\ sets[s].gifted}
  IN /\ u \in online /\ p \notin Held
     /\ plants[p].owner = u /\ plants[p].listing = 0
     /\ plants[q].owner = Nobody
     /\ items' = [i \in Items |->
                    IF items[i].set \in Fitting(p) THEN [items[i] EXCEPT !.set = 0]
                    ELSE IF room[i] \in gifted
                         THEN [items[i] EXCEPT !.user = Gone, !.set = 0]
                         ELSE items[i]]
     /\ room' = Emptied({i \in Items : room[i] \in gifted \cup Fitting(p)})
     /\ sets' = WithoutSets(gifted \cup Fitting(p))
     /\ plants' = [plants EXCEPT ![p] = [owner |-> Gone, listing |-> 0, worn |-> 0],
                                 ![q] = [owner |-> u, listing |-> 0, worn |-> 0]]
     /\ UNCHANGED <<rewards, marketVars, requests, accountVars>>

(***************************************************************************)
(* The wardrobe.                                                           *)
(***************************************************************************)

\* fittingFor: the newest unfinished set, or a new one.
RoomFor(p) == IF Fitting(p) = {} THEN Len(sets) + 1 ELSE Ext!Max(Fitting(p))
WithRoomFor(p) == IF Fitting(p) = {} THEN Append(sets, [plant |-> p, gifted |-> FALSE])
                  ELSE sets

\* Mutant of MayPut: an item on the market can be tried on.
MayPutListed(u, i) ==
  /\ items[i].user = u /\ ~items[i].locked
  /\ items[i].set # 0 => ~sets[items[i].set].gifted

\* An item may come from the fitting room of another plant.
MayPut(u, i) ==
  /\ items[i].user = u /\ ~items[i].locked /\ items[i].listing = 0
  /\ items[i].set # 0 => ~sets[items[i].set].gifted

\* The slot of an item is emptied first, and what is tried on is worn.
Put(u, p, i) ==
  LET s == RoomFor(p)
      off == {j \in Items : room[j] = s /\ SlotOf[j] = SlotOf[i]} \cup {i}
  IN /\ u \in online /\ p \notin Held /\ off \cap Held = {}
     /\ plants[p].owner = u /\ plants[p].listing = 0
     /\ MayPut(u, i)
     /\ sets' = WithRoomFor(p)
     /\ items' = [Undressed(off) EXCEPT ![i].set = s]
     /\ room' = [Emptied(off) EXCEPT ![i] = s]
     /\ plants' = [plants EXCEPT ![p].worn = s]
     /\ UNCHANGED <<rewards, marketVars, requests, accountVars>>

\* user_item_id = null: the slot is emptied.
TakeOff(u, p, slot) ==
  LET s == RoomFor(p)
      off == {j \in Items : room[j] = s /\ SlotOf[j] = slot}
  IN /\ u \in online /\ p \notin Held /\ off \cap Held = {}
     /\ plants[p].owner = u /\ plants[p].listing = 0
     /\ sets' = WithRoomFor(p)
     /\ items' = Undressed(off)
     /\ room' = Emptied(off)
     /\ plants' = [plants EXCEPT ![p].worn = s]
     /\ UNCHANGED <<rewards, marketVars, requests, accountVars>>

\* DELETE wardrobe: nothing is taken apart, on sale or not.
TakeOffAll(u, p) ==
  /\ u \in online /\ p \notin Held
  /\ plants[p].owner = u
  /\ plants' = [plants EXCEPT ![p].worn = 0]
  /\ UNCHANGED <<wardrobeVars, marketVars, requests, accountVars>>

\* wear reads the plant and the set ...
WearRead(u, p, s) ==
  /\ u \in online
  /\ plants[p].owner = u /\ plants[p].listing = 0 /\ sets[s].plant = p
  /\ requests' = requests \cup {Request("wear", u, p, s)}
  /\ UNCHANGED <<plants, wardrobeVars, marketVars, accountVars>>

\* ... and updates the plant by its id, whoever owns it by now; the foreign
\* key refuses a set that is gone.
WearWrite(r) ==
  LET p == r.thing
  IN /\ r \in requests /\ r.op = "wear" /\ p \notin Held
     /\ plants' = IF plants[p].owner # Gone /\ sets[r.arg].plant # Gone
                  THEN [plants EXCEPT ![p].worn = r.arg] ELSE plants
     /\ requests' = requests \ {r}
     /\ UNCHANGED <<wardrobeVars, marketVars, accountVars>>

\* Mutant of GiftSet: the items stay free.
GiftSetUnlocked(u, p) ==
  \E s \in Fitting(p) :
    /\ u \in online /\ p \notin Held
    /\ plants[p].owner = u
    /\ {SlotOf[i] : i \in InFitting(p)} = Slots
    /\ sets' = [sets EXCEPT ![s].gifted = TRUE]
    /\ rewards' = Append(rewards, InFitting(p))
    /\ UNCHANGED <<items, plants, room, marketVars, requests, accountVars>>

\* The full fitting room is given to the plant: its items are locked for
\* good and the owner is paid in beans.
GiftSet(u, p) ==
  \E s \in Fitting(p) :
    /\ u \in online /\ p \notin Held
    /\ plants[p].owner = u
    /\ {SlotOf[i] : i \in InFitting(p)} = Slots
    /\ sets' = [sets EXCEPT ![s].gifted = TRUE]
    /\ items' = [i \in Items |-> IF room[i] = s THEN [items[i] EXCEPT !.locked = TRUE]
                                 ELSE items[i]]
    /\ rewards' = Append(rewards, InFitting(p))
    /\ UNCHANGED <<plants, room, marketVars, requests, accountVars>>

(***************************************************************************)
(* Money and accounts.                                                     *)
(***************************************************************************)

\* POST /me/transfer: as much as there is, to somebody else.
Transfer(u, v, amount) ==
  /\ u \in online /\ v # u /\ v \notin deleted
  /\ coins[u] >= amount
  /\ coins' = [coins EXCEPT ![u] = @ - amount, ![v] = @ + amount]
  /\ UNCHANGED <<plants, wardrobeVars, listings, trades, requests, accountVars>>

\* The account is marked and its listings are taken off the market.
DeleteAccount(u) ==
  LET L == {l \in Listings : listings[l].seller = u /\ listings[l].status = "active"}
  IN /\ u \in online \ deleted
     /\ \A l \in L : listings[l].thing \notin Held
     /\ deleted' = deleted \cup {u}
     /\ listings' = Closed(L, "cancelled")
     /\ OffSale(L)
     /\ UNCHANGED <<room, sets, rewards, trades, coins, requests, online>>

\* dropUserSessions, after the transaction.
DropSessions(u) ==
  /\ u \in deleted \cap online
  /\ online' = online \ {u}
  /\ UNCHANGED <<plants, wardrobeVars, marketVars, requests, deleted>>

MarketStep(u) ==
  \/ \E i \in Items : ListItemBegin(u, i)
  \/ \E p \in Plants : ListPlantBegin(u, p)
  \/ \E l \in Listings : Cancel(u, l) \/ BuyItem(u, l) \/ BuyPlant(u, l)

PlantStep(u) ==
  \E p \in Plants :
    \/ \E v \in Players : GiftPlantBegin(u, p, v)
    \/ \E q \in Plants : Scythe(u, p, q)

WardrobeStep(u) ==
  \E p \in Plants :
    \/ \E i \in Items : Put(u, p, i)
    \/ \E slot \in Slots : TakeOff(u, p, slot)
    \/ TakeOffAll(u, p)
    \/ \E s \in Sets : WearRead(u, p, s)
    \/ GiftSet(u, p)

AccountStep(u) ==
  \/ \E v \in Players, amount \in Amounts : Transfer(u, v, amount)
  \/ DeleteAccount(u)
  \/ DropSessions(u)

Commit ==
  \E r \in requests :
    ListItemCommit(r) \/ ListPlantCommit(r) \/ GiftPlantCommit(r) \/ WearWrite(r)

Next ==
  \/ \E u \in Players : MarketStep(u) \/ PlantStep(u) \/ WardrobeStep(u) \/ AccountStep(u)
  \/ Commit

Spec == Init /\ [][Next]_vars

(***************************************************************************)
(* Properties.                                                             *)
(***************************************************************************)

\* Types of the rows; a request holds its rows alone.
TypeOK ==
  /\ plants \in [Plants -> [owner : Players \cup {Nobody, Gone},
                            listing : {0} \cup Listings, worn : {0} \cup Sets]]
  /\ items \in [Items -> [user : Players \cup {Gone}, locked : BOOLEAN,
                          set : {0} \cup Sets, listing : {0} \cup Listings]]
  /\ room \in [Items -> {0} \cup Sets]
  /\ sets \in Seq([plant : Plants \cup {Gone}, gifted : BOOLEAN])
  /\ listings \in Seq([seller : Players, thing : Plants \cup Items,
                       status : {"active", "sold", "cancelled"}])
  /\ trades \in Seq([listing : Listings, buyer : Players])
  /\ coins \in [Players -> Nat]
  /\ rewards \in Seq(SUBSET Items)
  /\ requests \subseteq [op : {"list_item", "list_plant", "gift_plant", "wear"},
                         user : Players, thing : Plants \cup Items,
                         arg : {0} \cup Sets \cup Players]
  /\ deleted \subseteq Players /\ online \subseteq Players

\* A listing is active exactly while the thing it sells points to it, and
\* its seller owns the thing (market.js:193-196, 205-210, 240-252, 300-311).
OnSaleByItsOwner ==
  /\ \A l \in Listings :
       LET thing == listings[l].thing
       IN listings[l].status = "active" =>
            IF thing \in Items
            THEN items[thing].listing = l /\ items[thing].user = listings[l].seller
            ELSE plants[thing].listing = l /\ plants[thing].owner = listings[l].seller
  /\ \A i \in Items :
       items[i].listing # 0 => listings[items[i].listing] = Listing(items[i].user, i)
  /\ \A p \in Plants :
       plants[p].listing # 0 => listings[plants[p].listing] = Listing(plants[p].owner, p)

\* user_items.set_id and wardrobe_set_items say the same; a fitting room
\* holds one free item of its owner per slot, and a plant has one and wears
\* a set of its own or nothing (wardrobe.js:55-63, 176-221; plants.js:56-66).
FittingRoomIsConsistent ==
  /\ \A i \in Items : items[i].set = room[i]
  /\ \A p \in Plants : Cardinality(Fitting(p)) <= 1
  /\ \A i \in Items, s \in Sets :
       room[i] = s /\ ~sets[s].gifted =>
         /\ sets[s].plant \in Plants
         /\ items[i].user = plants[sets[s].plant].owner
         /\ ~items[i].locked /\ items[i].listing = 0
         /\ \A j \in Items : room[j] = s /\ SlotOf[j] = SlotOf[i] => i = j
  /\ \A p \in Plants : plants[p].worn # 0 => sets[plants[p].worn].plant = p

\* A reward locks a full set for good: no item is paid for twice, and none
\* is sold or worn elsewhere while its plant lives
\* (gamification_economy.md:615-621; wardrobe.js:12-15).
RewardedOnce ==
  /\ \A m, n \in 1..Len(rewards) : rewards[m] \cap rewards[n] # {} => m = n
  /\ \A i \in Items :
       (\E n \in 1..Len(rewards) : i \in rewards[n]) /\ items[i].user # Gone =>
         /\ items[i].locked /\ items[i].listing = 0
         /\ room[i] # 0 /\ sets[room[i]].gifted /\ sets[room[i]].plant # Gone

\* A listing is sold once (market.js:258-318).
SoldOnce == \A m, n \in 1..Len(trades) : trades[m].listing = trades[n].listing => m = n

\* The players in some order, and what they have together.  (The sum is a
\* recursive function over the order, which can be proved about.)
Roll == CHOOSE r \in Bijection(1..Cardinality(Players), Players) : TRUE
Total(c) ==
  LET sum[k \in 0..Cardinality(Players)] ==
        IF k = 0 THEN 0 ELSE sum[k - 1] + c[Roll[k]]
  IN sum[Cardinality(Players)]

\* Every listing is sold once, and coins neither appear nor vanish but for the
\* commission of each sale (market.js:258-318; wallet.js:57-77).
CoinsAreAccountedFor ==
  /\ SoldOnce
  /\ Total(coins) = Cardinality(Players) * Price - Len(trades) * Commission

\* "The last plant is not sold: the player would be left with an empty main
\* screen and no way to play on" (market.js:212-213); "as with the sale, the
\* player is not left without a bush" (plants.js:80-82).
LastPlantStays ==
  [][\A u \in Players : OwnPlants(u) # {} => OwnPlants(u)' # {}]_vars

-----------------------------------------------------------------------------
(***************************************************************************)
(* Proofs: for any players, plants, items and slots the properties hold.   *)
(*                                                                         *)
(* They lean on one another.  What is listed is in no set and not locked   *)
(* (Loose), so neither the wardrobe nor a plant that changes hands touches *)
(* it; what is locked lies in a set that was given (LockedIn, InGift), so  *)
(* nobody lists it; a request that has not committed still finds its row   *)
(* as it left it (Asked), since all others leave locked rows alone; and a  *)
(* set stays with its plant or is gone, so that a stale `wear` can only    *)
(* put a set of its own on a plant.  Together they are IInv; coins, trades *)
(* and the arguments of the requests follow from it (Money).  The sum of   *)
(* all coins is an induction over the players (Balance).                   *)
(***************************************************************************)
Typed ==
  /\ plants \in [Plants -> [owner : Players \cup {Nobody, Gone}, listing : Nat, worn : Nat]]
  /\ items \in [Items -> [user : Players \cup {Gone}, locked : BOOLEAN,
                          set : Nat, listing : Nat]]
  /\ room \in [Items -> Nat]
  /\ sets \in Seq([plant : Plants \cup {Gone}, gifted : BOOLEAN])
  /\ listings \in Seq([seller : Players, thing : Plants \cup Items,
                       status : {"active", "sold", "cancelled"}])
  /\ requests \subseteq [op : {"list_item", "list_plant", "gift_plant", "wear"},
                         user : Players, thing : Plants \cup Items,
                         arg : Nat \cup Players]
  /\ deleted \subseteq Players /\ online \subseteq Players

\* What the rows point to is there.
Pointers ==
  /\ \A i \in Items : room[i] \in {0} \cup Sets /\ items[i].listing \in {0} \cup Listings
  /\ \A p \in Plants : plants[p].worn \in {0} \cup Sets /\ plants[p].listing \in {0} \cup Listings

\* What is on sale is in no set and was not given to a plant.
Loose == \A i \in Items : items[i].listing # 0 => room[i] = 0 /\ ~items[i].locked

\* A plant has one fitting room.
OneRoom ==
  \A s, t \in Sets :
    ~sets[s].gifted /\ ~sets[t].gifted /\ sets[s].plant = sets[t].plant /\ sets[s].plant # Gone
      => s = t

\* What is in a fitting room.
InRoom ==
  \A i \in Items :
    /\ items[i].set = room[i]
    /\ room[i] # 0 /\ ~sets[room[i]].gifted =>
         /\ sets[room[i]].plant \in Plants
         /\ items[i].user = plants[sets[room[i]].plant].owner
         /\ ~items[i].locked
         /\ \A j \in Items : room[j] = room[i] /\ SlotOf[j] = SlotOf[i] => i = j

\* What was given to a plant.
InGift ==
  \A i \in Items :
    room[i] # 0 /\ sets[room[i]].gifted => items[i].locked /\ sets[room[i]].plant # Gone

LockedIn ==
  \A i \in Items :
    items[i].locked /\ items[i].user # Gone => room[i] # 0 /\ sets[room[i]].gifted

GoneIsBare == \A i \in Items : items[i].user = Gone => room[i] = 0

WornIsOwn == \A p \in Plants : plants[p].worn # 0 => sets[plants[p].worn].plant = p

\* What the requests on their way rely on.
Asked ==
  /\ \A r \in requests, t \in requests :
       r.op # "wear" /\ t.op # "wear" /\ r.thing = t.thing => r = t
  /\ \A r \in requests :
       /\ r.op = "list_item" =>
            /\ r.thing \in Items
            /\ items[r.thing].user = r.user
            /\ items[r.thing].listing = 0 /\ room[r.thing] = 0 /\ ~items[r.thing].locked
       /\ r.op \in {"list_plant", "gift_plant"} =>
            /\ r.thing \in Plants
            /\ plants[r.thing].owner = r.user
            /\ plants[r.thing].listing = 0
       /\ r.op = "gift_plant" => r.arg \in Players
       /\ r.op = "wear" =>
            /\ r.thing \in Plants /\ r.arg \in Sets
            /\ sets[r.arg].plant \in {r.thing, Gone}

\* What was rewarded is locked, and in one reward.
Rewarded ==
  /\ rewards \in Seq(SUBSET Items)
  /\ \A n \in 1..Len(rewards) : \A i \in rewards[n] : items[i].locked
  /\ \A m, n \in 1..Len(rewards) : rewards[m] \cap rewards[n] # {} => m = n

\* The invariant of the tables.
IInv ==
  /\ Typed /\ Pointers /\ OnSaleByItsOwner /\ Loose
  /\ OneRoom /\ InRoom /\ InGift /\ LockedIn /\ GoneIsBare /\ WornIsOwn
  /\ Asked /\ Rewarded

\* A sequence with an element more.
LEMMA Longer ==
  ASSUME NEW S, NEW s \in Seq(S), NEW e \in S
  PROVE  /\ Append(s, e) \in Seq(S) /\ Len(s) \in Nat
         /\ Len(Append(s, e)) = Len(s) + 1 /\ Len(s) + 1 # 0
         /\ 1..Len(Append(s, e)) = 1..Len(s) \cup {Len(s) + 1}
         /\ Len(s) + 1 \notin 1..Len(s)
         /\ Append(s, e)[Len(s) + 1] = e
         /\ \A i \in 1..Len(s) : Append(s, e)[i] = s[i]
  OBVIOUS

\* A sequence whose elements are rewritten in their places.
LEMMA Rewritten ==
  ASSUME NEW S, NEW s \in Seq(S), NEW t \in [1..Len(s) -> S]
  PROVE  t \in Seq(S) /\ Len(t) = Len(s)
  OBVIOUS

\* In the beginning nobody sells, asks or wears anything.
LEMMA InitIInv == Init => IInv
<1> SUFFICES ASSUME Init PROVE IInv
  OBVIOUS
<1> USE NamesDiffer DEF Init, Sets, Listings
<1>1. Typed
  <2>1. /\ plants \in [Plants -> [owner : Players \cup {Nobody, Gone}, listing : Nat, worn : Nat]]
        /\ items \in [Items -> [user : Players \cup {Gone}, locked : BOOLEAN,
                                set : Nat, listing : Nat]]
    <3>1. \A p \in Plants : plants[p] \in [owner : Players \cup {Nobody, Gone},
                                          listing : Nat, worn : Nat]
      OBVIOUS
    <3>2. \A i \in Items : items[i] \in [user : Players \cup {Gone}, locked : BOOLEAN,
                                        set : Nat, listing : Nat]
      <4> SUFFICES ASSUME NEW i \in Items
                   PROVE  items[i] \in [user : Players \cup {Gone}, locked : BOOLEAN,
                                       set : Nat, listing : Nat]
        OBVIOUS
      <4>1. items[i] \in [user : Players, locked : {FALSE}, set : {0}, listing : {0}]
        OBVIOUS
      <4>2. {FALSE} \subseteq BOOLEAN /\ {0} \subseteq Nat
        OBVIOUS
      <4> QED
        BY <4>1, <4>2, Zenon
    <3> QED
      BY <3>1, <3>2
  <2> QED
    BY <2>1 DEF Typed
<1>2. \A i \in Items : /\ items[i].listing = 0 /\ items[i].set = 0 /\ ~items[i].locked
                       /\ items[i].user \in Players
  OBVIOUS
<1>3. \A p \in Plants : plants[p].listing = 0 /\ plants[p].worn = 0
  OBVIOUS
<1>4. Pointers /\ OnSaleByItsOwner
  BY <1>2, <1>3 DEF Pointers, OnSaleByItsOwner
<1>5. Loose /\ OneRoom /\ InRoom /\ InGift /\ LockedIn /\ GoneIsBare /\ WornIsOwn
  BY <1>2, <1>3 DEF Loose, OneRoom, InRoom, InGift, LockedIn, GoneIsBare, WornIsOwn
<1>6. Asked /\ Rewarded
  BY DEF Asked, Rewarded
<1> QED
  BY <1>1, <1>4, <1>5, <1>6 DEF IInv

\* The tables as they were, and requests that rely on what is so.
LEMMA SameTables ==
  ASSUME IInv, UNCHANGED <<plants, items, room, sets, rewards, listings>>,
         Asked', deleted' \subseteq Players, online' \subseteq Players,
         requests' \subseteq [op : {"list_item", "list_plant", "gift_plant", "wear"},
                              user : Players, thing : Plants \cup Items, arg : Nat \cup Players]
  PROVE  IInv'
<1>1. Typed'
  BY DEF IInv, Typed
<1>2. (Pointers /\ OnSaleByItsOwner /\ Loose)'
  BY DEF IInv, Pointers, OnSaleByItsOwner, Loose, Sets, Listings, Listing
<1>3. (OneRoom /\ InRoom /\ InGift /\ LockedIn /\ GoneIsBare /\ WornIsOwn)'
  BY DEF IInv, OneRoom, InRoom, InGift, LockedIn, GoneIsBare, WornIsOwn, Sets
<1>4. Rewarded'
  BY DEF IInv, Rewarded
<1> QED
  BY <1>1, <1>2, <1>3, <1>4 DEF IInv

\* A request that finds its row free and as it must be.
LEMMA NewRequest ==
  ASSUME IInv, UNCHANGED <<plants, items, room, sets, rewards, listings, accountVars>>,
         NEW op \in {"list_item", "list_plant", "gift_plant", "wear"}, NEW u \in Players,
         NEW thing \in Plants \cup Items, NEW arg \in Nat \cup Players,
         requests' = requests \cup {Request(op, u, thing, arg)},
         op # "wear" => thing \notin Held,
         op = "list_item" =>
           /\ thing \in Items /\ items[thing].user = u
           /\ items[thing].listing = 0 /\ room[thing] = 0 /\ ~items[thing].locked,
         op \in {"list_plant", "gift_plant"} =>
           thing \in Plants /\ plants[thing].owner = u /\ plants[thing].listing = 0,
         op = "gift_plant" => arg \in Players,
         op = "wear" =>
           thing \in Plants /\ arg \in Sets /\ sets[arg].plant \in {thing, Gone}
  PROVE  IInv'
<1> DEFINE new == Request(op, u, thing, arg)
<1>1. /\ new.op = op /\ new.user = u /\ new.thing = thing /\ new.arg = arg
      /\ new \in [op : {"list_item", "list_plant", "gift_plant", "wear"},
                  user : Players, thing : Plants \cup Items, arg : Nat \cup Players]
  BY DEF Request
<1> HIDE DEF new
<1>2. \A r \in requests : r.op # "wear" /\ new.op # "wear" => r.thing # new.thing
  BY <1>1 DEF Held
<1>3. Asked'
  <2>1. \A r \in requests', t \in requests' :
          r.op # "wear" /\ t.op # "wear" /\ r.thing = t.thing => r = t
    BY <1>2 DEF IInv, Asked, new
  <2>2. ASSUME NEW r \in requests'
        PROVE  /\ r.op = "list_item" =>
                    /\ r.thing \in Items
                    /\ items[r.thing].user = r.user
                    /\ items[r.thing].listing = 0 /\ room[r.thing] = 0
                    /\ ~items[r.thing].locked
               /\ r.op \in {"list_plant", "gift_plant"} =>
                    /\ r.thing \in Plants
                    /\ plants[r.thing].owner = r.user
                    /\ plants[r.thing].listing = 0
               /\ r.op = "gift_plant" => r.arg \in Players
               /\ r.op = "wear" =>
                    /\ r.thing \in Plants /\ r.arg \in Sets
                    /\ sets[r.arg].plant \in {r.thing, Gone}
    <3>1. CASE r = new
      BY <1>1, <3>1
    <3>2. CASE r \in requests
      BY <3>2 DEF IInv, Asked
    <3> QED
      BY <3>1, <3>2 DEF new
  <2> QED
    BY <2>1, <2>2 DEF Asked, Sets
<1>4. requests' \subseteq [op : {"list_item", "list_plant", "gift_plant", "wear"},
                           user : Players, thing : Plants \cup Items, arg : Nat \cup Players]
  BY <1>1 DEF IInv, Typed, new
<1> QED
  BY <1>3, <1>4, SameTables DEF accountVars, IInv, Typed

\* The rows of market_listings.
LEMMA ListingRows ==
  ASSUME IInv, NEW l \in Listings
  PROVE  /\ listings[l].seller \in Players
         /\ listings[l].thing \in Plants \cup Items
         /\ listings[l].status \in {"active", "sold", "cancelled"}
<1> DEFINE Row == [seller : Players, thing : Plants \cup Items,
                   status : {"active", "sold", "cancelled"}]
<1>1. listings \in Seq(Row)
  BY DEF IInv, Typed
<1> HIDE DEF Row
<1>2. listings[l] \in Row
  BY <1>1 DEF Listings
<1> QED
  BY <1>2 DEF Row

\* The rows of wardrobe_sets.
LEMMA SetRows ==
  ASSUME IInv, NEW s \in Sets
  PROVE  sets[s].plant \in Plants \cup {Gone} /\ sets[s].gifted \in BOOLEAN /\ s \in Nat /\ s # 0
<1> DEFINE Row == [plant : Plants \cup {Gone}, gifted : BOOLEAN]
<1>1. sets \in Seq(Row)
  BY DEF IInv, Typed
<1> HIDE DEF Row
<1>2. sets[s] \in Row /\ s \in Nat /\ s # 0
  BY <1>1 DEF Sets
<1> QED
  BY <1>2 DEF Row

\* A request that waits still finds its row, if the others leave its row alone.
LEMMA AskedStays ==
  ASSUME IInv, requests' \subseteq requests,
         \A t \in requests' : t.op = "list_item" =>
           /\ items'[t.thing].user = items[t.thing].user
           /\ items'[t.thing].listing = 0 /\ room'[t.thing] = 0
           /\ items'[t.thing].locked = items[t.thing].locked,
         \A t \in requests' : t.op \in {"list_plant", "gift_plant"} =>
           /\ plants'[t.thing].owner = plants[t.thing].owner
           /\ plants'[t.thing].listing = 0,
         Sets \subseteq Sets',
         \A s \in Sets : sets'[s].plant \in {sets[s].plant, Gone}
  PROVE  Asked'
<1>1. \A r \in requests', t \in requests' :
        r.op # "wear" /\ t.op # "wear" /\ r.thing = t.thing => r = t
  BY DEF IInv, Asked
<1>2. ASSUME NEW r \in requests'
      PROVE  /\ r.op = "list_item" =>
                  /\ r.thing \in Items
                  /\ items'[r.thing].user = r.user
                  /\ items'[r.thing].listing = 0 /\ room'[r.thing] = 0
                  /\ ~items'[r.thing].locked
             /\ r.op \in {"list_plant", "gift_plant"} =>
                  /\ r.thing \in Plants
                  /\ plants'[r.thing].owner = r.user
                  /\ plants'[r.thing].listing = 0
             /\ r.op = "gift_plant" => r.arg \in Players
             /\ r.op = "wear" =>
                  /\ r.thing \in Plants /\ r.arg \in Sets'
                  /\ sets'[r.arg].plant \in {r.thing, Gone}
  BY <1>2 DEF IInv, Asked
<1> QED
  BY <1>1, <1>2 DEF Asked

\* The plants as they were, but for a set that one of them puts on or off.
LEMMA WornChanges ==
  ASSUME IInv, NEW p \in Plants, NEW w \in Nat,
         w # 0 => w \in Sets /\ sets[w].plant = p,
         plants' = [plants EXCEPT ![p].worn = w],
         UNCHANGED <<items, room, sets, rewards, listings, accountVars>>,
         requests' \subseteq requests
  PROVE  IInv'
<1>1. /\ plants' \in [Plants -> [owner : Players \cup {Nobody, Gone}, listing : Nat, worn : Nat]]
      /\ \A q \in Plants : plants'[q].owner = plants[q].owner
                           /\ plants'[q].listing = plants[q].listing
      /\ \A q \in Plants \ {p} : plants'[q].worn = plants[q].worn
      /\ plants'[p].worn = w
  BY DEF IInv, Typed
<1>2. Typed'
  BY <1>1 DEF IInv, Typed, accountVars
<1>3. (Pointers /\ OnSaleByItsOwner /\ Loose)'
  <2>1. Pointers'
    BY <1>1 DEF IInv, Pointers, Sets, Listings
  <2>2. OnSaleByItsOwner'
    <3> QED
      BY <1>1, ListingRows DEF IInv, OnSaleByItsOwner, Listings, Listing
  <2> QED
    BY <2>1, <2>2 DEF IInv, Loose
<1>4. InRoom'
  BY <1>1 DEF IInv, InRoom
<1>5. (OneRoom /\ InGift /\ LockedIn /\ GoneIsBare)'
  BY DEF IInv, OneRoom, InGift, LockedIn, GoneIsBare, Sets
<1>6. WornIsOwn'
  BY <1>1 DEF IInv, WornIsOwn
<1>7. Asked'
  <2>1. \A t \in requests' : /\ t.op = "list_item" => items[t.thing].listing = 0 /\ room[t.thing] = 0
                             /\ t.op \in {"list_plant", "gift_plant"} =>
                                  t.thing \in Plants /\ plants[t.thing].listing = 0
    BY DEF IInv, Asked
  <2> QED
    BY <1>1, <2>1, AskedStays DEF Sets
<1>8. Rewarded'
  BY DEF IInv, Rewarded
<1> QED
  BY <1>2, <1>3, <1>4, <1>5, <1>6, <1>7, <1>8 DEF IInv

\* The requests on their way, the clothes of a plant, coins and sessions.
LEMMA SmallSteps ==
  ASSUME IInv, NEW u \in Players,
         \/ \E i \in Items : ListItemBegin(u, i)
         \/ \E p \in Plants : \/ ListPlantBegin(u, p)
                              \/ \E v \in Players : GiftPlantBegin(u, p, v)
                              \/ \E s \in Sets : WearRead(u, p, s)
                              \/ TakeOffAll(u, p)
         \/ \E v \in Players, amount \in Amounts : Transfer(u, v, amount)
         \/ DropSessions(u)
         \/ \E r \in requests : WearWrite(r)
         \/ UNCHANGED vars
  PROVE  IInv'
<1> USE DEF wardrobeVars, marketVars, accountVars
<1>1. ASSUME NEW i \in Items, ListItemBegin(u, i) PROVE IInv'
  <2>1. room[i] = 0 /\ ~items[i].locked /\ items[i].user = u /\ items[i].listing = 0
    BY <1>1 DEF ListItemBegin, IInv, InRoom
  <2> QED
    BY <1>1, <2>1, NewRequest DEF ListItemBegin
<1>2. ASSUME NEW p \in Plants, ListPlantBegin(u, p) PROVE IInv'
  BY <1>2, NewRequest DEF ListPlantBegin
<1>3. ASSUME NEW p \in Plants, NEW v \in Players, GiftPlantBegin(u, p, v) PROVE IInv'
  BY <1>3, NewRequest DEF GiftPlantBegin
<1>4. ASSUME NEW p \in Plants, NEW s \in Sets, WearRead(u, p, s) PROVE IInv'
  <2>1. s \in Nat
    BY DEF Sets
  <2> QED
    BY <1>4, <2>1, NewRequest DEF WearRead
<1>5. ASSUME NEW p \in Plants, TakeOffAll(u, p) PROVE IInv'
  BY <1>5, WornChanges DEF TakeOffAll
<1>6. ASSUME UNCHANGED <<plants, items, room, sets, rewards, listings, requests, deleted>>,
             online' \subseteq online
      PROVE  IInv'
  <2>1. Asked'
    BY <1>6 DEF IInv, Asked, Sets
  <2> QED
    BY <1>6, <2>1, SameTables DEF IInv, Typed
<1>7. ASSUME NEW v \in Players, NEW amount \in Amounts, Transfer(u, v, amount) PROVE IInv'
  BY <1>6, <1>7 DEF Transfer
<1>8. CASE DropSessions(u)
  BY <1>6, <1>8 DEF DropSessions
<1>9. ASSUME NEW r \in requests, WearWrite(r) PROVE IInv'
  <2>1. r.thing \in Plants /\ r.arg \in Sets /\ r.arg \in Nat /\ sets[r.arg].plant \in {r.thing, Gone}
    BY <1>9 DEF WearWrite, IInv, Asked, Sets
  <2>2. CASE plants' = [plants EXCEPT ![r.thing].worn = r.arg] /\ sets[r.arg].plant # Gone
    BY <1>9, <2>1, <2>2, WornChanges DEF WearWrite
  <2>3. CASE plants' = plants
    <3>1. plants' = [plants EXCEPT ![r.thing].worn = plants[r.thing].worn]
      BY <2>1, <2>3 DEF IInv, Typed
    <3>2. /\ plants[r.thing].worn \in Nat
          /\ plants[r.thing].worn # 0 =>
               plants[r.thing].worn \in Sets /\ sets[plants[r.thing].worn].plant = r.thing
      BY <2>1 DEF IInv, Typed, Pointers, WornIsOwn
    <3> QED
      BY <1>9, <2>1, <3>1, <3>2, WornChanges DEF WearWrite
  <2> QED
    BY <1>9, <2>2, <2>3 DEF WearWrite
<1>10. CASE UNCHANGED vars
  BY <1>6, <1>10 DEF vars
<1> QED
  BY <1>1, <1>2, <1>3, <1>4, <1>5, <1>7, <1>8, <1>9, <1>10

\* Listings that end, as Closed has it.
LEMMA ClosedRows ==
  ASSUME IInv, NEW L \in SUBSET Listings, NEW status \in {"sold", "cancelled"},
         listings' = Closed(L, status)
  PROVE  /\ listings' \in Seq([seller : Players, thing : Plants \cup Items,
                               status : {"active", "sold", "cancelled"}])
         /\ Listings' = Listings
         /\ \A l \in Listings : /\ listings'[l].seller = listings[l].seller
                                /\ listings'[l].thing = listings[l].thing
         /\ \A l \in L : listings'[l].status = status
         /\ \A l \in Listings \ L : listings'[l] = listings[l]
<1> DEFINE Row == [seller : Players, thing : Plants \cup Items,
                   status : {"active", "sold", "cancelled"}]
<1>1. listings \in Seq(Row)
  BY DEF IInv, Typed
<1>2. \A l \in Listings : listings[l] \in Row /\ [listings[l] EXCEPT !.status = status] \in Row
  <2>1. \A l \in Listings : listings[l] \in Row
    <3> HIDE DEF Row
    <3> QED
      BY <1>1 DEF Listings
  <2> QED
    BY <2>1
<1>3. \A l \in Listings : /\ listings'[l] = IF l \in L THEN [listings[l] EXCEPT !.status = status]
                                           ELSE listings[l]
                          /\ listings'[l] \in Row
  <2> HIDE DEF Row
  <2> QED
    BY <1>2 DEF Closed
<1>4. listings' \in [1..Len(listings) -> Row]
  <2> HIDE DEF Row
  <2> QED
    BY <1>3 DEF Closed, Listings
<1>5. listings' \in Seq(Row) /\ Len(listings') = Len(listings)
  <2> HIDE DEF Row
  <2> QED
    BY <1>1, <1>4, Rewritten
<1> QED
  BY <1>2, <1>3, <1>5 DEF Listings

\* What goes off the market: the things of listings that were active.
LEMMA OffSaleKeeps ==
  ASSUME IInv, NEW L \in SUBSET Listings,
         \A l \in L : listings[l].status = "active",
         listings' = Closed(L, "cancelled"), OffSale(L),
         UNCHANGED <<room, sets, rewards, requests, online>>, deleted' \subseteq Players
  PROVE  IInv'
<1>1. /\ items' \in [Items -> [user : Players \cup {Gone}, locked : BOOLEAN,
                               set : Nat, listing : Nat]]
      /\ \A i \in Items : /\ items'[i].user = items[i].user
                          /\ items'[i].locked = items[i].locked
                          /\ items'[i].set = items[i].set
                          /\ items'[i].listing =
                               IF \E l \in L : listings[l].thing = i THEN 0 ELSE items[i].listing
  <2>1. \A i \in Items : [items[i] EXCEPT !.listing = 0]
                           \in [user : Players \cup {Gone}, locked : BOOLEAN, set : Nat, listing : Nat]
    BY DEF IInv, Typed
  <2> QED
    BY <2>1 DEF OffSale, IInv, Typed
<1>2. /\ plants' \in [Plants -> [owner : Players \cup {Nobody, Gone}, listing : Nat, worn : Nat]]
      /\ \A p \in Plants : /\ plants'[p].owner = plants[p].owner
                           /\ plants'[p].worn = plants[p].worn
                           /\ plants'[p].listing =
                                IF \E l \in L : listings[l].thing = p THEN 0 ELSE plants[p].listing
  <2>1. \A p \in Plants : [plants[p] EXCEPT !.listing = 0]
                            \in [owner : Players \cup {Nobody, Gone}, listing : Nat, worn : Nat]
    BY DEF IInv, Typed
  <2> QED
    BY <2>1 DEF OffSale, IInv, Typed
<1>3. /\ listings' \in Seq([seller : Players, thing : Plants \cup Items,
                            status : {"active", "sold", "cancelled"}])
      /\ Listings' = Listings
      /\ \A l \in Listings : /\ listings'[l].seller = listings[l].seller
                             /\ listings'[l].thing = listings[l].thing
      /\ \A l \in L : listings'[l].status = "cancelled"
      /\ \A l \in Listings \ L : listings'[l] = listings[l]
  BY ClosedRows
<1>4. Typed'
  BY <1>1, <1>2, <1>3 DEF IInv, Typed
<1>5. (Pointers /\ Loose)'
  <2>1. \A i \in Items : /\ room'[i] = room[i] /\ items'[i].listing \in {0, items[i].listing}
                         /\ items'[i].locked = items[i].locked
    BY <1>1
  <2>2. \A p \in Plants : /\ plants'[p].worn = plants[p].worn
                          /\ plants'[p].listing \in {0, plants[p].listing}
    BY <1>2
  <2>3. Sets' = Sets
    BY DEF Sets
  <2>4. Pointers'
    BY <1>3, <2>1, <2>2, <2>3 DEF IInv, Pointers
  <2>5. Loose'
    BY <2>1 DEF IInv, Loose
  <2> QED
    BY <2>4, <2>5
<1>6. OnSaleByItsOwner'
  <2>1. ASSUME NEW l \in Listings', listings'[l].status = "active"
        PROVE  IF listings'[l].thing \in Items
               THEN items'[listings'[l].thing].listing = l
                    /\ items'[listings'[l].thing].user = listings'[l].seller
               ELSE plants'[listings'[l].thing].listing = l
                    /\ plants'[listings'[l].thing].owner = listings'[l].seller
    <3>1. l \in Listings \ L /\ listings[l].status = "active"
      BY <1>3, <2>1
    <3>2. \A k \in L : listings[k].thing # listings[l].thing
      BY <3>1, ListingRows DEF IInv, OnSaleByItsOwner
    <3> DEFINE thing == listings[l].thing
    <3>3. listings'[l].thing = thing /\ listings'[l].seller = listings[l].seller
          /\ ~(\E k \in L : listings[k].thing = thing)
      BY <1>3, <3>1, <3>2
    <3>4. CASE thing \in Items
      <4>1. items[thing].listing = l /\ items[thing].user = listings[l].seller
        BY <3>1, <3>4 DEF IInv, OnSaleByItsOwner
      <4> QED
        BY <1>1, <3>3, <3>4, <4>1
    <3>5. CASE thing \in Plants /\ thing \notin Items
      <4>1. plants[thing].listing = l /\ plants[thing].owner = listings[l].seller
        BY <3>1, <3>5 DEF IInv, OnSaleByItsOwner
      <4> QED
        BY <1>2, <3>3, <3>5, <4>1
    <3> QED
      BY <3>1, <3>4, <3>5, ListingRows
  <2>2. ASSUME NEW i \in Items, items'[i].listing # 0
        PROVE  listings'[items'[i].listing] = Listing(items'[i].user, i)
    <3>1. items'[i].listing = items[i].listing /\ items[i].listing \in Listings
      BY <1>1, <2>2 DEF IInv, Pointers
    <3>2. listings[items[i].listing] = Listing(items[i].user, i) /\ items[i].listing \notin L
      BY <1>1, <2>2, <3>1 DEF IInv, OnSaleByItsOwner, Listing
    <3> QED
      BY <1>1, <1>3, <3>1, <3>2
  <2>3. ASSUME NEW p \in Plants, plants'[p].listing # 0
        PROVE  listings'[plants'[p].listing] = Listing(plants'[p].owner, p)
    <3>1. plants'[p].listing = plants[p].listing /\ plants[p].listing \in Listings
      BY <1>2, <2>3 DEF IInv, Pointers
    <3>2. listings[plants[p].listing] = Listing(plants[p].owner, p) /\ plants[p].listing \notin L
      BY <1>2, <2>3, <3>1 DEF IInv, OnSaleByItsOwner, Listing
    <3> QED
      BY <1>2, <1>3, <3>1, <3>2
  <2> QED
    BY <2>1, <2>2, <2>3 DEF OnSaleByItsOwner
<1>7. (OneRoom /\ InRoom /\ InGift /\ LockedIn /\ GoneIsBare /\ WornIsOwn)'
  <2>1. (OneRoom /\ InGift /\ LockedIn /\ GoneIsBare)'
    BY <1>1 DEF IInv, OneRoom, InGift, LockedIn, GoneIsBare, Sets
  <2>2. InRoom'
    BY <1>1, <1>2 DEF IInv, InRoom
  <2>3. WornIsOwn'
    BY <1>2 DEF IInv, WornIsOwn
  <2> QED
    BY <2>1, <2>2, <2>3
<1>8. Asked'
  <2>1. \A t \in requests : /\ t.op = "list_item" => t.thing \in Items /\ items[t.thing].listing = 0
                                                     /\ room[t.thing] = 0
                            /\ t.op \in {"list_plant", "gift_plant"} =>
                                 t.thing \in Plants /\ plants[t.thing].listing = 0
    BY DEF IInv, Asked
  <2> QED
    BY <1>1, <1>2, <2>1, AskedStays DEF Sets
<1>9. Rewarded'
  <2>1. \A n \in 1..Len(rewards) : rewards[n] \subseteq Items
    BY DEF IInv, Rewarded
  <2> QED
    BY <1>1, <2>1 DEF IInv, Rewarded
<1> QED
  BY <1>4, <1>5, <1>6, <1>7, <1>8, <1>9 DEF IInv

\* A listing is cancelled by its seller or with the account of its seller.
LEMMA CancelKeeps ==
  ASSUME IInv, NEW u \in Players,
         (\E l \in Listings : Cancel(u, l)) \/ DeleteAccount(u)
  PROVE  IInv'
<1> USE DEF accountVars
<1>1. ASSUME NEW l \in Listings, Cancel(u, l) PROVE IInv'
  BY <1>1, OffSaleKeeps DEF Cancel, IInv, Typed
<1>2. CASE DeleteAccount(u)
  <2> DEFINE L == {l \in Listings : listings[l].seller = u /\ listings[l].status = "active"}
  <2>1. /\ listings' = Closed(L, "cancelled") /\ OffSale(L) /\ deleted' = deleted \cup {u}
        /\ UNCHANGED <<room, sets, rewards, requests, online>>
    BY <1>2 DEF DeleteAccount
  <2>2. deleted' \subseteq Players
    BY <2>1 DEF IInv, Typed
  <2> QED
    BY <2>1, <2>2, OffSaleKeeps
<1> QED
  BY <1>1, <1>2

\* A new listing, as ListItemCommit and ListPlantCommit write it.
LEMMA NewListing ==
  ASSUME IInv, NEW u \in Players, NEW thing \in Plants \cup Items,
         listings' = Append(listings, Listing(u, thing))
  PROVE  /\ listings' \in Seq([seller : Players, thing : Plants \cup Items,
                               status : {"active", "sold", "cancelled"}])
         /\ Listings' = Listings \cup {Len(listings) + 1}
         /\ Len(listings) + 1 \in Nat \ {0} /\ Len(listings) + 1 \notin Listings
         /\ listings'[Len(listings) + 1] = Listing(u, thing)
         /\ \A l \in Listings : listings'[l] = listings[l]
<1> DEFINE Row == [seller : Players, thing : Plants \cup Items,
                   status : {"active", "sold", "cancelled"}]
<1>1. listings \in Seq(Row) /\ Listing(u, thing) \in Row
  BY DEF IInv, Typed, Listing
<1> HIDE DEF Row
<1>2. /\ listings' \in Seq(Row) /\ Len(listings) \in Nat
      /\ 1..Len(listings') = 1..Len(listings) \cup {Len(listings) + 1}
      /\ Len(listings) + 1 \notin 1..Len(listings)
      /\ listings'[Len(listings) + 1] = Listing(u, thing)
      /\ \A i \in 1..Len(listings) : listings'[i] = listings[i]
  BY <1>1, Longer
<1> QED
  BY <1>2 DEF Row, Listings

\* An item goes on sale: no listing of it is active, since it has none.
LEMMA ListItemKeeps ==
  ASSUME IInv, NEW r \in requests, ListItemCommit(r)
  PROVE  IInv'
<1> DEFINE i == r.thing
           n == Len(listings) + 1
<1>1. /\ i \in Items /\ r.user \in Players /\ r.user # Gone
      /\ items[i].user = r.user /\ items[i].listing = 0 /\ room[i] = 0 /\ ~items[i].locked
  BY NamesDiffer DEF ListItemCommit, IInv, Asked, Typed
<1>2. /\ items' = [items EXCEPT ![i].listing = n] /\ requests' = requests \ {r}
      /\ UNCHANGED <<plants, room, sets, rewards, deleted, online>>
      /\ r.op = "list_item"
  BY DEF ListItemCommit, accountVars
<1>3. /\ listings' \in Seq([seller : Players, thing : Plants \cup Items,
                            status : {"active", "sold", "cancelled"}])
      /\ Listings' = Listings \cup {n} /\ n \in Nat /\ n # 0 /\ n \notin Listings
      /\ listings'[n] = Listing(r.user, i)
      /\ \A l \in Listings : listings'[l] = listings[l]
  BY <1>1, NewListing DEF ListItemCommit
<1> HIDE DEF i, n
<1>4. /\ items' \in [Items -> [user : Players \cup {Gone}, locked : BOOLEAN,
                               set : Nat, listing : Nat]]
      /\ \A j \in Items : /\ items'[j].user = items[j].user
                          /\ items'[j].locked = items[j].locked
                          /\ items'[j].set = items[j].set
      /\ \A j \in Items \ {i} : items'[j].listing = items[j].listing
      /\ items'[i].listing = n
  <2>1. items \in [Items -> [user : Players \cup {Gone}, locked : BOOLEAN,
                            set : Nat, listing : Nat]]
    BY DEF IInv, Typed
  <2>2. items' = [items EXCEPT ![i].listing = n] /\ n \in Nat
    BY <1>2, <1>3
  <2> QED
    BY <1>1, <2>1, <2>2
<1>5. Typed'
  BY <1>2, <1>3, <1>4 DEF IInv, Typed
<1>6. (Pointers /\ Loose)'
  BY <1>1, <1>2, <1>3, <1>4 DEF IInv, Pointers, Loose, Sets
<1>7. OnSaleByItsOwner'
  <2>1. ASSUME NEW l \in Listings', listings'[l].status = "active"
        PROVE  IF listings'[l].thing \in Items
               THEN items'[listings'[l].thing].listing = l
                    /\ items'[listings'[l].thing].user = listings'[l].seller
               ELSE plants[listings'[l].thing].listing = l
                    /\ plants[listings'[l].thing].owner = listings'[l].seller
    <3>1. CASE l = n
      BY <1>1, <1>3, <1>4, <3>1 DEF Listing
    <3>2. CASE l \in Listings
      <4>1. listings'[l] = listings[l] /\ l # 0
        BY <1>3, <3>2 DEF Listings
      <4>2. listings[l].thing \in Items => listings[l].thing # i
        BY <1>1, <2>1, <3>2, <4>1 DEF IInv, OnSaleByItsOwner
      <4> QED
        BY <1>4, <2>1, <3>2, <4>1, <4>2 DEF IInv, OnSaleByItsOwner
    <3> QED
      BY <1>3, <3>1, <3>2
  <2>2. ASSUME NEW j \in Items, items'[j].listing # 0
        PROVE  listings'[items'[j].listing] = Listing(items'[j].user, j)
    <3>1. CASE j = i
      BY <1>1, <1>3, <1>4, <3>1
    <3>2. CASE j # i
      BY <1>3, <1>4, <2>2, <3>2 DEF IInv, OnSaleByItsOwner, Pointers
    <3> QED
      BY <3>1, <3>2
  <2>3. ASSUME NEW p \in Plants, plants[p].listing # 0
        PROVE  listings'[plants[p].listing] = Listing(plants[p].owner, p)
    BY <1>3, <2>3 DEF IInv, OnSaleByItsOwner, Pointers
  <2> QED
    BY <1>2, <2>1, <2>2, <2>3 DEF OnSaleByItsOwner
<1>8. (OneRoom /\ InRoom /\ InGift /\ LockedIn /\ GoneIsBare /\ WornIsOwn)'
  <2>1. (OneRoom /\ InGift /\ LockedIn /\ GoneIsBare /\ WornIsOwn)'
    BY <1>2, <1>4 DEF IInv, OneRoom, InGift, LockedIn, GoneIsBare, WornIsOwn, Sets
  <2>2. InRoom'
    BY <1>2, <1>4 DEF IInv, InRoom
  <2> QED
    BY <2>1, <2>2
<1>9. Asked'
  <2>1. \A t \in requests' :
          /\ t.op = "list_item" => t.thing \in Items /\ t.thing # i
                                   /\ items[t.thing].listing = 0 /\ room[t.thing] = 0
          /\ t.op \in {"list_plant", "gift_plant"} => plants[t.thing].listing = 0
    BY <1>2 DEF IInv, Asked, i
  <2> QED
    BY <1>2, <1>4, <2>1, AskedStays DEF Sets
<1>10. Rewarded'
  <2>1. \A m \in 1..Len(rewards) : rewards[m] \subseteq Items
    BY DEF IInv, Rewarded
  <2> QED
    BY <1>2, <1>4, <2>1 DEF IInv, Rewarded
<1> QED
  BY <1>5, <1>6, <1>7, <1>8, <1>9, <1>10 DEF IInv

\* An item changes hands: it lies in no set, and the listing is over.
LEMMA BuyItemKeeps ==
  ASSUME IInv, NEW u \in Players, NEW l \in Listings, BuyItem(u, l)
  PROVE  IInv'
<1> DEFINE i == listings[l].thing
<1>1. /\ i \in Items /\ i \notin Held /\ u # Gone
      /\ items[i].listing = l /\ l # 0 /\ room[i] = 0 /\ ~items[i].locked
  BY NamesDiffer DEF BuyItem, MaySell, IInv, OnSaleByItsOwner, Loose, Listings
<1>2. /\ items' = [items EXCEPT ![i] = [@ EXCEPT !.user = u, !.listing = 0]]
      /\ UNCHANGED <<plants, room, sets, rewards, requests, deleted, online>>
  BY DEF BuyItem, accountVars
<1>3. /\ listings' \in Seq([seller : Players, thing : Plants \cup Items,
                            status : {"active", "sold", "cancelled"}])
      /\ Listings' = Listings
      /\ \A k \in Listings \ {l} : listings'[k] = listings[k]
      /\ listings'[l].status = "sold"
  <2>1. listings' = Closed({l}, "sold") /\ {l} \in SUBSET Listings /\ l \in {l}
    BY DEF BuyItem, Pay
  <2> QED
    BY <2>1, ClosedRows
<1> HIDE DEF i
<1>4. /\ items' \in [Items -> [user : Players \cup {Gone}, locked : BOOLEAN,
                               set : Nat, listing : Nat]]
      /\ \A j \in Items : items'[j].locked = items[j].locked /\ items'[j].set = items[j].set
      /\ \A j \in Items \ {i} : items'[j].listing = items[j].listing
                                /\ items'[j].user = items[j].user
      /\ items'[i].listing = 0 /\ items'[i].user = u
  BY <1>1, <1>2 DEF IInv, Typed
<1>5. Typed'
  BY <1>2, <1>3, <1>4 DEF IInv, Typed
<1>6. (Pointers /\ Loose)'
  BY <1>1, <1>2, <1>3, <1>4 DEF IInv, Pointers, Loose, Sets
<1>7. OnSaleByItsOwner'
  <2>1. ASSUME NEW k \in Listings', listings'[k].status = "active"
        PROVE  IF listings'[k].thing \in Items
               THEN items'[listings'[k].thing].listing = k
                    /\ items'[listings'[k].thing].user = listings'[k].seller
               ELSE plants[listings'[k].thing].listing = k
                    /\ plants[listings'[k].thing].owner = listings'[k].seller
    <3>1. k \in Listings \ {l} /\ listings'[k] = listings[k]
      BY <1>3, <2>1
    <3>2. listings[k].thing \in Items => listings[k].thing # i
      BY <1>1, <2>1, <3>1 DEF IInv, OnSaleByItsOwner
    <3> QED
      BY <1>4, <2>1, <3>1, <3>2 DEF IInv, OnSaleByItsOwner
  <2>2. ASSUME NEW j \in Items, items'[j].listing # 0
        PROVE  listings'[items'[j].listing] = Listing(items'[j].user, j)
    <3>1. j # i /\ items[j].listing \in Listings
          /\ listings[items[j].listing] = Listing(items[j].user, j)
      BY <1>4, <2>2 DEF IInv, OnSaleByItsOwner, Pointers
    <3>2. items[j].listing # l
      BY <3>1 DEF Listing, i
    <3> QED
      BY <1>3, <1>4, <3>1, <3>2
  <2>3. ASSUME NEW p \in Plants, plants[p].listing # 0
        PROVE  listings'[plants[p].listing] = Listing(plants[p].owner, p)
    <3>1. plants[p].listing \in Listings /\ listings[plants[p].listing] = Listing(plants[p].owner, p)
      BY <2>3 DEF IInv, OnSaleByItsOwner, Pointers
    <3>2. plants[p].listing # l
      BY <1>1, <3>1, NamesDiffer DEF Listing, i
    <3> QED
      BY <1>3, <3>1, <3>2
  <2> QED
    BY <1>2, <2>1, <2>2, <2>3 DEF OnSaleByItsOwner
<1>8. (OneRoom /\ InRoom /\ InGift /\ LockedIn /\ GoneIsBare /\ WornIsOwn)'
  <2>1. (OneRoom /\ InGift /\ LockedIn /\ GoneIsBare /\ WornIsOwn)'
    BY <1>1, <1>2, <1>4 DEF IInv, OneRoom, InGift, LockedIn, GoneIsBare, WornIsOwn, Sets
  <2>2. InRoom'
    BY <1>1, <1>2, <1>4 DEF IInv, InRoom
  <2> QED
    BY <2>1, <2>2
<1>9. Asked'
  <2>1. \A t \in requests' :
          /\ t.op = "list_item" => t.thing \in Items /\ t.thing # i
                                   /\ items[t.thing].listing = 0 /\ room[t.thing] = 0
          /\ t.op \in {"list_plant", "gift_plant"} => plants[t.thing].listing = 0
    BY <1>1, <1>2 DEF IInv, Asked, Held
  <2> QED
    BY <1>2, <1>4, <2>1, AskedStays DEF Sets
<1>10. Rewarded'
  <2>1. \A m \in 1..Len(rewards) : rewards[m] \subseteq Items
    BY DEF IInv, Rewarded
  <2> QED
    BY <1>2, <1>4, <2>1 DEF IInv, Rewarded
<1> QED
  BY <1>5, <1>6, <1>7, <1>8, <1>9, <1>10 DEF IInv

\* The sets D of plant p are deleted, its fitting room among them, and if the items
\* of a given set go, its row goes with them.
Deletes(p, D) ==
  /\ \A s \in D : sets[s].plant = p
  /\ Fitting(p) \subseteq D
  /\ sets' = WithoutSets(D)
  /\ \A i \in Items :
       /\ room'[i] = IF room[i] \in D THEN 0 ELSE room[i]
       /\ items'[i].set = IF room[i] \in D THEN 0 ELSE items[i].set
       /\ items'[i].locked = items[i].locked
       /\ IF room[i] # 0 /\ sets[room[i]].plant = p /\ sets[room[i]].gifted
          THEN items'[i].user = Gone <=> room[i] \in D
          ELSE items'[i].user = items[i].user
  /\ \A q \in Plants \ {p} : plants[q].owner # Nobody => plants'[q].owner = plants[q].owner
  /\ \A q \in Plants : plants'[q].worn \in {0, plants[q].worn} /\ plants'[q].worn \notin D

\* What is worn and what lies in a set stays of one piece.
LEMMA WardrobeOfPlant ==
  ASSUME IInv, NEW p \in Plants, NEW D \in SUBSET Sets, Deletes(p, D)
  PROVE  /\ sets' \in Seq([plant : Plants \cup {Gone}, gifted : BOOLEAN]) /\ Sets' = Sets
         /\ \A s \in Sets : sets'[s].plant \in {sets[s].plant, Gone}
         /\ (OneRoom /\ InRoom /\ InGift /\ LockedIn /\ GoneIsBare /\ WornIsOwn)'
<1> USE DEF Deletes
<1> DEFINE Row == [plant : Plants \cup {Gone}, gifted : BOOLEAN]
<1>1. \A s \in Sets : /\ sets'[s] = IF s \in D THEN [sets[s] EXCEPT !.plant = Gone] ELSE sets[s]
                      /\ sets[s] \in Row
                      /\ s # 0
  <2>1. sets \in Seq(Row)
    BY DEF IInv, Typed
  <2>2. \A s \in Sets : sets[s] \in Row
    <3> HIDE DEF Row
    <3> QED
      BY <2>1 DEF Sets
  <2> QED
    BY <2>2 DEF WithoutSets, Sets
<1>2. \A s \in Sets : /\ sets'[s] \in Row
                      /\ sets'[s].gifted = sets[s].gifted
                      /\ s \in D => sets'[s].plant = Gone
                      /\ s \notin D => sets'[s].plant = sets[s].plant
  <2> SUFFICES ASSUME NEW s \in Sets
               PROVE  /\ sets'[s] \in Row
                      /\ sets'[s].gifted = sets[s].gifted
                      /\ s \in D => sets'[s].plant = Gone
                      /\ s \notin D => sets'[s].plant = sets[s].plant
    OBVIOUS
  <2>1. CASE s \in D
    <3>1. \A row \in Row : /\ [row EXCEPT !.plant = Gone] \in Row
                          /\ [row EXCEPT !.plant = Gone].gifted = row.gifted
                          /\ [row EXCEPT !.plant = Gone].plant = Gone
      OBVIOUS
    <3> HIDE DEF Row
    <3>2. sets[s] \in Row /\ sets'[s] = [sets[s] EXCEPT !.plant = Gone]
      BY <1>1, <2>1
    <3> DEFINE row == sets[s]
    <3>3. /\ [row EXCEPT !.plant = Gone] \in Row
          /\ [row EXCEPT !.plant = Gone].gifted = row.gifted
          /\ [row EXCEPT !.plant = Gone].plant = Gone
      BY <3>1, <3>2
    <3> QED
      BY <2>1, <3>2, <3>3
  <2>2. CASE s \notin D
    BY <1>1, <2>2
  <2> QED
    BY <2>1, <2>2
<1>3. sets' \in Seq(Row) /\ Sets' = Sets
  <2> HIDE DEF Row
  <2>1. sets \in Seq(Row)
    BY DEF IInv, Typed, Row
  <2>2. sets' \in [1..Len(sets) -> Row]
    BY <1>2 DEF WithoutSets, Sets
  <2> QED
    BY <2>1, <2>2, Rewritten DEF Sets
<1> HIDE DEF Row
<1>4. \A i \in Items : room[i] \in {0} \cup Sets /\ 0 \notin D /\ Gone \notin Plants
  BY <1>1, NamesDiffer DEF IInv, Pointers
<1>5. OneRoom'
  BY <1>2, <1>3 DEF IInv, OneRoom
<1>6. InRoom'
  <2>1. ASSUME NEW i \in Items
        PROVE  items'[i].set = room'[i]
    BY <2>1 DEF IInv, InRoom
  <2>2. ASSUME NEW i \in Items, room'[i] # 0, ~sets'[room'[i]].gifted
        PROVE  /\ sets'[room'[i]].plant \in Plants
               /\ items'[i].user = plants'[sets'[room'[i]].plant].owner
               /\ ~items'[i].locked
               /\ \A j \in Items : room'[j] = room'[i] /\ SlotOf[j] = SlotOf[i] => i = j
    <3>1. room'[i] = room[i] /\ room[i] \in Sets \ D
      BY <1>4, <2>2
    <3>2. ~sets[room[i]].gifted /\ sets'[room[i]].plant = sets[room[i]].plant
      BY <1>2, <2>2, <3>1
    <3>3. /\ sets[room[i]].plant \in Plants
          /\ items[i].user = plants[sets[room[i]].plant].owner
          /\ ~items[i].locked
          /\ \A j \in Items : room[j] = room[i] /\ SlotOf[j] = SlotOf[i] => i = j
      BY <2>2, <3>1, <3>2 DEF IInv, InRoom
    <3>4. sets[room[i]].plant # p /\ items'[i].user = items[i].user
      BY <3>1, <3>2 DEF Fitting
    <3>5. items[i].user # Nobody
      BY NamesDiffer DEF IInv, Typed
    <3>6. \A j \in Items : room'[j] = room'[i] => room[j] = room[i]
      BY <2>2, <3>1
    <3> QED
      BY <3>1, <3>2, <3>3, <3>4, <3>5, <3>6
  <2> QED
    BY <2>1, <2>2 DEF InRoom
<1>7. InGift'
  BY <1>2, <1>4 DEF IInv, InGift
<1>8. GoneIsBare'
  BY <1>4 DEF IInv, GoneIsBare
<1>9. LockedIn'
  <2> SUFFICES ASSUME NEW i \in Items, items'[i].locked, items'[i].user # Gone
               PROVE  room'[i] # 0 /\ sets'[room'[i]].gifted
    BY DEF LockedIn
  <2>1. items[i].user # Gone
    BY <1>4 DEF IInv, GoneIsBare
  <2>2. room[i] \in Sets /\ room[i] # 0 /\ sets[room[i]].gifted
    BY <1>4, <2>1 DEF IInv, LockedIn
  <2>3. room[i] \notin D
    BY <1>4, <2>2
  <2> QED
    BY <1>2, <2>2, <2>3
<1>10. WornIsOwn'
  <2> SUFFICES ASSUME NEW q \in Plants, plants'[q].worn # 0
               PROVE  sets'[plants'[q].worn].plant = q
    BY DEF WornIsOwn
  <2>1. plants'[q].worn = plants[q].worn /\ plants[q].worn \in Sets \ D
    BY DEF IInv, Pointers
  <2> QED
    BY <1>2, <2>1 DEF IInv, WornIsOwn
<1> QED
  BY <1>2, <1>3, <1>5, <1>6, <1>7, <1>8, <1>9, <1>10 DEF Row

\* What releaseFittingRoom does to items and sets.
LEMMA ReleaseIs ==
  ASSUME IInv, NEW p \in Plants, ReleaseFittingRoom(p)
  PROVE  /\ Fitting(p) \in SUBSET Sets /\ \A s \in Fitting(p) : sets[s].plant = p
         /\ sets' = WithoutSets(Fitting(p))
         /\ items' \in [Items -> [user : Players \cup {Gone}, locked : BOOLEAN,
                                  set : Nat, listing : Nat]]
         /\ room' \in [Items -> Nat]
         /\ \A i \in Items :
              /\ room'[i] = IF room[i] \in Fitting(p) THEN 0 ELSE room[i]
              /\ items'[i].set = IF room[i] \in Fitting(p) THEN 0 ELSE items[i].set
              /\ items'[i].locked = items[i].locked
              /\ items'[i].user = items[i].user
              /\ items'[i].listing = items[i].listing
              /\ room[i] # 0 /\ sets[room[i]].plant = p /\ sets[room[i]].gifted =>
                   items'[i].user # Gone /\ room[i] \notin Fitting(p)
<1>1. Fitting(p) \in SUBSET Sets /\ \A s \in Fitting(p) : sets[s].plant = p /\ ~sets[s].gifted
  BY DEF Fitting
<1>2. \A i \in Items : [items[i] EXCEPT !.set = 0]
                         \in [user : Players \cup {Gone}, locked : BOOLEAN, set : Nat, listing : Nat]
  BY DEF IInv, Typed
<1>3. /\ items' \in [Items -> [user : Players \cup {Gone}, locked : BOOLEAN,
                               set : Nat, listing : Nat]]
      /\ \A i \in Items :
           /\ items'[i].set = IF room[i] \in Fitting(p) THEN 0 ELSE items[i].set
           /\ items'[i].locked = items[i].locked
           /\ items'[i].user = items[i].user
           /\ items'[i].listing = items[i].listing
  BY <1>2 DEF ReleaseFittingRoom, IInv, Typed, InRoom
<1>4. /\ room' \in [Items -> Nat]
      /\ \A i \in Items : room'[i] = IF room[i] \in Fitting(p) THEN 0 ELSE room[i]
  BY DEF ReleaseFittingRoom, Emptied, InFitting, IInv, Typed
<1> QED
  BY <1>1, <1>3, <1>4 DEF ReleaseFittingRoom, IInv, GoneIsBare

\* Items that are on sale stay so where their listing and their owner stay.
LEMMA ItemsStayOnSale ==
  ASSUME IInv,
         Listings \subseteq Listings',
         \A l \in Listings : listings[l].thing \in Items => listings'[l] = listings[l],
         \A l \in Listings' : listings'[l].status = "active" /\ listings'[l].thing \in Items =>
           l \in Listings,
         \A i \in Items : /\ items'[i].listing = items[i].listing
                          /\ items[i].listing # 0 => items'[i].user = items[i].user
  PROVE  /\ \A i \in Items : /\ items'[i].listing \in {0} \cup Listings'
                             /\ items'[i].listing # 0 =>
                                  listings'[items'[i].listing] = Listing(items'[i].user, i)
         /\ \A l \in Listings : listings[l].status = "active" /\ listings[l].thing \in Items =>
              /\ items'[listings[l].thing].listing = l
              /\ items'[listings[l].thing].user = listings[l].seller
<1>1. ASSUME NEW i \in Items, items[i].listing # 0
      PROVE  /\ items[i].listing \in Listings
             /\ listings[items[i].listing] = Listing(items[i].user, i)
             /\ listings[items[i].listing].thing = i
  BY <1>1 DEF IInv, Pointers, OnSaleByItsOwner, Listing
<1>2. \A l \in Listings : l # 0
  BY DEF Listings
<1> QED
  BY <1>1, <1>2 DEF IInv, Pointers, OnSaleByItsOwner

\* Nobody's plant is on sale, and a plant that is has its seller for an owner.
LEMMA PlantsOnSale ==
  ASSUME IInv, NEW q \in Plants
  PROVE  /\ plants[q].listing # 0 =>
              /\ plants[q].listing \in Listings
              /\ listings[plants[q].listing] = Listing(plants[q].owner, q)
              /\ plants[q].owner \in Players
         /\ \A l \in Listings : listings[l].status = "active" /\ listings[l].thing = q =>
              plants[q].listing = l /\ plants[q].owner = listings[l].seller /\ l # 0
<1>1. ASSUME plants[q].listing # 0
      PROVE  /\ plants[q].listing \in Listings
             /\ listings[plants[q].listing] = Listing(plants[q].owner, q)
  BY <1>1 DEF IInv, Pointers, OnSaleByItsOwner
<1>2. ASSUME plants[q].listing # 0
      PROVE  plants[q].owner \in Players
  BY <1>1, <1>2, ListingRows DEF Listing
<1>3. \A l \in Listings : listings[l].status = "active" /\ listings[l].thing = q =>
        plants[q].listing = l /\ plants[q].owner = listings[l].seller /\ l # 0
  BY NamesDiffer DEF IInv, OnSaleByItsOwner, Listings
<1> QED
  BY <1>1, <1>2, <1>3

\* A plant that is listed leaves its fitting room.
LEMMA ListPlantKeeps ==
  ASSUME IInv, NEW r \in requests, ListPlantCommit(r)
  PROVE  IInv'
<1> DEFINE p == r.thing
           n == Len(listings) + 1
<1>1. /\ p \in Plants /\ p \notin Items /\ r.user \in Players
      /\ plants[p].owner = r.user /\ plants[p].listing = 0 /\ r.op = "list_plant"
  BY NamesDiffer DEF ListPlantCommit, IInv, Asked, Typed
<1>2. /\ plants' = [plants EXCEPT ![p] = [@ EXCEPT !.listing = n,
                                                   !.worn = WornAfter(p, Fitting(p))]]
      /\ requests' = requests \ {r} /\ ReleaseFittingRoom(p)
      /\ UNCHANGED <<rewards, deleted, online>>
  BY DEF ListPlantCommit, accountVars
<1>3. /\ listings' \in Seq([seller : Players, thing : Plants \cup Items,
                            status : {"active", "sold", "cancelled"}])
      /\ Listings' = Listings \cup {n} /\ n \in Nat /\ n # 0 /\ n \notin Listings
      /\ listings'[n] = Listing(r.user, p)
      /\ \A l \in Listings : listings'[l] = listings[l]
  BY <1>1, NewListing DEF ListPlantCommit
<1> HIDE DEF p, n
<1>4. /\ WornAfter(p, Fitting(p)) \in {0, plants[p].worn} \ Fitting(p)
      /\ WornAfter(p, Fitting(p)) \in Nat
  BY <1>1 DEF WornAfter, IInv, Typed, Fitting, Sets
<1>5. /\ plants' \in [Plants -> [owner : Players \cup {Nobody, Gone}, listing : Nat, worn : Nat]]
      /\ \A q \in Plants : plants'[q].owner = plants[q].owner
      /\ \A q \in Plants \ {p} : plants'[q].listing = plants[q].listing
                                 /\ plants'[q].worn = plants[q].worn
      /\ plants'[p].listing = n /\ plants'[p].worn \in {0, plants[p].worn} \ Fitting(p)
  <2> DEFINE w == WornAfter(p, Fitting(p))
             row == [plants[p] EXCEPT !.listing = n, !.worn = w]
  <2>1. w \in Nat /\ w \in {0, plants[p].worn} \ Fitting(p)
    BY <1>4
  <2> HIDE DEF w
  <2>2. /\ row \in [owner : Players \cup {Nobody, Gone}, listing : Nat, worn : Nat]
        /\ row.owner = plants[p].owner /\ row.listing = n /\ row.worn = w
    <3>1. plants[p] \in [owner : Players \cup {Nobody, Gone}, listing : Nat, worn : Nat]
      BY <1>1 DEF IInv, Typed
    <3> QED
      BY <1>3, <2>1, <3>1
  <2>3. plants' = [plants EXCEPT ![p] = row]
    BY <1>2 DEF w
  <2> HIDE DEF row
  <2> QED
    BY <1>1, <2>1, <2>2, <2>3 DEF IInv, Typed
<1>6. \A q \in Plants : plants'[q].worn \in {0, plants[q].worn} /\ plants'[q].worn \notin Fitting(p)
  BY <1>1, <1>5 DEF IInv, WornIsOwn, Fitting, Sets
<1>7. /\ sets' \in Seq([plant : Plants \cup {Gone}, gifted : BOOLEAN]) /\ Sets' = Sets
      /\ \A s \in Sets : sets'[s].plant \in {sets[s].plant, Gone}
      /\ (OneRoom /\ InRoom /\ InGift /\ LockedIn /\ GoneIsBare /\ WornIsOwn)'
  <2>1. \A i \in Items :
          IF room[i] # 0 /\ sets[room[i]].plant = p /\ sets[room[i]].gifted
          THEN items'[i].user = Gone <=> room[i] \in Fitting(p)
          ELSE items'[i].user = items[i].user
    BY <1>1, <1>2, ReleaseIs
  <2>2. Deletes(p, Fitting(p))
    BY <1>1, <1>2, <1>5, <1>6, <2>1, ReleaseIs DEF Deletes
  <2> QED
    BY <1>1, <1>2, <2>2, ReleaseIs, WardrobeOfPlant
<1>8. Typed'
  BY <1>1, <1>2, <1>3, <1>5, <1>7, ReleaseIs DEF IInv, Typed
<1>9. (Pointers /\ Loose)'
  <2>1. \A i \in Items : /\ room'[i] \in {0, room[i]} /\ items'[i].listing = items[i].listing
                         /\ items'[i].locked = items[i].locked
    BY <1>1, <1>2, ReleaseIs
  <2>2. Loose'
    BY <2>1 DEF IInv, Loose
  <2>3. Pointers'
    BY <1>1, <1>3, <1>5, <1>7, <2>1 DEF IInv, Pointers
  <2> QED
    BY <2>2, <2>3
<1>10. OnSaleByItsOwner'
  <2>1. /\ \A i \in Items : items'[i].listing # 0 =>
             listings'[items'[i].listing] = Listing(items'[i].user, i)
        /\ \A l \in Listings : listings[l].status = "active" /\ listings[l].thing \in Items =>
             /\ items'[listings[l].thing].listing = l
             /\ items'[listings[l].thing].user = listings[l].seller
    <3>1. listings'[n].thing \notin Items
      BY <1>1, <1>3 DEF Listing
    <3> QED
      BY <1>1, <1>2, <1>3, <3>1, ReleaseIs, ItemsStayOnSale
  <2>2. ASSUME NEW l \in Listings', listings'[l].status = "active", listings'[l].thing \notin Items
        PROVE  plants'[listings'[l].thing].listing = l
               /\ plants'[listings'[l].thing].owner = listings'[l].seller
    <3>1. CASE l = n
      BY <1>1, <1>3, <1>5, <3>1 DEF Listing
    <3>2. CASE l \in Listings
      <4>1. listings'[l] = listings[l] /\ listings[l].thing \in Plants
        BY <1>3, <2>2, <3>2, ListingRows
      <4>2. listings[l].thing # p
        BY <1>1, <2>2, <3>2, <4>1, PlantsOnSale
      <4> QED
        BY <1>5, <2>2, <3>2, <4>1, <4>2, PlantsOnSale
    <3> QED
      BY <1>3, <3>1, <3>2
  <2>3. ASSUME NEW q \in Plants, plants'[q].listing # 0
        PROVE  listings'[plants'[q].listing] = Listing(plants'[q].owner, q)
    <3>1. CASE q = p
      BY <1>1, <1>3, <1>5, <3>1
    <3>2. CASE q # p
      BY <1>3, <1>5, <2>3, <3>2, PlantsOnSale
    <3> QED
      BY <3>1, <3>2
  <2>4. \A l \in Listings' : listings'[l].status = "active" /\ listings'[l].thing \in Items =>
          /\ items'[listings'[l].thing].listing = l
          /\ items'[listings'[l].thing].user = listings'[l].seller
    BY <1>1, <1>3, <2>1 DEF Listing
  <2> QED
    BY <2>1, <2>2, <2>3, <2>4 DEF OnSaleByItsOwner
<1>11. Asked'
  <2>1. \A t \in requests' :
          /\ t.op = "list_item" => t.thing \in Items /\ items[t.thing].listing = 0
                                   /\ room[t.thing] = 0
          /\ t.op \in {"list_plant", "gift_plant"} =>
               t.thing \in Plants /\ plants[t.thing].listing = 0 /\ t.thing # p
    BY <1>1, <1>2 DEF IInv, Asked, p
  <2>2. \A i \in Items : room[i] = 0 =>
          /\ room'[i] = 0 /\ items'[i].listing = items[i].listing
          /\ items'[i].user = items[i].user /\ items'[i].locked = items[i].locked
    BY <1>1, <1>2, ReleaseIs
  <2> QED
    BY <1>2, <1>5, <1>7, <2>1, <2>2, AskedStays
<1>12. Rewarded'
  <2>1. Rewarded /\ \A m \in 1..Len(rewards) : rewards[m] \subseteq Items
    BY DEF IInv, Rewarded
  <2>2. rewards' = rewards /\ \A i \in Items : items'[i].locked = items[i].locked
    BY <1>1, <1>2, ReleaseIs
  <2> QED
    BY <2>1, <2>2 DEF Rewarded
<1> QED
  BY <1>7, <1>8, <1>9, <1>10, <1>11, <1>12 DEF IInv

\* A plant changes hands on the market: it leaves its fitting room, and no other
\* listing is of it.
LEMMA BuyPlantKeeps ==
  ASSUME IInv, NEW u \in Players, NEW l \in Listings, BuyPlant(u, l)
  PROVE  IInv'
<1> DEFINE p == listings[l].thing
<1>1. /\ p \in Plants /\ p \notin Items /\ p \notin Held
      /\ listings[l].status = "active" /\ plants[p].listing = l /\ l # 0
  <2>1. listings[l].thing \in Plants \ Held /\ listings[l].status = "active"
    BY DEF BuyPlant, MaySell
  <2> QED
    BY <2>1, PlantsOnSale, NamesDiffer
<1>2. /\ plants' = [plants EXCEPT ![p] = [owner |-> u, listing |-> 0, worn |-> 0]]
      /\ ReleaseFittingRoom(p)
      /\ UNCHANGED <<rewards, requests, deleted, online>>
  BY DEF BuyPlant, accountVars
<1>3. /\ listings' \in Seq([seller : Players, thing : Plants \cup Items,
                            status : {"active", "sold", "cancelled"}])
      /\ Listings' = Listings
      /\ \A k \in Listings \ {l} : listings'[k] = listings[k]
      /\ listings'[l].status = "sold" /\ listings'[l].thing = p
  <2>1. listings' = Closed({l}, "sold") /\ {l} \in SUBSET Listings /\ l \in {l}
    BY DEF BuyPlant, Pay
  <2> QED
    BY <2>1, ClosedRows
<1> HIDE DEF p
<1>4. /\ plants' \in [Plants -> [owner : Players \cup {Nobody, Gone}, listing : Nat, worn : Nat]]
      /\ \A q \in Plants \ {p} : plants'[q] = plants[q]
      /\ plants'[p].owner = u /\ plants'[p].listing = 0 /\ plants'[p].worn = 0
  BY <1>1, <1>2 DEF IInv, Typed
<1>5. Deletes(p, Fitting(p))
  <2>1. \A q \in Plants : plants'[q].worn \in {0, plants[q].worn} /\ plants'[q].worn \notin Fitting(p)
    BY <1>1, <1>4 DEF IInv, WornIsOwn, Fitting, Sets
  <2>2. \A i \in Items :
          IF room[i] # 0 /\ sets[room[i]].plant = p /\ sets[room[i]].gifted
          THEN items'[i].user = Gone <=> room[i] \in Fitting(p)
          ELSE items'[i].user = items[i].user
    BY <1>1, <1>2, ReleaseIs
  <2> QED
    BY <1>1, <1>2, <1>4, <2>1, <2>2, ReleaseIs DEF Deletes
<1>6. /\ sets' \in Seq([plant : Plants \cup {Gone}, gifted : BOOLEAN]) /\ Sets' = Sets
      /\ \A s \in Sets : sets'[s].plant \in {sets[s].plant, Gone}
      /\ (OneRoom /\ InRoom /\ InGift /\ LockedIn /\ GoneIsBare /\ WornIsOwn)'
  BY <1>1, <1>2, <1>5, ReleaseIs, WardrobeOfPlant
<1>7. Typed'
  BY <1>1, <1>2, <1>3, <1>4, <1>6, ReleaseIs DEF IInv, Typed
<1>8. (Pointers /\ Loose)'
  <2>1. \A i \in Items : /\ room'[i] \in {0, room[i]} /\ items'[i].listing = items[i].listing
                         /\ items'[i].locked = items[i].locked
    BY <1>1, <1>2, ReleaseIs
  <2>2. Loose'
    BY <2>1 DEF IInv, Loose
  <2>3. Pointers'
    BY <1>1, <1>3, <1>4, <1>6, <2>1 DEF IInv, Pointers
  <2> QED
    BY <2>2, <2>3
<1>9. OnSaleByItsOwner'
  <2>1. /\ \A i \in Items : items'[i].listing # 0 =>
             listings'[items'[i].listing] = Listing(items'[i].user, i)
        /\ \A k \in Listings : listings[k].status = "active" /\ listings[k].thing \in Items =>
             /\ items'[listings[k].thing].listing = k
             /\ items'[listings[k].thing].user = listings[k].seller
    <3>1. \A k \in Listings : listings[k].thing \in Items => listings'[k] = listings[k]
      BY <1>1, <1>3 DEF p
    <3> QED
      BY <1>1, <1>2, <1>3, <3>1, ReleaseIs, ItemsStayOnSale
  <2>2. ASSUME NEW k \in Listings', listings'[k].status = "active"
        PROVE  k \in Listings \ {l} /\ listings'[k] = listings[k] /\ listings[k].status = "active"
    BY <1>3, <2>2
  <2>3. ASSUME NEW k \in Listings', listings'[k].status = "active", listings'[k].thing \notin Items
        PROVE  plants'[listings'[k].thing].listing = k
               /\ plants'[listings'[k].thing].owner = listings'[k].seller
    <3>1. k \in Listings \ {l} /\ listings'[k] = listings[k] /\ listings[k].status = "active"
          /\ listings[k].thing \in Plants
      BY <2>2, <2>3, ListingRows
    <3>2. listings[k].thing # p
      BY <1>1, <3>1, PlantsOnSale
    <3> QED
      BY <1>4, <3>1, <3>2, PlantsOnSale
  <2>4. ASSUME NEW q \in Plants, plants'[q].listing # 0
        PROVE  listings'[plants'[q].listing] = Listing(plants'[q].owner, q)
    <3>1. q # p /\ plants'[q] = plants[q] /\ plants[q].listing \in Listings
          /\ listings[plants[q].listing] = Listing(plants[q].owner, q)
      BY <1>1, <1>4, <2>4, PlantsOnSale
    <3>2. plants[q].listing # l
      BY <3>1 DEF Listing, p
    <3> QED
      BY <1>3, <3>1, <3>2
  <2>5. \A k \in Listings' : listings'[k].status = "active" /\ listings'[k].thing \in Items =>
          /\ items'[listings'[k].thing].listing = k
          /\ items'[listings'[k].thing].user = listings'[k].seller
    BY <2>1, <2>2
  <2> QED
    BY <2>1, <2>3, <2>4, <2>5 DEF OnSaleByItsOwner
<1>10. Asked'
  <2>1. \A t \in requests' :
          /\ t.op = "list_item" => t.thing \in Items /\ items[t.thing].listing = 0
                                   /\ room[t.thing] = 0
          /\ t.op \in {"list_plant", "gift_plant"} =>
               t.thing \in Plants /\ plants[t.thing].listing = 0 /\ t.thing # p
    BY <1>1, <1>2 DEF IInv, Asked, Held
  <2>2. \A i \in Items : room[i] = 0 =>
          /\ room'[i] = 0 /\ items'[i].listing = items[i].listing
          /\ items'[i].user = items[i].user /\ items'[i].locked = items[i].locked
    BY <1>1, <1>2, ReleaseIs
  <2> QED
    BY <1>2, <1>4, <1>6, <2>1, <2>2, AskedStays
<1>11. Rewarded'
  <2>1. \A m \in 1..Len(rewards) : rewards[m] \subseteq Items
    BY DEF IInv, Rewarded
  <2> QED
    BY <1>1, <1>2, <2>1, ReleaseIs DEF IInv, Rewarded
<1> QED
  BY <1>6, <1>7, <1>8, <1>9, <1>10, <1>11 DEF IInv

\* Plants that are on no listing change hands, and the market stays as it is.
LEMMA OnSaleStays ==
  ASSUME IInv, UNCHANGED listings,
         \A i \in Items : /\ items'[i].listing = items[i].listing
                          /\ items[i].listing # 0 => items'[i].user = items[i].user,
         \A q \in Plants : /\ plants'[q].listing = plants[q].listing
                           /\ plants[q].listing # 0 => plants'[q].owner = plants[q].owner
  PROVE  OnSaleByItsOwner'
<1>1. /\ \A i \in Items : items'[i].listing # 0 =>
           listings[items'[i].listing] = Listing(items'[i].user, i)
      /\ \A l \in Listings : listings[l].status = "active" /\ listings[l].thing \in Items =>
           /\ items'[listings[l].thing].listing = l
           /\ items'[listings[l].thing].user = listings[l].seller
  BY ItemsStayOnSale DEF Listings
<1>2. \A l \in Listings : listings[l].status = "active" /\ listings[l].thing \notin Items =>
        /\ plants'[listings[l].thing].listing = l
        /\ plants'[listings[l].thing].owner = listings[l].seller
  BY ListingRows, PlantsOnSale
<1>3. \A q \in Plants : plants'[q].listing # 0 =>
        listings[plants'[q].listing] = Listing(plants'[q].owner, q)
  BY PlantsOnSale
<1> QED
  BY <1>1, <1>2, <1>3 DEF OnSaleByItsOwner, Listings

\* A plant is given away with the sets it was given, and without its fitting room.
LEMMA GiftPlantKeeps ==
  ASSUME IInv, NEW r \in requests, GiftPlantCommit(r)
  PROVE  IInv'
<1> DEFINE p == r.thing
           v == r.arg
<1>1. /\ p \in Plants /\ v \in Players /\ v # Gone /\ plants[p].listing = 0
      /\ r.op = "gift_plant"
  BY NamesDiffer DEF GiftPlantCommit, IInv, Asked
<1>2. /\ items' = [i \in Items |->
                     IF items[i].set \in Fitting(p) THEN [items[i] EXCEPT !.set = 0]
                     ELSE IF room[i] # 0 /\ sets[room[i]].plant = p
                          THEN [items[i] EXCEPT !.user = v] ELSE items[i]]
      /\ room' = Emptied(InFitting(p)) /\ sets' = WithoutSets(Fitting(p))
      /\ plants' = [plants EXCEPT ![p] = [@ EXCEPT !.owner = v,
                                                   !.worn = WornAfter(p, Fitting(p))]]
      /\ requests' = requests \ {r}
      /\ UNCHANGED <<rewards, listings, deleted, online>>
  BY DEF GiftPlantCommit, marketVars, accountVars
<1> HIDE DEF p, v
<1>3. /\ Fitting(p) \in SUBSET Sets /\ 0 \notin Fitting(p)
      /\ \A s \in Fitting(p) : sets[s].plant = p /\ ~sets[s].gifted
      /\ \A s \in Sets : sets[s].plant = p /\ ~sets[s].gifted => s \in Fitting(p)
  BY DEF Fitting, Sets
<1>4. \A i \in Items : /\ items[i].set = room[i] /\ room[i] \in {0} \cup Sets
                       /\ items[i].listing # 0 => room[i] = 0
                       /\ items[i].user = Gone => room[i] = 0
  BY DEF IInv, InRoom, Pointers, Loose, GoneIsBare
<1>5. /\ items' \in [Items -> [user : Players \cup {Gone}, locked : BOOLEAN,
                               set : Nat, listing : Nat]]
      /\ \A i \in Items :
           /\ items'[i].set = IF room[i] \in Fitting(p) THEN 0 ELSE items[i].set
           /\ items'[i].locked = items[i].locked /\ items'[i].listing = items[i].listing
           /\ IF room[i] # 0 /\ sets[room[i]].plant = p /\ sets[room[i]].gifted
              THEN items'[i].user = v ELSE items'[i].user = items[i].user
  <2>1. \A i \in Items :
          /\ [items[i] EXCEPT !.set = 0]
               \in [user : Players \cup {Gone}, locked : BOOLEAN, set : Nat, listing : Nat]
          /\ [items[i] EXCEPT !.user = v]
               \in [user : Players \cup {Gone}, locked : BOOLEAN, set : Nat, listing : Nat]
    BY <1>1 DEF IInv, Typed
  <2>2. \A i \in Items : items[i] \in [user : Players \cup {Gone}, locked : BOOLEAN,
                                       set : Nat, listing : Nat]
    BY DEF IInv, Typed
  <2>3. items' \in [Items -> [user : Players \cup {Gone}, locked : BOOLEAN,
                              set : Nat, listing : Nat]]
    BY <1>2, <2>1, <2>2
  <2>4. ASSUME NEW i \in Items
        PROVE  /\ items'[i].set = IF room[i] \in Fitting(p) THEN 0 ELSE items[i].set
               /\ items'[i].locked = items[i].locked /\ items'[i].listing = items[i].listing
               /\ IF room[i] # 0 /\ sets[room[i]].plant = p /\ sets[room[i]].gifted
                  THEN items'[i].user = v ELSE items'[i].user = items[i].user
    <3>1. CASE room[i] \in Fitting(p)
      BY <1>2, <1>3, <1>4, <2>2, <3>1
    <3>2. CASE room[i] \notin Fitting(p) /\ room[i] # 0 /\ sets[room[i]].plant = p
      <4>1. sets[room[i]].gifted
        BY <1>3, <1>4, <3>2
      <4>2. items'[i] = [items[i] EXCEPT !.user = v]
        BY <1>2, <1>4, <3>2
      <4> QED
        BY <2>2, <3>2, <4>1, <4>2
    <3>3. CASE room[i] \notin Fitting(p) /\ ~(room[i] # 0 /\ sets[room[i]].plant = p)
      BY <1>2, <1>4, <3>3
    <3> QED
      BY <3>1, <3>2, <3>3
  <2> QED
    BY <2>3, <2>4
<1>6. /\ room' \in [Items -> Nat]
      /\ \A i \in Items : room'[i] = IF room[i] \in Fitting(p) THEN 0 ELSE room[i]
  BY <1>2 DEF Emptied, InFitting, IInv, Typed
<1>7. /\ plants' \in [Plants -> [owner : Players \cup {Nobody, Gone}, listing : Nat, worn : Nat]]
      /\ \A q \in Plants : plants'[q].listing = plants[q].listing
      /\ \A q \in Plants \ {p} : plants'[q] = plants[q]
      /\ plants'[p].owner = v /\ plants'[p].worn \in {0, plants[p].worn} \ Fitting(p)
  <2> DEFINE w == WornAfter(p, Fitting(p))
             row == [plants[p] EXCEPT !.owner = v, !.worn = w]
  <2>1. w \in Nat /\ w \in {0, plants[p].worn} \ Fitting(p)
    BY <1>1, <1>3 DEF WornAfter, IInv, Typed
  <2> HIDE DEF w
  <2>2. /\ row \in [owner : Players \cup {Nobody, Gone}, listing : Nat, worn : Nat]
        /\ row.owner = v /\ row.listing = plants[p].listing /\ row.worn = w
    BY <1>1, <2>1 DEF IInv, Typed
  <2>3. plants' = [plants EXCEPT ![p] = row]
    BY <1>2 DEF w
  <2> HIDE DEF row
  <2> QED
    BY <1>1, <2>1, <2>2, <2>3 DEF IInv, Typed
<1>8. Deletes(p, Fitting(p))
  <2>1. \A q \in Plants : plants'[q].worn \in {0, plants[q].worn} /\ plants'[q].worn \notin Fitting(p)
    BY <1>1, <1>3, <1>7 DEF IInv, WornIsOwn
  <2>2. \A i \in Items :
          IF room[i] # 0 /\ sets[room[i]].plant = p /\ sets[room[i]].gifted
          THEN items'[i].user = Gone <=> room[i] \in Fitting(p)
          ELSE items'[i].user = items[i].user
    BY <1>1, <1>3, <1>5
  <2> QED
    BY <1>2, <1>3, <1>5, <1>6, <1>7, <2>1, <2>2 DEF Deletes
<1>9. /\ sets' \in Seq([plant : Plants \cup {Gone}, gifted : BOOLEAN]) /\ Sets' = Sets
      /\ \A s \in Sets : sets'[s].plant \in {sets[s].plant, Gone}
      /\ (OneRoom /\ InRoom /\ InGift /\ LockedIn /\ GoneIsBare /\ WornIsOwn)'
  BY <1>1, <1>3, <1>8, WardrobeOfPlant
<1>10. Typed'
  BY <1>2, <1>5, <1>6, <1>7, <1>9 DEF IInv, Typed
<1>11. (Pointers /\ Loose)'
  <2>1. Loose'
    BY <1>5, <1>6 DEF IInv, Loose
  <2>2. Pointers'
    BY <1>1, <1>2, <1>5, <1>6, <1>7, <1>9 DEF IInv, Pointers, Listings
  <2> QED
    BY <2>1, <2>2
<1>12. OnSaleByItsOwner'
  BY <1>1, <1>2, <1>4, <1>5, <1>7, OnSaleStays
<1>13. Asked'
  <2>1. \A t \in requests' :
          /\ t.op = "list_item" => t.thing \in Items /\ items[t.thing].listing = 0
                                   /\ room[t.thing] = 0
          /\ t.op \in {"list_plant", "gift_plant"} =>
               t.thing \in Plants /\ plants[t.thing].listing = 0 /\ t.thing # p
    BY <1>1, <1>2 DEF IInv, Asked, p
  <2> QED
    BY <1>2, <1>3, <1>5, <1>6, <1>7, <1>9, <2>1, AskedStays
<1>14. Rewarded'
  <2>1. \A m \in 1..Len(rewards) : rewards[m] \subseteq Items
    BY DEF IInv, Rewarded
  <2> QED
    BY <1>2, <1>5, <2>1 DEF IInv, Rewarded
<1> QED
  BY <1>9, <1>10, <1>11, <1>12, <1>13, <1>14 DEF IInv

\* A plant dies with the sets it was given, and a sapling is born that was on no
\* listing.
LEMMA ScytheKeeps ==
  ASSUME IInv, NEW u \in Players, NEW p \in Plants, NEW q \in Plants, Scythe(u, p, q)
  PROVE  IInv'
<1> DEFINE gifted == {s \in Sets : sets[s].plant = p /\ sets[s].gifted}
           D == gifted \cup Fitting(p)
<1>1. /\ p # q /\ p \notin Held /\ plants[p].owner = u /\ plants[q].owner = Nobody
      /\ plants[p].listing = 0 /\ plants[q].listing = 0
  <2>1. /\ p \notin Held /\ plants[p].owner = u /\ plants[p].listing = 0
        /\ plants[q].owner = Nobody
    BY DEF Scythe
  <2> QED
    BY <2>1, PlantsOnSale, NamesDiffer
<1>2. /\ items' = [i \in Items |->
                     IF items[i].set \in Fitting(p) THEN [items[i] EXCEPT !.set = 0]
                     ELSE IF room[i] \in gifted
                          THEN [items[i] EXCEPT !.user = Gone, !.set = 0]
                          ELSE items[i]]
      /\ room' = Emptied({i \in Items : room[i] \in D})
      /\ sets' = WithoutSets(D)
      /\ plants' = [plants EXCEPT ![p] = [owner |-> Gone, listing |-> 0, worn |-> 0],
                                  ![q] = [owner |-> u, listing |-> 0, worn |-> 0]]
      /\ UNCHANGED <<rewards, listings, requests, deleted, online>>
  BY DEF Scythe, marketVars, accountVars
<1>3. /\ Fitting(p) \subseteq D /\ gifted \subseteq D /\ D \in SUBSET Sets /\ 0 \notin D
      /\ \A s \in D : sets[s].plant = p /\ (s \in Fitting(p) \/ s \in gifted)
      /\ \A s \in Fitting(p) : ~sets[s].gifted
      /\ \A s \in Sets : sets[s].plant = p /\ sets[s].gifted <=> s \in gifted
  BY DEF Fitting, Sets
<1> HIDE DEF gifted, D
<1>4. \A i \in Items : /\ items[i].set = room[i] /\ room[i] \in {0} \cup Sets
                       /\ items[i].listing # 0 => room[i] = 0
  BY DEF IInv, InRoom, Pointers, Loose
<1>5. \A i \in Items : items[i] \in [user : Players \cup {Gone}, locked : BOOLEAN,
                                     set : Nat, listing : Nat]
  BY DEF IInv, Typed
<1>6. ASSUME NEW i \in Items
      PROVE  /\ items'[i] \in [user : Players \cup {Gone}, locked : BOOLEAN,
                               set : Nat, listing : Nat]
             /\ items'[i].set = IF room[i] \in D THEN 0 ELSE items[i].set
             /\ items'[i].locked = items[i].locked /\ items'[i].listing = items[i].listing
             /\ items'[i].user = IF room[i] \in gifted THEN Gone ELSE items[i].user
  <2> DEFINE x == items[i]
  <2>0. /\ x \in [user : Players \cup {Gone}, locked : BOOLEAN, set : Nat, listing : Nat]
        /\ x.set = room[i]
    BY <1>4, <1>5
  <2>1. CASE room[i] \in Fitting(p)
    <3>1. items'[i] = [x EXCEPT !.set = 0] /\ room[i] \in D /\ room[i] \notin gifted
      BY <1>2, <1>3, <2>0, <2>1
    <3> HIDE DEF x
    <3>2. /\ items'[i] \in [user : Players \cup {Gone}, locked : BOOLEAN,
                            set : Nat, listing : Nat]
          /\ items'[i].set = 0 /\ items'[i].user = x.user
          /\ items'[i].locked = x.locked /\ items'[i].listing = x.listing
      BY <2>0, <3>1
    <3> QED
      BY <3>1, <3>2 DEF x
  <2>2. CASE room[i] \in gifted /\ room[i] \notin Fitting(p)
    <3>1. items'[i] = [x EXCEPT !.user = Gone, !.set = 0] /\ room[i] \in D
      BY <1>2, <1>3, <2>0, <2>2
    <3> HIDE DEF x
    <3>2. /\ items'[i] \in [user : Players \cup {Gone}, locked : BOOLEAN,
                            set : Nat, listing : Nat]
          /\ items'[i].set = 0 /\ items'[i].user = Gone
          /\ items'[i].locked = x.locked /\ items'[i].listing = x.listing
      <4> DEFINE y == [x EXCEPT !.user = Gone]
      <4>1. /\ y \in [user : Players \cup {Gone}, locked : BOOLEAN, set : Nat, listing : Nat]
            /\ y.user = Gone /\ y.locked = x.locked /\ y.listing = x.listing
        BY <2>0
      <4>2. items'[i] = [y EXCEPT !.set = 0]
        BY <2>0, <3>1
      <4> HIDE DEF y
      <4> QED
        BY <4>1, <4>2
    <3> QED
      BY <2>2, <3>1, <3>2 DEF x
  <2>3. CASE room[i] \notin gifted /\ room[i] \notin Fitting(p)
    <3>1. items'[i] = items[i] /\ room[i] \notin D
      BY <1>2, <2>0, <2>3 DEF D
    <3> QED
      BY <2>0, <2>3, <3>1
  <2> QED
    BY <2>1, <2>2, <2>3
<1>7. /\ items' \in [Items -> [user : Players \cup {Gone}, locked : BOOLEAN,
                               set : Nat, listing : Nat]]
      /\ room' \in [Items -> Nat]
      /\ \A i \in Items : room'[i] = IF room[i] \in D THEN 0 ELSE room[i]
  BY <1>2, <1>6 DEF Emptied, IInv, Typed
<1>8. /\ plants' \in [Plants -> [owner : Players \cup {Nobody, Gone}, listing : Nat, worn : Nat]]
      /\ \A x \in Plants : plants'[x].listing = plants[x].listing
      /\ \A x \in Plants \ {p, q} : plants'[x] = plants[x]
      /\ plants'[p].worn = 0 /\ plants'[q].worn = 0
  BY <1>1, <1>2 DEF IInv, Typed
<1>9. Deletes(p, D)
  <2>1. \A x \in Plants : plants'[x].worn \in {0, plants[x].worn} /\ plants'[x].worn \notin D
    BY <1>3, <1>8 DEF IInv, WornIsOwn
  <2>2. \A i \in Items :
          IF room[i] # 0 /\ sets[room[i]].plant = p /\ sets[room[i]].gifted
          THEN items'[i].user = Gone <=> room[i] \in D
          ELSE items'[i].user = items[i].user
    BY <1>3, <1>4, <1>6
  <2> QED
    BY <1>1, <1>2, <1>3, <1>6, <1>7, <1>8, <2>1, <2>2 DEF Deletes
<1>10. /\ sets' \in Seq([plant : Plants \cup {Gone}, gifted : BOOLEAN]) /\ Sets' = Sets
       /\ \A s \in Sets : sets'[s].plant \in {sets[s].plant, Gone}
       /\ (OneRoom /\ InRoom /\ InGift /\ LockedIn /\ GoneIsBare /\ WornIsOwn)'
  BY <1>3, <1>9, WardrobeOfPlant
<1>11. Typed'
  BY <1>2, <1>7, <1>8, <1>10 DEF IInv, Typed
<1>12. (Pointers /\ Loose)'
  <2>1. Loose'
    BY <1>6, <1>7 DEF IInv, Loose
  <2>2. Pointers'
    BY <1>2, <1>6, <1>7, <1>8, <1>10 DEF IInv, Pointers, Listings
  <2> QED
    BY <2>1, <2>2
<1>13. OnSaleByItsOwner'
  <2>1. \A i \in Items : items[i].listing # 0 => room[i] \notin gifted
    BY <1>3, <1>4
  <2> QED
    BY <1>1, <1>2, <1>6, <1>8, <2>1, OnSaleStays
<1>14. Asked'
  <2>1. \A t \in requests' :
          /\ t.op = "list_item" => t.thing \in Items /\ items[t.thing].listing = 0
                                   /\ room[t.thing] = 0
          /\ t.op \in {"list_plant", "gift_plant"} =>
               t.thing \in Plants \ {p, q} /\ plants[t.thing].listing = 0
    <3> SUFFICES ASSUME NEW t \in requests'
                 PROVE  /\ t.op = "list_item" => t.thing \in Items /\ items[t.thing].listing = 0
                                                  /\ room[t.thing] = 0
                        /\ t.op \in {"list_plant", "gift_plant"} =>
                             t.thing \in Plants \ {p, q} /\ plants[t.thing].listing = 0
      OBVIOUS
    <3>1. t \in requests
      BY <1>2
    <3>2. CASE t.op = "list_item"
      BY <3>1, <3>2 DEF IInv, Asked
    <3>3. CASE t.op \in {"list_plant", "gift_plant"}
      <4>1. /\ t.thing \in Plants /\ plants[t.thing].owner = t.user
            /\ plants[t.thing].listing = 0
        BY <3>1, <3>3 DEF IInv, Asked
      <4>2. t.thing # p
        BY <1>1, <3>1, <3>3 DEF Held
      <4>3. t.user # Nobody
        BY <3>1, NamesDiffer DEF IInv, Typed
      <4> QED
        BY <1>1, <3>3, <4>1, <4>2, <4>3
    <3> QED
      BY <3>2, <3>3
  <2>2. \A i \in Items : room[i] = 0 => room[i] \notin gifted
    BY <1>3
  <2>3. \A i \in Items : room[i] = 0 =>
          /\ items'[i].user = items[i].user /\ items'[i].listing = items[i].listing
          /\ items'[i].locked = items[i].locked /\ room'[i] = 0
    BY <1>6, <1>7, <2>2
  <2>4. \A t \in requests' : t.op = "list_item" =>
          /\ items'[t.thing].user = items[t.thing].user
          /\ items'[t.thing].listing = 0 /\ room'[t.thing] = 0
          /\ items'[t.thing].locked = items[t.thing].locked
    BY <2>1, <2>3
  <2>5. \A t \in requests' : t.op \in {"list_plant", "gift_plant"} =>
          /\ plants'[t.thing].owner = plants[t.thing].owner
          /\ plants'[t.thing].listing = 0
    BY <1>8, <2>1
  <2> QED
    BY <1>2, <1>10, <2>4, <2>5, AskedStays
<1>15. Rewarded'
  <2>1. \A m \in 1..Len(rewards) : rewards[m] \subseteq Items
    BY DEF IInv, Rewarded
  <2>2. \A i \in Items : items'[i].locked = items[i].locked
    BY <1>6
  <2> QED
    BY <1>2, <2>1, <2>2 DEF IInv, Rewarded
<1> QED
  BY <1>10, <1>11, <1>12, <1>13, <1>14, <1>15 DEF IInv

\* The fitting room of a plant: the one it has, or one more row.
LEMMA RoomIs ==
  ASSUME IInv, NEW p \in Plants, sets' = WithRoomFor(p)
  PROVE  /\ sets' \in Seq([plant : Plants \cup {Gone}, gifted : BOOLEAN])
         /\ Sets' = Sets \cup {RoomFor(p)}
         /\ RoomFor(p) \in Nat /\ RoomFor(p) # 0
         /\ \A t \in Sets : sets'[t] = sets[t]
         /\ sets'[RoomFor(p)].plant = p /\ ~sets'[RoomFor(p)].gifted
         /\ \A t \in Sets : ~sets[t].gifted /\ sets[t].plant = p => t = RoomFor(p)
<1> DEFINE Row == [plant : Plants \cup {Gone}, gifted : BOOLEAN]
           row == [plant |-> p, gifted |-> FALSE]
<1>1. sets \in Seq(Row)
  BY DEF IInv, Typed
<1>2. row \in Row /\ row.plant = p /\ ~row.gifted
  OBVIOUS
<1>3. CASE Fitting(p) = {}
  <2>1. sets' = Append(sets, row) /\ RoomFor(p) = Len(sets) + 1
    BY <1>3 DEF WithRoomFor, RoomFor
  <2> HIDE DEF Row, row
  <2>2. /\ sets' \in Seq(Row) /\ Sets' = Sets \cup {RoomFor(p)}
        /\ RoomFor(p) \in Nat /\ RoomFor(p) # 0
        /\ \A t \in Sets : sets'[t] = sets[t]
        /\ sets'[RoomFor(p)] = row
    BY <1>1, <1>2, <2>1, Longer DEF Sets
  <2> QED
    BY <1>2, <1>3, <2>2 DEF Fitting, Row
<1>4. CASE Fitting(p) # {}
  <2>1. PICK t \in Fitting(p) : TRUE
    BY <1>4
  <2>2. t \in Sets /\ t \in Nat /\ t # 0 /\ sets[t].plant = p /\ ~sets[t].gifted
    BY <2>1 DEF Fitting, Sets
  <2>3. \A y \in Fitting(p) : y = t
    BY <2>2, NamesDiffer DEF IInv, OneRoom, Fitting
  <2>4. Ext!Max(Fitting(p)) = t
    <3>1. t \in Fitting(p) /\ \A y \in Fitting(p) : t >= y
      BY <2>1, <2>2, <2>3
    <3>2. Ext!Max(Fitting(p)) \in Fitting(p)
      BY <3>1, Zenon DEF Ext!Max
    <3> QED
      BY <2>3, <3>2
  <2>5. sets' = sets /\ RoomFor(p) = t
    BY <1>4, <2>4 DEF WithRoomFor, RoomFor
  <2> QED
    BY <1>1, <2>2, <2>3, <2>5 DEF Fitting, Sets
<1> QED
  BY <1>3, <1>4

\* Items of its owner go into the fitting room of plant p, others out of it.
Dresses(p, off, on) ==
  /\ plants[p].owner \in Players
  /\ on \subseteq off /\ off \subseteq Items /\ off \cap Held = {}
  /\ sets' = WithRoomFor(p)
  /\ plants' = [plants EXCEPT ![p].worn = RoomFor(p)]
  /\ items' \in [Items -> [user : Players \cup {Gone}, locked : BOOLEAN,
                           set : Nat, listing : Nat]]
  /\ room' \in [Items -> Nat]
  /\ \A i \in Items :
       /\ room'[i] = IF i \in on THEN RoomFor(p) ELSE IF i \in off THEN 0 ELSE room[i]
       /\ items'[i].set = room'[i]
       /\ items'[i].user = items[i].user
       /\ items'[i].locked = items[i].locked
       /\ items'[i].listing = items[i].listing
  /\ \A i \in off : ~items[i].locked
  /\ \A i \in on :
       /\ items[i].user = plants[p].owner /\ items[i].listing = 0
       /\ \A j \in Items : room[j] = RoomFor(p) /\ SlotOf[j] = SlotOf[i] => j \in off
       /\ \A j \in on : i = j
  /\ UNCHANGED <<rewards, listings, requests, deleted, online>>

\* Dressing a plant moves free items of its owner alone.
LEMMA DressesKeeps ==
  ASSUME IInv, NEW p \in Plants, NEW off, NEW on, Dresses(p, off, on)
  PROVE  IInv'
<1> DEFINE s == RoomFor(p)
<1>1. /\ sets' \in Seq([plant : Plants \cup {Gone}, gifted : BOOLEAN])
      /\ Sets' = Sets \cup {s} /\ s \in Nat /\ s # 0
      /\ \A t \in Sets : sets'[t] = sets[t]
      /\ sets'[s].plant = p /\ ~sets'[s].gifted
      /\ \A t \in Sets : ~sets[t].gifted /\ sets[t].plant = p => t = s
  BY RoomIs DEF Dresses
<1>2. \A i \in Items :
        /\ room'[i] = IF i \in on THEN s ELSE IF i \in off THEN 0 ELSE room[i]
        /\ items'[i].set = room'[i]
        /\ items'[i].user = items[i].user /\ items'[i].locked = items[i].locked
        /\ items'[i].listing = items[i].listing
  BY DEF Dresses
<1>3. /\ on \subseteq off /\ off \subseteq Items /\ off \cap Held = {}
      /\ \A i \in off : ~items[i].locked
      /\ \A i \in on :
           /\ items[i].user = plants[p].owner /\ items[i].listing = 0 /\ items[i].user \in Players
           /\ \A j \in Items : room[j] = s /\ SlotOf[j] = SlotOf[i] => j \in off
           /\ \A j \in on : i = j
      /\ UNCHANGED <<rewards, listings, requests, deleted, online>>
  BY DEF Dresses
<1>4. /\ plants' \in [Plants -> [owner : Players \cup {Nobody, Gone}, listing : Nat, worn : Nat]]
      /\ \A q \in Plants :
           /\ plants'[q].owner = plants[q].owner /\ plants'[q].listing = plants[q].listing
           /\ plants'[q].worn = IF q = p THEN s ELSE plants[q].worn
  <2>1. plants' = [plants EXCEPT ![p].worn = s]
    BY DEF Dresses
  <2> HIDE DEF s
  <2>2. plants \in [Plants -> [owner : Players \cup {Nobody, Gone}, listing : Nat, worn : Nat]]
    BY DEF IInv, Typed
  <2>3. s \in Nat /\ p \in Plants
    BY <1>1
  <2>4. plants' \in [Plants -> [owner : Players \cup {Nobody, Gone}, listing : Nat, worn : Nat]]
    BY <2>1, <2>2, <2>3
  <2> QED
    BY <2>1, <2>2, <2>3, <2>4
<1>5. /\ items' \in [Items -> [user : Players \cup {Gone}, locked : BOOLEAN,
                               set : Nat, listing : Nat]]
      /\ room' \in [Items -> Nat]
  BY DEF Dresses
<1> HIDE DEF s
<1>6. \A i \in Items : room[i] \in {0} \cup Sets
  BY DEF IInv, Pointers
<1>7. Typed'
  BY <1>1, <1>3, <1>4, <1>5 DEF IInv, Typed
<1>8. Pointers'
  BY <1>1, <1>2, <1>3, <1>4, <1>6 DEF IInv, Pointers, Listings
<1>9. Loose'
  BY <1>2, <1>3 DEF IInv, Loose
<1>10. OneRoom'
  <2> SUFFICES ASSUME NEW x \in Sets', NEW y \in Sets',
                      ~sets'[x].gifted, ~sets'[y].gifted,
                      sets'[x].plant = sets'[y].plant, sets'[x].plant # Gone
               PROVE  x = y
    BY DEF OneRoom
  <2> QED
    BY <1>1 DEF IInv, OneRoom
<1>11. InRoom'
  <2> SUFFICES ASSUME NEW i \in Items, room'[i] # 0, ~sets'[room'[i]].gifted
               PROVE  /\ sets'[room'[i]].plant \in Plants
                      /\ items'[i].user = plants'[sets'[room'[i]].plant].owner
                      /\ ~items'[i].locked
                      /\ \A j \in Items : room'[j] = room'[i] /\ SlotOf[j] = SlotOf[i] => i = j
    BY <1>2 DEF InRoom
  <2>1. CASE i \in on
    <3>1. room'[i] = s /\ ~items'[i].locked /\ items'[i].user = plants'[p].owner
      BY <1>2, <1>3, <1>4, <2>1
    <3>2. ASSUME NEW j \in Items, room'[j] = s, SlotOf[j] = SlotOf[i]
          PROVE  i = j
      <4>1. j \in on
        BY <1>1, <1>2, <1>3, <2>1, <3>2
      <4> QED
        BY <1>3, <2>1, <4>1
    <3> QED
      BY <1>1, <3>1, <3>2
  <2>2. CASE i \notin on
    <3>1. i \notin off /\ room'[i] = room[i] /\ room[i] \in Sets
      BY <1>2, <1>6, <2>2
    <3>2. /\ sets[room[i]].plant \in Plants /\ ~sets[room[i]].gifted
          /\ items[i].user = plants[sets[room[i]].plant].owner
          /\ ~items[i].locked
          /\ \A j \in Items : room[j] = room[i] /\ SlotOf[j] = SlotOf[i] => i = j
      BY <1>1, <3>1 DEF IInv, InRoom
    <3>3. ASSUME NEW j \in Items, room'[j] = room'[i], SlotOf[j] = SlotOf[i]
          PROVE  i = j
      <4>1. CASE j \in on
        BY <1>2, <1>3, <3>1, <3>3, <4>1
      <4>2. CASE j \notin on
        BY <1>2, <3>1, <3>2, <3>3, <4>2
      <4> QED
        BY <4>1, <4>2
    <3> QED
      BY <1>1, <1>2, <1>4, <3>1, <3>2, <3>3
  <2> QED
    BY <2>1, <2>2
<1>12. InGift'
  BY <1>1, <1>2, <1>6 DEF IInv, InGift
<1>13. LockedIn'
  BY <1>1, <1>2, <1>3, <1>6 DEF IInv, LockedIn
<1>14. GoneIsBare'
  BY <1>2, <1>3, NamesDiffer DEF IInv, GoneIsBare
<1>15. WornIsOwn'
  BY <1>1, <1>4 DEF IInv, WornIsOwn, Pointers
<1>16. OnSaleByItsOwner'
  BY <1>2, <1>3, <1>4, OnSaleStays
<1>17. Asked'
  <2>1. \A t \in requests' : t.op = "list_item" =>
          /\ items'[t.thing].user = items[t.thing].user
          /\ items'[t.thing].listing = 0 /\ room'[t.thing] = 0
          /\ items'[t.thing].locked = items[t.thing].locked
    <3>1. \A t \in requests' : t.op = "list_item" =>
            /\ t.thing \in Items \ off /\ items[t.thing].listing = 0 /\ room[t.thing] = 0
      BY <1>3 DEF IInv, Asked, Held
    <3> QED
      BY <1>2, <1>3, <3>1
  <2>2. \A t \in requests' : t.op \in {"list_plant", "gift_plant"} =>
          /\ plants'[t.thing].owner = plants[t.thing].owner
          /\ plants'[t.thing].listing = 0
    BY <1>3, <1>4 DEF IInv, Asked
  <2> QED
    BY <1>1, <1>3, <2>1, <2>2, AskedStays
<1>18. Rewarded'
  <2>1. \A m \in 1..Len(rewards) : rewards[m] \subseteq Items
    BY DEF IInv, Rewarded
  <2> QED
    BY <1>2, <1>3, <2>1 DEF IInv, Rewarded
<1> QED
  BY <1>7, <1>8, <1>9, <1>10, <1>11, <1>12, <1>13, <1>14, <1>15, <1>16, <1>17, <1>18 DEF IInv

\* An item is tried on.
LEMMA PutKeeps ==
  ASSUME IInv, NEW u \in Players, NEW p \in Plants, NEW i \in Items, Put(u, p, i)
  PROVE  IInv'
<1> DEFINE s == RoomFor(p)
           off == {j \in Items : room[j] = s /\ SlotOf[j] = SlotOf[i]} \cup {i}
<1>1. /\ off \cap Held = {} /\ plants[p].owner = u /\ MayPut(u, i)
      /\ sets' = WithRoomFor(p)
      /\ items' = [Undressed(off) EXCEPT ![i].set = s]
      /\ room' = [Emptied(off) EXCEPT ![i] = s]
      /\ plants' = [plants EXCEPT ![p].worn = s]
      /\ UNCHANGED <<rewards, listings, requests, deleted, online>>
  BY DEF Put, marketVars, accountVars
<1>2. /\ Sets' = Sets \cup {s} /\ s \in Nat /\ s # 0
      /\ \A t \in Sets : sets'[t] = sets[t]
      /\ ~sets'[s].gifted
  BY <1>1, RoomIs
<1>3. off \subseteq Items /\ i \in off /\ \A j \in off : j = i \/ room[j] = s
  OBVIOUS
<1>4. \A j \in Items : room[j] = s /\ SlotOf[j] = SlotOf[i] => j \in off
  OBVIOUS
<1> HIDE DEF off, s
<1>5. \A j \in Items : items[j] \in [user : Players \cup {Gone}, locked : BOOLEAN,
                                     set : Nat, listing : Nat]
  BY DEF IInv, Typed
<1>6. ASSUME NEW j \in Items
      PROVE  /\ items'[j] \in [user : Players \cup {Gone}, locked : BOOLEAN,
                               set : Nat, listing : Nat]
             /\ items'[j].set = IF j = i THEN s ELSE IF j \in off THEN 0 ELSE items[j].set
             /\ items'[j].user = items[j].user
             /\ items'[j].locked = items[j].locked
             /\ items'[j].listing = items[j].listing
  <2>1. CASE j = i
    <3>1. items'[i] = [[items[i] EXCEPT !.set = 0] EXCEPT !.set = s]
      BY <1>1, <1>3 DEF Undressed
    <3> QED
      BY <1>2, <1>5, <2>1, <3>1
  <2>2. CASE j # i /\ j \in off
    <3>1. items'[j] = [items[j] EXCEPT !.set = 0]
      BY <1>1, <2>2 DEF Undressed
    <3> QED
      BY <1>5, <2>2, <3>1
  <2>3. CASE j # i /\ j \notin off
    <3>1. items'[j] = items[j]
      BY <1>1, <2>3 DEF Undressed
    <3> QED
      BY <1>5, <2>3, <3>1
  <2> QED
    BY <2>1, <2>2, <2>3
<1>7. items' \in [Items -> [user : Players \cup {Gone}, locked : BOOLEAN,
                            set : Nat, listing : Nat]]
  <2>1. items' = [j \in Items |-> items'[j]]
    BY <1>1 DEF Undressed
  <2> QED
    BY <1>6, <2>1
<1>8. /\ room' \in [Items -> Nat]
      /\ \A j \in Items :
           room'[j] = IF j = i THEN s ELSE IF j \in off THEN 0 ELSE room[j]
  BY <1>1, <1>2 DEF Emptied, IInv, Typed
<1>9. \A j \in Items : items'[j].set = room'[j]
  BY <1>6, <1>8 DEF IInv, InRoom
<1>10. \A j \in off : ~items[j].locked
  <2>1. \A j \in Items : room[j] = s => ~items[j].locked
    BY <1>2 DEF IInv, InRoom, Pointers
  <2> QED
    BY <1>1, <1>3, <2>1 DEF MayPut
<1>11. Dresses(p, off, {i})
  BY <1>1, <1>3, <1>4, <1>6, <1>7, <1>8, <1>9, <1>10 DEF Dresses, MayPut, s
<1> QED
  BY <1>11, DressesKeeps

\* A slot is emptied.
LEMMA TakeOffKeeps ==
  ASSUME IInv, NEW u \in Players, NEW p \in Plants, NEW slot \in Slots, TakeOff(u, p, slot)
  PROVE  IInv'
<1> DEFINE s == RoomFor(p)
           off == {j \in Items : room[j] = s /\ SlotOf[j] = slot}
<1>1. /\ off \cap Held = {} /\ plants[p].owner = u
      /\ sets' = WithRoomFor(p)
      /\ items' = Undressed(off) /\ room' = Emptied(off)
      /\ plants' = [plants EXCEPT ![p].worn = s]
      /\ UNCHANGED <<rewards, listings, requests, deleted, online>>
  BY DEF TakeOff, marketVars, accountVars
<1>2. /\ Sets' = Sets \cup {s} /\ s \in Nat /\ s # 0
      /\ \A t \in Sets : sets'[t] = sets[t]
      /\ ~sets'[s].gifted
  BY <1>1, RoomIs
<1>3. off \subseteq Items /\ \A j \in off : room[j] = s
  OBVIOUS
<1> HIDE DEF off, s
<1>4. \A j \in Items : items[j] \in [user : Players \cup {Gone}, locked : BOOLEAN,
                                     set : Nat, listing : Nat]
  BY DEF IInv, Typed
<1>5. ASSUME NEW j \in Items
      PROVE  /\ items'[j] \in [user : Players \cup {Gone}, locked : BOOLEAN,
                               set : Nat, listing : Nat]
             /\ items'[j].set = IF j \in off THEN 0 ELSE items[j].set
             /\ items'[j].user = items[j].user
             /\ items'[j].locked = items[j].locked
             /\ items'[j].listing = items[j].listing
  <2>1. CASE j \in off
    <3>1. items'[j] = [items[j] EXCEPT !.set = 0]
      BY <1>1, <2>1 DEF Undressed
    <3> QED
      BY <1>4, <2>1, <3>1
  <2>2. CASE j \notin off
    <3>1. items'[j] = items[j]
      BY <1>1, <2>2 DEF Undressed
    <3> QED
      BY <1>4, <2>2, <3>1
  <2> QED
    BY <2>1, <2>2
<1>6. items' \in [Items -> [user : Players \cup {Gone}, locked : BOOLEAN,
                            set : Nat, listing : Nat]]
  BY <1>1, <1>5 DEF Undressed
<1>7. /\ room' \in [Items -> Nat]
      /\ \A j \in Items : room'[j] = IF j \in off THEN 0 ELSE room[j]
  BY <1>1, <1>2 DEF Emptied, IInv, Typed
<1>8. \A j \in Items : items'[j].set = room'[j]
  BY <1>5, <1>7 DEF IInv, InRoom
<1>9. \A j \in off : ~items[j].locked
  BY <1>2, <1>3 DEF IInv, InRoom, Pointers
<1>10. Dresses(p, off, {})
  BY <1>1, <1>3, <1>5, <1>6, <1>7, <1>8, <1>9 DEF Dresses, s
<1> QED
  BY <1>10, DressesKeeps

\* The fitting room is given to the plant.
LEMMA GiftSetKeeps ==
  ASSUME IInv, NEW u \in Players, NEW p \in Plants, GiftSet(u, p)
  PROVE  IInv'
<1>1. PICK s \in Fitting(p) :
        /\ sets' = [sets EXCEPT ![s].gifted = TRUE]
        /\ items' = [i \in Items |-> IF room[i] = s THEN [items[i] EXCEPT !.locked = TRUE]
                                     ELSE items[i]]
        /\ rewards' = Append(rewards, InFitting(p))
        /\ UNCHANGED <<plants, room, listings, requests, deleted, online>>
  BY DEF GiftSet, marketVars, accountVars
<1>2. /\ s \in Sets /\ s # 0 /\ sets[s].plant = p /\ ~sets[s].gifted
      /\ \A t \in Sets : sets[t].plant = p /\ ~sets[t].gifted => t = s
  BY NamesDiffer DEF IInv, OneRoom, Fitting, Sets
<1>3. \A i \in Items : room[i] \in {0} \cup Sets
  BY DEF IInv, Pointers
<1>4. InFitting(p) = {i \in Items : room[i] = s}
  BY <1>1, <1>2 DEF InFitting, Fitting
<1>5. /\ sets' \in Seq([plant : Plants \cup {Gone}, gifted : BOOLEAN]) /\ Sets' = Sets
      /\ \A t \in Sets : /\ sets'[t].plant = sets[t].plant
                         /\ sets'[t].gifted <=> sets[t].gifted \/ t = s
  <2> DEFINE Row == [plant : Plants \cup {Gone}, gifted : BOOLEAN]
             row == [sets[s] EXCEPT !.gifted = TRUE]
  <2>1. sets \in Seq(Row) /\ \A r \in Row : [r EXCEPT !.gifted = TRUE] \in Row
    BY DEF IInv, Typed
  <2>2. \A r \in Row : [r EXCEPT !.gifted = TRUE].gifted /\ [r EXCEPT !.gifted = TRUE].plant = r.plant
    OBVIOUS
  <2> HIDE DEF Row
  <2>3. sets[s] \in Row
    BY <1>2, <2>1 DEF Sets
  <2>4. row \in Row /\ row.gifted /\ row.plant = sets[s].plant
    BY <2>1, <2>2, <2>3
  <2>5. sets' = [sets EXCEPT ![s] = row]
    BY <1>1
  <2> HIDE DEF row
  <2>6. sets' \in Seq(Row) /\ Len(sets') = Len(sets)
    BY <1>2, <2>1, <2>4, <2>5 DEF Sets
  <2>7. \A t \in Sets : sets'[t] = IF t = s THEN row ELSE sets[t]
    BY <2>1, <2>5 DEF Sets
  <2> QED
    BY <2>4, <2>6, <2>7 DEF Sets, Row
<1>6. \A i \in Items : items[i] \in [user : Players \cup {Gone}, locked : BOOLEAN,
                                     set : Nat, listing : Nat]
  BY DEF IInv, Typed
<1>7. ASSUME NEW i \in Items
      PROVE  /\ items'[i] \in [user : Players \cup {Gone}, locked : BOOLEAN,
                               set : Nat, listing : Nat]
             /\ items'[i].locked <=> items[i].locked \/ room[i] = s
             /\ items'[i].user = items[i].user /\ items'[i].set = items[i].set
             /\ items'[i].listing = items[i].listing
  <2>1. CASE room[i] = s
    <3>1. items'[i] = [items[i] EXCEPT !.locked = TRUE]
      BY <1>1, <2>1
    <3> QED
      BY <1>6, <2>1, <3>1
  <2>2. CASE room[i] # s
    <3>1. items'[i] = items[i]
      BY <1>1, <2>2
    <3> QED
      BY <1>6, <2>2, <3>1
  <2> QED
    BY <2>1, <2>2
<1>8. items' \in [Items -> [user : Players \cup {Gone}, locked : BOOLEAN,
                            set : Nat, listing : Nat]]
  BY <1>1, <1>7
<1>9. room' = room /\ plants' = plants /\ listings' = listings /\ requests' = requests
  BY <1>1
<1>10. \A i \in Items : room[i] = s => ~items[i].locked /\ items[i].user # Gone
  BY <1>2 DEF IInv, InRoom, GoneIsBare
<1>11. Typed'
  BY <1>1, <1>5, <1>8 DEF IInv, Typed
<1>12. Pointers' /\ Loose'
  <2>1. Pointers'
    BY <1>5, <1>7, <1>9 DEF IInv, Pointers, Listings
  <2>2. Loose'
    BY <1>2, <1>7, <1>9 DEF IInv, Loose
  <2> QED
    BY <2>1, <2>2
<1>13. OneRoom'
  BY <1>5 DEF IInv, OneRoom
<1>14. InRoom'
  <2> SUFFICES ASSUME NEW i \in Items
               PROVE  /\ items'[i].set = room'[i]
                      /\ room'[i] # 0 /\ ~sets'[room'[i]].gifted =>
                           /\ sets'[room'[i]].plant \in Plants
                           /\ items'[i].user = plants'[sets'[room'[i]].plant].owner
                           /\ ~items'[i].locked
                           /\ \A j \in Items : room'[j] = room'[i] /\ SlotOf[j] = SlotOf[i]
                                => i = j
    BY DEF InRoom
  <2> QED
    BY <1>3, <1>5, <1>7, <1>9 DEF IInv, InRoom
<1>15. InGift' /\ LockedIn'
  <2>1. InGift'
    BY <1>2, <1>3, <1>5, <1>7, <1>9, NamesDiffer DEF IInv, InGift
  <2>2. LockedIn'
    BY <1>2, <1>3, <1>5, <1>7, <1>9 DEF IInv, LockedIn
  <2> QED
    BY <2>1, <2>2
<1>16. GoneIsBare' /\ WornIsOwn'
  <2>1. GoneIsBare'
    BY <1>7, <1>9 DEF IInv, GoneIsBare
  <2>2. WornIsOwn'
    BY <1>5, <1>9 DEF IInv, WornIsOwn, Pointers
  <2> QED
    BY <2>1, <2>2
<1>17. OnSaleByItsOwner'
  BY <1>7, <1>9, OnSaleStays
<1>18. Asked'
  <2>1. \A t \in requests' : t.op = "list_item" =>
          /\ items'[t.thing].user = items[t.thing].user
          /\ items'[t.thing].listing = 0 /\ room'[t.thing] = 0
          /\ items'[t.thing].locked = items[t.thing].locked
    <3>1. \A t \in requests' : t.op = "list_item" =>
            t.thing \in Items /\ items[t.thing].listing = 0 /\ room[t.thing] = 0
      BY <1>9 DEF IInv, Asked
    <3>2. \A i \in Items : room[i] # s => items'[i] = items[i]
      BY <1>1
    <3> QED
      BY <1>2, <1>9, <3>1, <3>2
  <2>2. \A t \in requests' : t.op \in {"list_plant", "gift_plant"} =>
          /\ plants'[t.thing].owner = plants[t.thing].owner
          /\ plants'[t.thing].listing = 0
    BY <1>9 DEF IInv, Asked
  <2> QED
    BY <1>5, <1>9, <2>1, <2>2, AskedStays
<1>19. Rewarded'
  <2> DEFINE new == InFitting(p)
  <2>1. /\ rewards \in Seq(SUBSET Items)
        /\ \A n \in 1..Len(rewards) : rewards[n] \subseteq Items
    BY DEF IInv, Rewarded
  <2>2. new \in SUBSET Items /\ \A i \in new : room[i] = s /\ i \in Items
    BY <1>4
  <2> HIDE DEF new
  <2>3. /\ rewards' \in Seq(SUBSET Items) /\ Len(rewards) \in Nat
        /\ 1..Len(rewards') = 1..Len(rewards) \cup {Len(rewards) + 1}
        /\ Len(rewards) + 1 \notin 1..Len(rewards)
        /\ rewards'[Len(rewards) + 1] = new
        /\ \A n \in 1..Len(rewards) : rewards'[n] = rewards[n]
    BY <1>1, <2>1, <2>2, Longer DEF new
  <2>4. \A n \in 1..Len(rewards) : rewards[n] \cap new = {}
    BY <1>10, <2>1, <2>2 DEF IInv, Rewarded
  <2>5. \A n \in 1..Len(rewards') : \A i \in rewards'[n] : items'[i].locked
    BY <1>7, <2>1, <2>2, <2>3 DEF IInv, Rewarded
  <2>6. \A m, n \in 1..Len(rewards') : rewards'[m] \cap rewards'[n] # {} => m = n
    BY <2>3, <2>4 DEF IInv, Rewarded
  <2> QED
    BY <2>3, <2>5, <2>6 DEF Rewarded
<1> QED
  BY <1>11, <1>12, <1>13, <1>14, <1>15, <1>16, <1>17, <1>18, <1>19 DEF IInv

\* The step that the invariant takes, one action after the other.
LEMMA StepIInv == IInv /\ [Next]_vars => IInv'
<1> SUFFICES ASSUME IInv, [Next]_vars PROVE IInv'
  OBVIOUS
<1>1. CASE UNCHANGED vars
  <2>1. Asked' /\ Typed'
    BY <1>1 DEF vars, wardrobeVars, marketVars, accountVars, IInv, Asked, Typed, Sets
  <2> QED
    BY <1>1, <2>1, SameTables DEF vars, wardrobeVars, marketVars, accountVars, Typed
<1>2. ASSUME NEW u \in Players, MarketStep(u) PROVE IInv'
  BY <1>2, SmallSteps, CancelKeeps, BuyItemKeeps, BuyPlantKeeps DEF MarketStep
<1>3. ASSUME NEW u \in Players, PlantStep(u) PROVE IInv'
  BY <1>3, SmallSteps, ScytheKeeps DEF PlantStep
<1>4. ASSUME NEW u \in Players, WardrobeStep(u) PROVE IInv'
  BY <1>4, SmallSteps, PutKeeps, TakeOffKeeps, GiftSetKeeps DEF WardrobeStep
<1>5. ASSUME NEW u \in Players, AccountStep(u) PROVE IInv'
  BY <1>5, SmallSteps, CancelKeeps DEF AccountStep
<1>6. ASSUME NEW r \in requests,
             ListItemCommit(r) \/ ListPlantCommit(r) \/ GiftPlantCommit(r) \/ WearWrite(r)
      PROVE  IInv'
  <2>1. r.user \in Players
    BY DEF IInv, Typed
  <2> QED
    BY <1>6, <2>1, SmallSteps, ListItemKeeps, ListPlantKeeps, GiftPlantKeeps
<1> QED
  BY <1>1, <1>2, <1>3, <1>4, <1>5, <1>6 DEF Next, Commit

\* The invariant holds all the time.
LEMMA Inductive == Spec => []IInv
BY InitIInv, StepIInv, PTL DEF Spec

\* A listing is active exactly while its thing points to it and is its
\* seller's (market.js:193-210, 240-252, 300-311).
THEOREM SoldByItsOwner == Spec => []OnSaleByItsOwner
<1>1. IInv => OnSaleByItsOwner
  BY DEF IInv
<1> QED
  BY <1>1, Inductive, PTL

\* A plant has one fitting room, with one free item of its owner per slot
\* (wardrobe.js:55-63, 176-221; plants.js:56-66).
THEOREM FittingRoomHolds == Spec => []FittingRoomIsConsistent
<1>1. IInv => FittingRoomIsConsistent
  <2> SUFFICES ASSUME IInv PROVE FittingRoomIsConsistent
    OBVIOUS
  <2>1. ASSUME NEW p \in Plants
        PROVE  Cardinality(Fitting(p)) <= 1
    <3>1. CASE Fitting(p) = {}
      <4>1. Cardinality(Fitting(p)) = 0
        BY <3>1, FS_EmptySet, Zenon
      <4> QED
        BY <4>1
    <3>2. CASE Fitting(p) # {}
      <4>1. PICK s \in Fitting(p) : TRUE
        BY <3>2
      <4>2. \A t \in Fitting(p) : t = s
        BY <4>1, NamesDiffer DEF IInv, OneRoom, Fitting
      <4>3. Fitting(p) = {s}
        BY <4>1, <4>2
      <4>4. Cardinality(Fitting(p)) = 1
        BY <4>3, FS_Singleton, Zenon
      <4> QED
        BY <4>4
    <3> QED
      BY <3>1, <3>2
  <2>2. ASSUME NEW i \in Items, NEW s \in Sets, room[i] = s, ~sets[s].gifted
        PROVE  /\ sets[s].plant \in Plants
               /\ items[i].user = plants[sets[s].plant].owner
               /\ ~items[i].locked /\ items[i].listing = 0
               /\ \A j \in Items : room[j] = s /\ SlotOf[j] = SlotOf[i] => i = j
    <3>1. s # 0
      BY DEF Sets
    <3> QED
      BY <2>2, <3>1 DEF IInv, InRoom, Loose
  <2> QED
    BY <2>1, <2>2 DEF FittingRoomIsConsistent, IInv, InRoom, WornIsOwn
<1> QED
  BY <1>1, Inductive, PTL

\* No item is paid for twice, and none that was paid for is sold or worn
\* elsewhere while its plant lives (wardrobe.js:12-15).
THEOREM RewardsAreOnce == Spec => []RewardedOnce
<1>1. IInv => RewardedOnce
  <2> SUFFICES ASSUME IInv PROVE RewardedOnce
    OBVIOUS
  <2>1. ASSUME NEW i \in Items, NEW n \in 1..Len(rewards), i \in rewards[n], items[i].user # Gone
        PROVE  /\ items[i].locked /\ items[i].listing = 0
               /\ room[i] # 0 /\ sets[room[i]].gifted /\ sets[room[i]].plant # Gone
    <3>1. items[i].locked
      BY <2>1 DEF IInv, Rewarded
    <3>2. room[i] # 0 /\ sets[room[i]].gifted
      BY <2>1, <3>1 DEF IInv, LockedIn
    <3> QED
      BY <3>1, <3>2 DEF IInv, InGift, Loose
  <2> QED
    BY <2>1 DEF RewardedOnce, IInv, Rewarded
<1> QED
  BY <1>1, Inductive, PTL

\* Rows of listings and sets are never removed, and what is sold stays sold.
RowsStay ==
  /\ Listings \subseteq Listings' /\ Sets \subseteq Sets'
  /\ \A l \in Listings : listings[l].status = "sold" => listings'[l].status = "sold"

\* What the statements on market_listings and wardrobe_sets leave.
LEMMA RowsStayWhere ==
  ASSUME IInv,
         \/ UNCHANGED listings
         \/ \E row \in [seller : Players, thing : Plants \cup Items,
                        status : {"active", "sold", "cancelled"}] :
              listings' = Append(listings, row)
         \/ \E L \in SUBSET Listings, status \in {"sold", "cancelled"} :
              /\ \A l \in L : listings[l].status = "active"
              /\ listings' = Closed(L, status),
         \/ UNCHANGED sets
         \/ \E D : sets' = WithoutSets(D)
         \/ \E p \in Plants : sets' = WithRoomFor(p)
         \/ \E s \in Sets : sets' = [sets EXCEPT ![s].gifted = TRUE]
  PROVE  RowsStay
<1> DEFINE Row == [seller : Players, thing : Plants \cup Items,
                   status : {"active", "sold", "cancelled"}]
<1>1. listings \in Seq(Row) /\ sets \in Seq([plant : Plants \cup {Gone}, gifted : BOOLEAN])
  BY DEF IInv, Typed
<1>2. /\ Listings \subseteq Listings'
      /\ \A l \in Listings : listings[l].status = "sold" => listings'[l].status = "sold"
  <2>1. CASE UNCHANGED listings
    BY <2>1 DEF Listings
  <2>2. ASSUME NEW row \in Row, listings' = Append(listings, row)
        PROVE  /\ Listings \subseteq Listings'
               /\ \A l \in Listings : listings[l].status = "sold" => listings'[l].status = "sold"
    <3> HIDE DEF Row
    <3>1. Listings \subseteq Listings' /\ \A l \in Listings : listings'[l] = listings[l]
      BY <1>1, <2>2, Longer DEF Listings
    <3> QED
      BY <3>1
  <2>3. ASSUME NEW L \in SUBSET Listings, NEW status \in {"sold", "cancelled"},
               \A l \in L : listings[l].status = "active",
               listings' = Closed(L, status)
        PROVE  /\ Listings \subseteq Listings'
               /\ \A l \in Listings : listings[l].status = "sold" => listings'[l].status = "sold"
    BY <2>3, ClosedRows
  <2> QED
    BY <2>1, <2>2, <2>3
<1>3. Sets \subseteq Sets'
  <2>1. ASSUME NEW D, sets' = WithoutSets(D)
        PROVE  Sets \subseteq Sets'
    <3>1. Len(sets') = Len(sets)
      BY <1>1, <2>1 DEF WithoutSets, Sets
    <3> QED
      BY <3>1 DEF Sets
  <2>2. ASSUME NEW p \in Plants, sets' = WithRoomFor(p)
        PROVE  Sets \subseteq Sets'
    BY <2>2, RoomIs
  <2>3. ASSUME NEW s \in Sets, sets' = [sets EXCEPT ![s].gifted = TRUE]
        PROVE  Sets \subseteq Sets'
    <3>1. Len(sets') = Len(sets)
      BY <1>1, <2>3
    <3> QED
      BY <3>1 DEF Sets
  <2> QED
    BY <2>1, <2>2, <2>3 DEF Sets
<1> QED
  BY <1>2, <1>3 DEF RowsStay

\* Every step leaves the rows.
LEMMA StepRows == IInv /\ [Next]_vars => RowsStay
<1> SUFFICES ASSUME IInv, [Next]_vars PROVE RowsStay
  OBVIOUS
<1> USE DEF vars, wardrobeVars, marketVars
<1>1. CASE UNCHANGED vars
  BY <1>1, RowsStayWhere
<1>2. ASSUME NEW u \in Players, MarketStep(u) PROVE RowsStay
  <2>1. CASE \E i \in Items : ListItemBegin(u, i)
    BY <2>1, RowsStayWhere DEF ListItemBegin
  <2>2. CASE \E p \in Plants : ListPlantBegin(u, p)
    BY <2>2, RowsStayWhere DEF ListPlantBegin
  <2>3. ASSUME NEW l \in Listings, Cancel(u, l) PROVE RowsStay
    <3>1. /\ {l} \in SUBSET Listings /\ \A k \in {l} : listings[k].status = "active"
          /\ listings' = Closed({l}, "cancelled") /\ UNCHANGED sets
      BY <2>3 DEF Cancel
    <3> QED
      BY <3>1, RowsStayWhere
  <2>4. ASSUME NEW l \in Listings, BuyItem(u, l) PROVE RowsStay
    <3>1. /\ {l} \in SUBSET Listings /\ \A k \in {l} : listings[k].status = "active"
          /\ listings' = Closed({l}, "sold") /\ UNCHANGED sets
      BY <2>4 DEF BuyItem, MaySell, Pay
    <3> QED
      BY <3>1, RowsStayWhere
  <2>5. ASSUME NEW l \in Listings, BuyPlant(u, l) PROVE RowsStay
    <3>1. /\ {l} \in SUBSET Listings /\ \A k \in {l} : listings[k].status = "active"
          /\ listings' = Closed({l}, "sold") /\ \E D : sets' = WithoutSets(D)
      BY <2>5 DEF BuyPlant, MaySell, Pay, ReleaseFittingRoom
    <3> QED
      BY <3>1, RowsStayWhere
  <2> QED
    BY <1>2, <2>1, <2>2, <2>3, <2>4, <2>5 DEF MarketStep
<1>3. ASSUME NEW u \in Players, NEW p \in Plants,
             \/ \E v \in Players : GiftPlantBegin(u, p, v)
             \/ \E q \in Plants : Scythe(u, p, q)
      PROVE  RowsStay
  <2>1. UNCHANGED listings /\ (UNCHANGED sets \/ \E D : sets' = WithoutSets(D))
    BY <1>3 DEF GiftPlantBegin, Scythe
  <2> QED
    BY <2>1, RowsStayWhere
<1>4. ASSUME NEW u \in Players, NEW p \in Plants,
             \/ \E i \in Items : Put(u, p, i)
             \/ \E slot \in Slots : TakeOff(u, p, slot)
             \/ TakeOffAll(u, p)
             \/ \E s \in Sets : WearRead(u, p, s)
             \/ GiftSet(u, p)
      PROVE  RowsStay
  <2>1. /\ UNCHANGED listings
        /\ \/ UNCHANGED sets
           \/ sets' = WithRoomFor(p)
           \/ \E s \in Sets : sets' = [sets EXCEPT ![s].gifted = TRUE]
    BY <1>4 DEF Put, TakeOff, TakeOffAll, WearRead, GiftSet, Fitting
  <2> QED
    BY <2>1, RowsStayWhere
<1>5. ASSUME NEW u \in Players, AccountStep(u) PROVE RowsStay
  <2>1. CASE (\E v \in Players, amount \in Amounts : Transfer(u, v, amount)) \/ DropSessions(u)
    BY <2>1, RowsStayWhere DEF Transfer, DropSessions
  <2>2. CASE DeleteAccount(u)
    <3> DEFINE L == {l \in Listings : listings[l].seller = u /\ listings[l].status = "active"}
    <3>1. /\ L \in SUBSET Listings /\ \A l \in L : listings[l].status = "active"
          /\ listings' = Closed(L, "cancelled") /\ UNCHANGED sets
      BY <2>2 DEF DeleteAccount
    <3> QED
      BY <3>1, RowsStayWhere
  <2> QED
    BY <1>5, <2>1, <2>2 DEF AccountStep
<1>6. ASSUME NEW r \in requests,
             ListItemCommit(r) \/ ListPlantCommit(r) \/ GiftPlantCommit(r) \/ WearWrite(r)
      PROVE  RowsStay
  <2>1. r.user \in Players /\ r.thing \in Plants \cup Items
    BY DEF IInv, Typed
  <2>2. Listing(r.user, r.thing) \in [seller : Players, thing : Plants \cup Items,
                                      status : {"active", "sold", "cancelled"}]
    BY <2>1 DEF Listing
  <2>3. CASE ListItemCommit(r)
    BY <2>2, <2>3, RowsStayWhere DEF ListItemCommit
  <2>4. CASE ListPlantCommit(r)
    <3>1. listings' = Append(listings, Listing(r.user, r.thing)) /\ \E D : sets' = WithoutSets(D)
      BY <2>4 DEF ListPlantCommit, ReleaseFittingRoom
    <3> QED
      BY <2>2, <3>1, RowsStayWhere
  <2>5. CASE GiftPlantCommit(r)
    <3>1. UNCHANGED listings /\ \E D : sets' = WithoutSets(D)
      BY <2>5 DEF GiftPlantCommit
    <3> QED
      BY <3>1, RowsStayWhere
  <2>6. CASE WearWrite(r)
    BY <2>6, RowsStayWhere DEF WearWrite
  <2> QED
    BY <1>6, <2>3, <2>4, <2>5, <2>6
<1> QED
  BY <1>1, <1>2, <1>3, <1>4, <1>5, <1>6 DEF Next, Commit, PlantStep, WardrobeStep

\* A sale is of a listing that is sold by then, and coins are never owed.
Money ==
  /\ coins \in [Players -> Nat]
  /\ trades \in Seq([listing : Nat, buyer : Players])
  /\ \A n \in 1..Len(trades) :
       trades[n].listing \in Listings /\ listings[trades[n].listing].status = "sold"
  /\ SoldOnce
  /\ \A r \in requests : r.arg \in {0} \cup Sets \cup Players

\* A request is asked for or committed, and nobody pays.
LEMMA NoSale ==
  ASSUME IInv, Money, RowsStay, UNCHANGED trades, coins' \in [Players -> Nat],
         \A r \in requests' \ requests : r.arg \in {0} \cup Sets \cup Players
  PROVE  Money'
<1>1. \A r \in requests' : r.arg \in {0} \cup Sets' \cup Players
  BY DEF Money, RowsStay
<1>2. \A n \in 1..Len(trades) :
        trades[n].listing \in Listings' /\ listings'[trades[n].listing].status = "sold"
  BY DEF Money, RowsStay
<1> QED
  BY <1>1, <1>2 DEF Money, SoldOnce

\* Somebody pays for a listing.
LEMMA Sale ==
  ASSUME IInv, Money, RowsStay, NEW u \in Players, NEW l \in Listings,
         MaySell(u, l), Pay(u, l), UNCHANGED requests
  PROVE  Money'
<1> DEFINE new == [listing |-> l, buyer |-> u]
           Row == [listing : Nat, buyer : Players]
<1>1. l \in Nat /\ listings[l].seller \in Players /\ listings[l].seller # u
      /\ listings[l].status = "active"
  BY ListingRows DEF Listings, MaySell
<1>2. coins' \in [Players -> Nat]
  <2> DEFINE v == listings[l].seller
  <2>1. /\ coins \in [Players -> Nat] /\ coins[u] - Price \in Nat
        /\ coins[v] + (Price - Commission) \in Nat
    BY <1>1, CommissionIsAPart DEF Money, MaySell
  <2>2. coins' = [coins EXCEPT ![u] = coins[u] - Price,
                               ![v] = coins[v] + (Price - Commission)]
    BY <1>1, <2>1 DEF Pay
  <2> HIDE DEF v
  <2> QED
    BY <2>1, <2>2
<1>3. new \in Row /\ new.listing = l
  BY <1>1
<1>4. trades \in Seq(Row) /\ trades' = Append(trades, new)
  BY DEF Money, Pay
<1> HIDE DEF Row, new
<1>5. /\ trades' \in Seq(Row) /\ Len(trades) \in Nat
      /\ 1..Len(trades') = 1..Len(trades) \cup {Len(trades) + 1}
      /\ Len(trades) + 1 \notin 1..Len(trades)
      /\ trades'[Len(trades) + 1] = new
      /\ \A n \in 1..Len(trades) : trades'[n] = trades[n]
  BY <1>3, <1>4, Longer
<1>6. listings'[l].status = "sold" /\ l \in Listings'
  <2>1. listings' = Closed({l}, "sold") /\ {l} \in SUBSET Listings
    BY DEF Pay
  <2>2. Listings' = Listings /\ \A k \in {l} : listings'[k].status = "sold"
    BY <2>1, ClosedRows
  <2> QED
    BY <2>1, <2>2
<1>7. \A n \in 1..Len(trades) :
        /\ trades[n].listing \in Listings' /\ listings'[trades[n].listing].status = "sold"
        /\ trades[n].listing # l
  BY <1>1 DEF Money, RowsStay
<1>8. SoldOnce'
  BY <1>3, <1>5, <1>7 DEF Money, SoldOnce
<1>9. \A n \in 1..Len(trades') :
        trades'[n].listing \in Listings' /\ listings'[trades'[n].listing].status = "sold"
  BY <1>3, <1>5, <1>6, <1>7
<1>10. \A r \in requests' : r.arg \in {0} \cup Sets' \cup Players
  BY DEF Money, RowsStay
<1> QED
  BY <1>2, <1>5, <1>8, <1>9, <1>10 DEF Money, Row

\* Coins and trades, one action after the other.
LEMMA StepMoney == IInv /\ Money /\ [Next]_vars => Money'
<1> SUFFICES ASSUME IInv, Money, [Next]_vars PROVE Money'
  OBVIOUS
<1> USE DEF vars, wardrobeVars, marketVars
<1>0. \A op, v, thing, arg : Request(op, v, thing, arg).arg = arg
  BY DEF Request
<1>1. RowsStay /\ coins \in [Players -> Nat]
  BY StepRows DEF Money
<1>2. CASE UNCHANGED vars
  BY <1>1, <1>2, NoSale
<1>3. ASSUME NEW u \in Players, MarketStep(u) PROVE Money'
  <2>1. ASSUME NEW l \in Listings, BuyItem(u, l) \/ BuyPlant(u, l) PROVE Money'
    BY <1>1, <2>1, Sale DEF BuyItem, BuyPlant
  <2>2. CASE \/ \E i \in Items : ListItemBegin(u, i)
             \/ \E p \in Plants : ListPlantBegin(u, p)
             \/ \E l \in Listings : Cancel(u, l)
    <3>1. /\ UNCHANGED <<trades, coins>>
          /\ \/ UNCHANGED requests
             \/ \E op, thing : requests' = requests \cup {Request(op, u, thing, 0)}
      BY <2>2 DEF ListItemBegin, ListPlantBegin, Cancel
    <3>2. \A r \in requests' \ requests : r.arg = 0
      BY <1>0, <3>1
    <3> QED
      BY <1>1, <3>1, <3>2, NoSale
  <2> QED
    BY <1>3, <2>1, <2>2 DEF MarketStep
<1>4. ASSUME NEW u \in Players, PlantStep(u) PROVE Money'
  <2>1. /\ UNCHANGED <<trades, coins>>
        /\ \/ UNCHANGED requests
           \/ \E p \in Plants, v \in Players :
                requests' = requests \cup {Request("gift_plant", u, p, v)}
    BY <1>4 DEF PlantStep, GiftPlantBegin, Scythe
  <2>2. \A r \in requests' \ requests : r.arg \in Players
    BY <1>0, <2>1
  <2> QED
    BY <1>1, <2>1, <2>2, NoSale
<1>5. ASSUME NEW u \in Players, WardrobeStep(u) PROVE Money'
  <2>1. /\ UNCHANGED <<trades, coins>>
        /\ \/ UNCHANGED requests
           \/ \E p \in Plants, s \in Sets :
                requests' = requests \cup {Request("wear", u, p, s)}
    BY <1>5 DEF WardrobeStep, Put, TakeOff, TakeOffAll, WearRead, GiftSet
  <2>2. \A r \in requests' \ requests : r.arg \in Sets
    BY <1>0, <2>1
  <2> QED
    BY <1>1, <2>1, <2>2, NoSale
<1>6. ASSUME NEW u \in Players, AccountStep(u) PROVE Money'
  <2>1. ASSUME NEW v \in Players, NEW amount \in Amounts, Transfer(u, v, amount)
        PROVE  coins' \in [Players -> Nat]
    <3>1. coins[u] - amount \in Nat /\ coins[v] + amount \in Nat /\ u # v
      BY <1>1, <2>1, AmountsAreAboveZero DEF Transfer
    <3>2. coins' = [coins EXCEPT ![u] = coins[u] - amount, ![v] = coins[v] + amount]
      BY <1>1, <2>1, <3>1 DEF Transfer
    <3> QED
      BY <1>1, <3>1, <3>2
  <2>2. /\ UNCHANGED <<trades, requests>>
        /\ coins' \in [Players -> Nat]
    BY <1>1, <1>6, <2>1 DEF AccountStep, Transfer, DeleteAccount, DropSessions
  <2> QED
    BY <1>1, <2>2, NoSale
<1>7. CASE Commit
  <2>1. UNCHANGED <<trades, coins>> /\ requests' \subseteq requests
    BY <1>7 DEF Commit, ListItemCommit, ListPlantCommit, GiftPlantCommit, WearWrite
  <2> QED
    BY <1>1, <2>1, NoSale
<1> QED
  BY <1>2, <1>3, <1>4, <1>5, <1>6, <1>7 DEF Next

\* Money holds all the time.
LEMMA MoneyInductive == Spec => []Money
<1>1. Init => Money
  BY CommissionIsAPart DEF Init, Money, SoldOnce
<1> QED
  BY <1>1, StepMoney, Inductive, PTL DEF Spec

\* A set of naturals that is not empty has a least element.
LEMMA LeastElement ==
  ASSUME NEW T, T \subseteq Nat, T # {}
  PROVE  \E x \in T : \A y \in T : x <= y
<1>1. \E x \in T : \A y \in T : ~(<<y, x>> \in OpToRel(<, Nat))
  BY WFMin, NatLessThanWellFounded
<1>2. OpToRel(<, Nat) = {ss \in Nat \X Nat : ss[1] < ss[2]}
  BY Zenon DEF OpToRel
<1>3. PICK x \in T : \A y \in T : ~(<<y, x>> \in {ss \in Nat \X Nat : ss[1] < ss[2]})
  BY <1>1, <1>2, Zenon
<1>4. \A y \in T : ~(y < x)
  BY <1>3
<1> QED
  BY <1>4

\* Induction over 0..n, for a set of numbers in the place of a predicate.
LEMMA PrefixInduction ==
  ASSUME NEW n \in Nat, NEW P, 0 \in P, \A k \in 1..n : k - 1 \in P => k \in P
  PROVE  \A k \in 0..n : k \in P
<1> DEFINE T == {k \in 0..n : k \notin P}
<1> SUFFICES ASSUME T # {}
             PROVE  FALSE
  OBVIOUS
<1>1. T \subseteq Nat
  OBVIOUS
<1> HIDE DEF T
<1>2. PICK x \in T : \A y \in T : x <= y
  BY <1>1, LeastElement
<1> USE DEF T
<1>3. x \in 1..n /\ x - 1 \in 0..n
  BY <1>2
<1> QED
  BY <1>2, <1>3

\* Roll calls every player once.
LEMMA RollCallsAll ==
  /\ Cardinality(Players) \in Nat
  /\ Roll \in [1..Cardinality(Players) -> Players]
  /\ \A i, j \in 1..Cardinality(Players) : Roll[i] = Roll[j] => i = j
  /\ \A u \in Players : \E j \in 1..Cardinality(Players) : Roll[j] = u
<1> DEFINE n == Cardinality(Players)
<1>1. n \in Nat /\ ExistsBijection(1..n, Players)
  BY PlayersAreFinite, FS_CardinalityType
<1>2. Roll \in Bijection(1..n, Players)
  BY <1>1 DEF Roll, ExistsBijection
<1> HIDE DEF n
<1>3. /\ Roll \in [1..n -> Players] /\ \A i, j \in 1..n : Roll[i] = Roll[j] => i = j
      /\ \A u \in Players : \E j \in 1..n : Roll[j] = u
  <2>1. Roll \in Injection(1..n, Players) /\ Roll \in Surjection(1..n, Players)
    BY <1>2, Zenon DEF Bijection
  <2>2. /\ Roll \in [1..n -> Players]
        /\ \A i \in 1..n : \A j \in 1..n : Roll[i] = Roll[j] => i = j
    BY <2>1 DEF Injection, IsInjective
  <2>3. \A u \in Players : \E j \in 1..n : Roll[j] = u
    BY <2>1, Zenon DEF Surjection
  <2> QED
    BY <2>2, <2>3
<1> QED
  BY <1>1, <1>3 DEF n

\* The sum, one player after the other.
LEMMA TotalUnfolds ==
  ASSUME NEW c \in [Players -> Int]
  PROVE  \E f : /\ f[0] = 0
                /\ \A k \in 1..Cardinality(Players) :
                     f[k - 1] \in Int /\ f[k] = f[k - 1] + c[Roll[k]]
                /\ f[Cardinality(Players)] \in Int
                /\ Total(c) = f[Cardinality(Players)]
<1> DEFINE n == Cardinality(Players)
           Step(k, x) == x + c[Roll[k]]
           Def(f) == [k \in 0..n |-> IF k = 0 THEN 0 ELSE Step(k, f[k - 1])]
           sum == CHOOSE f : f = Def(f)
           Is(f, k) == f \in [0..k -> Int] /\ f[0] = 0 /\ \A j \in 1..k : f[j] = Step(j, f[j - 1])
           P == {k \in 0..n : \E f : Is(f, k)}
<1>1. n \in Nat /\ \A k \in 1..n, x \in Int : Step(k, x) \in Int
  BY RollCallsAll
<1> HIDE DEF n, Step
<1>2. 0 \in P
  <2> DEFINE z == [k \in 0..0 |-> 0]
  <2>1. Is(z, 0)
    OBVIOUS
  <2> HIDE DEF z
  <2> QED
    BY <2>1, <1>1
<1>3. \A k \in 1..n : k - 1 \in P => k \in P
  <2> SUFFICES ASSUME NEW k \in 1..n, NEW f, Is(f, k - 1)
               PROVE  k \in P
    OBVIOUS
  <2> DEFINE g == [j \in 0..k |-> IF j = k THEN Step(k, f[k - 1]) ELSE f[j]]
  <2>1. f[k - 1] \in Int /\ Step(k, f[k - 1]) \in Int
    BY <1>1
  <2>2. g \in [0..k -> Int] /\ g[0] = 0
    BY <1>1, <2>1
  <2>3. ASSUME NEW j \in 1..k
        PROVE  g[j] = Step(j, g[j - 1])
    <3>1. g[j - 1] = f[j - 1] /\ j \in 0..k
      BY <1>1
    <3>2. CASE j = k
      BY <3>1, <3>2
    <3>3. CASE j # k
      BY <3>1, <3>3
    <3> QED
      BY <3>2, <3>3
  <2>4. Is(g, k)
    BY <2>2, <2>3
  <2> HIDE DEF g, Is
  <2> QED
    BY <1>1, <2>4
<1>4. n \in P
  <2> HIDE DEF P
  <2>1. \A k \in 0..n : k \in P
    BY <1>1, <1>2, <1>3, PrefixInduction
  <2> QED
    BY <2>1, <1>1
<1>5. PICK f : Is(f, n)
  BY <1>4
<1>6. f = Def(f)
  BY <1>1, <1>5
<1>7. sum = Def(sum)
  <2> HIDE DEF Def
  <2> QED
    BY <1>6
<1>8. Total(c) = sum[n]
  BY Zenon DEF Total, n, Step
<1> HIDE DEF sum
<1>9. sum[0] = 0 /\ \A k \in 1..n : sum[k] = Step(k, sum[k - 1])
  <2>1. sum[0] = Def(sum)[0] /\ \A k \in 1..n : sum[k] = Def(sum)[k]
    BY <1>7
  <2>2. Def(sum)[0] = 0
    BY <1>1
  <2>3. \A k \in 1..n : k \in 0..n /\ k # 0
    BY <1>1
  <2>4. \A k \in 1..n : Def(sum)[k] = Step(k, sum[k - 1])
    BY <2>3
  <2> HIDE DEF Def
  <2> QED
    BY <2>1, <2>2, <2>4
<1> DEFINE Q == {k \in 0..n : sum[k] \in Int}
<1>10. 0 \in Q
  BY <1>1, <1>9
<1>11. \A k \in 1..n : k - 1 \in Q => k \in Q
  BY <1>1, <1>9
<1>12. \A k \in 0..n : sum[k] \in Int
  <2> HIDE DEF Q
  <2>1. \A k \in 0..n : k \in Q
    BY <1>1, <1>10, <1>11, PrefixInduction
  <2> QED
    BY <2>1 DEF Q
<1>13. /\ \A k \in 1..n : sum[k - 1] \in Int /\ sum[k] = sum[k - 1] + c[Roll[k]]
       /\ sum[n] \in Int
  BY <1>1, <1>9, <1>12 DEF Step
<1> QED
  BY <1>8, <1>9, <1>13 DEF n

\* What one player has more, all have more.
LEMMA TotalGrows ==
  ASSUME NEW c \in [Players -> Int], NEW d \in [Players -> Int],
         NEW u \in Players, NEW x \in Int,
         d[u] = c[u] + x, \A v \in Players \ {u} : d[v] = c[v]
  PROVE  Total(d) = Total(c) + x /\ Total(c) \in Int
<1> DEFINE n == Cardinality(Players)
<1>1. PICK f : /\ f[0] = 0
               /\ \A k \in 1..n : f[k - 1] \in Int /\ f[k] = f[k - 1] + c[Roll[k]]
               /\ f[n] \in Int
               /\ Total(c) = f[n]
  BY TotalUnfolds
<1>2. PICK g : /\ g[0] = 0
               /\ \A k \in 1..n : g[k - 1] \in Int /\ g[k] = g[k - 1] + d[Roll[k]]
               /\ g[n] \in Int
               /\ Total(d) = g[n]
  BY TotalUnfolds
<1>3. n \in Nat /\ \A k \in 1..n : Roll[k] \in Players
  BY RollCallsAll
<1>4. PICK j \in 1..n : Roll[j] = u /\ \A k \in 1..n : k # j => Roll[k] # u
  BY RollCallsAll
<1> HIDE DEF n
<1> DEFINE P == {k \in 0..n : g[k] = IF k < j THEN f[k] ELSE f[k] + x}
<1>5. 0 \in P
  BY <1>1, <1>2, <1>3, <1>4
<1>6. \A k \in 1..n : k - 1 \in P => k \in P
  <2> SUFFICES ASSUME NEW k \in 1..n, g[k - 1] = IF k - 1 < j THEN f[k - 1] ELSE f[k - 1] + x
               PROVE  g[k] = IF k < j THEN f[k] ELSE f[k] + x
    BY <1>3
  <2>1. c[Roll[k]] \in Int /\ f[k - 1] \in Int /\ f[k] = f[k - 1] + c[Roll[k]]
        /\ g[k] = g[k - 1] + d[Roll[k]]
    BY <1>1, <1>2, <1>3
  <2>2. CASE k = j
    <3>1. d[Roll[k]] = c[Roll[k]] + x
      BY <1>4, <2>2
    <3> QED
      BY <2>1, <2>2, <3>1
  <2>3. CASE k # j
    <3>1. d[Roll[k]] = c[Roll[k]]
      BY <1>3, <1>4, <2>3
    <3>2. k - 1 < j <=> k < j
      BY <2>3
    <3> QED
      BY <2>1, <3>1, <3>2
  <2> QED
    BY <2>2, <2>3
<1>7. n \in P
  <2> HIDE DEF P
  <2>1. \A k \in 0..n : k \in P
    BY <1>3, <1>5, <1>6, PrefixInduction
  <2> QED
    BY <2>1, <1>3
<1>8. Total(d) = Total(c) + x
  BY <1>1, <1>2, <1>3, <1>4, <1>7
<1> QED
  BY <1>1, <1>8

\* Where all have the same, it is multiplied.
LEMMA TotalOfSame ==
  ASSUME NEW x \in Int, NEW c \in [Players -> Int], \A u \in Players : c[u] = x
  PROVE  Total(c) = Cardinality(Players) * x
<1> DEFINE n == Cardinality(Players)
<1>1. PICK f : /\ f[0] = 0
               /\ \A k \in 1..n : f[k - 1] \in Int /\ f[k] = f[k - 1] + c[Roll[k]]
               /\ Total(c) = f[n]
  BY TotalUnfolds
<1>2. n \in Nat /\ \A k \in 1..n : c[Roll[k]] = x
  BY RollCallsAll
<1> DEFINE P == {k \in 0..n : f[k] = k * x}
<1> HIDE DEF n
<1>3. 0 \in P
  BY <1>1, <1>2
<1>4. \A k \in 1..n : k - 1 \in P => k \in P
  <2> SUFFICES ASSUME NEW k \in 1..n, f[k - 1] = (k - 1) * x
               PROVE  f[k] = k * x
    BY <1>2
  <2>1. f[k] = (k - 1) * x + x
    BY <1>1, <1>2
  <2> QED
    BY <2>1
<1>5. f[n] = n * x
  <2> HIDE DEF P
  <2>1. \A k \in 0..n : k \in P
    BY <1>2, <1>3, <1>4, PrefixInduction
  <2> QED
    BY <2>1, <1>2 DEF P
<1> QED
  BY <1>1, <1>5 DEF n

\* One player pays and another is paid.
LEMMA CoinsMove ==
  ASSUME coins \in [Players -> Int], coins' \in [Players -> Int],
         NEW v \in Players, NEW u \in Players \ {v}, NEW x \in Int, NEW y \in Int,
         coins'[u] = coins[u] - x, coins'[v] = coins[v] + y,
         \A w \in Players : w # u /\ w # v => coins'[w] = coins[w]
  PROVE  Total(coins') = Total(coins) + (y - x)
<1> DEFINE d == [w \in Players |-> IF w = u THEN coins'[w] ELSE coins[w]]
<1>1. /\ d \in [Players -> Int] /\ d[u] = coins[u] + (0 - x)
      /\ \A w \in Players \ {u} : d[w] = coins[w]
  OBVIOUS
<1>2. coins'[v] = d[v] + y /\ \A w \in Players \ {v} : coins'[w] = d[w]
  OBVIOUS
<1>3. 0 - x \in Int
  OBVIOUS
<1> HIDE DEF d
<1>4. Total(d) = Total(coins) + (0 - x) /\ Total(coins) \in Int
  BY <1>1, <1>3, TotalGrows
<1>5. Total(coins') = Total(d) + y
  BY <1>1, <1>2, TotalGrows
<1> QED
  BY <1>4, <1>5

\* What all have together is what all began with, less the commissions.
Balance == Total(coins) = Cardinality(Players) * Price - Len(trades) * Commission

\* Only a sale and a transfer move coins.
LEMMA StepBalance == IInv /\ Money /\ Balance /\ [Next]_vars => Balance'
<1> SUFFICES ASSUME IInv, Money, Balance, [Next]_vars PROVE Balance'
  OBVIOUS
<1> USE DEF vars, wardrobeVars, marketVars
<1>1. /\ coins \in [Players -> Int] /\ Total(coins) \in Int /\ Len(trades) \in Nat
      /\ Price \in Nat /\ Commission \in Nat
      /\ Cardinality(Players) \in Nat
      /\ trades \in Seq([listing : Nat, buyer : Players])
  <2>1. \E f : f[Cardinality(Players)] \in Int /\ Total(coins) = f[Cardinality(Players)]
    BY TotalUnfolds DEF Money
  <2> QED
    BY <2>1, RollCallsAll, CommissionIsAPart DEF Money
<1>2. CASE UNCHANGED <<trades, coins>>
  BY <1>2 DEF Balance
<1>3. ASSUME NEW u \in Players, NEW l \in Listings, MaySell(u, l), Pay(u, l)
      PROVE  Balance'
  <2>1. listings[l].seller \in Players /\ l \in Nat
    BY ListingRows DEF Listings
  <2>2. Total(coins') = Total(coins) + ((Price - Commission) - Price)
    <3> DEFINE v == listings[l].seller
    <3>1. v \in Players /\ u \in Players \ {v}
      BY <1>3, <2>1 DEF MaySell
    <3>2. Price \in Int /\ Price - Commission \in Int
      BY <1>1
    <3>3. coins' = [coins EXCEPT ![u] = @ - Price, ![v] = @ + (Price - Commission)]
      BY <1>3 DEF Pay
    <3> HIDE DEF v
    <3>4. /\ coins' \in [Players -> Int]
          /\ coins'[u] = coins[u] - Price /\ coins'[v] = coins[v] + (Price - Commission)
          /\ \A w \in Players : w # u /\ w # v => coins'[w] = coins[w]
      BY <1>1, <3>1, <3>2, <3>3
    <3> QED
      BY <1>1, <3>1, <3>2, <3>4, CoinsMove
  <2>3. Len(trades') = Len(trades) + 1
    BY <1>1, <1>3, <2>1 DEF Pay
  <2>4. (Len(trades) + 1) * Commission = Len(trades) * Commission + Commission
    BY <1>1
  <2> HIDE DEF Balance
  <2>5. Total(coins) = Cardinality(Players) * Price - Len(trades) * Commission
    BY DEF Balance
  <2>6. Cardinality(Players) * Price \in Int /\ Len(trades) * Commission \in Int
    BY <1>1
  <2>7. Total(coins') = Cardinality(Players) * Price - Len(trades') * Commission
    BY <1>1, <2>2, <2>3, <2>4, <2>5, <2>6
  <2> QED
    BY <2>7 DEF Balance
<1>4. ASSUME NEW u \in Players, NEW v \in Players, NEW amount \in Amounts,
             Transfer(u, v, amount)
      PROVE  Balance'
  <2>1. amount \in Int
    BY AmountsAreAboveZero
  <2>2. Total(coins') = Total(coins) + (amount - amount)
    <3>1. /\ u \in Players \ {v} /\ coins' \in [Players -> Int]
          /\ coins'[u] = coins[u] - amount /\ coins'[v] = coins[v] + amount
          /\ \A w \in Players : w # u /\ w # v => coins'[w] = coins[w]
      BY <1>1, <1>4, <2>1 DEF Transfer
    <3> QED
      BY <1>1, <2>1, <3>1, CoinsMove
  <2> QED
    BY <1>1, <1>4, <2>1, <2>2 DEF Balance, Transfer
<1>5. ASSUME NEW u \in Players, MarketStep(u) PROVE Balance'
  <2>1. CASE \E l \in Listings : BuyItem(u, l) \/ BuyPlant(u, l)
    BY <1>3, <2>1 DEF BuyItem, BuyPlant
  <2>2. CASE \/ \E i \in Items : ListItemBegin(u, i)
             \/ \E p \in Plants : ListPlantBegin(u, p)
             \/ \E l \in Listings : Cancel(u, l)
    BY <1>2, <2>2 DEF ListItemBegin, ListPlantBegin, Cancel
  <2> QED
    BY <1>5, <2>1, <2>2 DEF MarketStep
<1>6. ASSUME NEW u \in Players, PlantStep(u) PROVE Balance'
  BY <1>2, <1>6 DEF PlantStep, GiftPlantBegin, Scythe
<1>7. ASSUME NEW u \in Players, WardrobeStep(u) PROVE Balance'
  BY <1>2, <1>7 DEF WardrobeStep, Put, TakeOff, TakeOffAll, WearRead, GiftSet
<1>8. ASSUME NEW u \in Players, AccountStep(u) PROVE Balance'
  BY <1>2, <1>4, <1>8 DEF AccountStep, DeleteAccount, DropSessions
<1>9. CASE Commit
  BY <1>2, <1>9 DEF Commit, ListItemCommit, ListPlantCommit, GiftPlantCommit, WearWrite
<1> QED
  BY <1>2, <1>5, <1>6, <1>7, <1>8, <1>9 DEF Next

\* No row of market_listings or wardrobe_sets is lost, and nothing takes back a
\* sale: cancel, purchase and the deletion of an account look at the status
\* under the lock (market.js:240-318; account.js:88-101).
THEOREM SalesAreFinal == Spec => [][RowsStay]_vars
BY Inductive, StepRows, PTL DEF Spec

\* A listing that was bought is never bought again, since it is looked at
\* under its lock (market.js:258-318).
THEOREM NoListingIsSoldTwice == Spec => []SoldOnce
<1>1. Money => SoldOnce
  BY DEF Money
<1> QED
  BY <1>1, MoneyInductive, PTL

\* For any number of players coins neither appear nor vanish, whatever is sold
\* and sent at once: the commission of each sale goes to nobody, and that is
\* all that is lost (market.js:258-318; wallet.js:57-77).
THEOREM CoinsAddUp == Spec => []CoinsAreAccountedFor
<1>1. Init => Balance
  <2> SUFFICES ASSUME Init PROVE Balance
    OBVIOUS
  <2>1. /\ coins \in [Players -> Int] /\ \A u \in Players : coins[u] = Price
        /\ Len(trades) = 0 /\ Price \in Int /\ Commission \in Int
    BY CommissionIsAPart DEF Init
  <2>2. Total(coins) = Cardinality(Players) * Price
    BY <2>1, TotalOfSame
  <2>3. Cardinality(Players) * Price \in Int
    BY <2>1, RollCallsAll
  <2> QED
    BY <2>1, <2>2, <2>3 DEF Balance
<1>2. Money /\ Balance => CoinsAreAccountedFor
  BY DEF Money, Balance, CoinsAreAccountedFor
<1> QED
  BY <1>1, <1>2, StepBalance, Inductive, MoneyInductive, PTL DEF Spec

\* The tables are of their types.
THEOREM TypeCorrect == Spec => []TypeOK
<1>1. IInv /\ Money => TypeOK
  <2> SUFFICES ASSUME IInv, Money PROVE TypeOK
    OBVIOUS
  <2>1. plants \in [Plants -> [owner : Players \cup {Nobody, Gone},
                               listing : {0} \cup Listings, worn : {0} \cup Sets]]
    <3>1. \A p \in Plants : plants[p] \in [owner : Players \cup {Nobody, Gone},
                                           listing : {0} \cup Listings, worn : {0} \cup Sets]
      BY DEF IInv, Typed, Pointers
    <3> QED
      BY <3>1 DEF IInv, Typed
  <2>2. items \in [Items -> [user : Players \cup {Gone}, locked : BOOLEAN,
                             set : {0} \cup Sets, listing : {0} \cup Listings]]
    <3>1. \A i \in Items : items[i] \in [user : Players \cup {Gone}, locked : BOOLEAN,
                                         set : {0} \cup Sets, listing : {0} \cup Listings]
      <4> SUFFICES ASSUME NEW i \in Items
                   PROVE  items[i] \in [user : Players \cup {Gone}, locked : BOOLEAN,
                                        set : {0} \cup Sets, listing : {0} \cup Listings]
        OBVIOUS
      <4>1. items[i] \in [user : Players \cup {Gone}, locked : BOOLEAN, set : Nat, listing : Nat]
        BY DEF IInv, Typed
      <4>2. items[i].set \in {0} \cup Sets /\ items[i].listing \in {0} \cup Listings
        BY DEF IInv, Pointers, InRoom
      <4> QED
        BY <4>1, <4>2
    <3> QED
      BY <3>1 DEF IInv, Typed
  <2>3. room \in [Items -> {0} \cup Sets]
    BY DEF IInv, Typed, Pointers
  <2>4. trades \in Seq([listing : Listings, buyer : Players])
    <3> DEFINE Row == [listing : Nat, buyer : Players]
               New == [listing : Listings, buyer : Players]
    <3>1. trades \in Seq(Row) /\ \A r \in Row : r.listing \in Listings => r \in New
      BY DEF Money
    <3> HIDE DEF Row, New
    <3>2. \A n \in 1..Len(trades) : trades[n] \in New
      BY <3>1 DEF Money
    <3>3. trades \in [1..Len(trades) -> New]
      BY <3>1, <3>2
    <3>4. trades \in Seq(New)
      BY <3>1, <3>3, Rewritten
    <3> QED
      BY <3>4 DEF New
  <2>5. requests \subseteq [op : {"list_item", "list_plant", "gift_plant", "wear"},
                            user : Players, thing : Plants \cup Items,
                            arg : {0} \cup Sets \cup Players]
    BY DEF Money, IInv, Typed
  <2> QED
    BY <2>1, <2>2, <2>3, <2>4, <2>5 DEF TypeOK, Money, IInv, Typed, Rewarded
<1> QED
  BY <1>1, Inductive, MoneyInductive, PTL
=============================================================================
