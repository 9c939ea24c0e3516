------------------------------- MODULE Notices -------------------------------
(***************************************************************************)
(* The system lines in the chats of plants: the only way the program tells *)
(* a player anything.  notifyPlant (lib/src/notify.js) chooses a plant and *)
(* writes into its chat; without a plant the line waits in pending_notices *)
(* for the first one (flushNotices).  A plant that is given away, sold or  *)
(* scythed leaves the lines to its old owner: a trigger moves them         *)
(* (db/migrations/20261003120000_rehome_notices.sql).                      *)
(*                                                                         *)
(* Plants are numbered in the order in which they appear.  chat_seen_at is *)
(* counted in openings of chats: a line made after the k-th opening and    *)
(* before the next one carries k.  The choice and the write are two        *)
(* statements, and so are the check and the end of a transfer.             *)
(***************************************************************************)
EXTENDS Integers, FiniteSets

CONSTANTS Users,      \* players
          Plants,     \* 1 .. n
          Notices,    \* 1 .. m: lines the program wants to say
          NoticeOf,   \* to whom
          AtFirst,    \* owners of the plants there are, in their order
          MaxOpens,   \* bound: how often a chat is opened
          MaxMoves,   \* bound: how many plants change hands or are scythed
          None

Pending == 0                  \* pending_notices instead of a plant's chat

Settled == {f[2] : f \in AtFirst}     \* they consented: they have a nickname, and a plant

VARIABLES owner,    \* of a plant; None: not there
          born,     \* how many plants there have been
          seen,     \* chat_seen_at; 0: null
          opens,    \* openings so far
          place,    \* where a notice is: a set of plants, or {Pending}
          at,       \* its created_at
          chosen,   \* notifyPlant between its statements: {target}
          moving,   \* the transaction that transfers or deletes a plant
          moves,
          opening,  \* GET chat between its statements: {plant}
          shown,    \* what a player has been shown
          raced     \* notices whose choice was stale when it was used

noticeVars == <<owner, born, seen, opens, place, at, chosen, moving, moves, opening, shown, raced>>

Still == [op |-> "no", to |-> None, target |-> Pending]

Init ==
  /\ owner = [p \in Plants |-> IF \E f \in AtFirst : f[1] = p THEN (CHOOSE f \in AtFirst : f[1] = p)[2] ELSE None]
  /\ born = Cardinality(AtFirst)
  /\ seen = [p \in Plants |-> 0]
  /\ opens = 0
  /\ place = [n \in Notices |-> {}]
  /\ at = [n \in Notices |-> 0]
  /\ chosen = [n \in Notices |-> {}]
  /\ moving = [p \in Plants |-> Still]
  /\ moves = 0
  /\ opening = [u \in Users |-> {}]
  /\ shown = [u \in Users |-> {}]
  /\ raced = {}

(* Room for another plant in the model, the scythes in flight counted. *)
Room == born + Cardinality({q \in Plants : moving[q].op = "scythe"}) < Cardinality(Plants)

PlantsOf(u) == {p \in Plants : owner[p] = u}

(* order by chat_seen_at desc nulls last, created_at limit 1 *)
LastOpened(own) ==
  IF own = {} THEN Pending
  ELSE CHOOSE p \in own : \A q \in own : seen[p] > seen[q] \/ (seen[p] = seen[q] /\ p <= q)

Locked(p) == p # Pending /\ moving[p].op \in {"gift", "scythe"}    \* for update

---------------------------------------------------------------------------
(* notifyPlant: choose; then write *)

Choose(n) ==
  /\ place[n] = {} /\ chosen[n] = {}
  /\ \/ \E p \in PlantsOf(NoticeOf[n]) : chosen' = [chosen EXCEPT ![n] = {p}]
     \/ chosen' = [chosen EXCEPT ![n] = {LastOpened(PlantsOf(NoticeOf[n]))}]
  /\ UNCHANGED <<owner, born, seen, opens, place, at, moving, moves, opening, shown, raced>>

(* What was chosen is no longer the player's, or is no longer needed. *)
Stale(n, p) ==
  IF p = Pending THEN PlantsOf(NoticeOf[n]) # {}
  ELSE owner[p] # NoticeOf[n] \/ moving[p].op = "sale"

Write(n) ==
  \E p \in chosen[n] :
    /\ ~ Locked(p)
    /\ chosen' = [chosen EXCEPT ![n] = {}]
    /\ IF p # Pending /\ owner[p] = None            \* the foreign key: no such plant
       THEN UNCHANGED <<place, at, raced>>
       ELSE /\ place' = [place EXCEPT ![n] = {p}]
            /\ at' = [at EXCEPT ![n] = opens]
            /\ raced' = IF Stale(n, p) THEN raced \cup {n} ELSE raced
    /\ UNCHANGED <<owner, born, seen, opens, moving, moves, opening, shown>>

(* POST /admin/broadcasts: one line for everybody, in one transaction *)
Broadcast(news) ==
  /\ \A n \in news : place[n] = {} /\ chosen[n] = {} /\ ~ Locked(LastOpened(PlantsOf(NoticeOf[n])))
  /\ \A u \in Users : \E n \in news : NoticeOf[n] = u
  /\ \A m, n \in news : NoticeOf[m] = NoticeOf[n] => m = n
  /\ place' = [n \in Notices |-> IF n \in news THEN {LastOpened(PlantsOf(NoticeOf[n]))} ELSE place[n]]
  /\ at' = [n \in Notices |-> IF n \in news THEN opens ELSE at[n]]
  /\ UNCHANGED <<owner, born, seen, opens, chosen, moving, moves, opening, shown, raced>>

---------------------------------------------------------------------------
(* flushNotices: what waited moves to the new plant, with its own time *)
Flushed(pl, u, p) ==
  [n \in Notices |-> IF NoticeOf[n] = u THEN {IF q = Pending THEN p ELSE q : q \in pl[n]} ELSE pl[n]]

(* POST /me/purchases (sapling), and the plant of the first consent *)
NewPlant(u) ==
  /\ Room
  /\ born' = born + 1
  /\ owner' = [owner EXCEPT ![born + 1] = u]
  /\ place' = Flushed(place, u, born + 1)
  /\ UNCHANGED <<seen, opens, at, chosen, moving, moves, opening, shown, raced>>

(* lockOwnPlant, the checks, and the choice the trigger makes *)
Begin(p, op, to) ==
  /\ owner[p] # None /\ owner[p] # to
  /\ to \in Settled \cup {None}
  /\ moving[p] = Still
  /\ moves < MaxMoves
  /\ op = "gift" => Cardinality(PlantsOf(owner[p])) > 1
  /\ op = "scythe" => Room
  /\ moving' = [moving EXCEPT ![p] = [op |-> op, to |-> to, target |-> LastOpened(PlantsOf(owner[p]) \ {p})]]
  /\ moves' = moves + 1
  /\ UNCHANGED <<owner, born, seen, opens, place, at, chosen, opening, shown, raced>>

Left(p) == {n \in Notices : p \in place[n] /\ NoticeOf[n] = owner[p]}     \* the rows the trigger moves

(* rehome_notices *)
Rehomed(p, target) ==
  [n \in Notices |-> IF n \in Left(p) THEN (place[n] \ {p}) \cup {target} ELSE place[n]]

(* Before the row of another plant can be referred to, its lock is waited for. *)
MayMove(p) == Left(p) = {} \/ ~ Locked(moving[p].target)

(* The target the trigger chose is not the player's any more. *)
Overtaken(p) ==
  LET t == moving[p].target IN
    IF t = Pending THEN moving[p].op # "scythe" /\ PlantsOf(owner[p]) # {p}
    ELSE owner[t] # owner[p] \/ moving[t].op = "sale"

Told(u, pl) ==           \* the line of a transfer, while the model has one left for u
  LET free == {n \in Notices : NoticeOf[n] = u /\ pl[n] = {} /\ chosen[n] = {}}
  IN IF free = {} THEN {} ELSE {CHOOSE n \in free : \A m \in free : n <= m}

Says(pl, u, p) == [n \in Notices |-> IF n \in Told(u, pl) THEN {p} ELSE pl[n]]

(* POST /me/plants/:id/gift: the new owner's chat begins with its own line *)
Gift(p) ==
  LET moved == Rehomed(p, moving[p].target)
      to == moving[p].to IN
    /\ moving[p].op = "gift" /\ MayMove(p)
    /\ moving[p].target # Pending => owner[moving[p].target] # None
    /\ owner' = [owner EXCEPT ![p] = to]
    /\ seen' = [seen EXCEPT ![p] = 0]
    /\ place' = Says(moved, to, p)
    /\ at' = [n \in Notices |-> IF n \in Told(to, moved) THEN opens ELSE at[n]]
    /\ raced' = IF Overtaken(p) THEN raced \cup Left(p) ELSE raced
    /\ moving' = [moving EXCEPT ![p] = Still]
    /\ UNCHANGED <<born, opens, chosen, moves, opening, shown>>

(* POST /market/listings/:id/buy: chat_seen_at stays; the seller is told *)
(* where he looks now.                                                    *)
Sale(p) ==
  LET moved == Rehomed(p, moving[p].target)
      seller == owner[p]
      told == LastOpened(PlantsOf(seller) \ {p}) IN
    /\ moving[p].op = "sale" /\ MayMove(p)
    /\ moving[p].target # Pending => owner[moving[p].target] # None
    /\ Told(seller, moved) # {} => ~ Locked(told)
    /\ owner' = [owner EXCEPT ![p] = moving[p].to]
    /\ place' = Says(moved, seller, told)
    /\ at' = [n \in Notices |-> IF n \in Told(seller, moved) THEN opens ELSE at[n]]
    /\ raced' = (IF Overtaken(p) THEN raced \cup Left(p) ELSE raced)
                  \cup (IF told # Pending /\ moving[told].op = "sale" THEN Told(seller, moved) ELSE {})
    /\ moving' = [moving EXCEPT ![p] = Still]
    /\ UNCHANGED <<born, seen, opens, chosen, moves, opening, shown>>

(* POST /me/plants/:id/scythe: deleted, and a new one in its place *)
Scythe(p) ==
  LET u == owner[p]
      new == born + 1 IN
    /\ moving[p].op = "scythe" /\ MayMove(p)
    /\ moving[p].target # Pending => owner[moving[p].target] # None
    /\ owner' = [owner EXCEPT ![p] = None, ![new] = u]
    /\ born' = new
    /\ place' = Flushed(Rehomed(p, moving[p].target), u, new)
    /\ raced' = IF Overtaken(p) THEN raced \cup Left(p) ELSE raced
    /\ moving' = [moving EXCEPT ![p] = Still]
    /\ UNCHANGED <<seen, opens, at, chosen, moves, opening, shown>>

(* Two transactions that wait for each other's plants, or a target that is *)
(* gone by now: the database takes the transaction back.                   *)
Undone(p) ==
  /\ moving[p] # Still /\ Left(p) # {} /\ moving[p].target # Pending
  /\ \/ owner[moving[p].target] = None
     \/ Locked(moving[p].target) /\ moving[moving[p].target].target = p
  /\ moving' = [moving EXCEPT ![p] = Still]
  /\ UNCHANGED <<owner, born, seen, opens, place, at, chosen, moves, opening, shown, raced>>

---------------------------------------------------------------------------
(* GET /me/plants/:id/chat: the lines of its owner of the moment, then the *)
(* mark                                                                    *)

Visible(u, p) == {n \in Notices : p \in place[n] /\ NoticeOf[n] = u}

Open(u, p) ==
  /\ owner[p] = u /\ opening[u] = {} /\ opens < MaxOpens
  /\ shown' = [shown EXCEPT ![u] = @ \cup Visible(u, p)]
  /\ opening' = [opening EXCEPT ![u] = {p}]
  /\ opens' = opens + 1
  /\ UNCHANGED <<owner, born, seen, place, at, chosen, moving, moves, raced>>

Mark(u) ==
  \E p \in opening[u] :
    /\ ~ Locked(p) /\ moving[p].op # "sale"
    /\ opening' = [opening EXCEPT ![u] = {}]
    /\ seen' = [seen EXCEPT ![p] = IF owner[p] = None THEN @ ELSE opens]
    /\ UNCHANGED <<owner, born, opens, place, at, chosen, moving, moves, shown, raced>>

---------------------------------------------------------------------------

Next ==
  \/ \E n \in Notices : Choose(n) \/ Write(n)
  \/ \E news \in SUBSET Notices : Broadcast(news)
  \/ \E u \in Users : NewPlant(u) \/ Mark(u) \/ \E p \in Plants : Open(u, p)
  \/ \E p \in Plants : Gift(p) \/ Sale(p) \/ Scythe(p) \/ Undone(p)
                       \/ Begin(p, "scythe", None) \/ \E to \in Users : Begin(p, "gift", to) \/ Begin(p, "sale", to)

Spec == Init /\ [][Next]_noticeVars

---------------------------------------------------------------------------

TypeOK ==
  /\ owner \in [Plants -> Users \cup {None}]
  /\ born \in 0 .. Cardinality(Plants)
  /\ place \in [Notices -> SUBSET (Plants \cup {Pending})]
  /\ seen \in [Plants -> 0 .. MaxOpens]
  /\ moves \in 0 .. MaxMoves

Mine(n) == \E p \in place[n] : p = Pending \/ owner[p] = NoticeOf[n]

(* A line that was said is in one place, and its player can read it there  *)
(* or has it waiting for the first plant - whatever was given away, sold   *)
(* or scythed since, unless the plant changed hands between the choice and *)
(* the write (notify.js:28-29, 20261003120000_rehome_notices.sql).         *)
NothingIsLost ==
  \A n \in Notices \ raced : place[n] # {} => Cardinality(place[n]) = 1 /\ Mine(n)

(* Whoever opens a chat reads his own lines only, though the rows of the   *)
(* owner before may still hang on the plant (chat.js:118-124).             *)
OnlyOnesOwn == \A u \in Users : \A n \in shown[u] : NoticeOf[n] = u

NoticesComeThrough == NothingIsLost /\ OnlyOnesOwn

(* "flushNotices: to be called as soon as a player has a plant"            *)
(* (notify.js:55): a line waits only for a player who has none.            *)
NoneWaitsForNothing == \A n \in Notices : Pending \in place[n] => PlantsOf(NoticeOf[n]) = {}

(* "не втрачаємо" (notify.js:28) of every line, also the overtaken ones. *)
NoticeIsReachable == \A n \in Notices : place[n] # {} => Mine(n)

(* A line counts as unread until its player has been shown it. *)
UnreadIsShown ==
  \A n \in Notices : \A p \in place[n] :
    (p # Pending /\ owner[p] = NoticeOf[n] /\ at[n] < seen[p]) => n \in shown[NoticeOf[n]]
=============================================================================
