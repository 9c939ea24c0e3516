----------------------------- MODULE BonusFlow -----------------------------
(***************************************************************************)
(* A bonus on its way from a receipt to a player.  A receipt reaches       *)
(* `ingest` by webhook and by polling (checkbox/receipts.js) and leaves a  *)
(* row of bonus_grants and an event in the outbox, in one transaction.     *)
(* The scheduler drains the outbox into Redis (lib/outbox.js), ws forwards *)
(* to the sockets that are open (ws/index.js), the kiosk of the point      *)
(* hangs a QR on its panel (kiosk/ws.c, main.c, bonus.c).  A phone that    *)
(* read the QR reports it seen and redeems it (routes/wallet.js).          *)
(*                                                                         *)
(* Redis pub/sub keeps nothing: what is published while the kiosk is away  *)
(* is lost to it, so after every connection it asks the api for a snapshot *)
(* (routes/points.js) and aligns its panel.                                *)
(*                                                                         *)
(* Abstractions: one point; the coins and items of a grant are one amount. *)
(* The kiosk's network thread and its main loop are separate actors; the   *)
(* capacities of their queue (16, of which a frame takes 8) and of the ids *)
(* they remember (32) are never reached.  The connection of ws to Redis    *)
(* does not break.                                                         *)
(***************************************************************************)
EXTENDS Integers, Sequences, FiniteSets

CONSTANTS
  Receipts,
  Players,
  MaxRows,     \* BONUS_MAX_VISIBLE
  None

ASSUME ReceiptsAreFinite == IsFiniteSet(Receipts)
ASSUME MaxRowsIsPositive == MaxRows \in Nat \ {0}
ASSUME NoneIsNoPlayer == None \notin Players

VARIABLES
  grants,      \* bonus_grants, by id
  ledger,      \* ledger_entries with reason 'purchase', oldest first
  burnt,       \* grants with show_until < now()
  outbox,      \* rows of the outbox, by id
  published,   \* ids with published_at
  drain,       \* the transaction of `drain`: ids it holds, ids it has sent
  link,        \* the kiosk's socket: down, joined (no snapshot yet), listening
  synced,      \* the snapshot of this connection was taken
  inbox,       \* outbox ids the socket holds, not read yet
  seen,        \* outbox ids the kiosk remembers
  queue,       \* events on their way to the main loop
  snap,        \* the snapshot the main loop has not taken yet
  frame,       \* where the main loop is in its frame
  panel,       \* rows of the panel; a row may be going with this frame
  missed,      \* grants the kiosk has dropped since the last snapshot
  known        \* grants whose QR has been on the screen

grantVars == <<grants, ledger, burnt>>
outboxVars == <<outbox, published, drain>>
netVars == <<link, synced, inbox, seen>>
loopVars == <<frame, panel, missed, known>>
vars == <<grantVars, outboxVars, netVars, queue, snap, loopVars>>

Grants == 1..Len(grants)
Grant == [receipt : Receipts, status : {"pending", "claimed", "redeemed"},
          claimed : BOOLEAN, by : Players \cup {None}]
Event == [event : {"bonus_ready", "bonus_taken"}, grant : Grants]
NoDrain == [todo |-> {}, sent |-> {}]
NoSnap == [ready |-> FALSE, rows |-> {}]

\* What GET /points/:id/state answers.
Active == {g \in Grants : /\ grants[g].status = "pending"
                          /\ ~grants[g].claimed
                          /\ g \notin burnt}

Init ==
  /\ grants = << >> /\ ledger = << >> /\ burnt = {}
  /\ outbox = << >> /\ published = {} /\ drain = NoDrain
  /\ link = "down" /\ synced = FALSE /\ inbox = << >> /\ seen = {}
  /\ queue = << >> /\ snap = NoSnap
  /\ frame = "start" /\ panel = << >> /\ missed = {} /\ known = {}

(***************************************************************************)
(* The receipt.                                                            *)
(***************************************************************************)

NewGrant(r) ==
  /\ grants' = Append(grants, [receipt |-> r, status |-> "pending",
                               claimed |-> FALSE, by |-> None])
  /\ outbox' = Append(outbox, [event |-> "bonus_ready", grant |-> Len(grants) + 1])
  /\ UNCHANGED <<ledger, burnt, published, drain, netVars, queue, snap, loopVars>>

\* ingest, by webhook or by polling, as often as it comes: the second time
\* the unique key of the receipt stops it (on conflict do nothing).
Ingest(r) ==
  /\ \A g \in Grants : grants[g].receipt # r
  /\ NewGrant(r)

\* The two minutes of show_until are over.
Burn(g) ==
  /\ g \in Grants \ burnt
  /\ burnt' = burnt \cup {g}
  /\ UNCHANGED <<grants, ledger, outboxVars, netVars, queue, snap, loopVars>>

(***************************************************************************)
(* The phone.  Both handlers lock the grant (for update).                  *)
(***************************************************************************)

ClaimedRow(row) ==
  [row EXCEPT !.claimed = TRUE,
              !.status = IF row.status = "pending" THEN "claimed" ELSE row.status]

RedeemedRow(row, u) == [row EXCEPT !.status = "redeemed", !.by = u]

\* Mutant of Seen: the event is written by whoever asks.
SeenAlways(g) ==
  /\ g \in known
  /\ Len(outbox) < 4
  /\ grants' = [grants EXCEPT ![g] = ClaimedRow(@)]
  /\ outbox' = Append(outbox, [event |-> "bonus_taken", grant |-> g])
  /\ UNCHANGED <<ledger, burnt, published, drain, netVars, queue, snap, loopVars>>

\* POST /bonus/:token/seen: only the first phone tells the kiosk.
Seen(g) ==
  /\ g \in known
  /\ ~grants[g].claimed
  /\ grants' = [grants EXCEPT ![g] = ClaimedRow(@)]
  /\ outbox' = Append(outbox, [event |-> "bonus_taken", grant |-> g])
  /\ UNCHANGED <<ledger, burnt, published, drain, netVars, queue, snap, loopVars>>

\* Mutant of Redeem: a claimed bonus may be redeemed by anybody.
RedeemAgain(g, u) ==
  /\ g \in known
  /\ Len(ledger) < 3
  /\ grants' = [grants EXCEPT ![g] = RedeemedRow(@, u)]
  /\ ledger' = Append(ledger, [player |-> u, grant |-> g])
  /\ UNCHANGED <<burnt, outboxVars, netVars, queue, snap, loopVars>>

\* POST /me/bonus/:token, at any later time.
Redeem(g, u) ==
  /\ g \in known
  /\ grants[g].by = None
  /\ grants' = [grants EXCEPT ![g] = RedeemedRow(@, u)]
  /\ ledger' = Append(ledger, [player |-> u, grant |-> g])
  /\ UNCHANGED <<burnt, outboxVars, netVars, queue, snap, loopVars>>

(***************************************************************************)
(* The outbox.                                                             *)
(***************************************************************************)

\* drain takes what is not published, for update skip locked.
DrainBegin ==
  /\ drain = NoDrain
  /\ drain' = [todo |-> (1..Len(outbox)) \ published, sent |-> {}]
  /\ UNCHANGED <<grantVars, outbox, published, netVars, queue, snap, loopVars>>

\* The next row, order by id.
IsHead(i) == i \in drain.todo /\ \A j \in drain.todo : i <= j

\* PUBLISH: ws forwards it to the sockets it has at this moment.
Publish(i) ==
  /\ IsHead(i)
  /\ drain' = [todo |-> drain.todo \ {i}, sent |-> drain.sent \cup {i}]
  /\ inbox' = IF link = "down" THEN inbox ELSE Append(inbox, i)
  /\ UNCHANGED <<grantVars, outbox, published, link, synced, seen, queue, snap,
                 loopVars>>

\* Redis did not take it: attempts + 1, the row stays for the next pass and
\* the rows behind it overtake it.
PublishFails(i) ==
  /\ IsHead(i)
  /\ drain' = [drain EXCEPT !.todo = @ \ {i}]
  /\ UNCHANGED <<grantVars, outbox, published, netVars, queue, snap, loopVars>>

\* Mutant of DrainCommit: the rows that were not sent are marked too.
DrainCommitAll ==
  /\ drain # NoDrain /\ drain.todo = {}
  /\ published' = 1..Len(outbox)
  /\ drain' = NoDrain
  /\ UNCHANGED <<grantVars, outbox, netVars, queue, snap, loopVars>>

\* published_at is visible once the pass commits.
DrainCommit ==
  /\ drain # NoDrain /\ drain.todo = {}
  /\ published' = published \cup drain.sent
  /\ drain' = NoDrain
  /\ UNCHANGED <<grantVars, outbox, netVars, queue, snap, loopVars>>

\* The scheduler dies or the query fails: all of the batch is sent again.
DrainAborts ==
  /\ drain # NoDrain
  /\ drain' = NoDrain
  /\ UNCHANGED <<grantVars, outbox, published, netVars, queue, snap, loopVars>>

(***************************************************************************)
(* The kiosk's network thread.                                             *)
(***************************************************************************)

\* The handshake is done and ws has the socket in the room of the point.
Connect ==
  /\ link = "down"
  /\ link' = "joined"
  /\ UNCHANGED <<grantVars, outboxVars, synced, inbox, seen, queue, snap, loopVars>>

\* fetch_snapshot, after the subscription; events wait in the socket.
FetchSnapshot ==
  /\ link = "joined"
  /\ link' = "listening"
  /\ synced' = TRUE
  /\ snap' = [ready |-> TRUE, rows |-> Active]
  /\ missed' = {}
  /\ UNCHANGED <<grantVars, outboxVars, inbox, seen, queue, frame, panel, known>>

\* The api did not answer: nobody asks again on this connection.
FetchFails ==
  /\ link = "joined"
  /\ link' = "listening"
  /\ UNCHANGED <<grantVars, outboxVars, synced, inbox, seen, queue, snap, loopVars>>

\* handle_text: an id that was seen is a repetition.
HandleText ==
  /\ link = "listening" /\ inbox # << >>
  /\ inbox' = Tail(inbox)
  /\ seen' = seen \cup {Head(inbox)}
  /\ queue' = IF Head(inbox) \in seen THEN queue
              ELSE Append(queue, outbox[Head(inbox)])
  /\ UNCHANGED <<grantVars, outboxVars, link, synced, snap, loopVars>>

\* The network, the ws server or its idle limit breaks the connection.
Disconnect ==
  /\ link # "down"
  /\ link' = "down" /\ synced' = FALSE /\ inbox' = << >>
  /\ UNCHANGED <<grantVars, outboxVars, seen, queue, snap, loopVars>>

\* The kiosk starts anew with an empty panel.
Restart ==
  /\ link' = "down" /\ synced' = FALSE /\ inbox' = << >> /\ seen' = {}
  /\ queue' = << >> /\ snap' = NoSnap
  /\ frame' = "start" /\ panel' = << >> /\ missed' = {}
  /\ UNCHANGED <<grantVars, outboxVars, known>>

(***************************************************************************)
(* The kiosk's main loop: a frame takes the snapshot if there is one, then *)
(* the events of the queue, then drops the rows that are over.             *)
(***************************************************************************)

Has(p, g) == \E i \in 1..Len(p) : p[i].grant = g
Rows(p) == {p[i].grant : i \in 1..Len(p)}

\* bonus_mark_taken: the first row with the token, for each grant of G.
Mark(p, G) ==
  [i \in 1..Len(p) |->
     IF p[i].grant \in G /\ \A j \in 1..i - 1 : p[j].grant # p[i].grant
     THEN [grant |-> p[i].grant, going |-> TRUE] ELSE p[i]]

\* take_row, for the grants gs in turn: nothing once the panel is full.
\* Rows that are going still take their place.
AddRows(p, gs) ==
  LET room == MaxRows - Len(p)
      n == IF Len(gs) < room THEN Len(gs) ELSE room
  IN p \o [i \in 1..n |-> [grant |-> gs[i], going |-> FALSE]]

\* What of s is in S, in the order of s.
Only(s, S) ==
  LET only[k \in 0..Len(s)] ==
        IF k = 0 THEN << >>
        ELSE IF s[k] \in S THEN Append(only[k - 1], s[k]) ELSE only[k - 1]
  IN only[Len(s)]

\* ws_take_snapshot: rows that are not in it go, rows that lack come.
FrameSnapshot ==
  LET gone == Rows(panel) \ snap.rows
      lacking == Only([g \in Grants |-> g], {g \in snap.rows : ~Has(panel, g)})
  IN /\ frame = "start" /\ snap.ready
     /\ frame' = "events"
     /\ snap' = NoSnap
     /\ panel' = AddRows(Mark(panel, gone), lacking)
     /\ missed' = missed \cup gone \cup (snap.rows \ Rows(panel'))
     /\ UNCHANGED <<grantVars, outboxVars, netVars, queue, known>>

\* bonus_add_event, bonus_mark_taken.
Apply(p, e) ==
  IF e.event = "bonus_ready" THEN AddRows(p, <<e.grant>>) ELSE Mark(p, {e.grant})

\* The panel p after the events of q, in turn.
Applied(p, q) ==
  LET after[k \in 0..Len(q)] == IF k = 0 THEN p ELSE Apply(after[k - 1], q[k])
  IN after[Len(q)]

\* ws_drain, then bonus_update: the rows that are going leave and, of the
\* rows whose two minutes are over, those this kiosk has counted down; the
\* rows that stay are drawn.
FrameEvents ==
  LET applied == Applied(panel, queue)
      announced == {queue[k].grant : k \in {k \in 1..Len(queue) :
                                              queue[k].event = "bonus_ready"}}
  IN /\ frame = "events" \/ queue # << >> \/ burnt \cap Rows(panel) # {}
     /\ frame' = "start"
     /\ queue' = << >>
     /\ \E over \in SUBSET (burnt \cap Rows(applied)) :
          panel' = Only(applied, [grant : Grants \ over, going : {FALSE}])
     /\ missed' = missed \cup (announced \ Rows(applied))
     /\ known' = known \cup Rows(panel')
     /\ UNCHANGED <<grantVars, outboxVars, netVars, snap>>

PhoneStep == \E g \in Grants : Seen(g) \/ \E u \in Players : Redeem(g, u)

DrainStep ==
  \/ DrainBegin
  \/ \E i \in drain.todo : Publish(i) \/ PublishFails(i)
  \/ DrainCommit
  \/ DrainAborts

NetStep == Connect \/ FetchSnapshot \/ FetchFails \/ HandleText \/ Disconnect

LoopStep == FrameSnapshot \/ FrameEvents

Next ==
  \/ \E r \in Receipts : Ingest(r)
  \/ \E g \in Grants : Burn(g)
  \/ PhoneStep
  \/ DrainStep
  \/ NetStep
  \/ LoopStep
  \/ Restart

\* The job outbox runs twice a second in a loop that survives errors
\* (scheduler/index.js:35); passes and publications fail now and then, not
\* forever.
Fairness ==
  /\ WF_vars(DrainBegin)
  /\ SF_vars(DrainCommit /\ drain.sent # {})
  /\ \A i \in 1..2 * Cardinality(Receipts) : SF_vars(Publish(i))

Safety == Init /\ [][Next]_vars
Spec == Safety /\ Fairness

(***************************************************************************)
(* Properties.                                                             *)
(***************************************************************************)

\* Types of the rows, of the kiosk's two threads.
TypeOK ==
  /\ grants \in Seq(Grant)
  /\ ledger \in Seq([player : Players, grant : Grants])
  /\ burnt \subseteq Grants
  /\ outbox \in Seq(Event)
  /\ published \subseteq 1..Len(outbox)
  /\ drain \in [todo : SUBSET (1..Len(outbox)), sent : SUBSET (1..Len(outbox))]
  /\ link \in {"down", "joined", "listening"}
  /\ synced \in BOOLEAN
  /\ inbox \in Seq(1..Len(outbox))
  /\ seen \subseteq 1..Len(outbox)
  /\ queue \in Seq(Event)
  /\ snap \in [ready : BOOLEAN, rows : SUBSET Grants]
  /\ frame \in {"start", "events"}
  /\ panel \in Seq([grant : Grants, going : BOOLEAN]) /\ Len(panel) <= MaxRows
  /\ missed \subseteq Grants
  /\ known \subseteq Grants

\* A receipt pays once, to the player its grant names, however often it is
\* delivered and however many phones read the QR (receipts.js:3-7).
PaidOnce ==
  /\ \A i, j \in 1..Len(ledger) :
       grants[ledger[i].grant].receipt = grants[ledger[j].grant].receipt => i = j
  /\ \A g \in Grants, u \in Players :
       grants[g].by = u <=> \E i \in 1..Len(ledger) :
                              ledger[i] = [player |-> u, grant |-> g]

\* The outbox tells what the rows say: each grant is announced once, and
\* taken once when a phone has claimed it, after it was announced
\* (outbox.js:1-4; wallet.js:116-119).
OutboxTellsRows ==
  \A g \in Grants :
    LET Told(event) == {i \in 1..Len(outbox) :
                          outbox[i] = [event |-> event, grant |-> g]}
    IN /\ Cardinality(Told("bonus_ready")) = 1
       /\ Cardinality(Told("bonus_taken")) = IF grants[g].claimed THEN 1 ELSE 0
       /\ \A i \in Told("bonus_ready"), j \in Told("bonus_taken") : i < j

\* Where a bonus that is to be shown may be while it is not on the screen.
OnItsWay(g) ==
  LET ready == [event |-> "bonus_ready", grant |-> g]
  IN \/ \E i \in 1..Len(outbox) :
          /\ outbox[i] = ready
          /\ \/ i \notin published \cup drain.sent
             \/ \E k \in 1..Len(inbox) : inbox[k] = i
     \/ \E k \in 1..Len(queue) : queue[k] = ready
     \/ snap.ready /\ g \in snap.rows

\* "A snapshot BEFORE the subscription would leave a hole just when we do
\* not listen yet" (kiosk/ws.c:589-592): once a kiosk has its snapshot,
\* every active bonus is on its screen or still on its way to it, unless the
\* kiosk itself had no room for it or took an older snapshot after it.
NoHole ==
  link = "listening" /\ synced =>
    \A g \in Active :
      \/ \E i \in 1..Len(panel) : panel[i].grant = g /\ ~panel[i].going
      \/ OnItsWay(g)
      \/ g \in missed

\* At least once (outbox.js:6-8): what was committed is published some day,
\* whatever fails in between.
EventIsPublished ==
  \A i \in 1..2 * Cardinality(Receipts) :
    i \in 1..Len(outbox) ~> i \in published

\* "A row with the same token is added once" (kiosk/ws.c:589-591).
RowsAreDistinct ==
  \A i, j \in 1..Len(panel) : panel[i].grant = panel[j].grant => i = j
=============================================================================
