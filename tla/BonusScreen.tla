----------------------------- MODULE BonusScreen -----------------------------
(***************************************************************************)
(* What a customer at the machine sees of a bonus: the panel of rows, each *)
(* with its QR and the time it has left, and the popup over the menu       *)
(* (raspberry/kiosk/src/bonus.c and the frame loop of main.c).             *)
(*                                                                         *)
(* Events and snapshots come from the network thread (BonusFlow says how); *)
(* here they are what the rows of the server give rise to.  A frame takes  *)
(* a snapshot if there is one, then a batch of events, then moves the      *)
(* popup on and drops the rows that are over.  A row is drawn ("baked")    *)
(* only while the popup stands still, for drawing a QR takes a third of a  *)
(* second.  One tick is one frame; lives and holds are scaled down.        *)
(***************************************************************************)
EXTENDS Integers, Sequences, FiniteSets, SequencesExt

CONSTANTS
  Grants,
  MaxRows,        \* BONUS_MAX_VISIBLE
  Batch,          \* how many events a frame takes
  QueueCap,       \* WS_QUEUE_CAP
  Ttl,            \* BONUS_TTL_S
  Hold, TakenHold, \* ANIM_POPUP_HOLD_S, ANIM_POPUP_TAKEN_HOLD_S
  MaxSnaps,       \* bound on the number of snapshots
  None

VARIABLES
  fate, life,     \* of each bonus: "none", "given" or "taken"; the time it has left
  events,         \* the queue between the threads: [kind, grant]
  snap,           \* the snapshot the frame has not taken: grants with their time
  rows,           \* the panel
  popup,          \* [state, shows, left, hold, age]: age counts its frames
  snaps

screenVars == <<fate, life, events, snap, rows, popup, snaps>>

Events == [kind: {"bonus_ready", "bonus_taken"}, grant: Grants]
Row == [grant: Grants, left: 0..Ttl, baked: BOOLEAN, unbaked: 0..Ttl]
Hidden == [state |-> "hidden", shows |-> None, left |-> 0, hold |-> 0, age |-> 0]

TypeOK ==
  /\ fate \in [Grants -> {"none", "given", "taken"}] /\ life \in [Grants -> 0..Ttl]
  /\ events \in Seq(Events) /\ Len(events) <= QueueCap
  /\ snap = None \/ DOMAIN snap \subseteq Grants
  /\ rows \in Seq(Row) /\ Len(rows) <= MaxRows
  /\ popup \in [state: {"hidden", "in", "shown", "out"}, shows: Grants \cup {"taken", None},
                left: 0..Hold, hold: 0..Hold, age: 0..(Hold + 3)]
  /\ snaps \in 0..MaxSnaps

Init ==
  /\ fate = [g \in Grants |-> "none"] /\ life = [g \in Grants |-> Ttl]
  /\ events = << >> /\ snap = None
  /\ rows = << >> /\ popup = Hidden /\ snaps = 0

Active(g) == fate[g] = "given" /\ life[g] > 0

-----------------------------------------------------------------------------
(* The server and the network thread. *)

\* push_event: a full queue loses its oldest event.
Pushed(e) == IF Len(events) = QueueCap THEN Append(Tail(events), e) ELSE Append(events, e)

Ready(g) ==
  /\ fate[g] = "none"
  /\ fate' = [fate EXCEPT ![g] = "given"]
  /\ events' = Pushed([kind |-> "bonus_ready", grant |-> g])
  /\ UNCHANGED <<life, snap, rows, popup, snaps>>

\* A phone has the bonus.
Taken(g) ==
  /\ Active(g)
  /\ fate' = [fate EXCEPT ![g] = "taken"]
  /\ events' = Pushed([kind |-> "bonus_taken", grant |-> g])
  /\ UNCHANGED <<life, snap, rows, popup, snaps>>

\* fetch_snapshot after a new connection.  Events of the time without one are
\* lost: the bonus was taken, or given, and nobody said so.
LostTaken(g) == Active(g) /\ fate' = [fate EXCEPT ![g] = "taken"]
LostReady(g) == fate[g] = "none" /\ fate' = [fate EXCEPT ![g] = "given"]
Reconnect ==
  /\ snaps < MaxSnaps /\ snaps' = snaps + 1
  /\ \/ fate' = fate
     \/ \E g \in Grants : LostTaken(g) \/ LostReady(g)
  /\ LET G == {g \in Grants : fate'[g] = "given" /\ life[g] > 0} IN snap' = [g \in G |-> life[g]]
  /\ UNCHANGED <<life, events, rows, popup>>

-----------------------------------------------------------------------------
(* The panel (bonus.c). *)

Has(p, g) == \E i \in DOMAIN p : p[i].grant = g

\* take_row, add_row: the time left is the server's, the full panel takes nothing.
AddRow(p, g, left) ==
  IF Len(p) >= MaxRows THEN p
  ELSE Append(p, [grant |-> g, left |-> left, baked |-> FALSE, unbaked |-> 0])

\* bonus_mark_taken: the first row of each of the bonuses G is sent past its
\* time; it leaves at the end of the frame and keeps its place until then.
Mark(p, G) ==
  [i \in DOMAIN p |->
     IF p[i].grant \in G /\ ~Has(SubSeq(p, 1, i - 1), p[i].grant)
     THEN [p[i] EXCEPT !.left = 0] ELSE p[i]]

\* The snapshot describes the panel: what it lacks goes, what is new comes while
\* there is room.
Aligned(p, s) ==
  LET marked == Mark(p, {p[i].grant : i \in DOMAIN p} \ DOMAIN s)
      fresh == SetToSeq({g \in DOMAIN s : ~Has(p, g)})
      Added[n \in 0..Len(fresh)] ==
        IF n = 0 THEN marked ELSE AddRow(Added[n - 1], fresh[n], s[fresh[n]])
  IN Added[Len(fresh)]

-----------------------------------------------------------------------------
(* A frame (main.c): panel, then popup, then the rows. *)

\* What the events of a batch do: the panel, what the popup is to show, and
\* whether a phone took something (which may displace a popup that stands).
Apply(f, e) ==
  IF e.kind = "bonus_taken"
  THEN IF Has(f.rows, e.grant)
       THEN [rows |-> Mark(f.rows, {e.grant}), pop |-> "taken", taken |-> TRUE]
       ELSE f
  ELSE IF Len(f.rows) < MaxRows
       THEN [f EXCEPT !.rows = AddRow(f.rows, e.grant, Ttl), !.pop = e.grant]
       ELSE f

\* The popup after the batch: a new one when none stands, or when a phone took
\* a bonus.
Opens(f) == f.pop # None /\ (popup.state = "hidden" \/ f.taken)
HoldOf(f) == IF f.taken THEN TakenHold ELSE Hold
Opened(f) == IF Opens(f) THEN [state |-> "in", shows |-> f.pop, left |-> 0,
                          hold |-> HoldOf(f), age |-> 1]
             ELSE popup

\* in -> shown -> out -> hidden, each when its time is over.
Moved(p) ==
  CASE p.state = "in" -> [p EXCEPT !.state = "shown", !.left = p.hold, !.age = @ + 1]
    [] p.state = "shown" /\ p.left > 1 -> [p EXCEPT !.left = p.left - 1, !.age = @ + 1]
    [] p.state = "shown" /\ p.left <= 1 -> [p EXCEPT !.state = "out", !.left = 0, !.age = @ + 1]
    [] OTHER -> Hidden

\* Mutant of MayBake: drawn only while there is no popup.
MayBakeAlone(p) == p.state = "hidden"

\* bonus_update: rows at their end leave; a row is drawn while the popup stands.
MayBake(p) == p.state \notin {"in", "out"}

Updated(p, bake) ==
  LET alive == SelectSeq(p, LAMBDA r : r.left > 0)
  IN [i \in DOMAIN alive |->
        [alive[i] EXCEPT !.left = @ - 1, !.baked = @ \/ bake,
                         !.unbaked = IF alive[i].baked \/ bake THEN 0 ELSE @ + 1]]

Frame ==
  LET aligned == IF snap = None THEN rows ELSE Aligned(rows, snap)
      n == IF Len(events) < Batch THEN Len(events) ELSE Batch
      After[i \in 0..n] ==
        IF i = 0 THEN [rows |-> aligned, pop |-> None, taken |-> FALSE]
        ELSE Apply(After[i - 1], events[i])
      f == After[n]
      p == Opened(f)
  IN /\ snap' = None
     /\ events' = SubSeq(events, n + 1, Len(events))
     /\ rows' = Updated(f.rows, MayBake(p))
     /\ popup' = IF Opens(f) THEN p ELSE Moved(p)
     /\ life' = [g \in Grants |-> IF Active(g) THEN life[g] - 1 ELSE life[g]]
     /\ UNCHANGED <<fate, snaps>>

Next == Frame \/ Reconnect \/ \E g \in Grants : Ready(g) \/ Taken(g)

Spec == Init /\ [][Next]_screenVars

-----------------------------------------------------------------------------
(* Properties. *)

\* A row is drawn as soon as the popups that came with the bonuses have taken
\* their places, long before they are gone.
RowsAreDrawn == \A i \in DOMAIN rows : rows[i].unbaked <= 2 * (Cardinality(Grants) + 1) + 1

\* No row outlives its bonus, one restored from a snapshot neither.
RowsEnd == \A i \in DOMAIN rows : rows[i].left <= life[rows[i].grant]

\* "Without hiding itself the first bonus would stay shown for ever and block
\* all that follow" (config.h, ANIM_POPUP_HOLD_S).
PopupEnds == popup.age <= popup.hold + 2

BonusIsSeen == RowsAreDrawn /\ RowsEnd /\ PopupEnds

\* "An ordinary bonus does not displace a popup that is shown, it waits until
\* the screen is free" (main.c, bonus_taken).  It does not hold: in one batch
\* with a taken bonus it comes in its place, for the short time of that one.
OrdinaryBonusWaits ==
  [][popup.state \in {"in", "shown"} /\ popup'.shows \in Grants => popup'.shows = popup.shows]_screenVars

\* "The snapshot describes the whole panel: else a QR stays that was taken and
\* the one given meanwhile does not come" (main.c, ws_take_snapshot).  It does
\* not hold for a full panel: rows that go keep their place until the frame ends.
SnapshotIsWhole ==
  [][snap # None /\ Len(events) = 0 /\ snap' = None =>
       \A g \in DOMAIN snap : (\E i \in DOMAIN rows' : rows'[i].grant = g)
                              \/ Len(rows') = MaxRows \/ snap[g] <= 1]_screenVars
=============================================================================
