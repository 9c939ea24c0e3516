---------------------------- MODULE PlantScreen -----------------------------
(***************************************************************************)
(* The main screen of the player: a plant, the shelf beside it and the     *)
(* sheets over it (frontend/client/src/screens/Plant.jsx).  The screen     *)
(* shows the last list of the plants that arrived; it asks for a new one   *)
(* when it opens, after each action of its own, and when the server says   *)
(* that something changed, except while an action of its own still plays.  *)
(* Meanwhile the person goes on tapping.                                   *)
(***************************************************************************)
EXTENDS Naturals, FiniteSets, Sequences, SequencesExt

CONSTANTS
  Plants, AtFirst,  \* the plants there may be, and the sequence at the beginning
  Applications,     \* applications of something from the shelf that may overlap
  Planting,         \* the stages whose next step is a planting
  MaxStage,         \* bounds: growth, supplies, reloads under way, and what
  MaxStock,         \* happens without this screen
  MaxReloads,
  MaxNews,
  None

VARIABLES
  mine, stage, sale, stock, \* the server: the plants, their stages, those on sale
  news, happened,           \* a change it has announced, and how many there were
  shown, error,             \* the list of the screen, or that the first one failed
  fresh, index, remembered, \* fresh.current, the plant it is at, selectedPlantId
  popup, soon,              \* the open sheet, and the planting about to open
  acting, applied, reloads, \* acting.current, apply(), reload()
  fx, opened                \* whose growth plays over which plant; the planting opened

screenVars == <<mine, stage, sale, stock, news, happened, shown, error, fresh, index, remembered,
                popup, soon, acting, applied, reloads, fx, opened>>
server == <<mine, stage, sale, stock, news, happened>>
page == <<shown, error, fresh, index, remembered>>

World == [plants |-> mine, stage |-> stage, sale |-> sale]
Rest == [at |-> "rest", plant |-> None]
Opening == "opening"

PlantAt(list, i) == IF i \in DOMAIN list.plants THEN list.plants[i] ELSE None
Plant == PlantAt(shown, index)
\* The plant with its buttons is there.
Seen == ~error /\ Plant # None
\* selectedIndex
SelectedIndex(list, id) ==
  IF id \in ToSet(list.plants) THEN CHOOSE i \in DOMAIN list.plants : list.plants[i] = id ELSE 1

\* The screen opens on what it showed last, and asks.
Init ==
  /\ mine = AtFirst /\ stage = [p \in Plants |-> 0] /\ sale = {} /\ stock = MaxStock
  /\ news = FALSE /\ happened = 0
  /\ shown = World /\ error = FALSE /\ fresh = FALSE
  /\ remembered \in ToSet(AtFirst) /\ index = SelectedIndex(shown, remembered)
  /\ popup = "none" /\ soon = None /\ acting = FALSE
  /\ applied = [a \in Applications |-> Rest]
  /\ reloads = <<[list |-> None, then |-> Opening]>>
  /\ fx = [of |-> None, over |-> None] /\ opened = [of |-> None, over |-> None, popup |-> "none"]

-----------------------------------------------------------------------------
\* Its effects: another plant closes the sheet, and both that and another sheet
\* give up the planting about to open.
TurnsTo(i) ==
  /\ index' = i
  /\ popup' = IF i = index THEN popup ELSE "none"
  /\ soon' = IF i = index THEN soon ELSE None
SetsPopup(p) == popup' = p /\ soon' = IF p = popup THEN soon ELSE None

\* rememberPlant, of a list from the server.
Remembers(list, i) ==
  remembered' = IF fresh' /\ PlantAt(list, i) # None THEN PlantAt(list, i) ELSE remembered

Asks(then) ==
  /\ Len(reloads) < MaxReloads
  /\ reloads' = Append(reloads, [list |-> None, then |-> then])

-----------------------------------------------------------------------------
\* The server, without this screen: a plant is put on sale in another tab, bought,
\* or cared for there.
Announces == news' = TRUE /\ happened < MaxNews /\ happened' = happened + 1

Listed(p) ==
  /\ p \in ToSet(mine) \ sale /\ Len(mine) > 1
  /\ sale' = sale \cup {p} /\ Announces
  /\ UNCHANGED <<mine, stage, stock, page, popup, soon, acting, applied, reloads, fx, opened>>

Bought(p) ==
  /\ p \in sale /\ Len(mine) > 1
  /\ mine' = Remove(mine, p) /\ sale' = sale \ {p} /\ Announces
  /\ UNCHANGED <<stage, stock, page, popup, soon, acting, applied, reloads, fx, opened>>

\* rev: the event of the server, unless an action of this screen still plays.
NewsArrives ==
  /\ news /\ news' = FALSE
  /\ IF ~acting /\ fresh THEN Asks(None) ELSE UNCHANGED reloads
  /\ UNCHANGED <<mine, stage, sale, stock, happened, page, popup, soon, acting, applied, fx, opened>>

-----------------------------------------------------------------------------
\* reload
Answer(i) ==
  /\ reloads[i].list = None
  /\ reloads' = [reloads EXCEPT ![i].list = World]
  /\ UNCHANGED <<server, page, popup, soon, acting, applied, fx, opened>>

\* Whose action it was goes on: apply shows the growth and ends, and the plant that
\* grew from a scythed one is turned to.
IndexAfter(list, then) ==
  IF then \in ToSet(list.plants) THEN SelectedIndex(list, then) ELSE SelectedIndex(list, remembered)

Arrive(i) ==
  LET r == reloads[i] IN
    /\ r.list # None
    /\ reloads' = RemoveAt(reloads, i)
    /\ shown' = r.list /\ fresh' = TRUE
    /\ TurnsTo(IndexAfter(r.list, r.then))
    /\ Remembers(r.list, index')
    /\ IF r.then \in Applications
         THEN /\ fx' = [of |-> applied[r.then].plant, over |-> PlantAt(r.list, index')]
              /\ applied' = [applied EXCEPT ![r.then] = Rest] /\ acting' = FALSE
         ELSE UNCHANGED <<fx, applied, acting>>
    /\ UNCHANGED <<server, error, opened>>

\* Only the first one leaves the screen with an error.
Fail(i) ==
  /\ LET a == reloads[i].then IN
       IF a \in Applications THEN applied' = [applied EXCEPT ![a] = Rest] /\ acting' = FALSE
       ELSE UNCHANGED <<applied, acting>>
  /\ error' = (error \/ reloads[i].then = Opening)
  /\ reloads' = RemoveAt(reloads, i)
  /\ UNCHANGED <<server, shown, fresh, index, remembered, popup, soon, fx, opened>>

-----------------------------------------------------------------------------
\* The person turns to another plant, and opens and closes the sheets.
Turn(i) ==
  /\ Seen /\ i \in DOMAIN shown.plants /\ i # index
  /\ TurnsTo(i)
  /\ fresh' = fresh /\ Remembers(shown, i)
  /\ UNCHANGED <<server, shown, error, acting, applied, reloads, fx, opened>>

Menu(p) ==
  /\ Seen /\ Plant \notin shown.sale
  /\ \/ p = "menu" /\ popup = "none"
     \/ p = "none" /\ popup # "none"
     \/ p = "gift" /\ popup = "menu" /\ Len(shown.plants) > 1
     \/ p = "scythe" /\ popup = "menu"
  /\ SetsPopup(p)
  /\ UNCHANGED <<server, page, acting, applied, reloads, fx, opened>>

\* GiftSheet, ScytheSheet and SaleCard: the server first, then the sheet is closed
\* and the list asked for.
Give ==
  /\ popup = "gift" /\ Seen /\ Plant \in ToSet(mine) \ sale /\ Len(mine) > 1
  /\ mine' = Remove(mine, Plant)
  /\ SetsPopup("none") /\ Asks(None)
  /\ UNCHANGED <<stage, sale, stock, news, happened, page, acting, applied, fx, opened>>

Scythe(sapling) ==
  /\ popup = "scythe" /\ Seen /\ Plant \in ToSet(mine) \ sale
  /\ sapling \notin ToSet(mine) \cup ToSet(AtFirst)
  /\ mine' = Append(Remove(mine, Plant), sapling)
  /\ SetsPopup("none") /\ Asks(sapling)
  /\ UNCHANGED <<stage, sale, stock, news, happened, page, acting, applied, fx, opened>>

Unlist ==
  /\ Seen /\ Plant \in shown.sale
  /\ sale' = sale \ {Plant} /\ Asks(None)
  /\ UNCHANGED <<mine, stage, stock, news, happened, page, popup, soon, acting, applied, fx, opened>>

-----------------------------------------------------------------------------
\* apply: what the screen knows decides between a planting and the server.
PlantAfterCare ==
  /\ Seen /\ Plant \notin shown.sale /\ stock > 0
  /\ shown.stage[Plant] \in Planting
  /\ soon' = IF soon = None THEN Plant ELSE soon
  /\ UNCHANGED <<server, page, popup, acting, applied, reloads, fx, opened>>

OpenPlanting ==
  /\ soon # None /\ soon' = None
  /\ opened' = [of |-> soon, over |-> Plant, popup |-> popup]
  /\ UNCHANGED <<server, page, popup, acting, applied, reloads, fx>>

Apply(a) ==
  /\ Seen /\ Plant \notin shown.sale /\ stock > 0
  /\ shown.stage[Plant] \notin Planting /\ applied[a] = Rest
  /\ applied' = [applied EXCEPT ![a] = [at |-> "sent", plant |-> Plant]]
  /\ acting' = TRUE
  /\ UNCHANGED <<server, page, popup, soon, reloads, fx, opened>>

Cares(a) ==
  LET p == applied[a].plant IN
    /\ applied[a].at = "sent"
    /\ p \in ToSet(mine) \ sale /\ stock > 0 /\ stage[p] < MaxStage /\ stage[p] \notin Planting
    /\ stage' = [stage EXCEPT ![p] = @ + 1] /\ stock' = stock - 1
    /\ applied' = [applied EXCEPT ![a].at = "plays"]
    /\ UNCHANGED <<mine, sale, news, happened, page, popup, soon, acting, reloads, fx, opened>>

\* ... and when it has played, the list.
Played(a) ==
  /\ applied[a].at = "plays"
  /\ applied' = [applied EXCEPT ![a].at = "asks"]
  /\ Asks(a)
  /\ UNCHANGED <<server, page, popup, soon, acting, fx, opened>>

\* Refused, or lost; a refusal for want of a planting opens it.
Refused(a) ==
  LET p == applied[a].plant IN
    /\ applied[a].at = "sent"
    /\ applied' = [applied EXCEPT ![a] = Rest] /\ acting' = FALSE
    /\ opened' = IF stage[p] \in Planting THEN [of |-> p, over |-> Plant, popup |-> popup] ELSE opened
    /\ UNCHANGED <<server, page, popup, soon, reloads, fx>>

Next ==
  \/ \E p \in Plants : Listed(p) \/ Bought(p) \/ Scythe(p)
  \/ NewsArrives
  \/ \E i \in DOMAIN reloads : Answer(i) \/ Arrive(i) \/ Fail(i)
  \/ \E i \in 1..Cardinality(Plants) : Turn(i)
  \/ \E p \in {"menu", "none", "gift", "scythe"} : Menu(p)
  \/ Give \/ Unlist \/ PlantAfterCare \/ OpenPlanting
  \/ \E a \in Applications : Apply(a) \/ Cares(a) \/ Played(a) \/ Refused(a)

Spec == Init /\ [][Next]_screenVars

-----------------------------------------------------------------------------
Lists == [plants : Seq(Plants), stage : [Plants -> 0..MaxStage], sale : SUBSET Plants]

TypeOK ==
  /\ World \in Lists /\ shown \in Lists /\ error \in BOOLEAN /\ stock \in 0..MaxStock
  /\ index \in Nat /\ remembered \in Plants /\ soon \in Plants \cup {None}
  /\ popup \in {"none", "menu", "gift", "scythe"}
  /\ \A a \in Applications : applied[a].at \in {"rest", "sent", "plays", "asks"}
  /\ \A i \in DOMAIN reloads : reloads[i].then \in Applications \cup Plants \cup {None, Opening}
                               /\ (reloads[i].list # None => reloads[i].list \in Lists)

\* The screen never says that there is no plant when the list has one, and once it
\* has the list of the server only the person turns to another plant: no list that
\* arrives, in whatever order, takes the one they look at away while it is there.
NeverSaysNone == shown.plants # <<>> => Plant # None
TurnsNoPage ==
  \A i \in DOMAIN reloads :
    Arrive(i) /\ fresh /\ reloads[i].then \notin Plants /\ Plant \in ToSet(shown'.plants)
      => Plant' = Plant
StaysOnThePlant == []NeverSaysNone /\ [][TurnsNoPage]_screenVars

\* When nothing is under way the screen shows what there is.  It need not: a change
\* announced while an action played is not asked for when the action fails, and of
\* two lists the older may arrive last.
ScreenSettles ==
  fresh /\ ~error /\ ~news /\ reloads = <<>> /\ ~acting => ToSet(shown.plants) = ToSet(mine) /\ shown.sale = sale

\* The growth plays over the plant that grew, and the planting that opens is of the
\* plant one looks at; turning away, or its sale, meanwhile, breaks the one and the other.
GrowthIsOfThePlant == fx.of = fx.over
PlantingIsOfThePlant == opened.of = opened.over /\ opened.popup = "none"
=============================================================================
