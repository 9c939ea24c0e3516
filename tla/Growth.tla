------------------------------- MODULE Growth -------------------------------
(***************************************************************************)
(* The growth of one plant: the care and planting endpoints of the API     *)
(* (routes/planting.js) and the planting screens of its owner, perhaps on  *)
(* two devices (frontend/client/src/plant/Planting.jsx).                   *)
(*                                                                         *)
(* The screen saves a draft 0.7 s after the last edit and at its closing;  *)
(* the requests of a browser are served in any order and may be lost, with *)
(* or without their effect.  Every endpoint is one transaction that locks  *)
(* the row of the plant, hence one action.                                 *)
(***************************************************************************)
EXTENDS Integers, Sequences, FiniteSets, FiniteSetsExt, SequencesExt

CONSTANTS
  Screens,        \* the devices on which the owner plants
  Transitions,    \* growth_transitions: [need, applications, plants, count]
  Supplies,       \* what the owner has of every need at first
  MaxDays,        \* the run ends after so many days
  MaxRequests     \* requests on their way at once

Needs == DOMAIN Supplies
Full == Len(Transitions)
Nothing == "nothing"
NoDraft == [kind |-> Nothing, count |-> 0, for |-> 0]
Kinds == {t.plants : t \in ToSet(Transitions)} \ {Nothing}
MostItems == Max({t.count : t \in ToSet(Transitions)})

(* Transitions \in Seq([need: Needs, applications: Nat \ {0}, plants:       *)
(* STRING, count: Nat]), never empty.                                       *)

VARIABLES
  stage, progress, grownAt, wateredAt,   \* the row of the plant
  planted,       \* appearance: how many things of every kind were planted
  draft,         \* appearance.draft; "for" is the stage it was made at
  supply,        \* the columns of users with what care takes
  harvest,         \* what the harvest paid
  screen,        \* screen -> what the device shows
  requests,      \* requests on their way, and answers that come back
  day,         \* days since the start
  diary          \* observation: <<day, what was consumed>> of every transition

vars == <<stage, progress, grownAt, wateredAt, planted, draft, supply, harvest,
          screen, requests, day, diary>>

plantRow == <<stage, progress, grownAt, planted, harvest, diary>>

Closed == [shows |-> "closed", at |-> 0, count |-> 0, timer |-> FALSE, pending |-> NoDraft]

Init ==
  /\ stage = 0 /\ progress = 0 /\ grownAt = -1 /\ wateredAt = -1
  /\ planted = [k \in Kinds |-> 0] /\ draft = NoDraft
  /\ supply = Supplies /\ harvest = 0
  /\ screen = [s \in Screens |-> Closed]
  /\ requests = {} /\ day = 0 /\ diary = <<>>

-----------------------------------------------------------------------------
(* growthState *)

Grown == stage = Full
Transition == Transitions[stage + 1]
Planting == IF Grown THEN Nothing ELSE Transition.plants
Resting == grownAt = day           \* ready_at: one stage in a day
LiveDraft == IF Planting # Nothing /\ draft.kind = Planting THEN draft ELSE NoDraft

(* advance, and the harvest when the plant is grown for the first time *)
Advance ==
  /\ stage' = stage + 1 /\ progress' = 0 /\ grownAt' = day
  /\ diary' = Append(diary, <<day, Transition.need>>)
  /\ harvest' = harvest + (IF stage + 1 = Full THEN 1 ELSE 0)

Consume(need) == supply[need] > 0 /\ supply' = [supply EXCEPT ![need] = @ - 1]

-----------------------------------------------------------------------------
(* POST /me/plants/:id/care.  Water may be given once a day at any time;   *)
(* what is no water only when the transition asks for it.                  *)

Counts(need) == ~Grown /\ need = Transition.need /\ ~Resting

\* A plausible bug: a transition that needs a planting is passed by care.
CareAllowedUnplanted(need) == IF need = "water" THEN wateredAt # day ELSE Counts(need)

CareAllowed(need) ==
  IF need = "water" THEN wateredAt # day
  ELSE Counts(need) /\ Planting = Nothing

Care(need) ==
  /\ CareAllowed(need) /\ Consume(need)
  /\ wateredAt' = IF need = "water" THEN day ELSE wateredAt
  /\ IF ~Counts(need) THEN UNCHANGED plantRow
     ELSE /\ UNCHANGED planted
          /\ IF progress + 1 < Transition.applications
             THEN progress' = progress + 1 /\ UNCHANGED <<stage, grownAt, harvest, diary>>
             ELSE Advance
  /\ UNCHANGED <<draft, screen, requests, day>>

-----------------------------------------------------------------------------
(* the planting endpoints *)

Without(r) == requests' = requests \ {r}

(* The range a planting allows for its count is one number here.           *)

(* PUT /me/plants/:id/planting/draft: stored as it is, no answer is used *)
PutDraft(r) ==
  /\ r \in requests /\ r.type = "put"
  /\ draft' = r.draft /\ Without(r)
  /\ UNCHANGED <<stage, progress, grownAt, wateredAt, planted, supply, harvest, screen, day, diary>>

(* the items of another kind leave the fields of this planting empty *)
PlantAllowed(r) ==
  Planting # Nothing /\ ~Resting /\ r.kind = Planting /\ r.count = Transition.count

Answer(r, ok) == [type |-> "answer", by |-> r.by, ok |-> ok]

(* POST /me/plants/:id/planting: consumes, plants, drops the draft, grows *)
Plant(r) ==
  /\ r \in requests /\ r.type = "post"
  /\ IF PlantAllowed(r) /\ supply[Transition.need] > 0
     THEN /\ Consume(Transition.need)
          /\ planted' = [planted EXCEPT ![Planting] = @ + r.count]
          /\ draft' = NoDraft
          /\ Advance
          /\ requests' = (requests \ {r}) \union {Answer(r, TRUE)}
     ELSE /\ requests' = (requests \ {r}) \union {Answer(r, FALSE)}
          /\ UNCHANGED <<plantRow, draft, supply>>
  /\ UNCHANGED <<wateredAt, screen, day>>

-----------------------------------------------------------------------------
(* the planting screen *)

ServerOnly == UNCHANGED <<stage, progress, grownAt, wateredAt, planted, draft, supply, harvest, day, diary>>

(* the effect that follows every change of the items *)
Scheduled(at, count) ==
  [shows |-> "edit", at |-> at, count |-> count, timer |-> TRUE,
   pending |-> IF count = 0 THEN NoDraft
               ELSE [kind |-> Transitions[at + 1].plants, count |-> count, for |-> at]]

(* GET .../planting; a plant that rests closes the screen at once *)
OpenScreen(s) ==
  /\ screen[s].shows = "closed" /\ Planting # Nothing /\ ~Resting
  /\ screen' = [screen EXCEPT ![s] = Scheduled(stage, LiveDraft.count)]
  /\ UNCHANGED requests /\ ServerOnly

EditItems(s) ==
  /\ screen[s].shows = "edit"
  /\ \E n \in 0..MostItems : screen' = [screen EXCEPT ![s] = Scheduled(@.at, n)]
  /\ UNCHANGED requests /\ ServerOnly

Send(r) == Cardinality(requests) < MaxRequests /\ requests' = requests \union {r}

Put(d) == [type |-> "put", draft |-> d]

(* 0.7 s without an edit; the screen may be waiting for its POST meanwhile *)
TimerFires(s) ==
  /\ screen[s].timer
  /\ Send(Put(screen[s].pending))
  /\ screen' = [screen EXCEPT ![s].timer = FALSE, ![s].pending = NoDraft]
  /\ ServerOnly

(* the screen is left: the timer is dropped, what was pending is sent *)
CloseScreen(s) ==
  /\ screen[s].shows = "edit"
  /\ IF screen[s].pending # NoDraft THEN Send(Put(screen[s].pending)) ELSE UNCHANGED requests
  /\ screen' = [screen EXCEPT ![s] = Closed]
  /\ ServerOnly

Commit(s) ==
  /\ screen[s].shows = "edit"
  /\ Send([type |-> "post", by |-> s, kind |-> Transitions[screen[s].at + 1].plants,
           count |-> screen[s].count])
  /\ screen' = [screen EXCEPT ![s].shows = "busy"]
  /\ ServerOnly

(* what was planted is no draft any more: timer and pending are dropped *)
Committed(s) ==
  /\ [type |-> "answer", by |-> s, ok |-> TRUE] \in requests
  /\ requests' = requests \ {[type |-> "answer", by |-> s, ok |-> TRUE]}
  /\ screen' = [screen EXCEPT ![s] = Closed]
  /\ ServerOnly

(* refused: the screen goes on with what it has *)
CommitRefused(s) ==
  /\ [type |-> "answer", by |-> s, ok |-> FALSE] \in requests
  /\ requests' = requests \ {[type |-> "answer", by |-> s, ok |-> FALSE]}
  /\ screen' = [screen EXCEPT ![s].shows = "edit"]
  /\ ServerOnly

(* the network fails before or after the server; the caller sees an error *)
Lost(r) ==
  /\ r \in requests /\ Without(r)
  /\ screen' = IF r.type = "put" THEN screen ELSE [screen EXCEPT ![r.by].shows = "edit"]
  /\ ServerOnly

-----------------------------------------------------------------------------
NextDay ==
  /\ day < MaxDays /\ day' = day + 1
  /\ UNCHANGED <<stage, progress, grownAt, wateredAt, planted, draft, supply, harvest, screen, requests, diary>>

Next ==
  \/ \E n \in Needs : Care(n)
  \/ \E r \in requests : PutDraft(r) \/ Plant(r) \/ Lost(r)
  \/ \E s \in Screens :
       OpenScreen(s) \/ EditItems(s) \/ TimerFires(s) \/ CloseScreen(s)
         \/ Commit(s) \/ Committed(s) \/ CommitRefused(s)
  \/ NextDay

Spec == Init /\ [][Next]_vars

-----------------------------------------------------------------------------
TypeOK ==
  /\ stage \in 0..Full /\ progress \in Nat /\ grownAt \in -1..MaxDays /\ wateredAt \in -1..MaxDays
  /\ planted \in [Kinds -> Nat] /\ supply \in [Needs -> Nat] /\ harvest \in 0..1
  /\ draft \in [kind: Kinds \union {Nothing}, count: 0..MostItems, for: 0..Full]
  /\ day \in 0..MaxDays

(* However the requests of two devices and the care in between are served, *)
(* two stages are never passed in one day, and nothing is taken from the   *)
(* owner for a stage it was not meant for (planting.js: "Одна стадія на    *)
(* добу", ready_at and the need of the transition).                        *)
StagesArePaced ==
  \A i \in 1..Len(diary) :
    /\ diary[i][2] = Transitions[i].need
    /\ i > 1 => diary[i - 1][1] < diary[i][1]

(* The plant carries exactly what its past transitions asked for, a POST   *)
(* that is served late or repeated after a lost answer plants nothing      *)
(* twice, and what is no water was consumed once for every application     *)
(* (planting.js, the loop over limits and the update of the supply).       *)
PlantedAsDemanded ==
  /\ \A k \in Kinds :
       planted[k] = MapThenSumSet(LAMBDA i : IF Transitions[i].plants = k THEN Transitions[i].count ELSE 0, 1..stage)
  /\ \A n \in Needs \ {"water"} :
       Supplies[n] - supply[n] =
         MapThenSumSet(LAMBDA i : IF Transitions[i].need = n THEN Transitions[i].applications ELSE 0, 1..stage)
           + (IF ~Grown /\ Transition.need = n THEN progress ELSE 0)

(* What was planted is no draft any more: the screen does not ask to go on *)
(* with a planting that is over (Planting.jsx:487-489).                    *)
PlantedIsNoDraft == LiveDraft # NoDraft => draft.for = stage
=============================================================================
