------------------------------ MODULE Recipes ------------------------------
(***************************************************************************)
(* The recipes of a coffee machine by versions, each valid from its date   *)
(* (admin-stock.js; the screen StockCatalog.jsx).  What goes into a drink  *)
(* comes from a backup of the machine, by the canister a material sits in; *)
(* cups, lids and what people take themselves the machine does not know:   *)
(* these come from the version before, and an admin sets how many take     *)
(* them.  Several admins work at once, each with what their screen showed. *)
(*                                                                         *)
(* Abstractions: a line says that a drink takes a material, and how many   *)
(* of the people take it; grams are left out.  There is one kind of lid,   *)
(* and one thing people take themselves.                                   *)
(***************************************************************************)
EXTENDS Naturals, FiniteSets, FiniteSetsExt

CONSTANTS
  Admins,
  Ingredients, Canisters, \* stock_items that go into a canister, and the canisters
  Cup, Lid, Stick,     \* the packaging and the consumable
  Drinks, Lidded,      \* drinks of the menu; those with a cup of M or L
  Every,               \* product_id 0: every drink
  Backups,             \* what the machine may say: the canisters of each drink it knows
  FirstCanister,       \* where the ingredients are at first
  All,                 \* take_rate: 1..All, All is everyone
  Horizon,             \* bound on the dates
  None

VARIABLES
  now,
  canister,    \* stock_items.canister
  versions,    \* recipe_versions: [from, lines, backup]
  screen       \* of each admin: [at, shown, from, backup, changes, lines]

recipeVars == <<now, canister, versions, screen>>

Line(p, i, r) == [product |-> p, item |-> i, rate |-> r]
Away == [at |-> "none", shown |-> {}, from |-> 0, backup |-> None,
         changes |-> {}, lines |-> {}]

-----------------------------------------------------------------------------
\* versionAt: the lines of the version that is valid at a moment.
VersionAt(t) ==
  LET past == {v \in versions : v.from <= t} IN
    IF past = {} THEN {} ELSE (CHOOSE v \in past : \A w \in past : w.from <= v.from).lines

InCanister == {i \in Ingredients : canister[i] # None}
Ingredient(c) == CHOOSE i \in InCanister : canister[i] = c
Known(b) == UNION {b[d] : d \in DOMAIN b} \subseteq {canister[i] : i \in InCanister}

\* machineLines: what the machine knows ...
Machine(b) == {Line(x[1], Ingredient(x[2]), All) : x \in {y \in (DOMAIN b) \X Canisters : y[2] \in b[y[1]]}}

\* ... what it does not know, from the version of before ...
Keep(b, base) ==
  {l \in base : l.item \notin InCanister /\ l.product \in (DOMAIN b) \cup {Every}}

\* ... and the cup and the lid of a drink that is new.
LidRate(keep) ==
  IF \E l \in keep : l.item = Lid THEN (CHOOSE l \in keep : l.item = Lid).rate ELSE All
Packing(b, keep) ==
  LET new == DOMAIN b \ {l.product : l \in keep} IN
    {Line(d, Cup, All) : d \in new} \cup {Line(d, Lid, LidRate(keep)) : d \in new \cap Lidded}

Imported(b, base) ==
  LET keep == Keep(b, base) IN Machine(b) \cup keep \cup Packing(b, keep)

FirstLines ==
  LET b == CHOOSE x \in Backups : TRUE IN
    Machine(b) \cup {Line(Every, Stick, All)}
      \cup {Line(d, Cup, All) : d \in DOMAIN b} \cup {Line(d, Lid, All) : d \in DOMAIN b \cap Lidded}

Init ==
  /\ now = 1
  /\ canister = FirstCanister
  /\ versions = {[from |-> 0, lines |-> FirstLines, backup |-> CHOOSE x \in Backups : TRUE]}
  /\ screen = [a \in Admins |-> Away]

TimePasses ==
  /\ now < Horizon /\ now' = now + 1
  /\ UNCHANGED <<canister, versions, screen>>

\* PATCH of a material: a canister holds one.
Refill(i, c) ==
  /\ canister[i] # c /\ c # None => \A j \in Ingredients : canister[j] # c
  /\ canister' = [canister EXCEPT ![i] = c]
  /\ UNCHANGED <<now, versions, screen>>

-----------------------------------------------------------------------------
(* Norms: how many take a lid and a stick, as a version of its own.         *)

\* The form is of the version that is valid when it is opened.
OpenNorms(a) ==
  LET shown == VersionAt(now) IN
    /\ screen[a] = Away /\ shown # {}
    /\ screen' = [screen EXCEPT ![a] = [Away EXCEPT !.at = "norms", !.shown = shown]]
    /\ UNCHANGED <<now, canister, versions>>

\* An empty field is no norm: the lines go.
Normed(shown, lid, stick) ==
  {l \in shown : l.product # Every /\ l.item # Lid}
    \cup {[l EXCEPT !.rate = lid] : l \in {x \in shown : x.item = Lid /\ lid # None}}
    \cup (IF stick = None THEN {} ELSE {Line(Every, Stick, stick)})

SaveNorms(a, lid, stick, t) ==
  /\ screen[a].at = "norms" /\ t <= now
  /\ lid # None => \E l \in screen[a].shown : l.item = Lid
  /\ screen' = [screen EXCEPT ![a] = [Away EXCEPT !.at = "norming", !.from = t,
                                        !.lines = Normed(screen[a].shown, lid, stick)]]
  /\ UNCHANGED <<now, canister, versions>>

-----------------------------------------------------------------------------
(* Import: a dry run shows what would change, then the version is made.     *)

OpenImport(a) ==
  /\ screen[a] = Away
  /\ screen' = [screen EXCEPT ![a].at = "import", ![a].from = now]
  /\ UNCHANGED <<now, canister, versions>>

Changes(b, base) == (Imported(b, base) \ base) \cup (base \ Imported(b, base))
Preview(a, b) ==
  /\ screen[a].at = "import" /\ screen[a].backup = None
  /\ screen' = [screen EXCEPT ![a].backup = b,
                  ![a].changes = IF Known(b) THEN Changes(b, VersionAt(screen[a].from)) ELSE {}]
  /\ UNCHANGED <<now, canister, versions>>

ChooseDate(a, t) ==
  /\ screen[a].at = "import" /\ t <= now
  /\ screen' = [screen EXCEPT ![a].from = t]
  /\ UNCHANGED <<now, canister, versions>>

\* The API computes it again, from what is valid then.
SaveImport(a) ==
  LET s == screen[a]
      base == VersionAt(s.from) IN
    /\ s.at = "import" /\ s.changes # {}
    /\ screen' = [screen EXCEPT ![a] =
         IF Known(s.backup) /\ Changes(s.backup, base) # {}
         THEN [@ EXCEPT !.at = "importing", !.lines = Imported(s.backup, base)] ELSE @]
    /\ UNCHANGED <<now, canister, versions>>

-----------------------------------------------------------------------------
\* createVersion: one version for a date, by the question and by the index.
Creates(a) ==
  LET s == screen[a] IN
    /\ s.at \in {"norming", "importing"}
    /\ IF \E v \in versions : v.from = s.from
       THEN versions' = versions
       ELSE versions' = versions \cup {[from |-> s.from, lines |-> s.lines, backup |-> s.backup]}
    /\ screen' = [screen EXCEPT ![a] = Away]
    /\ UNCHANGED <<now, canister>>

Close(a) ==
  /\ screen[a].at \in {"norms", "import"}
  /\ screen' = [screen EXCEPT ![a] = Away]
  /\ UNCHANGED <<now, canister, versions>>

RemoveVersion(v) ==
  /\ Cardinality(versions) > 1
  /\ versions' = versions \ {v}
  /\ UNCHANGED <<now, canister, screen>>

Rates == 1..All
Next ==
  \/ TimePasses
  \/ \E i \in Ingredients, c \in Canisters \cup {None} : Refill(i, c)
  \/ \E v \in versions : RemoveVersion(v)
  \/ \E a \in Admins :
       \/ OpenNorms(a) \/ OpenImport(a) \/ SaveImport(a) \/ Creates(a) \/ Close(a)
       \/ \E b \in Backups : Preview(a, b)
       \/ \E t \in 0..Horizon :
            \/ ChooseDate(a, t)
            \/ \E lid \in Rates \cup {None}, stick \in {All, None} : SaveNorms(a, lid, stick, t)

Spec == Init /\ [][Next]_recipeVars

-----------------------------------------------------------------------------
Items == Ingredients \cup {Cup, Lid, Stick}
Lines == [product : Drinks \cup {Every}, item : Items, rate : Rates]

TypeOK ==
  /\ now \in 0..Horizon
  /\ canister \in [Ingredients -> Canisters \cup {None}]
  /\ \A v \in versions : v.from \in 0..Horizon /\ v.lines \subseteq Lines
  /\ \A a \in Admins :
       /\ screen[a].at \in {"none", "norms", "norming", "import", "importing"}
       /\ screen[a].shown \cup screen[a].lines \cup screen[a].changes \subseteq Lines

\* Whatever is imported and set, in whatever order, by whom and for whichever
\* date: a drink has its cup, and a lid is taken by as many people with each drink
\* (the form of the norms shows one rate for it).
CupFor(lines) == \A l \in lines : l.product # Every => Line(l.product, Cup, All) \in lines
LidsAgree(lines) == \A l, k \in lines : l.item = Lid /\ k.item = Lid => l.rate = k.rate
Whole(lines) == CupFor(lines) /\ LidsAgree(lines)
RecipesAreWhole ==
  /\ \A v \in versions : Whole(v.lines)
  /\ \A a \in Admins : Whole(screen[a].lines)

\* "The packaging and what goes with every drink the machine does not know: they
\* come from the valid version" (docs/stock.md:197-199), and what goes into the
\* drink from the machine.  A material that has left its canister is kept with them.
RecipeIsTheMachines ==
  \A v \in versions : v.backup # None =>
    \A d \in DOMAIN v.backup :
      Cardinality({l \in v.lines : l.product = d /\ l.item \in Ingredients}) = Cardinality(v.backup[d])

\* "First we show what will change, and only then create" (StockCatalog.jsx:260):
\* the date may be changed after it, and another version may come.
CreatedAsShown ==
  [][\A a \in Admins : screen[a].at = "importing" /\ versions' # versions /\ screen'[a] = Away =>
       screen[a].changes = (screen[a].lines \ VersionAt(screen[a].from)) \cup (VersionAt(screen[a].from) \ screen[a].lines)
    ]_recipeVars

\* Norms change norms only (StockCatalog.jsx:196): saved from an old form they
\* bring the recipes of the old version back.
NormsKeepTheRecipe ==
  [][\A a \in Admins : screen[a].at = "norming" /\ versions' # versions /\ screen'[a] = Away =>
       {l \in screen[a].lines : l.item \in Ingredients}
         = {l \in VersionAt(screen[a].from) : l.item \in Ingredients}]_recipeVars
=============================================================================
