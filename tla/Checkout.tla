------------------------------ MODULE Checkout ------------------------------
(***************************************************************************)
(* Ordering a thing for beans with Nova Poshta: the form of Checkout.jsx   *)
(* with its pickers of a city and of a warehouse, the draft that outlives  *)
(* the screen, the address of the order before that fills a new form, and  *)
(* what delivery.js answers from its copy of the directory.                *)
(*                                                                         *)
(* Abstractions: the recipient is whether a name was typed; a query of the *)
(* search is what it matches.  The size and the plant to be printed do not *)
(* meet the address and are left out; so are the beans (Shop, Orders).     *)
(***************************************************************************)
EXTENDS Naturals, FiniteSets, Sequences, SequencesExt

CONSTANTS
  Products,
  Cities, Warehouses, \* np_cities, np_warehouses
  CityOf, KindOf,     \* of a warehouse: its city; "branch" or "postomat"
  Fits,               \* the pairs of a warehouse and a product that go together (fitsPostomat)
  Queries, Matches,   \* what a person may type, and what it finds
  Before,             \* the orders of before
  MaxSearches,        \* bounds: searches under way, orders
  MaxOrders,
  None

VARIABLES
  working,     \* the warehouses with status Working
  orders,      \* redemptions, in their order: [product, warehouse]
  screen,      \* the product of the form that is open
  form,        \* [name, city, kind, warehouse]
  drafts,      \* by product
  prefill,     \* GET /me/redemptions/last: [at, form]
  picker,      \* [at, query, list, chosen]
  searches,    \* searches on their way: [query, list], the list None at first
  confirm, post \* the popup; the order on its way: None, "sent", "stored", "refused"

checkoutVars == <<working, orders, screen, form, drafts, prefill, picker, searches, confirm, post>>

Blank == [name |-> FALSE, city |-> None, kind |-> "branch", warehouse |-> None]
NotAsked == [at |-> "none", form |-> Blank]
Closed == [at |-> "none", query |-> None, list |-> {}, chosen |-> None]

Init ==
  /\ working \in {w \in SUBSET Warehouses : Before # <<>> => Last(Before).warehouse \in w}
  /\ orders = Before
  /\ screen = None /\ form = Blank /\ drafts = [p \in Products |-> None]
  /\ prefill = NotAsked /\ picker = Closed /\ searches = <<>>
  /\ confirm = FALSE /\ post = None

server == <<working, orders>>

-----------------------------------------------------------------------------
(* The form.                                                                *)

\* set: what is changed goes to the draft as well.
SetForm(f) == form' = f /\ drafts' = [drafts EXCEPT ![screen] = f]

Open(p) ==
  /\ screen = None
  /\ screen' = p
  /\ form' = IF drafts[p] = None THEN Blank ELSE drafts[p]
  /\ prefill' = IF drafts[p] = None THEN [NotAsked EXCEPT !.at = "asked"] ELSE NotAsked
  /\ UNCHANGED <<server, drafts, picker, searches, confirm, post>>

\* The screen is left: the table of sizes, Back.  An answer that comes later
\* finds nobody.
Leave ==
  /\ screen # None /\ picker = Closed /\ ~confirm /\ post = None
  /\ screen' = None /\ prefill' = NotAsked /\ form' = Blank
  /\ UNCHANGED <<server, drafts, picker, searches, confirm, post>>

Types ==
  /\ screen # None /\ picker = Closed /\ ~confirm /\ ~form.name
  /\ SetForm([form EXCEPT !.name = TRUE])
  /\ UNCHANGED <<server, screen, prefill, picker, searches, confirm, post>>

\* The segment: a warehouse of the other kind is dropped.
Kept(w, kind) == IF w # None /\ KindOf[w] = kind THEN w ELSE None
ChooseKind(kind) ==
  /\ screen # None /\ picker = Closed /\ ~confirm
  /\ SetForm([form EXCEPT !.kind = kind, !.warehouse = Kept(@, kind)])
  /\ UNCHANGED <<server, screen, prefill, picker, searches, confirm, post>>

-----------------------------------------------------------------------------
(* The address of the order before.                                         *)

LastOrder ==
  LET w == Last(orders).warehouse IN
    IF w \in working THEN [name |-> TRUE, city |-> CityOf[w], kind |-> KindOf[w], warehouse |-> w]
    ELSE [name |-> TRUE, city |-> None, kind |-> KindOf[w], warehouse |-> None]

AnswersLast ==
  /\ prefill.at = "asked"
  /\ prefill' = IF orders = <<>> THEN NotAsked ELSE [at |-> "answered", form |-> LastOrder]
  /\ UNCHANGED <<server, screen, form, drafts, picker, searches, confirm, post>>

\* Who has begun to fill the form in the meantime keeps what they have.
Begun == form.name \/ form.city # None
Prefills ==
  /\ prefill.at = "answered"
  /\ IF Begun THEN UNCHANGED <<form, drafts>> ELSE SetForm(prefill.form)
  /\ prefill' = NotAsked
  /\ UNCHANGED <<server, screen, picker, searches, confirm, post>>

-----------------------------------------------------------------------------
(* The pickers.                                                             *)

OpenPicker(at, chosen) == [at |-> at, query |-> None, list |-> {}, chosen |-> chosen]

PickCity ==
  /\ screen # None /\ picker = Closed /\ ~confirm
  /\ picker' = OpenPicker("city", form.city)
  /\ UNCHANGED <<server, screen, form, drafts, prefill, searches, confirm, post>>

PickWarehouse ==
  /\ screen # None /\ picker = Closed /\ ~confirm /\ form.city # None
  /\ picker' = OpenPicker("warehouse", form.warehouse)
  /\ UNCHANGED <<server, screen, form, drafts, prefill, searches, confirm, post>>

\* A pause in the typing sends the search.
Search(q) ==
  /\ picker # Closed /\ Len(searches) < MaxSearches
  /\ picker' = [picker EXCEPT !.query = q]
  /\ searches' = Append(searches, [query |-> q, list |-> None])
  /\ UNCHANGED <<server, screen, form, drafts, prefill, confirm, post>>

\* GET /np/cities, /np/warehouses: those that match; of the parcel lockers those
\* the product goes into.
FoundCities(q) == {c \in Cities : <<q, c>> \in Matches}
FoundWarehouses(q) ==
  {w \in working : <<q, w>> \in Matches /\ CityOf[w] = form.city
                   /\ (KindOf[w] = "postomat" => <<w, screen>> \in Fits)}

Finds(i) ==
  /\ searches[i].list = None
  /\ searches' = [searches EXCEPT ![i].list =
       IF picker.at = "city" THEN FoundCities(searches[i].query) ELSE FoundWarehouses(searches[i].query)]
  /\ UNCHANGED <<server, screen, form, drafts, prefill, picker, confirm, post>>

\* Answers come in any order; of the warehouses the list shows those of the kind.
Shown == IF picker.at = "warehouse" THEN {w \in picker.list : KindOf[w] = form.kind} ELSE picker.list
Found(i) ==
  /\ searches[i].list # None
  /\ picker' = [picker EXCEPT !.list = searches[i].list]
  /\ searches' = RemoveAt(searches, i)
  /\ UNCHANGED <<server, screen, form, drafts, prefill, confirm, post>>
Unfound(i) ==
  /\ picker' = [picker EXCEPT !.list = {}]
  /\ searches' = RemoveAt(searches, i)
  /\ UNCHANGED <<server, screen, form, drafts, prefill, confirm, post>>

Choose ==
  /\ \E x \in Shown : picker' = [picker EXCEPT !.chosen = x]
  /\ UNCHANGED <<server, screen, form, drafts, prefill, searches, confirm, post>>

\* The city opens the picker of its warehouses; the warehouse of before goes.
OtherCity(c) == [form EXCEPT !.city = c, !.warehouse = None]
Done ==
  /\ picker.chosen # None
  /\ \/ /\ picker.at = "city"
        /\ SetForm(OtherCity(picker.chosen))
        /\ picker' = OpenPicker("warehouse", None)
     \/ /\ picker.at = "warehouse"
        /\ SetForm([form EXCEPT !.warehouse = picker.chosen])
        /\ picker' = Closed
  /\ searches' = <<>>
  /\ UNCHANGED <<server, screen, prefill, confirm, post>>

ClosePicker ==
  /\ picker # Closed
  /\ picker' = Closed /\ searches' = <<>>
  /\ UNCHANGED <<server, screen, form, drafts, prefill, confirm, post>>

-----------------------------------------------------------------------------
(* The order.                                                               *)

Ready == form.name /\ form.warehouse # None
Ask ==
  /\ screen # None /\ picker = Closed /\ ~confirm /\ Ready
  /\ confirm' = TRUE
  /\ UNCHANGED <<server, screen, form, drafts, prefill, picker, searches, post>>
Cancel ==
  /\ confirm /\ post = None /\ confirm' = FALSE
  /\ UNCHANGED <<server, screen, form, drafts, prefill, picker, searches, post>>
Buy ==
  /\ confirm /\ post = None /\ Len(orders) < MaxOrders
  /\ post' = "sent"
  /\ UNCHANGED <<server, screen, form, drafts, prefill, picker, searches, confirm>>

\* POST /me/redemptions, or too few beans.
Stores ==
  /\ post = "sent"
  /\ \/ orders' = Append(orders, [product |-> screen, warehouse |-> form.warehouse]) /\ post' = "stored"
     \/ post' = "refused" /\ UNCHANGED orders
  /\ UNCHANGED <<working, screen, form, drafts, prefill, picker, searches, confirm>>

\* The order is shown in the place of the form; without an answer, or with a
\* refusal, the form stays.
Ordered ==
  /\ post = "stored"
  /\ drafts' = [drafts EXCEPT ![screen] = None]
  /\ screen' = None /\ form' = Blank /\ prefill' = NotAsked /\ confirm' = FALSE /\ post' = None
  /\ UNCHANGED <<server, picker, searches>>
NotOrdered ==
  /\ post \in {"stored", "refused"}
  /\ confirm' = FALSE /\ post' = None
  /\ UNCHANGED <<server, screen, form, drafts, prefill, picker, searches>>

\* The nightly copy of the directory: a warehouse closes.
Closes(w) ==
  /\ w \in working /\ working' = working \ {w}
  /\ UNCHANGED <<orders, screen, form, drafts, prefill, picker, searches, confirm, post>>

Next ==
  \/ \E p \in Products : Open(p)
  \/ Leave \/ Types \/ AnswersLast \/ Prefills
  \/ \E k \in {"branch", "postomat"} : ChooseKind(k)
  \/ PickCity \/ PickWarehouse \/ Choose \/ Done \/ ClosePicker
  \/ \E q \in Queries : Search(q)
  \/ \E i \in DOMAIN searches : Finds(i) \/ Found(i) \/ Unfound(i)
  \/ Ask \/ Cancel \/ Buy \/ Stores \/ Ordered \/ NotOrdered
  \/ \E w \in Warehouses : Closes(w)

Spec == Init /\ [][Next]_checkoutVars

-----------------------------------------------------------------------------
Forms == [name : BOOLEAN, city : Cities \cup {None}, kind : {"branch", "postomat"},
          warehouse : Warehouses \cup {None}]

TypeOK ==
  /\ working \subseteq Warehouses /\ orders \in Seq([product : Products, warehouse : Warehouses])
  /\ screen \in Products \cup {None} /\ form \in Forms
  /\ \A p \in Products : drafts[p] = None \/ drafts[p] \in Forms
  /\ picker.at \in {"none", "city", "warehouse"} /\ confirm \in BOOLEAN
  /\ post \in {None, "sent", "stored", "refused"}

\* The warehouse of a form is one of the city and of the kind it shows, and the
\* lists offer no other, in whatever order the answers come; what a person has
\* begun to fill in, no answer overwrites.
Agrees(f) == f.warehouse # None => CityOf[f.warehouse] = f.city /\ KindOf[f.warehouse] = f.kind
ListAgrees == picker.at = "warehouse" => \A w \in Shown : CityOf[w] = form.city /\ KindOf[w] = form.kind
AddressAgrees ==
  Agrees(form) /\ ListAgrees /\ \A p \in Products : drafts[p] = None \/ Agrees(drafts[p])
NothingIsOverwritten == Prefills /\ (form.name \/ form.city # None) => form' = form
AddressIsThePersons == []AddressAgrees /\ [][NothingIsOverwritten]_checkoutVars

\* "Parcel lockers that the thing does not go into the api does not return at all"
\* (Checkout.jsx:7-8).  The order before may have gone to one, and fills the form.
ParcelFits ==
  \A i \in DOMAIN orders :
    KindOf[orders[i].warehouse] = "postomat" => <<orders[i].warehouse, orders[i].product>> \in Fits

\* Nor is the parcel sent to a warehouse that was closed when it was ordered; a
\* draft remembers it, and the order does not ask.
WarehouseWorks == [][orders' # orders => Last(orders').warehouse \in working]_orders

\* The list is of what is in the field, once no search is under way; the older
\* answer may come last.
ListIsOfTheQuery ==
  picker.at = "city" /\ searches = <<>> /\ picker.list # {} => picker.list = FoundCities(picker.query)
=============================================================================
