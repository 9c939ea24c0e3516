----------------------------- MODULE KioskScreen -----------------------------
(***************************************************************************)
(* How a menu reaches the screen of a point: the menu thread of the kiosk  *)
(* (raspberry/kiosk/src/main.c, menu.c), the frame loop that takes what it *)
(* has drawn, and what both leave on the disk for the next start.          *)
(*                                                                         *)
(* The menu is drawn in two layers: the base (names, volumes, pictures,    *)
(* the advertisement) and the prices.  When only prices change, only the   *)
(* layer of prices is drawn, and the base drawn before is put under it.    *)
(* With both the thread also writes a picture that is shown while no kiosk *)
(* draws, and beside it the hash of what is seen on it, so that the same   *)
(* picture is not written again.                                           *)
(*                                                                         *)
(* A body in the bucket is [id, look, price, until]: until is the end of   *)
(* its discount, 0 when it has none.  A menu of the kiosk also has cut,    *)
(* TRUE while its discount holds.  The edge in front of the bucket keeps   *)
(* the body of the plain address for MaxAge; the address with ?v= that a   *)
(* deployment asks for passes it by.  Two copies run side by side while a  *)
(* new release takes the screen over.                                      *)
(***************************************************************************)
EXTENDS Integers, FiniteSets

CONSTANTS
  Kiosks,         \* the copies of the kiosk
  Looks, Prices,  \* what a base shows and what the prices may be
  Refresh,        \* MENU_REFRESH_SEC
  MaxAge,         \* how long the edge keeps a body
  Window,         \* how long a discount holds
  MaxPublished,   \* bound on the number of deployments
  MaxCuts,        \* bound on the number of cuts of the power
  Horizon,        \* bound on time
  CanFail,        \* whether drawing the base may fail
  None

VARIABLES
  now,
  bucket,         \* the body in the bucket
  edge,           \* [body, until]: what the edge keeps of the plain address
  cache,          \* the body in menu-cache.json
  png, hash,      \* the picture [base, look, price] and the hash beside it
  kiosk,          \* each copy, see Kiosk
  torn,           \* the power was cut between a picture and its hash
  cuts

vars == <<now, bucket, edge, cache, png, hash, kiosk, torn, cuts>>

Bodies == [id: 1..(MaxPublished + 1), look: Looks, price: Prices, until: 0..(Horizon + Window)]
Menus == [id: 1..(MaxPublished + 1), look: Looks, price: Prices, until: 0..(Horizon + Window),
          cut: BOOLEAN]
Pictures == [base: Looks \cup {None}, look: Looks, price: Prices, cut: BOOLEAN]
Drawings == [menu: Menus, full: BOOLEAN, base: Looks \cup {None}]

\* at: where the menu thread is.  last: the menu it drew last; made: the one it
\* is drawing; base: the base it keeps; pending: what the frame loop has not
\* taken; shown: the layers on the screen; poke: a deployment was announced.
Kiosk ==
  [at: {"off", "wait", "draw", "picture", "hash"}, last: Menus \cup {None},
   made: Drawings \cup {None}, base: Looks \cup {None}, pending: Drawings \cup {None},
   shown: Pictures \cup {None}, poke: BOOLEAN, since: 0..Horizon]

TypeOK ==
  /\ now \in 0..Horizon /\ cuts \in 0..MaxCuts /\ torn \in BOOLEAN
  /\ bucket \in Bodies /\ edge \in [body: Bodies, until: 0..(Horizon + MaxAge)]
  /\ cache \in Bodies \cup {None}
  /\ png \in Pictures \cup {None}
  /\ hash \in [look: Looks, price: Prices, cut: BOOLEAN] \cup {None}
  /\ kiosk \in [Kiosks -> Kiosk]

Off == [at |-> "off", last |-> None, made |-> None, base |-> None, pending |-> None,
        shown |-> None, poke |-> FALSE, since |-> 0]

Init ==
  /\ now = 0 /\ cuts = 0 /\ torn = FALSE
  /\ bucket \in {b \in Bodies : b.id = 1 /\ b.until = 0}
  /\ edge = [body |-> bucket, until |-> 0]
  /\ cache = None /\ png = None /\ hash = None
  /\ kiosk = [k \in Kiosks |-> Off]

-----------------------------------------------------------------------------
(* Menus (menu.c). *)

\* parse_body: the menu of a body, its discount on until somebody ends it.
MenuOf(b) == [id |-> b.id, look |-> b.look, price |-> b.price, until |-> b.until, cut |-> b.until > 0]

\* menu_expire_discount: after the window the full prices are back.
Ended(m) == m.cut /\ now >= m.until

\* Mutant of Expired: the prices wait for the deployment that brings them back.
ExpiredByDeployment(m) == m

Expired(m) == IF Ended(m) THEN [m EXCEPT !.cut = FALSE, !.until = 0] ELSE m

\* menu_visible_hash: what is seen of a menu.
Visible(m) == [look |-> m.look, price |-> m.price, cut |-> m.cut]

\* menu_same_look: nothing but the prices differs.
SameLook(m, n) == m # None /\ m.look = n.look

\* A deployment of the bucket: another look or price, or a discount.
Publish ==
  /\ bucket.id <= MaxPublished
  /\ bucket' \in {b \in Bodies : b.id = bucket.id + 1 /\ b.until \in {0, now + Window}}
  /\ UNCHANGED <<now, edge, cache, png, hash, kiosk, torn, cuts>>

\* Its event menu.deployed reaches a copy.
Poke(k) ==
  /\ kiosk[k].at # "off" /\ ~kiosk[k].poke
  /\ kiosk' = [kiosk EXCEPT ![k].poke = TRUE]
  /\ UNCHANGED <<now, bucket, edge, cache, png, hash, torn, cuts>>

\* What the edge answers to the plain address, and what it then keeps.
EdgeHolds == now < edge.until
Answer(poked) == IF poked \/ ~EdgeHolds THEN bucket ELSE edge.body
Kept(poked) == IF poked \/ EdgeHolds THEN edge ELSE [body |-> bucket, until |-> now + MaxAge]

-----------------------------------------------------------------------------
(* The start (main): the menu is asked for once; without network the one    *)
(* from the cache is drawn, and without that nothing.                       *)

Drawn(base, m) == [base |-> base, look |-> m.look, price |-> m.price, cut |-> m.cut]

Begin(k, b) ==
  LET m == Expired(MenuOf(b)) IN
  kiosk' = [kiosk EXCEPT ![k] = [Off EXCEPT !.at = "picture", !.last = m, !.base = m.look,
                                            !.shown = Drawn(m.look, m), !.since = now]]

Start(k) ==
  /\ kiosk[k].at = "off"
  /\ \/ /\ Begin(k, Answer(FALSE))
        /\ cache' = Answer(FALSE) /\ edge' = Kept(FALSE)
     \/ cache # None /\ Begin(k, cache) /\ UNCHANGED <<cache, edge>>
     \/ /\ cache = None
        /\ kiosk' = [kiosk EXCEPT ![k] = [Off EXCEPT !.at = "wait", !.since = now]]
        /\ UNCHANGED <<cache, edge>>
  /\ UNCHANGED <<now, bucket, png, hash, torn, cuts>>

-----------------------------------------------------------------------------
(* One turn of menu_poll_thread. *)

\* The wait is over: a deployment was announced, the discount is at its end, or
\* the period is over (a copy without a menu asks far sooner).
EndsDiscount(k) == ~kiosk[k].poke /\ kiosk[k].last # None /\ Ended(kiosk[k].last)
Due(k) ==
  kiosk[k].at = "wait" /\
  (kiosk[k].poke \/ EndsDiscount(k) \/ kiosk[k].last = None \/ now - kiosk[k].since >= Refresh)

\* What a read body changes: one with the hash of the last changes nothing.
ReadOf(m, b) == IF m # None /\ m.id = b.id THEN m ELSE MenuOf(b)

\* m is the menu after the turn; when nothing changed the thread waits again.
\* Only the prices are drawn when the last menu looks the same and its base is
\* at hand.
Turn(k, m) ==
  LET last == kiosk[k].last
      new == IF m = None THEN None ELSE Expired(m) IN
  IF new = last
  THEN kiosk' = [kiosk EXCEPT ![k].since = now, ![k].poke = FALSE]
  ELSE \E ok \in IF CanFail THEN BOOLEAN ELSE {TRUE} :
         LET full == ~(kiosk[k].base # None /\ SameLook(last, new)) IN
         kiosk' = [kiosk EXCEPT ![k].at = "draw", ![k].poke = FALSE,
                     ![k].made = [menu |-> new, full |-> full,
                                  base |-> IF full /\ ok THEN new.look ELSE None]]

\* The body is read (that it is confirmed to the API is in MenuRollout).
Read(k) ==
  /\ Due(k) /\ ~EndsDiscount(k)
  /\ LET b == Answer(kiosk[k].poke) IN
     /\ Turn(k, ReadOf(kiosk[k].last, b))
     /\ cache' = b /\ edge' = Kept(kiosk[k].poke)
  /\ UNCHANGED <<now, bucket, png, hash, torn, cuts>>

\* No network, or nothing is asked because the discount is over.
Unread(k) ==
  /\ Due(k)
  /\ Turn(k, kiosk[k].last)
  /\ UNCHANGED <<now, bucket, edge, cache, png, hash, torn, cuts>>

\* What is handed to the frame loop: a base it has not taken yet stays.
Handed(k) ==
  LET d == kiosk[k].made
      p == kiosk[k].pending IN
  [d EXCEPT !.base = IF d.full \/ p = None THEN d.base ELSE p.base,
            !.full = d.full \/ (p # None /\ p.full)]

HandOver(k) ==
  /\ kiosk[k].at = "draw"
  /\ kiosk' = [kiosk EXCEPT ![k].at = "picture", ![k].last = kiosk[k].made.menu,
                 ![k].base = IF kiosk[k].made.base # None THEN kiosk[k].made.base ELSE @,
                 ![k].pending = Handed(k)]
  /\ UNCHANGED <<now, bucket, edge, cache, png, hash, torn, cuts>>

\* write_fallback_png: not while a discount holds, not without a base of this
\* turn, and not when the hash says that this is the picture there.
Skips(k) ==
  \/ kiosk[k].last.cut
  \/ kiosk[k].base = None
  \/ kiosk[k].made # None /\ kiosk[k].made.full /\ kiosk[k].made.base = None
  \/ png # None /\ hash = Visible(kiosk[k].last)

WritePicture(k) ==
  /\ kiosk[k].at = "picture"
  /\ IF Skips(k)
     THEN /\ kiosk' = [kiosk EXCEPT ![k].at = "wait", ![k].made = None, ![k].since = now]
          /\ UNCHANGED png
     ELSE /\ png' = Drawn(kiosk[k].base, kiosk[k].last)
          /\ kiosk' = [kiosk EXCEPT ![k].at = "hash"]
  /\ UNCHANGED <<now, bucket, edge, cache, hash, torn, cuts>>

WriteHash(k) ==
  /\ kiosk[k].at = "hash"
  /\ hash' = Visible(kiosk[k].last)
  /\ torn' = FALSE
  /\ kiosk' = [kiosk EXCEPT ![k].at = "wait", ![k].made = None, ![k].since = now]
  /\ UNCHANGED <<now, bucket, edge, cache, png, cuts>>

\* A frame takes what is pending: a base that was not drawn leaves the old one.
Frame(k) ==
  LET p == kiosk[k].pending IN
  /\ p # None
  /\ kiosk' = [kiosk EXCEPT ![k].pending = None,
                 ![k].shown = Drawn(IF p.base # None THEN p.base
                                    ELSE IF @ = None THEN None ELSE @.base, p.menu)]
  /\ UNCHANGED <<now, bucket, edge, cache, png, hash, torn, cuts>>

\* The old copy goes when its turn is over; the power goes at any time.
Stop(k) ==
  /\ kiosk[k].at = "wait"
  /\ \E j \in Kiosks \ {k} : kiosk[j].shown # None
  /\ kiosk' = [kiosk EXCEPT ![k] = Off]
  /\ UNCHANGED <<now, bucket, edge, cache, png, hash, torn, cuts>>

CutPower ==
  /\ cuts < MaxCuts /\ cuts' = cuts + 1
  /\ torn' = (torn \/ \E k \in Kiosks : kiosk[k].at = "hash")
  /\ kiosk' = [k \in Kiosks |-> Off]
  /\ UNCHANGED <<now, bucket, edge, cache, png, hash>>

\* Time passes while no thread has a reason to act, or while one draws.
TimePasses ==
  /\ now < Horizon /\ now' = now + 1
  /\ \A k \in Kiosks : ~Due(k)
  /\ UNCHANGED <<bucket, edge, cache, png, hash, kiosk, torn, cuts>>

MenuTurn(k) == Read(k) \/ Unread(k) \/ HandOver(k) \/ WritePicture(k) \/ WriteHash(k)

Next ==
  \/ Publish \/ CutPower \/ TimePasses
  \/ \E k \in Kiosks : Poke(k) \/ Start(k) \/ MenuTurn(k) \/ Frame(k) \/ Stop(k)

\* The thread and the loop run on; no network is promised.
Fairness == \A k \in Kiosks : WF_vars(MenuTurn(k)) /\ WF_vars(Frame(k))

Spec == Init /\ [][Next]_vars /\ Fairness

-----------------------------------------------------------------------------
(* Properties. *)

\* The prices on the screen lie on the base they were drawn for: a price never
\* stands beside another drink (main.c, the two paths of menu_poll_thread and
\* what the frame loop takes).
LayersAgree ==
  \A k \in Kiosks : kiosk[k].shown # None => kiosk[k].shown.base = kiosk[k].shown.look

\* When a kiosk alone on the device has drawn a menu of full prices, the picture
\* under it is that menu: neither the hash nor the skipped discount leaves
\* another there, unless the power was cut between a picture and its hash.
Alone(k) == \A j \in Kiosks \ {k} : kiosk[j].at = "off"
PictureIsTheMenu ==
  \A k \in Kiosks :
    kiosk[k].at = "wait" /\ kiosk[k].last # None /\ ~kiosk[k].last.cut /\ Alone(k) /\ ~torn =>
      png # None /\ png = Drawn(kiosk[k].base, kiosk[k].last)

ScreenAndPictureAreTrue == LayersAgree /\ PictureIsTheMenu

\* The price of a discount whose window is over comes off the screen, with or
\* without network (menu_expire_discount; main.c, the wait of the thread).
PastDiscount(k) ==
  kiosk[k].shown # None /\ kiosk[k].shown.cut /\ kiosk[k].last.cut /\ now >= kiosk[k].last.until
DiscountComesDown == \A k \in Kiosks : PastDiscount(k) ~> ~PastDiscount(k)

\* One copy never goes back to an older deployment, though the edge may still
\* have it (Refresh is longer than MaxAge).
NeverGoesBack ==
  [][\A k \in Kiosks : kiosk[k].last # None /\ kiosk'[k].last # None =>
       kiosk'[k].last.id >= kiosk[k].last.id]_vars
=============================================================================
