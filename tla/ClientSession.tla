--------------------------- MODULE ClientSession ----------------------------
(***************************************************************************)
(* How a tab of the player's application stays signed in                   *)
(* (frontend/client/src/api.js, and the start of app.jsx).  The access     *)
(* token lives a quarter of an hour, the cookie with the session much      *)
(* longer; a request that is refused exchanges the cookie for a new token, *)
(* together with whoever else was refused, and is sent again.  Only the    *)
(* server ends a session: a lost connection must not.                      *)
(*                                                                         *)
(* The requests of the model are GET /me, whose answer is shown.           *)
(***************************************************************************)
EXTENDS Naturals, FiniteSets

CONSTANTS
  Sessions,     \* sess:<id>, in the order they are opened
  Requests,     \* GET /me, one of them at the start
  Boot,
  Attempts,     \* how often the start is tried
  QuietSignIn,  \* nobody signs in again while a request of before is under way
  MaxLost,      \* bounds: answers that are lost, tokens that expire
  MaxExpired,
  None

VARIABLES
  alive,        \* the sessions of the server
  cookie,       \* of this browser
  token,        \* the access token: of a session, fresh or expired
  refreshing,   \* the promise all of them share
  request,
  me, recent,   \* what is shown, and what api.peek would
  booting,      \* attempts made, or Done
  asked,        \* the person has signed out and not signed in again
  opened, lost, expired

sessionVars ==
  <<alive, cookie, token, refreshing, request, me, recent, booting, asked, opened, lost, expired>>

Done == Attempts
Free == [at |-> "free", auth |-> None, first |-> TRUE, answer |-> None]
NoRefresh == [at |-> "none", cookie |-> None, answer |-> None]

\* The page is loaded with a cookie or without, and with what was left of a token.
Init ==
  /\ alive \in SUBSET Sessions /\ opened = alive
  /\ cookie \in alive \cup {None} /\ Cardinality(alive) <= 1
  /\ token \in {None} \cup [of : alive, fresh : BOOLEAN]
  /\ refreshing = NoRefresh
  /\ request = [r \in Requests |-> Free]
  /\ me = None /\ recent = None /\ booting = 0
  /\ asked = (cookie = None) /\ lost = 0 /\ expired = 0

Puts(r, q) == request' = [request EXCEPT ![r] = q]

-----------------------------------------------------------------------------
\* send: with the token of this moment.
Sent(first) == [at |-> "sent", auth |-> token, first |-> first, answer |-> None]

\* Without a token the start asks for one first (restore), and so shares a refresh.
StartsRefresh == refreshing' = IF refreshing = NoRefresh THEN [NoRefresh EXCEPT !.at = "sent", !.cookie = cookie] ELSE refreshing

BootTries ==
  /\ booting < Done /\ request[Boot] = Free
  /\ IF token = None
       THEN Puts(Boot, [Free EXCEPT !.at = "refreshing"]) /\ StartsRefresh
       ELSE Puts(Boot, Sent(TRUE)) /\ UNCHANGED refreshing
  /\ UNCHANGED <<alive, cookie, token, me, recent, booting, asked, opened, lost, expired>>

\* refreshMe: after an event, an action or the sign-in.
RefreshMe(r) ==
  /\ r # Boot /\ booting = Done /\ request[r] = Free
  /\ me # None \/ token # None
  /\ Puts(r, Sent(TRUE))
  /\ UNCHANGED <<alive, cookie, token, refreshing, me, recent, booting, asked, opened, lost, expired>>

\* The server: 401 without a fresh token.
Answers(r) ==
  LET auth == request[r].auth IN
    /\ request[r].at = "sent"
    /\ Puts(r, [request[r] EXCEPT !.at = "answered",
                 !.answer = IF auth # None /\ auth.fresh THEN auth.of ELSE "401"])
    /\ UNCHANGED <<alive, cookie, token, refreshing, me, recent, booting, asked, opened, lost, expired>>

\* Any other failure: the network, or the API that is restarting.
Lost(r) ==
  /\ request[r].at = "sent" /\ lost < MaxLost
  /\ Puts(r, [request[r] EXCEPT !.at = "answered", !.answer = "lost"])
  /\ lost' = lost + 1
  /\ UNCHANGED <<alive, cookie, token, refreshing, me, recent, booting, asked, opened, expired>>

\* The start gives up at once when there is no session, else after the last attempt.
FailedAtOnce(r, why) == booting' = IF r # Boot THEN booting ELSE Done
Failed(r, why) ==
  booting' = IF r # Boot THEN booting ELSE IF why = "401" THEN Done ELSE booting + 1

Shown(r) ==
  LET account == request[r].answer IN
    /\ request[r].at = "answered" /\ account \in Sessions
    /\ me' = account /\ recent' = account
    /\ Puts(r, Free)
    /\ booting' = IF r = Boot THEN Done ELSE booting
    /\ UNCHANGED <<alive, cookie, token, refreshing, asked, opened, lost, expired>>

Refused(r) ==
  LET q == request[r] IN
    /\ q.at = "answered" /\ q.answer = "401"
    /\ IF q.first
         THEN /\ Puts(r, [q EXCEPT !.at = "refreshing", !.first = FALSE, !.answer = None])
              /\ StartsRefresh
              /\ UNCHANGED <<token, recent, booting>>
         ELSE /\ Puts(r, Free) /\ Failed(r, "401")
              /\ token' = None /\ recent' = None
              /\ UNCHANGED refreshing
    /\ UNCHANGED <<alive, cookie, me, asked, opened, lost, expired>>

Broken(r) ==
  /\ request[r].at = "answered" /\ request[r].answer = "lost"
  /\ Puts(r, Free) /\ Failed(r, "lost")
  /\ UNCHANGED <<alive, cookie, token, refreshing, me, recent, asked, opened, lost, expired>>

-----------------------------------------------------------------------------
\* refresh: POST /auth/refresh.
AnswersRefresh ==
  /\ refreshing.at = "sent"
  /\ refreshing' = [refreshing EXCEPT !.at = "answered",
       !.answer = IF refreshing.cookie \in alive THEN refreshing.cookie ELSE "401"]
  /\ UNCHANGED <<alive, cookie, token, request, me, recent, booting, asked, opened, lost, expired>>

LosesRefresh ==
  /\ refreshing.at = "sent" /\ lost < MaxLost
  /\ refreshing' = [refreshing EXCEPT !.at = "answered", !.answer = "lost"]
  /\ lost' = lost + 1
  /\ UNCHANGED <<alive, cookie, token, request, me, recent, booting, asked, opened, expired>>

Waiting == {r \in Requests : request[r].at = "refreshing"}
\* Whoever was refused signs the tab out when the refresh was refused too.
SignsOut(answer) == answer = "401" /\ \E r \in Waiting : ~request[r].first

Refreshed ==
  LET answer == refreshing.answer
      next == [of |-> answer, fresh |-> TRUE] IN
    /\ refreshing.at = "answered"
    /\ refreshing' = NoRefresh
    /\ IF answer \in Sessions
         THEN /\ token' = next
              /\ request' = [r \in Requests |-> IF r \in Waiting
                               THEN [Free EXCEPT !.at = "sent", !.auth = next, !.first = request[r].first]
                               ELSE request[r]]
              /\ UNCHANGED <<recent, booting>>
         ELSE /\ request' = [r \in Requests |-> IF r \in Waiting THEN Free ELSE request[r]]
              /\ token' = IF SignsOut(answer) THEN None ELSE token
              /\ recent' = IF SignsOut(answer) THEN None ELSE recent
              /\ Failed(IF Boot \in Waiting THEN Boot ELSE None, answer)
    /\ UNCHANGED <<alive, cookie, me, asked, opened, lost, expired>>

-----------------------------------------------------------------------------
\* The person: signs in (EmailLogin, LoginConfirm, Google) on the first screen,
\* signs out in the profile; logout ends in the same way when its answer is lost.
SignIn(s) ==
  /\ booting = Done /\ me = None /\ s \notin opened
  /\ QuietSignIn => refreshing = NoRefresh /\ request = [r \in Requests |-> Free]
  /\ opened' = opened \cup {s} /\ alive' = alive \cup {s} /\ cookie' = s
  /\ token' = [of |-> s, fresh |-> TRUE] /\ asked' = FALSE
  /\ UNCHANGED <<refreshing, request, me, recent, booting, lost, expired>>

Logout ==
  /\ booting = Done /\ me # None
  /\ \/ alive' = alive \ {cookie} /\ cookie' = None /\ UNCHANGED lost
     \/ lost < MaxLost /\ lost' = lost + 1 /\ UNCHANGED <<alive, cookie>>
  /\ token' = None /\ recent' = None /\ me' = None /\ asked' = TRUE
  /\ UNCHANGED <<refreshing, request, booting, opened, expired>>

\* A token expires, but not while a request that has just got it is under way.
Expires ==
  /\ token # None /\ token.fresh /\ expired < MaxExpired
  /\ \A r \in Requests : request[r].at = "sent" => request[r].first
  /\ expired' = expired + 1
  /\ token' = [token EXCEPT !.fresh = FALSE]
  /\ request' = [r \in Requests |-> IF request[r].at = "sent" /\ request[r].auth = token
                   THEN [request[r] EXCEPT !.auth.fresh = FALSE] ELSE request[r]]
  /\ UNCHANGED <<alive, cookie, refreshing, me, recent, booting, asked, opened, lost>>

\* The session ends on the server: on another device, or after a long silence.
SessionEnds ==
  /\ \E s \in alive : alive' = alive \ {s}
  /\ UNCHANGED <<cookie, token, refreshing, request, me, recent, booting, asked, opened, lost, expired>>

Next ==
  \/ BootTries \/ AnswersRefresh \/ LosesRefresh \/ Refreshed
  \/ \E r \in Requests : RefreshMe(r) \/ Answers(r) \/ Lost(r) \/ Shown(r) \/ Refused(r) \/ Broken(r)
  \/ \E s \in Sessions : SignIn(s)
  \/ Logout \/ Expires \/ SessionEnds

\* What is sent is answered or lost, and what is answered is handled.
Fairness ==
  /\ WF_sessionVars(BootTries) /\ WF_sessionVars(AnswersRefresh) /\ WF_sessionVars(Refreshed)
  /\ \A r \in Requests : WF_sessionVars(Answers(r)) /\ WF_sessionVars(Shown(r))
                         /\ WF_sessionVars(Refused(r)) /\ WF_sessionVars(Broken(r))

Spec == Init /\ [][Next]_sessionVars /\ Fairness

-----------------------------------------------------------------------------
Tokens == [of : Sessions, fresh : BOOLEAN] \cup {None}
Outcomes == Sessions \cup {None, "401", "lost"}

TypeOK ==
  /\ alive \subseteq Sessions /\ opened \subseteq Sessions /\ cookie \in Sessions \cup {None}
  /\ token \in Tokens /\ me \in Sessions \cup {None} /\ recent \in Sessions \cup {None}
  /\ refreshing.at \in {"none", "sent", "answered"} /\ refreshing.answer \in Outcomes
  /\ \A r \in Requests : request[r].at \in {"free", "sent", "answered", "refreshing"}
                         /\ request[r].auth \in Tokens /\ request[r].answer \in Outcomes
  /\ booting \in 0..Done

\* Nobody is signed out but by themselves or by the server: not by a connection
\* that breaks, an expired token or an API that is restarting (api.js:5-7).
KeepsTheSession == token # None /\ token' = None /\ cookie \in alive => asked'

\* A start that ends on the first screen had no session, or no connection.
StartFindsTheSession ==
  booting < Done /\ booting' = Done /\ me' = None /\ cookie \in alive' => lost' >= Attempts

SessionIsKept == [][KeepsTheSession /\ StartFindsTheSession]_sessionVars

\* The start ends.
BootEnds == <>(booting = Done)

\* Who has signed out is not shown signed in again; an answer of before the sign-out
\* still shows the account, and puts it where the next one finds it.
SignedOutStaysOut == [][asked /\ asked' /\ me = None => me' = None]_sessionVars
NoTokenAfterLogout == [][asked /\ asked' /\ token = None => token' = None]_sessionVars
NobodyElsesData == token # None /\ recent # None => recent = token.of
=============================================================================
