----------------------------- MODULE LoginFlow -----------------------------
(***************************************************************************)
(* Logging in by a letter as the player goes through it: the tab that asks *)
(* for the letter and waits (EmailLogin.jsx, loginWait.js), the page that  *)
(* the link opens somewhere else (LoginConfirm.jsx) or in the same browser *)
(* (main.jsx), and the long requests between them (POST /auth/email/wait). *)
(* Who gets which account is in Sessions.                                  *)
(*                                                                         *)
(* The API does not notice that nobody hears a long request any more, and  *)
(* goes on with it.  The signal over Redis only makes a request look       *)
(* sooner; a request may look at any time here.                            *)
(***************************************************************************)
EXTENDS Naturals, FiniteSets

CONSTANTS
  Letters,
  Calls,       \* long requests
  MaxFaults,   \* bound on lost answers
  MaxReloads,  \* bound on reloads of the tab
  None

VARIABLES
  link,     \* login_links: [state, claimed, old]
  stored,   \* localStorage: the letter this browser waits for
  tab,      \* [at, letter, calling]
  told,     \* what the tab said of a letter: [what, letter]
  asked,    \* POST /auth/email: [at, letter, by]
  call,     \* [at, letter, answer, lost]
  page,     \* what the page of a letter shows
  session,  \* the browser of the tab has a session
  faults, reloads

loginVars == <<link, stored, tab, told, asked, call, page, session, faults, reloads>>

Free == [at |-> "free", letter |-> None, answer |-> "none", lost |-> FALSE]
Away == [at |-> "away", letter |-> None, calling |-> None]
NotAsked == [at |-> "none", letter |-> None, by |-> "tab"]
NotTold == [what |-> "nothing", letter |-> None]

Init ==
  /\ link = [l \in Letters |-> [state |-> "none", claimed |-> FALSE, old |-> FALSE]]
  /\ stored = None /\ tab = Away /\ told = NotTold /\ asked = NotAsked
  /\ call = [c \in Calls |-> Free]
  /\ page = [l \in Letters |-> "none"]
  /\ session = FALSE /\ faults = 0 /\ reloads = 0

Unspoilt(l) == link[l].state = "open" /\ ~link[l].old
Fault == faults < MaxFaults /\ faults' = faults + 1

GrowOld(l) ==
  /\ link[l].state # "none" /\ ~link[l].old
  /\ link' = [link EXCEPT ![l].old = TRUE]
  /\ UNCHANGED <<stored, tab, told, asked, call, page, session, faults, reloads>>

-----------------------------------------------------------------------------
(* The tab.                                                                 *)

\* readLoginWait
Remembered == IF stored # None /\ ~link[stored].old THEN stored ELSE None

OpenScreen ==
  /\ tab.at = "away"
  /\ tab' = [Away EXCEPT !.at = IF Remembered = None THEN "form" ELSE "sent", !.letter = Remembered]
  /\ told' = NotTold
  /\ UNCHANGED <<link, stored, asked, call, page, session, faults, reloads>>

Ask ==
  /\ tab.at \in {"form", "sent"} /\ asked = NotAsked
  /\ asked' = [NotAsked EXCEPT !.at = "asked"]
  /\ told' = NotTold
  /\ UNCHANGED <<link, stored, tab, call, page, session, faults, reloads>>

\* The letters before it stay good.
Mail(l) ==
  /\ asked.at = "asked" /\ link[l].state = "none"
  /\ link' = [link EXCEPT ![l].state = "open"]
  /\ asked' = [asked EXCEPT !.at = "mailed", !.letter = l]
  /\ UNCHANGED <<stored, tab, told, call, page, session, faults, reloads>>

\* The screen may be gone: what it stores it stores.
Mailed ==
  /\ asked.at = "mailed"
  /\ IF asked.by = "gone" THEN UNCHANGED <<stored, tab>>
     ELSE /\ stored' = asked.letter
          /\ tab' = IF asked.by = "tab" THEN [at |-> "sent", letter |-> asked.letter, calling |-> None] ELSE tab
  /\ asked' = NotAsked
  /\ UNCHANGED <<link, told, call, page, session, faults, reloads>>

\* Too soon, too many, the letter did not go (its row is deleted) or no answer.
NotMailed ==
  /\ asked.at # "none"
  /\ asked.at = "mailed" => Fault
  /\ asked.at = "asked" => UNCHANGED faults
  /\ asked' = NotAsked
  /\ UNCHANGED <<link, stored, tab, told, call, page, session, reloads>>

Calling(c) ==
  /\ tab.at = "sent" /\ tab.letter # None /\ tab.calling = None /\ call[c] = Free
  /\ tab' = [tab EXCEPT !.calling = c]
  /\ call' = [call EXCEPT ![c] = [Free EXCEPT !.at = "claim", !.letter = tab.letter]]
  /\ UNCHANGED <<link, stored, told, asked, page, session, faults, reloads>>

ChangeMail ==
  /\ tab.at = "sent"
  /\ tab' = [Away EXCEPT !.at = "form"] /\ stored' = None /\ told' = NotTold
  /\ UNCHANGED <<link, asked, call, page, session, faults, reloads>>

Leave ==
  /\ tab.at \in {"form", "sent"}
  /\ tab' = Away
  /\ asked' = IF asked.by = "tab" /\ asked # NotAsked THEN [asked EXCEPT !.by = "left"] ELSE asked
  /\ told' = NotTold
  /\ UNCHANGED <<link, stored, call, page, session, faults, reloads>>

\* Nothing that was under way is heard.
Reload ==
  /\ tab.at # "in" /\ reloads < MaxReloads
  /\ reloads' = reloads + 1
  /\ tab' = IF session THEN [Away EXCEPT !.at = "in"] ELSE Away
  /\ asked' = IF asked = NotAsked THEN asked ELSE [asked EXCEPT !.by = "gone"]
  /\ call' = [c \in Calls |-> [call[c] EXCEPT !.lost = call[c] # Free]]
  /\ told' = NotTold
  /\ UNCHANGED <<link, stored, page, session, faults>>

-----------------------------------------------------------------------------
(* The long request.                                                        *)

\* Mutant of Claimable: what is open is let in.
ClaimableUnasked(l) == link[l].state \in {"open", "approved"} /\ ~link[l].claimed
Claimable(l) == link[l].state = "approved" /\ ~link[l].claimed

Answers(c, what) == call' = [call EXCEPT ![c].at = "answer", ![c].answer = what]

Claim(c) ==
  LET l == call[c].letter IN
    /\ call[c].at = "claim"
    /\ IF Claimable(l)
       THEN link' = [link EXCEPT ![l].claimed = TRUE] /\ Answers(c, "in")
       ELSE call' = [call EXCEPT ![c].at = "look"] /\ UNCHANGED link
    /\ UNCHANGED <<stored, tab, told, asked, page, session, faults, reloads>>

\* Mutant of Dead: a claimed link may be waited for.
DeadUnclaimed(l) == link[l].state = "rejected" \/ link[l].old
Dead(l) == link[l].state = "rejected" \/ link[l].claimed \/ link[l].old

\* A link that is good is looked at again, until the request is old.
Look(c) ==
  LET l == call[c].letter IN
    /\ call[c].at = "look"
    /\ IF Dead(l) THEN Answers(c, IF link[l].state = "rejected" THEN "rejected" ELSE "expired")
       ELSE Answers(c, "pending") \/ call' = [call EXCEPT ![c].at = "claim"]
    /\ UNCHANGED <<link, stored, tab, told, asked, page, session, faults, reloads>>

\* The screen that hears it goes in, or says why not, or asks again.  A screen
\* that was left hears nothing, though the token is the browser's.
Answer(c) ==
  LET what == call[c].answer IN
    /\ call[c].at = "answer" /\ ~call[c].lost
    /\ session' = (session \/ what = "in")
    /\ IF tab.calling # c THEN UNCHANGED <<tab, told, stored>>
       ELSE IF what = "pending" THEN tab' = [tab EXCEPT !.calling = None] /\ UNCHANGED <<told, stored>>
       ELSE /\ stored' = None
            /\ tab' = IF what = "in" THEN [Away EXCEPT !.at = "in"] ELSE [Away EXCEPT !.at = "sent"]
            /\ told' = IF what = "in" THEN told ELSE [what |-> what, letter |-> call[c].letter]
    /\ call' = [call EXCEPT ![c] = Free]
    /\ UNCHANGED <<link, asked, page, faults, reloads>>

\* The tab asks again in three seconds.
Unanswered(c) ==
  /\ call[c].at = "answer"
  /\ IF call[c].lost THEN UNCHANGED faults ELSE Fault
  /\ tab' = IF tab.calling = c THEN [tab EXCEPT !.calling = None] ELSE tab
  /\ call' = [call EXCEPT ![c] = Free]
  /\ UNCHANGED <<link, stored, told, asked, page, session, reloads>>

-----------------------------------------------------------------------------
(* The link.                                                                *)

Shows(l, what) == page' = [page EXCEPT ![l] = what]

\* In the browser that waits for a letter it lets in at once.
OpenHere(l) ==
  /\ link[l].state # "none" /\ page[l] = "none" /\ Remembered # None
  /\ IF Unspoilt(l) THEN link' = [link EXCEPT ![l].state = "approved"] /\ session' = TRUE
     ELSE UNCHANGED <<link, session>>
  /\ Shows(l, "here")
  /\ UNCHANGED <<stored, tab, told, asked, call, faults, reloads>>

\* In another one it asks: peek.
OpenElsewhere(l) ==
  /\ link[l].state # "none" /\ page[l] \in {"none", "rejected", "expired"}
  /\ \/ Shows(l, IF Unspoilt(l) THEN "ask" ELSE "expired") /\ UNCHANGED faults
     \/ Shows(l, "expired") /\ Fault
  /\ UNCHANGED <<link, stored, tab, told, asked, call, session, reloads>>

Yes(l) ==
  /\ page[l] = "ask"
  /\ IF Unspoilt(l) THEN link' = [link EXCEPT ![l].state = "approved"] ELSE UNCHANGED link
  /\ \/ Shows(l, IF Unspoilt(l) THEN "done" ELSE "expired") /\ UNCHANGED faults
     \/ Shows(l, "expired") /\ Fault
  /\ UNCHANGED <<stored, tab, told, asked, call, session, reloads>>

\* Whatever becomes of the request, the page says that the link is gone.
No(l) ==
  /\ page[l] = "ask"
  /\ \/ link' = [link EXCEPT ![l].state = IF @ = "open" THEN "rejected" ELSE @] /\ UNCHANGED faults
     \/ UNCHANGED link /\ Fault
  /\ Shows(l, "rejected")
  /\ UNCHANGED <<stored, tab, told, asked, call, session, reloads>>

Next ==
  \/ OpenScreen \/ Ask \/ Mailed \/ NotMailed \/ ChangeMail \/ Leave \/ Reload
  \/ \E l \in Letters : GrowOld(l) \/ Mail(l) \/ OpenHere(l) \/ OpenElsewhere(l) \/ Yes(l) \/ No(l)
  \/ \E c \in Calls : Calling(c) \/ Claim(c) \/ Look(c) \/ Answer(c) \/ Unanswered(c)

\* The tab goes on asking, the API goes on with every request, for twenty seconds
\* at most, and what was not lost is heard.
Fairness ==
  /\ WF_loginVars(\E c \in Calls : Calling(c))
  /\ \A c \in Calls : WF_loginVars(Claim(c) \/ Look(c)) /\ WF_loginVars(Answer(c) \/ Unanswered(c))
  /\ \A c \in Calls : SF_loginVars(Look(c) /\ call'[c].at = "answer")

Spec == Init /\ [][Next]_loginVars /\ Fairness

-----------------------------------------------------------------------------
States == {"none", "open", "approved", "rejected"}
TypeOK ==
  /\ link \in [Letters -> [state : States, claimed : BOOLEAN, old : BOOLEAN]]
  /\ {stored, tab.letter, told.letter} \subseteq Letters \cup {None}
  /\ tab.at \in {"away", "form", "sent", "in"} /\ tab.calling \in Calls \cup {None}
  /\ asked.at \in {"none", "asked", "mailed"} /\ asked.by \in {"tab", "left", "gone"}
  /\ \A c \in Calls : call[c].at \in {"free", "claim", "look", "answer"}
  /\ faults \in 0..MaxFaults /\ reloads \in 0..MaxReloads

\* Whatever is lost, left and opened twice: nobody is let in without a letter
\* somebody said yes to, a refusal is told only of a letter that was refused and
\* an end only of one that is too old or was used, and a page that says "done" has
\* let somebody in.
LoginIsHonest ==
  /\ session \/ tab.at = "in" => \E l \in Letters : link[l].state = "approved"
  /\ \A l \in Letters : link[l].claimed => link[l].state = "approved"
  /\ told.what = "rejected" => link[told.letter].state = "rejected"
  /\ told.what = "expired" => link[told.letter].old \/ link[told.letter].claimed
  /\ \A l \in Letters : page[l] = "done" => link[l].state = "approved"

\* Who waits learns what became of the letter (EmailLogin.jsx:40-43), whichever
\* answers were lost.
Over(l) == link[l].state \in {"approved", "rejected"} \/ link[l].old
WaitEnds == \A l \in Letters : (tab.letter = l /\ Over(l)) ~> tab.letter # l

\* "A page that was loaded again goes on waiting and does not lose the request"
\* (loginWait.js:7-8): the request of before takes the session, and nobody hears it.
ResumedIsLetIn ==
  told.what = "expired" => link[told.letter].state # "approved" \/ link[told.letter].old

\* "The link is no longer good, and nobody has entered the account"
\* (LoginConfirm.jsx:96): also when the request of it was lost.
RefusedIsRefused == \A l \in Letters : page[l] = "rejected" => link[l].state = "rejected"

\* "Go back to the browser, there you are already in" (LoginConfirm.jsx:89): unless
\* that tab has asked for another letter since.
DoneIsIn == \A l \in Letters : page[l] = "done" => session \/ tab.letter = l \/ tab.at = "away"

\* What makes LoginIsHonest inductive: an answer on its way is true, and stays true
\* however long it takes, since a link goes on in one direction only.
TabRow == [at : {"away", "form", "sent", "in"}, letter : Letters \cup {None}, calling : Calls \cup {None}]
CallRow == [at : {"free", "claim", "look", "answer"}, letter : Letters \cup {None},
            answer : {"none", "in", "pending", "rejected", "expired"}, lost : BOOLEAN]
Typed ==
  /\ link \in [Letters -> [state : States, claimed : BOOLEAN, old : BOOLEAN]]
  /\ stored \in Letters \cup {None} /\ tab \in TabRow /\ call \in [Calls -> CallRow]
  /\ told \in [what : {"nothing", "rejected", "expired"}, letter : Letters \cup {None}]
  /\ told.what # "nothing" => told.letter \in Letters
  /\ asked \in [at : {"none", "asked", "mailed"}, letter : Letters \cup {None}, by : {"tab", "left", "gone"}]
  /\ asked.at = "mailed" => asked.letter \in Letters
  /\ page \in [Letters -> {"none", "here", "ask", "done", "rejected", "expired"}]
  /\ session \in BOOLEAN

Says(what, l) ==
  /\ l \in Letters /\ what # "none"
  /\ what = "in" => link[l].claimed
  /\ what = "rejected" => link[l].state = "rejected"
  /\ what = "expired" => link[l].old \/ link[l].claimed
AnswersAreTrue ==
  \A c \in Calls :
    /\ call[c].at # "free" => call[c].letter \in Letters
    /\ call[c].at = "answer" => Says(call[c].answer, call[c].letter)

LoginInv == Typed /\ AnswersAreTrue /\ LoginIsHonest
=============================================================================
