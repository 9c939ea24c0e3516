------------------------------ MODULE MCServer ------------------------------
(***************************************************************************)
(* Small instances of the parts of the server and of the screens of the    *)
(* application that do not touch the state of each other.  First those     *)
(* where the same thing is asked for several times at once: the sessions   *)
(* of players, support, the chat of a plant, the shop and the rewards.     *)
(* Then the invoices, the stock and its recipes, the receipts, what        *)
(* watches over the services, the portal of the coffee machine, the        *)
(* rollout, the notices, and what a player sees and does.                  *)
(*                                                                         *)
(* A behaviour is one of them (part), and a run is about those in Parts.   *)
(* Sessions has its own variables; x1 to x18 are those of whichever other  *)
(* part it is, in the order of its module.                                 *)
(*                                                                         *)
(* Proved here: of the sessions, what Sessions promises; of the shop and   *)
(* the rewards, WalletMatchesRows; of the usage, UsageFollowsRecipe; of    *)
(* support and the chat of a plant, ConversationsAreKept.  The proofs about*)
(* a part stand right after it, before the parts they do not need; what    *)
(* composes the parts is at the end.                                       *)
(***************************************************************************)
EXTENDS Sessions, Sequences, TLC, FiniteSetTheorems, WellFoundedInduction, TLAPS

CONSTANTS
  Parts, None,
  \* of Shop, with its prices and the balances at first
  Crates, Garments, Loot, Rate, CratePrice, CarePrice, SaplingPrice, SaplingBeans,
  SilverAtFirst, YellowAtFirst, BeansAtFirst,
  \* of Rewards
  DrinksBought, Attempts, MaxPosts, Gap, FreeMessages, MessagePrice, Milestones, Every, ProfileCoins,
  DrinkCoins, PostCoins, MaxDays, MaxMessages,
  \* of StockUsage
  Sales, SoldAt, Editions, InForce, Materials, Writers,
  \* of SupportChat and PlantChat
  Chats, Updates, ChatOf, CodeOf, StartCodes, Sayings, ChatRows, ChatTime, ChatFaults

VARIABLES part, x1, x2, x3, x4, x5, x6, x7, x8, x9, x10, x11, x12, x13, x14, x15, x16, x17, x18

MCPriceOf ==
  [crate |-> CratePrice, care |-> CarePrice, sapling |-> SaplingPrice, sapling_beans |-> SaplingBeans]
MCStart == [silver |-> SilverAtFirst, yellow |-> YellowAtFirst, beans |-> BeansAtFirst]

\* What a player buys, and what they earn.
Store == INSTANCE Shop WITH
       wallet <- x1, ledger <- x2, got <- x3, closed <- x4, openings <- x5, items <- x6,
       call <- x7, tab <- x8,
       Tabs <- Sids, Calls <- Threads, Kinds <- Garments, PriceOf <- MCPriceOf, Start <- MCStart
Reward == INSTANCE Rewards WITH
       silver <- x1, profile <- x2, claimed <- x3, answer <- x4, link <- x5, messages <- x6,
       call <- x7, today <- x8,
       Calls <- Threads, Items <- DrinksBought
\* What the orders have used up.
Usage == INSTANCE StockUsage WITH
       status <- x1, versions <- x2, usage <- x3, sync <- x4, mixed <- x5,
       Orders <- Sales, Bought <- SoldAt, Versions <- Editions, ValidFrom <- InForce,
       Recipe <- Materials, Clients <- Writers, NoVersion <- None
\* What is said with support, and with a plant.
Support == INSTANCE SupportChat WITH
       codes <- x1, pending <- x2, stored <- x3, account <- x4, waiting <- x5, closed <- x6,
       welcomed <- x7, handler <- x8, bus <- x9, online <- x10, shown <- x11, open <- x12,
       draft <- x13, reply <- x14,
       Codes <- StartCodes, Handlers <- Threads
Chat == INSTANCE PlantChat WITH
       rows <- x1, now <- x2, seen <- x3, recent <- x4, call <- x5, screen <- x6, faults <- x7,
       Calls <- Threads, Lines <- Sids, Typed <- Sayings, MaxRows <- ChatRows, MaxTime <- ChatTime,
       MaxFaults <- ChatFaults
\* The prices and rewards are counts, the rows can be counted, the times of orders
\* and recipes compared, and a text is not an empty field.
ASSUME ShopIsSound == Store!ConstantsAreSound
ASSUME RewardsAreSound == Reward!ConstantsAreSound
ASSUME UsageIsSound == Usage!ConstantsAreSound
ASSUME ChatIsSound == Chat!ConstantsAreSound

-----------------------------------------------------------------------------
(* The sessions, for any number of accounts, letters, sessions and calls.     *)
(* Each property gets the facts that make it inductive: what a call in        *)
(* progress has read remains true as far as the call relies on it.            *)

Ways == {<<"verify", l>> : l \in Links} \cup {<<"wait", l>> : l \in Links} \cup {<<"google">>}

\* What a call remembers at each of its steps.
EnteringCall == [at : {"lock", "find", "enter", "issue"}, by : Ways, who : Accounts \cup {NoAccount}]
SessionCall == [at : {"check", "touch", "drop"}, sid : Sids]
DeletingCall == [at : {"delete"}, sid : Sids, known : BOOLEAN]
LeavingCall == [at : {"members"}, who : Accounts]
WipingCall == [at : {"wipe"}, who : Accounts, sids : SUBSET Sids]
Calls == {Idle} \cup EnteringCall \cup SessionCall \cup DeletingCall \cup LeavingCall \cup WipingCall

LinkRow ==
  [state : {"none", "open", "approved", "rejected"}, claimed : BOOLEAN, alive : BOOLEAN]

Typed ==
  /\ TypeOK
  /\ entered \subseteq [by : Ways, sid : Sids]
  /\ thread \in [Threads -> Calls]

Entering(c) == thread[c].at \in {"lock", "find", "enter", "issue"}
Ending(c) == thread[c].at \in {"check", "touch", "drop", "delete"}

\* A session once opened keeps its owner; who is logged out had one.
Owned ==
  /\ \A s \in live \cup closed : owner[s] # NoAccount
  /\ \A c \in Threads : Ending(c) => owner[thread[c].sid] # NoAccount
  /\ \A c \in Threads : At(c, "issue") => thread[c].who # NoAccount

\* A letter is used up by the call that opens it, and by the one that claims it.
UsedUp ==
  /\ \A c \in Threads, l \in Links : Entering(c) =>
       /\ thread[c].by = <<"verify", l>> => link[l].state = "approved"
       /\ thread[c].by = <<"wait", l>> => link[l].state = "approved" /\ link[l].claimed
  /\ \A e \in entered, l \in Links :
       /\ e.by = <<"verify", l>> => link[l].state = "approved"
       /\ e.by = <<"wait", l>> => link[l].state = "approved" /\ link[l].claimed

\* Of two ways in by the same letter there is only one.
Alone ==
  /\ \A c, d \in Threads : Entering(c) /\ Entering(d) /\ thread[c].by = thread[d].by =>
       c = d \/ thread[c].by = <<"google">>
  /\ \A c \in Threads, e \in entered : Entering(c) /\ thread[c].by = e.by => e.by = <<"google">>
  /\ \A e, f \in entered : e.by = f.by => e = f \/ e.by = <<"google">>

\* The lock is with one call, which alone is between looking for an account
\* and making one; what it has not found is not there.
Locked ==
  /\ \A c, d \in lock : c = d
  /\ \A c \in Threads : thread[c].at \in {"find", "enter"} => c \in lock
  /\ \A c \in Threads : At(c, "enter") /\ thread[c].who = NoAccount =>
       \A a \in Accounts : account[a] # "open"

\* One account is open, and it has the address.
OneOpen ==
  /\ \A a, b \in Accounts : account[a] = "open" /\ account[b] = "open" => a = b
  /\ \A a \in Accounts : account[a] = "open" => a \in mail

\* Who signs in has an account, though it may be deleted by then; who has a
\* session had one; and only the sessions of the deleted are wiped.
Begun ==
  /\ \A c \in Threads : thread[c].at \in {"enter", "issue"} /\ thread[c].who # NoAccount =>
       account[thread[c].who] # "none"
  /\ \A c \in Threads : thread[c].at \in {"members", "wipe"} => account[thread[c].who] = "deleted"
  /\ \A s \in Sids : owner[s] # NoAccount => account[owner[s]] # "none"

IInv ==
  Typed /\ Owned /\ UsedUp /\ Alone /\ Locked /\ OneOpen /\ Begun /\ LogoutIsFinal /\ SessionsAreFound

-----------------------------------------------------------------------------
\* In the beginning nobody is on the way.
LEMMA InitIInv == Init => IInv
<1> SUFFICES ASSUME Init PROVE IInv
  OBVIOUS
<1> USE NoAccountIsNone DEF Init, Idle
<1>1. Typed
  <2>1. thread \in [Threads -> Calls]
    BY DEF Calls
  <2>2. \A a \in Accounts : account[a] \in {"none", "open", "deleted"}
    OBVIOUS
  <2> QED
    BY <2>1, <2>2 DEF Typed, TypeOK
<1>2. Owned /\ UsedUp /\ Alone
  BY DEF Owned, UsedUp, Alone, Entering, Ending, At
<1>3. Locked /\ Begun
  BY DEF Locked, Begun, At
<1>4. OneOpen
  BY DEF OneOpen
<1>5. LogoutIsFinal /\ SessionsAreFound
  BY DEF LogoutIsFinal, SessionsAreFound
<1> QED
  BY <1>1, <1>2, <1>3, <1>4, <1>5 DEF IInv

-----------------------------------------------------------------------------
\* A call is at a step of what it began as.
LEMMA StepOfACall ==
  ASSUME Typed, NEW c \in Threads
  PROVE  /\ Entering(c) <=> thread[c] \in EnteringCall
         /\ thread[c].at \in {"check", "touch", "drop"} <=> thread[c] \in SessionCall
         /\ At(c, "delete") <=> thread[c] \in DeletingCall
         /\ At(c, "members") <=> thread[c] \in LeavingCall
         /\ At(c, "wipe") <=> thread[c] \in WipingCall
<1>1. thread[c] \in Calls
  BY DEF Typed
<1> QED
  BY <1>1 DEF Calls, EnteringCall, SessionCall, DeletingCall, LeavingCall, WipingCall, Idle,
              Entering, At

\* The steps change what they say and keep the types.
LEMMA KeepsTyped == Typed /\ [Next]_sessionVars => Typed'
<1> SUFFICES ASSUME Typed, [Next]_sessionVars PROVE Typed'
  OBVIOUS
<1> USE NoAccountIsNone DEF Typed, TypeOK, base, redis
<1>00. link \in [Links -> LinkRow]
  BY DEF LinkRow
<1>0. /\ Idle \in Calls /\ EnteringCall \subseteq Calls /\ SessionCall \subseteq Calls
      /\ DeletingCall \subseteq Calls /\ LeavingCall \subseteq Calls /\ WipingCall \subseteq Calls
  BY DEF Calls
<1>1. ASSUME NEW l \in Links, SendLetter(l) \/ Reject(l) \/ LinkGrowsOld(l) PROVE Typed'
  <2>1. link' \in [Links -> LinkRow]
    <3>1. /\ [link[l] EXCEPT !.state = "open"] \in LinkRow
          /\ [link[l] EXCEPT !.state = "rejected"] \in LinkRow
          /\ [link[l] EXCEPT !.alive = FALSE] \in LinkRow
      BY <1>00 DEF LinkRow
    <3> QED
      BY <3>1, <1>00, <1>1 DEF SendLetter, Reject, LinkGrowsOld
  <2>2. UNCHANGED <<base, lock, redis, thread, closed, entered>>
    BY <1>1 DEF SendLetter, Reject, LinkGrowsOld
  <2> QED
    BY <2>1, <2>2 DEF LinkRow
<1>2. ASSUME NEW c \in Threads, NEW l \in Links, Verify(c, l) \/ Claim(c, l) PROVE Typed'
  <2>1. /\ [at |-> "lock", by |-> <<"verify", l>>, who |-> NoAccount] \in EnteringCall
        /\ [at |-> "lock", by |-> <<"wait", l>>, who |-> NoAccount] \in EnteringCall
    BY DEF EnteringCall, Ways
  <2>2. thread' \in [Threads -> Calls]
    BY <2>1, <1>0, <1>2 DEF Verify, Claim
  <2>3. link' \in [Links -> LinkRow]
    <3>1. /\ [link[l] EXCEPT !.state = "approved"] \in LinkRow
          /\ [link[l] EXCEPT !.claimed = TRUE] \in LinkRow
      BY <1>00 DEF LinkRow
    <3> QED
      BY <3>1, <1>00, <1>2 DEF Verify, Claim
  <2>4. UNCHANGED <<base, lock, redis, closed, entered>>
    BY <1>2 DEF Verify, Claim
  <2> QED
    BY <2>2, <2>3, <2>4 DEF LinkRow
<1>3. ASSUME NEW c \in Threads, NEW s \in Sids, Refresh(c, s) \/ Logout(c, s) PROVE Typed'
  <2>1. /\ [at |-> "check", sid |-> s] \in SessionCall
        /\ [at |-> "drop", sid |-> s] \in SessionCall
    BY DEF SessionCall
  <2> QED
    BY <2>1, <1>0, <1>3 DEF Refresh, Logout
<1>4. ASSUME NEW c \in Threads, NEW a \in Accounts, Leave(c, a) PROVE Typed'
  <2>1. [at |-> "members", who |-> a] \in LeavingCall
    BY DEF LeavingCall
  <2> QED
    BY <2>1, <1>0, <1>4 DEF Leave
<1>5. ASSUME NEW c \in Threads, Google(c) PROVE Typed'
  <2>1. [at |-> "lock", by |-> <<"google">>, who |-> NoAccount] \in EnteringCall
    BY DEF EnteringCall, Ways
  <2> QED
    BY <2>1, <1>0, <1>5 DEF Google
<1>6. ASSUME NEW c \in Threads, Lock(c) PROVE Typed'
  <2>1. [thread[c] EXCEPT !.at = "find"] \in EnteringCall
    BY <1>6, StepOfACall DEF Lock, At, Entering, EnteringCall
  <2> QED
    BY <2>1, <1>0, <1>6 DEF Lock, Goto
<1>7. ASSUME NEW c \in Threads, Find(c) PROVE Typed'
  <2>1. Known \subseteq Accounts
    BY DEF Known
  <2>2. PICK a \in Accounts \cup {NoAccount} :
          thread' = [thread EXCEPT ![c].at = "enter", ![c].who = a]
    BY <2>1, <1>7 DEF Find
  <2>3. [thread[c] EXCEPT !.at = "enter", !.who = a] \in EnteringCall
    BY <1>7, StepOfACall DEF Find, At, Entering, EnteringCall
  <2> QED
    BY <2>2, <2>3, <1>0, <1>7 DEF Find
<1>8. ASSUME NEW c \in Threads, Enter(c) PROVE Typed'
  <2>1. thread[c] \in EnteringCall
    BY <1>8, StepOfACall DEF Enter, At, Entering
  <2>2. PICK a \in Accounts :
          /\ account' = [account EXCEPT ![a] = IF @ = "none" THEN "open" ELSE @]
          /\ mail' = IF account[a] = "none" THEN mail \cup {a} ELSE mail
          /\ identity' = IF identity = NoAccount THEN a ELSE identity
          /\ thread' = [thread EXCEPT ![c].at = "issue", ![c].who = a]
    BY <1>8, <2>1 DEF Enter, EnteringCall
  <2>3. [thread[c] EXCEPT !.at = "issue", !.who = a] \in EnteringCall
    BY <2>1 DEF EnteringCall
  <2>4. thread' \in [Threads -> Calls]
    BY <2>2, <2>3, <1>0
  <2>5. account' \in [Accounts -> {"none", "open", "deleted"}]
    BY <2>2
  <2>6. mail' \subseteq Accounts /\ identity' \in Accounts \cup {NoAccount}
    BY <2>2
  <2> QED
    BY <2>4, <2>5, <2>6, <1>8 DEF Enter
<1>9. ASSUME NEW c \in Threads, Issue(c) PROVE Typed'
  <2>1. thread[c] \in EnteringCall
    BY <1>9, StepOfACall DEF Issue, At, Entering
  <2>2. thread[c].by \in Ways /\ thread[c].who \in Accounts \cup {NoAccount}
    BY <2>1 DEF EnteringCall
  <2>3. thread' \in [Threads -> Calls]
    BY <1>9, <1>0 DEF Issue, Done
  <2>4. PICK s \in Sids :
          /\ live' = live \cup {s}
          /\ owner' = [owner EXCEPT ![s] = thread[c].who]
          /\ index' = [index EXCEPT ![thread[c].who] = @ \cup {s}]
          /\ entered' = entered \cup {[by |-> thread[c].by, sid |-> s]}
    BY <1>9 DEF Issue
  <2>5. index' \in [Accounts -> SUBSET Sids]
    BY <2>4
  <2>6. /\ live' \subseteq Sids /\ owner' \in [Sids -> Accounts \cup {NoAccount}]
        /\ entered' \subseteq [by : Ways, sid : Sids]
    BY <2>2, <2>4
  <2> QED
    BY <2>3, <2>5, <2>6, <1>9 DEF Issue
<1>10. ASSUME NEW c \in Threads, Check(c) \/ Touch(c) \/ Read(c) PROVE Typed'
  <2>1. thread[c] \in SessionCall
    BY <1>10, StepOfACall DEF Check, Touch, Read, At
  <2>2. /\ [thread[c] EXCEPT !.at = "touch"] \in SessionCall
        /\ [thread[c] EXCEPT !.at = "drop"] \in SessionCall
        /\ [at |-> "delete", sid |-> thread[c].sid, known |-> thread[c].sid \in live] \in DeletingCall
    BY <2>1 DEF SessionCall, DeletingCall
  <2>3. CASE Check(c)
    BY <2>2, <2>3, <1>0 DEF Check, Goto
  <2>4. CASE Touch(c)
    BY <2>4, <1>0 DEF Touch, Touched, Done
  <2>5. CASE Read(c)
    BY <2>2, <2>5, <1>0 DEF Read
  <2> QED
    BY <2>3, <2>4, <2>5, <1>10
<1>11. ASSUME NEW c \in Threads, Delete(c) PROVE Typed'
  <2>1. thread[c].sid \in Sids
    BY <1>11, StepOfACall DEF Delete, DeletingCall
  <2>2. thread' \in [Threads -> Calls]
    BY <1>11, <1>0 DEF Delete, Done
  <2>3. index' \in [Accounts -> SUBSET Sids]
    BY <1>11 DEF Delete
  <2> QED
    BY <2>1, <2>2, <2>3, <1>11 DEF Delete
<1>12. ASSUME NEW c \in Threads, Members(c) PROVE Typed'
  <2>1. [at |-> "wipe", who |-> thread[c].who, sids |-> index[thread[c].who]] \in WipingCall
    BY <1>12, StepOfACall DEF Members, LeavingCall, WipingCall
  <2> QED
    BY <2>1, <1>0, <1>12 DEF Members
<1>13. ASSUME NEW c \in Threads, Wipe(c) PROVE Typed'
  BY <1>0, <1>13 DEF Wipe, Done
<1>14. ASSUME NEW c \in Threads, Stop(c) PROVE Typed'
  BY <1>0, <1>14 DEF Stop, Done
<1>15. ASSUME NEW s \in Sids, IdlesOut(s) PROVE Typed'
  BY <1>15 DEF IdlesOut
<1>16. UNCHANGED sessionVars => Typed'
  BY DEF sessionVars
<1> QED
  BY <1>1, <1>2, <1>3, <1>4, <1>5, <1>6, <1>7, <1>8, <1>9, <1>10, <1>11, <1>12, <1>13, <1>14,
     <1>15, <1>16 DEF Next, Step

\* A letter opens once, and is claimed once.
LEMMA KeepsLinks == IInv /\ Typed' /\ Next => (UsedUp /\ Alone)'
<1> SUFFICES ASSUME IInv, Typed', Next PROVE (UsedUp /\ Alone)'
  OBVIOUS
<1> USE DEF IInv, Entering
<1>1. ASSUME NEW l \in Links, SendLetter(l) \/ Reject(l) \/ LinkGrowsOld(l) PROVE (UsedUp /\ Alone)'
  <2>1. /\ \A k \in Links : /\ link[k].state = "approved" => link'[k].state = "approved"
                            /\ link[k].claimed => link'[k].claimed
        /\ UNCHANGED <<thread, entered>>
    <3>1. CASE SendLetter(l)
      BY <3>1 DEF SendLetter, Typed, TypeOK
    <3>2. CASE Reject(l)
      BY <3>2 DEF Reject, Typed, TypeOK
    <3>3. CASE LinkGrowsOld(l)
      BY <3>3 DEF LinkGrowsOld, Typed, TypeOK
    <3> QED
      BY <1>1, <3>1, <3>2, <3>3
  <2>2. UsedUp'
    BY <2>1 DEF UsedUp
  <2>3. Alone'
    BY <2>1 DEF Alone
  <2> QED
    BY <2>2, <2>3
<1>2. ASSUME NEW c \in Threads, NEW l \in Links, Verify(c, l) PROVE (UsedUp /\ Alone)'
  \* nobody came by it before: the letter was open
  <2>1. /\ \A d \in Threads : Entering(d) => thread[d].by # <<"verify", l>>
        /\ \A e \in entered : e.by # <<"verify", l>>
    BY <1>2 DEF Verify, UsedUp, Typed, TypeOK
  <2>2. /\ \A d \in Threads \ {c} : thread'[d] = thread[d]
        /\ thread'[c].by = <<"verify", l>>
        /\ entered' = entered
    BY <1>2 DEF Verify, Typed
  <2>3. UsedUp'
    <3>1. link' = [link EXCEPT ![l].state = "approved"]
      BY <1>2 DEF Verify
    <3>2. \A k \in Links : /\ link'[k].claimed = link[k].claimed
                           /\ link[k].state = "approved" => link'[k].state = "approved"
                           /\ k = l => link'[k].state = "approved"
      BY <3>1 DEF Typed, TypeOK
    <3>3. \A d \in Threads : d # c /\ Entering(d)' => Entering(d) /\ thread'[d] = thread[d]
      BY <2>2
    <3> QED
      BY <2>2, <3>2, <3>3 DEF UsedUp
  <2>4. Alone'
    BY <2>1, <2>2 DEF Alone
  <2> QED
    BY <2>3, <2>4
<1>3. ASSUME NEW c \in Threads, NEW l \in Links, Claim(c, l) PROVE (UsedUp /\ Alone)'
  \* nobody came by it before: the letter was not claimed
  <2>1. /\ \A d \in Threads : Entering(d) => thread[d].by # <<"wait", l>>
        /\ \A e \in entered : e.by # <<"wait", l>>
    BY <1>3 DEF Claim, Claimable, UsedUp, Typed, TypeOK
  <2>2. /\ \A d \in Threads \ {c} : thread'[d] = thread[d]
        /\ thread'[c].by = <<"wait", l>>
        /\ entered' = entered
    BY <1>3 DEF Claim, Typed
  <2>3. UsedUp'
    BY <1>3 DEF Claim, Claimable, UsedUp, Typed, TypeOK
  <2>4. Alone'
    BY <2>1, <2>2 DEF Alone
  <2> QED
    BY <2>3, <2>4
<1>4. ASSUME NEW c \in Threads, Google(c) PROVE (UsedUp /\ Alone)'
  <2>1. UsedUp'
    BY <1>4 DEF Google, UsedUp, Typed
  <2>2. Alone'
    BY <1>4 DEF Google, Alone, Typed
  <2> QED
    BY <2>1, <2>2
\* Under way to its session a call remains what it came by.
<1>5. ASSUME NEW c \in Threads, Lock(c) \/ Find(c) \/ Enter(c) PROVE (UsedUp /\ Alone)'
  <2>1. thread[c] \in EnteringCall
    BY <1>5, StepOfACall DEF Lock, Find, Enter, At
  <2>2. /\ Entering(c) /\ thread'[c].by = thread[c].by
        /\ \A d \in Threads \ {c} : thread'[d] = thread[d]
        /\ UNCHANGED <<link, entered>>
    BY <1>5, <2>1 DEF Lock, Goto, Find, Enter, EnteringCall, At, Typed
  <2>3. UsedUp'
    BY <2>2 DEF UsedUp
  <2>4. Alone'
    BY <2>2 DEF Alone
  <2> QED
    BY <2>3, <2>4
<1>6. ASSUME NEW c \in Threads, Issue(c) PROVE (UsedUp /\ Alone)'
  <2>1. UsedUp'
    BY <1>6 DEF Issue, Done, Idle, At, UsedUp, Typed
  <2>2. Alone'
    BY <1>6 DEF Issue, Done, Idle, At, Alone, Typed
  <2> QED
    BY <2>1, <2>2
\* The others neither come in nor touch a letter.
<1>7. ASSUME NEW c \in Threads,
             \/ \E s \in Sids : Refresh(c, s) \/ Logout(c, s)
             \/ \E a \in Accounts : Leave(c, a)
             \/ Check(c) \/ Touch(c) \/ Read(c) \/ Delete(c) \/ Members(c) \/ Wipe(c) \/ Stop(c)
      PROVE  (UsedUp /\ Alone)'
  <2>1. /\ thread'[c].at \notin {"lock", "find", "enter", "issue"}
        /\ \A d \in Threads \ {c} : thread'[d] = thread[d]
        /\ UNCHANGED <<link, entered>>
    <3>1. CASE Check(c)
      BY <3>1, StepOfACall DEF Check, Goto, At, SessionCall, Typed
    <3> QED
      BY <1>7, <3>1 DEF Refresh, Logout, Leave, Touch, Read, Delete, Members, Wipe, Stop, Done, Idle, Typed
  <2> QED
    BY <2>1 DEF UsedUp, Alone
<1>8. ASSUME NEW s \in Sids, IdlesOut(s) PROVE (UsedUp /\ Alone)'
  BY <1>8 DEF IdlesOut, UsedUp, Alone
<1> QED
  BY <1>1, <1>2, <1>3, <1>4, <1>5, <1>6, <1>7, <1>8 DEF Next, Step

\* One account is open, whoever signs in or leaves at the same time.
LEMMA KeepsAccounts == IInv /\ Typed' /\ Next => (Locked /\ OneOpen /\ Begun)'
<1> SUFFICES ASSUME IInv, Typed', Next PROVE (Locked /\ OneOpen /\ Begun)'
  OBVIOUS
<1> USE NoAccountIsNone DEF IInv, Typed, TypeOK, At
\* What touches neither an account nor the way of a call to one.
<1>1. ASSUME NEW l \in Links, SendLetter(l) \/ Reject(l) \/ LinkGrowsOld(l)
      PROVE  (Locked /\ OneOpen /\ Begun)'
  BY <1>1 DEF SendLetter, Reject, LinkGrowsOld, base, redis, Locked, OneOpen, Begun
<1>2. ASSUME NEW c \in Threads,
             \/ \E l \in Links : Verify(c, l) \/ Claim(c, l)
             \/ \E s \in Sids : Refresh(c, s) \/ Logout(c, s)
             \/ Google(c) \/ Check(c) \/ Touch(c) \/ Read(c) \/ Delete(c) \/ Wipe(c)
      PROVE  (Locked /\ OneOpen /\ Begun)'
  <2>1. /\ thread'[c].at \notin {"find", "enter", "issue", "members", "wipe"}
        /\ \A d \in Threads \ {c} : thread'[d] = thread[d]
        /\ UNCHANGED <<base, lock, owner>>
    <3>1. CASE Check(c)
      BY <3>1, StepOfACall DEF Check, Goto, SessionCall, redis
    <3> QED
      BY <1>2, <3>1 DEF Verify, Claim, Refresh, Logout, Google, Touch, Read, Delete, Wipe, Done, Idle, redis
  <2>2. Locked' /\ OneOpen'
    BY <2>1 DEF base, Locked, OneOpen
  <2>3. Begun'
    BY <2>1 DEF base, Begun
  <2> QED
    BY <2>2, <2>3
<1>3. ASSUME NEW c \in Threads, Lock(c) PROVE (Locked /\ OneOpen /\ Begun)'
  BY <1>3, StepOfACall DEF Lock, MayLock, Goto, Entering, EnteringCall, base, redis, Locked, OneOpen, Begun
<1>4. ASSUME NEW c \in Threads, Find(c) PROVE (Locked /\ OneOpen /\ Begun)'
  BY <1>4, StepOfACall DEF Find, Known, Entering, EnteringCall, base, redis, Locked, OneOpen, Begun
<1>5. ASSUME NEW c \in Threads, Enter(c) PROVE (Locked /\ OneOpen /\ Begun)'
  BY <1>5, StepOfACall DEF Enter, Entering, EnteringCall, redis, Locked, OneOpen, Begun
<1>6. ASSUME NEW c \in Threads, Issue(c) PROVE (Locked /\ OneOpen /\ Begun)'
  BY <1>6, StepOfACall DEF Issue, Done, Idle, Entering, EnteringCall, base, Locked, OneOpen, Begun, Owned
<1>7. ASSUME NEW c \in Threads, NEW a \in Accounts, Leave(c, a) PROVE (Locked /\ OneOpen /\ Begun)'
  BY <1>7 DEF Leave, Free, Idle, redis, Locked, OneOpen, Begun
<1>8. ASSUME NEW c \in Threads, Members(c) PROVE (Locked /\ OneOpen /\ Begun)'
  BY <1>8, StepOfACall DEF Members, LeavingCall, base, redis, Locked, OneOpen, Begun
<1>9. ASSUME NEW c \in Threads, Stop(c) PROVE (Locked /\ OneOpen /\ Begun)'
  BY <1>9 DEF Stop, Done, Idle, base, redis, Locked, OneOpen, Begun
<1>10. ASSUME NEW s \in Sids, IdlesOut(s) PROVE (Locked /\ OneOpen /\ Begun)'
  BY <1>10 DEF IdlesOut, base, Locked, OneOpen, Begun
<1> QED
  BY <1>1, <1>2, <1>3, <1>4, <1>5, <1>6, <1>7, <1>8, <1>9, <1>10 DEF Next, Step

\* A session that was logged out is gone, and one that is not is found.
LEMMA KeepsSessions == IInv /\ Typed' /\ Next => (Owned /\ LogoutIsFinal /\ SessionsAreFound)'
<1> SUFFICES ASSUME IInv, Typed', Next PROVE (Owned /\ LogoutIsFinal /\ SessionsAreFound)'
  OBVIOUS
<1> USE NoAccountIsNone DEF IInv, Typed, TypeOK, At, Ending
<1>1. ASSUME NEW l \in Links, SendLetter(l) \/ Reject(l) \/ LinkGrowsOld(l)
      PROVE  (Owned /\ LogoutIsFinal /\ SessionsAreFound)'
  BY <1>1 DEF SendLetter, Reject, LinkGrowsOld, base, redis, Owned, LogoutIsFinal, SessionsAreFound
\* What leaves the sessions as they are.
<1>2. ASSUME NEW c \in Threads,
             \/ \E l \in Links : Verify(c, l) \/ Claim(c, l)
             \/ Google(c) \/ Lock(c) \/ Members(c) \/ Stop(c)
      PROVE  (Owned /\ LogoutIsFinal /\ SessionsAreFound)'
  <2>1. /\ thread'[c].at \in {"idle", "lock", "find", "wipe"}
        /\ \A d \in Threads \ {c} : thread'[d] = thread[d]
        /\ UNCHANGED <<base, redis, closed>>
    <3>1. CASE Lock(c)
      BY <3>1, StepOfACall DEF Lock, Goto, Entering, EnteringCall
    <3> QED
      BY <1>2, <3>1 DEF Verify, Claim, Google, Members, Stop, Done, Idle
  <2> QED
    BY <2>1 DEF base, redis, Owned, LogoutIsFinal, SessionsAreFound
<1>3. ASSUME NEW c \in Threads, NEW s \in Sids, Refresh(c, s) \/ Logout(c, s)
      PROVE  (Owned /\ LogoutIsFinal /\ SessionsAreFound)'
  BY <1>3 DEF Refresh, Logout, base, redis, Owned, LogoutIsFinal, SessionsAreFound
<1>4. ASSUME NEW c \in Threads, NEW a \in Accounts, Leave(c, a)
      PROVE  (Owned /\ LogoutIsFinal /\ SessionsAreFound)'
  BY <1>4 DEF Leave, redis, Owned, LogoutIsFinal, SessionsAreFound
<1>5. ASSUME NEW c \in Threads, Find(c) PROVE (Owned /\ LogoutIsFinal /\ SessionsAreFound)'
  BY <1>5, StepOfACall DEF Find, Entering, EnteringCall, base, redis, Owned, LogoutIsFinal, SessionsAreFound
\* Nobody has a session yet of an account that is made now.
<1>6. ASSUME NEW c \in Threads, Enter(c) PROVE (Owned /\ LogoutIsFinal /\ SessionsAreFound)'
  BY <1>6, StepOfACall
     DEF Enter, Entering, EnteringCall, redis, Begun, Owned, LogoutIsFinal, SessionsAreFound
<1>7. ASSUME NEW c \in Threads, Issue(c) PROVE (Owned /\ LogoutIsFinal /\ SessionsAreFound)'
  BY <1>7, StepOfACall
     DEF Issue, Done, Idle, Entering, EnteringCall, base, Owned, LogoutIsFinal, SessionsAreFound
<1>8. ASSUME NEW c \in Threads, Check(c) \/ Touch(c) \/ Read(c)
      PROVE  (Owned /\ LogoutIsFinal /\ SessionsAreFound)'
  BY <1>8, StepOfACall
     DEF Check, Goto, Touch, Touched, Read, Done, Idle, SessionCall, base, redis,
         Owned, LogoutIsFinal, SessionsAreFound
<1>9. ASSUME NEW c \in Threads, Delete(c) PROVE (Owned /\ LogoutIsFinal /\ SessionsAreFound)'
  BY <1>9, StepOfACall DEF Delete, Done, Idle, DeletingCall, base, Owned, LogoutIsFinal, SessionsAreFound
\* The sessions of the player are wiped that the set had, and more may have come
\* since; but the player is not open.
<1>10. ASSUME NEW c \in Threads, Wipe(c) PROVE (Owned /\ LogoutIsFinal /\ SessionsAreFound)'
  BY <1>10, StepOfACall
     DEF Wipe, Done, Idle, WipingCall, base, Begun, Owned, LogoutIsFinal, SessionsAreFound
<1>11. ASSUME NEW s \in Sids, IdlesOut(s) PROVE (Owned /\ LogoutIsFinal /\ SessionsAreFound)'
  BY <1>11 DEF IdlesOut, base, Owned, LogoutIsFinal, SessionsAreFound
<1> QED
  BY <1>1, <1>2, <1>3, <1>4, <1>5, <1>6, <1>7, <1>8, <1>9, <1>10, <1>11 DEF Next, Step

\* What every step keeps (the steps of Sessions!Next).
LEMMA KeepsIInv == IInv /\ [Next]_sessionVars => IInv'
<1>1. IInv /\ UNCHANGED sessionVars => IInv'
  BY DEF sessionVars, base, redis, IInv, Typed, TypeOK, Owned, UsedUp, Alone, Locked, OneOpen, Begun,
         LogoutIsFinal, SessionsAreFound, Entering, Ending, At
<1>2. IInv /\ Next => IInv'
  BY KeepsTyped, KeepsLinks, KeepsAccounts, KeepsSessions DEF IInv
<1> QED
  BY <1>1, <1>2

-----------------------------------------------------------------------------
\* The invariant that the others rest on holds in every state.
THEOREM Inductive == Spec => []IInv
  BY InitIInv, KeepsIInv, PTL DEF Spec

\* Accounts, letters and sessions keep their types (Sessions!TypeOK).
THEOREM TypeCorrect == Spec => []TypeOK
<1>1. IInv => TypeOK
  BY DEF IInv, Typed
<1> QED
  BY Inductive, <1>1, PTL

\* A session that was logged out does not come back (session.js:56).
THEOREM LoggedOutForGood == Spec => []LogoutIsFinal
<1>1. IInv => LogoutIsFinal
  BY DEF IInv
<1> QED
  BY Inductive, <1>1, PTL

\* A deletion finds every session of its player that still lets in (account.js).
THEOREM DeletionFindsAll == Spec => []SessionsAreFound
<1>1. IInv => SessionsAreFound
  BY DEF IInv
<1> QED
  BY Inductive, <1>1, PTL

\* A set whose members are all the same has at most one.
LEMMA OneOfASet ==
  ASSUME NEW S, \A x, y \in S : x = y
  PROVE  Cardinality(S) <= 1
<1>1. CASE S = {}
  BY <1>1, FS_EmptySet
<1>2. CASE S # {}
  <2>1. PICK x \in S : S = {x}
    BY <1>2
  <2> QED
    BY <2>1, FS_Singleton
<1> QED
  BY <1>1, <1>2

\* Whoever opens links and Google at the same time has one account (auth.js:121).
THEOREM AddressHasOneAccount == Spec => []OneAccountPerEmail
<1>1. IInv => OneAccountPerEmail
  <2> SUFFICES ASSUME IInv PROVE OneAccountPerEmail
    OBVIOUS
  <2>1. Cardinality({a \in Accounts : account[a] = "open"}) <= 1
    <3>1. \A a, b \in {x \in Accounts : account[x] = "open"} : a = b
      BY DEF IInv, OneOpen
    <3> QED
      BY <3>1, OneOfASet
  <2> QED
    BY <2>1 DEF IInv, OneOpen, OneAccountPerEmail
<1> QED
  BY Inductive, <1>1, PTL

\* A letter lets in at most the browser that opened it and the tab that asked for
\* it, and neither after it was rejected (auth.js, /auth/verify and /auth/wait).
THEOREM LetterOpensOnce == Spec => []LinkOpensOnce
<1>1. IInv => LinkOpensOnce
  <2> SUFFICES ASSUME IInv, NEW l \in Links
               PROVE  LET by(way) == {e.sid : e \in {e \in entered : e.by = <<way, l>>}} IN
                        /\ Cardinality(by("verify")) <= 1 /\ Cardinality(by("wait")) <= 1
                        /\ link[l].state # "approved" => by("verify") \cup by("wait") = {}
    BY DEF LinkOpensOnce
  <2> DEFINE by(way) == {e.sid : e \in {e \in entered : e.by = <<way, l>>}}
  <2>1. \A s, t \in by("verify") : s = t
    BY DEF IInv, Alone
  <2>2. \A s, t \in by("wait") : s = t
    BY DEF IInv, Alone
  <2>3. link[l].state # "approved" => by("verify") \cup by("wait") = {}
    BY DEF IInv, UsedUp
  <2>4. Cardinality(by("verify")) <= 1 /\ Cardinality(by("wait")) <= 1
    BY <2>1, <2>2, OneOfASet
  <2> QED
    BY <2>3, <2>4
<1> QED
  BY Inductive, <1>1, PTL

-----------------------------------------------------------------------------
(* The wallet, for any prices, any number of tabs and requests, and any rows  *)
(* there may be.  First, sums over the rows of a table.                       *)

\* The shop and the rewards count and add as everybody does.
LEMMA SameCounts ==
  /\ \A S : (Store!IsFiniteSet(S) <=> IsFiniteSet(S)) /\ Store!Cardinality(S) = Cardinality(S)
  /\ \A S : (Reward!IsFiniteSet(S) <=> IsFiniteSet(S)) /\ Reward!Cardinality(S) = Cardinality(S)
<1>1. \A S : Store!IsFiniteSet(S) <=> IsFiniteSet(S)
  BY DEF Store!IsFiniteSet, IsFiniteSet
<1>2. \A S : Reward!IsFiniteSet(S) <=> IsFiniteSet(S)
  BY DEF Reward!IsFiniteSet, IsFiniteSet
<1>3. \A S : Store!Cardinality(S) = Cardinality(S)
  BY DEF Store!Cardinality, Cardinality
<1>4. \A S : Reward!Cardinality(S) = Cardinality(S)
  BY DEF Reward!Cardinality, Cardinality
<1> QED
  BY <1>1, <1>2, <1>3, <1>4

LEMMA SameSum == \A c : Reward!SumFunction(c) = Store!SumFunction(c)
BY Zenon DEF Reward!SumFunction, Reward!SumFunctionOnSet, Reward!FoldFunctionOnSet, Reward!MapThenFoldSet,
             Store!SumFunction, Store!SumFunctionOnSet, Store!FoldFunctionOnSet, Store!MapThenFoldSet

\* A set of naturals that is not empty has a least element.
LEMMA LeastElement ==
  ASSUME NEW T, T \subseteq Nat, T # {}
  PROVE  \E x \in T : \A y \in T : x <= y
<1>1. \E x \in T : \A y \in T : ~(<<y, x>> \in OpToRel(<, Nat))
  BY WFMin, NatLessThanWellFounded
<1>2. OpToRel(<, Nat) = {ss \in Nat \X Nat : ss[1] < ss[2]}
  BY Zenon DEF OpToRel
<1>3. PICK x \in T : \A y \in T : ~(<<y, x>> \in {ss \in Nat \X Nat : ss[1] < ss[2]})
  BY <1>1, <1>2, Zenon
<1>4. \A y \in T : ~(y < x)
  BY <1>3
<1> QED
  BY <1>4

\* Induction over 0..n, for a set of numbers in the place of a predicate.
LEMMA PrefixInduction ==
  ASSUME NEW n \in Nat, NEW P, 0 \in P, \A k \in 1..n : k - 1 \in P => k \in P
  PROVE  \A k \in 0..n : k \in P
<1> DEFINE T == {k \in 0..n : k \notin P}
<1> SUFFICES ASSUME T # {}
             PROVE  FALSE
  OBVIOUS
<1>1. T \subseteq Nat
  OBVIOUS
<1> HIDE DEF T
<1>2. PICK x \in T : \A y \in T : x <= y
  BY <1>1, LeastElement
<1> USE DEF T
<1>3. x \in 1..n /\ x - 1 \in 0..n
  BY <1>2
<1> QED
  BY <1>2, <1>3

\* The sum of a function over a finite set takes one element after the other, in an
\* order that depends on the set alone.
First(s) == CHOOSE x \in s : TRUE

\* What is taken off a finite set.
LEMMA OneLess ==
  ASSUME NEW S, IsFiniteSet(S), NEW s \in SUBSET S
  PROVE  /\ Cardinality(s) \in Nat /\ Cardinality(s) <= Cardinality(S) /\ IsFiniteSet(s)
         /\ s = {} <=> Cardinality(s) = 0
         /\ s # {} => /\ First(s) \in s /\ s \ {First(s)} \in SUBSET S
                      /\ Cardinality(s \ {First(s)}) = Cardinality(s) - 1
<1>1. IsFiniteSet(s) /\ Cardinality(s) \in Nat /\ Cardinality(S) \in Nat /\ Cardinality(s) <= Cardinality(S)
  BY FS_Subset, FS_CardinalityType
<1>2. s = {} <=> Cardinality(s) = 0
  BY <1>1, FS_EmptySet
<1>3. ASSUME s # {} PROVE First(s) \in s /\ Cardinality(s \ {First(s)}) = Cardinality(s) - 1
  <2>1. First(s) \in s
    BY <1>3 DEF First
  <2> QED
    BY <1>1, <2>1, FS_RemoveElement
<1> QED
  BY <1>1, <1>2, <1>3

\* What the sum over each subset is, one element at a time.
LEMMA SumUnfolds ==
  ASSUME NEW S, IsFiniteSet(S), NEW c \in [S -> Int]
  PROVE  \E sum : /\ \A s \in SUBSET S :
                       sum[s] \in Int /\ sum[s] = IF s = {} THEN 0 ELSE c[First(s)] + sum[s \ {First(s)}]
                  /\ Store!SumFunction(c) = sum[S]
<1> DEFINE n == Cardinality(S)
           Upto(k) == {s \in SUBSET S : Cardinality(s) <= k}
           Def(f, s) == IF s = {} THEN 0 ELSE c[First(s)] + f[s \ {First(s)}]
           Is(f, k) == f \in [Upto(k) -> Int] /\ \A s \in Upto(k) : f[s] = Def(f, s)
           P == {k \in 0..n : \E f : Is(f, k)}
           All(f) == [s \in SUBSET S |-> Def(f, s)]
           sum == CHOOSE f : f = All(f)
<1>1. n \in Nat
  BY FS_CardinalityType
<1>2. 0 \in P
  <2> DEFINE z == [s \in Upto(0) |-> 0]
  <2>1. \A s \in Upto(0) : s = {}
    <3>1. \A s \in SUBSET S : Cardinality(s) \in Nat /\ (s = {} <=> Cardinality(s) = 0)
      BY OneLess
    <3> QED
      BY <3>1
  <2>2. Is(z, 0)
    BY <2>1
  <2> HIDE DEF z, Is
  <2> QED
    BY <1>1, <2>2
<1>3. \A k \in 1..n : k - 1 \in P => k \in P
  <2> SUFFICES ASSUME NEW k \in 1..n, NEW f, Is(f, k - 1)
               PROVE  k \in P
    OBVIOUS
  <2> DEFINE g == [s \in Upto(k) |-> IF Cardinality(s) = k THEN Def(f, s) ELSE f[s]]
  <2>1. \A s \in Upto(k) : /\ Cardinality(s) \in Nat
                           /\ Cardinality(s) # k => s \in Upto(k - 1)
                           /\ s # {} => s \ {First(s)} \in Upto(k - 1) /\ First(s) \in S
    <3> SUFFICES ASSUME NEW s \in SUBSET S, Cardinality(s) <= k
                 PROVE  /\ Cardinality(s) \in Nat
                        /\ Cardinality(s) # k => Cardinality(s) <= k - 1
                        /\ s # {} => /\ s \ {First(s)} \in SUBSET S /\ First(s) \in S
                                     /\ Cardinality(s \ {First(s)}) <= k - 1
      OBVIOUS
    <3>1. /\ Cardinality(s) \in Nat
          /\ s # {} => /\ First(s) \in s /\ s \ {First(s)} \in SUBSET S
                       /\ Cardinality(s \ {First(s)}) = Cardinality(s) - 1
      BY OneLess
    <3> QED
      BY <3>1, <1>1
  <2>2. \A s \in Upto(k - 1) : Cardinality(s) # k /\ s \in Upto(k) /\ f[s] \in Int /\ f[s] = Def(f, s)
    BY OneLess, <1>1
  <2>3. \A s \in Upto(k - 1) : g[s] = f[s]
    BY <2>2
  <2>4. \A s \in Upto(k) : g[s] = Def(f, s)
    BY <2>1, <2>2
  <2> HIDE DEF Upto
  <2>5. \A s \in Upto(k) : Def(f, s) \in Int /\ Def(g, s) = Def(f, s)
    <3>1. ASSUME NEW s \in Upto(k) PROVE Def(f, s) \in Int /\ Def(g, s) = Def(f, s)
      <4>1. CASE s # {}
        <5> DEFINE r == s \ {First(s)}
        <5>1. f[r] \in Int /\ g[r] = f[r] /\ c[First(s)] \in Int
          BY <2>1, <2>2, <2>3, <4>1
        <5> HIDE DEF r
        <5>2. Def(f, s) = c[First(s)] + f[r] /\ Def(g, s) = c[First(s)] + g[r]
          BY <4>1 DEF r
        <5> QED
          BY <5>1, <5>2
      <4>2. CASE s = {}
        BY <4>2
      <4> QED
        BY <4>1, <4>2
    <3> QED
      BY <3>1
  <2>6. g \in [Upto(k) -> Int]
    BY <2>1, <2>2, <2>5
  <2>7. Is(g, k)
    BY <2>4, <2>5, <2>6
  <2> HIDE DEF g, Is
  <2> QED
    BY <1>1, <2>7
<1>4. n \in P
  <2> HIDE DEF P, n
  <2>1. \A k \in 0..n : k \in P
    BY <1>1, <1>2, <1>3, PrefixInduction
  <2> QED
    BY <2>1, <1>1
<1>5. PICK f : Is(f, n)
  BY <1>4
<1>6. Upto(n) = SUBSET S
  BY OneLess
<1>7. f = All(f)
  BY <1>5, <1>6
<1>8. sum = All(sum)
  <2> HIDE DEF All
  <2> QED
    BY <1>7
<1>9. Store!SumFunction(c) = sum[S]
  <2>1. DOMAIN c = S
    OBVIOUS
  <2>2. Store!SumFunction(c) = Store!FoldFunctionOnSet(+, 0, c, S)
    BY <2>1, Zenon DEF Store!SumFunction, Store!SumFunctionOnSet
  <2> QED
    BY <2>2, Zenon DEF Store!FoldFunctionOnSet, Store!MapThenFoldSet, First
<1> HIDE DEF sum
<1>10. \A s \in SUBSET S : sum[s] = Def(sum, s)
  <2>1. \A s \in SUBSET S : sum[s] = All(sum)[s]
    BY <1>8
  <2> HIDE DEF Def
  <2> QED
    BY <2>1
<1> DEFINE Q == {k \in 0..n : \A s \in SUBSET S : Cardinality(s) = k => sum[s] \in Int}
<1>11. 0 \in Q
  <2>1. \A s \in SUBSET S : Cardinality(s) = 0 => s = {}
    BY OneLess
  <2> QED
    BY <1>1, <1>10, <2>1
<1>12. \A k \in 1..n : k - 1 \in Q => k \in Q
  <2> SUFFICES ASSUME NEW k \in 1..n, k - 1 \in Q, NEW s \in SUBSET S, Cardinality(s) = k
               PROVE  sum[s] \in Int
    BY <1>1
  <2>1. s # {} /\ First(s) \in S /\ s \ {First(s)} \in SUBSET S /\ Cardinality(s \ {First(s)}) = k - 1
    BY OneLess
  <2>2. sum[s \ {First(s)}] \in Int /\ c[First(s)] \in Int
    BY <2>1
  <2> QED
    BY <1>10, <2>1, <2>2
<1>13. \A s \in SUBSET S : sum[s] \in Int
  <2> HIDE DEF Q
  <2>1. \A k \in 0..n : k \in Q
    BY <1>1, <1>11, <1>12, PrefixInduction
  <2> QED
    <3> SUFFICES ASSUME NEW s \in SUBSET S PROVE sum[s] \in Int
      OBVIOUS
    <3>1. Cardinality(s) \in 0..n
      <4>1. Cardinality(s) \in Nat /\ Cardinality(s) <= Cardinality(S)
        BY OneLess
      <4> QED
        BY <1>1, <4>1
    <3> QED
      BY <2>1, <3>1 DEF Q
<1> QED
  BY <1>9, <1>10, <1>13

\* What one element has more, all have more.
LEMMA SumGrows ==
  ASSUME NEW S, IsFiniteSet(S), NEW c \in [S -> Int], NEW d \in [S -> Int], NEW u \in S,
         \A v \in S \ {u} : d[v] = c[v]
  PROVE  Store!SumFunction(d) = Store!SumFunction(c) + (d[u] - c[u]) /\ Store!SumFunction(c) \in Int
<1> DEFINE n == Cardinality(S)
           more == d[u] - c[u]
<1>1. PICK f : /\ \A s \in SUBSET S : f[s] \in Int /\ f[s] = IF s = {} THEN 0 ELSE c[First(s)] + f[s \ {First(s)}]
               /\ Store!SumFunction(c) = f[S]
  BY SumUnfolds
<1>2. PICK g : /\ \A s \in SUBSET S : g[s] \in Int /\ g[s] = IF s = {} THEN 0 ELSE d[First(s)] + g[s \ {First(s)}]
               /\ Store!SumFunction(d) = g[S]
  BY SumUnfolds
<1>3. n \in Nat /\ more \in Int /\ d[u] = c[u] + more
  BY FS_CardinalityType
<1> HIDE DEF more
<1> DEFINE P == {k \in 0..n : \A s \in SUBSET S : Cardinality(s) = k => g[s] = IF u \in s THEN f[s] + more ELSE f[s]}
<1>4. 0 \in P
  <2>1. \A s \in SUBSET S : Cardinality(s) = 0 => s = {}
    BY OneLess
  <2>2. \A s \in SUBSET S : Cardinality(s) = 0 => f[s] = 0 /\ g[s] = 0 /\ u \notin s
    BY <1>1, <1>2, <2>1
  <2>3. 0 \in 0..n
    BY <1>3
  <2> HIDE DEF n
  <2> QED
    BY <2>2, <2>3
<1>5. \A k \in 1..n : k - 1 \in P => k \in P
  <2> SUFFICES ASSUME NEW k \in 1..n, k - 1 \in P, NEW s \in SUBSET S, Cardinality(s) = k
               PROVE  g[s] = IF u \in s THEN f[s] + more ELSE f[s]
    BY <1>3
  <2> DEFINE x == First(s)
             r == s \ {x}
  <2>1. s # {} /\ x \in s /\ x \in S /\ r \in SUBSET S /\ Cardinality(r) = k - 1
    BY OneLess
  <2>2. g[r] = IF u \in r THEN f[r] + more ELSE f[r]
    BY <2>1
  <2>3. /\ f[s] = c[x] + f[r] /\ g[s] = d[x] + g[r]
        /\ f[r] \in Int /\ c[x] \in Int /\ d[x] \in Int
    BY <1>1, <1>2, <2>1
  <2>4. x # u => d[x] = c[x] /\ (u \in r <=> u \in s)
    BY <2>1
  <2>5. x = u => d[x] = c[x] + more /\ u \notin r /\ u \in s
    BY <1>3, <2>1
  <2> HIDE DEF x, r
  <2> QED
    BY <1>3, <2>2, <2>3, <2>4, <2>5
<1>6. g[S] = f[S] + more
  <2> HIDE DEF P
  <2>1. \A k \in 0..n : k \in P
    BY <1>3, <1>4, <1>5, PrefixInduction
  <2>2. n \in P /\ S \in SUBSET S
    BY <1>3, <2>1
  <2> QED
    BY <2>2 DEF P
<1> QED
  BY <1>1, <1>2, <1>6 DEF more

\* Where nobody has anything, the sum is nothing.
LEMMA SumOfNothing ==
  ASSUME NEW S, IsFiniteSet(S), NEW c \in [S -> Int], \A v \in S : c[v] = 0
  PROVE  Store!SumFunction(c) = 0
<1> DEFINE n == Cardinality(S)
<1>1. PICK f : /\ \A s \in SUBSET S : f[s] \in Int /\ f[s] = IF s = {} THEN 0 ELSE c[First(s)] + f[s \ {First(s)}]
               /\ Store!SumFunction(c) = f[S]
  BY SumUnfolds
<1>2. n \in Nat
  BY FS_CardinalityType
<1> DEFINE P == {k \in 0..n : \A s \in SUBSET S : Cardinality(s) = k => f[s] = 0}
<1>3. 0 \in P
  <2>1. \A s \in SUBSET S : Cardinality(s) = 0 => s = {}
    BY OneLess
  <2>2. \A s \in SUBSET S : Cardinality(s) = 0 => f[s] = 0
    BY <1>1, <2>1
  <2>3. 0 \in 0..n
    BY <1>2
  <2> HIDE DEF n
  <2> QED
    BY <2>2, <2>3
<1>4. \A k \in 1..n : k - 1 \in P => k \in P
  <2> SUFFICES ASSUME NEW k \in 1..n, k - 1 \in P, NEW s \in SUBSET S, Cardinality(s) = k
               PROVE  f[s] = 0
    BY <1>2
  <2>1. s # {} /\ First(s) \in S /\ s \ {First(s)} \in SUBSET S /\ Cardinality(s \ {First(s)}) = k - 1
    BY OneLess
  <2>2. f[s \ {First(s)}] = 0 /\ c[First(s)] = 0
    BY <2>1
  <2> QED
    BY <1>1, <2>1, <2>2
<1>5. f[S] = 0
  <2> HIDE DEF P
  <2>1. \A k \in 0..n : k \in P
    BY <1>2, <1>3, <1>4, PrefixInduction
  <2>2. n \in P /\ S \in SUBSET S
    BY <1>2, <2>1
  <2> QED
    BY <2>2 DEF P
<1> QED
  BY <1>1, <1>5

\* What one element more has, all have more.
LEMMA SumOfMore ==
  ASSUME NEW S, IsFiniteSet(S), NEW e, e \notin S, NEW c \in [S -> Int], NEW d \in [S \cup {e} -> Int],
         \A v \in S : d[v] = c[v]
  PROVE  Store!SumFunction(d) = Store!SumFunction(c) + d[e] /\ Store!SumFunction(c) \in Int
<1> DEFINE T == S \cup {e}
           n == Cardinality(T)
<1>0. IsFiniteSet(T)
  BY FS_AddElement
<1>1. PICK f : /\ \A s \in SUBSET S : f[s] \in Int /\ f[s] = IF s = {} THEN 0 ELSE c[First(s)] + f[s \ {First(s)}]
               /\ Store!SumFunction(c) = f[S]
  BY SumUnfolds
<1>2. PICK g : /\ \A s \in SUBSET T : g[s] \in Int /\ g[s] = IF s = {} THEN 0 ELSE d[First(s)] + g[s \ {First(s)}]
               /\ Store!SumFunction(d) = g[T]
  BY <1>0, SumUnfolds
<1>3. n \in Nat
  BY <1>0, FS_CardinalityType
<1> HIDE DEF n
<1>4. \A s \in SUBSET T : /\ Cardinality(s) \in 0..n /\ (s = {} <=> Cardinality(s) = 0)
                          /\ s # {} => /\ First(s) \in s /\ s \ {First(s)} \in SUBSET T
                                       /\ Cardinality(s \ {First(s)}) = Cardinality(s) - 1
  <2> SUFFICES ASSUME NEW s \in SUBSET T
               PROVE  /\ Cardinality(s) \in 0..n /\ (s = {} <=> Cardinality(s) = 0)
                      /\ s # {} => /\ First(s) \in s /\ s \ {First(s)} \in SUBSET T
                                   /\ Cardinality(s \ {First(s)}) = Cardinality(s) - 1
    OBVIOUS
  <2>1. /\ Cardinality(s) \in Nat /\ Cardinality(s) <= n /\ (s = {} <=> Cardinality(s) = 0)
        /\ s # {} => /\ First(s) \in s /\ s \ {First(s)} \in SUBSET T
                     /\ Cardinality(s \ {First(s)}) = Cardinality(s) - 1
    <3>1. s \in SUBSET T /\ Cardinality(T) = n
      BY DEF n
    <3> HIDE DEF T
    <3> QED
      BY <1>0, <3>1, OneLess
  <2> QED
    BY <1>3, <2>1
\* whichever element is taken first
<1> DEFINE P == {k \in 0..n : \A s \in SUBSET T : Cardinality(s) = k => \A y \in s : g[s] = d[y] + g[s \ {y}]}
<1>5. 0 \in P
  BY <1>3, <1>4
<1>6. \A k \in 1..n : k - 1 \in P => k \in P
  <2> SUFFICES ASSUME NEW k \in 1..n, k - 1 \in P, NEW s \in SUBSET T, Cardinality(s) = k, NEW y \in s
               PROVE  g[s] = d[y] + g[s \ {y}]
    BY <1>3
  <2> DEFINE x == First(s)
             r == s \ {x}
             q == s \ {y}
             m == (s \ {x}) \ {y}
  <2>1. x \in s /\ r \in SUBSET T /\ q \in SUBSET T /\ m \in SUBSET T /\ Cardinality(r) = k - 1
    BY <1>4
  <2>2. g[s] = d[x] + g[r] /\ d[x] \in Int /\ d[y] \in Int /\ g[m] \in Int /\ g[q] \in Int
    BY <1>2, <1>4, <2>1
  <2>3. CASE x = y
    BY <2>2, <2>3
  <2>4. CASE x # y
    <3>1. y \in r /\ x \in q /\ q \ {x} = m
      BY <2>1, <2>4
    <3>2. Cardinality(q) = k - 1
      <4>1. IsFiniteSet(s)
        BY <1>0, FS_Subset
      <4> QED
        BY <4>1, FS_RemoveElement
    <3>3. \A s2 \in SUBSET T : Cardinality(s2) = k - 1 => \A y2 \in s2 : g[s2] = d[y2] + g[s2 \ {y2}]
      OBVIOUS
    <3> HIDE DEF P, x, r, q
    <3>4. g[r] = d[y] + g[r \ {y}]
      BY <2>1, <3>1, <3>3
    <3>5. g[q] = d[x] + g[m]
      BY <2>1, <3>1, <3>2, <3>3
    <3>6. r \ {y} = m
      BY DEF r, x
    <3> HIDE DEF m
    <3>7. g[s] = d[x] + (d[y] + g[m])
      BY <2>2, <3>4, <3>6
    <3>8. g[s] = d[y] + g[q]
      BY <2>2, <3>5, <3>7
    <3> QED
      BY <3>8 DEF q
  <2> QED
    BY <2>3, <2>4
<1>7. g[T] = d[e] + g[S]
  <2> HIDE DEF P
  <2>1. \A k \in 0..n : k \in P
    BY <1>3, <1>5, <1>6, PrefixInduction
  <2>2. n \in P /\ T \in SUBSET T /\ e \in T /\ T \ {e} = S
    BY <1>3, <2>1
  <2>3. g[T] = d[e] + g[T \ {e}]
    BY <2>2 DEF P, n
  <2> QED
    BY <2>2, <2>3
\* and the others have what they had
<1> DEFINE Q == {k \in 0..n : \A s \in SUBSET S : Cardinality(s) = k => g[s] = f[s]}
<1>8. 0 \in Q
  <2>1. \A s \in SUBSET S : s \in SUBSET T /\ (Cardinality(s) = 0 => s = {})
    BY <1>4
  <2> QED
    BY <1>1, <1>2, <1>3, <2>1
<1>9. \A k \in 1..n : k - 1 \in Q => k \in Q
  <2> SUFFICES ASSUME NEW k \in 1..n, k - 1 \in Q, NEW s \in SUBSET S, Cardinality(s) = k
               PROVE  g[s] = f[s]
    BY <1>3
  <2>1. s # {} /\ First(s) \in S /\ s \ {First(s)} \in SUBSET S /\ Cardinality(s \ {First(s)}) = k - 1 /\ s \in SUBSET T
    BY <1>4
  <2>2. g[s \ {First(s)}] = f[s \ {First(s)}] /\ d[First(s)] = c[First(s)]
    BY <2>1
  <2>3. g[s] = d[First(s)] + g[s \ {First(s)}] /\ f[s] = c[First(s)] + f[s \ {First(s)}]
    BY <1>1, <1>2, <2>1
  <2> QED
    BY <2>2, <2>3
<1>10. g[S] = f[S]
  <2> HIDE DEF Q
  <2>1. \A k \in 0..n : k \in Q
    BY <1>3, <1>8, <1>9, PrefixInduction
  <2>2. Cardinality(S) \in 0..n /\ S \in SUBSET S
    BY <1>4
  <2> QED
    BY <2>1, <2>2 DEF Q
<1>11. f[S] \in Int /\ d[e] \in Int
  BY <1>1
<1> QED
  BY <1>1, <1>2, <1>7, <1>10, <1>11

\* A sum of integers is one.
LEMMA SumIsInt ==
  ASSUME NEW S, IsFiniteSet(S), NEW c \in [S -> Int]
  PROVE  Store!SumFunction(c) \in Int
<1>1. PICK f : /\ \A s \in SUBSET S : f[s] \in Int /\ f[s] = IF s = {} THEN 0 ELSE c[First(s)] + f[s \ {First(s)}]
               /\ Store!SumFunction(c) = f[S]
  BY SumUnfolds
<1> QED
  BY <1>1
\* One request goes on, and the rows stay as they are.
LEMMA OneRequestGoesOn ==
  ASSUME Store!ShopInv, UNCHANGED Store!rows, Store!TabsAreTyped',
         NEW c \in Threads, NEW row \in Store!CallRow, x7' = [x7 EXCEPT ![c] = row], Store!CallIsTrue(row),
         Store!HasPurse(row.at) => Store!MayPay,
         Store!HasCrate(row.at) => \A d \in Threads \ {c} : Store!HasCrate(x7[d].at) => x7[d].crate # row.crate
  PROVE  Store!ShopInv'
<1>1. \A d \in Threads : x7'[d] = IF d = c THEN row ELSE x7[d]
  BY DEF Store!ShopInv, Store!Typed
<1>2. Store!Typed'
  BY DEF Store!ShopInv, Store!Typed, Store!rows
<1>3. Store!CallsAreTrue'
  BY <1>1 DEF Store!ShopInv, Store!CallsAreTrue, Store!CallIsTrue, Store!rows
<1>4. Store!OneHasThePurse' /\ Store!OneHasACrate'
  BY <1>1 DEF Store!ShopInv, Store!OneHasThePurse, Store!OneHasACrate, Store!MayPay, Store!HasPurse
<1>5. Store!CratesAreNumbered' /\ Store!WalletAddsUp'
  BY DEF Store!ShopInv, Store!rows, Store!CratesAreNumbered, Store!OpenedCrates, Store!WalletAddsUp, Store!NothingIsOwed, Store!CoinsAddUp, Store!CoinsFound,
         Store!CostOf, Store!BeansAddUp, Store!CratesAddUp
<1> QED
  BY <1>2, <1>3, <1>4, <1>5 DEF Store!ShopInv

\* What a request is when it has not begun, and when it is over.
LEMMA IdleIsTrue ==
  /\ Store!Nothing \in Store!Balances /\ Store!Nothing.silver = 0 /\ Store!Nothing.yellow = 0 /\ Store!Nothing.beans = 0
  /\ Store!Idle \in Store!CallRow /\ Store!CallIsTrue(Store!Idle) /\ ~Store!HasPurse(Store!Idle.at) /\ ~Store!HasCrate(Store!Idle.at)
  /\ [Store!Idle EXCEPT !.at = "done"] \in Store!CallRow /\ [Store!Idle EXCEPT !.at = "done"].at = "done"
BY DEF Store!Idle, Store!Nothing, Store!CallRow, Store!CallIsTrue, Store!HasCrate, Store!HasPurse, Store!Balances, Store!Purses

\* The screens.
LEMMA TabsStayTyped == Store!ShopInv /\ [Store!Next]_(Store!shopVars) => Store!TabsAreTyped'
<1> SUFFICES ASSUME Store!ShopInv, [Store!Next]_(Store!shopVars) PROVE Store!TabsAreTyped'
  OBVIOUS
<1>1. Store!TabsAreTyped /\ Store!Rest \in Store!TabRow /\ Store!Rest.at = "rest"
  BY DEF Store!ShopInv, Store!Typed, Store!Rest, Store!TabRow
<1>2. ASSUME NEW t \in Sids, NEW row \in Store!TabRow, row.at = "busy" => row.call \in Threads, x8' = [x8 EXCEPT ![t] = row]
      PROVE  Store!TabsAreTyped'
  BY <1>1, <1>2 DEF Store!TabsAreTyped
<1>3. ASSUME UNCHANGED x8 PROVE Store!TabsAreTyped'
  BY <1>1, <1>3 DEF Store!TabsAreTyped
<1>4. ASSUME NEW t \in Sids, NEW g \in Store!Goods, Store!Confirm(t, g) PROVE Store!TabsAreTyped'
  <2> DEFINE row == [x8[t] EXCEPT !.at = "confirm", !.what = g]
  <2>1. row \in Store!TabRow /\ row.at = "confirm"
    BY <1>1 DEF Store!TabsAreTyped, Store!TabRow
  <2>2. x8' = [x8 EXCEPT ![t] = row]
    BY <1>4 DEF Store!Confirm
  <2> HIDE DEF row
  <2> QED
    BY <1>2, <2>1, <2>2
<1>5. ASSUME NEW t \in Sids, NEW c \in Threads, Store!Send(t, c) \/ Store!OpenCrate(t, c) PROVE Store!TabsAreTyped'
  <2>1. \E row \in Store!TabRow : row.call = c /\ x8' = [x8 EXCEPT ![t] = row]
    <3>1. CASE Store!Send(t, c)
      <4> DEFINE row == [x8[t] EXCEPT !.at = "busy", !.call = c]
      <4>1. row \in Store!TabRow /\ row.call = c
        BY <1>1 DEF Store!TabsAreTyped, Store!TabRow
      <4>2. x8' = [x8 EXCEPT ![t] = row]
        BY <3>1 DEF Store!Send
      <4> HIDE DEF row
      <4> QED
        BY <4>1, <4>2
    <3>2. CASE Store!OpenCrate(t, c)
      <4> DEFINE row == [at |-> "busy", what |-> "open", call |-> c]
      <4>1. row \in Store!TabRow /\ row.call = c
        BY DEF Store!TabRow
      <4>2. x8' = [x8 EXCEPT ![t] = row]
        BY <3>2 DEF Store!OpenCrate
      <4> HIDE DEF row
      <4> QED
        BY <4>1, <4>2
    <3> QED
      BY <1>5, <3>1, <3>2
  <2> QED
    BY <1>2, <2>1
<1>6. ASSUME NEW t \in Sids, Store!Cancel(t) \/ Store!Answered(t) \/ Store!GivesUp(t) PROVE Store!TabsAreTyped'
  BY <1>1, <1>2, <1>6 DEF Store!Cancel, Store!Answered, Store!GivesUp
<1>7. ASSUME NEW c \in Threads, \/ \E n \in 1..MCStart.beans : Store!Spend(c, n)
                              \/ Store!Give(c) \/ Store!Pick(c) \/ Store!Opened(c) \/ Store!RollsBack(c) \/ Store!Dropped(c)
                              \/ \E k \in Garments, coins \in Loot : Store!Roll(c, k, coins)
      PROVE  UNCHANGED x8
  BY <1>7 DEF Store!Spend, Store!Give, Store!Pick, Store!Opened, Store!RollsBack, Store!Dropped, Store!Roll
<1> QED
  BY <1>3, <1>4, <1>5, <1>6, <1>7 DEF Store!Next, Store!shopVars

\* What the price is, and that it can be paid.
LEMMA CostsAreThePrice ==
  ASSUME Store!ConstantsAreSound, x1 \in Store!Balances, \A p \in Store!Purses : x1[p] >= 0,
         NEW what \in Store!Goods, NEW n \in Nat, Store!Enough(what, n)
  PROVE  /\ Store!Costs(what, n) \in Store!Balances /\ Store!IsPriceOf(what, Store!Costs(what, n))
         /\ \A p \in Store!Purses : x1[p] + Store!Costs(what, n)[p] >= 0
<1> USE DEF Store!ConstantsAreSound, Store!Balances, Store!Purses, Store!Goods, Store!ForCoins, Store!ForBeans, Store!IsPriceOf, Store!Enough
<1>1. CASE what \in Store!ForCoins
  <2> DEFINE price == MCPriceOf[what]
             silver == Store!Min({x1.silver, price})
  <2>1. price \in Nat
    BY <1>1
  <2>2. silver \in Int /\ silver <= x1.silver /\ silver <= price /\ silver \in {x1.silver, price}
    BY <2>1 DEF Store!Min
  <2>3. Store!Costs(what, n) = [silver |-> -silver, yellow |-> silver - price, beans |-> 0]
    BY <1>1, Zenon DEF Store!Costs, Store!Coins
  <2> HIDE DEF price, silver
  <2> DEFINE d == [silver |-> -silver, yellow |-> silver - price, beans |-> 0]
  <2>4. d \in Store!Balances /\ d.silver = -silver /\ d.yellow = silver - price /\ d.beans = 0
    BY <2>1, <2>2
  <2>5. x1.silver + x1.yellow >= price
    BY <1>1 DEF price
  <2>6. x1.silver >= 0 /\ x1.yellow >= 0 /\ x1.beans >= 0
        /\ x1.silver \in Int /\ x1.yellow \in Int /\ x1.beans \in Int
    OBVIOUS
  <2> HIDE DEF d
  <2>7. Store!IsPriceOf(what, d)
    BY <1>1, <2>1, <2>2, <2>4 DEF price
  <2>8. \A p \in Store!Purses : x1[p] + d[p] >= 0
    BY <2>1, <2>2, <2>4, <2>5, <2>6
  <2> QED
    BY <2>3, <2>4, <2>7, <2>8 DEF d
<1>2. CASE what = "exchange"
  <2> DEFINE d == [silver |-> 0, yellow |-> n * Rate, beans |-> -n]
  <2>1. Store!Costs(what, n) = d
    BY <1>2 DEF Store!Costs
  <2>2. n * Rate \in Nat
    OBVIOUS
  <2>3. d \in Store!Balances /\ d.silver = 0 /\ d.yellow = n * Rate /\ d.beans = -n
    BY <2>2
  <2> HIDE DEF d
  <2>4. x1.beans >= n
    BY <1>2
  <2>5. Store!IsPriceOf(what, d)
    BY <1>2, <2>3
  <2>6. \A p \in Store!Purses : x1[p] + d[p] >= 0
    BY <2>2, <2>3, <2>4
  <2> QED
    BY <2>1, <2>3, <2>5, <2>6
<1>3. CASE what = "sapling_beans"
  <2> DEFINE d == [silver |-> 0, yellow |-> 0, beans |-> -MCPriceOf[what]]
  <2>1. Store!Costs(what, n) = d
    BY <1>3 DEF Store!Costs
  <2>2. MCPriceOf[what] \in Nat /\ x1.beans >= MCPriceOf[what]
    BY <1>3
  <2>3. d \in Store!Balances /\ d.silver = 0 /\ d.yellow = 0 /\ d.beans = -MCPriceOf[what]
    BY <2>2
  <2> HIDE DEF d
  <2>4. Store!IsPriceOf(what, d)
    BY <1>3, <2>3
  <2>5. \A p \in Store!Purses : x1[p] + d[p] >= 0
    BY <2>2, <2>3
  <2> QED
    BY <2>1, <2>3, <2>4, <2>5
<1> QED
  BY <1>1, <1>2, <1>3

\* The rows of the shop with the requests of before.
LEMMA NobodyGoesOn ==
  ASSUME Store!ShopInv, UNCHANGED <<Store!rows, x7>>, Store!TabsAreTyped'
  PROVE  Store!ShopInv'
<1>1. Store!Typed'
  BY DEF Store!ShopInv, Store!Typed, Store!rows
<1>2. Store!CallsAreTrue' /\ Store!OneHasThePurse' /\ Store!OneHasACrate'
  BY DEF Store!ShopInv, Store!CallsAreTrue, Store!CallIsTrue, Store!OneHasThePurse, Store!OneHasACrate, Store!rows
<1>3. Store!CratesAreNumbered' /\ Store!WalletAddsUp'
  BY DEF Store!ShopInv, Store!rows, Store!CratesAreNumbered, Store!OpenedCrates, Store!WalletAddsUp, Store!NothingIsOwed, Store!CoinsAddUp, Store!CoinsFound,
         Store!CostOf, Store!BeansAddUp, Store!CratesAddUp
<1> QED
  BY <1>1, <1>2, <1>3 DEF Store!ShopInv

\* A request that is over, or that nobody waits for, has neither purse nor crate.
LEMMA RequestEnds ==
  ASSUME Store!ShopInv, UNCHANGED Store!rows, Store!TabsAreTyped', NEW c \in Threads, NEW row \in {Store!Idle, [Store!Idle EXCEPT !.at = "done"]},
         x7' = [x7 EXCEPT ![c] = row]
  PROVE  Store!ShopInv'
<1>1. row \in Store!CallRow /\ Store!CallIsTrue(row) /\ ~Store!HasPurse(row.at) /\ ~Store!HasCrate(row.at)
  BY IdleIsTrue DEF Store!CallIsTrue, Store!HasPurse, Store!HasCrate
<1> QED
  BY <1>1, OneRequestGoesOn

\* What a tab sends, it has not begun.
LEMMA RequestBegins ==
  ASSUME Store!ShopInv, UNCHANGED Store!rows, Store!TabsAreTyped', NEW c \in Threads, NEW what \in Store!Goods \cup {"open", None},
         x7' = [x7 EXCEPT ![c] = [Store!Idle EXCEPT !.at = "begins", !.what = what]]
  PROVE  Store!ShopInv'
<1> DEFINE row == [Store!Idle EXCEPT !.at = "begins", !.what = what]
<1>1. row \in Store!CallRow /\ row.at = "begins" /\ row.delta = Store!Nothing
  BY IdleIsTrue DEF Store!Idle, Store!CallRow
<1> HIDE DEF row
<1>2. Store!CallIsTrue(row) /\ ~Store!HasPurse(row.at) /\ ~Store!HasCrate(row.at)
  BY <1>1 DEF Store!CallIsTrue, Store!HasPurse, Store!HasCrate
<1>3. x7' = [x7 EXCEPT ![c] = row]
  BY DEF row
<1> QED
  BY <1>1, <1>2, <1>3, OneRequestGoesOn

\* The rows do not change by what is done on the screen.
LEMMA TabStepKeepsInv ==
  ASSUME Store!ShopInv, Store!TabsAreTyped', NEW t \in Sids,
         \/ \E g \in Store!Goods : Store!Confirm(t, g)
         \/ Store!Cancel(t) \/ Store!Answered(t) \/ Store!GivesUp(t)
         \/ \E c \in Threads : Store!Send(t, c) \/ Store!OpenCrate(t, c)
  PROVE  Store!ShopInv'
<1>1. ASSUME NEW g \in Store!Goods, Store!Confirm(t, g) PROVE Store!ShopInv'
  BY <1>1, NobodyGoesOn DEF Store!Confirm
<1>2. ASSUME Store!Cancel(t) \/ Store!GivesUp(t) PROVE Store!ShopInv'
  BY <1>2, NobodyGoesOn DEF Store!Cancel, Store!GivesUp
<1>3. ASSUME Store!Answered(t) PROVE Store!ShopInv'
  <2>1. x8[t].call \in Threads
    BY <1>3 DEF Store!ShopInv, Store!Typed, Store!TabsAreTyped, Store!Answered
  <2> QED
    BY <1>3, <2>1, RequestEnds DEF Store!Answered
<1>4. ASSUME NEW c \in Threads, Store!Send(t, c) PROVE Store!ShopInv'
  <2>1. x8[t].what \in Store!Goods \cup {"open", None}
    BY <1>4 DEF Store!ShopInv, Store!Typed, Store!TabsAreTyped, Store!TabRow
  <2> QED
    BY <1>4, <2>1, RequestBegins DEF Store!Send
<1>5. ASSUME NEW c \in Threads, Store!OpenCrate(t, c) PROVE Store!ShopInv'
  BY <1>5, RequestBegins DEF Store!OpenCrate
<1> QED
  BY <1>1, <1>2, <1>3, <1>4, <1>5

\* spendCoins and its like take the row of the player, and the price is there.
LEMMA SpendKeepsInv ==
  ASSUME Store!ConstantsAreSound, Store!ShopInv, Store!TabsAreTyped', NEW c \in Threads, NEW n \in 1..MCStart.beans, Store!Spend(c, n)
  PROVE  Store!ShopInv'
<1>1. x7[c] \in Store!CallRow /\ x7[c].what \in Store!Goods /\ Store!CallIsTrue(x7[c]) /\ x7[c].at = "begins"
  BY DEF Store!ShopInv, Store!Typed, Store!CallsAreTrue, Store!Spend
<1>2. CASE Store!Enough(x7[c].what, n)
  <2> DEFINE row == [x7[c] EXCEPT !.at = "spent", !.delta = Store!Costs(x7[c].what, n)]
             d == Store!Costs(x7[c].what, n)
  <2>1. n \in Nat /\ x1 \in Store!Balances /\ \A p \in Store!Purses : x1[p] >= 0
    <3>1. MCStart.beans \in Int
      BY DEF Store!ConstantsAreSound, Store!Balances, Store!Purses
    <3> QED
      BY <3>1 DEF Store!ShopInv, Store!Typed, Store!WalletAddsUp, Store!NothingIsOwed, Store!Balances
  <2>2. /\ d \in Store!Balances /\ Store!IsPriceOf(x7[c].what, d)
        /\ \A p \in Store!Purses : x1[p] + d[p] >= 0
    BY <1>1, <1>2, <2>1, CostsAreThePrice
  <2>3. x7' = [x7 EXCEPT ![c] = row]
    BY <1>2 DEF Store!Spend
  <2>4. UNCHANGED Store!rows /\ Store!MayPay
    BY DEF Store!Spend
  <2> HIDE DEF d
  <2>5. row = [x7[c] EXCEPT !.at = "spent", !.delta = d]
    BY DEF d
  <2> HIDE DEF row
  <2>6. row \in Store!CallRow /\ row.at = "spent" /\ row.delta = d /\ row.what = x7[c].what
    BY <1>1, <2>2, <2>5 DEF Store!CallRow
  <2>7. Store!CallIsTrue(row) /\ ~Store!HasCrate(row.at)
    BY <1>1, <2>2, <2>6 DEF Store!CallIsTrue, Store!HasCrate
  <2> QED
    BY <2>3, <2>4, <2>6, <2>7, OneRequestGoesOn
<1>3. CASE ~Store!Enough(x7[c].what, n)
  <2> DEFINE row == [x7[c] EXCEPT !.at = "done"]
  <2>1. x7' = [x7 EXCEPT ![c] = row] /\ UNCHANGED Store!rows
    BY <1>3 DEF Store!Spend
  <2>2. row \in Store!CallRow /\ row.at = "done"
    BY <1>1 DEF Store!CallRow
  <2> HIDE DEF row
  <2>3. Store!CallIsTrue(row) /\ ~Store!HasPurse(row.at) /\ ~Store!HasCrate(row.at)
    BY <2>2 DEF Store!CallIsTrue, Store!HasPurse, Store!HasCrate
  <2> QED
    BY <2>1, <2>2, <2>3, OneRequestGoesOn
<1> QED
  BY <1>2, <1>3

\* A crate is picked by nobody else.
LEMMA PickKeepsInv ==
  ASSUME Store!ConstantsAreSound, Store!ShopInv, Store!TabsAreTyped', NEW c \in Threads, Store!Pick(c)
  PROVE  Store!ShopInv'
<1>1. x7[c] \in Store!CallRow /\ Store!CallIsTrue(x7[c]) /\ x7[c].at = "begins"
  BY DEF Store!ShopInv, Store!Typed, Store!CallsAreTrue, Store!Pick
<1>2. CASE Store!Free = {}
  <2> DEFINE row == [x7[c] EXCEPT !.at = "done"]
  <2>1. x7' = [x7 EXCEPT ![c] = row] /\ UNCHANGED Store!rows
    BY <1>2 DEF Store!Pick
  <2>2. row \in Store!CallRow /\ row.at = "done"
    BY <1>1 DEF Store!CallRow
  <2> HIDE DEF row
  <2>3. Store!CallIsTrue(row) /\ ~Store!HasPurse(row.at) /\ ~Store!HasCrate(row.at)
    BY <2>2 DEF Store!CallIsTrue, Store!HasPurse, Store!HasCrate
  <2> QED
    BY <2>1, <2>2, <2>3, OneRequestGoesOn
<1>3. CASE Store!Free # {}
  <2> DEFINE crate == Store!Min(Store!Free)
             row == [x7[c] EXCEPT !.at = "picked", !.crate = crate]
  <2>1. Store!Free \subseteq Nat
    BY DEF Store!Free, Store!ShopInv, Store!Typed, Store!ConstantsAreSound
  <2>2. crate \in Store!Free
    <3>1. \E x \in Store!Free : \A y \in Store!Free : x <= y
      BY <1>3, <2>1, LeastElement
    <3> QED
      BY <3>1 DEF Store!Min
  <2>3. x7' = [x7 EXCEPT ![c] = row] /\ UNCHANGED Store!rows
    BY <1>3 DEF Store!Pick
  <2> HIDE DEF crate
  <2>4. crate \in Crates /\ crate \in x4 /\ \A d \in Threads : x7[d].crate # crate
    BY <2>2 DEF Store!Free, Store!ShopInv, Store!Typed
  <2>5. row \in Store!CallRow /\ row.at = "picked" /\ row.crate = crate /\ row.delta = x7[c].delta
    BY <1>1, <2>4 DEF Store!CallRow
  <2> HIDE DEF row
  <2>6. Store!CallIsTrue(row) /\ ~Store!HasPurse(row.at)
    BY <1>1, <2>4, <2>5 DEF Store!CallIsTrue, Store!HasPurse, Store!HasCrate
  <2> QED
    BY <2>3, <2>4, <2>5, <2>6, OneRequestGoesOn
<1> QED
  BY <1>2, <1>3

\* The coins of a crate wait for the row of the player.
LEMMA RollKeepsInv ==
  ASSUME Store!ConstantsAreSound, Store!ShopInv, Store!TabsAreTyped', NEW c \in Threads, NEW kind \in Garments, NEW coins \in Loot,
         Store!Roll(c, kind, coins)
  PROVE  Store!ShopInv'
<1> DEFINE d == [Store!Nothing EXCEPT !.yellow = coins]
           row == [x7[c] EXCEPT !.at = "coined", !.kind = kind, !.delta = d]
<1>1. x7[c] \in Store!CallRow /\ Store!CallIsTrue(x7[c]) /\ x7[c].at = "picked"
  BY DEF Store!ShopInv, Store!Typed, Store!CallsAreTrue, Store!Roll
<1>2. x7[c].delta = Store!Nothing /\ x7[c].crate \in x4
  BY <1>1 DEF Store!CallIsTrue, Store!HasCrate
<1>3. x7' = [x7 EXCEPT ![c] = row] /\ UNCHANGED Store!rows /\ Store!MayPay
  <2>1. [x7[c] EXCEPT !.at = "coined", !.kind = kind, !.delta.yellow = coins] = row
    BY <1>2
  <2> QED
    BY <2>1 DEF Store!Roll
<1>4. d \in Store!Balances /\ d.silver = 0 /\ d.beans = 0 /\ d.yellow = coins
  BY DEF Store!Nothing, Store!Balances, Store!Purses, Store!ConstantsAreSound
<1> HIDE DEF d
<1>5. row \in Store!CallRow /\ row.at = "coined" /\ row.kind = kind /\ row.delta = d /\ row.crate = x7[c].crate
  BY <1>1, <1>4 DEF Store!CallRow
<1> HIDE DEF row
<1>6. Store!CallIsTrue(row)
  BY <1>2, <1>4, <1>5 DEF Store!CallIsTrue, Store!HasCrate
<1>7. \A e \in Threads \ {c} : Store!HasCrate(x7[e].at) => x7[e].crate # row.crate
  BY <1>1, <1>5 DEF Store!ShopInv, Store!OneHasACrate, Store!HasCrate
<1> QED
  BY <1>3, <1>5, <1>6, <1>7, OneRequestGoesOn

\* A rollback leaves nothing.
LEMMA CallEndsKeepsInv ==
  ASSUME Store!ShopInv, Store!TabsAreTyped', NEW c \in Threads, Store!RollsBack(c) \/ Store!Dropped(c)
  PROVE  Store!ShopInv'
BY RequestEnds DEF Store!RollsBack, Store!Dropped

\* What the rows say of the balances, apart from the transactions.
LEMMA BalancesMove ==
  ASSUME Store!ShopInv, NEW d \in Store!Balances, \A p \in Store!Purses : x1[p] + d[p] >= 0,
         x1' = Store!Sum(x1, d), x2' = Store!Sum(x2, d), Store!ConstantsAreSound
  PROVE  /\ x1' \in Store!Balances /\ x2' \in Store!Balances /\ Store!NothingIsOwed'
         /\ \A p \in Store!Purses : /\ x1'[p] = x1[p] + d[p]
                              /\ x1[p] \in Int /\ d[p] \in Int /\ MCStart[p] \in Int
<1>1. x1 \in Store!Balances /\ x2 \in Store!Balances /\ Store!NothingIsOwed /\ MCStart \in Store!Balances
  BY DEF Store!ShopInv, Store!Typed, Store!WalletAddsUp, Store!ConstantsAreSound
<1>2. \A p \in Store!Purses : /\ x1'[p] = x1[p] + d[p] /\ x2'[p] = x2[p] + d[p]
                        /\ x1[p] \in Int /\ d[p] \in Int /\ x2[p] \in Int /\ MCStart[p] \in Int
  BY <1>1 DEF Store!Sum, Store!Balances
<1>3. x1' \in Store!Balances /\ x2' \in Store!Balances
  BY <1>1 DEF Store!Sum, Store!Balances
<1>4. Store!NothingIsOwed'
  BY <1>1, <1>2, <1>3 DEF Store!NothingIsOwed, Store!Balances
<1> QED
  BY <1>2, <1>3, <1>4

\* A request that had the purse, and its crate if it had one, is over.
LEMMA TransactionEnds ==
  ASSUME Store!ShopInv, NEW c \in Threads, Store!HasPurse(x7[c].at),
         x7' = [x7 EXCEPT ![c] = [Store!Idle EXCEPT !.at = "done"]],
         \A d \in Threads \ {c} : Store!HasCrate(x7[d].at) => x7[d].crate \in x4'
  PROVE  Store!CallsAreTrue' /\ Store!OneHasThePurse' /\ Store!OneHasACrate' /\ x7' \in [Threads -> Store!CallRow]
<1> DEFINE row == [Store!Idle EXCEPT !.at = "done"]
<1>1. row \in Store!CallRow /\ row.at = "done"
  BY IdleIsTrue
<1> HIDE DEF row
<1>2. \A d \in Threads : x7'[d] = IF d = c THEN row ELSE x7[d]
  BY DEF Store!ShopInv, Store!Typed, row
<1>3. x7' \in [Threads -> Store!CallRow]
  BY <1>1 DEF Store!ShopInv, Store!Typed, row
<1>4. \A d \in Threads \ {c} : ~Store!HasPurse(x7[d].at)
  BY DEF Store!ShopInv, Store!OneHasThePurse
<1>5. Store!CallsAreTrue'
  <2> SUFFICES ASSUME NEW d \in Threads PROVE Store!CallIsTrue(x7[d])'
    BY DEF Store!CallsAreTrue
  <2>1. CASE d = c
    BY <1>1, <1>2, <2>1 DEF Store!CallIsTrue, Store!HasCrate
  <2>2. CASE d # c
    <3>1. x7'[d] = x7[d] /\ Store!CallIsTrue(x7[d]) /\ ~Store!HasPurse(x7[d].at)
      BY <1>2, <1>4, <2>2 DEF Store!ShopInv, Store!CallsAreTrue
    <3> QED
      BY <2>2, <3>1 DEF Store!CallIsTrue, Store!HasPurse, Store!HasCrate
  <2> QED
    BY <2>1, <2>2
<1>6. Store!OneHasThePurse' /\ Store!OneHasACrate'
  BY <1>1, <1>2, <1>4 DEF Store!ShopInv, Store!OneHasThePurse, Store!OneHasACrate, Store!HasPurse, Store!HasCrate
<1> QED
  BY <1>3, <1>5, <1>6

\* One more of a good, and beans less.
LEMMA OneMore ==
  /\ \A a, b, p \in Int : (a + b) * p = a * p + b * p
  /\ \A a, b, p \in Int : (a + -b) * (-p) = a * (-p) + b * p
<1>1. \A a, b, p \in Int : (a + b) * p = a * p + b * p
  OBVIOUS
<1>2. \A b, p \in Int : (-b) * (-p) = b * p /\ -b \in Int /\ -p \in Int
  OBVIOUS
<1>3. \A a, b, p \in Int : (a + -b) * (-p) = a * (-p) + (-b) * (-p)
  BY <1>1, <1>2
<1> QED
  BY <1>1, <1>2, <1>3

\* The crates can be counted.
LEMMA RowsAreFinite ==
  ASSUME Store!ConstantsAreSound, Store!ShopInv
  PROVE  /\ IsFiniteSet(x4) /\ IsFiniteSet(x5)
         /\ Cardinality(x4) \in Nat /\ Cardinality(x5) \in Nat
<1>1. IsFiniteSet(x4) /\ IsFiniteSet(x5)
  BY FS_Subset, SameCounts DEF Store!ConstantsAreSound, Store!ShopInv, Store!Typed
<1> QED
  BY <1>1, FS_CardinalityType

\* What was charged is given: coins, beans and crates add up again.
LEMMA GiveKeepsInv ==
  ASSUME Store!ConstantsAreSound, Store!ShopInv, Store!TabsAreTyped', NEW c \in Threads, Store!Give(c)
  PROVE  Store!ShopInv'
<1> DEFINE what == x7[c].what
           d == x7[c].delta
           more == IF what = "exchange" THEN -d.beans ELSE 1
           crates == Store!NewCrate(what)
<1>1. /\ what \in Store!Goods /\ Store!IsPriceOf(what, d) /\ d \in Store!Balances
      /\ \A p \in Store!Purses : x1[p] + d[p] >= 0
      /\ Store!HasPurse(x7[c].at)
  BY DEF Store!Give, Store!ShopInv, Store!Typed, Store!CallsAreTrue, Store!CallIsTrue, Store!CallRow, Store!HasPurse
<1>2. /\ x1' = Store!Sum(x1, d) /\ x2' = Store!Sum(x2, d)
      /\ x3' = [x3 EXCEPT ![what] = @ + more]
      /\ x4' = x4 \cup crates /\ crates \subseteq Crates
      /\ x7' = [x7 EXCEPT ![c] = [Store!Idle EXCEPT !.at = "done"]]
      /\ UNCHANGED <<x5, x6>>
  BY DEF Store!Give
<1> HIDE DEF what, d, crates
<1>3. /\ x1' \in Store!Balances /\ x2' \in Store!Balances /\ Store!NothingIsOwed'
      /\ \A p \in Store!Purses : /\ x1'[p] = x1[p] + d[p]
                           /\ x1[p] \in Int /\ d[p] \in Int /\ MCStart[p] \in Int
  BY <1>1, <1>2, BalancesMove
<1>4. more \in Nat
  BY <1>1, <1>3 DEF Store!IsPriceOf, Store!Purses
<1>5. Store!CallsAreTrue' /\ Store!OneHasThePurse' /\ Store!OneHasACrate' /\ x7' \in [Threads -> Store!CallRow]
  <2>1. \A e \in Threads : Store!HasCrate(x7[e].at) => x7[e].crate \in x4'
    BY <1>2 DEF Store!ShopInv, Store!CallsAreTrue, Store!CallIsTrue
  <2> QED
    BY <1>1, <1>2, <2>1, TransactionEnds
<1> HIDE DEF more
<1>6. x3 \in [Store!Goods -> Nat] /\ \A g \in Store!Goods : x3[g] \in Nat /\ x3'[g] = IF g = what THEN x3[g] + more ELSE x3[g]
  BY <1>2 DEF Store!ShopInv, Store!Typed
<1>7. Store!Typed'
  <2>1. x3' \in [Store!Goods -> Nat]
    BY <1>1, <1>2, <1>4, <1>6
  <2>2. x4' \subseteq Crates
    BY <1>2 DEF Store!ShopInv, Store!Typed
  <2> QED
    BY <1>2, <1>3, <1>5, <2>1, <2>2 DEF Store!ShopInv, Store!Typed
<1>8. /\ Cardinality(x4') = Cardinality(x4) + (IF what = "crate" THEN 1 ELSE 0)
      /\ Store!CratesAreNumbered'
  <2> DEFINE n == Cardinality(x4) + Cardinality(x5)
  <2>1. /\ IsFiniteSet(x4) /\ Cardinality(x4) \in Nat /\ Cardinality(x5) \in Nat
        /\ x4 \cup Store!OpenedCrates = 1..n /\ x4 \cap Store!OpenedCrates = {}
    BY RowsAreFinite, SameCounts DEF Store!ShopInv, Store!CratesAreNumbered
  <2>2. Store!OpenedCrates' = Store!OpenedCrates /\ x5' = x5
    BY <1>2 DEF Store!OpenedCrates
  <2>3. CASE what = "crate"
    <3>1. x4' = x4 \cup {n + 1} /\ n + 1 \notin x4 /\ n + 1 \notin Store!OpenedCrates
      BY <1>2, <2>1, <2>3, SameCounts DEF crates, Store!NewCrate
    <3>2. Cardinality(x4') = Cardinality(x4) + 1
      BY <2>1, <3>1, FS_AddElement
    <3>3. x4' \cup Store!OpenedCrates = 1..(n + 1) /\ x4' \cap Store!OpenedCrates = {}
      BY <2>1, <3>1
    <3>4. Cardinality(x4') + Cardinality(x5) = n + 1
      BY <2>1, <3>2
    <3> QED
      BY <2>2, <2>3, <3>2, <3>3, <3>4, SameCounts DEF Store!CratesAreNumbered
  <2>4. CASE what # "crate"
    <3>1. x4' = x4
      BY <1>2, <2>4 DEF crates, Store!NewCrate
    <3> QED
      BY <2>1, <2>2, <2>4, <3>1, SameCounts DEF Store!CratesAreNumbered
  <2> QED
    BY <2>3, <2>4
<1>9. Store!CratesAddUp'
  <2>1. x3["crate"] = Cardinality(x4) + Cardinality(x5) /\ Store!SumFunction(x6) = Cardinality(x5)
    BY SameCounts DEF Store!ShopInv, Store!WalletAddsUp, Store!CratesAddUp
  <2>2. x3'["crate"] = x3["crate"] + IF what = "crate" THEN 1 ELSE 0
    BY <1>6 DEF more, Store!Goods, Store!ForCoins
  <2> QED
    BY <1>2, <1>8, <2>1, <2>2, RowsAreFinite, SameCounts DEF Store!CratesAddUp
<1>10. Store!BeansAddUp'
  <2>1. x1.beans + x3["sapling_beans"] * MCPriceOf["sapling_beans"] + x3["exchange"] = MCStart.beans
    BY DEF Store!ShopInv, Store!WalletAddsUp, Store!BeansAddUp, Store!CostOf
  <2>2. /\ x1'.beans = x1.beans + d.beans
        /\ {x1.beans, d.beans, MCStart.beans} \subseteq Int
    BY <1>3 DEF Store!Purses
  <2>3. MCPriceOf["sapling_beans"] \in Nat
    BY DEF Store!ConstantsAreSound
  <2>4. /\ x3["sapling_beans"] \in Nat /\ x3["exchange"] \in Nat
        /\ x3'["sapling_beans"] = x3["sapling_beans"] + (IF what = "sapling_beans" THEN 1 ELSE 0)
        /\ x3'["exchange"] = x3["exchange"] + (IF what = "exchange" THEN -d.beans ELSE 0)
    BY <1>6, <2>2 DEF more, Store!Goods, Store!ForBeans
  <2>5. x3'["sapling_beans"] * MCPriceOf["sapling_beans"]
          = x3["sapling_beans"] * MCPriceOf["sapling_beans"]
            + (IF what = "sapling_beans" THEN MCPriceOf["sapling_beans"] ELSE 0)
    BY <2>3, <2>4, OneMore
  <2>6. /\ x3["sapling_beans"] * MCPriceOf["sapling_beans"] \in Int
        /\ d.beans = IF what = "sapling_beans" THEN -MCPriceOf["sapling_beans"]
                     ELSE IF what = "exchange" THEN d.beans ELSE 0
    BY <1>1, <2>3, <2>4 DEF Store!IsPriceOf, Store!Goods, Store!ForCoins, Store!ForBeans
  <2>7. x1'.beans + x3'["sapling_beans"] * MCPriceOf["sapling_beans"] + x3'["exchange"] = MCStart.beans
    BY <2>1, <2>2, <2>3, <2>4, <2>5, <2>6
  <2> QED
    BY <2>7 DEF Store!BeansAddUp, Store!CostOf
<1>11. Store!CoinsAddUp'
  <2> DEFINE cost(g) == x3[g] * IF g = "exchange" THEN -Rate ELSE MCPriceOf[g]
             cost2(g) == x3'[g] * IF g = "exchange" THEN -Rate ELSE MCPriceOf[g]
             price == IF what = "exchange" THEN d.beans * Rate ELSE MCPriceOf[what]
  <2>1. /\ x1'.silver = x1.silver + d.silver /\ x1'.yellow = x1.yellow + d.yellow
        /\ {x1.silver, d.silver, MCStart.silver, x1.yellow, d.yellow, MCStart.yellow, d.beans} \subseteq Int
    BY <1>3 DEF Store!Purses
  <2>2. \A g \in Store!Goods \ {"exchange"} : MCPriceOf[g] \in Nat
    BY DEF Store!ConstantsAreSound, Store!Goods, Store!ForCoins, Store!ForBeans
  <2>3. Rate \in Nat
    BY DEF Store!ConstantsAreSound
  <2>4. ASSUME NEW g \in Store!Goods
        PROVE  cost(g) \in Int /\ price \in Int /\ cost2(g) = cost(g) + IF g = what THEN price ELSE 0
    <3>1. CASE g = "exchange"
      <4>1. cost(g) = x3[g] * (-Rate) /\ cost2(g) = x3'[g] * (-Rate)
        BY <3>1
      <4>2. g = what => (x3[g] + -d.beans) * (-Rate) = x3[g] * (-Rate) + d.beans * Rate
        <5>1. x3[g] \in Int /\ d.beans \in Int /\ Rate \in Int
          BY <1>6, <2>1, <2>3
        <5> QED
          BY <5>1, OneMore
      <4>3. x3'[g] = IF g = what THEN x3[g] + -d.beans ELSE x3[g]
        BY <1>6, <3>1 DEF more
      <4>4. x3[g] * (-Rate) \in Int /\ d.beans * Rate \in Int /\ price \in Int
        BY <1>1, <1>6, <2>1, <2>2, <2>3
      <4>5. g = what => price = d.beans * Rate
        BY <3>1
      <4> HIDE DEF cost, cost2, price
      <4> QED
        BY <4>1, <4>2, <4>3, <4>4, <4>5
    <3>2. CASE g # "exchange"
      <4> DEFINE p == MCPriceOf[g]
      <4>1. cost(g) = x3[g] * p /\ cost2(g) = x3'[g] * p
        BY <3>2
      <4>2. p \in Int /\ x3[g] \in Int /\ price \in Int
        BY <1>1, <1>6, <2>1, <2>2, <2>3, <3>2
      <4>3. (x3[g] + 1) * p = x3[g] * p + p /\ x3[g] * p \in Int
        BY <4>2
      <4>4. x3'[g] = IF g = what THEN x3[g] + 1 ELSE x3[g]
        BY <1>6, <3>2 DEF more
      <4>5. g = what => price = p
        BY <3>2
      <4> HIDE DEF cost, cost2, price, p
      <4> QED
        BY <4>1, <4>2, <4>3, <4>4, <4>5
    <3> QED
      BY <3>1, <3>2
  <2>5. Store!CoinsFound' = Store!CoinsFound
    BY <1>2 DEF Store!CoinsFound
  <2>6. /\ x1.silver + x1.yellow + cost("crate") + cost("care") + cost("sapling") + cost("exchange")
             = MCStart.silver + MCStart.yellow + Store!CoinsFound
    BY DEF Store!ShopInv, Store!WalletAddsUp, Store!CoinsAddUp, Store!CostOf
  <2>7. d.silver + d.yellow = IF what \in Store!ForCoins \cup {"exchange"} THEN -price ELSE 0
    <3>1. d.beans * Rate \in Int /\ (-d.beans) * Rate = -(d.beans * Rate)
      BY <2>1, <2>3
    <3>2. what \in Store!ForCoins => d.silver + d.yellow = -MCPriceOf[what] /\ what # "exchange"
      BY <1>1 DEF Store!IsPriceOf, Store!ForCoins
    <3>3. what = "exchange" => d.silver = 0 /\ d.yellow = (-d.beans) * Rate
      BY <1>1 DEF Store!IsPriceOf
    <3>4. what \notin Store!ForCoins \cup {"exchange"} => d.silver = 0 /\ d.yellow = 0
      BY <1>1 DEF Store!IsPriceOf, Store!Goods, Store!ForBeans
    <3> QED
      BY <2>1, <3>1, <3>2, <3>3, <3>4
  <2>8. /\ cost2("crate") = cost("crate") + IF what = "crate" THEN price ELSE 0
        /\ cost2("care") = cost("care") + IF what = "care" THEN price ELSE 0
        /\ cost2("sapling") = cost("sapling") + IF what = "sapling" THEN price ELSE 0
        /\ cost2("exchange") = cost("exchange") + IF what = "exchange" THEN price ELSE 0
        /\ {cost("crate"), cost("care"), cost("sapling"), cost("exchange"), price} \subseteq Int
    <3> HIDE DEF cost, cost2, price
    <3> QED
      BY <2>4 DEF Store!Goods, Store!ForCoins, Store!ForBeans
  <2>9. Store!CostOf("crate")' = cost2("crate") /\ Store!CostOf("care")' = cost2("care")
        /\ Store!CostOf("sapling")' = cost2("sapling") /\ Store!CostOf("exchange")' = cost2("exchange")
    BY DEF Store!CostOf
  <2> HIDE DEF cost, cost2, price
  <2>10. d.silver + d.yellow
           + (IF what = "crate" THEN price ELSE 0) + (IF what = "care" THEN price ELSE 0)
           + (IF what = "sapling" THEN price ELSE 0) + (IF what = "exchange" THEN price ELSE 0) = 0
    BY <1>1, <2>1, <2>7, <2>8 DEF Store!ForCoins, Store!ForBeans, Store!Goods
  <2>11. x1'.silver + x1'.yellow + cost2("crate") + cost2("care") + cost2("sapling") + cost2("exchange")
           = x1.silver + x1.yellow + cost("crate") + cost("care") + cost("sapling") + cost("exchange")
    <3> DEFINE e1 == IF what = "crate" THEN price ELSE 0
               e2 == IF what = "care" THEN price ELSE 0
               e3 == IF what = "sapling" THEN price ELSE 0
               e4 == IF what = "exchange" THEN price ELSE 0
    <3>1. /\ cost2("crate") = cost("crate") + e1 /\ cost2("care") = cost("care") + e2
          /\ cost2("sapling") = cost("sapling") + e3 /\ cost2("exchange") = cost("exchange") + e4
          /\ d.silver + d.yellow + e1 + e2 + e3 + e4 = 0
      BY <2>8, <2>10
    <3>2. e1 \in Int /\ e2 \in Int /\ e3 \in Int /\ e4 \in Int
      BY <2>8
    <3> HIDE DEF e1, e2, e3, e4
    <3> QED
      BY <2>1, <2>8, <3>1, <3>2
  <2> QED
    BY <2>5, <2>6, <2>9, <2>11 DEF Store!CoinsAddUp
<1> QED
  BY <1>3, <1>5, <1>7, <1>8, <1>9, <1>10, <1>11 DEF Store!ShopInv, Store!WalletAddsUp

\* An opened crate becomes its opening, its piece of clothing and its coins.
LEMMA OpenedKeepsInv ==
  ASSUME Store!ConstantsAreSound, Store!ShopInv, Store!TabsAreTyped', NEW c \in Threads, Store!Opened(c)
  PROVE  Store!ShopInv'
<1> DEFINE d == x7[c].delta
           kind == x7[c].kind
           crate == x7[c].crate
           o == [crate |-> crate, coins |-> d.yellow]
<1>1. /\ d \in Store!Balances /\ d.silver = 0 /\ d.beans = 0 /\ d.yellow \in Loot /\ d.yellow \in Nat
      /\ kind \in Garments /\ crate \in x4 /\ crate \in Crates
      /\ Store!HasPurse(x7[c].at) /\ Store!HasCrate(x7[c].at)
  BY DEF Store!Opened, Store!ShopInv, Store!Typed, Store!CallsAreTrue, Store!CallIsTrue, Store!CallRow, Store!HasPurse, Store!HasCrate, Store!ConstantsAreSound
<1>2. /\ x1' = Store!Sum(x1, d) /\ x2' = Store!Sum(x2, d)
      /\ x6' = [x6 EXCEPT ![kind] = @ + 1]
      /\ x5' = x5 \cup {o} /\ x4' = x4 \ {crate}
      /\ x7' = [x7 EXCEPT ![c] = [Store!Idle EXCEPT !.at = "done"]]
      /\ UNCHANGED x3
  BY DEF Store!Opened
<1> HIDE DEF d, kind
<1>3. \A p \in Store!Purses : x1[p] + d[p] >= 0
  <2>1. \A p \in Store!Purses : x1[p] \in Int /\ x1[p] >= 0
    BY DEF Store!ShopInv, Store!Typed, Store!WalletAddsUp, Store!NothingIsOwed, Store!Balances
  <2> QED
    BY <1>1, <2>1 DEF Store!Purses
<1>4. /\ x1' \in Store!Balances /\ x2' \in Store!Balances /\ Store!NothingIsOwed'
      /\ \A p \in Store!Purses : /\ x1'[p] = x1[p] + d[p]
                           /\ x1[p] \in Int /\ d[p] \in Int /\ MCStart[p] \in Int
  BY <1>1, <1>2, <1>3, BalancesMove
<1>5. Store!CallsAreTrue' /\ Store!OneHasThePurse' /\ Store!OneHasACrate' /\ x7' \in [Threads -> Store!CallRow]
  <2>1. \A e \in Threads \ {c} : Store!HasCrate(x7[e].at) => x7[e].crate \in x4'
    BY <1>1, <1>2 DEF Store!ShopInv, Store!CallsAreTrue, Store!CallIsTrue, Store!OneHasACrate
  <2> QED
    BY <1>1, <1>2, <2>1, TransactionEnds
<1>6. o \in [crate : Crates, coins : Loot] /\ o.crate = crate /\ o.coins = d.yellow
  BY <1>1
<1>7. o \notin x5 /\ crate \notin Store!OpenedCrates
  <2>1. crate \notin Store!OpenedCrates
    BY <1>1 DEF Store!ShopInv, Store!CratesAreNumbered
  <2> QED
    BY <1>6, <2>1 DEF Store!OpenedCrates
<1> HIDE DEF o, crate
<1>8. /\ IsFiniteSet(x5') /\ Cardinality(x5') = Cardinality(x5) + 1
      /\ Cardinality(x4') = Cardinality(x4) - 1
  BY <1>1, <1>2, <1>7, RowsAreFinite, FS_AddElement, FS_RemoveElement
<1>9. Store!Typed'
  <2>1. x6' \in [Garments -> Nat]
    BY <1>1, <1>2 DEF Store!ShopInv, Store!Typed
  <2>2. x4' \subseteq Crates /\ x5' \subseteq [crate : Crates, coins : Loot]
    BY <1>2, <1>6 DEF Store!ShopInv, Store!Typed
  <2> QED
    BY <1>2, <1>4, <1>5, <1>8, <2>1, <2>2, SameCounts DEF Store!ShopInv, Store!Typed
<1>10. Store!CratesAreNumbered'
  <2>1. Store!OpenedCrates' = Store!OpenedCrates \cup {crate}
    BY <1>2, <1>6 DEF Store!OpenedCrates
  <2>2. Cardinality(x4') + Cardinality(x5') = Cardinality(x4) + Cardinality(x5)
    BY <1>8, RowsAreFinite
  <2> QED
    BY <1>1, <1>2, <2>1, <2>2, SameCounts DEF Store!ShopInv, Store!CratesAreNumbered
<1>11. Store!CratesAddUp'
  <2>1. x3["crate"] = Cardinality(x4) + Cardinality(x5) /\ Store!SumFunction(x6) = Cardinality(x5)
    BY SameCounts DEF Store!ShopInv, Store!WalletAddsUp, Store!CratesAddUp
  <2>2. Store!SumFunction(x6') = Store!SumFunction(x6) + 1
    <3>1. /\ IsFiniteSet(Garments) /\ x6 \in [Garments -> Int] /\ x6' \in [Garments -> Int]
          /\ \A k \in Garments \ {kind} : x6'[k] = x6[k]
          /\ x6'[kind] = x6[kind] + 1 /\ x6[kind] \in Int
      BY <1>1, <1>2, SameCounts DEF Store!ShopInv, Store!Typed, Store!ConstantsAreSound
    <3>2. Store!SumFunction(x6') = Store!SumFunction(x6) + (x6'[kind] - x6[kind]) /\ Store!SumFunction(x6) \in Int
      BY <1>1, <3>1, SumGrows
    <3> QED
      BY <3>1, <3>2
  <2> QED
    BY <1>2, <1>8, <2>1, <2>2, RowsAreFinite, SameCounts DEF Store!CratesAddUp
<1>12. Store!BeansAddUp'
  <2>1. x1'.beans = x1.beans
    BY <1>1, <1>4 DEF Store!Purses
  <2> QED
    BY <1>2, <2>1 DEF Store!ShopInv, Store!WalletAddsUp, Store!BeansAddUp, Store!CostOf
<1>13. Store!CoinsAddUp'
  <2>1. Store!CoinsFound' = Store!CoinsFound + d.yellow /\ Store!CoinsFound \in Int
    <3> DEFINE a == [v \in x5 |-> v.coins]
               b == [v \in x5 \cup {o} |-> v.coins]
    <3>1. a \in [x5 -> Int] /\ b \in [x5 \cup {o} -> Int]
      <4>1. \A v \in x5 : v.coins \in Loot
        BY DEF Store!ShopInv, Store!Typed
      <4>2. Loot \subseteq Int /\ o.coins \in Int
        BY <1>1, <1>6 DEF Store!ConstantsAreSound
      <4> QED
        BY <4>1, <4>2
    <3>2. (\A v \in x5 : b[v] = a[v]) /\ b[o] = d.yellow
      BY <1>6
    <3>3. Store!CoinsFound = Store!SumFunction(a) /\ Store!CoinsFound' = Store!SumFunction(b)
      BY <1>2 DEF Store!CoinsFound
    <3> HIDE DEF a, b
    <3>4. Store!SumFunction(b) = Store!SumFunction(a) + b[o] /\ Store!SumFunction(a) \in Int
      <4>1. IsFiniteSet(x5) /\ o \notin x5
        BY <1>7, RowsAreFinite
      <4>2. \A v \in x5 : b[v] = a[v]
        BY <3>2
      <4> QED
        BY <3>1, <4>1, <4>2, SumOfMore
    <3> QED
      BY <3>2, <3>3, <3>4
  <2>2. x1'.silver = x1.silver /\ x1'.yellow = x1.yellow + d.yellow
        /\ {x1.silver, x1.yellow, d.yellow, MCStart.silver, MCStart.yellow} \subseteq Int
    BY <1>1, <1>4 DEF Store!Purses
  <2>3. {Store!CostOf("crate"), Store!CostOf("care"), Store!CostOf("sapling"), Store!CostOf("exchange")} \subseteq Int
        /\ UNCHANGED Store!CostOf("crate") /\ UNCHANGED Store!CostOf("care") /\ UNCHANGED Store!CostOf("sapling") /\ UNCHANGED Store!CostOf("exchange")
    <3>1. \A g \in Store!Goods : x3[g] \in Nat
      BY DEF Store!ShopInv, Store!Typed
    <3>2. Rate \in Nat /\ MCPriceOf["crate"] \in Nat /\ MCPriceOf["care"] \in Nat /\ MCPriceOf["sapling"] \in Nat
      BY DEF Store!ConstantsAreSound
    <3>3. \A g \in Store!Goods : x3[g] * (-Rate) \in Int
      BY <3>1, <3>2
    <3>4. \A g \in {"crate", "care", "sapling"} : x3[g] * MCPriceOf[g] \in Int
      BY <3>1, <3>2 DEF Store!Goods, Store!ForCoins
    <3> QED
      BY <1>2, <3>3, <3>4 DEF Store!CostOf, Store!Goods, Store!ForBeans
  <2>5. x1.silver + x1.yellow + Store!CostOf("crate") + Store!CostOf("care") + Store!CostOf("sapling") + Store!CostOf("exchange")
          = MCStart.silver + MCStart.yellow + Store!CoinsFound
    BY DEF Store!ShopInv, Store!WalletAddsUp, Store!CoinsAddUp
  <2>6. x1'.silver + x1'.yellow + Store!CostOf("crate") + Store!CostOf("care") + Store!CostOf("sapling") + Store!CostOf("exchange")
          = MCStart.silver + MCStart.yellow + Store!CoinsFound'
    BY <2>1, <2>2, <2>3, <2>5
  <2> QED
    BY <2>3, <2>6 DEF Store!CoinsAddUp
<1> QED
  BY <1>4, <1>5, <1>9, <1>10, <1>11, <1>12, <1>13 DEF Store!ShopInv, Store!WalletAddsUp

\* At first nothing is bought and no crate is there.
LEMMA ShopBegins == Store!ConstantsAreSound /\ Store!Init => Store!ShopInv
<1> SUFFICES ASSUME Store!ConstantsAreSound, Store!Init PROVE Store!ShopInv
  OBVIOUS
<1>1. /\ x1 = MCStart /\ x2 = Store!Nothing /\ x3 = [g \in Store!Goods |-> 0]
      /\ x4 = {} /\ x5 = {} /\ x6 = [k \in Garments |-> 0]
      /\ x7 = [c \in Threads |-> Store!Idle] /\ x8 = [t \in Sids |-> Store!Rest]
  BY DEF Store!Init
<1>2. Store!Typed
  <2>1. Store!TabsAreTyped
    <3>1. Store!Rest \in Store!TabRow /\ Store!Rest.at = "rest"
      BY DEF Store!Rest, Store!TabRow
    <3> QED
      BY <1>1, <3>1 DEF Store!TabsAreTyped
  <2>2. IsFiniteSet(x5)
    BY <1>1, FS_EmptySet
  <2> QED
    BY <1>1, <2>1, <2>2, IdleIsTrue, SameCounts DEF Store!Typed, Store!ConstantsAreSound
<1>3. Store!CallsAreTrue /\ Store!OneHasThePurse /\ Store!OneHasACrate
  BY <1>1, IdleIsTrue DEF Store!CallsAreTrue, Store!OneHasThePurse, Store!OneHasACrate
<1>4. Cardinality(x4) = 0 /\ Cardinality(x5) = 0
  BY <1>1, FS_EmptySet
<1>5. Store!CratesAreNumbered
  BY <1>1, <1>4, SameCounts DEF Store!CratesAreNumbered, Store!OpenedCrates
<1>6. Store!NothingIsOwed
  BY <1>1, IdleIsTrue DEF Store!NothingIsOwed, Store!ConstantsAreSound, Store!Balances, Store!Purses
<1>7. Store!CratesAddUp
  <2>1. Store!SumFunction(x6) = 0
    BY <1>1, SumOfNothing, SameCounts DEF Store!ConstantsAreSound
  <2> QED
    BY <1>1, <1>4, <2>1, SameCounts DEF Store!CratesAddUp, Store!Goods, Store!ForCoins
<1>8. \A g \in Store!Goods : x3[g] = 0
  BY <1>1
<1>9. Store!BeansAddUp
  BY <1>1, <1>8 DEF Store!BeansAddUp, Store!CostOf, Store!ConstantsAreSound, Store!Balances, Store!Purses, Store!Goods, Store!ForBeans
<1>10. Store!CoinsAddUp
  <2>1. Store!CoinsFound = 0
    <3> DEFINE a == [o \in x5 |-> o.coins]
    <3>1. IsFiniteSet(x5) /\ a \in [x5 -> Int] /\ \A o \in x5 : a[o] = 0
      BY <1>1, FS_EmptySet
    <3>2. Store!CoinsFound = Store!SumFunction(a)
      BY DEF Store!CoinsFound
    <3> HIDE DEF a
    <3> QED
      BY <3>1, <3>2, SumOfNothing
  <2>2. Store!CostOf("crate") = 0 /\ Store!CostOf("care") = 0 /\ Store!CostOf("sapling") = 0 /\ Store!CostOf("exchange") = 0
    BY <1>8 DEF Store!CostOf, Store!Goods, Store!ForCoins, Store!ForBeans, Store!ConstantsAreSound
  <2> QED
    BY <1>1, <2>1, <2>2 DEF Store!CoinsAddUp, Store!ConstantsAreSound, Store!Balances, Store!Purses
<1> QED
  BY <1>2, <1>3, <1>5, <1>6, <1>7, <1>9, <1>10 DEF Store!ShopInv, Store!WalletAddsUp

\* Every step of the shop.
LEMMA ShopGoesOn == Store!ConstantsAreSound /\ Store!ShopInv /\ [Store!Next]_(Store!shopVars) => Store!ShopInv'
<1> SUFFICES ASSUME Store!ConstantsAreSound, Store!ShopInv, [Store!Next]_(Store!shopVars) PROVE Store!ShopInv'
  OBVIOUS
<1>0. Store!TabsAreTyped'
  BY TabsStayTyped
<1>1. ASSUME NEW t \in Sids,
             \/ \E g \in Store!Goods : Store!Confirm(t, g)
             \/ Store!Cancel(t) \/ Store!Answered(t) \/ Store!GivesUp(t)
             \/ \E c \in Threads : Store!Send(t, c) \/ Store!OpenCrate(t, c)
      PROVE  Store!ShopInv'
  BY <1>0, <1>1, TabStepKeepsInv
<1>2. ASSUME NEW c \in Threads, NEW n \in 1..MCStart.beans, Store!Spend(c, n) PROVE Store!ShopInv'
  BY <1>0, <1>2, SpendKeepsInv
<1>3. ASSUME NEW c \in Threads, Store!Give(c) PROVE Store!ShopInv'
  BY <1>0, <1>3, GiveKeepsInv
<1>4. ASSUME NEW c \in Threads, Store!Pick(c) PROVE Store!ShopInv'
  BY <1>0, <1>4, PickKeepsInv
<1>5. ASSUME NEW c \in Threads, Store!Opened(c) PROVE Store!ShopInv'
  BY <1>0, <1>5, OpenedKeepsInv
<1>6. ASSUME NEW c \in Threads, Store!RollsBack(c) \/ Store!Dropped(c) PROVE Store!ShopInv'
  BY <1>0, <1>6, CallEndsKeepsInv
<1>7. ASSUME NEW c \in Threads, NEW k \in Garments, NEW coins \in Loot, Store!Roll(c, k, coins) PROVE Store!ShopInv'
  BY <1>0, <1>7, RollKeepsInv
<1>8. ASSUME UNCHANGED Store!shopVars PROVE Store!ShopInv'
  BY <1>0, <1>8, NobodyGoesOn DEF Store!shopVars, Store!rows
<1> QED
  BY <1>1, <1>2, <1>3, <1>4, <1>5, <1>6, <1>7, <1>8 DEF Store!Next

-----------------------------------------------------------------------------
(* The rewards.                                                               *)

\* One request goes on, and the rows stay as they are.
LEMMA RequestGoesOn ==
  ASSUME Reward!RewardInv, UNCHANGED <<x1, x2, x4, x5, x6>>, x8' \in Nat,
         NEW c \in Threads, NEW row \in Reward!CallRow, x7' = [x7 EXCEPT ![c] = row],
         row.op = "pay" => /\ x5[row.code].verified = Reward!Never
                           /\ \A d \in Threads \ {c} : x7[d].op = "pay" => x7[d].code # row.code
  PROVE  Reward!RewardInv'
<1>1. \A d \in Threads : x7'[d] = IF d = c THEN row ELSE x7[d]
  BY DEF Reward!RewardInv, Reward!Typed
<1>2. x7' \in [Threads -> Reward!CallRow]
  BY DEF Reward!RewardInv, Reward!Typed
<1>3. Reward!Typed'
  BY <1>2 DEF Reward!RewardInv, Reward!Typed
<1>4. Reward!PayerHasThePost' /\ Reward!UnpaidIsEmpty'
  BY <1>1 DEF Reward!RewardInv, Reward!PayerHasThePost, Reward!UnpaidIsEmpty
<1>5. Reward!SilverMatchesRows'
  BY DEF Reward!RewardInv, Reward!SilverMatchesRows
<1> QED
  BY <1>3, <1>4, <1>5 DEF Reward!RewardInv

\* The request is over, with what it has written.
LEMMA RequestIsOver ==
  ASSUME Reward!RewardInv, NEW c \in Threads, Reward!Ends(c),
         \A k \in Reward!Codes : x5'[k].verified = x5[k].verified \/ (x7[c].op = "pay" /\ x7[c].code = k)
  PROVE  x7' \in [Threads -> Reward!CallRow] /\ Reward!PayerHasThePost'
<1>1. Reward!Free \in Reward!CallRow /\ Reward!Free.op = "free"
  BY DEF Reward!Free, Reward!CallRow
<1>2. \A d \in Threads : x7'[d] = IF d = c THEN Reward!Free ELSE x7[d]
  BY DEF Reward!RewardInv, Reward!Typed, Reward!Ends
<1>3. \A d \in Threads : x7'[d].op = "pay" => d # c /\ x7'[d] = x7[d]
  BY <1>1, <1>2
<1>4. \A d \in Threads : x7[d].op = "pay" => x7[d].code \in Reward!Codes
  BY DEF Reward!RewardInv, Reward!Typed, Reward!CallRow
<1>5. Reward!PayerHasThePost'
  BY <1>3, <1>4 DEF Reward!RewardInv, Reward!PayerHasThePost
<1> QED
  BY <1>1, <1>5 DEF Reward!RewardInv, Reward!Typed, Reward!Ends

\* A request of each kind, as it is remembered.
LEMMA RowsOfRequests ==
  /\ Reward!Free \in Reward!CallRow /\ Reward!Free.op # "pay"
  /\ \A i \in DrinksBought, r \in {0, DrinkCoins} :
       LET row == [op |-> "quiz", item |-> i, reward |-> r] IN row \in Reward!CallRow /\ row.op # "pay"
  /\ \A n \in Nat : LET row == [op |-> "link", from |-> n] IN row \in Reward!CallRow /\ row.op # "pay"
  /\ \A k \in Reward!Codes, o \in {"insert", "visit", "pay"} :
       LET row == [op |-> o, code |-> k] IN row \in Reward!CallRow /\ row.op = o /\ row.code = k
  /\ \A p \in {0, MessagePrice} :
       LET row == [op |-> "chat", price |-> p] IN row \in Reward!CallRow /\ row.op # "pay"
BY DEF Reward!Free, Reward!CallRow

\* A request that does not pay yet may remember what it likes.
LEMMA BeginsKeepsInv ==
  ASSUME Reward!ConstantsAreSound, Reward!RewardInv, NEW c \in Threads, NEW row \in Reward!CallRow, row.op # "pay",
         Reward!Begins(c, row) \/ x7' = [x7 EXCEPT ![c] = row],
         UNCHANGED <<x1, x2, x4, x5, x6, x8>>
  PROVE  Reward!RewardInv'
<1>1. x7' = [x7 EXCEPT ![c] = row] /\ x8' \in Nat
  BY DEF Reward!Begins, Reward!RewardInv, Reward!Typed
<1> QED
  BY <1>1, RequestGoesOn

\* What the sums are over, and that they are sums.
LEMMA Pays ==
  ASSUME Reward!ConstantsAreSound, Reward!RewardInv
  PROVE  /\ IsFiniteSet(Reward!Codes) /\ IsFiniteSet(DrinksBought) /\ IsFiniteSet(Reward!Verified) /\ Cardinality(Reward!Verified) \in Nat
         /\ [i \in DrinksBought |-> IF x4[i] = Reward!Never THEN 0 ELSE x4[i]] \in [DrinksBought -> Int]
         /\ [k \in Reward!Codes |-> x5[k].coins] \in [Reward!Codes -> Int]
         /\ x1 \in Int /\ x6[MessagePrice] \in Nat /\ x6[0] \in Nat
         /\ {MessagePrice, ProfileCoins, DrinkCoins, PostCoins} \subseteq Nat
<1>1. {MessagePrice, ProfileCoins, DrinkCoins, PostCoins} \subseteq Nat /\ IsFiniteSet(DrinksBought)
  BY SameCounts DEF Reward!ConstantsAreSound
<1>2. IsFiniteSet(Reward!Codes)
  <2>1. Attempts - 1 \in Int
    BY DEF Reward!ConstantsAreSound
  <2> QED
    BY <2>1, FS_Interval DEF Reward!Codes
<1>3. IsFiniteSet(Reward!Verified) /\ Cardinality(Reward!Verified) \in Nat
  BY <1>2, FS_Subset, FS_CardinalityType DEF Reward!Verified
<1>4. [i \in DrinksBought |-> IF x4[i] = Reward!Never THEN 0 ELSE x4[i]] \in [DrinksBought -> Int]
  <2>1. \A i \in DrinksBought : x4[i] \in {Reward!Never, 0, DrinkCoins}
    BY DEF Reward!RewardInv, Reward!Typed
  <2> QED
    BY <1>1, <2>1 DEF Reward!Never
<1>5. [k \in Reward!Codes |-> x5[k].coins] \in [Reward!Codes -> Int]
  <2>1. \A k \in Reward!Codes : x5[k].coins \in {0, PostCoins}
    BY DEF Reward!RewardInv, Reward!Typed, Reward!PostRow
  <2> QED
    BY <1>1, <2>1
<1>6. x1 \in Int /\ x6[MessagePrice] \in Nat /\ x6[0] \in Nat
  BY DEF Reward!RewardInv, Reward!Typed
<1> QED
  BY <1>1, <1>2, <1>3, <1>4, <1>5, <1>6

\* Steps that leave the requests as they are.
LEMMA NoRequestKeepsInv ==
  ASSUME Reward!ConstantsAreSound, Reward!RewardInv,
         Reward!SendProfile \/ Reward!NextDay \/ (\E i \in DrinksBought : Reward!ClaimDrink(i)) \/ UNCHANGED Reward!rewardVars
  PROVE  Reward!RewardInv'
<1>1. UNCHANGED <<x4, x5, x6, x7>> /\ x8' \in Nat
  BY DEF Reward!SendProfile, Reward!NextDay, Reward!ClaimDrink, Reward!rewardVars, Reward!RewardInv, Reward!Typed
<1>2. Reward!PayerHasThePost' /\ Reward!UnpaidIsEmpty'
  BY <1>1 DEF Reward!RewardInv, Reward!PayerHasThePost, Reward!UnpaidIsEmpty
<1>3. CASE UNCHANGED <<x1, x2>>
  BY <1>1, <1>2, <1>3 DEF Reward!RewardInv, Reward!Typed, Reward!SilverMatchesRows
<1>4. CASE Reward!SendProfile
  <2>1. ~x2 /\ x2' = TRUE /\ x1' = x1 + ProfileCoins
    BY <1>4 DEF Reward!SendProfile
  <2>2. x1 \in Nat /\ ProfileCoins \in Nat
    BY DEF Reward!RewardInv, Reward!Typed, Reward!ConstantsAreSound
  <2>3. Reward!Typed'
    BY <1>1, <2>1, <2>2 DEF Reward!RewardInv, Reward!Typed
  <2>4. Reward!SilverMatchesRows'
    <3> DEFINE answers == Reward!SumFunction([i \in DrinksBought |-> IF x4[i] = Reward!Never THEN 0 ELSE x4[i]])
               posts == Reward!SumFunction([k \in Reward!Codes |-> x5[k].coins])
               charged == MessagePrice * x6[MessagePrice]
    <3>1. x1 + charged = answers + posts
      <4>1. answers \in Int /\ posts \in Int
        BY Pays, SumIsInt, SameSum
      <4> HIDE DEF answers, posts, charged
      <4>2. x1 + charged = 0 + answers + posts
        BY <2>1 DEF Reward!RewardInv, Reward!SilverMatchesRows, answers, posts, charged
      <4> QED
        BY <4>1, <4>2
    <3>2. answers \in Int /\ posts \in Int /\ charged \in Int /\ answers' = answers /\ posts' = posts /\ charged' = charged
      BY <1>1, Pays, SumIsInt, SameSum
    <3>3. Reward!SilverMatchesRows' <=> x1' >= 0 /\ x1' + charged' = ProfileCoins + answers' + posts'
      BY <2>1 DEF Reward!SilverMatchesRows
    <3> HIDE DEF answers, posts, charged
    <3> QED
      BY <2>1, <2>2, <3>1, <3>2, <3>3
  <2> QED
    BY <1>2, <2>3, <2>4 DEF Reward!RewardInv
<1> QED
  BY <1>3, <1>4 DEF Reward!NextDay, Reward!ClaimDrink, Reward!rewardVars

\* What is read before the transaction.
LEMMA AsksKeepInv ==
  ASSUME Reward!ConstantsAreSound, Reward!RewardInv, NEW c \in Threads,
         \/ \E i \in DrinksBought : Reward!CountCredits(c, i)
         \/ \E k \in Reward!Codes : Reward!Visit(c, k)
         \/ Reward!AskLink(c) \/ Reward!AskPrice(c) \/ Reward!FindCode(c)
  PROVE  Reward!RewardInv'
<1>1. ASSUME NEW i \in DrinksBought, Reward!CountCredits(c, i) PROVE Reward!RewardInv'
  <2>1. PICK r \in {0, DrinkCoins} : Reward!Begins(c, [op |-> "quiz", item |-> i, reward |-> r])
    BY <1>1 DEF Reward!CountCredits
  <2> DEFINE row == [op |-> "quiz", item |-> i, reward |-> r]
  <2>2. row \in Reward!CallRow /\ row.op = "quiz"
    BY RowsOfRequests
  <2> HIDE DEF row
  <2> QED
    BY <1>1, <2>1, <2>2, BeginsKeepsInv DEF Reward!CountCredits, row
<1>2. ASSUME NEW k \in Reward!Codes, Reward!Visit(c, k) PROVE Reward!RewardInv'
  <2> DEFINE row == [op |-> "visit", code |-> k]
  <2>1. row \in Reward!CallRow /\ row.op = "visit"
    BY RowsOfRequests
  <2> HIDE DEF row
  <2> QED
    BY <1>2, <2>1, BeginsKeepsInv DEF Reward!Visit, row
<1>3. ASSUME Reward!AskLink(c) PROVE Reward!RewardInv'
  <2> DEFINE row == [op |-> "link", from |-> Cardinality(Reward!Verified)]
  <2>1. row \in Reward!CallRow /\ row.op = "link"
    BY RowsOfRequests, Pays
  <2> HIDE DEF row
  <2> QED
    BY <1>3, <2>1, BeginsKeepsInv, SameCounts DEF Reward!AskLink, row
<1>4. ASSUME Reward!AskPrice(c) PROVE Reward!RewardInv'
  <2>1. PICK p \in {0, MessagePrice} : Reward!Begins(c, [op |-> "chat", price |-> p])
    BY <1>4 DEF Reward!AskPrice
  <2> QED
    BY <1>4, <2>1, RowsOfRequests, BeginsKeepsInv DEF Reward!AskPrice
<1>5. ASSUME Reward!FindCode(c) PROVE Reward!RewardInv'
  <2> DEFINE free == {k \in Reward!Codes : k >= x7[c].from /\ ~x5[k].open}
  <2>1. x7' = [x7 EXCEPT ![c] = IF free = {} THEN Reward!Free ELSE [op |-> "insert", code |-> Reward!Min(free)]]
    BY <1>5 DEF Reward!FindCode
  <2>2. CASE free = {}
    <3>1. x7' = [x7 EXCEPT ![c] = Reward!Free] /\ UNCHANGED <<x1, x2, x4, x5, x6, x8>>
      BY <1>5, <2>1, <2>2 DEF Reward!FindCode
    <3> QED
      BY <3>1, RowsOfRequests, BeginsKeepsInv
  <2>3. CASE free # {}
    <3>1. Reward!Min(free) \in free
      <4>1. free \subseteq Nat
        BY DEF Reward!Codes
      <4> HIDE DEF free
      <4>2. \E x \in free : \A y \in free : x <= y
        BY <2>3, <4>1, LeastElement
      <4> QED
        BY <4>2 DEF Reward!Min
    <3> DEFINE row == [op |-> "insert", code |-> Reward!Min(free)]
    <3>2. row \in Reward!CallRow /\ row.op = "insert"
      <4>1. Reward!Min(free) \in Reward!Codes
        BY <3>1
      <4> HIDE DEF free
      <4> QED
        BY <4>1, RowsOfRequests
    <3>3. x7' = [x7 EXCEPT ![c] = row]
      BY <2>1, <2>3
    <3> HIDE DEF row
    <3> QED
      BY <1>5, <3>2, <3>3, BeginsKeepsInv DEF Reward!FindCode
  <2> QED
    BY <2>2, <2>3
<1> QED
  BY <1>1, <1>2, <1>3, <1>4, <1>5

\* The row of the post is locked and read again.
LEMMA LockKeepsInv ==
  ASSUME Reward!ConstantsAreSound, Reward!RewardInv, NEW c \in Threads, Reward!LockLink(c)
  PROVE  Reward!RewardInv'
<1> DEFINE k == x7[c].code
           pays == Reward!StillOpen(k) /\ Cardinality(Reward!Verified) < MaxPosts /\ ~Reward!Waiting(Reward!Verified)
<1>1. x7[c] \in Reward!CallRow /\ x7[c].op = "visit"
  BY DEF Reward!RewardInv, Reward!Typed, Reward!LockLink
<1>2. k \in Reward!Codes /\ x7[c] = [op |-> "visit", code |-> k]
  BY <1>1 DEF Reward!CallRow
<1>3. CASE pays
  <2> DEFINE row == [op |-> "pay", code |-> k]
  <2>1. row \in Reward!CallRow /\ row.op = "pay" /\ row.code = k
    BY <1>2, RowsOfRequests
  <2>2. x7' = [x7 EXCEPT ![c] = row]
    <3>1. [x7[c] EXCEPT !.op = "pay"] = row
      BY <1>2
    <3> QED
      BY <1>3, <3>1, SameCounts DEF Reward!LockLink
  <2>3. x5[k].verified = Reward!Never /\ \A d \in Threads : x7[d].op = "pay" => x7[d].code # k
    BY <1>3 DEF Reward!StillOpen, Reward!LockLink, Reward!Locked
  <2>4. x8' \in Nat
    BY DEF Reward!LockLink, Reward!RewardInv, Reward!Typed
  <2> HIDE DEF row, k
  <2> QED
    BY <2>1, <2>2, <2>3, <2>4, RequestGoesOn DEF Reward!LockLink
<1>4. CASE ~pays
  <2>1. x7' = [x7 EXCEPT ![c] = Reward!Free]
    BY <1>4, SameCounts DEF Reward!LockLink, Reward!Ends
  <2>2. UNCHANGED <<x1, x2, x4, x5, x6, x8>>
    BY DEF Reward!LockLink
  <2>3. Reward!Free \in Reward!CallRow /\ Reward!Free.op # "pay"
    BY RowsOfRequests
  <2> QED
    BY <2>1, <2>2, <2>3, BeginsKeepsInv
<1> QED
  BY <1>3, <1>4

\* A new link is worth nothing yet.
LEMMA InsertKeepsInv ==
  ASSUME Reward!ConstantsAreSound, Reward!RewardInv, NEW c \in Threads, Reward!InsertLink(c)
  PROVE  Reward!RewardInv'
<1> DEFINE n == x7[c].code
<1>1. x7[c] \in Reward!CallRow /\ x7[c].op = "insert"
  BY DEF Reward!RewardInv, Reward!Typed, Reward!InsertLink
<1>2. n \in Reward!Codes
  BY <1>1 DEF Reward!CallRow
<1>3. x5 \in [Reward!Codes -> Reward!PostRow] /\ x5' = IF x5[n].open THEN x5 ELSE [x5 EXCEPT ![n].open = TRUE]
  BY DEF Reward!RewardInv, Reward!Typed, Reward!InsertLink
<1>4. /\ Reward!Ends(c) /\ x8' \in Nat
      /\ UNCHANGED <<x1, x2, x4, x6>>
  BY DEF Reward!InsertLink, Reward!RewardInv, Reward!Typed
<1> HIDE DEF n
<1>5. \A k \in Reward!Codes : x5'[k] \in Reward!PostRow /\ x5'[k].verified = x5[k].verified /\ x5'[k].coins = x5[k].coins
  BY <1>2, <1>3 DEF Reward!PostRow
<1>6. x5' \in [Reward!Codes -> Reward!PostRow]
  BY <1>2, <1>3, <1>5
<1>7. x7' \in [Threads -> Reward!CallRow] /\ Reward!PayerHasThePost'
  <2>1. \A k \in Reward!Codes : x5'[k].verified = x5[k].verified \/ (x7[c].op = "pay" /\ x7[c].code = k)
    BY <1>5
  <2> QED
    BY <1>4, <2>1, RequestIsOver
<1>8. Reward!Typed'
  BY <1>4, <1>6, <1>7 DEF Reward!RewardInv, Reward!Typed
<1>9. Reward!UnpaidIsEmpty'
  BY <1>5 DEF Reward!RewardInv, Reward!UnpaidIsEmpty
<1>10. Reward!SilverMatchesRows'
  <2>1. [k \in Reward!Codes |-> x5'[k].coins] = [k \in Reward!Codes |-> x5[k].coins]
    BY <1>5
  <2> QED
    BY <1>4, <2>1 DEF Reward!RewardInv, Reward!SilverMatchesRows
<1> QED
  BY <1>7, <1>8, <1>9, <1>10 DEF Reward!RewardInv

\* A post is paid when its row is.
LEMMA PayKeepsInv ==
  ASSUME Reward!ConstantsAreSound, Reward!RewardInv, NEW c \in Threads, Reward!PayVisit(c)
  PROVE  Reward!RewardInv'
<1> DEFINE n == x7[c].code
           row == [x5[n] EXCEPT !.verified = x8, !.coins = PostCoins]
<1>1. x7[c] \in Reward!CallRow /\ x7[c].op = "pay"
  BY DEF Reward!RewardInv, Reward!Typed, Reward!PayVisit
<1>2. n \in Reward!Codes /\ x5[n].verified = Reward!Never /\ x5[n].coins = 0
  <2>1. n \in Reward!Codes
    BY <1>1 DEF Reward!CallRow
  <2> QED
    BY <1>1, <2>1 DEF Reward!RewardInv, Reward!PayerHasThePost, Reward!UnpaidIsEmpty
<1>3. x5 \in [Reward!Codes -> Reward!PostRow] /\ x8 \in Nat
  BY DEF Reward!RewardInv, Reward!Typed
<1>4. x5' = [x5 EXCEPT ![n] = row]
  <2>1. x5' = [x5 EXCEPT ![n].verified = x8, ![n].coins = PostCoins]
    BY DEF Reward!PayVisit
  <2> QED
    BY <1>2, <1>3, <2>1
<1>5. row \in Reward!PostRow /\ row.verified = x8 /\ row.coins = PostCoins
  BY <1>2, <1>3 DEF Reward!PostRow
<1>6. Reward!Ends(c) /\ x1' = x1 + PostCoins /\ UNCHANGED <<x2, x4, x6, x8>>
  BY DEF Reward!PayVisit
<1> HIDE DEF row
<1>7. \A k \in Reward!Codes : x5'[k] = IF k = n THEN row ELSE x5[k]
  BY <1>3, <1>4
<1>8. x5' \in [Reward!Codes -> Reward!PostRow]
  BY <1>3, <1>4, <1>5
<1>9. x7' \in [Threads -> Reward!CallRow] /\ Reward!PayerHasThePost'
  <2>1. \A k \in Reward!Codes : x5'[k].verified = x5[k].verified \/ (x7[c].op = "pay" /\ x7[c].code = k)
    BY <1>1, <1>7
  <2> QED
    BY <1>6, <2>1, RequestIsOver
<1>10. Reward!Typed'
  BY <1>6, <1>8, <1>9, Pays DEF Reward!RewardInv, Reward!Typed
<1>11. Reward!UnpaidIsEmpty'
  BY <1>3, <1>5, <1>7 DEF Reward!RewardInv, Reward!UnpaidIsEmpty, Reward!Never
<1>12. Reward!SilverMatchesRows'
  <2> DEFINE a == [k \in Reward!Codes |-> x5[k].coins]
             b == [k \in Reward!Codes |-> x5'[k].coins]
             answers == Reward!SumFunction([i \in DrinksBought |-> IF x4[i] = Reward!Never THEN 0 ELSE x4[i]])
             charged == MessagePrice * x6[MessagePrice]
             quiz == IF x2 THEN ProfileCoins ELSE 0
  <2>1. a \in [Reward!Codes -> Int] /\ b \in [Reward!Codes -> Int]
    <3>1. \A k \in Reward!Codes : x5'[k].coins \in {0, PostCoins}
      BY <1>8 DEF Reward!PostRow
    <3> QED
      BY <3>1, Pays
  <2>2. (\A k \in Reward!Codes \ {n} : b[k] = a[k]) /\ b[n] = PostCoins /\ a[n] = 0
    BY <1>2, <1>5, <1>7
  <2>3. x1 >= 0 /\ x1 + charged = quiz + answers + Reward!SumFunction(a)
    BY DEF Reward!RewardInv, Reward!SilverMatchesRows
  <2>4. x1' >= 0 /\ x1' + charged = quiz + answers + Reward!SumFunction(b) => Reward!SilverMatchesRows'
    BY <1>6 DEF Reward!SilverMatchesRows
  <2>5. {x1, charged, quiz, answers, PostCoins} \subseteq Int /\ PostCoins >= 0
    <3>1. answers \in Int
      BY Pays, SumIsInt, SameSum
    <3>2. charged \in Int /\ quiz \in Int
      BY Pays
    <3> HIDE DEF answers, charged, quiz
    <3> QED
      BY <3>1, <3>2, Pays
  <2> HIDE DEF a, b, answers, charged, quiz
  <2>6. Reward!SumFunction(b) = Reward!SumFunction(a) + (b[n] - a[n]) /\ Reward!SumFunction(a) \in Int
    BY <1>2, <2>1, <2>2, Pays, SumGrows, SameSum
  <2> QED
    BY <1>6, <2>2, <2>3, <2>4, <2>5, <2>6
<1> QED
  BY <1>9, <1>10, <1>11, <1>12 DEF Reward!RewardInv

\* An answer is paid with its row, the first time.
LEMMA AnswerKeepsInv ==
  ASSUME Reward!ConstantsAreSound, Reward!RewardInv, NEW c \in Threads, Reward!SaveAnswer(c)
  PROVE  Reward!RewardInv'
<1> DEFINE i == x7[c].item
           reward == x7[c].reward
<1>1. i \in DrinksBought /\ reward \in {0, DrinkCoins} /\ reward \in Nat /\ reward # Reward!Never
  <2>1. x7[c] \in Reward!CallRow /\ x7[c].op = "quiz"
    BY DEF Reward!RewardInv, Reward!Typed, Reward!SaveAnswer
  <2>2. i \in DrinksBought /\ reward \in {0, DrinkCoins}
    BY <2>1 DEF Reward!CallRow
  <2> QED
    BY <2>2, Pays DEF Reward!Never
<1>2. /\ IF Reward!FirstAnswer(i) THEN x4' = [x4 EXCEPT ![i] = reward] /\ x1' = x1 + reward
         ELSE UNCHANGED <<x4, x1>>
      /\ Reward!Ends(c) /\ UNCHANGED <<x2, x5, x6, x8>>
  BY DEF Reward!SaveAnswer
<1> HIDE DEF i, reward
<1>3. x7' \in [Threads -> Reward!CallRow] /\ Reward!PayerHasThePost'
  BY <1>2, RequestIsOver
<1>4. Reward!UnpaidIsEmpty'
  BY <1>2 DEF Reward!RewardInv, Reward!UnpaidIsEmpty
<1>5. CASE ~Reward!FirstAnswer(i)
  <2>1. Reward!Typed' /\ Reward!SilverMatchesRows'
    BY <1>2, <1>3, <1>5 DEF Reward!RewardInv, Reward!Typed, Reward!SilverMatchesRows
  <2> QED
    BY <1>3, <1>4, <2>1 DEF Reward!RewardInv
<1>6. CASE Reward!FirstAnswer(i)
  <2>1. x4' = [x4 EXCEPT ![i] = reward] /\ x1' = x1 + reward /\ x4[i] = Reward!Never
    BY <1>2, <1>6 DEF Reward!FirstAnswer
  <2>2. x4 \in [DrinksBought -> {Reward!Never, 0, DrinkCoins}] /\ x1 \in Nat
    BY DEF Reward!RewardInv, Reward!Typed
  <2>3. x4' \in [DrinksBought -> {Reward!Never, 0, DrinkCoins}]
    BY <1>1, <2>1, <2>2
  <2>4. Reward!Typed'
    BY <1>1, <1>2, <1>3, <2>1, <2>2, <2>3 DEF Reward!RewardInv, Reward!Typed
  <2>5. Reward!SilverMatchesRows'
    <3> DEFINE a == [j \in DrinksBought |-> IF x4[j] = Reward!Never THEN 0 ELSE x4[j]]
               b == [j \in DrinksBought |-> IF x4'[j] = Reward!Never THEN 0 ELSE x4'[j]]
               posts == Reward!SumFunction([k \in Reward!Codes |-> x5[k].coins])
               charged == MessagePrice * x6[MessagePrice]
               quiz == IF x2 THEN ProfileCoins ELSE 0
    <3>1. a \in [DrinksBought -> Int] /\ b \in [DrinksBought -> Int]
      <4>1. \A j \in DrinksBought : x4'[j] \in {Reward!Never, 0, DrinkCoins}
        BY <2>3
      <4> QED
        BY <4>1, Pays DEF Reward!Never
    <3>2. (\A j \in DrinksBought \ {i} : b[j] = a[j]) /\ b[i] = reward /\ a[i] = 0
      BY <1>1, <2>1, <2>2
    <3>3. x1 >= 0 /\ x1 + charged = quiz + Reward!SumFunction(a) + posts
      BY DEF Reward!RewardInv, Reward!SilverMatchesRows
    <3>4. x1' >= 0 /\ x1' + charged = quiz + Reward!SumFunction(b) + posts => Reward!SilverMatchesRows'
      BY <1>2 DEF Reward!SilverMatchesRows
    <3>5. {x1, charged, quiz, posts} \subseteq Int
      <4>1. posts \in Int
        BY Pays, SumIsInt, SameSum
      <4>2. charged \in Int /\ quiz \in Int
        BY Pays
      <4> HIDE DEF posts, charged, quiz
      <4> QED
        BY <4>1, <4>2, Pays
    <3> HIDE DEF a, b, posts, charged, quiz
    <3>6. Reward!SumFunction(b) = Reward!SumFunction(a) + (b[i] - a[i]) /\ Reward!SumFunction(a) \in Int
      BY <1>1, <3>1, <3>2, Pays, SumGrows, SameSum
    <3> QED
      BY <1>1, <2>1, <3>2, <3>3, <3>4, <3>5, <3>6
  <2> QED
    BY <1>3, <1>4, <2>4, <2>5 DEF Reward!RewardInv
<1> QED
  BY <1>5, <1>6

\* A message is written if it is paid.
LEMMA MessageKeepsInv ==
  ASSUME Reward!ConstantsAreSound, Reward!RewardInv, NEW c \in Threads, Reward!SendMessage(c)
  PROVE  Reward!RewardInv'
<1> DEFINE price == x7[c].price
<1>1. price \in {0, MessagePrice} /\ price \in Nat
  <2>1. x7[c] \in Reward!CallRow /\ x7[c].op = "chat"
    BY DEF Reward!RewardInv, Reward!Typed, Reward!SendMessage
  <2>2. price \in {0, MessagePrice}
    BY <2>1 DEF Reward!CallRow
  <2> QED
    BY <2>2, Pays
<1>2. /\ IF Reward!CanPay(price) THEN x1' = x1 - price /\ x6' = [x6 EXCEPT ![price] = @ + 1]
         ELSE UNCHANGED <<x1, x6>>
      /\ Reward!Ends(c) /\ UNCHANGED <<x2, x4, x5, x8>>
  BY DEF Reward!SendMessage
<1> HIDE DEF price
<1>3. x7' \in [Threads -> Reward!CallRow] /\ Reward!PayerHasThePost'
  BY <1>2, RequestIsOver
<1>4. Reward!UnpaidIsEmpty'
  BY <1>2 DEF Reward!RewardInv, Reward!UnpaidIsEmpty
<1>5. CASE ~Reward!CanPay(price)
  <2>1. Reward!Typed' /\ Reward!SilverMatchesRows'
    BY <1>2, <1>3, <1>5 DEF Reward!RewardInv, Reward!Typed, Reward!SilverMatchesRows
  <2> QED
    BY <1>3, <1>4, <2>1 DEF Reward!RewardInv
<1>6. CASE Reward!CanPay(price)
  <2> DEFINE m == x6[MessagePrice]
             n == x6'[MessagePrice]
             earned == (IF x2 THEN ProfileCoins ELSE 0)
                         + Reward!SumFunction([i \in DrinksBought |-> IF x4[i] = Reward!Never THEN 0 ELSE x4[i]])
                         + Reward!SumFunction([k \in Reward!Codes |-> x5[k].coins])
  <2>1. x1' = x1 - price /\ x6' = [x6 EXCEPT ![price] = @ + 1] /\ price <= x1
    BY <1>2, <1>6 DEF Reward!CanPay
  <2>2. x1 \in Nat /\ x6 \in [{0, MessagePrice} -> Nat] /\ MessagePrice \in Nat /\ m \in Nat
    BY Pays DEF Reward!RewardInv, Reward!Typed
  <2>3. x6' \in [{0, MessagePrice} -> Nat] /\ x1' \in Nat
    BY <1>1, <2>1, <2>2
  <2>4. Reward!Typed'
    BY <1>2, <1>3, <2>3 DEF Reward!RewardInv, Reward!Typed
  <2>5. n = IF price = MessagePrice THEN m + 1 ELSE m
    BY <1>1, <2>1, <2>2
  <2>6. x1 + MessagePrice * m = earned
    BY DEF Reward!RewardInv, Reward!SilverMatchesRows
  <2>7. x1' + MessagePrice * n = earned => Reward!SilverMatchesRows'
    BY <1>2, <2>3 DEF Reward!SilverMatchesRows
  <2> HIDE DEF m, n, earned
  <2>8. x1' + MessagePrice * n = x1 + MessagePrice * m
    <3>1. MessagePrice * m \in Int /\ MessagePrice * (m + 1) = MessagePrice * m + MessagePrice
      BY <2>2
    <3>2. CASE price = MessagePrice
      BY <2>1, <2>2, <2>5, <3>1, <3>2
    <3>3. CASE price # MessagePrice
      BY <1>1, <2>1, <2>2, <2>5, <3>1, <3>3
    <3> QED
      BY <3>2, <3>3
  <2> QED
    BY <1>3, <1>4, <2>4, <2>6, <2>7, <2>8 DEF Reward!RewardInv
<1> QED
  BY <1>5, <1>6

\* At first nothing is earned.
LEMMA RewardsBegin == Reward!ConstantsAreSound /\ Reward!Init => Reward!RewardInv
<1> SUFFICES ASSUME Reward!ConstantsAreSound, Reward!Init PROVE Reward!RewardInv
  OBVIOUS
<1>1. Reward!Typed
  BY RowsOfRequests DEF Reward!Init, Reward!Typed, Reward!NoLink, Reward!PostRow, Reward!Never
<1>2. Reward!PayerHasThePost /\ Reward!UnpaidIsEmpty
  BY RowsOfRequests DEF Reward!Init, Reward!PayerHasThePost, Reward!UnpaidIsEmpty, Reward!NoLink
<1>3. Reward!SilverMatchesRows
  <2> DEFINE a == [i \in DrinksBought |-> IF x4[i] = Reward!Never THEN 0 ELSE x4[i]]
             b == [k \in Reward!Codes |-> x5[k].coins]
  <2>1. IsFiniteSet(DrinksBought) /\ IsFiniteSet(Reward!Codes) /\ MessagePrice \in Nat
    <3>1. Attempts - 1 \in Int
      BY DEF Reward!ConstantsAreSound
    <3> QED
      BY <3>1, FS_Interval, SameCounts DEF Reward!Codes, Reward!ConstantsAreSound
  <2>2. a \in [DrinksBought -> Int] /\ \A i \in DrinksBought : a[i] = 0
    BY DEF Reward!Init
  <2>3. b \in [Reward!Codes -> Int] /\ \A k \in Reward!Codes : b[k] = 0
    BY DEF Reward!Init, Reward!NoLink
  <2>4. Reward!SilverMatchesRows <=>
          x1 >= 0 /\ x1 + MessagePrice * x6[MessagePrice]
                           = (IF x2 THEN ProfileCoins ELSE 0) + Reward!SumFunction(a) + Reward!SumFunction(b)
    BY DEF Reward!SilverMatchesRows
  <2> HIDE DEF a, b
  <2>5. Reward!SumFunction(a) = 0 /\ Reward!SumFunction(b) = 0
    BY <2>1, <2>2, <2>3, SumOfNothing, SameSum
  <2>6. MessagePrice * x6[MessagePrice] = 0 /\ x1 = 0 /\ ~x2
    BY <2>1 DEF Reward!Init
  <2> QED
    BY <2>4, <2>5, <2>6
<1> QED
  BY <1>1, <1>2, <1>3 DEF Reward!RewardInv

\* Every step of the rewards.
LEMMA RewardsGoOn == Reward!ConstantsAreSound /\ Reward!RewardInv /\ [Reward!Next]_(Reward!rewardVars) => Reward!RewardInv'
<1> SUFFICES ASSUME Reward!ConstantsAreSound, Reward!RewardInv, [Reward!Next]_(Reward!rewardVars) PROVE Reward!RewardInv'
  OBVIOUS
<1>1. CASE Reward!SendProfile \/ Reward!NextDay \/ (\E i \in DrinksBought : Reward!ClaimDrink(i)) \/ UNCHANGED Reward!rewardVars
  BY <1>1, NoRequestKeepsInv
<1>2. ASSUME NEW c \in Threads,
             \/ \E i \in DrinksBought : Reward!CountCredits(c, i)
             \/ \E k \in Reward!Codes : Reward!Visit(c, k)
             \/ Reward!AskLink(c) \/ Reward!AskPrice(c) \/ Reward!FindCode(c)
      PROVE  Reward!RewardInv'
  BY <1>2, AsksKeepInv
<1>3. ASSUME NEW c \in Threads, Reward!LockLink(c) \/ Reward!InsertLink(c) PROVE Reward!RewardInv'
  BY <1>3, LockKeepsInv, InsertKeepsInv
<1>4. ASSUME NEW c \in Threads, Reward!PayVisit(c) \/ Reward!SaveAnswer(c) \/ Reward!SendMessage(c) PROVE Reward!RewardInv'
  BY <1>4, PayKeepsInv, AnswerKeepsInv, MessageKeepsInv
<1> QED
  BY <1>1, <1>2, <1>3, <1>4 DEF Reward!Next

-----------------------------------------------------------------------------
(* The usage of recipes, for any orders, recipes and writers.                 *)

\* There is a version that was valid when an order was bought, or there was none.
LEMMA VersionIsKnown ==
  ASSUME x2 \subseteq Editions, NEW o \in Sales
  PROVE  Usage!ValidVersion(o) \in Editions \cup {None}
<1> DEFINE past == {v \in x2 : InForce[v] <= SoldAt[o]}
<1>1. CASE past = {}
  BY <1>1 DEF Usage!ValidVersion
<1>2. CASE past # {}
  <2> DEFINE T == {SoldAt[o] - InForce[v] : v \in past}
  <2>1. SoldAt[o] \in Nat /\ \A v \in past : InForce[v] \in Nat /\ InForce[v] <= SoldAt[o]
    BY UsageIsSound DEF Usage!ConstantsAreSound
  <2>2. T \subseteq Nat /\ T # {}
    BY <1>2, <2>1
  <2>3. PICK t \in T : \A s \in T : t <= s
    BY <2>2, LeastElement
  <2>4. PICK v \in past : t = SoldAt[o] - InForce[v]
    OBVIOUS
  <2>5. \A w \in past : InForce[w] <= InForce[v]
    <3> TAKE w \in past
    <3>1. SoldAt[o] - InForce[w] \in T
      OBVIOUS
    <3>2. SoldAt[o] - InForce[v] <= SoldAt[o] - InForce[w]
      BY <2>3, <2>4, <3>1
    <3> QED
      BY <2>1, <3>2
  <2> HIDE DEF past
  <2>6. (CHOOSE u \in past : \A w \in past : InForce[w] <= InForce[u]) \in past
    BY <2>5
  <2> QED
    BY <1>2, <2>6 DEF Usage!ValidVersion, past
<1> QED
  BY <1>1, <1>2

\* What a version says of an order are rows of this order and of this version.
LEMMA RowsOfAVersion ==
  ASSUME NEW o \in Sales, NEW v \in Editions \cup {None}
  PROVE  /\ Usage!RowsBy(o, v) \subseteq Usage!Rows
         /\ \A r \in Usage!RowsBy(o, v) : r.order = o /\ r.version = v /\ v \in Editions
         /\ Usage!RowsBy(o, v) = {} \/ v \in Editions
BY DEF Usage!RowsBy, Usage!Rows

\* All rows of an order are of the version of one of them.
LEMMA OneVersion ==
  ASSUME NEW rows, NEW o \in Sales, Usage!WholeIn(rows, o), NEW r \in Usage!Of(rows, o)
  PROVE  /\ r.version \in Editions /\ Usage!Of(rows, o) = Usage!RowsBy(o, r.version)
         /\ \A s \in Usage!Of(rows, o) : s.version = r.version
<1>1. PICK v \in Editions : Usage!Of(rows, o) = Usage!RowsBy(o, v)
  BY DEF Usage!WholeIn
<1>2. \A s \in Usage!Of(rows, o) : s.version = v
  BY <1>1, RowsOfAVersion
<1> QED
  BY <1>1, <1>2

\* What is in both, or in one and not in the other, is whole again.
LEMMA WholeStaysWhole ==
  ASSUME NEW rows, NEW other, NEW o \in Sales, Usage!WholeIn(rows, o), Usage!WholeIn(other, o)
  PROVE  Usage!WholeIn(rows \cap other, o) /\ Usage!WholeIn(rows \ other, o)
<1>1. CASE \A r \in Usage!Of(rows, o) : r \notin Usage!Of(other, o)
  <2>1. Usage!Of(rows \cap other, o) = {} /\ Usage!Of(rows \ other, o) = Usage!Of(rows, o)
    BY <1>1 DEF Usage!Of
  <2> QED
    BY <2>1 DEF Usage!WholeIn
<1>2. CASE \E r \in Usage!Of(rows, o) : r \in Usage!Of(other, o)
  <2>1. Usage!Of(rows, o) = Usage!Of(other, o)
    BY <1>2, OneVersion
  <2>2. Usage!Of(rows \cap other, o) = Usage!Of(rows, o) /\ Usage!Of(rows \ other, o) = {}
    BY <2>1 DEF Usage!Of
  <2> QED
    BY <2>2 DEF Usage!WholeIn
<1> QED
  BY <1>1, <1>2

\* The rows of an order are stale together.
LEMMA StaleIsWhole ==
  ASSUME Usage!Whole, NEW o \in Sales \ x5
  PROVE  /\ Usage!WholeIn(x3, o) /\ Usage!WholeIn(Usage!StaleRows, o)
         /\ Usage!Of(x3, o) = Usage!RowsOf(o)
<1>1. Usage!WholeIn(x3, o) /\ Usage!Of(x3, o) = Usage!RowsOf(o)
  BY DEF Usage!Whole, Usage!WholeIn, Usage!Of, Usage!RowsOf
<1>2. CASE \A r \in Usage!Of(x3, o) : r.version = Usage!ValidVersion(o)
  <2>1. Usage!Of(Usage!StaleRows, o) = {}
    BY <1>2 DEF Usage!Of, Usage!StaleRows
  <2> QED
    BY <1>1, <2>1 DEF Usage!WholeIn
<1>3. CASE \E r \in Usage!Of(x3, o) : r.version # Usage!ValidVersion(o)
  <2>1. \A r \in Usage!Of(x3, o) : r.version # Usage!ValidVersion(o)
    BY <1>1, <1>3, OneVersion
  <2>2. Usage!Of(Usage!StaleRows, o) = Usage!Of(x3, o)
    BY <2>1 DEF Usage!Of, Usage!StaleRows
  <2> QED
    BY <1>1, <2>2 DEF Usage!WholeIn
<1> QED
  BY <1>1, <1>2, <1>3

\* What is wanted of some orders is of each what its version says.
LEMMA WantedOf ==
  ASSUME x2 \subseteq Editions, NEW S \in SUBSET Sales, NEW o \in Sales
  PROVE  Usage!Of(UNION {Usage!RowsBy(p, Usage!ValidVersion(p)) : p \in S}, o)
           = IF o \in S THEN Usage!RowsBy(o, Usage!ValidVersion(o)) ELSE {}
<1> DEFINE rows == UNION {Usage!RowsBy(p, Usage!ValidVersion(p)) : p \in S}
<1>1. \A p \in Sales : \A r \in Usage!RowsBy(p, Usage!ValidVersion(p)) : r.order = p
  BY VersionIsKnown, RowsOfAVersion
<1>2. \A r \in rows : \E p \in S : r \in Usage!RowsBy(p, Usage!ValidVersion(p))
  OBVIOUS
<1>3. o \in S => Usage!RowsBy(o, Usage!ValidVersion(o)) \subseteq rows
  OBVIOUS
<1> HIDE DEF rows
<1>4. Usage!Of(rows, o) = IF o \in S THEN Usage!RowsBy(o, Usage!ValidVersion(o)) ELSE {}
  BY <1>1, <1>2, <1>3 DEF Usage!Of
<1> QED
  BY <1>4 DEF rows

LEMMA UsageBegins == Usage!Init => Usage!UsageInv
<1> SUFFICES ASSUME Usage!Init PROVE Usage!UsageInv
  OBVIOUS
<1>1. \A c \in Writers : x4[c] = Usage!Idle
  BY DEF Usage!Init
<1>2. Usage!Idle \in Usage!Pass /\ x4 \in [Writers -> Usage!Pass]
  BY DEF Usage!Init, Usage!Idle, Usage!Pass
<1>3. Usage!Formed
  BY <1>1, <1>2 DEF Usage!Init, Usage!Formed, Usage!Idle
<1>4. Usage!Whole /\ Usage!PassesAreWhole /\ Usage!OneWrites /\ Usage!RowsAreOfImported
  BY <1>1 DEF Usage!Init, Usage!Whole, Usage!RowsOf, Usage!PassesAreWhole, Usage!WholeIn, Usage!Of, Usage!Idle,
              Usage!OneWrites, Usage!RowsAreOfImported
<1>5. Usage!AloneIsRight
  BY <1>1 DEF Usage!AloneIsRight, Usage!Idle
<1> QED
  BY <1>3, <1>4, <1>5 DEF Usage!UsageInv

\* What is known of a pass by where it stands.
LEMMA PassIsKnown ==
  ASSUME Usage!Formed, NEW c \in Writers
  PROVE  /\ x4[c] \in Usage!Pass
         /\ x4[c].at \in {"idle", "remove", "begin", "delete", "find", "insert", "commit"}
         /\ x4[c].gone \in Editions \cup {None} /\ x4[c].alone \in BOOLEAN
         /\ x4[c].stale \subseteq Usage!Rows /\ x4[c].deleted \subseteq Usage!Rows
         /\ x4[c].wanted \subseteq Usage!Rows /\ x4[c].inserted \subseteq Usage!Rows
         /\ x4[c].at \in {"idle", "remove", "begin"} => x4[c].stale = {} /\ ~x4[c].alone
         /\ x4[c].at \in {"idle", "remove", "begin", "delete"} => x4[c].deleted = {}
         /\ x4[c].at \in {"idle", "remove", "begin", "delete", "find"} => x4[c].wanted = {}
         /\ x4[c].at # "commit" => x4[c].inserted = {}
         /\ x4[c].inserted \subseteq x4[c].wanted
<1>1. x4[c] \in Usage!Pass
  BY DEF Usage!Formed
<1> QED
  BY <1>1 DEF Usage!Formed, Usage!Pass

\* Whoever is disturbed goes on as before, but not alone.
LEMMA DisturbedGoOn ==
  ASSUME Usage!Formed
  PROVE  /\ Usage!Disturbed \in [Writers -> Usage!Pass]
         /\ \A d \in Writers : LET new == Usage!Disturbed[d] IN
              /\ ~new.alone /\ new.at = x4[d].at /\ new.gone = x4[d].gone /\ new.stale = x4[d].stale
              /\ new.deleted = x4[d].deleted /\ new.wanted = x4[d].wanted /\ new.inserted = x4[d].inserted
<1>1. \A d \in Writers : x4[d] \in Usage!Pass
  BY DEF Usage!Formed
<1> QED
  BY <1>1 DEF Usage!Disturbed, Usage!Pass

\* An order is imported: who writes what its status says is disturbed.
LEMMA ImportKeeps ==
  ASSUME Usage!UsageInv, NEW o \in Sales, Usage!ImportOrder(o)
  PROVE  Usage!UsageInv'
<1> USE DEF Usage!UsageInv
<1>1. /\ x1' \in [Sales -> {"none", "ok", "failed"}] /\ x1'[o] # "none"
      /\ \A p \in Sales : p # o => x1'[p] = x1[p]
  BY DEF Usage!ImportOrder, Usage!Formed
<1>2. /\ x4' \in [Writers -> Usage!Pass]
      /\ \A d \in Writers : /\ x4'[d].at = x4[d].at /\ x4'[d].stale = x4[d].stale /\ x4'[d].deleted = x4[d].deleted
                            /\ x4'[d].wanted = x4[d].wanted /\ x4'[d].inserted = x4[d].inserted
                            /\ (x4'[d].alone => x4[d].alone /\ x1[o] = "none")
  BY DisturbedGoOn DEF Usage!ImportOrder, Usage!Formed
<1>3. x2' = x2 /\ x3' = x3 /\ x5' = x5
  BY DEF Usage!ImportOrder
<1>4. Usage!Formed'
  BY <1>1, <1>2, <1>3 DEF Usage!Formed
<1>5. Usage!Whole' /\ Usage!PassesAreWhole' /\ Usage!OneWrites'
  BY <1>2, <1>3 DEF Usage!Whole, Usage!RowsOf, Usage!RowsBy, Usage!PassesAreWhole, Usage!WholeIn, Usage!Of, Usage!At,
                    Usage!OneWrites, Usage!Others
<1>6. Usage!RowsAreOfImported'
  BY <1>1, <1>2, <1>3 DEF Usage!RowsAreOfImported, Usage!RowsOf, Usage!Of
<1>7. Usage!AloneIsRight'
  <2> SUFFICES ASSUME NEW c \in Writers, x4'[c].alone PROVE Usage!FoundIsSo(c)'
    BY DEF Usage!AloneIsRight
  <2>1. x4[c].alone /\ x1[o] = "none" /\ Usage!FoundIsSo(c)
    BY <1>2 DEF Usage!AloneIsRight
  <2>2. o \notin Usage!Written(c) /\ Usage!Written(c)' = Usage!Written(c)
    BY <1>2, <1>3, <2>1 DEF Usage!RowsAreOfImported, Usage!Written, Usage!OrdersOf, Usage!RowsOf, Usage!Of
  <2>3. Usage!StaleRows' = Usage!StaleRows /\ \A p : Usage!ValidVersion(p)' = Usage!ValidVersion(p)
    BY <1>3 DEF Usage!StaleRows, Usage!ValidVersion
  <2>4. \A p \in Usage!Written(c) : p \in Sales /\ p # o
    BY <2>2, PassIsKnown DEF Usage!Written, Usage!OrdersOf, Usage!Rows
  <2> QED
    BY <1>1, <1>2, <1>3, <2>1, <2>2, <2>3, <2>4
       DEF Usage!FoundIsSo, Usage!At, Usage!Others, Usage!Of, Usage!RowsOf, Usage!RowsBy
<1> QED
  BY <1>4, <1>5, <1>6, <1>7

\* Whoever writes nothing yet, or no more, keeps what is true of the others.
LEMMA RestingKeeps ==
  ASSUME Usage!UsageInv, UNCHANGED <<x1, x2, x3, x5>>, NEW c \in Writers, x4' \in [Writers -> Usage!Pass],
         \A d \in Writers : d # c => x4'[d] = x4[d],
         x4'[c].at \in {"idle", "remove", "begin"}, ~x4'[c].alone, x4'[c].stale = {}, x4'[c].deleted = {},
         x4'[c].wanted = {}, x4'[c].inserted = {}
  PROVE  Usage!UsageInv'
<1> USE DEF Usage!UsageInv
<1>1. Usage!Formed'
  BY DEF Usage!Formed
<1>2. Usage!Whole' /\ Usage!PassesAreWhole'
  BY DEF Usage!Whole, Usage!RowsOf, Usage!RowsBy, Usage!PassesAreWhole, Usage!WholeIn, Usage!Of, Usage!At
<1>3. Usage!OneWrites' /\ Usage!RowsAreOfImported'
  BY DEF Usage!OneWrites, Usage!Others, Usage!Of, Usage!RowsOf, Usage!RowsAreOfImported
<1>4. Usage!AloneIsRight'
  <2> SUFFICES ASSUME NEW d \in Writers, x4'[d].alone PROVE Usage!FoundIsSo(d)'
    BY DEF Usage!AloneIsRight
  <2>1. d # c /\ x4'[d] = x4[d] /\ Usage!FoundIsSo(d)
    BY DEF Usage!AloneIsRight
  <2>2. Usage!StaleRows' = Usage!StaleRows /\ Usage!Written(d)' = Usage!Written(d)
        /\ \A p : Usage!ValidVersion(p)' = Usage!ValidVersion(p)
    BY <2>1 DEF Usage!StaleRows, Usage!ValidVersion, Usage!Written, Usage!RowsOf, Usage!OrdersOf
  <2> QED
    BY <2>1, <2>2 DEF Usage!FoundIsSo, Usage!At, Usage!Others, Usage!Of, Usage!RowsOf, Usage!RowsBy
<1> QED
  BY <1>1, <1>2, <1>3, <1>4

LEMMA BeginningKeeps ==
  ASSUME Usage!UsageInv, NEW c \in Writers,
         Usage!JobBegins(c) \/ Usage!Rollback(c) \/ \E v \in Editions : Usage!AskRemove(c, v)
  PROVE  Usage!UsageInv'
<1>1. UNCHANGED <<x1, x2, x3, x5>>
  BY DEF Usage!JobBegins, Usage!Rollback, Usage!AskRemove
<1>2. /\ x4 \in [Writers -> Usage!Pass] /\ x4' \in [Writers -> Usage!Pass]
      /\ \A d \in Writers : d # c => x4'[d] = x4[d]
  <2>1. x4 \in [Writers -> Usage!Pass] /\ x4[c] \in Usage!Pass
    BY DEF Usage!UsageInv, Usage!Formed
  <2>2. CASE Usage!JobBegins(c)
    <3>1. [x4[c] EXCEPT !.at = "begin"] \in Usage!Pass
      BY <2>1 DEF Usage!Pass
    <3> QED
      BY <2>1, <2>2, <3>1, Zenon DEF Usage!JobBegins
  <2>3. CASE Usage!Rollback(c)
    BY <2>1, <2>3 DEF Usage!Rollback, Usage!Idle, Usage!Pass
  <2>4. CASE \E v \in Editions : Usage!AskRemove(c, v)
    <3>1. PICK v \in Editions : Usage!AskRemove(c, v)
      BY <2>4
    <3>2. [x4[c] EXCEPT !.at = "remove", !.gone = v] \in Usage!Pass
      BY <2>1 DEF Usage!Pass
    <3> QED
      BY <2>1, <3>1, <3>2 DEF Usage!AskRemove
  <2> QED
    BY <2>1, <2>2, <2>3, <2>4
<1>3. /\ x4'[c].at \in {"idle", "remove", "begin"} /\ ~x4'[c].alone /\ x4'[c].stale = {} /\ x4'[c].deleted = {}
      /\ x4'[c].wanted = {} /\ x4'[c].inserted = {}
  BY <1>2, PassIsKnown DEF Usage!UsageInv, Usage!JobBegins, Usage!Rollback, Usage!AskRemove, Usage!At, Usage!Idle,
     Usage!Pass
<1> QED
  BY <1>1, <1>2, <1>3, RestingKeeps

\* A version comes or goes, and a pass begins: nobody is alone for the time being.
LEMMA VersionsKeep ==
  ASSUME Usage!UsageInv, NEW c \in Writers, Usage!Remove(c) \/ \E v \in Editions : Usage!CreateVersion(c, v)
  PROVE  Usage!UsageInv'
<1> USE DEF Usage!UsageInv
<1>1. /\ x1' = x1 /\ x5' = x5 /\ x2' \subseteq Editions
      /\ x3' = x3 \/ x3' = {r \in x3 : r.version # x4[c].gone}
  BY DEF Usage!Remove, Usage!CreateVersion, Usage!Formed
<1>2. /\ x4' \in [Writers -> Usage!Pass] /\ \A d \in Writers : ~x4'[d].alone
      /\ \A d \in Writers : d # c =>
           /\ x4'[d].at = x4[d].at /\ x4'[d].stale = x4[d].stale /\ x4'[d].deleted = x4[d].deleted
           /\ x4'[d].wanted = x4[d].wanted /\ x4'[d].inserted = x4[d].inserted
      /\ x4'[c].at \in {"idle", "begin"} /\ x4'[c].stale = {} /\ x4'[c].deleted = {} /\ x4'[c].wanted = {}
      /\ x4'[c].inserted = {}
  <2> DEFINE fresh == [Usage!Idle EXCEPT !.at = "begin"]
  <2>1. Usage!Idle \in Usage!Pass /\ fresh \in Usage!Pass
    BY DEF Usage!Idle, Usage!Pass
  <2>2. Usage!Idle.at = "idle" /\ fresh.at = "begin" /\ \A p \in {Usage!Idle, fresh} :
          ~p.alone /\ p.stale = {} /\ p.deleted = {} /\ p.wanted = {} /\ p.inserted = {}
    BY DEF Usage!Idle
  <2>3. CASE Usage!Remove(c)
    <3>1. PICK p \in {Usage!Idle, fresh} : x4' = [Usage!Disturbed EXCEPT ![c] = p]
      BY <2>3 DEF Usage!Remove
    <3>2. x4' \in [Writers -> Usage!Pass] /\ x4'[c] = p /\ \A d \in Writers : d # c => x4'[d] = Usage!Disturbed[d]
      BY <2>1, <3>1, DisturbedGoOn
    <3> QED
      BY <2>2, <3>1, <3>2, DisturbedGoOn
  <2>4. CASE \E v \in Editions : Usage!CreateVersion(c, v)
    <3> DEFINE p == [Usage!Disturbed[c] EXCEPT !.at = "begin"]
    <3>1. x4' = [Usage!Disturbed EXCEPT ![c] = p] /\ x4[c].at = "idle"
      BY <2>4 DEF Usage!CreateVersion, Usage!At
    <3>2. /\ p \in Usage!Pass /\ p.at = "begin" /\ ~p.alone /\ p.stale = {} /\ p.deleted = {} /\ p.wanted = {}
          /\ p.inserted = {}
      BY <3>1, DisturbedGoOn, PassIsKnown DEF Usage!Pass
    <3> HIDE DEF p
    <3>3. x4' \in [Writers -> Usage!Pass] /\ x4'[c] = p /\ \A d \in Writers : d # c => x4'[d] = Usage!Disturbed[d]
      BY <3>1, <3>2, DisturbedGoOn
    <3> QED
      BY <3>2, <3>3, DisturbedGoOn
  <2> QED
    BY <2>3, <2>4
<1>3. Usage!Formed'
  BY <1>1, <1>2 DEF Usage!Formed
<1>4. Usage!Whole'
  <2> SUFFICES ASSUME NEW o \in Sales \ x5 PROVE Usage!RowsOf(o)' = {} \/ Usage!RowsOf(o)' = Usage!RowsOf(o)
    BY <1>1 DEF Usage!Whole, Usage!RowsBy
  <2>1. CASE x3' = x3
    BY <2>1 DEF Usage!RowsOf
  <2>2. CASE x3' = {r \in x3 : r.version # x4[c].gone}
    <3>1. \A r, s \in Usage!RowsOf(o) : r.version = s.version
      BY StaleIsWhole, OneVersion
    <3> QED
      BY <2>2, <3>1 DEF Usage!RowsOf
  <2> QED
    BY <1>1, <2>1, <2>2
<1>5. Usage!PassesAreWhole'
  BY <1>1, <1>2 DEF Usage!PassesAreWhole, Usage!WholeIn, Usage!Of, Usage!RowsBy, Usage!At
<1>6. Usage!OneWrites' /\ Usage!RowsAreOfImported'
  BY <1>1, <1>2 DEF Usage!OneWrites, Usage!Others, Usage!Of, Usage!RowsOf, Usage!RowsAreOfImported
<1>7. Usage!AloneIsRight'
  BY <1>2 DEF Usage!AloneIsRight
<1> QED
  BY <1>3, <1>4, <1>5, <1>6, <1>7

LEMMA FindStaleKeeps ==
  ASSUME Usage!UsageInv, NEW c \in Writers, Usage!FindStale(c)
  PROVE  Usage!UsageInv'
<1> USE DEF Usage!UsageInv
<1>1. x1' = x1 /\ x2' = x2 /\ x3' = x3 /\ x5' = x5 /\ Usage!StaleRows \subseteq Usage!Rows
  BY DEF Usage!FindStale, Usage!Formed, Usage!StaleRows
<1>2. /\ x4' \in [Writers -> Usage!Pass]
      /\ \A d \in Writers : d # c =>
           /\ x4'[d].at = x4[d].at /\ x4'[d].stale = x4[d].stale /\ x4'[d].deleted = x4[d].deleted
           /\ x4'[d].wanted = x4[d].wanted /\ x4'[d].inserted = x4[d].inserted /\ ~x4'[d].alone
      /\ x4'[c].at = "delete" /\ x4'[c].stale = Usage!StaleRows /\ x4'[c].deleted = {} /\ x4'[c].wanted = {}
      /\ x4'[c].inserted = {} /\ (x4'[c].alone => \A d \in Usage!Others(c) : Usage!At(d, "idle"))
  <2> DEFINE quiet == \A d \in Usage!Others(c) : Usage!At(d, "idle")
             found(b) == [Usage!Disturbed[c] EXCEPT !.at = "delete", !.stale = Usage!StaleRows, !.alone = b]
  <2>1. x4' = [Usage!Disturbed EXCEPT ![c] = found(quiet)] /\ x4[c].at = "begin"
    BY DisturbedGoOn DEF Usage!FindStale, Usage!At
  <2>2. PICK b \in BOOLEAN : b = quiet
    BY Zenon
  <2> DEFINE p == found(b)
  <2>3. x4' = [Usage!Disturbed EXCEPT ![c] = p]
    BY <2>1, <2>2, Zenon
  <2>0. x4[c].at = "begin"
    BY <2>1
  <2>4. /\ p \in Usage!Pass /\ p.at = "delete" /\ p.stale = Usage!StaleRows /\ p.deleted = {} /\ p.wanted = {}
        /\ p.inserted = {} /\ p.alone = b
    <3>1. Usage!Disturbed[c] \in Usage!Pass
      BY DisturbedGoOn
    <3>2. p \in Usage!Pass
      BY <1>1, <3>1 DEF Usage!Pass
    <3>3. /\ p.at = "delete" /\ p.stale = Usage!StaleRows /\ p.deleted = Usage!Disturbed[c].deleted
          /\ p.wanted = Usage!Disturbed[c].wanted /\ p.inserted = Usage!Disturbed[c].inserted
      BY <3>1 DEF Usage!Pass
    <3>4. p.alone = b
      BY <3>1, Zenon DEF Usage!Pass
    <3> QED
      BY <2>0, <3>2, <3>3, <3>4, DisturbedGoOn, PassIsKnown
  <2> HIDE DEF p
  <2>5. x4' \in [Writers -> Usage!Pass] /\ x4'[c] = p /\ \A d \in Writers : d # c => x4'[d] = Usage!Disturbed[d]
    BY <2>3, <2>4, DisturbedGoOn
  <2>6. \A d \in Writers : d # c =>
           /\ x4'[d].at = x4[d].at /\ x4'[d].stale = x4[d].stale /\ x4'[d].deleted = x4[d].deleted
           /\ x4'[d].wanted = x4[d].wanted /\ x4'[d].inserted = x4[d].inserted /\ ~x4'[d].alone
    BY <2>5, DisturbedGoOn
  <2> QED
    BY <2>2, <2>4, <2>5, <2>6
<1>3. Usage!Formed'
  BY <1>1, <1>2 DEF Usage!Formed
<1>4. Usage!Whole'
  BY <1>1 DEF Usage!Whole, Usage!RowsBy, Usage!RowsOf
<1>5. Usage!PassesAreWhole'
  <2>1. \A o \in Sales \ x5 : Usage!WholeIn(Usage!StaleRows, o)
    BY StaleIsWhole
  <2> QED
    BY <1>1, <1>2, <2>1 DEF Usage!PassesAreWhole, Usage!WholeIn, Usage!Of, Usage!RowsBy, Usage!At
<1>6. Usage!OneWrites' /\ Usage!RowsAreOfImported'
  BY <1>1, <1>2 DEF Usage!OneWrites, Usage!Others, Usage!Of, Usage!RowsOf, Usage!RowsAreOfImported
<1>7. Usage!AloneIsRight'
  <2> SUFFICES ASSUME x4'[c].alone PROVE Usage!FoundIsSo(c)'
    BY <1>2 DEF Usage!AloneIsRight
  <2>1. Usage!StaleRows' = Usage!StaleRows
    BY <1>1 DEF Usage!StaleRows, Usage!ValidVersion
  <2> QED
    BY <1>1, <1>2, <2>1 DEF Usage!FoundIsSo, Usage!At, Usage!Others
<1> QED
  BY <1>3, <1>4, <1>5, <1>6, <1>7

\* Who is at work leaves nobody alone but itself.
LEMMA WorkerAlone ==
  ASSUME Usage!UsageInv, NEW c \in Writers, x4[c].at \notin {"idle", "remove", "begin"},
         NEW d \in Writers, x4[d].alone
  PROVE  d = c
BY DEF Usage!UsageInv, Usage!AloneIsRight, Usage!FoundIsSo, Usage!Others

LEMMA DeleteStaleKeeps ==
  ASSUME Usage!UsageInv, NEW c \in Writers, Usage!DeleteStale(c)
  PROVE  Usage!UsageInv'
<1> USE DEF Usage!UsageInv
<1>1. x1' = x1 /\ x2' = x2 /\ x3' = x3 /\ x5' = x5 /\ x4[c].at = "delete"
  BY DEF Usage!DeleteStale, Usage!At
<1>2. /\ x4' \in [Writers -> Usage!Pass] /\ \A d \in Writers : d # c => x4'[d] = x4[d]
      /\ x4'[c].at = "find" /\ x4'[c].stale = x4[c].stale /\ x4'[c].deleted = x4[c].stale \cap x3
      /\ x4'[c].wanted = {} /\ x4'[c].inserted = {} /\ x4'[c].alone = x4[c].alone
  <2> DEFINE p == [x4[c] EXCEPT !.at = "find", !.deleted = x4[c].stale \cap x3]
  <2>1. x4' = [x4 EXCEPT ![c] = p] /\ x4 \in [Writers -> Usage!Pass]
    BY DEF Usage!DeleteStale, Usage!Formed
  <2>2. /\ p \in Usage!Pass /\ p.at = "find" /\ p.stale = x4[c].stale /\ p.deleted = x4[c].stale \cap x3
        /\ p.wanted = {} /\ p.inserted = {} /\ p.alone = x4[c].alone
    BY <1>1, PassIsKnown DEF Usage!Pass
  <2> HIDE DEF p
  <2> QED
    BY <2>1, <2>2
<1>3. Usage!Formed'
  BY <1>1, <1>2 DEF Usage!Formed
<1>4. Usage!Whole'
  BY <1>1 DEF Usage!Whole, Usage!RowsBy, Usage!RowsOf
<1>5. Usage!PassesAreWhole'
  <2>1. \A o \in Sales \ x5 : Usage!WholeIn(x4[c].stale \cap x3, o)
    BY StaleIsWhole, WholeStaysWhole DEF Usage!PassesAreWhole
  <2> QED
    BY <1>1, <1>2, <2>1 DEF Usage!PassesAreWhole, Usage!WholeIn, Usage!Of, Usage!RowsBy, Usage!At
<1>6. Usage!OneWrites' /\ Usage!RowsAreOfImported'
  BY <1>1, <1>2 DEF Usage!OneWrites, Usage!Others, Usage!Of, Usage!RowsOf, Usage!RowsAreOfImported
<1>7. Usage!AloneIsRight'
  <2> SUFFICES ASSUME x4'[c].alone PROVE Usage!FoundIsSo(c)'
    BY <1>1, <1>2, WorkerAlone DEF Usage!AloneIsRight
  <2>1. Usage!FoundIsSo(c) /\ Usage!StaleRows' = Usage!StaleRows
    BY <1>1, <1>2 DEF Usage!AloneIsRight, Usage!StaleRows, Usage!ValidVersion
  <2>2. x4[c].stale \cap x3 = Usage!StaleRows
    BY <1>1, <2>1 DEF Usage!FoundIsSo, Usage!StaleRows, Usage!At
  <2> QED
    BY <1>1, <1>2, <2>1, <2>2 DEF Usage!FoundIsSo, Usage!At, Usage!Others
<1> QED
  BY <1>3, <1>4, <1>5, <1>6, <1>7

LEMMA FindNewKeeps ==
  ASSUME Usage!UsageInv, NEW c \in Writers, Usage!FindNew(c)
  PROVE  Usage!UsageInv'
<1> USE DEF Usage!UsageInv
<1> DEFINE wanted == UNION {Usage!RowsBy(o, Usage!ValidVersion(o)) : o \in Usage!Unwritten(c)}
<1>1. x1' = x1 /\ x2' = x2 /\ x3' = x3 /\ x5' = x5 /\ x4[c].at = "find" /\ x2 \subseteq Editions
  BY DEF Usage!FindNew, Usage!At, Usage!Formed
<1>2. Usage!Unwritten(c) \in SUBSET Sales
  BY DEF Usage!Unwritten
<1>3. \A o \in Sales :
        Usage!Of(wanted, o) = IF o \in Usage!Unwritten(c) THEN Usage!RowsBy(o, Usage!ValidVersion(o)) ELSE {}
  BY <1>1, <1>2, WantedOf
<1>4. wanted \subseteq Usage!Rows
  BY <1>1, <1>2, VersionIsKnown, RowsOfAVersion
<1> HIDE DEF wanted
<1>5. /\ x4' \in [Writers -> Usage!Pass] /\ \A d \in Writers : d # c => x4'[d] = x4[d]
      /\ x4'[c].at = "insert" /\ x4'[c].stale = x4[c].stale /\ x4'[c].deleted = x4[c].deleted
      /\ x4'[c].wanted = wanted /\ x4'[c].inserted = {} /\ x4'[c].alone = x4[c].alone
  <2> DEFINE p == [x4[c] EXCEPT !.at = "insert", !.wanted = wanted]
  <2>1. x4' = [x4 EXCEPT ![c] = p] /\ x4 \in [Writers -> Usage!Pass]
    BY DEF Usage!FindNew, Usage!Formed, wanted
  <2>2. /\ p \in Usage!Pass /\ p.at = "insert" /\ p.stale = x4[c].stale /\ p.deleted = x4[c].deleted
        /\ p.wanted = wanted /\ p.inserted = {} /\ p.alone = x4[c].alone
    BY <1>1, <1>4, PassIsKnown DEF Usage!Pass
  <2> HIDE DEF p
  <2> QED
    BY <2>1, <2>2
<1>6. Usage!Formed'
  BY <1>1, <1>5 DEF Usage!Formed
<1>7. Usage!Whole'
  BY <1>1 DEF Usage!Whole, Usage!RowsBy, Usage!RowsOf
<1>8. Usage!PassesAreWhole'
  <2>1. \A o \in Sales : Usage!WholeIn(wanted, o)
    BY <1>1, <1>3, VersionIsKnown, RowsOfAVersion DEF Usage!WholeIn
  <2> QED
    BY <1>1, <1>5, <2>1 DEF Usage!PassesAreWhole, Usage!WholeIn, Usage!Of, Usage!RowsBy, Usage!At
<1>9. Usage!OneWrites'
  BY <1>1, <1>5 DEF Usage!OneWrites, Usage!Others, Usage!Of, Usage!RowsOf
<1>10. Usage!RowsAreOfImported'
  <2>1. \A o \in Sales : x1[o] = "none" => Usage!Of(wanted, o) = {}
    BY <1>3 DEF Usage!Unwritten
  <2> QED
    BY <1>1, <1>5, <2>1 DEF Usage!Of, Usage!RowsOf, Usage!RowsAreOfImported
<1>11. Usage!AloneIsRight'
  <2> SUFFICES ASSUME x4'[c].alone PROVE Usage!FoundIsSo(c)'
    BY <1>1, <1>5, WorkerAlone DEF Usage!AloneIsRight
  <2>1. Usage!FoundIsSo(c) /\ Usage!StaleRows' = Usage!StaleRows
        /\ \A o : Usage!ValidVersion(o)' = Usage!ValidVersion(o)
    BY <1>1, <1>5 DEF Usage!AloneIsRight, Usage!StaleRows, Usage!ValidVersion
  <2>2. x4[c].deleted = Usage!StaleRows
    BY <1>1, <2>1 DEF Usage!FoundIsSo
  <2>3. \A o \in Sales : x1[o] = "ok" =>
          Usage!Of(wanted, o) =
            IF Usage!RowsOf(o) \subseteq Usage!StaleRows THEN Usage!RowsBy(o, Usage!ValidVersion(o)) ELSE {}
    BY <1>3, <2>2 DEF Usage!Unwritten
  <2>4. Usage!Written(c)' \subseteq Sales
    BY <1>4, <1>5 DEF Usage!Written, Usage!OrdersOf, Usage!Rows
  <2> QED
    BY <1>1, <1>5, <2>1, <2>2, <2>3, <2>4 DEF Usage!FoundIsSo, Usage!At, Usage!Others, Usage!Of, Usage!RowsOf,
       Usage!RowsBy
<1> QED
  BY <1>6, <1>7, <1>8, <1>9, <1>10, <1>11

LEMMA InsertNewKeeps ==
  ASSUME Usage!UsageInv, NEW c \in Writers, Usage!InsertNew(c)
  PROVE  Usage!UsageInv'
<1> USE DEF Usage!UsageInv
<1>1. /\ x1' = x1 /\ x2' = x2 /\ x3' = x3 /\ x4[c].at = "insert"
      /\ x5' = x5 \cup (Usage!OrdersOf(x4[c].wanted) \cap Usage!OrdersOf(Usage!Visible(c) \cup Usage!Uncommitted(c)))
  BY DEF Usage!InsertNew, Usage!At
<1>2. Usage!Insertable(c) \subseteq x4[c].wanted
  BY DEF Usage!Insertable
<1>3. /\ x4' \in [Writers -> Usage!Pass] /\ \A d \in Writers : d # c => x4'[d] = x4[d]
      /\ x4'[c].at = "commit" /\ x4'[c].stale = x4[c].stale /\ x4'[c].deleted = x4[c].deleted
      /\ x4'[c].wanted = x4[c].wanted /\ x4'[c].inserted = Usage!Insertable(c) /\ x4'[c].alone = x4[c].alone
  <2> DEFINE p == [x4[c] EXCEPT !.at = "commit", !.inserted = Usage!Insertable(c)]
  <2>1. x4' = [x4 EXCEPT ![c] = p] /\ x4 \in [Writers -> Usage!Pass]
    BY DEF Usage!InsertNew, Usage!Formed
  <2>2. /\ p \in Usage!Pass /\ p.at = "commit" /\ p.stale = x4[c].stale /\ p.deleted = x4[c].deleted
        /\ p.wanted = x4[c].wanted /\ p.inserted = Usage!Insertable(c) /\ p.alone = x4[c].alone
    BY <1>2, PassIsKnown DEF Usage!Pass
  <2> HIDE DEF p
  <2> QED
    BY <2>1, <2>2
<1>4. x5 \subseteq x5' /\ x5' \subseteq Sales
  BY <1>1, PassIsKnown DEF Usage!Formed, Usage!OrdersOf, Usage!Rows
\* An order that is not mixed has no other rows in sight.
<1>5. ASSUME NEW o \in Sales \ x5', Usage!Of(x4[c].wanted, o) # {}
      PROVE  /\ Usage!RowsOf(o) \subseteq x4[c].deleted
             /\ \A d \in Usage!Others(c) : Usage!Of(x4[d].inserted, o) = {}
  <2>1. o \in Usage!OrdersOf(x4[c].wanted)
    BY <1>5 DEF Usage!OrdersOf, Usage!Of
  <2>2. o \notin Usage!OrdersOf(Usage!Visible(c)) /\ o \notin Usage!OrdersOf(Usage!Uncommitted(c))
    BY <1>1, <1>5, <2>1 DEF Usage!OrdersOf
  <2> QED
    BY <2>2 DEF Usage!OrdersOf, Usage!Visible, Usage!Uncommitted, Usage!RowsOf, Usage!Of
<1>6. ASSUME NEW o \in Sales \ x5' PROVE Usage!Of(Usage!Insertable(c), o) = Usage!Of(x4[c].wanted, o)
  <2>1. CASE Usage!Of(x4[c].wanted, o) = {}
    BY <1>2, <2>1 DEF Usage!Of
  <2>2. CASE Usage!Of(x4[c].wanted, o) # {}
    <3>1. \A r \in Usage!Visible(c) : r.order # o
      BY <1>5, <2>2 DEF Usage!Visible, Usage!RowsOf
    <3>2. \A r \in x4[c].wanted : r.order = o => <<r.order, r.item>> \notin Usage!Keys(Usage!Visible(c))
      BY <3>1 DEF Usage!Keys
    <3> QED
      BY <1>2, <3>2 DEF Usage!Insertable, Usage!Of
  <2> QED
    BY <2>1, <2>2
<1>7. Usage!Formed'
  <2>1. x1' \in [Sales -> {"none", "ok", "failed"}] /\ x2' \subseteq Editions /\ x3' \subseteq Usage!Rows'
    BY <1>1 DEF Usage!Formed, Usage!Rows
  <2>2. \A d \in Writers : d # c => x4'[d] = x4[d]
    BY <1>3
  <2> QED
    BY <1>2, <1>3, <1>4, <2>1, <2>2 DEF Usage!Formed, Usage!Pass, Usage!Rows
<1>8. Usage!Whole'
  BY <1>1, <1>4 DEF Usage!Whole, Usage!RowsBy, Usage!RowsOf
<1>9. Usage!PassesAreWhole'
  <2> SUFFICES ASSUME NEW o \in Sales \ x5', NEW d \in Writers
      PROVE  /\ Usage!WholeIn(x4'[d].stale, o) /\ Usage!WholeIn(x4'[d].deleted, o) /\ Usage!WholeIn(x4'[d].wanted, o)
             /\ (x4'[d].at = "commit" => Usage!Of(x4'[d].inserted, o) = Usage!Of(x4'[d].wanted, o))
    BY DEF Usage!PassesAreWhole, Usage!WholeIn, Usage!Of, Usage!RowsBy, Usage!At
  <2>1. /\ Usage!WholeIn(x4[d].stale, o) /\ Usage!WholeIn(x4[d].deleted, o) /\ Usage!WholeIn(x4[d].wanted, o)
        /\ (x4[d].at = "commit" => Usage!Of(x4[d].inserted, o) = Usage!Of(x4[d].wanted, o))
    BY <1>4 DEF Usage!PassesAreWhole, Usage!At
  <2>2. CASE d = c
    BY <1>3, <1>6, <2>1, <2>2
  <2>3. CASE d # c
    BY <1>3, <2>1, <2>3
  <2> QED
    BY <2>2, <2>3
<1>10. Usage!OneWrites'
  <2> SUFFICES ASSUME NEW o \in Sales \ x5', NEW d \in Writers, Usage!Of(x4'[d].inserted, o) # {}
      PROVE  Usage!RowsOf(o) \subseteq x4'[d].deleted /\ \A e \in Writers : e # d => Usage!Of(x4'[e].inserted, o) = {}
    BY <1>1 DEF Usage!OneWrites, Usage!Others, Usage!RowsOf, Usage!Of
  <2>1. CASE d = c
    <3>1. Usage!Of(x4[c].wanted, o) # {}
      BY <1>3, <1>6, <2>1
    <3> QED
      BY <1>3, <1>5, <2>1, <3>1 DEF Usage!Others
  <2>2. CASE d # c
    <3>1. Usage!Of(x4[d].inserted, o) # {} /\ d \in Usage!Others(c)
      BY <1>3, <2>2 DEF Usage!Others
    <3>2. Usage!Of(x4'[c].inserted, o) = {}
      BY <1>3, <1>5, <1>6, <3>1
    <3> QED
      BY <1>3, <1>4, <2>2, <3>1, <3>2 DEF Usage!OneWrites, Usage!Others
  <2> QED
    BY <2>1, <2>2
<1>11. Usage!RowsAreOfImported'
  BY <1>1, <1>3 DEF Usage!Of, Usage!RowsOf, Usage!RowsAreOfImported
<1>12. Usage!AloneIsRight'
  <2> SUFFICES ASSUME x4'[c].alone PROVE Usage!FoundIsSo(c)'
    BY <1>1, <1>3, WorkerAlone DEF Usage!AloneIsRight
  <2>1. /\ Usage!FoundIsSo(c) /\ Usage!StaleRows' = Usage!StaleRows /\ Usage!Written(c)' = Usage!Written(c)
        /\ \A o : Usage!ValidVersion(o)' = Usage!ValidVersion(o)
    BY <1>1, <1>3 DEF Usage!AloneIsRight, Usage!StaleRows, Usage!ValidVersion, Usage!Written, Usage!OrdersOf,
       Usage!RowsOf
  <2> QED
    BY <1>1, <1>3, <2>1 DEF Usage!FoundIsSo, Usage!At, Usage!Others, Usage!Of, Usage!RowsOf, Usage!RowsBy
<1> QED
  BY <1>7, <1>8, <1>9, <1>10, <1>11, <1>12

LEMMA CommitKeeps ==
  ASSUME Usage!UsageInv, NEW c \in Writers, Usage!Commit(c)
  PROVE  Usage!UsageInv'
<1> USE DEF Usage!UsageInv
<1>1. /\ x1' = x1 /\ x2' = x2 /\ x5' = x5 /\ x3' = (x3 \ x4[c].deleted) \cup x4[c].inserted /\ x4[c].at = "commit"
      /\ x4[c].inserted \subseteq x4[c].wanted /\ x4[c].inserted \subseteq Usage!Rows
  BY PassIsKnown DEF Usage!Commit, Usage!At
<1>2. /\ x4' \in [Writers -> Usage!Pass] /\ \A d \in Writers : d # c => x4'[d] = x4[d]
      /\ x4'[c].at = "idle" /\ ~x4'[c].alone /\ x4'[c].stale = {} /\ x4'[c].deleted = {} /\ x4'[c].wanted = {}
      /\ x4'[c].inserted = {}
  BY DEF Usage!Commit, Usage!Formed, Usage!Idle, Usage!Pass
<1>3. ASSUME NEW o \in Sales \ x5, Usage!Of(x4[c].inserted, o) = {}
      PROVE  Usage!RowsOf(o)' \subseteq Usage!RowsOf(o) /\ Usage!RowsOf(o)' = Usage!Of(x3 \ x4[c].deleted, o)
  BY <1>1, <1>3 DEF Usage!RowsOf, Usage!Of
<1>4. ASSUME NEW o \in Sales \ x5, Usage!Of(x4[c].inserted, o) # {}
      PROVE  Usage!RowsOf(o)' = Usage!Of(x4[c].wanted, o) /\ \A d \in Usage!Others(c) : Usage!Of(x4[d].inserted, o) = {}
  <2>1. /\ Usage!RowsOf(o) \subseteq x4[c].deleted /\ Usage!Of(x4[c].inserted, o) = Usage!Of(x4[c].wanted, o)
        /\ \A d \in Usage!Others(c) : Usage!Of(x4[d].inserted, o) = {}
    BY <1>1, <1>4 DEF Usage!OneWrites, Usage!PassesAreWhole, Usage!At
  <2>2. Usage!RowsOf(o)' = Usage!Of(x4[c].inserted, o)
    BY <1>1, <2>1 DEF Usage!RowsOf, Usage!Of
  <2> QED
    BY <2>1, <2>2
<1>5. Usage!Formed'
  BY <1>1, <1>2 DEF Usage!Formed
<1>6. Usage!Whole'
  <2> SUFFICES ASSUME NEW o \in Sales \ x5
               PROVE  Usage!RowsOf(o)' = {} \/ \E v \in Editions : Usage!RowsOf(o)' = Usage!RowsBy(o, v)
    BY <1>1 DEF Usage!Whole, Usage!RowsBy
  <2>1. Usage!WholeIn(x3 \ x4[c].deleted, o) /\ Usage!WholeIn(x4[c].wanted, o)
    BY StaleIsWhole, WholeStaysWhole DEF Usage!PassesAreWhole
  <2> QED
    BY <1>3, <1>4, <2>1 DEF Usage!WholeIn
<1>7. Usage!PassesAreWhole'
  BY <1>1, <1>2 DEF Usage!PassesAreWhole, Usage!WholeIn, Usage!Of, Usage!RowsBy, Usage!At
<1>8. Usage!OneWrites'
  <2> SUFFICES ASSUME NEW o \in Sales \ x5, NEW d \in Writers, Usage!Of(x4'[d].inserted, o) # {}
      PROVE  Usage!RowsOf(o)' \subseteq x4'[d].deleted /\ \A e \in Writers : e # d => Usage!Of(x4'[e].inserted, o) = {}
    BY <1>1 DEF Usage!OneWrites, Usage!Others, Usage!RowsOf, Usage!Of
  <2>1. d # c /\ x4'[d] = x4[d] /\ Usage!Of(x4[d].inserted, o) # {}
    BY <1>2 DEF Usage!Of
  <2>2. /\ Usage!RowsOf(o) \subseteq x4[d].deleted
        /\ \A e \in Writers : e # d => Usage!Of(x4[e].inserted, o) = {}
    BY <2>1 DEF Usage!OneWrites, Usage!Others
  <2>3. Usage!Of({}, o) = {}
    BY DEF Usage!Of
  <2> QED
    BY <1>2, <1>3, <2>1, <2>2, <2>3
<1>9. Usage!RowsAreOfImported'
  BY <1>1, <1>2 DEF Usage!Of, Usage!RowsOf, Usage!RowsAreOfImported
<1>10. Usage!AloneIsRight'
  BY <1>1, <1>2, WorkerAlone DEF Usage!AloneIsRight
<1> QED
  BY <1>5, <1>6, <1>7, <1>8, <1>9, <1>10

\* A pass that was alone has set right what it has written.
LEMMA CommitCorrects ==
  ASSUME Usage!UsageInv, NEW c \in Writers
  PROVE  Usage!Current(c)
<1> USE DEF Usage!UsageInv
<1> SUFFICES ASSUME Usage!Commit(c), x4[c].alone, NEW o \in Usage!Written(c) \ x5, x1[o] = "ok"
             PROVE  Usage!RowsOf(o)' = Usage!RowsBy(o, Usage!ValidVersion(o))
  BY DEF Usage!Current
<1>1. x3' = (x3 \ x4[c].deleted) \cup x4[c].inserted /\ x4[c].at = "commit" /\ o \in Sales
  BY PassIsKnown DEF Usage!Commit, Usage!At, Usage!Written, Usage!OrdersOf, Usage!Rows
<1>2. /\ x4[c].deleted = Usage!StaleRows
      /\ Usage!Of(x4[c].wanted, o)
           = IF Usage!RowsOf(o) \subseteq Usage!StaleRows THEN Usage!RowsBy(o, Usage!ValidVersion(o)) ELSE {}
      /\ Usage!Of(x4[c].inserted, o) = Usage!Of(x4[c].wanted, o)
  BY <1>1 DEF Usage!AloneIsRight, Usage!FoundIsSo, Usage!PassesAreWhole, Usage!At
<1>3. Usage!RowsOf(o)' = (Usage!RowsOf(o) \ Usage!StaleRows) \cup Usage!Of(x4[c].wanted, o)
  BY <1>1, <1>2 DEF Usage!RowsOf, Usage!Of
<1>4. CASE Usage!RowsOf(o) \subseteq Usage!StaleRows
  BY <1>2, <1>3, <1>4
<1>5. CASE ~(Usage!RowsOf(o) \subseteq Usage!StaleRows)
  <2>1. PICK r \in Usage!RowsOf(o) : r \notin Usage!StaleRows
    BY <1>5
  <2>2. r.version = Usage!ValidVersion(o) /\ r \in Usage!Of(x3, o)
    BY <2>1 DEF Usage!StaleRows, Usage!RowsOf, Usage!Of
  <2>3. /\ Usage!RowsOf(o) = Usage!RowsBy(o, Usage!ValidVersion(o))
        /\ \A s \in Usage!RowsOf(o) : s.version = Usage!ValidVersion(o)
    BY <1>1, <2>2, StaleIsWhole, OneVersion
  <2>4. Usage!RowsOf(o) \ Usage!StaleRows = Usage!RowsOf(o)
    BY <2>3 DEF Usage!StaleRows, Usage!RowsOf
  <2> QED
    BY <1>2, <1>3, <1>5, <2>3, <2>4
<1> QED
  BY <1>4, <1>5

LEMMA UsageGoesOn == Usage!UsageInv /\ [Usage!Next]_(Usage!usageVars) => Usage!UsageInv'
<1> SUFFICES ASSUME Usage!UsageInv, [Usage!Next]_(Usage!usageVars) PROVE Usage!UsageInv'
  OBVIOUS
<1>1. CASE UNCHANGED Usage!usageVars
  <2> USE <1>1 DEF Usage!usageVars, Usage!UsageInv
  <2>1. Usage!Formed' /\ Usage!Whole' /\ Usage!OneWrites' /\ Usage!RowsAreOfImported'
    BY DEF Usage!Formed, Usage!Whole, Usage!OneWrites, Usage!RowsAreOfImported, Usage!RowsOf, Usage!RowsBy, Usage!Of,
       Usage!Others
  <2>2. Usage!PassesAreWhole'
    BY DEF Usage!PassesAreWhole, Usage!WholeIn, Usage!RowsBy, Usage!Of, Usage!At
  <2>3. Usage!AloneIsRight'
    <3> SUFFICES ASSUME NEW c \in Writers, x4[c].alone, Usage!FoundIsSo(c) PROVE Usage!FoundIsSo(c)'
      BY DEF Usage!AloneIsRight
    <3>1. /\ Usage!StaleRows' = Usage!StaleRows /\ Usage!Written(c)' = Usage!Written(c)
          /\ \A o : Usage!ValidVersion(o)' = Usage!ValidVersion(o)
      BY DEF Usage!StaleRows, Usage!ValidVersion, Usage!Written, Usage!OrdersOf, Usage!RowsOf
    <3> QED
      BY <3>1 DEF Usage!FoundIsSo, Usage!RowsOf, Usage!RowsBy, Usage!Of, Usage!At, Usage!Others
  <2> QED
    BY <2>1, <2>2, <2>3
<1>2. CASE Usage!Next
  BY <1>2, ImportKeeps, BeginningKeeps, VersionsKeep, FindStaleKeeps, DeleteStaleKeeps, FindNewKeeps, InsertNewKeeps,
     CommitKeeps DEF Usage!Next
<1> QED
  BY <1>1, <1>2

-----------------------------------------------------------------------------
(* Support, for any chats, updates, codes and calls of the webhook.           *)

LEMMA SupportBegins == Support!Init => Support!SupportInv
<1> SUFFICES ASSUME Support!Init PROVE Support!SupportInv
  OBVIOUS
<1> USE DEF Support!Init, Support!Free, Support!NoReply
<1>1. Support!Free \in Support!HandlerRow
  BY DEF Support!HandlerRow
<1>2. Support!Formed /\ Support!AnsweredIsStored /\ Support!DraftIsForTheOpen /\ Support!ReplyIsForThem
  BY <1>1 DEF Support!Formed, Support!AnsweredIsStored, Support!DraftIsForTheOpen, Support!ReplyIsForThem
<1>3. Support!CodeIsInOnePlace /\ Support!OneChatForACode
  BY DEF Support!CodeIsInOnePlace, Support!OneChatForACode, Support!At, Support!Holds
<1> QED
  BY <1>2, <1>3 DEF Support!SupportInv

\* A call goes on, and only that.
LEMMA CallGoesOn ==
  ASSUME Support!Formed, NEW h \in Threads, NEW row \in Support!HandlerRow, x8' = [x8 EXCEPT ![h] = row]
  PROVE  x8' \in [Threads -> Support!HandlerRow] /\ x8'[h] = row /\ \A g \in Threads : g # h => x8'[g] = x8[g]
BY DEF Support!Formed

\* The screen of the admin takes no code and answers no update.
LEMMA AdminKeeps ==
  ASSUME Support!SupportInv, UNCHANGED <<x1, x2, x3, x4, x8>>, Support!DraftIsForTheOpen', Support!ReplyIsForThem'
  PROVE  Support!SupportInv' /\ Support!AccountStays /\ Support!AnswersStop
BY DEF Support!SupportInv, Support!Formed, Support!CodeIsInOnePlace, Support!AnsweredIsStored, Support!OneChatForACode,
       Support!At, Support!Holds, Support!AccountStays, Support!AnswersStop

LEMMA ScreenKeeps ==
  ASSUME Support!SupportInv,
         \/ \E u \in Updates : Support!Event(u)
         \/ \E c \in Chats : Support!OpenThread(c)
         \/ Support!Type \/ Support!Reconnect \/ Support!Refresh \/ Support!Send \/ Support!Record
         \/ Support!ReplyFails \/ Support!SetStatus
  PROVE  Support!SupportInv' /\ Support!AccountStays /\ Support!AnswersStop
<1> USE DEF Support!SupportInv
<1>1. UNCHANGED <<x1, x2, x3, x4, x8>>
  BY DEF Support!Event, Support!OpenThread, Support!Type, Support!Reconnect, Support!Refresh, Support!Send,
     Support!Record, Support!ReplyFails, Support!SetStatus, Support!thread
<1>2. Support!DraftIsForTheOpen'
  BY DEF Support!DraftIsForTheOpen, Support!Event, Support!OpenThread, Support!Type, Support!Reconnect,
     Support!Refresh, Support!Send, Support!Record, Support!ReplyFails, Support!SetStatus, Support!thread
<1>3. Support!ReplyIsForThem'
  <2>1. CASE Support!Send
    BY <2>1 DEF Support!Send, Support!DraftIsForTheOpen, Support!ReplyIsForThem
  <2>2. CASE Support!Record \/ Support!ReplyFails
    BY <2>2 DEF Support!Record, Support!ReplyFails, Support!NoReply, Support!ReplyIsForThem
  <2>3. CASE x14' = x14
    BY <2>3 DEF Support!ReplyIsForThem
  <2> QED
    BY <2>1, <2>2, <2>3 DEF Support!Event, Support!OpenThread, Support!Type, Support!Reconnect, Support!Refresh,
       Support!SetStatus
<1> QED
  BY <1>1, <1>2, <1>3, AdminKeeps

\* A call that holds no code at the end.
LEMMA WebhookKeeps ==
  ASSUME Support!SupportInv, NEW h \in Threads,
         \/ \E u \in Updates : Support!Deliver(h, u)
         \/ Support!Greet(h) \/ Support!Answer(h) \/ Support!Fail(h)
  PROVE  Support!SupportInv' /\ Support!AccountStays /\ Support!AnswersStop
<1> USE DEF Support!SupportInv
<1>1. x1' = x1 /\ x3' = x3 /\ x4' = x4 /\ x13' = x13 /\ x12' = x12 /\ x14' = x14
  BY DEF Support!Deliver, Support!Greet, Support!Answer, Support!Fail, Support!thread, Support!screen
<1>2. PICK row \in Support!HandlerRow :
        /\ x8' = [x8 EXCEPT ![h] = row] /\ row.at # "store" /\ (row.at \in {"greet", "answer"} => row.update \in x3)
  <2> USE DEF Support!HandlerRow, Support!Free
  <2>1. x8[h] \in Support!HandlerRow
    BY DEF Support!Formed
  <2>2. CASE \E u \in Updates : Support!Deliver(h, u)
    <3>1. PICK u \in Updates : Support!Deliver(h, u)
      BY <2>2
    <3> DEFINE known == [Support!Free EXCEPT !.at = "answer", !.update = u]
               new == [Support!Free EXCEPT !.at = "code", !.update = u]
    <3>2. /\ known \in Support!HandlerRow /\ known.at = "answer" /\ known.update = u
          /\ new \in Support!HandlerRow /\ new.at = "code"
      OBVIOUS
    <3>3. x8' = [x8 EXCEPT ![h] = IF u \in x3 THEN known ELSE new]
      BY <3>1 DEF Support!Deliver
    <3> HIDE DEF known, new
    <3>4. CASE u \in x3
      BY <3>2, <3>3, <3>4
    <3>5. CASE u \notin x3
      BY <3>2, <3>3, <3>5
    <3> QED
      BY <3>4, <3>5
  <2>3. CASE Support!Greet(h)
    <3>1. [x8[h] EXCEPT !.at = "answer"] \in Support!HandlerRow
      BY <2>1
    <3> QED
      BY <2>1, <2>3, <3>1 DEF Support!Greet, Support!At, Support!AnsweredIsStored
  <2>4. CASE Support!Answer(h) \/ Support!Fail(h)
    <3>1. Support!Free \in Support!HandlerRow /\ Support!Free.at = "free"
      OBVIOUS
    <3>2. x8' = [x8 EXCEPT ![h] = Support!Free]
      BY <2>4 DEF Support!Answer, Support!Fail
    <3> QED
      BY <3>1, <3>2
  <2> QED
    BY <2>2, <2>3, <2>4
<1>3. x8' \in [Threads -> Support!HandlerRow] /\ x8'[h] = row /\ \A g \in Threads : g # h => x8'[g] = x8[g]
  BY <1>2, CallGoesOn
<1>4. Support!Formed' /\ Support!DraftIsForTheOpen' /\ Support!ReplyIsForThem'
  BY <1>1, <1>3 DEF Support!Formed, Support!DraftIsForTheOpen, Support!ReplyIsForThem, Support!HandlerRow
<1>5. Support!AnsweredIsStored'
  BY <1>1, <1>2, <1>3 DEF Support!AnsweredIsStored
<1>6. Support!CodeIsInOnePlace' /\ Support!OneChatForACode'
  BY <1>1, <1>2, <1>3 DEF Support!CodeIsInOnePlace, Support!OneChatForACode, Support!At, Support!Holds
<1>7. Support!AccountStays
  BY <1>1 DEF Support!AccountStays
<1>8. Support!AnswersStop
  BY DEF Support!AnswersStop, Support!AnsweredIsStored, Support!Deliver, Support!Greet, Support!Answer, Support!Fail,
     Support!At
<1> QED
  BY <1>4, <1>5, <1>6, <1>7, <1>8

LEMMA TakeCodeKeeps ==
  ASSUME Support!SupportInv, NEW h \in Threads, Support!TakeCode(h)
  PROVE  Support!SupportInv' /\ Support!AccountStays /\ Support!AnswersStop
<1> USE DEF Support!SupportInv
<1> DEFINE code == CodeOf[x8[h].update]
           taken == IF code \in x1 THEN code ELSE None
           row == [x8[h] EXCEPT !.at = "store", !.code = taken]
<1>1. /\ x2' = x2 /\ x3' = x3 /\ x4' = x4 /\ x13' = x13 /\ x12' = x12 /\ x14' = x14
      /\ x1' = x1 \ {code} /\ x8' = [x8 EXCEPT ![h] = row] /\ x8[h].at = "code"
  BY DEF Support!TakeCode, Support!thread, Support!screen, Support!Left, Support!At
<1>2. x8[h] \in Support!HandlerRow /\ taken \in StartCodes \cup {None} /\ x1 \subseteq StartCodes
  BY DEF Support!Formed
<1>3. row \in Support!HandlerRow /\ row.at = "store" /\ row.code = taken
  BY <1>2 DEF Support!HandlerRow
<1> HIDE DEF row
<1>4. x8' \in [Threads -> Support!HandlerRow] /\ x8'[h] = row /\ \A g \in Threads : g # h => x8'[g] = x8[g]
  BY <1>1, <1>3, CallGoesOn
<1>5. Support!Formed' /\ Support!DraftIsForTheOpen' /\ Support!ReplyIsForThem'
  BY <1>1, <1>2, <1>4 DEF Support!Formed, Support!DraftIsForTheOpen, Support!ReplyIsForThem, Support!HandlerRow
<1>6. Support!AnsweredIsStored'
  BY <1>1, <1>3, <1>4 DEF Support!AnsweredIsStored
<1>7. Support!CodeIsInOnePlace'
  BY <1>1, <1>2, <1>3, <1>4 DEF Support!CodeIsInOnePlace, Support!Holds, Support!At
<1>8. Support!OneChatForACode'
  <2>1. taken # None => \A c \in Chats : x4[c] # taken
    BY <1>2 DEF Support!CodeIsInOnePlace
  <2> QED
    BY <1>1, <1>3, <1>4, <2>1 DEF Support!OneChatForACode, Support!At
<1> QED
  BY <1>1, <1>5, <1>6, <1>7, <1>8 DEF Support!AccountStays, Support!AnswersStop

LEMMA StoreKeeps ==
  ASSUME Support!SupportInv, NEW h \in Threads, Support!Store(h)
  PROVE  Support!SupportInv' /\ Support!AccountStays /\ Support!AnswersStop
<1> USE DEF Support!SupportInv
<1> DEFINE u == x8[h].update
           at == IF Support!Start(u) THEN "greet" ELSE "answer"
           row == [x8[h] EXCEPT !.at = at]
           bound == Support!Bound(ChatOf[u], x8[h].code)
<1>1. /\ x1' = x1 /\ x2' = x2 /\ x13' = x13 /\ x12' = x12 /\ x14' = x14 /\ x3' = x3 \cup {u}
      /\ x4' = [x4 EXCEPT ![ChatOf[u]] = bound] /\ x8' = [x8 EXCEPT ![h] = row] /\ x8[h].at = "store"
  BY DEF Support!Store, Support!At
<1>2. x8[h] \in Support!HandlerRow /\ x4 \in [Chats -> StartCodes \cup {None}]
  BY DEF Support!Formed
<1>3. row \in Support!HandlerRow /\ row.at \in {"greet", "answer"} /\ row.update = u
  BY <1>2 DEF Support!HandlerRow
<1> HIDE DEF row
<1>4. x8' \in [Threads -> Support!HandlerRow] /\ x8'[h] = row /\ \A g \in Threads : g # h => x8'[g] = x8[g]
  BY <1>1, <1>3, CallGoesOn
<1>5. /\ x4' \in [Chats -> StartCodes \cup {None}] /\ \A c \in Chats : c # ChatOf[u] => x4'[c] = x4[c]
      /\ \A c \in Chats : x4'[c] = x4[c] \/ (c = ChatOf[u] /\ x4'[c] = x8[h].code /\ x8[h].code # None)
  <2>1. bound = IF x8[h].code = None THEN x4[ChatOf[u]] ELSE x8[h].code
    BY DEF Support!Bound
  <2>2. x8[h].code \in StartCodes \cup {None}
    BY <1>2 DEF Support!HandlerRow
  <2> HIDE DEF bound
  <2> QED
    BY <1>1, <1>2, <2>1, <2>2
<1>6. Support!Formed' /\ Support!DraftIsForTheOpen' /\ Support!ReplyIsForThem'
  BY <1>1, <1>4, <1>5 DEF Support!Formed, Support!DraftIsForTheOpen, Support!ReplyIsForThem, Support!HandlerRow
<1>7. Support!AnsweredIsStored'
  BY <1>1, <1>3, <1>4 DEF Support!AnsweredIsStored
<1>8. x8[h].code # None => Support!Holds(h, x8[h].code) /\ x8[h].code \in StartCodes \ {None}
  BY <1>1, <1>2 DEF Support!Holds, Support!At, Support!HandlerRow
<1>9. Support!CodeIsInOnePlace'
  <2>1. \A g \in Threads : \A k : Support!Holds(g, k)' => g # h /\ Support!Holds(g, k)
    BY <1>3, <1>4 DEF Support!Holds, Support!At
  <2> QED
    BY <1>1, <1>5, <1>8, <2>1 DEF Support!CodeIsInOnePlace
<1>10. Support!OneChatForACode'
  <2>1. \A g \in Threads : Support!At(g, "store")' => g # h /\ Support!At(g, "store") /\ x8'[g].code = x8[g].code
    BY <1>3, <1>4 DEF Support!At
  <2>2. \A g \in Threads : g # h /\ Support!At(g, "store") /\ x8[h].code # None => x8[g].code # x8[h].code
    BY <1>8 DEF Support!CodeIsInOnePlace, Support!Holds, Support!At
  <2>3. x8[h].code # None => \A c \in Chats : x4[c] # x8[h].code
    BY <1>1 DEF Support!OneChatForACode, Support!At
  <2> QED
    BY <1>5, <2>1, <2>2, <2>3 DEF Support!OneChatForACode
<1> QED
  BY <1>1, <1>5, <1>6, <1>7, <1>9, <1>10 DEF Support!AccountStays, Support!AnswersStop

LEMMA SupportGoesOn ==
  ASSUME Support!SupportInv, [Support!Next]_(Support!supportVars)
  PROVE  Support!SupportInv' /\ Support!AccountStays /\ Support!AnswersStop
<1>1. CASE UNCHANGED Support!supportVars
  <2>1. Support!DraftIsForTheOpen' /\ Support!ReplyIsForThem'
    BY <1>1 DEF Support!supportVars, Support!SupportInv, Support!DraftIsForTheOpen, Support!ReplyIsForThem
  <2> QED
    BY <1>1, <2>1, AdminKeeps DEF Support!supportVars
<1>2. CASE Support!Next
  BY <1>2, ScreenKeeps, WebhookKeeps, TakeCodeKeeps, StoreKeeps DEF Support!Next
<1> QED
  BY <1>1, <1>2

-----------------------------------------------------------------------------
(* The chat of a plant, for any requests, lines, texts and bounds.            *)

LEMMA ChatBegins == Chat!Init => Chat!ChatInv
<1> SUFFICES ASSUME Chat!Init PROVE Chat!ChatInv
  OBVIOUS
<1> USE DEF Chat!Init, Chat!Free, Chat!Closed
<1>1. Chat!Formed
  BY DEF Chat!Formed, Chat!CallRow, Chat!ScreenRow
<1>2. Chat!BubblesAreThePlants /\ Chat!TextIsTyped
  BY DEF Chat!BubblesAreThePlants, Chat!TextIsTyped, Chat!Sends
<1>3. Chat!TextIsInOnePlace
  BY ChatIsSound DEF Chat!ConstantsAreSound, Chat!TextIsInOnePlace, Chat!ToSend, Chat!Stored, Chat!Pays
<1>4. Chat!VisitsAreInOrder /\ Chat!RowsAreShownOnce
  BY DEF Chat!VisitsAreInOrder, Chat!RowsAreShownOnce, Chat!Reads, Chat!Sends, Chat!Wrote, Chat!AreRows
<1> QED
  BY <1>1, <1>2, <1>3, <1>4 DEF Chat!ChatInv

\* What a request remembers at each of its steps.
LEMMA RequestIs ==
  ASSUME Chat!Formed, NEW c \in Threads
  PROVE  /\ x5[c].op \in {"rewrite", "quiet", "insert"} =>
              x5[c] \in [op : {"rewrite", "quiet", "insert"}, line : Sids, id : Nat]
         /\ x5[c].op = "read" => x5[c] \in [op : {"read"}, visit : Nat]
         /\ x5[c].op \in {"seen", "loads"} => x5[c] \in [op : {"seen", "loads"}, visit : Nat, ids : Seq(Nat)]
         /\ x5[c].op = "pay" => x5[c] \in [op : {"pay"}, visit : Nat, text : Sayings, heard : BOOLEAN]
         /\ Chat!Wrote(c) =>
              x5[c] \in [op : {"think", "mark", "back"}, visit : Nat, text : Sayings, heard : BOOLEAN, ids : Seq(Nat)]
<1>1. x5[c] \in Chat!CallRow
  BY DEF Chat!Formed
<1> QED
  BY <1>1 DEF Chat!CallRow, Chat!Wrote

\* A request goes on, and only that.
LEMMA ChatRequestGoesOn ==
  ASSUME Chat!Formed, NEW c \in Threads, NEW row \in Chat!CallRow, x5' = [x5 EXCEPT ![c] = row]
  PROVE  x5' \in [Threads -> Chat!CallRow] /\ x5'[c] = row /\ \A d \in Threads : d # c => x5'[d] = x5[d]
BY DEF Chat!Formed

LEMMA FreeIsARow == Chat!Free \in Chat!CallRow /\ Chat!Free.op = "no"
BY DEF Chat!Free, Chat!CallRow

\* A row is added after the others.
LEMMA RowIsAdded ==
  ASSUME Chat!Formed, NEW row \in Chat!RowType, x1' = Append(x1, row)
  PROVE  /\ x1' \in Seq(Chat!RowType) /\ Len(x1) \in Nat
         /\ DOMAIN x1 = 1 .. Len(x1) /\ DOMAIN x1' = 1 .. (Len(x1) + 1)
         /\ x1'[Len(x1) + 1] = row /\ \A i \in DOMAIN x1 : x1'[i] = x1[i]
<1>1. x1 \in Seq(Chat!RowType)
  BY DEF Chat!Formed
<1> QED
  BY <1>1

\* So is an id of a row after others.
LEMMA IdIsAdded ==
  ASSUME NEW s \in Seq(Nat), NEW e \in Nat
  PROVE  /\ DOMAIN s = 1 .. Len(s) /\ Len(s) \in Nat /\ DOMAIN Append(s, e) = 1 .. (Len(s) + 1)
         /\ Append(s, e)[Len(s) + 1] = e /\ \A i \in DOMAIN s : Append(s, e)[i] = s[i]
OBVIOUS

\* Nothing is said: the rows of the players stay theirs, and the requests send and
\* show what they did.
SaysNothing ==
  /\ x6' = x6 /\ x7' = x7 /\ DOMAIN x1 \subseteq DOMAIN x1'
  /\ \A i \in DOMAIN x1 : /\ x1'[i].role = x1[i].role /\ x1'[i].kind = x1[i].kind
                          /\ x1[i].role = "user" => x1'[i] = x1[i]
  /\ \A i \in DOMAIN x1' \ DOMAIN x1 :
       x1'[i].role # "user" /\ (x1'[i].kind = "echo" => x1'[i].role = "plant")
  /\ \A c \in Threads :
       /\ x5'[c].op = "rewrite" => x5'[c].id \in DOMAIN x1 /\ x1[x5'[c].id].kind = "echo"
       /\ Chat!Sends(c)' => Chat!Sends(c) /\ x5'[c].text = x5[c].text /\ x5'[c].visit = x5[c].visit
       /\ Chat!Reads(c)' => Chat!Reads(c) /\ x5'[c].visit = x5[c].visit
       /\ x5'[c].op = "pay" => x5[c].op = "pay"

LEMMA NothingIsSaid ==
  ASSUME Chat!ChatInv, Chat!Formed', SaysNothing, Chat!RowsAreShownOnce'
  PROVE  Chat!ChatInv'
<1> USE DEF Chat!ChatInv, SaysNothing
<1>1. Chat!BubblesAreThePlants'
  BY DEF Chat!BubblesAreThePlants
<1>2. Chat!TextIsTyped'
  BY DEF Chat!TextIsTyped
<1>3. Chat!TextIsInOnePlace'
  <2>1. \A m : Chat!Stored(m)' = Chat!Stored(m)
    BY DEF Chat!Stored
  <2>2. \A c \in Threads : \A m : Chat!Pays(c, m)' => Chat!Pays(c, m)
    BY DEF Chat!Pays, Chat!Sends
  <2> QED
    BY <2>1, <2>2 DEF Chat!TextIsInOnePlace, Chat!ToSend
<1>4. Chat!VisitsAreInOrder'
  BY DEF Chat!VisitsAreInOrder
<1> QED
  BY <1>1, <1>2, <1>3, <1>4

\* The rows that were written and read are still there, and each is one's own.
LEMMA RowsStayShownOnce ==
  ASSUME Chat!ChatInv, x6' = x6, DOMAIN x1 \subseteq DOMAIN x1',
         \A c \in Threads :
           /\ Chat!Wrote(c)' => Chat!Wrote(c) /\ x5'[c].ids = x5[c].ids /\ x5'[c].visit = x5[c].visit
           /\ x5'[c].op \in {"seen", "loads"} =>
                Chat!AreRows(x5'[c].ids) \/ (x5[c].op \in {"seen", "loads"} /\ x5'[c].ids = x5[c].ids)
  PROVE  Chat!RowsAreShownOnce'
<1> USE DEF Chat!ChatInv
<1>1. \A ids : Chat!AreRows(ids) => (Chat!AreRows(ids))'
  BY DEF Chat!AreRows
<1> QED
  BY <1>1 DEF Chat!RowsAreShownOnce, Chat!Apart

LEMMA HoursKeep ==
  ASSUME Chat!ChatInv, Chat!HoursPass \/ UNCHANGED Chat!chatVars
  PROVE  Chat!ChatInv' /\ Chat!MessagesStay
<1> USE DEF Chat!ChatInv
<1>1. UNCHANGED <<x1, x2, x5, x6, x7>>
  BY DEF Chat!HoursPass, Chat!chatVars
<1>2. Chat!Formed' /\ Chat!MessagesStay
  BY <1>1 DEF Chat!Formed, Chat!MessagesStay
<1>3. SaysNothing
  BY <1>1 DEF SaysNothing, Chat!BubblesAreThePlants, Chat!Sends, Chat!Reads
<1>4. Chat!RowsAreShownOnce'
  BY <1>1 DEF Chat!RowsAreShownOnce, Chat!AreRows, Chat!Apart, Chat!Wrote
<1> QED
  BY <1>2, <1>3, <1>4, NothingIsSaid

\* The bubble asks before it speaks; the chat is read, and marked as read.
LEMMA AsksKeep ==
  ASSUME Chat!ChatInv, NEW c \in Threads,
         \/ \E line \in Sids : Chat!Echo(c, line)
         \/ Chat!IsQuiet(c) \/ Chat!Read(c) \/ Chat!Seen(c) \/ Chat!MarkRead(c)
  PROVE  Chat!ChatInv' /\ Chat!MessagesStay
<1> USE DEF Chat!ChatInv
<1> DEFINE Fits(row) ==
      /\ row \in Chat!CallRow
      /\ row.op \in {"no", "rewrite", "quiet", "insert", "seen", "loads", "back"}
      /\ row.op = "rewrite" => row.id \in DOMAIN x1 /\ x1[row.id].kind = "echo"
      /\ row.op = "back" => x5[c].op = "mark" /\ row.text = x5[c].text /\ row.visit = x5[c].visit /\ row.ids = x5[c].ids
      /\ row.op \in {"seen", "loads"} =>
           /\ Chat!Reads(c) /\ row.visit = x5[c].visit
           /\ Chat!AreRows(row.ids) \/ (x5[c].op \in {"seen", "loads"} /\ row.ids = x5[c].ids)
<1>1. UNCHANGED <<x1, x6, x7>> /\ x2' \in Nat
  BY DEF Chat!Echo, Chat!IsQuiet, Chat!Read, Chat!Seen, Chat!MarkRead, Chat!Takes, Chat!Formed
<1>2. \E row : Fits(row) /\ x5' = [x5 EXCEPT ![c] = row]
  <2>0. x1 \in Seq(Chat!RowType) /\ DOMAIN x1 = 1 .. Len(x1) /\ Len(x1) \in Nat
    BY DEF Chat!Formed
  <2>1. Fits(Chat!Free)
    BY FreeIsARow
  <2>2. CASE \E line \in Sids : Chat!Echo(c, line)
    <3>1. PICK line \in Sids : Chat!Echo(c, line)
      BY <2>2
    <3>2. CASE Chat!Rewrites
      <4> DEFINE row == [op |-> "rewrite", line |-> line, id |-> Len(x1)]
      <4>1. x5' = [x5 EXCEPT ![c] = row]
        BY <3>1, <3>2 DEF Chat!Echo
      <4>2. Len(x1) \in DOMAIN x1 /\ x1[Len(x1)].kind = "echo"
        BY <2>0, <3>2 DEF Chat!Rewrites, Chat!Last
      <4>3. Fits(row)
        BY <2>0, <4>2 DEF Chat!CallRow
      <4> QED
        BY <4>1, <4>3
    <3>3. CASE ~Chat!Rewrites
      <4> DEFINE row == [op |-> "quiet", line |-> line, id |-> Len(x1)]
      <4>1. x5' = [x5 EXCEPT ![c] = row]
        BY <3>1, <3>3 DEF Chat!Echo
      <4>2. Fits(row)
        BY <2>0 DEF Chat!CallRow
      <4> QED
        BY <4>1, <4>2
    <3> QED
      BY <3>2, <3>3
  <2>3. CASE Chat!IsQuiet(c)
    <3>1. CASE x4
      BY <2>1, <2>3, <3>1 DEF Chat!IsQuiet, Chat!Ends
    <3>2. CASE ~x4
      <4> DEFINE row == [x5[c] EXCEPT !.op = "insert"]
      <4>1. x5' = [x5 EXCEPT ![c] = row] /\ x5[c].op = "quiet"
        BY <2>3, <3>2 DEF Chat!IsQuiet, Chat!Goes
      <4>2. Fits(row)
        BY <4>1, RequestIs DEF Chat!CallRow
      <4> QED
        BY <4>1, <4>2
    <3> QED
      BY <3>1, <3>2
  <2>4. CASE Chat!Read(c)
    <3> DEFINE ids == [i \in 1 .. Len(x1) |-> i]
               row == [op |-> "seen", visit |-> x5[c].visit, ids |-> ids]
    <3>1. x5' = [x5 EXCEPT ![c] = row] /\ x5[c].op = "read"
      BY <2>4 DEF Chat!Read
    <3>2. ids \in Seq(Nat) /\ Chat!AreRows(ids)
      BY <2>0 DEF Chat!AreRows
    <3> HIDE DEF ids
    <3>3. Fits(row)
      BY <3>1, <3>2, RequestIs DEF Chat!CallRow, Chat!Reads
    <3> QED
      BY <3>1, <3>3
  <2>5. CASE Chat!Seen(c)
    <3> DEFINE row == [x5[c] EXCEPT !.op = "loads"]
    <3>1. x5' = [x5 EXCEPT ![c] = row] /\ x5[c].op = "seen"
      BY <2>5 DEF Chat!Seen, Chat!Goes
    <3>2. Fits(row)
      BY <3>1, RequestIs DEF Chat!CallRow, Chat!Reads
    <3> QED
      BY <3>1, <3>2
  <2>6. CASE Chat!MarkRead(c)
    <3>1. CASE x5[c].heard
      <4> DEFINE row == [x5[c] EXCEPT !.op = "back"]
      <4>1. x5' = [x5 EXCEPT ![c] = row] /\ x5[c].op = "mark"
        BY <2>6, <3>1 DEF Chat!MarkRead, Chat!Goes
      <4>2. Fits(row)
        BY <4>1, RequestIs DEF Chat!CallRow, Chat!Wrote
      <4> QED
        BY <4>1, <4>2
    <3>2. CASE ~x5[c].heard
      BY <2>1, <2>6, <3>2 DEF Chat!MarkRead, Chat!Ends
    <3> QED
      BY <3>1, <3>2
  <2> QED
    BY <2>2, <2>3, <2>4, <2>5, <2>6
<1>3. PICK row : Fits(row) /\ x5' = [x5 EXCEPT ![c] = row]
  BY <1>2
<1>4. x5' \in [Threads -> Chat!CallRow] /\ x5'[c] = row /\ \A d \in Threads : d # c => x5'[d] = x5[d]
  BY <1>3, ChatRequestGoesOn
<1>5. Chat!Formed' /\ Chat!MessagesStay
  BY <1>1, <1>4 DEF Chat!Formed, Chat!MessagesStay
<1>6. SaysNothing
  BY <1>1, <1>3, <1>4 DEF SaysNothing, Chat!BubblesAreThePlants, Chat!Sends, Chat!Reads
<1>7. Chat!RowsAreShownOnce'
  BY <1>1, <1>3, <1>4, RowsStayShownOnce DEF Chat!Wrote
<1> QED
  BY <1>5, <1>6, <1>7, NothingIsSaid

\* What is added to the chat without the player: a line of the bubble, a notice,
\* and the answer of the plant.
Adds(row) == x1' = Append(x1, row) /\ x2' \in Nat /\ x6' = x6 /\ x7' = x7
Answers(c) ==
  /\ x5[c].op = "think" /\ x5'[c] = [x5[c] EXCEPT !.op = "mark", !.ids = Append(@, Len(x1) + 1)]
  /\ \A d \in Threads : d # c => x5'[d] = x5[d]

LEMMA AddingKeeps ==
  ASSUME Chat!ChatInv, NEW row \in Chat!RowType, row.role # "user", row.kind = "echo" => row.role = "plant",
         Adds(row), x5' \in [Threads -> Chat!CallRow],
         \A c \in Threads : x5'[c] = x5[c] \/ x5'[c] = Chat!Free \/ Answers(c)
  PROVE  Chat!ChatInv' /\ Chat!MessagesStay
<1> USE DEF Chat!ChatInv
<1>1. /\ x1' \in Seq(Chat!RowType) /\ Len(x1) \in Nat
      /\ DOMAIN x1 = 1 .. Len(x1) /\ DOMAIN x1' = 1 .. (Len(x1) + 1)
      /\ x1'[Len(x1) + 1] = row /\ \A i \in DOMAIN x1 : x1'[i] = x1[i]
  BY RowIsAdded DEF Adds
<1>2. x2' \in Nat /\ x6' = x6 /\ x7' = x7 /\ Chat!Formed' /\ Chat!MessagesStay
  BY <1>1 DEF Adds, Chat!Formed, Chat!MessagesStay
<1>3. \A c \in Threads :
        \/ x5'[c] = x5[c] \/ x5'[c].op = "no"
        \/ /\ x5[c].op = "think" /\ x5'[c].op = "mark"
           /\ x5'[c].visit = x5[c].visit /\ x5'[c].text = x5[c].text
           /\ x5[c].ids \in Seq(Nat) /\ x5'[c].ids = Append(x5[c].ids, Len(x1) + 1)
  <2> TAKE c \in Threads
  <2>1. CASE x5'[c] = x5[c] \/ x5'[c] = Chat!Free
    BY <2>1, FreeIsARow
  <2>2. CASE Answers(c)
    <3>1. x5[c].op = "think" /\ x5'[c] = [x5[c] EXCEPT !.op = "mark", !.ids = Append(@, Len(x1) + 1)]
      BY <2>2 DEF Answers
    <3>2. x5[c] \in [op : {"think", "mark", "back"}, visit : Nat, text : Sayings, heard : BOOLEAN, ids : Seq(Nat)]
      BY <3>1, RequestIs DEF Chat!Wrote
    <3> QED
      BY <3>1, <3>2
  <2> QED
    BY <2>1, <2>2
<1>4. SaysNothing
  <2>1. DOMAIN x1 \subseteq DOMAIN x1' /\ \A i \in DOMAIN x1' \ DOMAIN x1 : x1'[i] = row
    BY <1>1
  <2> QED
    BY <1>1, <1>2, <1>3, <2>1 DEF SaysNothing, Chat!BubblesAreThePlants, Chat!Sends, Chat!Reads
<1>5. Chat!RowsAreShownOnce'
  <2>1. CASE \A c \in Threads : x5'[c] = x5[c] \/ x5'[c].op = "no"
    <3>1. DOMAIN x1 \subseteq DOMAIN x1'
      BY <1>1
    <3> QED
      BY <1>2, <2>1, <3>1, RowsStayShownOnce DEF Chat!Wrote
  <2>2. ASSUME NEW c \in Threads, Answers(c) PROVE Chat!RowsAreShownOnce'
    <3>0. x5[c].op = "think" /\ \A d \in Threads : d # c => x5'[d] = x5[d]
      BY <2>2 DEF Answers
    <3>1. PICK old, ids, new :
            /\ old = x5[c].ids /\ ids = x5'[c].ids /\ new = Len(x1) + 1
            /\ x5'[c].op = "mark" /\ x5'[c].visit = x5[c].visit /\ old \in Seq(Nat) /\ ids = Append(old, new)
      <4>1. /\ x5'[c].op = "mark" /\ x5'[c].visit = x5[c].visit /\ x5[c].ids \in Seq(Nat)
            /\ x5'[c].ids = Append(x5[c].ids, Len(x1) + 1)
        BY <2>2, RequestIs DEF Answers, Chat!Wrote
      <4> QED
        BY <4>1
    <3>2. Chat!AreRows(old) /\ Chat!AreRows(x6.shown)
      BY <3>0, <3>1 DEF Chat!RowsAreShownOnce, Chat!Wrote
    <3>3. /\ DOMAIN old = 1 .. Len(old) /\ Len(old) \in Nat /\ DOMAIN ids = 1 .. (Len(old) + 1)
          /\ ids[Len(old) + 1] = new /\ \A i \in DOMAIN old : ids[i] = old[i]
      <4>1. old \in Seq(Nat) /\ ids = Append(old, new) /\ new \in Nat
        BY <1>1, <3>1
      <4> QED
        BY <4>1, IdIsAdded
    <3>4. new \notin DOMAIN x1 /\ new \in DOMAIN x1' /\ DOMAIN x1 \subseteq DOMAIN x1'
      BY <1>1, <3>1
    <3>5. Chat!AreRows(ids)'
      BY <3>2, <3>3, <3>4 DEF Chat!AreRows
    <3>6. \A s : Chat!AreRows(s) => Chat!AreRows(s)' /\ (Chat!Apart(old, s) => Chat!Apart(ids, s) /\ Chat!Apart(s, ids))
      BY <3>3, <3>4 DEF Chat!AreRows, Chat!Apart
    <3>7. \A d \in Threads : d # c => /\ Chat!Wrote(d)' = Chat!Wrote(d) /\ x5'[d] = x5[d]
                                      /\ Chat!Wrote(d) => Chat!AreRows(x5[d].ids) /\ Chat!Apart(old, x5[d].ids)
      BY <3>0, <3>1 DEF Chat!RowsAreShownOnce, Chat!Wrote
    <3>8. x5[c].visit = x6.visit => Chat!Apart(old, x6.shown)
      BY <3>0, <3>1 DEF Chat!RowsAreShownOnce, Chat!Wrote
    <3>9. \A d, e \in Threads : Chat!Wrote(d)' /\ Chat!Wrote(e)' /\ d # e => Chat!Apart(x5'[d].ids, x5'[e].ids)
      <4> TAKE d, e \in Threads
      <4>1. CASE d # c /\ e # c
        BY <3>7, <4>1 DEF Chat!RowsAreShownOnce
      <4>2. CASE d = c /\ e # c
        BY <3>1, <3>6, <3>7, <4>2
      <4>3. CASE d # c /\ e = c
        BY <3>1, <3>6, <3>7, <4>3
      <4> QED
        BY <4>1, <4>2, <4>3
    <3>10. \A d \in Threads : Chat!Wrote(d)' \/ x5'[d].op \in {"seen", "loads"} => (Chat!AreRows(x5[d].ids))'
      BY <3>1, <3>5, <3>6, <3>7 DEF Chat!RowsAreShownOnce
    <3>11. \A d \in Threads : Chat!Wrote(d)' /\ x5'[d].visit = x6.visit => Chat!Apart(x5'[d].ids, x6.shown)
      BY <1>2, <3>1, <3>2, <3>6, <3>7, <3>8 DEF Chat!RowsAreShownOnce
    <3> QED
      BY <1>2, <3>2, <3>6, <3>9, <3>10, <3>11 DEF Chat!RowsAreShownOnce, Chat!Apart
  <2> QED
    BY <2>1, <2>2, FreeIsARow
<1> QED
  BY <1>2, <1>4, <1>5, NothingIsSaid

LEMMA ThePlantSpeaks ==
  ASSUME Chat!ChatInv,
         Chat!Notice \/ \E c \in Threads : Chat!EchoInsert(c) \/ Chat!Answer(c)
  PROVE  Chat!ChatInv' /\ Chat!MessagesStay
<1> USE DEF Chat!ChatInv
<1>0. x2 \in Nat /\ x5 \in [Threads -> Chat!CallRow]
  BY DEF Chat!Formed
<1>1. CASE Chat!Notice
  <2> DEFINE row == Chat!Row("system", "message", None)
  <2>1. row \in Chat!RowType /\ row.role = "system" /\ row.kind = "message"
    BY <1>0 DEF Chat!Row, Chat!RowType
  <2>2. Adds(row) /\ x5' = x5
    BY <1>0, <1>1 DEF Adds, Chat!Notice, Chat!Inserts, Chat!Takes
  <2> HIDE DEF row
  <2> QED
    BY <1>0, <2>1, <2>2, AddingKeeps
<1>2. ASSUME NEW c \in Threads, Chat!EchoInsert(c) PROVE Chat!ChatInv' /\ Chat!MessagesStay
  <2> DEFINE row == Chat!Row("plant", "echo", x5[c].line)
  <2>1. x5[c].op = "insert"
    BY <1>2 DEF Chat!EchoInsert
  <2>2. row \in Chat!RowType /\ row.role = "plant" /\ row.kind = "echo"
    BY <1>0, <2>1, RequestIs DEF Chat!Row, Chat!RowType
  <2>3. Adds(row) /\ x5' = [x5 EXCEPT ![c] = Chat!Free]
    BY <1>0, <1>2 DEF Adds, Chat!EchoInsert, Chat!Inserts, Chat!Takes, Chat!Ends
  <2> HIDE DEF row
  <2>4. x5' \in [Threads -> Chat!CallRow] /\ \A d \in Threads : x5'[d] = x5[d] \/ x5'[d] = Chat!Free
    BY <2>3, FreeIsARow, ChatRequestGoesOn
  <2> QED
    BY <2>2, <2>3, <2>4, AddingKeeps
<1>3. ASSUME NEW c \in Threads, Chat!Answer(c) PROVE Chat!ChatInv' /\ Chat!MessagesStay
  <2> DEFINE row == Chat!Row("plant", "message", None)
             goes == [x5[c] EXCEPT !.op = "mark", !.ids = Append(@, Len(x1) + 1)]
  <2>1. row \in Chat!RowType /\ row.role = "plant" /\ row.kind = "message"
    BY <1>0 DEF Chat!Row, Chat!RowType
  <2>2. Adds(row) /\ x5' = [x5 EXCEPT ![c] = goes] /\ x5[c].op = "think"
    <3>1. Adds(row) /\ x5[c].op = "think"
      BY <1>0, <1>3 DEF Adds, Chat!Answer, Chat!Inserts, Chat!Takes
    <3>2. x5[c] \in [op : {"think", "mark", "back"}, visit : Nat, text : Sayings, heard : BOOLEAN, ids : Seq(Nat)]
      BY <3>1, RequestIs DEF Chat!Wrote
    <3>3. x5' = [x5 EXCEPT ![c].op = "mark", ![c].ids = Append(@, Len(x1) + 1)]
      BY <1>3 DEF Chat!Answer
    <3> QED
      BY <1>0, <3>1, <3>2, <3>3
  <2>3. goes \in Chat!CallRow
    <3>1. Len(x1) + 1 \in Nat
      BY DEF Chat!Formed
    <3>2. x5[c].ids \in Seq(Nat)
      BY <2>2, RequestIs DEF Chat!Wrote
    <3>3. Append(x5[c].ids, Len(x1) + 1) \in Seq(Nat)
      BY <3>1, <3>2
    <3> QED
      BY <2>2, <3>3, RequestIs DEF Chat!CallRow, Chat!Wrote
  <2>4. x5' \in [Threads -> Chat!CallRow] /\ x5'[c] = goes /\ \A d \in Threads : d # c => x5'[d] = x5[d]
    BY <2>2, <2>3, ChatRequestGoesOn
  <2>5. Answers(c)
    BY <2>2, <2>4 DEF Answers
  <2> HIDE DEF row, goes
  <2> QED
    BY <2>1, <2>2, <2>4, <2>5, AddingKeeps
<1> QED
  BY <1>1, <1>2, <1>3

\* The bubble takes the place of its own last line.
LEMMA RewriteKeeps ==
  ASSUME Chat!ChatInv, NEW c \in Threads, Chat!Rewrite(c)
  PROVE  Chat!ChatInv' /\ Chat!MessagesStay
<1> USE DEF Chat!ChatInv
<1>1. x5[c].op = "rewrite" /\ x5[c] \in [op : {"rewrite", "quiet", "insert"}, line : Sids, id : Nat]
  BY RequestIs DEF Chat!Rewrite
<1>2. PICK k, row : /\ k = x5[c].id /\ row = [x1[k] EXCEPT !.body = x5[c].line, !.at = x2 + 1]
  OBVIOUS
<1>3. /\ k \in DOMAIN x1 /\ x1[k].kind = "echo" /\ x1[k].role = "plant"
      /\ x1 \in Seq(Chat!RowType) /\ x1[k] \in Chat!RowType /\ x2 \in Nat
  BY <1>1, <1>2 DEF Chat!BubblesAreThePlants, Chat!Formed
<1>4. row \in Chat!RowType /\ row.role = "plant" /\ row.kind = "echo"
  <2>1. x5[c].line \in Sids /\ x2 + 1 \in Nat
    BY <1>1, <1>3
  <2> QED
    BY <1>2, <1>3, <2>1 DEF Chat!RowType
<1>5. x1' = [x1 EXCEPT ![k] = row]
  BY <1>1, <1>2, <1>3 DEF Chat!Rewrite
<1>6. /\ x1' \in Seq(Chat!RowType) /\ DOMAIN x1' = DOMAIN x1 /\ x1'[k] = row
      /\ \A i \in DOMAIN x1 : i # k => x1'[i] = x1[i]
  BY <1>3, <1>4, <1>5
<1>7. UNCHANGED <<x6, x7>> /\ x2' \in Nat /\ x5' = [x5 EXCEPT ![c] = Chat!Free]
  BY <1>3 DEF Chat!Rewrite, Chat!Takes, Chat!Ends
<1>8. x5' \in [Threads -> Chat!CallRow] /\ \A d \in Threads : x5'[d] = x5[d] \/ x5'[d].op = "no"
  BY <1>7, FreeIsARow, ChatRequestGoesOn
<1>9. Chat!Formed' /\ Chat!MessagesStay
  BY <1>3, <1>6, <1>7, <1>8 DEF Chat!Formed, Chat!MessagesStay
<1>10. SaysNothing
  BY <1>3, <1>4, <1>6, <1>7, <1>8 DEF SaysNothing, Chat!BubblesAreThePlants, Chat!Sends, Chat!Reads
<1>11. Chat!RowsAreShownOnce'
  BY <1>6, <1>7, <1>8, RowsStayShownOnce DEF Chat!Wrote
<1> QED
  BY <1>9, <1>10, <1>11, NothingIsSaid

\* The screen as it is, field by field.
LEMMA ScreenIs ==
  ASSUME Chat!Formed
  PROVE  /\ x6 \in Chat!ScreenRow /\ x6.visit \in Nat /\ x6.shown \in Seq(Nat) /\ x6.waits \subseteq Threads
         /\ x6.text \in Sayings \cup {None} /\ x6.typed \subseteq Sayings
         /\ x6.open \in BOOLEAN /\ x6.loaded \in BOOLEAN /\ x6.inFlight \in BOOLEAN /\ x6.rendered \in BOOLEAN
BY DEF Chat!Formed, Chat!ScreenRow

\* What the player does on the screen alone.
LEMMA ScreenAloneKeeps ==
  ASSUME Chat!ChatInv, Chat!LeaveChat \/ Chat!Render \/ \E m \in Sayings : Chat!Type(m)
  PROVE  Chat!ChatInv' /\ Chat!MessagesStay
<1> USE DEF Chat!ChatInv
<1>1. UNCHANGED <<x1, x2, x5, x7>>
  BY DEF Chat!LeaveChat, Chat!Render, Chat!Type
<1>2. /\ x6' \in Chat!ScreenRow /\ x6'.visit = x6.visit /\ x6'.loaded = x6.loaded /\ x6'.shown = x6.shown
      /\ x6'.inFlight = x6.inFlight /\ (x6'.rendered = x6.rendered \/ x6'.rendered)
      /\ \/ /\ x6'.typed = x6.typed /\ x6'.text \in {x6.text, None}
            /\ x6'.text # None => x6'.rendered = x6.rendered
         \/ /\ x6'.typed = x6.typed \cup {x6'.text} /\ x6'.text \in Sayings \ x6.typed
            /\ x6.loaded /\ x6'.rendered
  <2>1. CASE Chat!LeaveChat
    BY <2>1, ScreenIs DEF Chat!LeaveChat, Chat!ScreenRow
  <2>2. CASE Chat!Render
    BY <2>2, ScreenIs DEF Chat!Render, Chat!ScreenRow
  <2>3. ASSUME NEW m \in Sayings, Chat!Type(m)
        PROVE  /\ x6' = [x6 EXCEPT !.text = m, !.typed = @ \cup {m}] /\ m \notin x6.typed /\ x6.loaded /\ x6.rendered
    BY <2>3 DEF Chat!Type
  <2>4. CASE \E m \in Sayings : Chat!Type(m)
    <3>1. PICK m \in Sayings :
            /\ x6' = [x6 EXCEPT !.text = m, !.typed = @ \cup {m}] /\ m \notin x6.typed /\ x6.loaded /\ x6.rendered
      BY <2>3, <2>4
    <3> QED
      BY <3>1, ScreenIs DEF Chat!ScreenRow
  <2> QED
    BY <2>1, <2>2, <2>4
<1>3. Chat!Formed' /\ Chat!MessagesStay
  BY <1>1, <1>2 DEF Chat!Formed, Chat!MessagesStay
<1>4. Chat!BubblesAreThePlants' /\ Chat!RowsAreShownOnce'
  BY <1>1, <1>2 DEF Chat!BubblesAreThePlants, Chat!RowsAreShownOnce, Chat!AreRows, Chat!Apart, Chat!Wrote
<1>5. Chat!TextIsTyped'
  BY <1>1, <1>2 DEF Chat!TextIsTyped, Chat!Sends
<1>6. Chat!VisitsAreInOrder'
  <2>1. x6'.text # None => x6'.loaded
    BY <1>2 DEF Chat!VisitsAreInOrder
  <2> QED
    BY <1>1, <1>2, <2>1 DEF Chat!VisitsAreInOrder, Chat!Reads, Chat!Sends
<1>7. Chat!TextIsInOnePlace'
  <2> SUFFICES ASSUME x7 = 0, NEW m \in Sayings, Chat!ToSend(m)', ~Chat!ToSend(m)
               PROVE  Chat!Stored(m) = {} /\ \A c \in Threads : ~Chat!Pays(c, m)
    BY <1>1 DEF Chat!TextIsInOnePlace, Chat!Stored, Chat!Pays
  <2>1. m \notin x6.typed
    BY <1>2, ChatIsSound DEF Chat!ConstantsAreSound, Chat!ToSend
  <2> QED
    BY <2>1 DEF Chat!TextIsTyped, Chat!Stored, Chat!Pays, Chat!Sends
<1> QED
  BY <1>3, <1>4, <1>5, <1>6, <1>7

\* A new visit begins with nothing on the screen.
LEMMA OpenChatKeeps ==
  ASSUME Chat!ChatInv, NEW c \in Threads, Chat!OpenChat(c)
  PROVE  Chat!ChatInv' /\ Chat!MessagesStay
<1> USE DEF Chat!ChatInv
<1>1. UNCHANGED <<x1, x2, x7>> /\ x5[c].op = "no"
  BY DEF Chat!OpenChat, Chat!Free
<1>2. /\ x6' \in Chat!ScreenRow /\ x6'.visit = x6.visit + 1 /\ x6.visit \in Nat /\ ~x6'.loaded
      /\ x6'.shown = <<>> /\ x6'.rendered /\ x6'.text = None /\ x6'.typed = x6.typed
  <2>1. x6' = [open |-> TRUE, visit |-> x6.visit + 1, loaded |-> FALSE, shown |-> <<>>, waits |-> {}, text |-> None,
               typed |-> x6.typed, inFlight |-> FALSE, rendered |-> TRUE]
    BY DEF Chat!OpenChat, Chat!Closed
  <2>2. x6.visit \in Nat /\ x6.visit + 1 \in Nat /\ x6.typed \subseteq Sayings /\ <<>> \in Seq(Nat)
    BY ScreenIs
  <2> QED
    BY <2>1, <2>2 DEF Chat!ScreenRow
<1>3. PICK row : /\ row = [op |-> "read", visit |-> x6.visit + 1] /\ row.op = "read" /\ row.visit = x6.visit + 1
                 /\ x5' = [x5 EXCEPT ![c] = row]
  BY DEF Chat!OpenChat
<1>4. row \in Chat!CallRow
  BY <1>2, <1>3 DEF Chat!CallRow
<1>5. x5' \in [Threads -> Chat!CallRow] /\ x5'[c] = row /\ \A d \in Threads : d # c => x5'[d] = x5[d]
  BY <1>3, <1>4, ChatRequestGoesOn
<1>6. Chat!Formed' /\ Chat!MessagesStay
  BY <1>1, <1>2, <1>5 DEF Chat!Formed, Chat!MessagesStay
<1>7. Chat!BubblesAreThePlants' /\ Chat!TextIsTyped'
  BY <1>1, <1>2, <1>3, <1>5 DEF Chat!BubblesAreThePlants, Chat!TextIsTyped, Chat!Sends
<1>8. Chat!TextIsInOnePlace'
  BY <1>1, <1>2, <1>3, <1>5, ChatIsSound
     DEF Chat!ConstantsAreSound, Chat!TextIsInOnePlace, Chat!ToSend, Chat!Stored, Chat!Pays
<1>9. Chat!VisitsAreInOrder'
  <2>1. \A d \in Threads : Chat!Reads(d) \/ Chat!Sends(d) => x5[d].visit \in Nat /\ x5[d].visit < x6.visit + 1
    BY <1>2, RequestIs DEF Chat!VisitsAreInOrder, Chat!Reads, Chat!Sends, Chat!Wrote
  <2>2. \A d \in Threads : d # c => /\ x5'[d].visit = x5[d].visit /\ Chat!Reads(d)' = Chat!Reads(d)
                                    /\ Chat!Sends(d)' = Chat!Sends(d)
    BY <1>5 DEF Chat!Reads, Chat!Sends
  <2>3. Chat!Reads(c)' /\ ~Chat!Sends(c)' /\ x5'[c].visit = x6.visit + 1
    BY <1>3, <1>5 DEF Chat!Reads, Chat!Sends
  <2> QED
    BY <1>2, <2>1, <2>2, <2>3 DEF Chat!VisitsAreInOrder
<1>10. Chat!RowsAreShownOnce'
  <2>1. \A d \in Threads : Chat!Wrote(d)' => d # c /\ Chat!Wrote(d)
    BY <1>3, <1>5 DEF Chat!Wrote
  <2>2. Chat!AreRows(<<>>) /\ \A s : Chat!Apart(s, <<>>)
    BY DEF Chat!AreRows, Chat!Apart
  <2> QED
    BY <1>1, <1>2, <1>3, <1>5, <2>1, <2>2 DEF Chat!RowsAreShownOnce, Chat!AreRows, Chat!Apart
<1> QED
  BY <1>6, <1>7, <1>8, <1>9, <1>10

\* What a visit has read is shown, unless it is over.
LEMMA LoadsKeep ==
  ASSUME Chat!ChatInv, NEW c \in Threads, Chat!Loads(c)
  PROVE  Chat!ChatInv' /\ Chat!MessagesStay
<1> USE DEF Chat!ChatInv
<1>1. UNCHANGED <<x1, x2, x7>> /\ x5' = [x5 EXCEPT ![c] = Chat!Free] /\ x5[c].op = "loads"
  BY DEF Chat!Loads, Chat!Ends
<1>2. x5[c].ids \in Seq(Nat) /\ x5[c].visit \in Nat
  BY <1>1, RequestIs
<1>3. /\ x5' \in [Threads -> Chat!CallRow] /\ x5'[c].op = "no"
      /\ \A d \in Threads : d # c => x5'[d] = x5[d]
  BY <1>1, FreeIsARow, ChatRequestGoesOn
<1>4. /\ x6' \in Chat!ScreenRow /\ x6'.visit = x6.visit /\ x6'.text = x6.text /\ x6'.typed = x6.typed
      /\ x6'.rendered = x6.rendered /\ x6'.inFlight = x6.inFlight
      /\ \/ x6'.loaded = x6.loaded /\ x6'.shown = x6.shown
         \/ x6'.loaded /\ x6'.shown = x5[c].ids /\ x5[c].visit = x6.visit
  <2>1. CASE Chat!Here(c)
    BY <1>2, <2>1, ScreenIs DEF Chat!Loads, Chat!Here, Chat!ScreenRow
  <2>2. CASE ~Chat!Here(c)
    BY <2>2, ScreenIs DEF Chat!Loads
  <2> QED
    BY <2>1, <2>2
<1>5. Chat!Formed' /\ Chat!MessagesStay
  BY <1>1, <1>3, <1>4 DEF Chat!Formed, Chat!MessagesStay
<1>6. Chat!BubblesAreThePlants' /\ Chat!TextIsTyped'
  BY <1>1, <1>3, <1>4 DEF Chat!BubblesAreThePlants, Chat!TextIsTyped, Chat!Sends
<1>7. Chat!TextIsInOnePlace'
  BY <1>1, <1>3, <1>4 DEF Chat!TextIsInOnePlace, Chat!ToSend, Chat!Stored, Chat!Pays
<1>8. /\ Chat!Reads(c) /\ \A d \in Threads : x5'[d].op # "no" => d # c /\ x5'[d] = x5[d]
      /\ \A d \in Threads : d # c /\ (Chat!Reads(d) \/ Chat!Sends(d)) => x5[d].visit # x5[c].visit
  BY <1>1, <1>3 DEF Chat!VisitsAreInOrder, Chat!Reads, Chat!Sends
<1>9. \A d \in Threads : /\ Chat!Reads(d)' => d # c /\ Chat!Reads(d) /\ x5'[d].visit = x5[d].visit
                         /\ Chat!Sends(d)' => d # c /\ Chat!Sends(d) /\ x5'[d].visit = x5[d].visit
                         /\ Chat!Wrote(d)' => d # c /\ Chat!Wrote(d) /\ Chat!Sends(d) /\ x5'[d] = x5[d]
  BY <1>8 DEF Chat!Reads, Chat!Sends, Chat!Wrote
<1>10. Chat!VisitsAreInOrder'
  BY <1>4, <1>8, <1>9 DEF Chat!VisitsAreInOrder
<1>11. Chat!RowsAreShownOnce'
  <2>1. Chat!AreRows(x5[c].ids) /\ \A s : (Chat!AreRows(s))' = Chat!AreRows(s)
    BY <1>1 DEF Chat!RowsAreShownOnce, Chat!AreRows
  <2>2. Chat!AreRows(x6.shown)
    BY DEF Chat!RowsAreShownOnce
  <2>3. Chat!AreRows(x6.shown)'
    BY <1>1, <1>4, <2>1, <2>2 DEF Chat!AreRows
  <2>4. \A d \in Threads : Chat!Wrote(d)' \/ x5'[d].op \in {"seen", "loads"} => Chat!AreRows(x5[d].ids) /\ x5'[d] = x5[d]
    BY <1>8, <1>9 DEF Chat!RowsAreShownOnce, Chat!Wrote
  <2>5. \A d \in Threads : Chat!Wrote(d)' \/ x5'[d].op \in {"seen", "loads"} => Chat!AreRows(x5[d].ids)'
    BY <1>1, <2>4 DEF Chat!AreRows
  <2>6. \A d \in Threads : Chat!Wrote(d)' /\ x5'[d].visit = x6'.visit => Chat!Apart(x5'[d].ids, x6'.shown)
    BY <1>4, <1>8, <1>9 DEF Chat!RowsAreShownOnce
  <2>7. \A d, e \in Threads : Chat!Wrote(d)' /\ Chat!Wrote(e)' /\ d # e => Chat!Apart(x5'[d].ids, x5'[e].ids)
    BY <1>9 DEF Chat!RowsAreShownOnce
  <2> QED
    BY <2>3, <2>4, <2>5, <2>6, <2>7 DEF Chat!RowsAreShownOnce, Chat!Apart, Chat!AreRows
<1> QED
  BY <1>5, <1>6, <1>7, <1>10, <1>11

\* The text in the field is on its way, once.
LEMMA TapKeeps ==
  ASSUME Chat!ChatInv, NEW c \in Threads, Chat!Tap(c)
  PROVE  Chat!ChatInv' /\ Chat!MessagesStay
<1> USE DEF Chat!ChatInv
<1>1. UNCHANGED <<x1, x2, x7>> /\ x5[c].op = "no" /\ x6.text # None /\ x6.loaded /\ x6.rendered
  BY DEF Chat!Tap, Chat!Free, Chat!MaySend, Chat!VisitsAreInOrder, Chat!TextIsTyped
<1>2. /\ x6' \in Chat!ScreenRow /\ x6'.visit = x6.visit /\ x6'.text = x6.text /\ x6'.typed = x6.typed
      /\ x6'.loaded = x6.loaded /\ x6'.shown = x6.shown /\ x6'.inFlight /\ ~x6'.rendered
      /\ x6.text \in Sayings /\ x6.visit \in Nat
  BY <1>1, ScreenIs DEF Chat!Tap, Chat!ScreenRow
<1>3. PICK row : /\ row = [op |-> "pay", visit |-> x6.visit, text |-> x6.text, heard |-> TRUE]
                 /\ row.op = "pay" /\ row.visit = x6.visit /\ row.text = x6.text
                 /\ x5' = [x5 EXCEPT ![c] = row]
  BY DEF Chat!Tap
<1>4. row \in Chat!CallRow
  BY <1>2, <1>3 DEF Chat!CallRow
<1>5. x5' \in [Threads -> Chat!CallRow] /\ x5'[c] = row /\ \A d \in Threads : d # c => x5'[d] = x5[d]
  BY <1>3, <1>4, ChatRequestGoesOn
<1>6. Chat!Formed' /\ Chat!MessagesStay
  BY <1>1, <1>2, <1>5 DEF Chat!Formed, Chat!MessagesStay
<1>7. Chat!BubblesAreThePlants' /\ Chat!TextIsTyped'
  BY <1>1, <1>2, <1>3, <1>5 DEF Chat!BubblesAreThePlants, Chat!TextIsTyped, Chat!Sends
<1>8. Chat!TextIsInOnePlace'
  <2>1. Chat!ToSend(x6.text) /\ \A m : ~Chat!ToSend(m)'
    BY <1>1, <1>2 DEF Chat!ToSend
  <2>2. \A m : Chat!Pays(c, m)' => m = x6.text
    BY <1>3, <1>5 DEF Chat!Pays
  <2>3. \A d \in Threads : d # c => \A m : Chat!Pays(d, m)' = Chat!Pays(d, m)
    BY <1>5 DEF Chat!Pays
  <2>4. \A m : Chat!Stored(m)' = Chat!Stored(m)
    BY <1>1 DEF Chat!Stored
  <2> QED
    BY <1>1, <1>2, <2>1, <2>2, <2>3, <2>4 DEF Chat!TextIsInOnePlace
<1>9. /\ \A d \in Threads : /\ Chat!Reads(d)' => d # c /\ Chat!Reads(d) /\ x5'[d].visit = x5[d].visit
                            /\ Chat!Sends(d)' => d = c \/ (Chat!Sends(d) /\ x5'[d].visit = x5[d].visit)
                            /\ Chat!Wrote(d)' => d # c /\ Chat!Wrote(d) /\ x5'[d] = x5[d]
                            /\ x5'[d].op \in {"seen", "loads"} => d # c /\ x5'[d] = x5[d]
      /\ x5'[c].visit = x6.visit
  BY <1>3, <1>5 DEF Chat!Reads, Chat!Sends, Chat!Wrote
<1>10. Chat!VisitsAreInOrder'
  BY <1>1, <1>2, <1>9 DEF Chat!VisitsAreInOrder
<1>11. Chat!RowsAreShownOnce'
  BY <1>1, <1>2, <1>9 DEF Chat!RowsAreShownOnce, Chat!AreRows, Chat!Apart
<1> QED
  BY <1>6, <1>7, <1>8, <1>10, <1>11

\* The message is paid and stored; it is in the chat and nowhere else.
LEMMA PayOfChatKeeps ==
  ASSUME Chat!ChatInv, NEW c \in Threads, Chat!Pay(c)
  PROVE  Chat!ChatInv' /\ Chat!MessagesStay
<1> USE DEF Chat!ChatInv
<1>1. PICK said, new : said = x5[c].text /\ new = Len(x1) + 1
  OBVIOUS
<1>2. /\ UNCHANGED <<x6, x7>> /\ x2' \in Nat /\ x5[c].op = "pay"
      /\ x1' = Append(x1, Chat!Row("user", "message", said))
  BY <1>1 DEF Chat!Pay, Chat!Inserts, Chat!Takes, Chat!Formed
<1>3. x5[c] \in [op : {"pay"}, visit : Nat, text : Sayings, heard : BOOLEAN] /\ said \in Sayings
  BY <1>1, <1>2, RequestIs
<1>4. PICK row : /\ row = [op |-> "think", visit |-> x5[c].visit, text |-> said, heard |-> x5[c].heard, ids |-> <<new>>]
                 /\ row.op = "think" /\ row.visit = x5[c].visit /\ row.text = said /\ row.ids = <<new>>
                 /\ x5' = [x5 EXCEPT ![c] = row]
  BY <1>1 DEF Chat!Pay
<1>5. PICK entry : /\ entry \in Chat!RowType /\ entry.role = "user" /\ entry.kind = "message"
                      /\ entry.body = said /\ x1' = Append(x1, entry)
  <2>1. x2 \in Nat
    BY DEF Chat!Formed
  <2> QED
    BY <1>2, <1>3, <2>1 DEF Chat!Row, Chat!RowType
<1>6. /\ x1' \in Seq(Chat!RowType) /\ new \in Nat /\ DOMAIN x1' = DOMAIN x1 \cup {new} /\ new \notin DOMAIN x1
      /\ x1'[new] = entry /\ \A i \in DOMAIN x1 : x1'[i] = x1[i]
  <2>1. /\ x1' \in Seq(Chat!RowType) /\ Len(x1) \in Nat
        /\ DOMAIN x1 = 1 .. Len(x1) /\ DOMAIN x1' = 1 .. (Len(x1) + 1)
        /\ x1'[Len(x1) + 1] = entry /\ \A i \in DOMAIN x1 : x1'[i] = x1[i]
    BY <1>5, RowIsAdded
  <2>2. 1 .. (Len(x1) + 1) = 1 .. Len(x1) \cup {Len(x1) + 1} /\ Len(x1) + 1 \notin 1 .. Len(x1)
    BY <2>1
  <2> QED
    BY <1>1, <2>1, <2>2
<1>7. row \in Chat!CallRow
  <2>1. <<new>> \in Seq(Nat)
    BY <1>6
  <2> QED
    BY <1>3, <1>4, <2>1 DEF Chat!CallRow
<1>8. x5' \in [Threads -> Chat!CallRow] /\ x5'[c] = row /\ \A d \in Threads : d # c => x5'[d] = x5[d]
  BY <1>4, <1>7, ChatRequestGoesOn
<1>9. Chat!Formed' /\ Chat!MessagesStay
  BY <1>2, <1>6, <1>8 DEF Chat!Formed, Chat!MessagesStay
<1>10. Chat!BubblesAreThePlants' /\ Chat!TextIsTyped'
  <2>1. said \in x6.typed
    BY <1>1, <1>2 DEF Chat!TextIsTyped, Chat!Sends
  <2>2. Chat!BubblesAreThePlants'
    BY <1>4, <1>5, <1>6, <1>8 DEF Chat!BubblesAreThePlants
  <2>3. Chat!TextIsTyped'
    BY <1>2, <1>4, <1>5, <1>6, <1>8, <2>1 DEF Chat!TextIsTyped, Chat!Sends
  <2> QED
    BY <2>2, <2>3
<1>11. Chat!TextIsInOnePlace'
  <2>1. /\ Chat!Stored(said)' = Chat!Stored(said) \cup {new}
        /\ \A m : m # said => Chat!Stored(m)' = Chat!Stored(m)
    BY <1>5, <1>6 DEF Chat!Stored
  <2>2. Chat!Pays(c, said) /\ \A m : ~Chat!Pays(c, m)'
    BY <1>1, <1>2, <1>4, <1>8 DEF Chat!Pays
  <2>3. \A d \in Threads : d # c => \A m : Chat!Pays(d, m)' = Chat!Pays(d, m)
    BY <1>8 DEF Chat!Pays
  <2>4. \A m : Chat!ToSend(m)' = Chat!ToSend(m)
    BY <1>2 DEF Chat!ToSend
  <2> SUFFICES ASSUME x7 = 0, NEW m \in Sayings
               PROVE  /\ Chat!ToSend(m) => Chat!Stored(m)' = {} /\ \A d \in Threads : ~Chat!Pays(d, m)'
                      /\ \A d \in Threads : Chat!Pays(d, m)' =>
                           Chat!Stored(m)' = {} /\ \A e \in Threads : Chat!Pays(e, m)' => d = e
                      /\ \A i, j \in Chat!Stored(m)' : i = j
    BY <1>2, <2>4 DEF Chat!TextIsInOnePlace
  <2>5. CASE m = said
    BY <1>3, <2>1, <2>2, <2>3, <2>5 DEF Chat!TextIsInOnePlace
  <2>6. CASE m # said
    BY <2>1, <2>2, <2>3, <2>6 DEF Chat!TextIsInOnePlace
  <2> QED
    BY <2>5, <2>6
<1>12. \A d \in Threads : /\ Chat!Reads(d)' => d # c /\ Chat!Reads(d) /\ x5'[d].visit = x5[d].visit
                          /\ Chat!Sends(d)' => Chat!Sends(d) /\ x5'[d].visit = x5[d].visit
                          /\ d # c => x5'[d] = x5[d] /\ Chat!Wrote(d)' = Chat!Wrote(d)
  BY <1>2, <1>4, <1>8 DEF Chat!Reads, Chat!Sends, Chat!Wrote
<1>13. Chat!VisitsAreInOrder'
  BY <1>2, <1>12 DEF Chat!VisitsAreInOrder
<1>14. Chat!RowsAreShownOnce'
  <2>1. Chat!AreRows(<<new>>)'
    BY <1>6 DEF Chat!AreRows
  <2>2. \A s : Chat!AreRows(s) => (Chat!AreRows(s))' /\ Chat!Apart(s, <<new>>) /\ Chat!Apart(<<new>>, s)
    BY <1>6 DEF Chat!AreRows, Chat!Apart
  <2>3. Chat!AreRows(x6.shown) /\ \A d \in Threads : d # c /\ Chat!Wrote(d) => Chat!AreRows(x5[d].ids)
    BY DEF Chat!RowsAreShownOnce
  <2>4. \A d \in Threads : Chat!Wrote(d)' \/ x5'[d].op \in {"seen", "loads"} => (Chat!AreRows(x5[d].ids))'
    <3> SUFFICES ASSUME NEW d \in Threads, Chat!Wrote(d)' \/ x5'[d].op \in {"seen", "loads"}
                 PROVE  (Chat!AreRows(x5[d].ids))'
      OBVIOUS
    <3>1. CASE d = c
      BY <1>4, <1>8, <2>1, <3>1 DEF Chat!AreRows
    <3>2. CASE d # c
      <4>1. x5'[d] = x5[d] /\ Chat!AreRows(x5[d].ids)
        BY <1>12, <3>2 DEF Chat!RowsAreShownOnce
      <4> QED
        BY <2>2, <4>1 DEF Chat!AreRows
    <3> QED
      BY <3>1, <3>2
  <2> QED
    BY <1>2, <1>4, <1>8, <1>12, <2>2, <2>3, <2>4 DEF Chat!RowsAreShownOnce, Chat!Apart
<1> QED
  BY <1>9, <1>10, <1>11, <1>13, <1>14

\* One sequence after another.
LEMMA OneAfterAnother ==
  ASSUME NEW s \in Seq(Nat), NEW t \in Seq(Nat)
  PROVE  /\ DOMAIN (s \o t) = 1 .. (Len(s) + Len(t)) /\ Len(s) \in Nat /\ Len(t) \in Nat
         /\ DOMAIN s = 1 .. Len(s) /\ DOMAIN t = 1 .. Len(t)
         /\ \A i \in 1 .. (Len(s) + Len(t)) : (s \o t)[i] = IF i <= Len(s) THEN s[i] ELSE t[i - Len(s)]
<1>1. Len(s \o t) = Len(s) + Len(t) /\ s \o t \in Seq(Nat) /\ Len(s) \in Nat /\ Len(t) \in Nat
  OBVIOUS
<1>2. DOMAIN (s \o t) = 1 .. (Len(s) + Len(t))
  BY <1>1
<1>3. ASSUME NEW i \in 1 .. (Len(s) + Len(t)) PROVE (s \o t)[i] = IF i <= Len(s) THEN s[i] ELSE t[i - Len(s)]
  BY <1>1, <1>3
<1> QED
  BY <1>1, <1>2, <1>3

\* The rows of the message and of its answer come after those that are shown.
LEMMA BackKeeps ==
  ASSUME Chat!ChatInv, NEW c \in Threads, Chat!Back(c)
  PROVE  Chat!ChatInv' /\ Chat!MessagesStay
<1> USE DEF Chat!ChatInv
<1>1. UNCHANGED <<x1, x2, x7>> /\ x5' = [x5 EXCEPT ![c] = Chat!Free] /\ x5[c].op = "back"
  BY DEF Chat!Back, Chat!Ends
<1>2. PICK ids, now : ids = x5[c].ids /\ now = x6.shown /\ ids \in Seq(Nat) /\ now \in Seq(Nat)
  <2>1. x5[c].ids \in Seq(Nat) /\ x6.shown \in Seq(Nat)
    BY <1>1, RequestIs, ScreenIs DEF Chat!Wrote
  <2> QED
    BY <2>1
<1>3. /\ x5' \in [Threads -> Chat!CallRow] /\ x5'[c].op = "no"
      /\ \A d \in Threads : d # c => x5'[d] = x5[d]
  BY <1>1, FreeIsARow, ChatRequestGoesOn
<1>4. /\ x6' \in Chat!ScreenRow /\ x6'.visit = x6.visit /\ x6'.text = x6.text /\ x6'.typed = x6.typed
      /\ x6'.rendered = x6.rendered /\ x6'.loaded = x6.loaded
      /\ x6'.inFlight = x6.inFlight \/ x6.rendered
      /\ x6'.shown = now \/ (x6'.shown = now \o ids /\ x5[c].visit = x6.visit)
  <2>1. CASE Chat!Here(c)
    <3>1. x6' = [x6 EXCEPT !.waits = @ \ {c}, !.inFlight = FALSE, !.shown = @ \o ids] /\ x6.rendered
      BY <1>2, <2>1 DEF Chat!Back, Chat!Settled
    <3>2. now \o ids \in Seq(Nat)
      BY <1>2
    <3> QED
      BY <1>2, <2>1, <3>1, <3>2, ScreenIs DEF Chat!Here, Chat!ScreenRow
  <2>2. CASE ~Chat!Here(c)
    BY <1>2, <2>2, ScreenIs DEF Chat!Back
  <2> QED
    BY <2>1, <2>2
<1>5. Chat!Formed' /\ Chat!MessagesStay
  BY <1>1, <1>3, <1>4 DEF Chat!Formed, Chat!MessagesStay
<1>6. Chat!BubblesAreThePlants' /\ Chat!TextIsTyped'
  BY <1>1, <1>3, <1>4 DEF Chat!BubblesAreThePlants, Chat!TextIsTyped, Chat!Sends
<1>7. Chat!TextIsInOnePlace'
  BY <1>1, <1>3, <1>4 DEF Chat!TextIsInOnePlace, Chat!ToSend, Chat!Stored, Chat!Pays
<1>8. \A d \in Threads : /\ Chat!Reads(d)' => d # c /\ Chat!Reads(d) /\ x5'[d].visit = x5[d].visit
                         /\ Chat!Sends(d)' => d # c /\ Chat!Sends(d) /\ x5'[d].visit = x5[d].visit
                         /\ Chat!Wrote(d)' => d # c /\ Chat!Wrote(d) /\ x5'[d] = x5[d]
                         /\ x5'[d].op \in {"seen", "loads"} => d # c /\ x5'[d] = x5[d]
  BY <1>3 DEF Chat!Reads, Chat!Sends, Chat!Wrote
<1>9. Chat!VisitsAreInOrder'
  BY <1>4, <1>8 DEF Chat!VisitsAreInOrder
<1>10. Chat!RowsAreShownOnce'
  <2>1. /\ Chat!AreRows(now) /\ Chat!AreRows(ids)
        /\ \A d \in Threads : Chat!Wrote(d) /\ d # c => Chat!Apart(x5[d].ids, ids)
        /\ \A d \in Threads : Chat!Wrote(d) /\ x5[d].visit = x6.visit => Chat!Apart(x5[d].ids, now)
        /\ x5[c].visit = x6.visit => Chat!Apart(ids, now)
    BY <1>1, <1>2 DEF Chat!RowsAreShownOnce, Chat!Wrote
  <2>2. /\ DOMAIN now = 1 .. Len(now) /\ DOMAIN ids = 1 .. Len(ids) /\ Len(now) \in Nat /\ Len(ids) \in Nat
        /\ DOMAIN (now \o ids) = 1 .. (Len(now) + Len(ids))
        /\ \A i \in 1 .. (Len(now) + Len(ids)) : (now \o ids)[i] = IF i <= Len(now) THEN now[i] ELSE ids[i - Len(now)]
    BY <1>2, OneAfterAnother, Zenon
  <2>3. PICK both : /\ both = now \o ids /\ DOMAIN both = 1 .. (Len(now) + Len(ids))
                    /\ \A i \in DOMAIN both : both[i] = IF i <= Len(now) THEN now[i] ELSE ids[i - Len(now)]
    BY <2>2
  <2>4. \A i \in DOMAIN both : \/ i \in DOMAIN now /\ both[i] = now[i]
                               \/ i - Len(now) \in DOMAIN ids /\ both[i] = ids[i - Len(now)] /\ i > Len(now)
    BY <2>2, <2>3
  <2>5. Chat!Apart(ids, now) => Chat!AreRows(both)
    BY <2>1, <2>2, <2>3, <2>4 DEF Chat!AreRows, Chat!Apart
  <2>6. \A s : Chat!Apart(s, now) /\ Chat!Apart(s, ids) => Chat!Apart(s, both)
    BY <2>4 DEF Chat!Apart
  <2>7. Chat!AreRows(x6.shown)'
    <3>1. Chat!AreRows(now) /\ (x6'.shown = now \/ (x6'.shown = both /\ Chat!AreRows(both)))
      BY <1>4, <2>1, <2>3, <2>5
    <3>2. CASE x6'.shown = now
      BY <1>1, <3>1, <3>2 DEF Chat!AreRows
    <3>3. CASE x6'.shown = both /\ Chat!AreRows(both)
      BY <1>1, <3>3 DEF Chat!AreRows
    <3> QED
      BY <3>1, <3>2, <3>3
  <2>8. \A d \in Threads : Chat!Wrote(d)' /\ x5'[d].visit = x6'.visit => Chat!Apart(x5'[d].ids, x6'.shown)
    BY <1>4, <1>8, <2>1, <2>3, <2>6
  <2>9. \A d \in Threads : Chat!Wrote(d)' \/ x5'[d].op \in {"seen", "loads"} => Chat!AreRows(x5[d].ids) /\ x5'[d] = x5[d]
    BY <1>8 DEF Chat!RowsAreShownOnce
  <2>10. \A d \in Threads : Chat!Wrote(d)' \/ x5'[d].op \in {"seen", "loads"} => (Chat!AreRows(x5[d].ids))'
    BY <1>1, <2>9 DEF Chat!AreRows
  <2>11. \A d, e \in Threads : Chat!Wrote(d)' /\ Chat!Wrote(e)' /\ d # e => Chat!Apart(x5'[d].ids, x5'[e].ids)
    BY <1>8 DEF Chat!RowsAreShownOnce
  <2> QED
    BY <2>7, <2>8, <2>10, <2>11 DEF Chat!RowsAreShownOnce, Chat!Apart
<1> QED
  BY <1>5, <1>6, <1>7, <1>9, <1>10

\* The text of what failed is in the field again: from then on it may come twice.
LEMMA FailsKeep ==
  ASSUME Chat!ChatInv, NEW c \in Threads, Chat!Fails(c)
  PROVE  Chat!ChatInv' /\ Chat!MessagesStay
<1> USE DEF Chat!ChatInv
<1>1. UNCHANGED <<x1, x2>> /\ x7' = x7 + 1 /\ x7 \in Nat /\ Chat!Sends(c)
  BY DEF Chat!Fails, Chat!Formed, Chat!Sends
<1>2. x5[c].text \in Sayings
  BY <1>1, RequestIs DEF Chat!Sends, Chat!Wrote
<1>3. PICK row : /\ row \in Chat!CallRow /\ x5' = [x5 EXCEPT ![c] = row]
                 /\ \/ row.op = "no"
                    \/ /\ row.op = x5[c].op /\ row.text = x5[c].text /\ row.visit = x5[c].visit
                       /\ Chat!Wrote(c) => row.ids = x5[c].ids
  <2>1. CASE x5' = [x5 EXCEPT ![c] = Chat!Free]
    BY <2>1, FreeIsARow
  <2>2. CASE x5' = [x5 EXCEPT ![c].heard = FALSE]
    <3> DEFINE row == [x5[c] EXCEPT !.heard = FALSE]
    <3>1. CASE x5[c].op = "pay"
      <4>1. /\ row \in Chat!CallRow /\ row.op = x5[c].op /\ row.text = x5[c].text /\ row.visit = x5[c].visit
            /\ ~Chat!Wrote(c)
        BY <3>1, RequestIs DEF Chat!CallRow, Chat!Wrote
      <4> QED
        BY <2>2, <4>1
    <3>2. CASE Chat!Wrote(c)
      <4>1. /\ row \in Chat!CallRow /\ row.op = x5[c].op /\ row.text = x5[c].text /\ row.visit = x5[c].visit
            /\ row.ids = x5[c].ids
        BY <3>2, RequestIs DEF Chat!CallRow
      <4> QED
        BY <2>2, <4>1
    <3> QED
      BY <1>1, <3>1, <3>2 DEF Chat!Sends, Chat!Wrote
  <2> QED
    BY <2>1, <2>2 DEF Chat!Fails, Chat!Ends
<1>4. x5' \in [Threads -> Chat!CallRow] /\ x5'[c] = row /\ \A d \in Threads : d # c => x5'[d] = x5[d]
  BY <1>3, ChatRequestGoesOn
<1>5. /\ x6' \in Chat!ScreenRow /\ x6'.visit = x6.visit /\ x6'.typed = x6.typed
      /\ x6'.rendered = x6.rendered /\ x6'.loaded = x6.loaded /\ x6'.shown = x6.shown
      /\ x6'.inFlight = x6.inFlight \/ x6.rendered
      /\ x6'.text = x6.text \/ (x6'.text = x5[c].text /\ x5[c].visit = x6.visit)
  <2>1. CASE Chat!Here(c)
    <3>1. x6' = [x6 EXCEPT !.waits = @ \ {c}, !.inFlight = FALSE, !.text = x5[c].text] /\ x6.rendered
      BY <2>1 DEF Chat!Fails, Chat!Settled
    <3> QED
      BY <1>2, <2>1, <3>1, ScreenIs DEF Chat!Here, Chat!ScreenRow
  <2>2. CASE ~Chat!Here(c)
    BY <2>2, ScreenIs DEF Chat!Fails
  <2> QED
    BY <2>1, <2>2
<1>6. Chat!Formed' /\ Chat!MessagesStay
  BY <1>1, <1>4, <1>5 DEF Chat!Formed, Chat!MessagesStay
<1>7. Chat!BubblesAreThePlants' /\ Chat!TextIsInOnePlace'
  BY <1>1, <1>3, <1>4 DEF Chat!BubblesAreThePlants, Chat!TextIsInOnePlace, Chat!Sends
<1>8. \A d \in Threads : /\ Chat!Reads(d)' => Chat!Reads(d) /\ x5'[d] = x5[d]
                         /\ Chat!Sends(d)' => Chat!Sends(d) /\ x5'[d].visit = x5[d].visit /\ x5'[d].text = x5[d].text
                         /\ Chat!Wrote(d)' => Chat!Wrote(d) /\ x5'[d].visit = x5[d].visit /\ x5'[d].ids = x5[d].ids
                         /\ x5'[d].op \in {"seen", "loads"} => x5'[d] = x5[d]
  BY <1>1, <1>3, <1>4 DEF Chat!Reads, Chat!Sends, Chat!Wrote
<1>9. Chat!TextIsTyped'
  BY <1>1, <1>5, <1>8 DEF Chat!TextIsTyped
<1>10. Chat!VisitsAreInOrder'
  BY <1>1, <1>5, <1>8 DEF Chat!VisitsAreInOrder
<1>11. Chat!RowsAreShownOnce'
  BY <1>1, <1>5, <1>8 DEF Chat!RowsAreShownOnce, Chat!AreRows, Chat!Apart
<1> QED
  BY <1>6, <1>7, <1>9, <1>10, <1>11

LEMMA ChatGoesOn ==
  Chat!ChatInv /\ [Chat!Next]_(Chat!chatVars) => Chat!ChatInv' /\ Chat!MessagesStay
BY HoursKeep, AsksKeep, ThePlantSpeaks, RewriteKeeps, ScreenAloneKeeps, OpenChatKeeps, LoadsKeep, TapKeeps,
   PayOfChatKeeps, BackKeeps, FailsKeep DEF Chat!Next

LEMMA InvSaidOnce == Chat!ChatInv => Chat!SaidOnce
<1> SUFFICES ASSUME Chat!ChatInv PROVE Chat!SaidOnce
  OBVIOUS
<1>1. \A S : Chat!Cardinality(S) = Cardinality(S)
  BY DEF Chat!Cardinality, Cardinality
<1>2. ASSUME x7 = 0, NEW m \in Sayings PROVE Chat!Cardinality(Chat!Stored(m)) <= 1
  <2>1. \A i, j \in Chat!Stored(m) : i = j
    BY <1>2 DEF Chat!ChatInv, Chat!TextIsInOnePlace
  <2>2. CASE Chat!Stored(m) = {}
    BY <1>1, <2>2, FS_EmptySet
  <2>3. ASSUME NEW i \in Chat!Stored(m) PROVE Chat!Cardinality(Chat!Stored(m)) <= 1
    <3>1. Chat!Stored(m) = {i}
      BY <2>1
    <3> QED
      <4>1. Cardinality({i}) = 1
        BY FS_Singleton
      <4> QED
        BY <1>1, <3>1, <4>1
  <2> QED
    BY <2>2, <2>3
<1>3. \A i, j \in DOMAIN x6.shown : x6.shown[i] = x6.shown[j] => i = j
  BY DEF Chat!ChatInv, Chat!RowsAreShownOnce, Chat!AreRows
<1> QED
  BY <1>2, <1>3 DEF Chat!SaidOnce

-----------------------------------------------------------------------------
(* The other parts.                                                           *)

\* Accounts, session ids and calls are interchangeable, and so are the chats,
\* tabs and lines that the other parts call by their names.
Copies == Permutations(Accounts) \cup Permutations(Sids) \cup Permutations(Threads)

\* The same code comes from two chats, in an update named after its chat.
MCChatOf == [u \in Accounts |-> u]
MCCodeOf == [u \in Accounts |-> "k1"]
\* One order of before the second recipe and one of after it; the third is
\* never in force.
MCSoldAt == [o \in {"o1", "o2"} |-> IF o = "o1" THEN 1 ELSE 2]
MCInForce == [v \in {"v1", "v2"} |-> IF v = "v1" THEN 0 ELSE 2]
MCMaterials == [v \in {"v1", "v2"} |-> IF v = "v1" THEN {"water"} ELSE {"water", "lid"}]
\* One drink on the first day of a week, two on the second.
MCForeseen == [d \in 0..1 |-> d + 1]
\* The machine knows one drink at first, and then two.
MCBackups == {"espresso" :> {"k1"}, ("espresso" :> {"k1"}) @@ ("latte" :> {"k1"})}
MCFirstCanister == [i \in {"coffee"} |-> "k1"]
\* A sale and its return.
MCSaleOf == [r \in {"a1", "b1"} |-> IF r = "b1" THEN "a1" ELSE None]
\* A cup in order, one without a receipt, one that failed; and cash.
MCKinds == {<<"card", TRUE, TRUE>>, <<"card", TRUE, FALSE>>, <<"card", FALSE, TRUE>>,
            <<"cash", TRUE, TRUE>>}
\* A file that stays from the first version to the second, and one to the third.
MCFilesOf == <<{"a.js", "a.css"}, {"b.js", "a.css"}, {"b.js", "b.css"}>>
MCDays == [f \in {"a.js", "b.js", "a.css", "b.css"} |-> IF f \in {"a.js", "b.js"} THEN 1 ELSE 2]
\* A notice to a player with two plants, one to a player with one.
MCNoticeOf == <<"u1", "u2">>
MCAtFirst == {<<1, "u1">>, <<2, "u1">>, <<3, "u2">>}
\* A sprout that is watered twice (once in the code, where no transition takes
\* more), then plants one bud and then two.
MCTransitions ==
  <<[need |-> "water", applications |-> 2, plants |-> "nothing", count |-> 0],
    [need |-> "fertilizer", applications |-> 1, plants |-> "buds", count |-> 1],
    [need |-> "fertilizer", applications |-> 1, plants |-> "buds", count |-> 2]>>
MCSupplies == [water |-> 2, fertilizer |-> 2]
MCPlants == <<"p1", "p2">>
\* Two warehouses of one city, one of them a parcel locker, and one of another.
MCCityOf == [w \in {"w1", "w2", "w3"} |-> IF w = "w3" THEN "lviv" ELSE "kyiv"]
MCKindOf == [w \in {"w1", "w2", "w3"} |-> IF w = "w2" THEN "postomat" ELSE "branch"]
MCMatches == {"all"} \X {"kyiv", "lviv", "w1", "w2", "w3"} \cup {<<"one", "kyiv">>, <<"one", "w1">>}
MCBefore == <<[product |-> "cup", warehouse |-> "w2"]>>

Invoice == INSTANCE Payments WITH
       bank <- x1, hooks <- x2, asked <- x3, row <- x4, entries <- x5, paid <- x6,
       Invoices <- {"i1"}, SaleIsOn <- TRUE
Book == INSTANCE StockBook WITH
       now <- x1, left <- x2, first <- x3, came <- x4, drunk <- x5, counted <- x6,
       purchases <- x7, usage <- x8, counts <- x9, request <- x10, daily <- x11, pass <- x12,
       Deliveries <- {"d1"}, Cups <- {"c1"}, Counts <- {"k1"}, Admins <- {"a1"}, Items <- {"i1"},
       LotMax <- 1, StartMax <- 1, PerDay <- 0, DayLength <- 2, Horizon <- 2
Forecast == INSTANCE StockForecast WITH
       now <- x1, sold <- x2, left <- x3, closing <- x4, bought <- x5, daily <- x6,
       DayLength <- 2, WeekLength <- 2, Foreseen <- MCForeseen, CurveDays <- 3, CoverDays <- 2,
       Lot <- 2, StartMax <- 4, Deliveries <- 1, Horizon <- 7
Recipe == INSTANCE Recipes WITH
       now <- x1, canister <- x2, versions <- x3, screen <- x4,
       Admins <- {"a1"}, Ingredients <- {"coffee"}, Canisters <- {"k1"}, Cup <- "cup",
       Lid <- "lid", Stick <- "stick", Drinks <- {"latte", "espresso"},
       Lidded <- {"latte", "espresso"}, Every <- "every", Backups <- MCBackups,
       FirstCanister <- MCFirstCanister, All <- 2, Horizon <- 1
Polling == INSTANCE ReceiptPoll WITH
       now <- x1, date <- x2, state <- x3, rows <- x4, linked <- x5, cursor <- x6, lock <- x7,
       poll <- x8, token <- x9, hooks <- x10, signs <- x11, stored <- x12, cached <- x13,
       faults <- x14,
       Receipts <- {"a1", "b1"}, SaleOf <- MCSaleOf, Copies <- {"c1"}, Overlap <- 1,
       MaxDelay <- 1, PageSize <- 1, NewestFirst <- FALSE, Horizon <- 2, MaxFaults <- 1
Health == INSTANCE Health WITH
       now <- x1, flips <- x2, up <- x3, heard <- x4, pc <- x5, left <- x6, found <- x7,
       begun <- x8, row <- x9, rounds <- x10, wasUp <- x11, wasDown <- x12,
       Services <- {"api"}, Bucket <- 2, CellSize <- 2, Silence <- 1, Horizon <- 3, MaxFlips <- 2
Server == INSTANCE ServerWatch WITH
       level <- x1, samples <- x2, container <- x3, listed <- x4, counted <- x5, pc <- x6,
       lines <- x7, seen <- x8, told <- x9, rested <- x10, restarted <- x11,
       Samples <- 2, Fresh <- 2, MaxRestarts <- 1, MaxRollouts <- 1
Portal == INSTANCE PortalSession WITH
       now <- x1, session <- x2, loginLock <- x3, slot <- x4, alive <- x5, made <- x6, uk <- x7,
       job <- x8, logins <- x9, done <- x10, rows <- x11, faults <- x12,
       Jobs <- {"j1", "j2"}, Every <- 2, Ttl <- 4, Tries <- 2, LastRequest <- 2,
       OneSession <- TRUE, Horizon <- 3, MaxSessions <- 1, MaxFaults <- 1
Pairs == INSTANCE Reconcile WITH
       now <- x1, cups <- x2, polled <- x3, refunded <- x4,
       MakeTime <- 1, Match <- 4, OrderGrace <- 4, ReceiptGrace <- 5, Day <- 7, PollEvery <- 2,
       Kinds <- MCKinds, MaxCups <- 3, Horizon <- 11
Rolling == INSTANCE ServerRollout WITH
       env <- x1, schema <- x2, boxes <- x3, made <- x4, plain <- x5, roll <- x6, request <- x7,
       Services <- <<"api", "ws">>, Rollouts <- {1, 2}, Requests <- {"q1"}, MaxIds <- 8,
       Overlapping <- FALSE
Caddy == INSTANCE CaddyConf WITH
       image <- x1, file <- x2, aside <- x3, applied <- x4, serves <- x5, step <- x6,
       wanted <- x7, count <- x8,
       Images <- {1, 2, 3}, Broken <- {}, MayRollBack <- FALSE, MaxRollouts <- 3
Front == INSTANCE FrontDeploy WITH
       today <- x1, site <- x2, deploy <- x3, retired <- x4, done <- x5, faults <- x6,
       Sources <- {1, 2, 3}, FilesOf <- MCFilesOf, Files <- {"a.js", "b.js", "a.css", "b.css"},
       Days <- MCDays, Deploys <- {1}, Horizon <- 3, MaxDeploys <- 4, MaxFaults <- 0
Notice == INSTANCE Notices WITH
       owner <- x1, born <- x2, seen <- x3, opens <- x4, place <- x5, at <- x6, chosen <- x7,
       moving <- x8, moves <- x9, opening <- x10, shown <- x11, raced <- x12,
       Users <- {"u1", "u2"}, Plants <- 1..4, Notices <- 1..2, NoticeOf <- MCNoticeOf,
       AtFirst <- MCAtFirst, MaxOpens <- 1, MaxMoves <- 2
History == INSTANCE Navigation WITH
       stack <- x1, stackLen <- x2, entries <- x3, at <- x4, steps <- x5, wanted <- x6, used <- x7,
       Screens <- {"s1", "s2"}, Patient <- TRUE, MaxOpened <- 4, MaxPresses <- 4, MaxReloads <- 2
Plant == INSTANCE Growth WITH
       stage <- x1, progress <- x2, grownAt <- x3, wateredAt <- x4, planted <- x5, draft <- x6,
       supply <- x7, harvest <- x8, screen <- x9, requests <- x10, day <- x11, diary <- x12,
       Screens <- {"s1", "s2"}, Transitions <- MCTransitions, Supplies <- MCSupplies,
       MaxDays <- 3, MaxRequests <- 2
Screen == INSTANCE PlantScreen WITH
       mine <- x1, stage <- x2, sale <- x3, stock <- x4, news <- x5, happened <- x6, shown <- x7,
       error <- x8, fresh <- x9, index <- x10, remembered <- x11, popup <- x12, soon <- x13,
       acting <- x14, applied <- x15, reloads <- x16, fx <- x17, opened <- x18,
       Plants <- {"p1", "p2"}, AtFirst <- MCPlants, Applications <- {"a1"}, Planting <- {1},
       MaxStage <- 1, MaxStock <- 1, MaxReloads <- 2, MaxNews <- 1
Client == INSTANCE ClientSession WITH
       alive <- x1, cookie <- x2, token <- x3, refreshing <- x4, request <- x5, me <- x6,
       recent <- x7, booting <- x8, asked <- x9, opened <- x10, lost <- x11, expired <- x12,
       Sessions <- {"s1", "s2"}, Requests <- {"boot", "r1", "r2"}, Boot <- "boot", Attempts <- 3,
       QuietSignIn <- TRUE, MaxLost <- 3, MaxExpired <- 2
Order == INSTANCE Checkout WITH
       working <- x1, orders <- x2, screen <- x3, form <- x4, drafts <- x5, prefill <- x6,
       picker <- x7, searches <- x8, confirm <- x9, post <- x10,
       Products <- {"cup"}, Cities <- {"kyiv", "lviv"}, Warehouses <- {"w1", "w2", "w3"},
       CityOf <- MCCityOf, KindOf <- MCKindOf, Fits <- {<<"w2", "cup">>},
       Queries <- {"all", "one"}, Matches <- MCMatches, Before <- MCBefore, MaxSearches <- 1,
       MaxOrders <- 2

\* A part with n variables leaves the others as they are.
Unused(n) ==
  /\ n < 4 => x1 = None /\ x2 = None /\ x3 = None /\ x4 = None
  /\ n < 5 => x5 = None
  /\ n < 6 => x6 = None
  /\ n < 7 => x7 = None
  /\ n < 8 => x8 = None
  /\ n < 10 => x9 = None /\ x10 = None
  /\ n < 11 => x11 = None
  /\ n < 12 => x12 = None
  /\ n < 14 => x13 = None /\ x14 = None
  /\ n < 18 => x15 = None /\ x16 = None /\ x17 = None /\ x18 = None
Kept(n) ==
  /\ n < 4 => UNCHANGED <<x1, x2, x3, x4>>
  /\ n < 5 => UNCHANGED x5
  /\ n < 6 => UNCHANGED x6
  /\ n < 7 => UNCHANGED x7
  /\ n < 8 => UNCHANGED x8
  /\ n < 10 => UNCHANGED <<x9, x10>>
  /\ n < 11 => UNCHANGED x11
  /\ n < 12 => UNCHANGED x12
  /\ n < 14 => UNCHANGED <<x13, x14>>
  /\ n < 18 => UNCHANGED <<x15, x16, x17, x18>>

MCInit ==
  /\ part \in Parts
  /\ Init
  /\ \/ part = "sessions" /\ Unused(0)
     \/ part = "support" /\ Support!Init /\ Unused(14)
     \/ part = "chat" /\ Chat!Init /\ Unused(7)
     \/ part = "shop" /\ Store!Init /\ Unused(8)
     \/ part = "rewards" /\ Reward!Init /\ Unused(8)
     \/ part = "payments" /\ Invoice!Init /\ Unused(6)
     \/ part = "usage" /\ Usage!Init /\ Unused(5)
     \/ part = "book" /\ Book!Init /\ Unused(12)
     \/ part = "forecast" /\ Forecast!Init /\ Unused(6)
     \/ part = "recipes" /\ Recipe!Init /\ Unused(4)
     \/ part = "receipts" /\ Polling!Init /\ Unused(14)
     \/ part = "health" /\ Health!Init /\ Unused(12)
     \/ part = "server" /\ Server!Init /\ Unused(11)
     \/ part = "portal" /\ Portal!Init /\ Unused(12)
     \/ part = "pairs" /\ Pairs!Init /\ Unused(4)
     \/ part = "rollout" /\ Rolling!Init /\ Unused(7)
     \/ part = "caddy" /\ Caddy!Init /\ Unused(8)
     \/ part = "front" /\ Front!Init /\ Unused(6)
     \/ part = "notices" /\ Notice!Init /\ Unused(12)
     \/ part = "history" /\ History!Init /\ Unused(7)
     \/ part = "growth" /\ Plant!Init /\ Unused(12)
     \/ part = "screen" /\ Screen!Init
     \/ part = "client" /\ Client!Init /\ Unused(12)
     \/ part = "checkout" /\ Order!Init /\ Unused(10)
  \* one beginning of the sessions for a part that leaves them alone
  /\ part # "sessions" => mail = {}

\* Bound: of two chats one is closed, or one is greeted.
FewMarks == Cardinality({c \in Chats : x6'[c]}) + Cardinality({c \in Chats : x7'[c]}) <= 1

SigningIn == part = "sessions" /\ Next /\ Kept(0) /\ UNCHANGED part
Other ==
  /\ \/ part = "support" /\ Support!Next /\ FewMarks /\ Kept(14)
     \/ part = "chat" /\ Chat!Next /\ Kept(7)
     \/ part = "shop" /\ Store!Next /\ Kept(8)
     \/ part = "rewards" /\ Reward!Next /\ Kept(8)
     \/ part = "payments" /\ Invoice!Next /\ Kept(6)
     \/ part = "usage" /\ Usage!Next /\ Kept(5)
     \/ part = "book" /\ Book!Next /\ Kept(12)
     \/ part = "forecast" /\ Forecast!Next /\ Kept(6)
     \/ part = "recipes" /\ Recipe!Next /\ Kept(4)
     \/ part = "receipts" /\ Polling!Next /\ Kept(14)
     \/ part = "health" /\ Health!Next /\ Kept(12)
     \/ part = "server" /\ Server!Next /\ Kept(11)
     \/ part = "portal" /\ Portal!Next /\ Kept(12)
     \/ part = "pairs" /\ Pairs!Next /\ Kept(4)
     \/ part = "rollout" /\ Rolling!Next /\ Kept(7)
     \/ part = "caddy" /\ Caddy!Next /\ Kept(8)
     \/ part = "front" /\ Front!Next /\ Kept(6)
     \/ part = "notices" /\ Notice!Next /\ Kept(12)
     \/ part = "history" /\ History!Next /\ Kept(7)
     \/ part = "growth" /\ Plant!Next /\ Kept(12)
     \/ part = "screen" /\ Screen!Next
     \/ part = "client" /\ Client!Next /\ Kept(12)
     \/ part = "checkout" /\ Order!Next /\ Kept(10)
  /\ UNCHANGED <<part, sessionVars>>

MCNext == SigningIn \/ Other

all == <<part, sessionVars, x1, x2, x3, x4, x5, x6, x7, x8, x9, x10, x11, x12, x13, x14, x15, x16, x17, x18>>
MCSpec == MCInit /\ [][MCNext]_all

\* What is paid for or given shows in the wallet: no pull of a crate, no
\* purchase and no reward is counted twice or forgotten (Shop, Rewards).
WalletMatchesRows ==
  /\ part = "shop" => Store!WalletAddsUp
  /\ part = "rewards" => Reward!SilverMatchesRows

\* A conversation stays what was said: a chat of support belongs to the account
\* of its code, and to it come the answers; a message at a plant is said once
\* and stays (SupportChat, PlantChat).
ConversationsAreKept ==
  /\ [](part = "support" => Support!OneChatForACode /\ Support!ReplyIsForThem)
  /\ [](part = "chat" => Chat!SaidOnce)
  /\ [][/\ part = "support" => Support!AccountStays /\ Support!AnswersStop
        /\ part = "chat" => Chat!MessagesStay]_all

\* The stock is the deliveries and counts less what the drinks took, and what it
\* foresees is what comes of it; a recipe is there whole or not at all
\* (StockBook, StockForecast, Recipes).
StockIsTrue ==
  /\ part = "book" => Book!StockIsTruth
  /\ part = "forecast" => Forecast!ForecastIsTrue
  /\ part = "recipes" => Recipe!RecipesAreWhole

\* An order takes what its recipe says, and a correction of the recipe corrects
\* the orders of its time (StockUsage).
UsageFollowsRecipe ==
  [](part = "usage" => Usage!Whole) /\ [][part = "usage" => Usage!Corrects]_all

\* No money is lost on its way: an invoice brings its goods once, a receipt of
\* the tills is found by the polls, and an order without a receipt, or a receipt
\* without an order, is told (Payments, ReceiptPoll, Reconcile).
MoneyIsAccountedFor ==
  /\ part = "payments" => Invoice!PaidIsBroughtOnce
  /\ part = "receipts" => Polling!NoneIsMissed
  /\ part = "pairs" => Pairs!ReconcileIsTrue

\* Who watches over the services sees what is: the dashboard, the alerts of the
\* server, and a portal that is asked no more than it bears (Health,
\* ServerWatch, PortalSession).
WatchIsTrue ==
  /\ [](part = "health" => Health!DashboardIsTrue)
  /\ [](part = "portal" => Portal!PortalIsSpared)
  /\ [](part = "server" => Server!RestartsAreReal)
  /\ [][part = "server" => Server!DoesNotBlink]_all

\* A new version takes over from the old one: requests are served throughout,
\* the conf of the proxy is the one of the image, and the files of the old
\* version stay for the pages that still ask for them, but not for good
\* (ServerRollout, CaddyConf, FrontDeploy).
VersionsTakeOver ==
  /\ [](part = "rollout" => Rolling!RolloutIsSmooth)
  /\ [](part = "caddy" => Caddy!ConfIsApplied)
  /\ [](part = "front" => Front!OldFilesStay)
  /\ [][part = "front" => Front!NothingStaysForGood]_all

\* A player is told, sees and plants what they should: notices come through,
\* care is counted into the stages of the plant, and the screens on the stack
\* are the entries of the history (Notices, Growth, Navigation).
PlayerIsServed ==
  /\ part = "notices" => Notice!NoticesComeThrough
  /\ part = "growth" => Plant!StagesArePaced /\ Plant!PlantedAsDemanded
  /\ part = "history" => History!StackAndHistoryAgree

\* The application keeps what the player had in hand: the page of the plant, the
\* session, and the address an order is sent to (PlantScreen, ClientSession,
\* Checkout).
AppKeepsItsPlace ==
  /\ [](part = "screen" => Screen!NeverSaysNone)
  /\ [](part = "checkout" => Order!AddressAgrees)
  /\ [][/\ part = "screen" => Screen!TurnsNoPage
        /\ part = "client" => Client!KeepsTheSession /\ Client!StartFindsTheSession
        /\ part = "checkout" => Order!NothingIsOverwritten]_all
-----------------------------------------------------------------------------
\* A behaviour is one part throughout, and what is true of the part is true of it.
WalletInv ==
  /\ part = "shop" => Store!ShopInv
  /\ part = "rewards" => Reward!RewardInv

\* The wallet, the ledger and the rows tell the same, whatever requests are served
\* at once and whichever of them fail: every price paid has its good and every
\* crate opened its piece and its coins (purchases.js, crate.js); every answer
\* and every post is paid once, every charged message paid, and nobody owes
\* anything (quiz.js, repost.js, chat.js).
THEOREM WalletIsTrue == MCSpec => []WalletMatchesRows
<1>1. MCInit => WalletInv
  BY ShopBegins, RewardsBegin, ShopIsSound, RewardsAreSound DEF MCInit, WalletInv
<1>2. WalletInv /\ [MCNext]_all => WalletInv'
  <2> SUFFICES ASSUME WalletInv, [MCNext]_all PROVE WalletInv'
    OBVIOUS
  <2>1. part' = part
    BY DEF MCNext, SigningIn, Other, all
  <2>2. CASE part = "shop"
    <3>1. [Store!Next]_(Store!shopVars)
      BY <2>2 DEF MCNext, SigningIn, Other, all, Store!shopVars
    <3> QED
      BY <2>1, <2>2, <3>1, ShopGoesOn, ShopIsSound DEF WalletInv
  <2>3. CASE part = "rewards"
    <3>1. [Reward!Next]_(Reward!rewardVars)
      BY <2>3 DEF MCNext, SigningIn, Other, all, Reward!rewardVars
    <3> QED
      BY <2>1, <2>3, <3>1, RewardsGoOn, RewardsAreSound DEF WalletInv
  <2>4. CASE part \notin {"shop", "rewards"}
    BY <2>1, <2>4 DEF WalletInv
  <2> QED
    BY <2>2, <2>3, <2>4
<1>3. WalletInv => WalletMatchesRows
  BY DEF WalletInv, WalletMatchesRows, Store!ShopInv, Reward!RewardInv
<1> QED
  BY <1>1, <1>2, <1>3, PTL DEF MCSpec

\* The rows of an order are a whole recipe, and a pass that no other overlaps
\* leaves every successful order with the recipe that was valid when it was bought
\* (stock.js, syncUsage).
THEOREM UsageIsByRecipe == MCSpec => UsageFollowsRecipe
<1> DEFINE UInv == part = "usage" => Usage!UsageInv
           Whole == part = "usage" => Usage!Whole
           Corrects == part = "usage" => Usage!Corrects
<1>1. MCInit => UInv
  BY UsageBegins DEF MCInit
<1>2. UInv /\ [MCNext]_all => UInv'
  <2> SUFFICES ASSUME UInv, [MCNext]_all, part' = "usage" PROVE Usage!UsageInv'
    OBVIOUS
  <2>1. part = "usage" /\ [Usage!Next]_(Usage!usageVars)
    BY DEF MCNext, SigningIn, Other, all, Usage!usageVars
  <2> QED
    BY <2>1, UsageGoesOn
<1>3. UInv => Whole
  BY DEF Usage!UsageInv
<1>4. UInv => Corrects
  BY CommitCorrects DEF Usage!Corrects
<1> QED
  BY <1>1, <1>2, <1>3, <1>4, PTL DEF MCSpec, UsageFollowsRecipe

\* A chat of support belongs to the account of its code and keeps it, what is
\* answered is stored, and a reply goes to whom it was written for (support.js);
\* a message at a plant is stored once and never rewritten (chat.js, Chat.jsx).
THEOREM TalkStays == MCSpec => ConversationsAreKept
<1> DEFINE TalkInv == (part = "support" => Support!SupportInv) /\ (part = "chat" => Chat!ChatInv)
           ToThem == part = "support" => Support!OneChatForACode /\ Support!ReplyIsForThem
           Once == part = "chat" => Chat!SaidOnce
           Stays == /\ part = "support" => Support!AccountStays /\ Support!AnswersStop
                    /\ part = "chat" => Chat!MessagesStay
<1>1. MCInit => TalkInv
  BY SupportBegins, ChatBegins DEF MCInit
<1>2. TalkInv /\ [MCNext]_all => TalkInv' /\ Stays
  <2> SUFFICES ASSUME TalkInv, [MCNext]_all PROVE TalkInv' /\ Stays
    OBVIOUS
  <2>1. part' = part
    BY DEF MCNext, SigningIn, Other, all
  <2>2. CASE part = "support"
    <3>1. [Support!Next]_(Support!supportVars)
      BY <2>2 DEF MCNext, SigningIn, Other, all, Support!supportVars
    <3> QED
      BY <2>1, <2>2, <3>1, SupportGoesOn
  <2>3. CASE part = "chat"
    <3>1. [Chat!Next]_(Chat!chatVars)
      BY <2>3 DEF MCNext, SigningIn, Other, all, Chat!chatVars
    <3> QED
      BY <2>1, <2>3, <3>1, ChatGoesOn
  <2>4. CASE part \notin {"support", "chat"}
    BY <2>1, <2>4
  <2> QED
    BY <2>2, <2>3, <2>4
<1>3. TalkInv => ToThem /\ Once
  BY InvSaidOnce DEF Support!SupportInv
<1> QED
  BY <1>1, <1>2, <1>3, PTL DEF MCSpec, ConversationsAreKept
=============================================================================
