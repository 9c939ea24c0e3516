----------------------------- MODULE SupportChat ----------------------------
(***************************************************************************)
(* Support through a Telegram bot: the one-time code that tells the bot    *)
(* whose chat it is, the webhook that stores what people write             *)
(* (support.js), the answers of an admin, and their screen (Support.jsx),  *)
(* which an event of each message refreshes (ws.js).                       *)
(*                                                                         *)
(* Telegram repeats an update until it is answered, also while the first   *)
(* try is still running; the process may die between any two steps.        *)
(* An edited message is an update of its own.                              *)
(***************************************************************************)
EXTENDS Naturals, FiniteSets

CONSTANTS
  Chats,
  Updates, ChatOf,  \* what is written to the bot: telegram_update_id, its chat
  CodeOf,           \* the code after /start, "none" for a /start without, None for a message
  Codes,            \* the codes: an account asked for each
  Handlers,         \* calls of the webhook
  None

VARIABLES
  codes,       \* redis: support:start:<code>
  pending,     \* the updates not answered: what Telegram sends, and sends again
  stored,      \* support_messages: the updates among them
  account,     \* support_threads.user_id: the code it came with
  waiting,     \* last_user_at > last_admin_at
  closed,      \* status = 'closed'
  welcomed,    \* support_messages has a greeting of an account in the chat
  handler,     \* [at, update, code]
  bus,         \* the events on their way to the screen
  online,      \* its websocket
  shown,       \* the updates the list of threads was read with
  open, draft, \* the thread that is open; the one the typed text is meant for
  reply        \* a reply: [at, to, for]

supportVars == <<codes, pending, stored, account, waiting, closed, welcomed, handler, bus, online,
                 shown, open, draft, reply>>

Free == [at |-> "free", update |-> None, code |-> None]
NoReply == [at |-> "none", to |-> None, for |-> None]
Start(u) == CodeOf[u] # None

Init ==
  /\ codes = Codes /\ pending = Updates /\ stored = {}
  /\ account = [c \in Chats |-> None]
  /\ waiting = [c \in Chats |-> FALSE] /\ closed = [c \in Chats |-> FALSE]
  /\ welcomed = [c \in Chats |-> FALSE]
  /\ handler = [h \in Handlers |-> Free]
  /\ bus = {} /\ online = TRUE /\ shown = {}
  /\ open = None /\ draft = None /\ reply = NoReply

thread == <<account, waiting, closed, welcomed>>
screen == <<bus, online, shown, open, draft, reply>>
At(h, step) == handler[h].at = step

-----------------------------------------------------------------------------
(* The webhook.                                                             *)

Deliver(h, u) ==
  /\ At(h, "free") /\ u \in pending
  /\ handler' = [handler EXCEPT ![h] =
       IF u \in stored THEN [Free EXCEPT !.at = "answer", !.update = u]
       ELSE [Free EXCEPT !.at = "code", !.update = u]]
  /\ UNCHANGED <<codes, pending, stored, thread, screen>>

\* getdel: a code is good for one chat.
Left(code) == codes \ {code}
TakeCode(h) ==
  LET code == CodeOf[handler[h].update] IN
    /\ At(h, "code")
    /\ codes' = Left(code)
    /\ handler' = [handler EXCEPT ![h].at = "store", ![h].code = IF code \in codes THEN code ELSE None]
    /\ UNCHANGED <<pending, stored, thread, screen>>

Bound(c, code) == IF code = None THEN account[c] ELSE code

\* One transaction: the thread, the message unless it is there, the event if not.
Store(h) ==
  LET u == handler[h].update
      c == ChatOf[u] IN
    /\ At(h, "store")
    /\ account' = [account EXCEPT ![c] = Bound(c, handler[h].code)]
    /\ waiting' = [waiting EXCEPT ![c] = TRUE] /\ closed' = [closed EXCEPT ![c] = FALSE]
    /\ stored' = stored \cup {u}
    /\ bus' = IF u \in stored THEN bus ELSE bus \cup {u}
    /\ handler' = [handler EXCEPT ![h].at = IF Start(u) THEN "greet" ELSE "answer"]
    /\ UNCHANGED <<codes, pending, welcomed, online, shown, open, draft, reply>>

\* The greeting, recorded if it was sent; a chat whose account it has greeted
\* before is told less.
Greet(h) ==
  LET c == ChatOf[handler[h].update] IN
    /\ At(h, "greet")
    /\ \/ welcomed' = [welcomed EXCEPT ![c] = @ \/ account[c] # None]
       \/ UNCHANGED welcomed
    /\ handler' = [handler EXCEPT ![h].at = "answer"]
    /\ UNCHANGED <<codes, pending, stored, account, waiting, closed, screen>>

\* Telegram hears 200 and sends the update no more, or does not hear it.
Answer(h) ==
  /\ At(h, "answer")
  /\ \/ pending' = pending \ {handler[h].update}
     \/ UNCHANGED pending
  /\ handler' = [handler EXCEPT ![h] = Free]
  /\ UNCHANGED <<codes, stored, thread, screen>>

\* An error of Redis or of the database, or the process died.
Fail(h) ==
  /\ handler[h].at \in {"code", "store", "greet", "answer"}
  /\ handler' = [handler EXCEPT ![h] = Free]
  /\ UNCHANGED <<codes, pending, stored, thread, screen>>

-----------------------------------------------------------------------------
(* The screen of the admin.                                                 *)

Load == shown' = stored

OpenThread(c) ==
  /\ open # c /\ \E u \in shown : ChatOf[u] = c
  /\ open' = c /\ draft' = None
  /\ UNCHANGED <<codes, pending, stored, thread, handler, bus, online, shown, reply>>

Type ==
  /\ open # None /\ draft = None
  /\ draft' = open
  /\ UNCHANGED <<codes, pending, stored, thread, handler, bus, online, shown, open, reply>>

\* An event of a message reads the list anew, and the open thread with it, whose
\* text is gone (the key of Thread).
Event(u) ==
  /\ u \in bus
  /\ bus' = bus \ {u}
  /\ IF online THEN Load /\ draft' = None ELSE UNCHANGED <<shown, draft>>
  /\ UNCHANGED <<codes, pending, stored, thread, handler, online, open, reply>>

Reconnect ==
  /\ online' = ~online
  /\ UNCHANGED <<codes, pending, stored, thread, handler, bus, shown, open, draft, reply>>

Refresh ==
  /\ Load
  /\ UNCHANGED <<codes, pending, stored, thread, handler, bus, online, open, draft, reply>>

\* POST .../reply: Telegram first, then the row; a failure after Telegram took it
\* leaves a reply that was sent and is not there.
Send ==
  /\ draft # None /\ reply = NoReply
  /\ reply' = [at |-> "asked", to |-> open, for |-> draft]
  /\ UNCHANGED <<codes, pending, stored, thread, handler, bus, online, shown, open, draft>>

Record ==
  /\ reply.at = "asked"
  /\ waiting' = [waiting EXCEPT ![reply.to] = FALSE] /\ closed' = [closed EXCEPT ![reply.to] = FALSE]
  /\ draft' = IF open = reply.to THEN None ELSE draft
  /\ shown' = stored
  /\ reply' = NoReply
  /\ UNCHANGED <<codes, pending, stored, account, welcomed, handler, bus, online, open>>

ReplyFails ==
  /\ reply.at = "asked"
  /\ reply' = NoReply
  /\ UNCHANGED <<codes, pending, stored, thread, handler, bus, online, shown, open, draft>>

SetStatus ==
  /\ open # None
  /\ closed' = [closed EXCEPT ![open] = ~@]
  /\ Load
  /\ UNCHANGED <<codes, pending, stored, account, waiting, welcomed, handler, bus, online, open, draft,
                 reply>>

Next ==
  \/ \E u \in Updates : Event(u)
  \/ \E h \in Handlers :
       \/ \E u \in Updates : Deliver(h, u)
       \/ TakeCode(h) \/ Store(h) \/ Greet(h) \/ Answer(h) \/ Fail(h)
  \/ \E c \in Chats : OpenThread(c)
  \/ Type \/ Reconnect \/ Refresh \/ Send \/ Record \/ ReplyFails \/ SetStatus

Spec == Init /\ [][Next]_supportVars

-----------------------------------------------------------------------------
TypeOK ==
  /\ codes \subseteq Codes /\ pending \cup stored \cup bus \cup shown \subseteq Updates
  /\ account \in [Chats -> Codes \cup {None}]
  /\ waiting \in [Chats -> BOOLEAN] /\ closed \in [Chats -> BOOLEAN]
  /\ \A h \in Handlers : handler[h].at \in {"free", "code", "store", "greet", "answer"}
  /\ {open, draft} \subseteq Chats \cup {None}

\* Whatever is repeated and whatever dies half-way: what Telegram has stopped
\* sending is stored, one code opens the account to one chat only and a chat does
\* not lose its account again, and a reply goes to whom it was written for.
OneChatForACode ==
  /\ \A c, d \in Chats : account[c] # None /\ account[c] = account[d] => c = d
  /\ \A c \in Chats, h \in Handlers : account[c] # None /\ At(h, "store") => handler[h].code # account[c]
ReplyIsForThem == reply.to = reply.for
AccountStays == \A c \in Chats : account[c] # None => account'[c] # None
AnswersStop == \A u \in pending : u \notin pending' => u \in stored
SupportIsHonest ==
  [](OneChatForACode /\ ReplyIsForThem) /\ [][AccountStays /\ AnswersStop]_supportVars

\* Why: a code is in one place, with Redis, with the call that took it or with the
\* chat; a call answers what is stored; and what is typed is meant for the thread
\* that is open.
HandlerRow ==
  [at : {"free", "code", "store", "greet", "answer"}, update : Updates \cup {None}, code : Codes \cup {None}]
Formed ==
  /\ codes \subseteq Codes /\ account \in [Chats -> Codes \cup {None}]
  /\ handler \in [Handlers -> HandlerRow]
Holds(h, code) == At(h, "store") /\ handler[h].code = code
CodeIsInOnePlace ==
  \A code \in Codes \ {None} :
    /\ code \in codes => (\A c \in Chats : account[c] # code) /\ \A h \in Handlers : ~Holds(h, code)
    /\ \A h, g \in Handlers : Holds(h, code) /\ Holds(g, code) => h = g
AnsweredIsStored == \A h \in Handlers : handler[h].at \in {"greet", "answer"} => handler[h].update \in stored
DraftIsForTheOpen == draft \in {None, open}
SupportInv ==
  Formed /\ CodeIsInOnePlace /\ AnsweredIsStored /\ DraftIsForTheOpen /\ OneChatForACode /\ ReplyIsForThem

\* A repeated update doubles nothing (support.js:91): it says that the chat waits
\* for an answer, though it has had one, and opens it when it was closed.
RepeatChangesNothing ==
  [][\A h \in Handlers :
       At(h, "store") /\ handler[h].update \in stored /\ handler'[h].at \in {"greet", "answer"} =>
         waiting' = waiting /\ closed' = closed]_supportVars

\* Who comes with a code is known (support.js:67-68): not if the transaction failed
\* after the code was taken.
WithACodeIsKnown ==
  \A u \in stored : CodeOf[u] \in Codes => account[ChatOf[u]] # None \/ CodeOf[u] \in codes

\* A conversation shows itself, without a press of "refresh" (ws.js:1-3): not the
\* one whose event came while the socket was down.
ShowsItself == online /\ bus = {} => shown = stored

\* What is typed stays until it is sent: an event of any message takes it away.
DraftStays == [][draft # None /\ draft' = None => open' # open \/ reply' # reply]_draft
=============================================================================
