------------------------------ MODULE PlantChat ------------------------------
(***************************************************************************)
(* The chat of one plant, on the screen of its player (client/src/screens/ *)
(* Chat.jsx) and in the API (routes/chat.js): a message is stored first    *)
(* and answered after the model has thought, the bubble of the main screen *)
(* is echoed into the chat when the player has been quiet, and             *)
(* chat_seen_at says what counts as unread.  What a message costs is in    *)
(* the Rewards module, what moves system lines in Notices.                 *)
(*                                                                         *)
(* Requests of one player run side by side; every statement is a step.     *)
(* created_at is a count of the statements that took the time.             *)
(***************************************************************************)
EXTENDS Integers, Sequences, FiniteSets

CONSTANTS Calls,      \* requests at once
          Lines,      \* what the bubble may say
          Typed,      \* what the player types, once each
          MaxRows,    \* bound of the chat
          MaxTime,    \* bound of the clock
          MaxFaults,  \* bound: answers that get lost
          None

VARIABLES rows,     \* chat_messages of the plant and its owner, by id
          now,
          seen,     \* chat_seen_at; 0: null
          recent,   \* the player wrote less than ECHO_QUIET_MS ago
          call,     \* requests under way
          screen,   \* Chat: data, text, inFlight and the rendered tap handler
          faults

chatVars == <<rows, now, seen, recent, call, screen, faults>>

Free == [op |-> "no"]
Closed == [open |-> FALSE, visit |-> 0, loaded |-> FALSE, shown |-> <<>>, waits |-> {}, text |-> None,
           typed |-> {}, inFlight |-> FALSE, rendered |-> TRUE]

Init ==
  /\ rows = <<>>
  /\ now = 0
  /\ seen = 0
  /\ recent = FALSE
  /\ call = [c \in Calls |-> Free]
  /\ screen = Closed
  /\ faults = 0

Row(role, kind, body) == [role |-> role, kind |-> kind, body |-> body, at |-> now + 1]
Takes == now < MaxTime /\ now' = now + 1
Inserts(row) == Len(rows) < MaxRows /\ rows' = Append(rows, row) /\ Takes

Ends(c) == call' = [call EXCEPT ![c] = Free]
Goes(c, op) == call' = [call EXCEPT ![c].op = op]

---------------------------------------------------------------------------
(* POST /me/plants/:id/chat/echo *)

Last == rows[Len(rows)]

Rewrites == rows # <<>> /\ Last.kind = "echo"

Echo(c, line) ==
  /\ call[c] = Free
  /\ ~ (rows # <<>> /\ Last.role # "user" /\ Last.body = line)      \* otherwise echoed: false
  /\ call' = [call EXCEPT ![c] = [op |-> IF Rewrites THEN "rewrite" ELSE "quiet", line |-> line, id |-> Len(rows)]]
  /\ UNCHANGED <<rows, now, seen, recent, screen, faults>>

Rewrite(c) ==
  /\ call[c].op = "rewrite"
  /\ Takes
  /\ rows' = [rows EXCEPT ![call[c].id].body = call[c].line, ![call[c].id].at = now + 1]
  /\ Ends(c)
  /\ UNCHANGED <<seen, recent, screen, faults>>

IsQuiet(c) ==
  /\ call[c].op = "quiet"
  /\ IF recent THEN Ends(c) ELSE Goes(c, "insert")
  /\ UNCHANGED <<rows, now, seen, recent, screen, faults>>

EchoInsert(c) ==
  /\ call[c].op = "insert"
  /\ Inserts(Row("plant", "echo", call[c].line))
  /\ Ends(c)
  /\ UNCHANGED <<seen, recent, screen, faults>>

HoursPass == recent /\ recent' = FALSE /\ UNCHANGED <<rows, now, seen, call, screen, faults>>

(* notifyPlant *)
Notice ==
  /\ Inserts(Row("system", "message", None))
  /\ UNCHANGED <<seen, recent, call, screen, faults>>

---------------------------------------------------------------------------
(* GET /me/plants/:id/chat *)

OpenChat(c) ==
  /\ ~ screen.open /\ call[c] = Free
  /\ screen' = [Closed EXCEPT !.open = TRUE, !.visit = screen.visit + 1, !.typed = screen.typed]
  /\ call' = [call EXCEPT ![c] = [op |-> "read", visit |-> screen.visit + 1]]
  /\ UNCHANGED <<rows, now, seen, recent, faults>>

Read(c) ==
  /\ call[c].op = "read"
  /\ call' = [call EXCEPT ![c] = [op |-> "seen", visit |-> @.visit, ids |-> [i \in 1 .. Len(rows) |-> i]]]
  /\ UNCHANGED <<rows, now, seen, recent, screen, faults>>

Seen(c) ==
  /\ call[c].op = "seen"
  /\ Takes
  /\ seen' = now + 1
  /\ Goes(c, "loads")
  /\ UNCHANGED <<rows, recent, screen, faults>>

Here(c) == screen.open /\ call[c].visit = screen.visit

Loads(c) ==
  /\ call[c].op = "loads"
  /\ screen' = IF Here(c) THEN [screen EXCEPT !.loaded = TRUE, !.shown = call[c].ids] ELSE screen
  /\ Ends(c)
  /\ UNCHANGED <<rows, now, seen, recent, faults>>

LeaveChat ==
  /\ screen.open /\ screen.visit < Cardinality(Typed) + 1
  /\ screen' = [screen EXCEPT !.open = FALSE]
  /\ UNCHANGED <<rows, now, seen, recent, call, faults>>

---------------------------------------------------------------------------
(* send: the tap, and POST /me/plants/:id/chat *)

Type(m) ==
  /\ screen.open /\ screen.loaded /\ screen.text = None /\ screen.rendered /\ m \notin screen.typed
  /\ screen' = [screen EXCEPT !.text = m, !.typed = @ \cup {m}]
  /\ UNCHANGED <<rows, now, seen, recent, call, faults>>

(* A mutant: sending of the state is still the old one for a second tap. *)
MaySendTwice == TRUE

MaySend == ~ screen.inFlight

(* The handler of a tap sees the text it was rendered with. *)
Tap(c) ==
  /\ screen.open /\ screen.text # None /\ call[c] = Free
  /\ MaySend
  /\ screen' = [screen EXCEPT !.inFlight = TRUE, !.rendered = FALSE, !.waits = @ \cup {c}]
  /\ call' = [call EXCEPT ![c] = [op |-> "pay", visit |-> screen.visit, text |-> screen.text, heard |-> TRUE]]
  /\ UNCHANGED <<rows, now, seen, recent, faults>>

Render ==
  /\ ~ screen.rendered
  /\ screen' = [screen EXCEPT !.rendered = TRUE, !.text = None]
  /\ UNCHANGED <<rows, now, seen, recent, call, faults>>

(* The payment and the message are one transaction. *)
Pay(c) ==
  /\ call[c].op = "pay"
  /\ Inserts(Row("user", "message", call[c].text))
  /\ recent' = TRUE
  /\ call' = [call EXCEPT ![c] = [op |-> "think", visit |-> @.visit, text |-> @.text, heard |-> @.heard, ids |-> <<Len(rows) + 1>>]]
  /\ UNCHANGED <<seen, screen, faults>>

(* The model answers, or a line of excuse is stored for it. *)
Answer(c) ==
  /\ call[c].op = "think"
  /\ Inserts(Row("plant", "message", None))
  /\ call' = [call EXCEPT ![c].op = "mark", ![c].ids = Append(@, Len(rows) + 1)]
  /\ UNCHANGED <<seen, recent, screen, faults>>

(* chat_seen_at = the answer's own created_at *)
MarkRead(c) ==
  /\ call[c].op = "mark"
  /\ seen' = rows[call[c].ids[2]].at
  /\ IF call[c].heard THEN Goes(c, "back") ELSE Ends(c)
  /\ UNCHANGED <<rows, now, recent, screen, faults>>

Settled(c) == [screen EXCEPT !.waits = @ \ {c}, !.inFlight = FALSE]

Back(c) ==
  /\ call[c].op = "back"
  /\ Here(c) => screen.rendered
  /\ screen' = IF Here(c) THEN [Settled(c) EXCEPT !.shown = @ \o call[c].ids] ELSE screen
  /\ Ends(c)
  /\ UNCHANGED <<rows, now, seen, recent, faults>>

(* catch: the line is taken back and the text returns to the field, whether *)
(* the API refused the message or only its answer was lost.                 *)
Fails(c) ==
  /\ call[c].op \in {"pay", "think", "mark", "back"} /\ call[c].heard
  /\ faults < MaxFaults
  /\ faults' = faults + 1
  /\ Here(c) => screen.rendered
  /\ screen' = IF Here(c) THEN [Settled(c) EXCEPT !.text = call[c].text] ELSE screen
  /\ \/ call[c].op \in {"pay", "back"} /\ Ends(c)
     \/ call[c].op # "back" /\ call' = [call EXCEPT ![c].heard = FALSE]
  /\ UNCHANGED <<rows, now, seen, recent>>

---------------------------------------------------------------------------

Next ==
  \/ HoursPass \/ Notice \/ LeaveChat \/ Render
  \/ \E m \in Typed : Type(m)
  \/ \E c \in Calls :
       \/ Rewrite(c) \/ IsQuiet(c) \/ EchoInsert(c) \/ \E line \in Lines : Echo(c, line)
       \/ OpenChat(c) \/ Read(c) \/ Seen(c) \/ Loads(c)
       \/ Tap(c) \/ Pay(c) \/ Answer(c) \/ MarkRead(c) \/ Back(c) \/ Fails(c)

Spec == Init /\ [][Next]_chatVars

---------------------------------------------------------------------------

TypeOK ==
  /\ \A i \in DOMAIN rows : rows[i].role \in {"user", "plant", "system"} /\ rows[i].kind \in {"message", "echo"}
  /\ now \in 0 .. MaxTime /\ seen \in 0 .. now
  /\ recent \in BOOLEAN
  /\ screen.text \in Typed \cup {None}

(* What was said is never rewritten, by whatever echoes and messages run    *)
(* at once: only a line of the bubble gives way to the next (chat.js:26-29).*)
MessagesStay == \A i \in DOMAIN rows : rows[i].kind = "message" => rows'[i] = rows[i]

Stored(m) == {i \in DOMAIN rows : rows[i].role = "user" /\ rows[i].body = m}

(* A message is stored once, however often it is tapped, unless an answer   *)
(* was lost; and the screen shows no row twice (Chat.jsx:49-51).            *)
SaidOnce ==
  /\ faults = 0 => \A m \in Typed : Cardinality(Stored(m)) <= 1
  /\ \A i, j \in DOMAIN screen.shown : screen.shown[i] = screen.shown[j] => i = j

ChatIsKept == [][MessagesStay]_rows /\ []SaidOnce

(* Why: a bubble rewrites a bubble; what was typed is in the field, with a   *)
(* request or stored, once; and a visit shows its rows after it has read     *)
(* them, each request its own.                                              *)
ConstantsAreSound == None \notin Typed

CallRow ==
  [op : {"no"}] \cup [op : {"rewrite", "quiet", "insert"}, line : Lines, id : Nat]
    \cup [op : {"read"}, visit : Nat] \cup [op : {"seen", "loads"}, visit : Nat, ids : Seq(Nat)]
    \cup [op : {"pay"}, visit : Nat, text : Typed, heard : BOOLEAN]
    \cup [op : {"think", "mark", "back"}, visit : Nat, text : Typed, heard : BOOLEAN, ids : Seq(Nat)]
ScreenRow ==
  [open : BOOLEAN, visit : Nat, loaded : BOOLEAN, shown : Seq(Nat), waits : SUBSET Calls,
   text : Typed \cup {None}, typed : SUBSET Typed, inFlight : BOOLEAN, rendered : BOOLEAN]
RowType ==
  [role : {"user", "plant", "system"}, kind : {"message", "echo"}, body : Lines \cup Typed \cup {None}, at : Nat]
Formed ==
  /\ rows \in Seq(RowType) /\ now \in Nat /\ faults \in Nat
  /\ call \in [Calls -> CallRow] /\ screen \in ScreenRow

BubblesAreThePlants ==
  /\ \A i \in DOMAIN rows : rows[i].kind = "echo" => rows[i].role = "plant"
  /\ \A c \in Calls : call[c].op = "rewrite" => call[c].id \in DOMAIN rows /\ rows[call[c].id].kind = "echo"

Sends(c) == call[c].op \in {"pay", "think", "mark", "back"}
Pays(c, m) == call[c].op = "pay" /\ call[c].text = m
ToSend(m) == screen.text = m /\ screen.rendered
TextIsTyped ==
  /\ screen.text # None => screen.text \in screen.typed
  /\ \A c \in Calls : Sends(c) => call[c].text \in screen.typed
  /\ \A i \in DOMAIN rows : rows[i].role = "user" => rows[i].body \in screen.typed
  /\ ~screen.rendered => screen.inFlight
TextIsInOnePlace ==
  faults = 0 => \A m \in Typed :
    /\ ToSend(m) => Stored(m) = {} /\ \A c \in Calls : ~Pays(c, m)
    /\ \A c \in Calls : Pays(c, m) => Stored(m) = {} /\ \A d \in Calls : Pays(d, m) => c = d
    /\ \A i, j \in Stored(m) : i = j

Reads(c) == call[c].op \in {"read", "seen", "loads"}
VisitsAreInOrder ==
  /\ \A c \in Calls : Reads(c) => call[c].visit <= screen.visit /\ (call[c].visit = screen.visit => ~screen.loaded)
  /\ \A c \in Calls : Sends(c) => call[c].visit <= screen.visit /\ (call[c].visit = screen.visit => screen.loaded)
  /\ \A c, d \in Calls : Reads(c) /\ (Reads(d) \/ Sends(d)) /\ call[c].visit = call[d].visit => c = d
  /\ screen.text # None => screen.loaded

AreRows(ids) ==
  /\ \A i \in DOMAIN ids : ids[i] \in DOMAIN rows
  /\ \A i, j \in DOMAIN ids : ids[i] = ids[j] => i = j
Apart(ids, others) == \A i \in DOMAIN ids, j \in DOMAIN others : ids[i] # others[j]
Wrote(c) == call[c].op \in {"think", "mark", "back"}
RowsAreShownOnce ==
  /\ AreRows(screen.shown)
  /\ \A c \in Calls : Wrote(c) \/ call[c].op \in {"seen", "loads"} => AreRows(call[c].ids)
  /\ \A c, d \in Calls : Wrote(c) /\ Wrote(d) /\ c # d => Apart(call[c].ids, call[d].ids)
  /\ \A c \in Calls : Wrote(c) /\ call[c].visit = screen.visit => Apart(call[c].ids, screen.shown)

ChatInv ==
  Formed /\ BubblesAreThePlants /\ TextIsTyped /\ TextIsInOnePlace /\ VisitsAreInOrder /\ RowsAreShownOnce

(* "never more than one in a row" (chat.js:24-25) *)
OneEchoInARow ==
  \A i \in 1 .. Len(rows) - 1 : ~ (rows[i].kind = "echo" /\ rows[i + 1].kind = "echo")

(* A line that counts as read has been on the screen. *)
ReadIsShown ==
  \A i \in DOMAIN rows : (screen.open /\ screen.loaded /\ rows[i].role = "system" /\ rows[i].at <= seen)
    => \E j \in DOMAIN screen.shown : screen.shown[j] = i

(* "the answer is seen at once, in the chat": it does not count as unread   *)
(* (chat.js:247-251).                                                       *)
AnswerIsRead ==
  \A i \in DOMAIN rows : (rows[i].role = "plant" /\ rows[i].at > seen)
    => ~ \E j \in DOMAIN screen.shown : screen.shown[j] = i
=============================================================================
