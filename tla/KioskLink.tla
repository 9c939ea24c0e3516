------------------------------ MODULE KioskLink ------------------------------
(***************************************************************************)
(* How a kiosk stays in the room of its point: the thread that holds the   *)
(* websocket (raspberry/kiosk/src/ws.c), the server of events              *)
(* (backend/ws/src/index.js), and the banner with which the screen says    *)
(* that bonuses do not work (kiosk/src/main.c).                            *)
(*                                                                         *)
(* A cable that was pulled out closes no socket: the kiosk learns of it    *)
(* only by hearing nothing, not even the answer to its own pings.  A       *)
(* server that goes says so with a code, and the code decides how long the *)
(* kiosk waits.  Time is counted in ticks; every counter stops at the      *)
(* first value at which nothing changes any more.                          *)
(***************************************************************************)
EXTENDS Integers

CONSTANTS
  PingEvery,      \* WS_PING_PERIOD_S
  IdleLimit,      \* WS_IDLE_LIMIT_S
  Grace,          \* WS_OFFLINE_GRACE_S
  AskMax,         \* how long the snapshot may take
  MaxPause,       \* WS_MAX_PAUSE_S
  AuthPause,      \* WS_AUTH_RETRY_S
  MaxFaults       \* bound on what happens to the network and the server

ConstantsAreSound == {PingEvery, IdleLimit, Grace, AskMax, MaxPause, AuthPause} \subseteq Nat

VARIABLES
  cable,          \* whether the network carries anything
  server,         \* "up" | "down"
  valid,          \* whether the server accepts the token of the kiosk
  room,           \* whether the server has a socket of the kiosk in the room
  wire,           \* what the server has sent of a close: "none", a code, or "reset"
  link,           \* "pause" | "asking" (for the snapshot) | "open"
  attempt, wait,  \* failed attempts in a row; the pause left
  silent, sincePing, asked,  \* ticks since a byte came, a ping went, the question went
  downFor, banner,           \* what the frame loop counts and shows
  updating,       \* the banner of an update has the place
  deaf,           \* ticks the point has not been in its room
  faults

linkVars == <<cable, server, valid, room, wire, link, attempt, wait, silent, sincePing,
              asked, downFor, banner, updating, deaf, faults>>

Online == link # "pause"
Hears == cable /\ room

\* What the kiosk may need to say that it is deaf: it notices, then waits.
Told == IdleLimit + AskMax + Grace + 3

Up(n, top) == IF n < top THEN n + 1 ELSE top
Least(a, b) == IF a < b THEN a ELSE b

TypeOK ==
  /\ cable \in BOOLEAN /\ server \in {"up", "down"} /\ valid \in BOOLEAN
  /\ room \in BOOLEAN /\ wire \in {"none", "1001", "4401", "reset"}
  /\ link \in {"pause", "asking", "open"}
  /\ attempt \in 0..5 /\ wait \in 0..(MaxPause + AuthPause)
  /\ silent \in 0..(IdleLimit + AskMax + 1) /\ sincePing \in 0..PingEvery /\ asked \in 0..AskMax
  /\ downFor \in 0..(Grace + 1) /\ banner \in BOOLEAN /\ updating \in BOOLEAN
  /\ deaf \in 0..(Told + 1) /\ faults \in 0..MaxFaults

Init ==
  /\ cable \in BOOLEAN /\ server \in {"up", "down"} /\ valid = TRUE
  /\ room = FALSE /\ wire = "none"
  /\ link = "pause" /\ attempt = 0 /\ wait = 0
  /\ silent = 0 /\ sincePing = 0 /\ asked = 0
  /\ downFor = 0 /\ banner = FALSE /\ updating = FALSE
  /\ deaf = 0 /\ faults = 0

client == <<link, attempt, wait, silent, sincePing, asked>>
screen == <<downFor, banner, updating>>

-----------------------------------------------------------------------------
(* The thread of the kiosk (run_connection, ws_thread). *)

\* How long it waits after a connection that ended with a code; the spread
\* takes up to a half off.  A rejected token and a server that goes start the
\* count of attempts anew.
PauseAfter(code) ==
  CASE code = "1001" -> 0
    [] code = "4401" -> AuthPause
    [] OTHER -> Least(2 ^ Up(attempt, 5), MaxPause)

AttemptAfter(code) == IF code \in {"1001", "4401"} THEN 0 ELSE Up(attempt, 5)

Ends(code) ==
  /\ link' = "pause"
  /\ attempt' = AttemptAfter(code)
  /\ \E w \in ((PauseAfter(code) + 1) \div 2)..PauseAfter(code) : wait' = w
  /\ silent' = 0 /\ sincePing' = 0 /\ asked' = 0

\* The server answers the handshake first and looks at the token then: the
\* kiosk is online, and a frame of its screen sees that, before the refusal.
Connect ==
  /\ link = "pause" /\ wait = 0
  /\ IF cable /\ server = "up"
     THEN /\ link' = "asking"
          /\ silent' = 0 /\ sincePing' = 0 /\ asked' = 0
          /\ room' = valid
          /\ wire' = IF valid THEN "none" ELSE "4401"
          /\ downFor' = 0 /\ banner' = FALSE
          /\ deaf' = IF valid THEN 0 ELSE deaf
          /\ UNCHANGED <<attempt, wait, updating>>
     ELSE /\ Ends("none")
          /\ UNCHANGED <<room, wire, deaf>> /\ UNCHANGED screen
  /\ UNCHANGED <<cable, server, valid, faults>>

\* fetch_snapshot came back, with the snapshot or without it.
Asked ==
  /\ link = "asking" /\ (cable \/ asked = AskMax)
  /\ link' = "open" /\ asked' = 0
  /\ UNCHANGED <<cable, server, valid, room, wire, attempt, wait, silent, sincePing, deaf, faults>>
  /\ UNCHANGED screen

\* A close frame, or the end of the stream, that the network brings.
Closed ==
  /\ link = "open" /\ cable /\ wire # "none"
  /\ Ends(wire) /\ wire' = "none"
  /\ UNCHANGED <<cable, server, valid, room, deaf, faults>> /\ UNCHANGED screen

\* A ping is due; when the server is there its answer breaks the silence.  A
\* server that no longer knows the socket answers with the end of the stream.
PingDue == link = "open" /\ wire = "none" /\ sincePing = PingEvery /\ ~(silent > IdleLimit)
Ping ==
  /\ PingDue
  /\ sincePing' = 0
  /\ silent' = IF Hears THEN 0 ELSE silent
  /\ wire' = IF cable /\ server = "up" /\ ~room THEN "reset" ELSE wire
  /\ UNCHANGED <<cable, server, valid, room, link, attempt, wait, asked, deaf, faults>>
  /\ UNCHANGED screen

\* Mutant of TooSilent: the thread trusts its socket.
NeverTooSilent == FALSE

\* Nothing was heard for too long.
TooSilent == link = "open" /\ silent > IdleLimit
Idle ==
  /\ TooSilent /\ ~(cable /\ wire # "none")
  /\ Ends("none") /\ wire' = "none" /\ room' = FALSE
  /\ UNCHANGED <<cable, server, valid, deaf, faults>> /\ UNCHANGED screen

Thread == Connect \/ Asked \/ Closed \/ Ping \/ Idle

Urgent ==
  \/ link = "pause" /\ wait = 0
  \/ link = "asking" /\ asked = AskMax
  \/ link = "open" /\ cable /\ wire # "none"
  \/ PingDue \/ TooSilent

-----------------------------------------------------------------------------
(* A tick: the counters, and the frame that looks at ws_online. *)

\* ws_down_since and bonus_down.
DownNow == IF Online THEN 0 ELSE Up(downFor, Grace + 1)

Tick ==
  /\ ~Urgent
  /\ wait' = IF link = "pause" THEN wait - 1 ELSE wait
  /\ silent' = IF Online THEN Up(silent, IdleLimit + AskMax + 1) ELSE silent
  /\ sincePing' = IF link = "open" THEN Up(sincePing, PingEvery) ELSE sincePing
  /\ asked' = IF link = "asking" THEN Up(asked, AskMax) ELSE asked
  /\ downFor' = DownNow
  /\ banner' = (DownNow > Grace /\ ~updating)
  /\ deaf' = IF Hears THEN 0 ELSE Up(deaf, Told + 1)
  /\ UNCHANGED <<cable, server, valid, room, wire, link, attempt, updating, faults>>

-----------------------------------------------------------------------------
(* The world: the network, the server and its new version, an update of the  *)
(* kiosk, a token that is revoked and replaced.                              *)

Fault == faults < MaxFaults /\ faults' = faults + 1

Pull == cable /\ cable' = FALSE /\ UNCHANGED <<server, valid, room, wire>>
Plug == ~cable /\ cable' = TRUE /\ UNCHANGED <<server, valid, room, wire>>

\* onShutdown: every socket is told 1001, then the process ends.
Leaves ==
  /\ server = "up" /\ server' = "down"
  /\ room' = FALSE /\ wire' = IF room THEN "1001" ELSE wire
  /\ UNCHANGED <<cable, valid>>
\* The process or the machine dies: the stream just ends.
Dies ==
  /\ server = "up" /\ server' = "down"
  /\ room' = FALSE /\ wire' = IF room THEN "reset" ELSE wire
  /\ UNCHANGED <<cable, valid>>
Starts == server = "down" /\ server' = "up" /\ UNCHANGED <<cable, valid, room, wire>>

\* The key or the token is replaced; an open socket is not asked again.
TokenChanges == valid' = ~valid /\ UNCHANGED <<cable, server, room, wire>>

\* updater.sh raises and lowers its flag (update_poll).
Updates ==
  /\ Fault /\ updating' = ~updating
  /\ banner' = (downFor > Grace /\ updating)
  /\ UNCHANGED <<cable, server, valid, room, wire, downFor, deaf>> /\ UNCHANGED client

World ==
  \/ /\ \/ Fault /\ (Pull \/ Leaves \/ Dies \/ TokenChanges)
        \/ (Plug \/ Starts) /\ faults' = faults
     /\ deaf' = IF valid' # valid \/ (cable' /\ room') THEN 0 ELSE deaf
     /\ UNCHANGED client /\ UNCHANGED screen
  \/ Updates

Next == Thread \/ Tick \/ World

\* The thread runs and time passes; the cable is plugged in again and the server
\* is started again, in the end.
Fairness ==
  /\ WF_linkVars(Thread) /\ WF_linkVars(Tick)
  /\ WF_linkVars(Plug /\ World) /\ WF_linkVars(Starts /\ World)

Spec == Init /\ [][Next]_linkVars /\ Fairness

-----------------------------------------------------------------------------
(* Properties. *)

\* "A pulled cable does not close the socket, it is just silent" (config.h): a
\* point that is not in its room, with a token the server takes, says so within
\* the silence, the snapshot and the grace, unless an update has the place.
DeafIsTold == valid /\ deaf > Told => banner \/ updating

\* The banner is never up for a point that is in its room, a frame later.
NoFalseAlarm == banner => ~Online

LinkIsHonest == DeafIsTold /\ NoFalseAlarm

\* When the token is accepted, the point is back in its room after every fault.
ComesBack == <>[]valid => <>[](room /\ link # "pause")

\* With a token that is not accepted the banner comes and stays.  It does not
\* hold: every new attempt is online for the time of its snapshot.
RefusedIsTold == <>[]~valid => <>[](banner \/ updating)

\* What makes LinkIsHonest inductive: how long the point may have been deaf, by
\* what its clocks show.  Online it has not been deaf for longer than it has heard
\* nothing (silent), and that is bounded by the snapshot (asked) and by IdleLimit;
\* offline the grace (downFor) comes on top, and after it the banner is up.
LinkInv ==
  /\ link \in {"pause", "asking", "open"} /\ cable \in BOOLEAN /\ room \in BOOLEAN
  /\ valid \in BOOLEAN /\ banner \in BOOLEAN /\ updating \in BOOLEAN
  /\ silent \in Nat /\ asked \in 0..AskMax /\ downFor \in 0..(Grace + 1) /\ deaf \in Nat
  /\ Hears => deaf = 0
  /\ banner <=> downFor > Grace /\ ~updating
  /\ Online => downFor = 0
  /\ link = "asking" => silent <= asked
  /\ link = "open" => silent <= IdleLimit + AskMax + 1
  /\ valid /\ Online => deaf <= silent
  /\ valid /\ ~Online => deaf <= IdleLimit + AskMax + 1 + downFor \/ downFor > Grace
=============================================================================
