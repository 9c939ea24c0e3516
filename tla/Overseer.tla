------------------------------ MODULE Overseer ------------------------------
(***************************************************************************)
(* The round of the overseer for one point (overseer/src/index.js,         *)
(* checks.js, power.js): is the point silent, shall its plug be switched   *)
(* off and on again, what do its samples complain of, and one message with *)
(* everything that changed.  What was said last is kept in Redis and the   *)
(* cycles of the plug in point_reboots; the lines of a round are in memory *)
(* until its end.                                                          *)
(*                                                                         *)
(* The cloud of the plug may refuse, or obey while its answer is lost; the *)
(* overseer may be stopped at any step.  Time passes between rounds only,  *)
(* in units that are long against a round.                                 *)
(***************************************************************************)
EXTENDS Naturals, FiniteSets

CONSTANTS
  Silence,    \* after so long the point is silent (silenceLimit)
  After,      \* after so long it is to be switched off (POWER.afterMin)
  Cooldown,   \* and not again before this (POWER.cooldownMin)
  Day, PerDay,\* nor more often than PerDay in a Day (POWER.perDay)
  Tries,      \* tries to switch it on again (4)
  Faults,     \* checks of the samples (DEVICE_CHECKS)
  MaxStops    \* bound: stops of the overseer

Keys == Faults \cup {"point"}

VARIABLES
  hung, light,     \* the device hangs; the point has power and internet
  plug,            \* the relay: "on" or "off"
  silent,          \* time since last_seen_at, up to After
  broken,          \* the faults that the last samples show
  pc, left, try,   \* the step of the round, the faults it has yet to look at
  lines,           \* what it will say
  reboots,         \* point_reboots of kind power, by their age
  seen,            \* overseer:<key> in Redis
  chat,            \* what was last said of a key
  cuts,            \* when the relay was in fact switched off, by age
  stops

pointVars == <<hung, light, plug, silent, broken>>
round == <<pc, left, try, lines>>
overseerVars == <<pointVars, round, reboots, seen, chat, cuts, stops>>

Init ==
  /\ hung = FALSE /\ light = TRUE /\ plug = "on" /\ silent = 0 /\ broken = {}
  /\ pc = "idle" /\ left = {} /\ try = 0 /\ lines = {}
  /\ reboots = {} /\ cuts = {}
  /\ seen = [k \in Keys |-> "never"] /\ chat = [k \in Keys |-> "never"]
  /\ stops = 0

Least(a, b) == IF a < b THEN a ELSE b
Aged(ages) == {a + 1 : a \in {a \in ages : a < Day}}

-----------------------------------------------------------------------------
\* The point.
TimePasses ==
  /\ pc = "idle"
  /\ silent' = IF light /\ plug = "on" /\ ~hung THEN 0 ELSE Least(silent + 1, After)
  /\ reboots' = Aged(reboots) /\ cuts' = Aged(cuts)
  /\ UNCHANGED <<hung, light, plug, broken, round, seen, chat, stops>>

Hangs ==
  /\ ~hung /\ light /\ plug = "on"
  /\ hung' = TRUE
  /\ UNCHANGED <<light, plug, silent, broken, round, reboots, seen, chat, cuts, stops>>

LightChanges ==
  /\ light' = ~light
  /\ hung' = (hung /\ light')
  /\ UNCHANGED <<plug, silent, broken, round, reboots, seen, chat, cuts, stops>>

FaultChanges(f) ==
  /\ broken' = IF f \in broken THEN broken \ {f} ELSE broken \cup {f}
  /\ UNCHANGED <<hung, light, plug, silent, round, reboots, seen, chat, cuts, stops>>

-----------------------------------------------------------------------------
\* changed(): a state that differs from the one in Redis is stored and said,
\* but that all is well is not the first thing to say of a key.
Say(k, s) ==
  /\ seen' = [seen EXCEPT ![k] = s]
  /\ lines' = IF seen[k] = s \/ (seen[k] = "never" /\ s = "ok") THEN lines ELSE lines \cup {<<k, s>>}

LookAtPoint ==
  /\ pc = "idle"
  /\ Say("point", IF silent < Silence THEN "ok" ELSE "bad")
  /\ pc' = "power"
  /\ UNCHANGED <<pointVars, left, try, reboots, chat, cuts, stops>>

\* checkPower: which points it leaves alone.
Due ==
  /\ silent >= After
  /\ \A a \in reboots : a >= Cooldown
  /\ Cardinality({a \in reboots : a < Day}) < PerDay

LookAtPower ==
  /\ pc = "power"
  /\ IF Due THEN pc' = "ask" /\ left' = left ELSE pc' = "faults" /\ left' = Faults
  /\ UNCHANGED <<pointVars, try, lines, reboots, seen, chat, cuts, stops>>

GoOn == pc' = "faults" /\ left' = Faults

\* Is the plug online?  When the cloud cannot be asked the point is left alone.
AskPlug ==
  /\ pc = "ask" /\ light
  /\ pc' = "insert"
  /\ UNCHANGED <<pointVars, left, try, lines, reboots, seen, chat, cuts, stops>>

AskInVain ==
  /\ pc = "ask" /\ GoOn
  /\ UNCHANGED <<pointVars, try, lines, reboots, seen, chat, cuts, stops>>

\* The cycle is written down before it is begun.
RowBeforeNot == {}
RowBefore == {0}

WriteDown ==
  /\ pc = "insert"
  /\ reboots' = reboots \cup RowBefore
  /\ pc' = "off"
  /\ UNCHANGED <<pointVars, left, try, lines, seen, chat, cuts, stops>>

\* The relay obeys; a device without power does not hang.
Cut ==
  /\ plug' = "off" /\ hung' = FALSE /\ cuts' = cuts \cup {0}
  /\ UNCHANGED <<light, silent, broken>>

SwitchOff ==
  /\ pc = "off" /\ light
  /\ Cut
  /\ pc' = "on" /\ try' = 0
  /\ UNCHANGED <<left, lines, reboots, seen, chat, stops>>

\* It refuses, or obeys and nobody hears of it: the next points are looked at.
SwitchOffFails ==
  /\ pc = "off"
  /\ (light /\ Cut) \/ UNCHANGED <<pointVars, cuts>>
  /\ lines' = lines \cup {<<"plug", "cannot be switched off">>}
  /\ GoOn
  /\ UNCHANGED <<try, reboots, seen, chat, stops>>

\* powerBackOn
SwitchOn ==
  /\ pc = "on" /\ light
  /\ plug' = "on"
  /\ lines' = lines \cup {<<"plug", "cycled">>}
  /\ GoOn
  /\ UNCHANGED <<hung, light, silent, broken, try, reboots, seen, chat, cuts, stops>>

SwitchOnFails ==
  /\ pc = "on"
  /\ plug' \in IF light THEN {plug, "on"} ELSE {plug}
  /\ try' = try + 1
  /\ IF try' < Tries
     THEN UNCHANGED <<pc, left, lines>>
     ELSE lines' = lines \cup {<<"plug", "is off">>} /\ GoOn
  /\ UNCHANGED <<hung, light, silent, broken, reboots, seen, chat, cuts, stops>>

\* checkDevices: of a silent point nothing else is said.
LookAtFault(f) ==
  /\ pc = "faults" /\ f \in left
  /\ IF silent < Silence
     THEN Say(f, IF f \in broken THEN "bad" ELSE "ok")
     ELSE UNCHANGED <<seen, lines>>
  /\ left' = left \ {f}
  /\ UNCHANGED <<pointVars, pc, try, reboots, chat, cuts, stops>>

\* One message at the end; one that Telegram refuses is only logged.
Send ==
  /\ pc = "faults" /\ left = {}
  /\ \/ chat' = [k \in Keys |-> IF \E s \in {"ok", "bad"} : <<k, s>> \in lines
                                THEN CHOOSE s \in {"ok", "bad"} : <<k, s>> \in lines
                                ELSE chat[k]]
     \/ chat' = chat
  /\ lines' = {} /\ pc' = "idle" /\ try' = 0
  /\ UNCHANGED <<pointVars, left, reboots, seen, cuts, stops>>

\* The overseer is stopped within a round, or a check of it throws.
Stop ==
  /\ pc # "idle" /\ stops < MaxStops
  /\ stops' = stops + 1
  /\ pc' = "idle" /\ left' = {} /\ try' = 0 /\ lines' = {}
  /\ UNCHANGED <<pointVars, reboots, seen, chat, cuts>>

Round ==
  \/ LookAtPoint \/ LookAtPower \/ AskPlug \/ AskInVain \/ WriteDown
  \/ SwitchOff \/ SwitchOffFails \/ SwitchOn \/ SwitchOnFails
  \/ \E f \in Faults : LookAtFault(f)
  \/ Send

Next ==
  \/ TimePasses \/ Hangs \/ LightChanges \/ \E f \in Faults : FaultChanges(f)
  \/ Round \/ Stop

\* Rounds follow one another and time passes; a cloud that is asked again and
\* again answers at some time, and then the plug obeys.
Fairness ==
  /\ SF_overseerVars(TimePasses) /\ SF_overseerVars(LookAtPoint) /\ WF_overseerVars(Round)
  /\ SF_overseerVars(AskPlug) /\ SF_overseerVars(SwitchOn) /\ SF_overseerVars(SwitchOff)

Spec == Init /\ [][Next]_overseerVars /\ Fairness

-----------------------------------------------------------------------------
States == {"never", "ok", "bad"}

TypeOK ==
  /\ hung \in BOOLEAN /\ light \in BOOLEAN /\ plug \in {"on", "off"}
  /\ silent \in 0..After /\ broken \subseteq Faults
  /\ pc \in {"idle", "power", "ask", "insert", "off", "on", "faults"}
  /\ left \subseteq Faults /\ try \in 0..Tries
  /\ reboots \subseteq 0..Day /\ cuts \subseteq 0..Day
  /\ seen \in [Keys -> States] /\ chat \in [Keys -> States]
  /\ stops \in 0..MaxStops

\* However often the overseer is stopped and the answers of the cloud are lost,
\* the point is switched off at most PerDay times in a day, with Cooldown
\* between (power.js:13).
CutsAreFew ==
  /\ Cardinality({a \in cuts : a < Day}) <= PerDay
  /\ \A a, b \in cuts : a < b => b - a >= Cooldown

\* A plug that was switched off does not stay so, though the overseer is
\* stopped before it switches it on, all its tries fail or the answer to
\* switching it off is lost: the point is silent then, and a later round begins
\* another cycle, once the light stays.
PlugComesBack == <>[]light => (plug = "off" ~> plug = "on")

\* What Redis calls said was said.  It is not: a stop, or Telegram, between the
\* two loses the line, and the state will not be said again until it changes.
SaidIsSaid ==
  pc = "idle" => \A k \in Keys : seen[k] = "bad" => chat[k] = "bad"
=============================================================================
