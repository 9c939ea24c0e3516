---------------------------- MODULE ServerWatch ----------------------------
(***************************************************************************)
(* How the overseer watches the server itself (overseer/src/server.js):    *)
(* samples of how full it is, the alert that has a limit to be raised and  *)
(* a lower one to be called off, and the containers that started again by  *)
(* themselves.  What was said last is kept in Redis (changed in index.js); *)
(* the lines of a round are in memory until they are sent, and Telegram    *)
(* may not take them.                                                      *)
(*                                                                         *)
(* One measure and one service stand for all.                              *)
(***************************************************************************)
EXTENDS Naturals, Sequences

CONSTANTS
  Samples,     \* how many in a row decide (SERVER_LIMITS)
  Fresh,       \* a sample counts for so many ticks (15 minutes)
  MaxRestarts, \* bound on how often a container starts again
  MaxRollouts  \* bound on new containers

Levels == {"calm", "between", "high"}
Unsure == "none"

VARIABLES
  level,       \* how full the server is
  samples,     \* server_samples, the newest first: [level, age]
  container,   \* [id, restarts]
  listed,      \* server:containers: the container, if there is a list
  counted,     \* overseer:restarts:<id>: what was seen of each container, if anything
  pc, lines,   \* the round
  seen,        \* overseer:server:<key>
  told,        \* how often it was said that a container started again
  rested,      \* history: since it was raised, Samples calm ones in a row
  restarted    \* history: how often a container started again

watchVars == <<level, samples, container, listed, counted, pc, lines, seen, told, rested, restarted>>

Init ==
  /\ level = "calm" /\ samples = <<>>
  /\ container = [id |-> 0, restarts |-> 0]
  /\ listed = {}
  /\ counted = [i \in 0..MaxRollouts |-> {}]
  /\ pc = "idle" /\ lines = {}
  /\ seen = "never" /\ told = 0
  /\ rested = TRUE /\ restarted = 0

-----------------------------------------------------------------------------
(* The server.                                                              *)

LevelChanges(l) ==
  /\ level' = l /\ l # level
  /\ UNCHANGED <<samples, container, listed, counted, pc, lines, seen, told, rested, restarted>>

Restart ==
  /\ restarted < MaxRestarts /\ restarted' = restarted + 1
  /\ container' = [container EXCEPT !.restarts = @ + 1]
  /\ UNCHANGED <<level, samples, listed, counted, pc, lines, seen, told, rested>>

Rollout ==
  /\ container.id < MaxRollouts
  /\ container' = [id |-> container.id + 1, restarts |-> 0]
  /\ UNCHANGED <<level, samples, listed, counted, pc, lines, seen, told, rested, restarted>>

-----------------------------------------------------------------------------
(* The samples.                                                             *)

Older(ss) == SelectSeq([i \in DOMAIN ss |-> [ss[i] EXCEPT !.age = @ + 1]], LAMBDA s : s.age <= Fresh)
Kept(ss) == SubSeq(ss, 1, IF Len(ss) < Samples THEN Len(ss) ELSE Samples)
AllAre(ss, l) == Len(ss) = Samples /\ \A i \in DOMAIN ss : ss[i].level = l

\* The measure and the containers are taken each for itself: either may fail.
Sample(measured, seesContainers) ==
  LET s == [level |-> IF measured THEN level ELSE Unsure, age |-> 0] IN
    /\ samples' = Kept(<<s>> \o Older(samples))
    /\ listed' = IF seesContainers THEN {container} ELSE listed
    /\ rested' = (rested \/ AllAre(samples', "calm"))
    /\ UNCHANGED <<level, container, counted, pc, lines, seen, told, restarted>>

\* No sample is taken: the overseer is being replaced, or the base does not answer.
NoSample ==
  /\ samples' = Older(samples)
  /\ listed' \in {listed, {}}
  /\ UNCHANGED <<level, container, counted, pc, lines, seen, told, rested, restarted>>

-----------------------------------------------------------------------------
(* The round of checks.                                                     *)

\* Mutant of Judge: what is not high is well.
JudgeAtOnce ==
  IF AllAre(samples, "high") THEN "high"
  ELSE IF Len(samples) = Samples /\ \A i \in DOMAIN samples : samples[i].level \in {"calm", "between"} THEN "ok"
  ELSE Unsure
\* checkServer: nothing is said of what is between the limits, or of too few samples.
Judge ==
  IF AllAre(samples, "high") THEN "high" ELSE IF AllAre(samples, "calm") THEN "ok" ELSE Unsure

\* changed(): that all is well is not the first thing to say.
CheckServer ==
  /\ pc = "idle" /\ pc' = "containers"
  /\ IF Judge = Unsure \/ Judge = seen THEN UNCHANGED <<seen, lines, rested>>
     ELSE /\ seen' = Judge /\ rested' = (rested /\ Judge = "ok")
          /\ lines' = IF seen = "never" /\ Judge = "ok" THEN {} ELSE {<<"server", Judge>>}
  /\ UNCHANGED <<level, samples, container, listed, counted, told, restarted>>

StartedAgain(c) == \E n \in counted[c.id] : c.restarts > n

ContainerRestarts ==
  /\ pc = "containers" /\ pc' = "send"
  /\ counted' = [i \in DOMAIN counted |->
                   IF \E c \in listed : c.id = i THEN {c.restarts : c \in listed} ELSE counted[i]]
  /\ lines' = lines \cup {<<"restart", "container">> : c \in {c \in listed : StartedAgain(c)}}
  /\ UNCHANGED <<level, samples, container, listed, seen, told, rested, restarted>>

Sends == told' = IF \E l \in lines : l[1] = "restart" THEN told + 1 ELSE told

\* A message that is not taken is logged, and no more.
Send ==
  /\ pc = "send" /\ pc' = "idle" /\ lines' = {}
  /\ Sends \/ UNCHANGED told
  /\ UNCHANGED <<level, samples, container, listed, counted, seen, rested, restarted>>

\* The overseer stops, or the round fails.
Stop ==
  /\ pc # "idle" /\ pc' = "idle" /\ lines' = {}
  /\ UNCHANGED <<level, samples, container, listed, counted, seen, told, rested, restarted>>

Next ==
  \/ \E l \in Levels : LevelChanges(l)
  \/ Restart \/ Rollout
  \/ \E m, c \in BOOLEAN : Sample(m, c)
  \/ NoSample
  \/ CheckServer \/ ContainerRestarts \/ Send \/ Stop

Spec == Init /\ [][Next]_watchVars

-----------------------------------------------------------------------------
TypeOK ==
  /\ level \in Levels
  /\ Len(samples) <= Samples
  /\ \A i \in DOMAIN samples : samples[i].level \in Levels \cup {Unsure} /\ samples[i].age \in 0..Fresh
  /\ container.id \in 0..MaxRollouts /\ container.restarts \in 0..MaxRestarts
  /\ pc \in {"idle", "containers", "send"}
  /\ seen \in {"never", "ok", "high"}
  /\ told \in Nat /\ rested \in BOOLEAN

\* "At the very limit the alert does not blink" (server.js:176-178): it is raised
\* anew only after as many calm samples in a row as decide, whatever was lost.
DoesNotBlink ==
  <<"server", "high">> \in lines' /\ <<"server", "high">> \notin lines => rested

\* A container is said to have started again no more often than it did, and never
\* because a rollout has put another one in its place (server.js:217-223).
RestartsAreReal == told <= restarted

ServerAlertsAreTrue == [][DoesNotBlink]_watchVars /\ []RestartsAreReal

\* Without it the fall of a container "would stay unnoticed" (server.js:218-219):
\* it does when nothing was seen of the container before it fell, or when the message
\* was not taken.
RestartIsNoticed ==
  (pc = "idle" /\ restarted > 0 /\ counted[container.id] = {container.restarts}) => told > 0
=============================================================================
