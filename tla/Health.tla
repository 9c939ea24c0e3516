------------------------------- MODULE Health -------------------------------
(***************************************************************************)
(* The dashboard of health: the rounds of probes of the overseer           *)
(* (overseer/src/health.js), the buckets they are written to               *)
(* (health_samples) and the cells and dots the admin sees                  *)
(* (api/src/routes/admin-ops.js, admin/src/screens/Health.jsx).            *)
(*                                                                         *)
(* A tick is the two minutes between rounds.  A round asks one thing after *)
(* another, and may go on into the next tick; what it asks may break and   *)
(* mend at any moment.  The bases are things like the others, and the      *)
(* round needs them to go on: it is given up when one does not answer.     *)
(***************************************************************************)
EXTENDS Naturals, FiniteSets

CONSTANTS
  Services,  \* what is asked over HTTP: services, frontends
  Bucket,    \* ticks in a bucket
  CellSize,  \* buckets in a cell of a longer range (RANGES)
  Silence,   \* after so many ticks the point is silent (silenceLimit)
  Horizon,   \* bound on time
  MaxFlips   \* bound on how often something breaks or mends

Bases == {"postgres", "redis"}
Things == Services \cup Bases \cup {"link", "screen"}   \* of the point: its link, its screen
Targets == Services \cup Bases \cup {"point", "monitor"}
Buckets == 0..(Horizon \div Bucket)

VARIABLES
  now, flips,
  up,       \* what works
  heard,    \* the last sample of the point: [ago, screen]
  pc, left, found, begun,   \* the round: what it found is a set of <<target, ok>>
  row,      \* health_samples
    \* history: <<target, bucket>> that a probe found bad
  rounds,   \* history: the ticks in which a round began and was stored
  wasUp, wasDown   \* history: the ticks in which a service was up, or down, for a moment

roundVars == <<pc, left, found, begun>>
healthVars == <<now, flips, up, heard, roundVars, row, rounds, wasUp, wasDown>>

Init ==
  /\ now = 0 /\ flips = 0
  /\ up = [t \in Things |-> TRUE]
  /\ heard = [ago |-> 0, screen |-> TRUE]
  /\ pc = "idle" /\ left = {} /\ found = {} /\ begun = 0
  /\ row = [t \in Targets |-> [b \in Buckets |-> "none"]]
  /\ rounds = {}
  /\ wasUp = [t \in Services |-> {0}] /\ wasDown = [t \in Services |-> {}]

BucketNow == now \div Bucket

TimePasses ==
  /\ now < Horizon
  /\ pc = "idle" \/ begun = now
  /\ now' = now + 1
  /\ heard' = [heard EXCEPT !.ago = IF @ < Silence THEN @ + 1 ELSE @]
  /\ wasUp' = [t \in Services |-> IF up[t] THEN wasUp[t] \cup {now'} ELSE wasUp[t]]
  /\ wasDown' = [t \in Services |-> IF up[t] THEN wasDown[t] ELSE wasDown[t] \cup {now'}]
  /\ UNCHANGED <<flips, up, roundVars, row, rounds>>

Flips(t) ==
  /\ flips < MaxFlips /\ flips' = flips + 1
  /\ up' = [up EXCEPT ![t] = ~@]
  /\ wasUp' = [s \in Services |-> IF s = t THEN wasUp[s] \cup {now} ELSE wasUp[s]]
  /\ wasDown' = [s \in Services |-> IF s = t THEN wasDown[s] \cup {now} ELSE wasDown[s]]
  /\ UNCHANGED <<now, heard, roundVars, row, rounds>>

\* POST /points/telemetry
PointSpeaks ==
  /\ up["link"] /\ up["postgres"]
  /\ heard' = [ago |-> 0, screen |-> up["screen"]]
  /\ UNCHANGED <<now, flips, up, roundVars, row, rounds, wasUp, wasDown>>

-----------------------------------------------------------------------------
(* The round.                                                               *)

\* The lock is a key of Redis.
Begin ==
  /\ pc = "idle" /\ up["redis"]
  /\ pc' = "services" /\ left' = Services /\ found' = {} /\ begun' = now
  /\ UNCHANGED <<now, flips, up, heard, row, rounds, wasUp, wasDown>>

Finds(t, ok) == found' = found \cup {<<t, ok>>}

Probe(s) ==
  /\ pc = "services" /\ s \in left
  /\ Finds(s, up[s]) /\ left' = left \ {s}
  /\ UNCHANGED <<now, flips, up, heard, pc, begun, row, rounds, wasUp, wasDown>>

GiveUp == pc' = "idle" /\ left' = {} /\ found' = {} /\ UNCHANGED <<begun, row, rounds>>

\* The beats of the services without a port are keys of Redis.
Beats ==
  /\ pc = "services" /\ left = {}
  /\ IF up["redis"] THEN pc' = "postgres" /\ UNCHANGED <<left, found, begun, row, rounds>> ELSE GiveUp
  /\ UNCHANGED <<now, flips, up, heard, wasUp, wasDown>>

\* select 1, ping
Ping(t) ==
  /\ pc = t
  /\ Finds(t, up[t])
  /\ pc' = IF t = "postgres" THEN "redis" ELSE "points"
  /\ UNCHANGED <<now, flips, up, heard, left, begun, row, rounds, wasUp, wasDown>>

\* Of a point that is silent nothing is said of its screen.
Points ==
  LET speaks == heard.ago < Silence IN
    /\ pc = "points"
    /\ IF up["postgres"]
       THEN /\ found' = found \cup {<<"point", speaks>>} \cup (IF speaks THEN {<<"monitor", heard.screen>>} ELSE {})
            /\ pc' = "store" /\ UNCHANGED <<left, begun, row, rounds>>
       ELSE GiveUp
    /\ UNCHANGED <<now, flips, up, heard, wasUp, wasDown>>

Written(was, ok) == IF ok /\ was # "bad" THEN "ok" ELSE "bad"

Store ==
  /\ pc = "store"
  /\ IF up["postgres"]
     THEN /\ row' = [t \in Targets |-> [row[t] EXCEPT ![BucketNow] =
                       IF \E f \in found : f[1] = t
                       THEN Written(@, <<t, TRUE>> \in found) ELSE @]]
          /\ rounds' = IF begun = now THEN rounds \cup {now} ELSE rounds
          /\ pc' = "idle" /\ found' = {} /\ UNCHANGED <<left, begun>>
     ELSE GiveUp
  /\ UNCHANGED <<now, flips, up, heard, wasUp, wasDown>>

Next ==
  \/ TimePasses \/ PointSpeaks \/ Begin \/ Beats \/ Points \/ Store
  \/ \E t \in Things : Flips(t)
  \/ \E s \in Services : Probe(s)
  \/ \E t \in Bases : Ping(t)

Spec == Init /\ [][Next]_healthVars

-----------------------------------------------------------------------------
(* What the admin sees.                                                     *)

\* series(): a cell of n buckets.
CellBuckets(c, n) == {b \in Buckets : b \div n = c}
Cell(t, c, n) ==
  LET rows == {row[t][b] : b \in CellBuckets(c, n)} \ {"none"} IN
    IF rows = {} THEN "?" ELSE IF "bad" \in rows THEN "0" ELSE "1"

\* last.ok: whenever that was.
LastBucket(t) == CHOOSE b \in Buckets : row[t][b] # "none" /\ \A c \in Buckets : row[t][c] # "none" => c <= b
Dot(t) == IF \A b \in Buckets : row[t][b] = "none" THEN "?" ELSE row[t][LastBucket(t)]

\* pointOk
PointDot == IF Dot("point") # "ok" THEN Dot("point") ELSE IF Dot("monitor") = "bad" THEN "bad" ELSE "ok"

Ticks(b) == (b * Bucket)..(b * Bucket + Bucket - 1)
TicksOfRounds(b) == {k \in 0..Horizon : \E x \in Ticks(b) : k = x \/ k + 1 = x}

TypeOK ==
  /\ now \in 0..Horizon /\ flips \in 0..MaxFlips
  /\ up \in [Things -> BOOLEAN] /\ left \subseteq Services
  /\ heard.ago \in 0..Silence /\ heard.screen \in BOOLEAN
  /\ pc \in {"idle", "services", "postgres", "redis", "points", "store"}
  /\ found \subseteq Targets \X BOOLEAN
  /\ row \in [Targets -> [Buckets -> {"none", "ok", "bad"}]]

\* What the dashboard shows is what was, whatever the length of its cells
\* (health.js:6-9, admin-ops.js:46-51): a tick in which the thing did not work from
\* its first moment to its last, and in which a round was made, is in a red cell; a
\* red cell had a moment in which the thing did not work, and a green one a moment
\* in which it did, in every bucket it was asked in.
DashboardIsTrue ==
  \A t \in Services, n \in {1, CellSize} :
    /\ \A k \in rounds \ wasUp[t] : Cell(t, k \div (Bucket * n), n) = "0"
    /\ \A c \in Buckets :
         LET bs == {b \in CellBuckets(c, n) : row[t][b] # "none"} IN
           /\ Cell(t, c, n) = "0" => \E b \in bs : wasDown[t] \cap TicksOfRounds(b) # {}
           /\ Cell(t, c, n) = "1" => \A b \in bs : wasUp[t] \cap TicksOfRounds(b) # {}

\* "A bucket is green only if all its probes are" (health.js:6-7): a base that does
\* not answer takes the round with it, and what the round found.
GreenIsGreen ==
  [][(pc # "idle" /\ pc' = "idle") => \A f \in found : f[2] \/ row'[f[1]][BucketNow] # "ok"]_healthVars

\* A green dot of an old sample is worse than none (Health.jsx:95-97).
MonitorIsFresh == Dot("point") = "bad" => Dot("monitor") # "ok"

=============================================================================
