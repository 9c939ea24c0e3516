------------------------------- MODULE Outage -------------------------------
(***************************************************************************)
(* What it was that kept a point silent (checks.js, outageKind): its       *)
(* samples carry the time they were measured and the time they were        *)
(* received, and the overseer tells from the first one after a pause in    *)
(* the deliveries whether there was no internet, the device did not work,  *)
(* or its telemetry hung.  Time goes by minutes, with a sample in each.    *)
(*                                                                         *)
(* Without power the clock of the device stands still: it starts up to     *)
(* MaxLag late, until NTP sets it, maybe only after the first samples went *)
(* off.                                                                    *)
(***************************************************************************)
EXTENDS Integers, FiniteSets, Sequences

CONSTANTS
  OutageMin,   \* shorter pauses are the rhythm of the samples (OUTAGE_MIN_S)
  Slack,       \* tolerance for the clock (CLOCK_SLACK_S)
  MaxLag,
  Horizon      \* bound: minutes

VARIABLES
  now,
  device,    \* "works", "off", or "hung": it runs and measures nothing
  uptime,    \* minutes since it was switched on
  lag,       \* how late its clock is
  queue,     \* samples on the card
  newest,    \* the row received last
  anchor,    \* the row the query finds and its predecessor
  trouble    \* what each minute since the last delivery was spoilt by

outageVars == <<now, device, uptime, lag, queue, newest, anchor, trouble>>

Sample(m, u) == [measured |-> m, uptime |-> u, own |-> TRUE]
NoAnchor == [outage |-> 0, hole |-> 0, after |-> 0, before |-> 0]

Init ==
  /\ now = 0 /\ device = "works" /\ lag = 0
  /\ uptime \in {0, 2}
  /\ queue = {}
  /\ newest = [received |-> 0, measured |-> 0, uptime |-> uptime]
  /\ anchor = NoAnchor /\ trouble = <<>>

-----------------------------------------------------------------------------
Latest(q) == CHOOSE s \in q : \A t \in q : s.measured >= t.measured
Earliest(q) == CHOOSE s \in q : \A t \in q : s.measured <= t.measured

\* Everything on the card is received in this minute.
Deliver(q) ==
  LET first == Earliest(q) last == Latest(q) IN
    /\ anchor' = IF now' - newest.received >= OutageMin
                 THEN [outage |-> now' - newest.received, hole |-> first.measured - newest.measured,
                       after |-> first.uptime, before |-> newest.uptime]
                 ELSE anchor
    /\ newest' = [received |-> now', measured |-> last.measured, uptime |-> last.uptime]
    /\ queue' = {} /\ trouble' = <<>>

\* NTP needs the network; it sets the clock before the sample of the minute or
\* after it went off.  Then the samples of this boot are stamped anew.
Restamped(q) == {IF s.own THEN [s EXCEPT !.measured = @ + lag] ELSE s : s \in q}
OfBefore(q) == {[s EXCEPT !.own = FALSE] : s \in q}

Minute(d, net) ==
  /\ now < Horizon /\ now' = now + 1
  /\ device' = d
  /\ uptime' = IF d = "off" THEN 0 ELSE uptime + 1
  /\ \E late \in IF device = "off" /\ d # "off" THEN 0..MaxLag ELSE {lag},
        ntp \in IF net /\ d # "off" THEN {"not yet", "before", "after"} ELSE {"not yet"} :
       /\ lag' = IF ntp = "not yet" THEN late ELSE 0
       /\ LET behind == IF ntp = "before" THEN 0 ELSE late
              card == IF ntp = "before" THEN Restamped(queue) ELSE queue
              q == IF d = "works" THEN card \cup {Sample(now' - behind, uptime')} ELSE card
          IN IF net /\ d = "works"
             THEN Deliver(q)
             ELSE /\ queue' = IF d = "off" THEN OfBefore(q) ELSE q
                  /\ trouble' = Append(trouble, IF d = "works" THEN "net" ELSE d)
                  /\ UNCHANGED <<newest, anchor>>

Next == \E d \in {"works", "off", "hung"}, net \in BOOLEAN : Minute(d, net)

Spec == Init /\ [][Next]_outageVars

-----------------------------------------------------------------------------
\* outageKind
\* Could the uptime have grown from what it was before the hole?
Grew(a) == a.after >= a.before + a.hole - Slack

Kind(a) ==
  IF a = NoAnchor THEN "none"
  ELSE IF a.hole < OutageMin THEN "net"
  ELSE IF Grew(a) THEN "hung" ELSE "off"

Kinds == {"none", "net", "hung", "off"}

TypeOK ==
  /\ now \in 0..Horizon /\ device \in {"works", "off", "hung"}
  /\ uptime \in 0..(Horizon + 2) /\ lag \in 0..MaxLag
  /\ Kind(anchor) \in Kinds

\* A trouble of one kind that is longer than the clock can be wrong is called by
\* its name (checks.js:254: "вона однозначна"), however short the device had
\* been running before, and whenever NTP sets its clock.
CauseIsFound ==
  LET kinds == {trouble[i] : i \in DOMAIN trouble} IN
    /\ newest'.received = now' /\ anchor' # anchor
    /\ Cardinality(kinds) = 1 /\ Len(trouble) >= OutageMin + MaxLag
    => Kind(anchor') \in kinds
OutageIsNamed == [][CauseIsFound]_outageVars
=============================================================================
