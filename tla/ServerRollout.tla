---------------------------- MODULE ServerRollout ----------------------------
(***************************************************************************)
(* A new version on the server (docker/rollout.sh): the tag in .env, the   *)
(* migrations, then for each service behind the proxy a second container   *)
(* beside the old ones, which are stopped once it is healthy, and at last  *)
(* the services nobody outside sees.  A container that is told to stop     *)
(* (lib/src/shutdown.js) takes no new request, answers those it has, and   *)
(* goes; the proxy brings a request to any container that takes it.        *)
(*                                                                         *)
(* A rollout may end at any step, with the ssh connection or the server;   *)
(* the next one finds what it left.  Overlapping: whether two of them may  *)
(* run at once, which nothing in .github/workflows/deploy.yml forbids.     *)
(***************************************************************************)
EXTENDS Integers, Sequences, FiniteSets

CONSTANTS Services,    \* ROLLING, in its order
          Rollouts,    \* 1 .. n: pushes to main, one tag each
          Requests,
          MaxIds,      \* bound: containers ever made
          Overlapping,
          None

VARIABLES env,         \* TAG of .env; 0: what ran before
          schema,      \* the migrations that have been run
          boxes,       \* containers
          made,        \* how many there have been
          plain,       \* the tag the other services run
          roll,        \* of each rollout: where it is
          request

serverVars == <<env, schema, boxes, made, plain, roll, request>>

Box(id, svc, tag, health) == [id |-> id, svc |-> svc, tag |-> tag, health |-> health, step |-> "serves"]
At(pc, i) == [pc |-> pc, i |-> i, old |-> {}, new |-> {}]

Init ==
  /\ env = 0 /\ schema = {0} /\ plain = 0
  /\ boxes = {Box(i, Services[i], 0, "healthy") : i \in DOMAIN Services}
  /\ made = Len(Services)
  /\ roll = [r \in Rollouts |-> At("waits", 1)]
  /\ request = [q \in Requests |-> [state |-> "no", box |-> 0, slow |-> FALSE]]

Of(svc) == {b \in boxes : b.svc = svc}
Svc(r) == Services[roll[r].i]
Ids(B) == {b.id : b \in B}
Box_(id) == CHOOSE b \in boxes : b.id = id
Over == {"waits", "done", "failed"}

Goes(r, pc) == roll' = [roll EXCEPT ![r].pc = pc]
NextService(r) ==
  roll' = [roll EXCEPT ![r] = IF @.i < Len(Services) THEN At("look", @.i + 1) ELSE At("plain", @.i)]

(* docker compose up -d --no-deps --no-recreate --scale svc=n: makes what is *)
(* missing with the tag of .env, removes what is too much.                  *)
Scaled(svc, n, new) ==
  LET have == Of(svc) IN
    IF Cardinality(have) < n
    THEN /\ made + n - Cardinality(have) <= MaxIds
         /\ new = {Box(i, svc, env, "starting") : i \in made + 1 .. made + n - Cardinality(have)}
         /\ boxes' = boxes \cup new
    ELSE /\ new = {}
         /\ \E gone \in SUBSET have :
              /\ Cardinality(have \ gone) = n
              /\ boxes' = boxes \ gone
Makes(new) == made' = made + Cardinality(new)

---------------------------------------------------------------------------

Start(r) ==
  /\ roll[r].pc = "waits"
  /\ \A s \in Rollouts : s < r => roll[s].pc # "waits" /\ (Overlapping \/ roll[s].pc \in Over)
  /\ env' = r
  /\ Goes(r, "migrate")
  /\ UNCHANGED <<schema, boxes, made, plain, request>>

Migrate(r) ==
  /\ roll[r].pc = "migrate"
  /\ schema' = schema \cup {r}
  /\ Goes(r, "look")
  /\ UNCHANGED <<env, boxes, made, plain, request>>

Look(r) ==
  /\ roll[r].pc = "look"
  /\ roll' = [roll EXCEPT ![r].pc = "up", ![r].old = Ids(Of(Svc(r)))]
  /\ UNCHANGED <<env, schema, boxes, made, plain, request>>

(* Without an old one there is nothing to switch; a new one that does not  *)
(* appear ends the rollout.                                                *)
Up(r) ==
  \E new \in SUBSET {Box(i, Svc(r), env, "starting") : i \in made + 1 .. MaxIds} :
    LET there == roll[r].old
        found == {b \in Of(Svc(r)) \cup new : b.id \notin there} IN
    /\ roll[r].pc = "up"
    /\ Scaled(Svc(r), Cardinality(there) + 1, new)
    /\ Makes(new)
    /\ IF there = {} THEN NextService(r)
       ELSE IF found = {} THEN Goes(r, "failed")
       ELSE \E b \in found : roll' = [roll EXCEPT ![r].pc = "wait", ![r].new = {b.id}]
    /\ UNCHANGED <<env, schema, plain, request>>

(* A mutant: any state that is not an exit counts. *)
AnyIsHealthy(b) == b.health \in {"starting", "healthy"}

IsHealthy(b) == b.health = "healthy"

New(r) == {b \in boxes : b.id \in roll[r].new}

Healthy(r) ==
  /\ roll[r].pc = "wait"
  /\ \E b \in New(r) : IsHealthy(b)
  /\ Goes(r, "stop")
  /\ UNCHANGED <<env, schema, boxes, made, plain, request>>

(* It fell, is gone, or was not healthy in WAIT_HEALTHY: it is removed and *)
(* the old version goes on.                                                *)
Unhealthy(r) ==
  /\ roll[r].pc = "wait"
  /\ \A b \in New(r) : b.health # "healthy"
  /\ boxes' = boxes \ New(r)
  /\ roll' = [roll EXCEPT ![r].pc = "back", ![r].new = {}]
  /\ UNCHANGED <<env, schema, made, plain, request>>

BackToOld(r) ==
  \E new \in SUBSET {Box(i, Svc(r), env, "starting") : i \in made + 1 .. MaxIds} :
    /\ roll[r].pc = "back"
    /\ Scaled(Svc(r), Cardinality(roll[r].old), new)
    /\ Makes(new)
    /\ Goes(r, "failed")
    /\ UNCHANGED <<env, schema, plain, request>>

Left(r) == {b \in boxes : b.id \in roll[r].old}

(* docker stop, of one after the other; set -e ends the rollout when one of *)
(* them is not there any more.                                              *)
StopOld(r) ==
  /\ roll[r].pc = "stop" /\ roll[r].old # {}
  /\ \E id \in roll[r].old :
       IF id \in Ids(boxes)
       THEN /\ boxes' = (boxes \ {Box_(id)}) \cup {[Box_(id) EXCEPT !.step = IF @ = "serves" THEN "http" ELSE @]}
            /\ roll' = [roll EXCEPT ![r].pc = "rm", ![r].new = {id}]
       ELSE Goes(r, "failed") /\ UNCHANGED boxes
  /\ UNCHANGED <<env, schema, made, plain, request>>

RmOld(r) ==
  /\ roll[r].pc = "rm"
  /\ roll[r].new \cap Ids(boxes) = {}
  /\ roll' = [roll EXCEPT ![r].pc = "stop", ![r].old = @ \ roll[r].new, ![r].new = {}]
  /\ UNCHANGED <<env, schema, boxes, made, plain, request>>

ScaleOne(r) ==
  \E new \in SUBSET {Box(i, Svc(r), env, "starting") : i \in made + 1 .. MaxIds} :
    /\ roll[r].pc = "stop" /\ roll[r].old = {}
    /\ Scaled(Svc(r), 1, new)
    /\ Makes(new)
    /\ NextService(r)
    /\ UNCHANGED <<env, schema, plain, request>>

Plain(r) ==
  /\ roll[r].pc = "plain"
  /\ plain' = env
  /\ Goes(r, "done")
  /\ UNCHANGED <<env, schema, boxes, made, request>>

(* A step that fails, or a connection that breaks: set -e. *)
Dies(r) ==
  /\ roll[r].pc \notin Over
  /\ Goes(r, "failed")
  /\ UNCHANGED <<env, schema, boxes, made, plain, request>>

---------------------------------------------------------------------------
(* What containers do: start, and stop in the order of onShutdown's steps  *)

Becomes(b, c) == boxes' = (boxes \ {b}) \cup {c}

Starts(b) ==
  /\ b.health = "starting"
  /\ \E h \in {"healthy", "failed"} : Becomes(b, [b EXCEPT !.health = h])
  /\ UNCHANGED <<env, schema, made, plain, roll, request>>

InFlight(b) == {q \in Requests : request[q].state = "taken" /\ request[q].box = b.id}

(* app.close() waits for the answers in flight. *)
HttpClosed(b) == InFlight(b) = {}

Closes(b) ==
  /\ b.step = "http" /\ HttpClosed(b)
  /\ Becomes(b, [b EXCEPT !.step = "pool"])
  /\ request' = [q \in Requests |-> IF q \in InFlight(b) THEN [request[q] EXCEPT !.state = "cut"] ELSE request[q]]
  /\ UNCHANGED <<env, schema, made, plain, roll>>

(* Everything is closed, or the deadline of 25 s has passed: only a slow   *)
(* request is still there by then.                                         *)
Exits(b) ==
  /\ \/ b.step = "pool"
     \/ b.step = "http" /\ InFlight(b) # {} /\ \A q \in InFlight(b) : request[q].slow
  /\ boxes' = boxes \ {b}
  /\ request' = [q \in Requests |-> IF q \in InFlight(b) THEN [request[q] EXCEPT !.state = "cut"] ELSE request[q]]
  /\ UNCHANGED <<env, schema, made, plain, roll>>

Serving(b) == b.health = "healthy" /\ b.step = "serves"

(* A container that takes no connection is not asked again for a while; the *)
(* request goes to another (Caddyfile, lb_try_duration).                    *)
Arrives(q) ==
  /\ request[q].state = "no"
  /\ \E b \in boxes, slow \in BOOLEAN :
       /\ Serving(b)
       /\ request' = [request EXCEPT ![q] = [state |-> "taken", box |-> b.id, slow |-> slow]]
  /\ UNCHANGED <<env, schema, boxes, made, plain, roll>>

Answered(q) ==
  /\ request[q].state = "taken"
  /\ request' = [request EXCEPT ![q].state = "answered"]
  /\ UNCHANGED <<env, schema, boxes, made, plain, roll>>

---------------------------------------------------------------------------

Next ==
  \/ \E r \in Rollouts :
       \/ Start(r) \/ Migrate(r) \/ Look(r) \/ Up(r) \/ Healthy(r) \/ Unhealthy(r) \/ BackToOld(r)
       \/ StopOld(r) \/ RmOld(r) \/ ScaleOne(r) \/ Plain(r) \/ Dies(r)
  \/ \E b \in boxes : Starts(b) \/ Closes(b) \/ Exits(b)
  \/ \E q \in Requests : Arrives(q) \/ Answered(q)

Spec == Init /\ [][Next]_serverVars

---------------------------------------------------------------------------

TypeOK ==
  /\ env \in {0} \cup Rollouts /\ plain \in {0} \cup Rollouts
  /\ \A b \in boxes : b.id \in 1 .. made /\ b.health \in {"starting", "healthy", "failed"}
                      /\ b.step \in {"serves", "http", "pool"}
  /\ made \in 0 .. MaxIds

SvcNames == {Services[i] : i \in DOMAIN Services}

(* Whatever a rollout does and wherever it ends, each service has a        *)
(* container that serves (rollout.sh:8-13).                                *)
AlwaysServed == \A svc \in SvcNames : \E b \in Of(svc) : Serving(b)

(* A rollout that came to its end has left one container of each service,  *)
(* of its tag, whatever earlier ones that died had left behind.            *)
DoneIsWhole ==
  \A r \in Rollouts :
    (roll[r].pc = "done" /\ \A s \in Rollouts : s > r => roll[s].pc = "waits") =>
      /\ plain = r /\ env = r
      /\ \A svc \in SvcNames : {b.tag : b \in Of(svc)} = {r} /\ Cardinality(Of(svc)) = 1

(* A request that was taken is answered, unless it is slower than the      *)
(* deadline (shutdown.js:1-8, 24-30).                                      *)
NoRequestIsCut == \A q \in Requests : request[q].state = "cut" => request[q].slow

RolloutIsSmooth == AlwaysServed /\ DoneIsWhole /\ NoRequestIsCut

(* "any docker compose on the server sees the version that was rolled out" *)
(* (rollout.sh:41-44).                                                     *)
TagIsRolledOut ==
  (\A r \in Rollouts : roll[r].pc \in Over) =>
    \A svc \in SvcNames : \E b \in Of(svc) : b.tag = env
=============================================================================
