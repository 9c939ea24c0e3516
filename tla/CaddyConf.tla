------------------------------ MODULE CaddyConf ------------------------------
(***************************************************************************)
(* The last step of a rollout (docker/rollout.sh, caddy_step): the only    *)
(* container that answers the outside is not replaced but told to read the *)
(* configuration of the new image, and remembers whose it has read.        *)
(***************************************************************************)
EXTENDS Integers, FiniteSets

CONSTANTS Images,      \* of caddy, by digest: 1 .. n, each with a Caddyfile of its own
          Broken,      \* those whose Caddyfile caddy cannot read
          MayRollBack, \* whether a rollout may bring an earlier image again
          MaxRollouts, \* bound
          None

VARIABLES image,    \* the image of the running container
          file,     \* its /etc/caddy/Caddyfile: of which image
          aside,    \* Caddyfile.new
          applied,  \* .applied
          serves,   \* the configuration it works with; None: it is down
          step,     \* caddy_step of the rollout under way
          wanted,   \* the image of the last rollout
          count

caddyVars == <<image, file, aside, applied, serves, step, wanted, count>>

Readable(i) == i \notin Broken
Reads(i) == IF Readable(i) THEN i ELSE None

Init ==
  /\ image = 1 /\ file = 1 /\ serves = 1
  /\ aside = None /\ applied = None
  /\ step = "done" /\ wanted = 1 /\ count = 0

Rollout(i) ==
  /\ step \in {"done", "died"} /\ count < MaxRollouts
  /\ MayRollBack \/ i >= wanted
  /\ wanted' = i /\ count' = count + 1
  /\ step' = "compare"
  /\ UNCHANGED <<image, file, aside, applied, serves>>

Done == step' = "done"

(* docker compose up -d --force-recreate: the file system of the new image *)
Recreate ==
  /\ image' = wanted /\ file' = wanted /\ aside' = None /\ applied' = None
  /\ serves' = Reads(wanted)
  /\ Done
  /\ UNCHANGED <<wanted, count>>

(* RECREATE_CADDY=1, or images that cannot be compared *)
Asked == step = "compare" /\ Recreate

Known == wanted = image \/ wanted = applied

Untouched ==
  /\ step = "compare" /\ Known
  /\ Done
  /\ UNCHANGED <<image, file, aside, applied, serves, wanted, count>>

Copy ==
  /\ step = "compare" /\ ~ Known
  /\ aside' = wanted
  /\ step' = "validate"
  /\ UNCHANGED <<image, file, applied, serves, wanted, count>>

Validate ==
  /\ step = "validate" /\ Readable(aside)
  /\ step' = "reload"
  /\ UNCHANGED <<image, file, aside, applied, serves, wanted, count>>

Reload ==
  /\ step = "reload"
  /\ serves' = aside
  /\ step' = "move"
  /\ UNCHANGED <<image, file, aside, applied, wanted, count>>

Moved == file' = aside /\ aside' = None

Move ==
  /\ step = "move"
  /\ Moved
  /\ step' = "note"
  /\ UNCHANGED <<image, applied, serves, wanted, count>>

Note ==
  /\ step = "note"
  /\ applied' = wanted
  /\ Done
  /\ UNCHANGED <<image, file, aside, serves, wanted, count>>

(* Whichever of them fails, the container is replaced after all. *)
Fails ==
  /\ \/ step = "validate" /\ ~ Readable(aside)
     \/ step \in {"reload", "move", "note"}
  /\ Recreate

(* The script ends with the connection. *)
Dies ==
  /\ step \notin {"done", "died"}
  /\ step' = "died"
  /\ UNCHANGED <<image, file, aside, applied, serves, wanted, count>>

(* The container or the droplet restarts: caddy reads its file.  (In the    *)
(* second between the reload and the move it would read the old one.)       *)
Restart ==
  /\ step \in {"done", "died"}
  /\ serves' = Reads(file)
  /\ UNCHANGED <<image, file, aside, applied, step, wanted, count>>

Next ==
  \/ \E i \in Images : Rollout(i)
  \/ Asked \/ Untouched \/ Copy \/ Validate \/ Reload \/ Move \/ Note \/ Fails \/ Dies \/ Restart

Spec == Init /\ [][Next]_caddyVars

---------------------------------------------------------------------------

TypeOK ==
  /\ image \in Images /\ file \in Images /\ serves \in Images \cup {None}
  /\ aside \in Images \cup {None} /\ applied \in Images \cup {None}
  /\ count \in 0 .. MaxRollouts

(* A rollout that is done has brought its configuration, to stay: caddy    *)
(* works with it, also after a restart (rollout.sh:171-180, 188-191: "the  *)
(* configuration of this image is already applied").                       *)
ConfIsApplied == (step = "done" /\ Readable(wanted)) => serves = wanted /\ file = wanted

(* "a broken Caddyfile put into the container would mean that caddy does    *)
(* not come up" (rollout.sh:188-190): it is never there.                   *)
BrokenStaysOut == Readable(file) /\ serves # None
=============================================================================
