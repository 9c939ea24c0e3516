--------------------------- MODULE ReleaseUpdate ---------------------------
(***************************************************************************)
(* How a point changes its release (raspberry/pi/stack).  updater.sh asks  *)
(* the bucket for the manifest, puts the release on the card, tests it,    *)
(* switches the symlink `current`, asks the supervisor for a new kiosk and *)
(* waits for its frames; without them it goes back.  supervisor.sh owns    *)
(* the processes: it starts what has died, serves the requests of the      *)
(* updater and restarts the other components once a release has settled.  *)
(*                                                                         *)
(* What is on the card survives a cut of the power, processes do not.  A   *)
(* cut that loses the last writes is a cut that came before them: only the *)
(* updater writes what the model keeps, besides the slot.                  *)
(*                                                                         *)
(* Abstractions: one component, the worker, stands for those that are not  *)
(* the kiosk.  Time is the order of steps; the one timing that matters,    *)
(* that an overlap (180 s) is over before the updater gives up (300 s), is *)
(* in the guard of TimeUp.  The files version and last_update_at are for   *)
(* people.  What an incident leaves for good is noted in `scars`.          *)
(***************************************************************************)
EXTENDS Naturals, FiniteSets

CONSTANTS
  Releases,
  First,          \* the release that runs at first
  OnCard,         \* the releases on the card at first
  Keep,           \* KEEP_RELEASES
  FetchAttempts,  \* FETCH_ATTEMPTS
  Draws,          \* releases whose kiosk draws on the screen
  Passes,         \* releases whose kiosk passes --selftest
  KioskOf,        \* release -> its bin/kiosk and assets
  CodeOf,         \* release -> the code of its other components
  PartsOf,        \* release -> the components that components.conf enables
  None

ASSUME FirstIsSound == First \in OnCard /\ First \in Draws /\ First \in Passes
ASSUME AttemptsAreSome == FetchAttempts \in Nat \ {0}
ASSUME OnCardAreReleases == OnCard \subseteq Releases
ASSUME DrawsAndPasses == Draws \subseteq Releases /\ Passes \subseteq Releases
ASSUME NoneIsNoRelease == None \notin Releases
ASSUME SameKioskDraws ==
  \A r, s \in Releases : KioskOf[r] = KioskOf[s] => (r \in Draws <=> s \in Draws)

Slots == {0, 1}

VARIABLES
  manifest,    \* the release in the bucket's manifest
  current,     \* the symlink
  previous,    \* state/previous
  dir,         \* release -> its directory: absent, torn or whole
  etag,        \* the manifest the saved ETag is of
  fails,       \* release -> state/fetch-failures
  bad,         \* state/bad-releases
  flag,        \* state/updating: the banner
  request,     \* state/restart.kiosk
  slot,        \* state/slot.kiosk
  stacked,     \* releases with a mark state/stack-restarted
  at,          \* where the updater is
  rel,         \* the release it works on
  sup,         \* what the supervisor does: off, idle, overlap
  want,        \* the release whose components.conf it has read
  last,        \* LAST_RELEASE
  before,      \* PREV_RELEASE while a restart of components is pending
  copy,        \* slot -> kiosk process there
  worker,      \* release the worker was started from
  scars        \* incidents whose damage is still there

card == <<current, previous, dir, etag, fails, bad, flag, request, slot, stacked>>
updater == <<at, rel>>
supervisor == <<sup, want, last, before>>
processes == <<copy, worker>>
vars == <<manifest, card, updater, supervisor, processes, scars>>

Kiosk == [rel : Releases, draws : BOOLEAN, young : BOOLEAN]
NoCopy == [rel |-> None, draws |-> FALSE, young |-> FALSE]
NoCopies == [s \in Slots |-> NoCopy]
Lit == \E s \in Slots : copy[s].draws
Other(s) == 1 - s

TypeOK ==
  /\ manifest \in Releases
  /\ current \in Releases
  /\ previous \in Releases \cup {None}
  /\ dir \in [Releases -> {"absent", "torn", "whole"}]
  /\ etag \in Releases \cup {None}
  /\ fails \in [Releases -> 0..(FetchAttempts - 1)]
  /\ bad \subseteq Releases
  /\ flag \in BOOLEAN
  /\ request \in {None, "overlap", "plain"}
  /\ slot \in Slots
  /\ stacked \subseteq Releases
  /\ at \in {"off", "start", "sleep", "prune", "stage", "test", "same", "banner",
             "ask", "trial", "back", "plain"}
  /\ rel \in Releases \cup {None}
  /\ sup \in {"off", "idle", "overlap"}
  /\ {want, last, before, worker} \subseteq Releases \cup {None}
  /\ copy \in [Slots -> Kiosk \cup {NoCopy}]
  /\ scars \subseteq {"etag", "trial", "young", "worker"}

Init ==
  /\ manifest = First /\ current = First /\ previous = None
  /\ dir = [r \in Releases |-> IF r \in OnCard THEN "whole" ELSE "absent"]
  /\ etag = None /\ fails = [r \in Releases |-> 0] /\ bad = {}
  /\ flag = FALSE /\ request = None /\ slot = 0 /\ stacked = {}
  /\ at = "off" /\ rel = None
  /\ sup = "off" /\ want = None /\ last = None /\ before = None
  /\ copy = NoCopies /\ worker = None
  /\ scars = {}

\* CI writes a manifest: the point cannot be told, only asked (common.sh:28-35).
Publish(r) ==
  /\ r # manifest
  /\ manifest' = r
  /\ UNCHANGED <<card, updater, supervisor, processes, scars>>

\* What is lost with an updater: the ETag says that the manifest was dealt
\* with, though it was not.
Lost ==
  IF at \in {"prune", "stage", "test", "same", "banner"} THEN {"etag"} ELSE {}
\* Nobody judges the release that is on trial, or ends the way back.
Unjudged == IF at \in {"ask", "trial", "back"} THEN {"trial"} ELSE {}

(***************************************************************************)
(* The updater.                                                            *)
(***************************************************************************)
UpdaterOnly == UNCHANGED <<manifest, supervisor, processes>>

\* Mutant of BannerAtStart: what an interrupted update has left stays.
BannerAtStartKept == flag
\* The banner once an updater has started.
BannerAtStart == FALSE

\* The first thing a new updater does: take away a banner that an interrupted
\* update has left, and have the stack restarted, once, when the release
\* enables other components than the supervisor has started.
UpdaterStarts ==
  /\ at = "start"
  /\ flag' = BannerAtStart
  /\ rel' = None
  /\ IF PartsOf[want] # PartsOf[current] /\ current \notin stacked
     THEN /\ stacked' = stacked \cup {current}
          /\ at' = "off" /\ sup' = "off" /\ want' = None /\ last' = None /\ before' = None
          /\ copy' = NoCopies /\ worker' = None
     ELSE /\ at' = "sleep"
          /\ UNCHANGED <<stacked, supervisor, processes>>
  /\ UNCHANGED <<manifest, current, previous, dir, etag, fails, bad, request, slot, scars>>

\* What the supervisor has come to when the updater has slept.
Settled == sup = "idle" /\ request = None /\ current = last /\ (before = None \/ flag)

\* A manifest that is new: its ETag is saved before anything is done with it.
\* A 304, a silent network and a hold leave everything as it is.  The updater
\* sleeps for minutes first, the supervisor looks every two seconds: it has
\* ended a hand-over whose copy draws, and has seen the last switch.
Fetch ==
  /\ at = "sleep"
  /\ sup = "off" \/ Settled
  /\ etag # manifest
  /\ etag' = manifest
  /\ IF manifest = current \/ manifest \in bad
     THEN UNCHANGED updater
     ELSE at' = "prune" /\ rel' = manifest
  /\ scars' = scars \ {"etag"}
  /\ UNCHANGED <<current, previous, dir, fails, bad, flag, request, slot, stacked>>
  /\ UpdaterOnly

Present == {r \in Releases : dir[r] # "absent"}
\* Mutant of Doomed: only the newest are kept.
DoomedAll(newest) == Present \ newest
\* What prune_releases takes away when `newest` heads the listing.
Doomed(newest) == Present \ (newest \cup {current, previous})
Newest == {K \in SUBSET Present :
             Cardinality(K) = IF Cardinality(Present) < Keep THEN Cardinality(Present) ELSE Keep}

Prune ==
  /\ at = "prune"
  /\ at' = "stage"
  /\ \E K \in Newest :
       dir' = [r \in Releases |-> IF r \in Doomed(K) THEN "absent" ELSE dir[r]]
  /\ UNCHANGED <<current, previous, etag, fails, bad, flag, request, slot, stacked, rel, scars>>
  /\ UpdaterOnly

MarkBad(r) ==
  /\ bad' = bad \cup {r}
  /\ fails' = [fails EXCEPT ![r] = 0]

\* The archive did not arrive: forget the ETag, so that the next round asks
\* again, or give the release up.
NoteFetchFailure ==
  IF fails[rel] + 1 >= FetchAttempts
  THEN MarkBad(rel) /\ etag' = etag
  ELSE /\ fails' = [fails EXCEPT ![rel] = @ + 1]
       /\ etag' = None
       /\ bad' = bad

\* A directory that is there counts as the release; otherwise download, check
\* and unpack, and move the whole directory into its place.
Stage ==
  /\ at = "stage"
  /\ \/ /\ dir[rel] # "absent"
        /\ at' = "test"
        /\ UNCHANGED <<dir, fails, etag, bad>>
     \/ /\ dir[rel] = "absent"
        /\ at' = "test"
        /\ dir' = [dir EXCEPT ![rel] = "whole"]
        /\ fails' = [fails EXCEPT ![rel] = 0]
        /\ UNCHANGED <<etag, bad>>
     \/ /\ dir[rel] = "absent"
        /\ at' = "sleep"
        /\ NoteFetchFailure
        /\ UNCHANGED dir
  /\ UNCHANGED <<current, previous, flag, request, slot, stacked, rel, scars>>
  /\ UpdaterOnly

\* The archive is not what the manifest says.
StageRefuses ==
  /\ at = "stage" /\ dir[rel] = "absent"
  /\ at' = "sleep"
  /\ MarkBad(rel)
  /\ UNCHANGED <<current, previous, dir, etag, flag, request, slot, stacked, rel, scars>>
  /\ UpdaterOnly

\* The kiosk is the one that runs already, or passes its test, or is refused.
\* What is missing in a torn directory may be needed for either or for none.
Test ==
  /\ at = "test"
  /\ \/ /\ KioskOf[rel] = KioskOf[current]
        /\ at' = "same"
        /\ UNCHANGED <<bad, fails>>
     \/ /\ KioskOf[rel] # KioskOf[current] \/ dir[rel] = "torn"
        /\ rel \in Passes
        /\ at' = "banner"
        /\ UNCHANGED <<bad, fails>>
     \/ /\ KioskOf[rel] # KioskOf[current] \/ dir[rel] = "torn"
        /\ dir[rel] = "torn" \/ rel \notin Passes
        /\ at' = "sleep"
        /\ MarkBad(rel)
  /\ UNCHANGED <<current, previous, dir, etag, flag, request, slot, stacked, rel, scars>>
  /\ UpdaterOnly

\* The same kiosk: only the symlink, then the updater becomes the new one.
SwitchSame ==
  /\ at = "same"
  /\ previous' = current
  /\ current' = rel
  /\ at' = IF dir[rel] = "whole" THEN "start" ELSE "off"
  /\ UNCHANGED <<dir, etag, fails, bad, flag, request, slot, stacked, rel, scars>>
  /\ UpdaterOnly

\* The banner is up for some seconds, then the symlink is switched.
Banner ==
  /\ at = "banner" /\ ~flag
  /\ flag' = TRUE
  /\ copy' = [s \in Slots |-> [copy[s] EXCEPT !.young = FALSE]]
  /\ UNCHANGED <<manifest, current, previous, dir, etag, fails, bad, request, slot,
                 stacked, updater, supervisor, worker, scars>>

Link ==
  /\ at = "banner" /\ flag
  /\ previous' = current
  /\ current' = rel
  /\ at' = "ask"
  /\ UNCHANGED <<dir, etag, fails, bad, flag, request, slot, stacked, rel, scars>>
  /\ UpdaterOnly

\* A kiosk is taken for the new one by its uptime: five seconds of grace, so a
\* copy that was started since the banner went up may count although it was
\* started before the request, and from the old release.
Ask ==
  /\ at = "ask"
  /\ request' = "overlap"
  /\ at' = "trial"
  /\ \E S \in SUBSET {s \in Slots : copy[s].young} :
       copy' = [s \in Slots |-> [copy[s] EXCEPT !.young = s \in S]]
  /\ UNCHANGED <<manifest, current, previous, dir, etag, fails, bad, flag, slot,
                 stacked, rel, supervisor, worker, scars>>

Fresh == \E s \in Slots : copy[s].draws /\ copy[s].young

\* The new kiosk draws: take the banner away and become the new updater.
TrialPasses ==
  /\ at = "trial"
  /\ Fresh
  /\ flag' = FALSE
  /\ at' = IF dir[current] = "whole" THEN "start" ELSE "off"
  /\ scars' = IF \E s \in Slots : copy[s].draws /\ copy[s].rel = current
              THEN scars \ {"trial", "young"}
              ELSE scars \cup {"young" : s \in {z \in Slots : copy[z].draws /\ copy[z].young}}
  /\ UNCHANGED <<current, previous, dir, etag, fails, bad, request, slot, stacked, rel>>
  /\ UpdaterOnly

\* UPDATE_HEALTH_S is over; the supervisor has given its overlap up by then.
TimeUp ==
  /\ at = "trial"
  /\ ~Fresh
  /\ request = None /\ sup = "idle"
  /\ at' = "back"
  /\ MarkBad(rel)
  /\ UNCHANGED <<current, previous, dir, etag, flag, request, slot, stacked, rel, scars>>
  /\ UpdaterOnly

\* Back to the previous release, if it is there.
GoBack ==
  /\ at = "back"
  /\ IF previous # None /\ dir[previous] # "absent"
     THEN /\ current' = previous
          /\ scars' = scars \cup (IF worker = rel THEN {"worker"} ELSE {})
          /\ at' = "plain" /\ flag' = flag
     ELSE /\ at' = "sleep" /\ flag' = FALSE
          /\ UNCHANGED <<current, scars>>
  /\ UNCHANGED <<previous, dir, etag, fails, bad, request, slot, stacked, rel>>
  /\ UpdaterOnly

AskPlain ==
  /\ at = "plain"
  /\ request' = "plain"
  /\ flag' = FALSE
  /\ at' = "sleep"
  /\ UNCHANGED <<current, previous, dir, etag, fails, bad, slot, stacked, rel, scars>>
  /\ UpdaterOnly

(***************************************************************************)
(* The supervisor.                                                         *)
(***************************************************************************)
SupervisorOnly == UNCHANGED <<manifest, current, previous, dir, etag, fails, bad, flag, stacked>>

Runnable == dir[current] = "whole"
Started == IF Runnable THEN [rel |-> current, draws |-> FALSE, young |-> TRUE] ELSE NoCopy
NewWorker == IF Runnable THEN current ELSE None

\* systemd starts the supervisor, the supervisor everything else.
Boot ==
  /\ sup = "off"
  /\ sup' = "idle"
  /\ want' = current /\ last' = current /\ before' = None
  /\ copy' = [NoCopies EXCEPT ![slot] = Started]
  /\ worker' = NewWorker
  /\ at' = (IF Runnable THEN "start" ELSE "off") /\ rel' = None
  /\ scars' = scars \ {"worker"}
  /\ UNCHANGED <<request, slot>>
  /\ SupervisorOnly

\* restart_plain: stop the copy, start one from the current release.
RestartKiosk == copy' = [NoCopies EXCEPT ![slot] = Started] /\ slot' = slot

\* A child that has died is started again, from what is current by now.
Care ==
  /\ sup = "idle" /\ Runnable
  /\ \/ /\ copy[slot] = NoCopy
        /\ RestartKiosk
        /\ UNCHANGED <<worker, updater, scars>>
     \/ /\ worker = None
        /\ worker' = NewWorker
        /\ scars' = scars \ {"worker"}
        /\ UNCHANGED <<copy, slot, updater>>
     \/ /\ at = "off"
        /\ at' = "start" /\ rel' = None
        /\ UNCHANGED <<copy, slot, worker, scars>>
  /\ UNCHANGED <<request, supervisor>>
  /\ SupervisorOnly

ServePlain ==
  /\ sup = "idle" /\ request = "plain"
  /\ request' = None
  /\ RestartKiosk
  /\ UNCHANGED <<updater, supervisor, worker, scars>>
  /\ SupervisorOnly

\* The new copy goes to the layer next to the old one.
ServeOverlap ==
  /\ sup = "idle" /\ request = "overlap"
  /\ request' = None
  /\ sup' = "overlap"
  /\ copy' = [copy EXCEPT ![Other(slot)] = Started]
  /\ UNCHANGED <<slot, updater, want, last, before, worker, scars>>
  /\ SupervisorOnly

\* The new copy draws: only now the old one goes.
OverlapEnds ==
  /\ sup = "overlap"
  /\ copy[Other(slot)].draws
  /\ sup' = "idle"
  /\ slot' = Other(slot)
  /\ copy' = [copy EXCEPT ![slot] = NoCopy]
  /\ UNCHANGED <<request, updater, want, last, before, worker, scars>>
  /\ SupervisorOnly

\* The new copy died or took too long: one after the other.
OverlapFails ==
  /\ sup = "overlap"
  /\ ~copy[Other(slot)].draws
  /\ sup' = "idle"
  /\ RestartKiosk
  /\ UNCHANGED <<request, updater, want, last, before, worker, scars>>
  /\ SupervisorOnly

\* A new release under `current`: remember which one the components are from.
SeeRelease ==
  /\ sup = "idle" /\ current # last
  /\ before' = (IF before = None THEN last ELSE before)
  /\ last' = current
  /\ UNCHANGED <<request, slot, updater, sup, want, processes, scars>>
  /\ SupervisorOnly

SameCode(r, s) == dir[r] # "absent" /\ dir[s] # "absent" /\ CodeOf[r] = CodeOf[s]

\* Once the banner is down, restart the components whose code has changed, the
\* updater too: it takes its banner along, and work it has begun is lost.
RestartComponents ==
  /\ sup = "idle" /\ current = last /\ before # None /\ ~flag
  /\ before' = None
  /\ IF SameCode(before, last)
     THEN UNCHANGED <<worker, updater, scars>>
     ELSE /\ worker' = NewWorker
          /\ at' = (IF Runnable THEN "start" ELSE "off") /\ rel' = None
          /\ scars' = (scars \ {"worker"}) \cup Lost
  /\ UNCHANGED <<request, slot, sup, want, last, copy>>
  /\ SupervisorOnly

(***************************************************************************)
(* Kiosks and what goes wrong.                                             *)
(***************************************************************************)
KioskDraws(s) ==
  /\ copy[s].rel \in Draws /\ ~copy[s].draws
  /\ copy' = [copy EXCEPT ![s].draws = TRUE]
  /\ UNCHANGED <<manifest, card, updater, supervisor, worker, scars>>

KioskDies(s) ==
  /\ copy[s] # NoCopy
  /\ copy' = [copy EXCEPT ![s] = NoCopy]
  /\ UNCHANGED <<manifest, card, updater, supervisor, worker, scars>>

\* The worker dies, or hangs until the supervisor misses its beat.
WorkerDies ==
  /\ worker # None
  /\ worker' = None
  /\ scars' = scars \ {"worker"}
  /\ UNCHANGED <<manifest, card, updater, supervisor, copy>>

UpdaterDies ==
  /\ at # "off"
  /\ at' = "off" /\ rel' = None
  /\ scars' = scars \cup Lost \cup Unjudged \cup (IF at = "plain" THEN {"trial"} ELSE {})
  /\ UNCHANGED <<manifest, card, supervisor, processes>>

\* No power.  A removal that was under way leaves torn directories.
Cut ==
  /\ sup # "off"
  /\ at' = "off" /\ rel' = None
  /\ sup' = "off" /\ want' = None /\ last' = None /\ before' = None
  /\ copy' = NoCopies /\ worker' = None
  /\ \/ dir' = dir
     \/ /\ at = "prune"
        /\ \E K \in Newest : \E r \in Doomed(K) : dir' = [dir EXCEPT ![r] = "torn"]
  /\ scars' = scars \cup Lost \cup Unjudged
  /\ UNCHANGED <<manifest, current, previous, etag, fails, bad, flag, request, slot, stacked>>

Updater ==
  \/ UpdaterStarts \/ Fetch \/ Prune \/ Stage \/ StageRefuses \/ Test \/ SwitchSame
  \/ Banner \/ Link \/ Ask \/ TrialPasses \/ TimeUp \/ GoBack \/ AskPlain

Supervisor ==
  \/ Boot \/ ServePlain \/ ServeOverlap \/ OverlapEnds \/ OverlapFails
  \/ SeeRelease \/ RestartComponents

Accident == (\E s \in Slots : KioskDies(s)) \/ WorkerDies \/ UpdaterDies \/ Cut

Routine ==
  \/ \E r \in Releases : Publish(r)
  \/ Updater \/ Supervisor \/ Care
  \/ \E s \in Slots : KioskDraws(s)

Next == Routine \/ Accident

Safety == Init /\ [][Next]_vars

\* Both scripts are loops that always come round, and a kiosk that can draw
\* does so in the end.  Neither CI nor an accident has to happen.
Fairness ==
  /\ WF_vars(Updater) /\ WF_vars(Supervisor) /\ WF_vars(Care)
  /\ \A s \in Slots : WF_vars(KioskDraws(s))

Spec == Safety /\ Fairness

(***************************************************************************)
(* Properties.                                                             *)
(***************************************************************************)
\* "If the new version does not come alive, back to the previous release"
\* (stack/README.md:93): while a release is on trial the one before it is on
\* the card, whole, whatever prune_releases has taken away (updater.sh:78-97).
WayBackIsThere ==
  at \in {"ask", "trial", "back"} =>
    /\ previous # None /\ previous # current
    /\ dir[previous] = "whole"

\* A banner is not for ever (updater.sh:343-353): whoever took it up or died
\* with it up, it comes down.
BannerComesDown == flag ~> ~flag

\* There are always frames on the screen again (stack/README.md:93-110): a
\* release that does not draw is left, if the updater lives to see it, and if
\* no copy of the old release was young enough to be taken for the new one.
ScreenComesBack ==
  []<>(Lit \/ scars \cap {"trial", "young"} # {} \/ dir[current] = "torn")

\* What is published is installed or refused (updater.sh:54-70), unless an
\* updater died with the ETag saved and the release not yet current.
PublishedIsTaken ==
  []<>(\/ current = manifest \/ manifest \in bad
       \/ "etag" \in scars \/ dir[current] = "torn")

\* "A new release means new code in the other components too"
\* (supervisor.sh:322-333), in those too that the release has added: unless a
\* worker was restarted from a release that was then taken back.
ComponentsFollow ==
  <>[](\/ dir[current] = "torn"
       \/ /\ worker # None
          /\ CodeOf[worker] = CodeOf[current] \/ "worker" \in scars
          /\ PartsOf[want] = PartsOf[current] \/ current \in stacked)
=============================================================================
