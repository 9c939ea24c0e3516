----------------------------- MODULE FrontDeploy -----------------------------
(***************************************************************************)
(* A new front end on Cloudflare (scripts/deploy-front.mjs): built, joined *)
(* by the css and js files that the site still serves or has kept from     *)
(* builds before, and uploaded as a whole.  A tab that was opened earlier  *)
(* goes on asking for the files of its own build.                          *)
(*                                                                         *)
(* Deploys: those under way at once (one in the job of the CI, more by     *)
(* hand).  Faults: answers of the site that grab does not get.             *)
(***************************************************************************)
EXTENDS Integers, FiniteSets

CONSTANTS Sources,      \* versions of the source
          FilesOf,      \* the hashed files of the build of each
          Files,
          Days,         \* RETAIN_DAYS, of a file
          Deploys,
          Horizon,      \* bound: days
          MaxDeploys,   \* bound
          MaxFaults,    \* bound
          None

VARIABLES today,
          site,      \* what Cloudflare serves: [source, files, kept]
          deploy,    \* each deploy under way
          retired,   \* the day a file stopped being current for good; None
          done, faults

frontVars == <<today, site, deploy, retired, done, faults>>

Nothing == [f \in Files |-> None]
Rests == [pc |-> "no", source |-> None, live |-> {}, since |-> Nothing, kept |-> Nothing, left |-> {}]

Init ==
  /\ today = 0
  /\ \E s \in Sources : site = [source |-> s, files |-> FilesOf[s], kept |-> Nothing]
  /\ deploy = [d \in Deploys |-> Rests]
  /\ retired = Nothing
  /\ done = 0 /\ faults = 0

Step(d, new) == deploy' = [deploy EXCEPT ![d] = new]

(* A grab that fails gives null, as a file that is not there does. *)
Grabbed == UNCHANGED faults
Lost == faults < MaxFaults /\ faults' = faults + 1

---------------------------------------------------------------------------

(* --if-changed: the tag of the live version is the hash of the sources *)
Skips(s) == site.source = s

Build(d, s) ==
  /\ deploy[d].pc = "no" /\ done < MaxDeploys
  /\ ~ Skips(s)
  /\ done' = done + 1
  /\ Step(d, [Rests EXCEPT !.pc = "page", !.source = s])
  /\ UNCHANGED <<today, site, retired, faults>>

(* keepRetired: the page, and what it refers to *)
GrabPage(d) ==
  /\ deploy[d].pc = "page"
  /\ \/ Grabbed /\ Step(d, [deploy[d] EXCEPT !.pc = "list", !.live = FilesOf[site.source]])
     \/ Lost /\ Step(d, [deploy[d] EXCEPT !.pc = "list"])
  /\ UNCHANGED <<today, site, retired, done>>

Since(before, live) ==
  [f \in Files |-> IF before[f] # None THEN before[f] ELSE IF f \in live THEN today ELSE None]

(* retained.json *)
GrabList(d) ==
  /\ deploy[d].pc = "list"
  /\ \/ Grabbed /\ Step(d, [deploy[d] EXCEPT !.pc = "files", !.since = Since(site.kept, deploy[d].live)])
     \/ Lost /\ Step(d, [deploy[d] EXCEPT !.pc = "files", !.since = Since(Nothing, deploy[d].live)])
  /\ UNCHANGED <<today, site, retired, done>>

Fresh(d) == FilesOf[deploy[d].source]

(* Not of the new build, and not out of date. *)
Worth(d, f) ==
  /\ deploy[d].since[f] # None
  /\ f \notin Fresh(d)
  /\ today - deploy[d].since[f] <= Days[f]

Wanted(d) == {f \in Files : Worth(d, f)}

GrabFiles(d) ==
  /\ deploy[d].pc = "files"
  /\ \E got \in SUBSET Wanted(d) :
       /\ IF got = Wanted(d) \cap site.files THEN Grabbed ELSE Lost /\ got \subseteq site.files
       /\ Step(d, [deploy[d] EXCEPT !.pc = "upload",
                                    !.kept = [f \in Files |-> IF f \in got THEN deploy[d].since[f] ELSE None]])
  /\ UNCHANGED <<today, site, retired, done>>

Kept(d) == {f \in Files : deploy[d].kept[f] # None}

(* wrangler deploy: the whole of dist *)
Upload(d) ==
  LET new == FilesOf[deploy[d].source] IN
    /\ deploy[d].pc = "upload"
    /\ site' = [source |-> deploy[d].source, files |-> new \cup Kept(d), kept |-> deploy[d].kept]
    /\ retired' = [f \in Files |-> IF f \in new THEN None
                                   ELSE IF f \in FilesOf[site.source] THEN today ELSE retired[f]]
    /\ Step(d, Rests)
    /\ UNCHANGED <<today, done, faults>>

(* A build that fails, a local address in the bundle, --dry *)
GivesUp(d) ==
  /\ deploy[d].pc # "no"
  /\ Step(d, Rests)
  /\ UNCHANGED <<today, site, retired, done, faults>>

(* A deploy takes minutes, not days. *)
DayPasses ==
  /\ today < Horizon /\ \A d \in Deploys : deploy[d].pc = "no"
  /\ today' = today + 1
  /\ UNCHANGED <<site, deploy, retired, done, faults>>

Next ==
  \/ DayPasses
  \/ \E d \in Deploys :
       \/ GrabPage(d) \/ GrabList(d) \/ GrabFiles(d) \/ Upload(d) \/ GivesUp(d)
       \/ \E s \in Sources : Build(d, s)

Spec == Init /\ [][Next]_frontVars

---------------------------------------------------------------------------

TypeOK ==
  /\ today \in 0 .. Horizon
  /\ site.source \in Sources /\ site.files \subseteq Files
  /\ done \in 0 .. MaxDeploys /\ faults \in 0 .. MaxFaults

(* The files of the build in force are there, and those of a build that was *)
(* replaced for as long as a tab may need them, however many deploys there  *)
(* were since, and however often a build came back (deploy-front.mjs:       *)
(* 150-160).                                                                *)
OldFilesStay ==
  /\ FilesOf[site.source] \subseteq site.files
  /\ \A f \in Files : (retired[f] # None /\ today - retired[f] <= Days[f]) => f \in site.files

(* ... and nothing is kept for good: a deploy brings no file that is older. *)
NothingStaysForGood ==
  site' # site => \A f \in site'.files \ FilesOf[site'.source] : today - site'.kept[f] <= Days[f]

FilesAreKept == []OldFilesStay /\ [][NothingStaysForGood]_site
=============================================================================
