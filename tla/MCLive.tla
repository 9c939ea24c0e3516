------------------------------- MODULE MCLive -------------------------------
(***************************************************************************)
(* Small instances of what must come to an end by itself: the release of a *)
(* point (ReleaseUpdate), a login by a letter (LoginFlow), the link of a   *)
(* point (KioskLink) and its screen (KioskScreen), parcels (Orders), and   *)
(* the minutes of video on their way to the bucket (VideoUpload) and from  *)
(* it (VideoAnalysis).  A behaviour is one of them (part), the others stay *)
(* as they begin, and a run is about some of them.  The theorems about the *)
(* release, the parcels, the link, the letters and the minutes follow the  *)
(* properties; they hold for every value of the constants.                 *)
(*                                                                         *)
(* Releases: one that is installed, one with the same kiosk and new        *)
(* scripts, one whose kiosk passes its test but never draws.  CI publishes *)
(* at most MaxPublished times.  Of video N minutes are recorded without a  *)
(* key, otherwise Few.  There are at most MaxAccidents deaths, cuts of the *)
(* power, stalls, restarts, pauses and hanging drives at the point, and    *)
(* MaxMishaps crashes, stops, failures and expiries of the analysis.       *)
(***************************************************************************)
EXTENDS ReleaseUpdate, TLAPS, FiniteSetTheorems

CONSTANTS
  old, scripts, fresh, blank, MaxPublished, MaxAccidents, Few, MaxMishaps,
  Letters, Calls, LoginFaults, MaxReloads,                                  \* of LoginFlow
  PingEvery, IdleLimit, Grace, AskMax, MaxPause, AuthPause, LinkFaults,     \* of KioskLink
  OrderIds, Printed, Beans, Limit, Posts, AdminStatuses, MaxAdmin,          \* of Orders
  Minutes, RamKeep, RamMax, Room, UploadBatch,                              \* of VideoUpload
  Clips, FromCard, AtCounter, Paid, MaxAttempts, Versions                   \* of VideoAnalysis

VARIABLES
  part, published, accidents,
  \* those of the parts, by their names where these differ
  login, stored, tab, told, asked, call, page, session, loginFaults, reloads,   \* of LoginFlow
  cable, server, valid, room, wire, socket, attempt, wait, silent, sincePing, question, downFor,
  banner, updating, deaf, linkFaults,                                           \* of KioskLink
  beans, order, byChange, lastEvent, lastTold, uploaded, headed, printReady, parcel, pass,
  changes,                                                                      \* of Orders
  s1, s2, s3, s4, s5, s6, s7, s8, s9,                  \* of KioskScreen, in the order of the module
  mode, ffmpeg, next, quiet, since, ram, drive, rejected, spill, copied, hung, mark, paused, found,
  up, bucket, rows, made, lost, short,                                          \* of VideoUpload
  status, attempts, stale, version, kept, reach, event, passage, receipt, buyer, analyst, deployed,
  cut, torn, doubled                                                            \* of VideoAnalysis

MCKioskOf == [r \in Releases |-> IF r = fresh THEN "new" ELSE IF r = blank THEN "blank" ELSE "old"]
MCCodeOf == [r \in Releases |-> IF r = old THEN "old" ELSE "new"]
MCPartsOf == [r \in Releases |-> IF r = blank THEN "more" ELSE "few"]

Letter == INSTANCE LoginFlow WITH
       link <- login, faults <- loginFaults, MaxFaults <- LoginFaults
Socket == INSTANCE KioskLink WITH
       link <- socket, asked <- question, faults <- linkFaults, MaxFaults <- LinkFaults
Picture == INSTANCE KioskScreen WITH
       now <- s1, bucket <- s2, edge <- s3, cache <- s4, png <- s5, hash <- s6, kiosk <- s7,
       torn <- s8, cuts <- s9,
       Kiosks <- {"k1"}, Looks <- {"a"}, Prices <- {1}, Refresh <- 2, MaxAge <- 1, Window <- 1,
       MaxPublished <- 2, MaxCuts <- 0, Horizon <- 3, CanFail <- FALSE
Parcel == INSTANCE Orders
Upload == INSTANCE VideoUpload WITH pass <- found, N <- Minutes, Batch <- UploadBatch
Analysis == INSTANCE VideoAnalysis WITH
       stored <- kept, last <- reach, of <- passage, worker <- analyst, release <- deployed, N <- Clips
letter == <<login, stored, tab, told, asked, call, page, session, loginFaults, reloads>>
link == <<cable, server, valid, room, wire, socket, attempt, wait, silent, sincePing, question,
          downFor, banner, updating, deaf, linkFaults>>
drawing == <<s1, s2, s3, s4, s5, s6, s7, s8, s9>>
orders == <<beans, order, byChange, lastEvent, lastTold, uploaded, headed, printReady, parcel,
            pass, changes>>
upload == <<mode, ffmpeg, next, quiet, since, ram, drive, rejected, spill, copied, hung, mark,
            paused, found, up, bucket, rows, made, lost, short>>
analysis == <<status, attempts, stale, version, kept, reach, event, passage, receipt, buyer, analyst,
              deployed, cut, torn, doubled>>
release == <<vars, published>>

ASSUME LinkIsSound == Socket!ConstantsAreSound
ASSUME OrdersAreSound == Parcel!ConstantsAreSound
ASSUME UploadIsSound == Upload!ConstantsAreSound
ASSUME AnalysisIsSound == Analysis!ConstantsAreSound

MCInit ==
  /\ published = 0 /\ accidents = 0
  /\ Init /\ Letter!Init /\ Socket!Init /\ Picture!Init /\ Parcel!Init /\ Upload!Init
  /\ Analysis!Init
  \* one beginning for a part that only stays as it is
  /\ part # "link" => cable /\ server = "up"
  /\ part # "drawing" => s2 = CHOOSE b \in Picture!Bodies : b.id = 1 /\ b.until = 0
  /\ part # "upload" => mode = "keyless"

Quietly == UNCHANGED accidents
Mishap(most) == accidents < most /\ accidents' = accidents + 1

Updating ==
  /\ part = "release"
  /\ \/ Routine /\ Quietly
     \/ Accident /\ Mishap(MaxAccidents)
  /\ published' = published + (IF manifest' # manifest THEN 1 ELSE 0)
  /\ published' <= MaxPublished
  /\ UNCHANGED <<part, letter, link, drawing, orders, upload, analysis>>
LoggingIn ==
  /\ part = "letter" /\ Letter!Next /\ Quietly
  /\ UNCHANGED <<part, release, link, drawing, orders, upload, analysis>>
Linking ==
  /\ part = "link" /\ Socket!Next /\ Quietly
  /\ UNCHANGED <<part, release, letter, drawing, orders, upload, analysis>>
Drawing ==
  /\ part = "drawing" /\ Picture!Next /\ Quietly
  /\ UNCHANGED <<part, release, letter, link, orders, upload, analysis>>
Ordering ==
  /\ part = "orders" /\ Parcel!Next /\ Quietly
  /\ UNCHANGED <<part, release, letter, link, drawing, upload, analysis>>
Uploading ==
  /\ part = "upload"
  /\ \/ (Upload!Record \/ Upload!Upload \/ Upload!PauseEnds) /\ Quietly
     \/ Upload!Accident /\ Mishap(MaxAccidents)
  /\ mode # "keyless" => next' <= Few + 1
  /\ UNCHANGED <<part, release, letter, link, drawing, orders, analysis>>
Analysing ==
  /\ part = "analysis"
  /\ \/ (Analysis!Work \/ Analysis!World) /\ Quietly
     \/ Analysis!Accident /\ Mishap(MaxMishaps)
  /\ UNCHANGED <<part, release, letter, link, drawing, orders, upload>>

MCNext == Updating \/ LoggingIn \/ Linking \/ Drawing \/ Ordering \/ Uploading \/ Analysing

all == <<part, accidents, release, letter, link, drawing, orders, upload, analysis>>

\* Each part with the fairness it states.
ReleaseInit == part = "release" /\ MCInit
ReleaseSpec == ReleaseInit /\ [][MCNext]_all /\ Fairness

ScreensInit == part \in {"letter", "link", "drawing"} /\ MCInit
ScreensFairness ==
  \/ part = "letter" /\ Letter!Fairness
  \/ part = "link" /\ Socket!Fairness
  \/ part = "drawing" /\ Picture!Fairness
ScreensSpec == ScreensInit /\ [][MCNext]_all /\ ScreensFairness

JobsInit == part \in {"orders", "upload", "analysis"} /\ MCInit
JobsFairness ==
  \/ part = "orders" /\ Parcel!Fairness
  \/ part = "upload" /\ Upload!Fairness
  \/ part = "analysis" /\ Analysis!Fairness
JobsSpec == JobsInit /\ [][MCNext]_all /\ JobsFairness

\* A release that is published gets to the screen, and while it does the screen
\* comes back and the banner of the update comes down (ReleaseUpdate).
ReleaseComesThrough == BannerComesDown /\ ScreenComesBack /\ PublishedIsTaken

\* What the screens tell of a connection is so: a tab is let in, or told of a
\* refusal, only when the letter says so; a point that is cut off says it within
\* the silence, and never when it is in its room (LoginFlow, KioskLink).
ConnectionIsHonest ==
  /\ part = "letter" => Letter!LoginIsHonest
  /\ part = "link" => Socket!LinkIsHonest

\* A tab does not wait for its letter for ever (LoginFlow).
WaitEnds == part = "letter" => Letter!WaitEnds

\* A point that was cut off comes back, and a discount that is over leaves the
\* screen, whatever the network does to them (KioskLink, KioskScreen).
PointCatchesUp ==
  /\ part = "link" => Socket!ComesBack
  /\ part = "drawing" => Picture!DiscountComesDown

\* The player hears of every step of the parcel (Orders).
EveryoneIsTold == part = "orders" => Parcel!EveryoneIsTold

\* A parcel that was picked up is noticed in the end (Orders).
DeliveryIsNoticed == part = "orders" => Parcel!DeliveryIsNoticed

\* A minute of video is kept until the bucket has it, and what the worker makes
\* of the minutes has each of them once and no seam between (VideoUpload,
\* VideoAnalysis).
MinutesAreWhole ==
  /\ part = "upload" => Upload!NothingGetsLost
  /\ part = "analysis" => Analysis!EveryMinuteOnce /\ Analysis!SeamsAreClosed

\* Every minute gets to the bucket and every segment is analysed or given up,
\* so that each receipt has its answer (VideoUpload, VideoAnalysis).
VideoSettles ==
  /\ part = "upload" => Upload!QueueDrains
  /\ part = "analysis" => Analysis!SegmentsSettle /\ Analysis!ReceiptFindsBuyer

-----------------------------------------------------------------------------
(***************************************************************************)
(* There is a way back, whatever releases are published and whenever the   *)
(* power goes.                                                             *)
(*                                                                         *)
(* An updater is at work only on a release that is whole (Standing), since *)
(* whoever starts one looks; what it works on is another one (Working);    *)
(* and it switches to it at one place, where what was current becomes the  *)
(* way back (WayBackIsThere).  prune_releases spares both, and is over by  *)
(* the time the symlink is switched.                                       *)
(***************************************************************************)
Standing == at \notin {"off", "ask", "trial", "back"} => dir[current] = "whole"

Working ==
  /\ at \in {"prune", "stage", "test", "same", "banner", "ask", "trial", "back"} => rel # None
  /\ at \in {"prune", "stage", "test", "same", "banner"} => rel # current

WayInv == TypeOK /\ Standing /\ Working /\ WayBackIsThere

\* The card has its first release, and no updater is there yet.
LEMMA InitWay == Init => WayInv
<1> SUFFICES ASSUME Init PROVE WayInv
  OBVIOUS
<1>1. fails \in [Releases -> 0..(FetchAttempts - 1)]
  BY AttemptsAreSome DEF Init
<1>2. copy \in [Slots -> Kiosk \cup {NoCopy}]
  BY DEF Init, NoCopies
<1>3. First \in Releases /\ dir \in [Releases -> {"absent", "torn", "whole"}]
  BY FirstIsSound, OnCardAreReleases DEF Init
<1> QED
  BY <1>1, <1>2, <1>3 DEF Init, WayInv, TypeOK, Standing, Working, WayBackIsThere, Slots

\* A copy that was started is a kiosk of the current release, if that can be run.
LEMMA StartedIsTyped ==
  ASSUME TypeOK
  PROVE  /\ Started \in Kiosk \cup {NoCopy} /\ NewWorker \in Releases \cup {None}
         /\ NoCopies \in [Slots -> Kiosk \cup {NoCopy}]
  BY DEF TypeOK, Started, NewWorker, NoCopies, Kiosk, NoCopy

\* A copy may be taken for older than it is, and a kiosk for younger too.
LEMMA AgeIsTyped ==
  ASSUME TypeOK, NEW s \in Slots, NEW b \in BOOLEAN, b => copy[s].young
  PROVE  [copy[s] EXCEPT !.young = b] \in Kiosk \cup {NoCopy}
<1>1. copy[s] \in Kiosk \cup {NoCopy}
  BY DEF TypeOK
<1>2. CASE copy[s] \in Kiosk
  BY <1>2 DEF Kiosk
<1>3. CASE copy[s] = NoCopy
  <2>1. b = FALSE
    BY <1>3 DEF NoCopy
  <2>2. [NoCopy EXCEPT !.young = FALSE] = NoCopy
    <3>1. NoCopy \in [rel : {None}, draws : BOOLEAN, young : BOOLEAN] /\ NoCopy.young = FALSE
      BY DEF NoCopy
    <3> QED
      BY <3>1
  <2>3. [copy[s] EXCEPT !.young = b] = [NoCopy EXCEPT !.young = FALSE]
    BY <1>3, <2>1, Zenon
  <2> QED
    BY <2>2, <2>3
<1> QED
  BY <1>1, <1>2, <1>3

\* The updater keeps the types, and changes the card only as it may.
LEMMA UpdaterTypes == TypeOK /\ Working /\ Updater => TypeOK'
<1> SUFFICES ASSUME TypeOK, Working, Updater PROVE TypeOK'
  OBVIOUS
<1>0. /\ at \in {"prune", "stage", "test", "same", "banner", "trial"} => rel \in Releases
      /\ 0 \in 0..(FetchAttempts - 1)
  BY AttemptsAreSome DEF TypeOK, Working
<1> USE DEF TypeOK, card, updater, supervisor, processes, UpdaterOnly
<1>1. CASE UpdaterStarts
  BY <1>1, StartedIsTyped DEF UpdaterStarts, BannerAtStart
<1>2. CASE Fetch
  BY <1>2 DEF Fetch
<1>3. CASE Prune
  BY <1>3 DEF Prune
<1>4. CASE Stage
  <2>1. fails[rel] + 1 >= FetchAttempts \/ fails[rel] + 1 \in 0..(FetchAttempts - 1)
    BY <1>0, <1>4, AttemptsAreSome DEF Stage
  <2>2. /\ fails' \in [Releases -> 0..(FetchAttempts - 1)]
        /\ bad' \subseteq Releases /\ etag' \in Releases \cup {None}
        /\ dir' \in [Releases -> {"absent", "torn", "whole"}]
        /\ at' \in {"test", "sleep"}
    BY <1>0, <1>4, <2>1 DEF Stage, NoteFetchFailure, MarkBad
  <2> QED
    BY <1>4, <2>2 DEF Stage
<1>5. CASE StageRefuses
  BY <1>0, <1>5 DEF StageRefuses, MarkBad
<1>6. CASE Test
  BY <1>0, <1>6 DEF Test, MarkBad
<1>7. CASE SwitchSame
  BY <1>0, <1>7 DEF SwitchSame
<1>8. CASE Banner
  <2>1. copy' \in [Slots -> Kiosk \cup {NoCopy}]
    BY <1>8, AgeIsTyped DEF Banner
  <2> QED
    BY <1>8, <2>1 DEF Banner
<1>9. CASE Link
  BY <1>0, <1>9 DEF Link
<1>10. CASE Ask
  <2>1. PICK S \in SUBSET {s \in Slots : copy[s].young} :
          copy' = [s \in Slots |-> [copy[s] EXCEPT !.young = s \in S]]
    BY <1>10 DEF Ask
  <2>2. \A s \in Slots : [copy[s] EXCEPT !.young = s \in S] \in Kiosk \cup {NoCopy}
    <3> SUFFICES ASSUME NEW s \in Slots
                 PROVE  [copy[s] EXCEPT !.young = s \in S] \in Kiosk \cup {NoCopy}
      OBVIOUS
    <3>1. (s \in S) \in BOOLEAN /\ ((s \in S) => copy[s].young)
      OBVIOUS
    <3> QED
      BY <3>1, AgeIsTyped
  <2>3. copy' \in [Slots -> Kiosk \cup {NoCopy}]
    BY <2>1, <2>2
  <2> QED
    BY <1>10, <2>3 DEF Ask
<1>11. CASE TrialPasses
  BY <1>11 DEF TrialPasses
<1>12. CASE TimeUp
  BY <1>0, <1>12 DEF TimeUp, MarkBad
<1>13. CASE GoBack
  BY <1>13 DEF GoBack
<1>14. CASE AskPlain
  BY <1>14 DEF AskPlain
<1> QED
  BY <1>1, <1>2, <1>3, <1>4, <1>5, <1>6, <1>7, <1>8, <1>9, <1>10, <1>11, <1>12, <1>13, <1>14
  DEF Updater

\* The supervisor starts and ends processes and notes what it has done.
LEMMA SupervisorTypes == TypeOK /\ (Supervisor \/ Care) => TypeOK'
<1> SUFFICES ASSUME TypeOK, Supervisor \/ Care PROVE TypeOK'
  OBVIOUS
<1>1. StartedIsTyped!2
  BY StartedIsTyped
<1> USE <1>1 DEF TypeOK, updater, supervisor, processes, SupervisorOnly
<1>2. \A s \in Slots : Other(s) \in Slots
  BY DEF Slots, Other
<1>3. CASE Boot
  BY <1>3 DEF Boot
<1>4. CASE ServePlain
  BY <1>4 DEF ServePlain, RestartKiosk
<1>5. CASE ServeOverlap
  BY <1>2, <1>5 DEF ServeOverlap
<1>6. CASE OverlapEnds
  BY <1>2, <1>6 DEF OverlapEnds
<1>7. CASE OverlapFails
  BY <1>7 DEF OverlapFails, RestartKiosk
<1>8. CASE SeeRelease
  BY <1>8 DEF SeeRelease
<1>9. CASE RestartComponents
  <2>1. /\ UNCHANGED <<request, slot, sup, want, last, copy>> /\ before' = None
        /\ SupervisorOnly
    BY <1>9 DEF RestartComponents
  <2>2. \/ UNCHANGED <<worker, at, rel, scars>>
        \/ /\ worker' = NewWorker /\ at' \in {"start", "off"} /\ rel' = None
           /\ scars' \subseteq scars \cup Lost
    BY <1>9 DEF RestartComponents
  <2>3. Lost \subseteq {"etag"}
    BY DEF Lost
  <2>4. /\ scars' \subseteq {"etag", "trial", "young", "worker"}
        /\ {want, last, before, worker}' \subseteq Releases \cup {None}
    BY <2>1, <2>2, <2>3
  <2>5. rel' \in Releases \cup {None}
    BY <2>2
  <2>6. at' \in {"off", "start", "sleep", "prune", "stage", "test", "same", "banner",
                "ask", "trial", "back", "plain"}
    BY <2>2
  <2> QED
    BY <2>1, <2>4, <2>5, <2>6
<1>10. CASE Care
  <2>1. CASE RestartKiosk /\ UNCHANGED <<worker, updater, scars>>
    BY <1>10, <2>1 DEF Care, RestartKiosk
  <2>2. CASE worker' = NewWorker /\ scars' = scars \ {"worker"} /\ UNCHANGED <<copy, slot, updater>>
    BY <1>10, <2>2 DEF Care
  <2>3. CASE at' = "start" /\ rel' = None /\ UNCHANGED <<copy, slot, worker, scars>>
    BY <1>10, <2>3 DEF Care
  <2> QED
    BY <1>10, <2>1, <2>2, <2>3 DEF Care
<1> QED
  BY <1>3, <1>4, <1>5, <1>6, <1>7, <1>8, <1>9, <1>10 DEF Supervisor

\* Kiosks, publications and accidents keep the types.
LEMMA WorldTypes ==
  ASSUME TypeOK,
         \/ Accident
         \/ \E r \in Releases : Publish(r)
         \/ \E s \in Slots : KioskDraws(s)
  PROVE  TypeOK'
<1> USE DEF TypeOK, card, updater, supervisor, processes
<1>1. ASSUME NEW r \in Releases, Publish(r) PROVE TypeOK'
  BY <1>1 DEF Publish
<1>2. ASSUME NEW s \in Slots, KioskDraws(s) PROVE TypeOK'
  <2>1. copy[s] \in Kiosk
    BY <1>2, NoneIsNoRelease, DrawsAndPasses DEF KioskDraws, NoCopy
  <2>2. [copy[s] EXCEPT !.draws = TRUE] \in Kiosk
    BY <2>1 DEF Kiosk
  <2> QED
    BY <1>2, <2>2 DEF KioskDraws
<1>3. ASSUME NEW s \in Slots, KioskDies(s) PROVE TypeOK'
  BY <1>3 DEF KioskDies
<1>4. CASE WorkerDies
  BY <1>4 DEF WorkerDies
<1>5. CASE UpdaterDies
  BY <1>5 DEF UpdaterDies, Lost, Unjudged
<1>6. CASE Cut
  BY <1>6, StartedIsTyped DEF Cut, Lost, Unjudged
<1> QED
  BY <1>1, <1>2, <1>3, <1>4, <1>5, <1>6 DEF Accident

\* The updater begins what it begins with a release that is whole under `current`,
\* and it switches to one that is not current; what was current stays on the card.
LEMMA UpdaterLeavesAWay ==
  WayInv /\ Updater => Standing' /\ Working' /\ WayBackIsThere'
<1> SUFFICES ASSUME WayInv, Updater PROVE Standing' /\ Working' /\ WayBackIsThere'
  OBVIOUS
<1> USE NoneIsNoRelease
    DEF WayInv, TypeOK, Standing, Working, WayBackIsThere, updater, UpdaterOnly
<1>1. CASE UpdaterStarts
  BY <1>1 DEF UpdaterStarts
<1>2. CASE Fetch
  BY <1>2 DEF Fetch
<1>3. CASE Prune
  <2>1. dir'[current] = dir[current]
    BY <1>3 DEF Prune, Doomed
  <2> QED
    BY <1>3, <2>1 DEF Prune
<1>4. CASE Stage
  BY <1>4 DEF Stage
<1>5. CASE StageRefuses
  BY <1>5 DEF StageRefuses
<1>6. CASE Test
  BY <1>6 DEF Test
<1>7. CASE SwitchSame
  BY <1>7 DEF SwitchSame
<1>8. CASE Banner
  BY <1>8 DEF Banner
<1>9. CASE Link
  BY <1>9 DEF Link
<1>10. CASE Ask
  BY <1>10 DEF Ask
<1>11. CASE TrialPasses
  BY <1>11 DEF TrialPasses
<1>12. CASE TimeUp
  BY <1>12 DEF TimeUp
<1>13. CASE GoBack
  BY <1>13 DEF GoBack
<1>14. CASE AskPlain
  BY <1>14 DEF AskPlain
<1> QED
  BY <1>1, <1>2, <1>3, <1>4, <1>5, <1>6, <1>7, <1>8, <1>9, <1>10, <1>11, <1>12, <1>13, <1>14
  DEF Updater

\* Nobody else touches links and directories, besides a cut of the power, and
\* whoever starts an updater starts it from a release that is whole.
LEMMA OthersLeaveAWay ==
  WayInv /\ [Next]_vars /\ ~Updater => Standing' /\ Working' /\ WayBackIsThere'
<1> SUFFICES ASSUME WayInv, [Next]_vars, ~Updater
             PROVE  Standing' /\ Working' /\ WayBackIsThere'
  OBVIOUS
<1>1. \/ UNCHANGED <<current, previous, dir>> /\ UNCHANGED <<at, rel>>
      \/ UNCHANGED <<current, previous, dir>> /\ at' = "off"
      \/ UNCHANGED <<current, previous, dir>> /\ at' = "start" /\ dir[current] = "whole"
      \/ at' = "off"
  <2> USE DEF card, updater, SupervisorOnly
  <2>1. CASE \E r \in Releases : Publish(r)
    BY <2>1 DEF Publish
  <2>2. CASE Supervisor
    BY <2>2 DEF Supervisor, Boot, ServePlain, ServeOverlap, OverlapEnds, OverlapFails,
                SeeRelease, RestartComponents, Runnable
  <2>3. CASE Care
    BY <2>3 DEF Care, Runnable
  <2>4. CASE \E s \in Slots : KioskDraws(s) \/ KioskDies(s)
    BY <2>4 DEF KioskDraws, KioskDies
  <2>5. CASE WorkerDies \/ UpdaterDies \/ Cut
    BY <2>5 DEF WorkerDies, UpdaterDies, Cut
  <2>6. CASE UNCHANGED vars
    BY <2>6 DEF vars
  <2> QED
    BY <2>1, <2>2, <2>3, <2>4, <2>5, <2>6 DEF Next, Routine, Accident
<1> QED
  BY <1>1 DEF WayInv, Standing, Working, WayBackIsThere

\* The invariant is kept by every step.
LEMMA StepWay == WayInv /\ [Next]_vars => WayInv'
<1> SUFFICES ASSUME WayInv, [Next]_vars PROVE WayInv'
  OBVIOUS
<1>1. TypeOK'
  <2>1. CASE UNCHANGED vars
    BY <2>1 DEF WayInv, TypeOK, vars, card, updater, supervisor, processes
  <2> QED
    BY <2>1, UpdaterTypes, SupervisorTypes, WorldTypes DEF WayInv, Next, Routine
<1> QED
  BY <1>1, UpdaterLeavesAWay, OthersLeaveAWay DEF WayInv

\* What is on the card, the updater, the supervisor and the processes keep their
\* types (ReleaseUpdate!TypeOK).
THEOREM TypeCorrect == Spec => []TypeOK
<1>1. WayInv => TypeOK
  BY DEF WayInv
<1> QED
  BY <1>1, InitWay, StepWay, PTL DEF Spec, Safety

\* While a release is on trial the one before it is whole on the card, whatever is
\* published, pruned, restarted or cut off meanwhile (updater.sh:78-97, 286-340).
THEOREM WayBackStands == Spec => []WayBackIsThere
<1>1. WayInv => WayBackIsThere
  BY DEF WayInv
<1> QED
  BY <1>1, InitWay, StepWay, PTL DEF Spec, Safety

-----------------------------------------------------------------------------
(***************************************************************************)
(* The player hears of every step of the parcel, whatever orders there     *)
(* are and whoever writes them.                                            *)
(*                                                                         *)
(* Every write of a status writes the event and the notice with it, so     *)
(* only the types are missing to an inductive invariant: the carrier's     *)
(* word is written only when it is a status (Known), and an order that     *)
(* does not exist has the status "none" in all three places.               *)
(***************************************************************************)
\* One order goes on: it gets its row, its event, its notice and its count.
LEMMA OneIsTold ==
  ASSUME Parcel!Told, NEW o \in OrderIds,
         NEW row \in Parcel!Row,
         order' = [order EXCEPT ![o] = row],
         lastEvent' = [lastEvent EXCEPT ![o] = row.status], lastTold' = [lastTold EXCEPT ![o] = row.status],
         printReady' = [printReady EXCEPT ![o] = IF row.key THEN 1 ELSE 0]
  PROVE  Parcel!Told'
<1>1. row.status \in Parcel!OrderStatus
  BY DEF Parcel!Row
<1>2. \A p \in OrderIds :
        /\ order'[p] = (IF p = o THEN row ELSE order[p])
        /\ lastEvent'[p] = (IF p = o THEN row.status ELSE lastEvent[p])
        /\ lastTold'[p] = (IF p = o THEN row.status ELSE lastTold[p])
        /\ printReady'[p] = (IF p = o THEN IF row.key THEN 1 ELSE 0 ELSE printReady[p])
  BY DEF Parcel!Told
<1>3. Parcel!EveryoneIsTold'
  BY <1>2 DEF Parcel!Told, Parcel!EveryoneIsTold
<1> QED
  BY <1>1, <1>3 DEF Parcel!Told, Parcel!Row

LEMMA OrdersTell == Parcel!Told /\ [MCNext]_all => Parcel!Told'
<1> SUFFICES ASSUME Parcel!Told, [MCNext]_all PROVE Parcel!Told'
  OBVIOUS
<1>1. CASE UNCHANGED orders
  BY <1>1 DEF orders, Parcel!Told, Parcel!EveryoneIsTold
<1> SUFFICES ASSUME Parcel!Next PROVE Parcel!Told'
  BY <1>1 DEF MCNext, all, Updating, LoggingIn, Linking, Drawing, Ordering, Uploading, Analysing
<1>2. \A o \in OrderIds :
        /\ order[o] \in Parcel!Row /\ lastEvent[o] = order[o].status /\ lastTold[o] = order[o].status
        /\ printReady[o] = IF order[o].key THEN 1 ELSE 0
  BY DEF Parcel!Told, Parcel!EveryoneIsTold
<1>3. ASSUME NEW o \in OrderIds, Parcel!PlaceOrder(o) PROVE Parcel!Told'
  <2> DEFINE row == [order[o] EXCEPT !.status = "new"]
  <2>1. row \in Parcel!Row /\ row.status = "new" /\ row.key = order[o].key
    BY <1>2 DEF Parcel!Row, Parcel!OrderStatus, Parcel!Statuses
  <2>2. /\ order' = [order EXCEPT ![o] = row]
        /\ lastEvent' = [lastEvent EXCEPT ![o] = "new"] /\ lastTold' = [lastTold EXCEPT ![o] = "new"] /\ printReady' = printReady
    BY <1>3 DEF Parcel!PlaceOrder, Parcel!Write, Parcel!Told
  <2>3. printReady' = [printReady EXCEPT ![o] = IF row.key THEN 1 ELSE 0]
    BY <1>2, <2>1, <2>2 DEF Parcel!Told
  <2> HIDE DEF row
  <2> QED
    BY <2>1, <2>2, <2>3, OneIsTold
<1>4. ASSUME NEW o \in OrderIds, NEW n \in Posts, Parcel!RecordPrint(o, n) PROVE Parcel!Told'
  <2>1. CASE Parcel!KeepsKey(o)
    <3> DEFINE row == [order[o] EXCEPT !.key = TRUE]
    <3>1. row \in Parcel!Row /\ row.status = order[o].status /\ row.key /\ printReady[o] = 0
      BY <1>2, <2>1 DEF Parcel!Row, Parcel!KeepsKey
    <3>2. /\ order' = [order EXCEPT ![o] = row] /\ UNCHANGED <<lastEvent, lastTold>>
          /\ printReady' = [printReady EXCEPT ![o] = printReady[o] + 1]
      BY <1>4, <2>1 DEF Parcel!RecordPrint, Parcel!Told
    <3> HIDE DEF row
    <3>3. /\ lastEvent' = [lastEvent EXCEPT ![o] = row.status] /\ lastTold' = [lastTold EXCEPT ![o] = row.status]
          /\ printReady' = [printReady EXCEPT ![o] = IF row.key THEN 1 ELSE 0]
      BY <1>2, <3>1, <3>2 DEF Parcel!Told
    <3> QED
      BY <3>1, <3>2, <3>3, OneIsTold
  <2>2. CASE ~Parcel!KeepsKey(o)
    BY <1>4, <2>2 DEF Parcel!RecordPrint, Parcel!Told, Parcel!EveryoneIsTold
  <2> QED
    BY <2>1, <2>2
<1>5. ASSUME NEW o \in OrderIds, NEW s \in AdminStatuses, NEW t \in BOOLEAN,
             Parcel!AdminSets(o, s, t)
      PROVE  Parcel!Told'
  <2> DEFINE row == [order[o] EXCEPT !.status = s, !.ttn = @ \/ t]
  <2>1. row \in Parcel!Row /\ row.status = s /\ row.key = order[o].key
    BY <1>2, OrdersAreSound DEF Parcel!Row, Parcel!OrderStatus, Parcel!ConstantsAreSound
  <2>2. /\ order' = [order EXCEPT ![o] = row]
        /\ lastEvent' = [lastEvent EXCEPT ![o] = s] /\ printReady' = printReady
        /\ lastTold' = [lastTold EXCEPT ![o] = s] \/ (lastTold' = lastTold /\ order[o].status = s)
    BY <1>5 DEF Parcel!AdminSets, Parcel!Write, Parcel!Told
  <2> HIDE DEF row
  <2>3. lastTold' = [lastTold EXCEPT ![o] = s] /\ printReady' = [printReady EXCEPT ![o] = IF row.key THEN 1 ELSE 0]
    BY <1>2, <2>1, <2>2 DEF Parcel!Told
  <2> QED
    BY <2>1, <2>2, <2>3, OneIsTold
<1>6. ASSUME NEW o \in OrderIds, Parcel!WriteItem(o) PROVE Parcel!Told'
  <2> DEFINE s == pass.code[o]
             row == [order[o] EXCEPT !.status = s]
  <2>1. s \in Parcel!OrderStatus
    BY <1>6 DEF Parcel!WriteItem, Parcel!MovesOn, Parcel!Known, Parcel!OrderStatus, Parcel!Statuses,
                Parcel!Finished
  <2>2. /\ order' = [order EXCEPT ![o] = row]
        /\ lastEvent' = [lastEvent EXCEPT ![o] = s] /\ lastTold' = [lastTold EXCEPT ![o] = s] /\ printReady' = printReady
    BY <1>6 DEF Parcel!WriteItem, Parcel!Write, Parcel!JobOnly, Parcel!Told
  <2> HIDE DEF s
  <2>3. row \in Parcel!Row /\ row.status = s /\ row.key = order[o].key
    BY <1>2, <2>1 DEF Parcel!Row
  <2> HIDE DEF row
  <2>4. printReady' = [printReady EXCEPT ![o] = IF row.key THEN 1 ELSE 0]
    BY <1>2, <2>2, <2>3 DEF Parcel!Told
  <2> QED
    BY <2>2, <2>3, <2>4, OneIsTold
<1>7. ASSUME UNCHANGED <<order, lastEvent, lastTold, printReady>> PROVE Parcel!Told'
  BY <1>7 DEF Parcel!Told, Parcel!EveryoneIsTold
<1> QED
  BY <1>3, <1>4, <1>5, <1>6, <1>7
     DEF Parcel!Next, Parcel!PassBegins, Parcel!CarrierAnswers, Parcel!CarrierFails, Parcel!NoWrite,
         Parcel!JobOnly, Parcel!UploadPrint, Parcel!HeadPrint, Parcel!ParcelMoves, Parcel!SkipItem,
         Parcel!ItemFails

\* Whoever writes last, an admin or a tracking pass that read the order long before: the
\* history and the last notice tell the status the order has, and the owner is told of a print
\* exactly once (admin-ops.js:752, delivery.js:275-286, novaposhta.js:111-163).
THEOREM PlayerHearsOfOrders == JobsSpec => []EveryoneIsTold
<1>1. JobsInit => Parcel!Told
  BY DEF JobsInit, MCInit, Parcel!Init, Parcel!NoOrder, Parcel!Told, Parcel!Row, Parcel!OrderStatus,
         Parcel!EveryoneIsTold
<1>2. Parcel!Told => EveryoneIsTold
  BY DEF Parcel!Told, EveryoneIsTold
<1> QED
  BY <1>1, <1>2, OrdersTell, PTL DEF JobsSpec

-----------------------------------------------------------------------------
(***************************************************************************)
(* A point that is cut off says so in time, whatever the limits are and    *)
(* whatever the network and the server do (LinkInv of KioskLink).          *)
(***************************************************************************)
LEMMA ThreadKeepsLink == Socket!LinkInv /\ Socket!Thread => Socket!LinkInv'
<1> SUFFICES ASSUME Socket!LinkInv, Socket!Thread PROVE Socket!LinkInv'
  OBVIOUS
<1> USE LinkIsSound DEF Socket!ConstantsAreSound, Socket!LinkInv, Socket!Online, Socket!Hears,
                        Socket!screen
<1>0. ASSUME NEW code, Socket!Ends(code) PROVE socket' = "pause" /\ silent' = 0 /\ question' = 0
  BY <1>0 DEF Socket!Ends
<1>1. CASE Socket!Connect
  <2>1. ASSUME cable, server = "up" PROVE Socket!LinkInv'
    <3>1. /\ socket' = "asking" /\ silent' = 0 /\ question' = 0 /\ downFor' = 0
          /\ UNCHANGED <<cable, valid, updating>> /\ ~banner' /\ banner' \in BOOLEAN
          /\ room' = valid /\ deaf' = IF valid THEN 0 ELSE deaf
      BY <1>1, <2>1 DEF Socket!Connect
    <3>2. CASE valid
      BY <3>1, <3>2
    <3>3. CASE ~valid
      BY <3>1, <3>3
    <3> QED
      BY <3>2, <3>3
  <2>3. CASE ~(cable /\ server = "up")
    BY <1>0, <1>1, <2>3 DEF Socket!Connect
  <2> QED
    BY <2>1, <2>3
<1>2. CASE Socket!Asked
  BY <1>2 DEF Socket!Asked
<1>3. CASE Socket!Closed
  BY <1>0, <1>3 DEF Socket!Closed
<1>4. CASE Socket!Ping
  BY <1>4 DEF Socket!Ping, Socket!PingDue
<1>5. CASE Socket!Idle
  <2>1. /\ socket' = "pause" /\ silent' = 0 /\ question' = 0 /\ ~room' /\ room' \in BOOLEAN
        /\ UNCHANGED <<cable, valid, deaf, downFor, banner, updating>> /\ socket = "open"
    BY <1>0, <1>5 DEF Socket!Idle, Socket!TooSilent
  <2> QED
    BY <2>1
<1> QED
  BY <1>1, <1>2, <1>3, <1>4, <1>5 DEF Socket!Thread

LEMMA TickKeepsLink == Socket!LinkInv /\ Socket!Tick => Socket!LinkInv'
<1> SUFFICES ASSUME Socket!LinkInv, Socket!Tick PROVE Socket!LinkInv'
  OBVIOUS
<1> USE LinkIsSound DEF Socket!ConstantsAreSound, Socket!LinkInv, Socket!Online, Socket!Hears,
                        Socket!Tick, Socket!Urgent, Socket!TooSilent, Socket!PingDue, Socket!Up,
                        Socket!DownNow, Socket!Told
<1>1. CASE socket = "pause"
  <2>1. banner' \in BOOLEAN /\ (banner' <=> Socket!DownNow > Grace /\ ~updating)
    BY Zenon
  <2>2. downFor' = Socket!DownNow /\ UNCHANGED <<cable, room, socket, valid, updating>>
    OBVIOUS
  <2> QED
    BY <1>1, <2>1, <2>2
<1>2. CASE socket = "asking"
  BY <1>2
<1>3. CASE socket = "open"
  BY <1>3
<1> QED
  BY <1>1, <1>2, <1>3

LEMMA WorldKeepsLink == Socket!LinkInv /\ Socket!World => Socket!LinkInv'
<1> SUFFICES ASSUME Socket!LinkInv, Socket!World PROVE Socket!LinkInv'
  OBVIOUS
<1> USE LinkIsSound DEF Socket!ConstantsAreSound, Socket!LinkInv, Socket!Online, Socket!Hears
<1>1. CASE Socket!Updates
  <2>1. (banner' <=> downFor > Grace /\ updating) /\ (updating' <=> ~updating)
    BY <1>1, Zenon DEF Socket!Updates
  <2>2. banner' \in BOOLEAN /\ updating' \in BOOLEAN
    BY <1>1, Zenon DEF Socket!Updates
  <2>3. UNCHANGED <<cable, room, valid, downFor, deaf, socket, silent, question>>
    BY <1>1 DEF Socket!Updates, Socket!client
  <2> QED
    BY <2>1, <2>2, <2>3
<1>2. CASE ~Socket!Updates
  <2>1. /\ deaf' = IF valid' # valid \/ (cable' /\ room') THEN 0 ELSE deaf
        /\ UNCHANGED <<socket, silent, question, downFor, banner, updating>>
    BY <1>2 DEF Socket!World, Socket!client, Socket!screen
  <2>2. /\ cable' \in BOOLEAN /\ room' \in BOOLEAN /\ valid' \in BOOLEAN
    BY <1>2 DEF Socket!World, Socket!Pull, Socket!Plug, Socket!Leaves, Socket!Dies, Socket!Starts,
                Socket!TokenChanges
  <2> QED
    BY <2>1, <2>2
<1> QED
  BY <1>1, <1>2

LEMMA LinkStays == Socket!LinkInv /\ [MCNext]_all => Socket!LinkInv'
<1>1. Socket!LinkInv /\ UNCHANGED link => Socket!LinkInv'
  BY DEF link, Socket!LinkInv, Socket!Online, Socket!Hears
<1> QED
  BY <1>1, ThreadKeepsLink, TickKeepsLink, WorldKeepsLink
     DEF Socket!Next, MCNext, all, Updating, LoggingIn, Linking, Drawing, Ordering, Uploading,
         Analysing

LEMMA LinkInvIsHonest == Socket!LinkInv => Socket!LinkIsHonest
BY LinkIsSound DEF Socket!ConstantsAreSound, Socket!LinkInv, Socket!Online, Socket!LinkIsHonest,
   Socket!DeafIsTold, Socket!NoFalseAlarm, Socket!Told

LEMMA LinkBegins == Socket!Init => Socket!LinkInv
<1> SUFFICES ASSUME Socket!Init PROVE Socket!LinkInv
  OBVIOUS
<1>1. /\ socket = "pause" /\ cable \in BOOLEAN /\ room \in BOOLEAN /\ ~room
      /\ valid \in BOOLEAN /\ banner \in BOOLEAN /\ ~banner /\ updating \in BOOLEAN
      /\ silent = 0 /\ question = 0 /\ downFor = 0 /\ deaf = 0
  BY DEF Socket!Init
<1> QED
  BY <1>1, LinkIsSound DEF Socket!ConstantsAreSound, Socket!LinkInv, Socket!Online, Socket!Hears

-----------------------------------------------------------------------------
(***************************************************************************)
(* Nobody is let in, and nobody is told of a refusal or an end, but by what *)
(* became of a letter, whatever is lost, left, opened twice and late.      *)
(*                                                                         *)
(* An answer on its way is true of its letter when it is given             *)
(* (AnswersAreTrue); it is heard long after, and is true still since a     *)
(* letter goes on in one direction only (GoesOn).                          *)
(***************************************************************************)
LetterRow == [state : Letter!States, claimed : BOOLEAN, old : BOOLEAN]
GoesOn ==
  \A l \in Letters :
    /\ login[l].state \in {"approved", "rejected"} => login'[l].state = login[l].state
    /\ login[l].claimed => login'[l].claimed
    /\ login[l].old => login'[l].old

\* What every step does to the letters: one of them goes on, or none.
LEMMA LetterGoesOn ==
  ASSUME Letter!LoginInv, NEW m \in Letters, NEW row \in LetterRow,
         login' = [login EXCEPT ![m] = row],
         login[m].state \in {"approved", "rejected"} => row.state = login[m].state,
         login[m].claimed => row.claimed, login[m].old => row.old,
         row.claimed => row.state = "approved"
  PROVE  /\ login' \in [Letters -> LetterRow]
         /\ \A l \in Letters : login'[l].claimed => login'[l].state = "approved"
         /\ GoesOn
<1>1. \A l \in Letters : login'[l] = IF l = m THEN row ELSE login[l]
  BY DEF Letter!LoginInv, Letter!Typed, LetterRow
<1>2. login' \in [Letters -> LetterRow]
  BY DEF Letter!LoginInv, Letter!Typed, LetterRow
<1>3. \A l \in Letters : login[l].claimed => login[l].state = "approved"
  BY DEF Letter!LoginInv, Letter!LoginIsHonest
<1> QED
  BY <1>1, <1>2, <1>3 DEF GoesOn

LEMMA LettersGoOn ==
  ASSUME Letter!LoginInv, Letter!Next
  PROVE  /\ login' \in [Letters -> LetterRow]
         /\ \A l \in Letters : login'[l].claimed => login'[l].state = "approved"
         /\ GoesOn
<1> DEFINE Goal == /\ login' \in [Letters -> LetterRow]
                   /\ \A l \in Letters : login'[l].claimed => login'[l].state = "approved"
                   /\ GoesOn
<1> SUFFICES Goal
  OBVIOUS
<1>1. /\ login \in [Letters -> LetterRow]
      /\ \A l \in Letters : login[l].claimed => login[l].state = "approved"
      /\ \A c \in Calls : call[c].at # "free" => call[c].letter \in Letters
  BY DEF Letter!LoginInv, Letter!Typed, Letter!LoginIsHonest, Letter!AnswersAreTrue, LetterRow
<1>2. ASSUME UNCHANGED login PROVE Goal
  BY <1>1, <1>2 DEF GoesOn
<1>3. ASSUME NEW l \in Letters, NEW s \in Letter!States,
             login' = [login EXCEPT ![l].state = s], login[l].state \in {"none", "open"}
      PROVE  Goal
  <2> DEFINE row == [login[l] EXCEPT !.state = s]
  <2>1. /\ row \in LetterRow /\ row.state = s /\ row.claimed = login[l].claimed
        /\ row.old = login[l].old /\ login[l].state \notin {"approved", "rejected"}
        /\ ~login[l].claimed
    BY <1>1, <1>3 DEF LetterRow
  <2>2. login' = [login EXCEPT ![l] = row]
    BY <1>3
  <2> HIDE DEF row
  <2> QED
    BY <2>1, <2>2, LetterGoesOn
<1>4. ASSUME NEW l \in Letters, Letter!GrowOld(l) PROVE Goal
  <2> DEFINE row == [login[l] EXCEPT !.old = TRUE]
  <2>1. /\ row \in LetterRow /\ row.state = login[l].state /\ row.claimed = login[l].claimed
        /\ row.old
    BY <1>1 DEF LetterRow
  <2>2. login' = [login EXCEPT ![l] = row]
    BY <1>4 DEF Letter!GrowOld
  <2> HIDE DEF row
  <2> QED
    BY <1>1, <2>1, <2>2, LetterGoesOn
<1>5. ASSUME NEW c \in Calls, Letter!Claim(c) PROVE Goal
  <2> DEFINE l == call[c].letter
             row == [login[l] EXCEPT !.claimed = TRUE]
  <2>1. l \in Letters
    BY <1>1, <1>5 DEF Letter!Claim
  <2>2. CASE Letter!Claimable(l)
    <3>1. /\ row \in LetterRow /\ row.state = login[l].state /\ row.claimed /\ row.old = login[l].old
          /\ row.state = "approved"
      BY <1>1, <2>1, <2>2 DEF LetterRow, Letter!Claimable
    <3>2. login' = [login EXCEPT ![l] = row]
      BY <1>5, <2>2 DEF Letter!Claim
    <3> HIDE DEF l, row
    <3> QED
      BY <1>1, <2>1, <3>1, <3>2, LetterGoesOn
  <2>3. CASE ~Letter!Claimable(l)
    BY <1>2, <1>5, <2>3 DEF Letter!Claim
  <2> QED
    BY <2>2, <2>3
<1> HIDE DEF Goal
<1>6. ASSUME NEW l \in Letters, Letter!Mail(l) PROVE Goal
  BY <1>3, <1>6 DEF Letter!Mail, Letter!States
<1>7. ASSUME NEW l \in Letters, Letter!OpenHere(l) \/ Letter!Yes(l) PROVE Goal
  BY <1>2, <1>3, <1>7 DEF Letter!OpenHere, Letter!Yes, Letter!Unspoilt, Letter!States
<1>8. ASSUME NEW l \in Letters, Letter!No(l) PROVE Goal
  <2>1. CASE UNCHANGED login
    BY <1>2, <2>1
  <2>2. CASE login[l].state = "open" /\ ~UNCHANGED login
    BY <1>3, <1>8, <2>2 DEF Letter!No, Letter!States
  <2>3. CASE login[l].state # "open" /\ ~UNCHANGED login
    <3>1. login' = [login EXCEPT ![l].state = login[l].state]
      BY <1>8, <2>3 DEF Letter!No
    <3>2. UNCHANGED login
      BY <1>1, <3>1 DEF LetterRow
    <3> QED
      BY <2>3, <3>2
  <2> QED
    BY <2>1, <2>2, <2>3
<1>9. ASSUME \/ \E l \in Letters : Letter!OpenElsewhere(l)
             \/ \E c \in Calls : Letter!Calling(c) \/ Letter!Look(c) \/ Letter!Answer(c) \/ Letter!Unanswered(c)
             \/ Letter!OpenScreen \/ Letter!Ask \/ Letter!Mailed \/ Letter!NotMailed
             \/ Letter!ChangeMail \/ Letter!Leave \/ Letter!Reload
      PROVE  UNCHANGED login
  BY <1>9 DEF Letter!OpenElsewhere, Letter!Calling, Letter!Look, Letter!Answer, Letter!Unanswered,
     Letter!OpenScreen, Letter!Ask, Letter!Mailed, Letter!NotMailed, Letter!ChangeMail, Letter!Leave,
     Letter!Reload
<1> QED
  BY <1>2, <1>4, <1>5, <1>6, <1>7, <1>8, <1>9 DEF Letter!Next

\* After the step the letters bear out what is said.
BorneOut(what, l) ==
  /\ l \in Letters /\ what # "none"
  /\ what = "in" => login'[l].claimed
  /\ what = "rejected" => login'[l].state = "rejected"
  /\ what = "expired" => login'[l].old \/ login'[l].claimed

\* What is true of a letter stays true while the letters go on.
LEMMA TruthStays ==
  ASSUME GoesOn
  PROVE  /\ \A what, l : Letter!Says(what, l) => BorneOut(what, l)
         /\ \A l \in Letters : login[l].state = "approved" => login'[l].state = "approved"
BY DEF GoesOn, Letter!Says, BorneOut

LEMMA OneCallGoesOn ==
  ASSUME call \in [Calls -> Letter!CallRow], GoesOn, Letter!AnswersAreTrue,
         NEW c \in Calls, NEW row \in Letter!CallRow,
         call' = [call EXCEPT ![c] = row],
         row.at # "free" => row.letter \in Letters,
         row.at = "answer" => BorneOut(row.answer, row.letter)
  PROVE  call' \in [Calls -> Letter!CallRow] /\ Letter!AnswersAreTrue'
<1>1. \A d \in Calls : call'[d] = IF d = c THEN row ELSE call[d]
  OBVIOUS
<1>2. \A d \in Calls :
        /\ call'[d].at # "free" => call'[d].letter \in Letters
        /\ call'[d].at = "answer" => BorneOut(call'[d].answer, call'[d].letter)
  BY <1>1, TruthStays DEF Letter!AnswersAreTrue
<1> QED
  BY <1>2 DEF Letter!AnswersAreTrue, Letter!Says, BorneOut

LEMMA AnswersStayTrue ==
  ASSUME Letter!LoginInv, Letter!Next
  PROVE  call' \in [Calls -> Letter!CallRow] /\ Letter!AnswersAreTrue'
<1> DEFINE Goal == call' \in [Calls -> Letter!CallRow] /\ Letter!AnswersAreTrue'
<1> SUFFICES Goal
  OBVIOUS
<1>1. call \in [Calls -> Letter!CallRow] /\ GoesOn /\ tab \in Letter!TabRow /\ Letter!AnswersAreTrue
  BY LettersGoOn DEF Letter!LoginInv, Letter!Typed
<1>2. \A c \in Calls : /\ call[c] \in Letter!CallRow
                       /\ call[c].at # "free" => call[c].letter \in Letters
                       /\ call[c].at = "answer" => BorneOut(call[c].answer, call[c].letter)
  BY <1>1, TruthStays DEF Letter!AnswersAreTrue
<1>3. ASSUME NEW c \in Calls, NEW l \in Letters, NEW row \in Letter!CallRow,
             call' = [call EXCEPT ![c] = row], row.letter = l,
             row.at = "answer" => BorneOut(row.answer, l)
      PROVE  Goal
  BY <1>1, <1>3, OneCallGoesOn
<1>4. ASSUME NEW c \in Calls, call' = [call EXCEPT ![c] = Letter!Free] PROVE Goal
  <2>1. Letter!Free \in Letter!CallRow /\ Letter!Free.at = "free"
    BY DEF Letter!Free, Letter!CallRow
  <2> QED
    BY <1>1, <1>4, <2>1, OneCallGoesOn
<1>5. ASSUME UNCHANGED call PROVE Goal
  BY <1>1, <1>2, <1>5 DEF Letter!AnswersAreTrue, Letter!Says, BorneOut
<1>6. CASE Letter!Reload
  <2>1. call' \in [Calls -> Letter!CallRow]
    BY <1>2, <1>6 DEF Letter!Reload, Letter!CallRow
  <2>2. \A c \in Calls : /\ call'[c].at = call[c].at /\ call'[c].letter = call[c].letter
                         /\ call'[c].answer = call[c].answer
    BY <1>2, <1>6 DEF Letter!Reload, Letter!CallRow
  <2> QED
    BY <1>2, <2>1, <2>2 DEF Letter!AnswersAreTrue, Letter!Says, BorneOut
<1> HIDE DEF Goal
<1>7. ASSUME NEW c \in Calls, Letter!Calling(c) PROVE Goal
  <2> DEFINE row == [Letter!Free EXCEPT !.at = "claim", !.letter = tab.letter]
  <2>1. row \in Letter!CallRow /\ row.at = "claim" /\ row.letter = tab.letter /\ tab.letter \in Letters
    BY <1>1, <1>7 DEF Letter!Calling, Letter!Free, Letter!CallRow, Letter!TabRow
  <2>2. call' = [call EXCEPT ![c] = row]
    BY <1>7 DEF Letter!Calling
  <2> HIDE DEF row
  <2> QED
    BY <1>3, <2>1, <2>2
\* the request goes on to look, or to claim again
<1>8. ASSUME NEW c \in Calls, NEW where \in {"claim", "look"}, call[c].at # "free",
             call' = [call EXCEPT ![c].at = where]
      PROVE  Goal
  <2> DEFINE row == [call[c] EXCEPT !.at = where]
  <2>1. row \in Letter!CallRow /\ row.at = where /\ row.letter = call[c].letter /\ row.letter \in Letters
    BY <1>2, <1>8 DEF Letter!CallRow
  <2>2. call' = [call EXCEPT ![c] = row]
    BY <1>8
  <2>3. row.at # "answer"
    BY <2>1
  <2> HIDE DEF row
  <2> QED
    BY <1>1, <2>1, <2>2, <2>3, OneCallGoesOn DEF Goal
<1>9. ASSUME NEW c \in Calls, NEW what \in {"in", "pending", "rejected", "expired"},
             call[c].at # "free", Letter!Answers(c, what), BorneOut(what, call[c].letter)
      PROVE  Goal
  <2> DEFINE row == [[call[c] EXCEPT !.at = "answer"] EXCEPT !.answer = what]
  <2>1. row \in Letter!CallRow /\ row.letter = call[c].letter /\ row.letter \in Letters /\ row.answer = what
    BY <1>2, <1>9 DEF Letter!CallRow
  <2>2. call' = [call EXCEPT ![c] = row]
    BY <1>1, <1>9 DEF Letter!Answers
  <2> HIDE DEF row
  <2> QED
    BY <1>3, <1>9, <2>1, <2>2
<1>10. ASSUME NEW c \in Calls, Letter!Claim(c) PROVE Goal
  <2>1. call[c].at = "claim" /\ call[c].letter \in Letters /\ login \in [Letters -> LetterRow]
    BY <1>2, <1>10 DEF Letter!Claim, Letter!LoginInv, Letter!Typed, LetterRow
  <2>2. CASE Letter!Claimable(call[c].letter)
    <3>1. login' = [login EXCEPT ![call[c].letter].claimed = TRUE] /\ Letter!Answers(c, "in")
      BY <1>10, <2>2 DEF Letter!Claim
    <3>2. BorneOut("in", call[c].letter)
      BY <2>1, <3>1 DEF BorneOut, LetterRow
    <3> QED
      BY <1>9, <2>1, <3>1, <3>2
  <2>3. CASE ~Letter!Claimable(call[c].letter)
    BY <1>8, <1>10, <2>1, <2>3 DEF Letter!Claim
  <2> QED
    BY <2>2, <2>3
<1>11. ASSUME NEW c \in Calls, Letter!Look(c) PROVE Goal
  <2>1. call[c].at = "look" /\ call[c].letter \in Letters /\ UNCHANGED login
    BY <1>2, <1>11 DEF Letter!Look
  <2>2. CASE Letter!Answers(c, "pending")
    BY <1>9, <2>1, <2>2 DEF BorneOut
  <2>3. CASE call' = [call EXCEPT ![c].at = "claim"]
    BY <1>8, <2>1, <2>3
  <2>4. CASE Letter!Dead(call[c].letter) /\ login[call[c].letter].state = "rejected"
    BY <1>9, <1>11, <2>1, <2>4 DEF BorneOut, Letter!Look
  <2>5. CASE Letter!Dead(call[c].letter) /\ login[call[c].letter].state # "rejected"
    BY <1>9, <1>11, <2>1, <2>5 DEF BorneOut, Letter!Look, Letter!Dead
  <2> QED
    BY <1>11, <2>2, <2>3, <2>4, <2>5 DEF Letter!Look
<1>12. ASSUME NEW c \in Calls, Letter!Answer(c) \/ Letter!Unanswered(c) PROVE Goal
  BY <1>4, <1>12 DEF Letter!Answer, Letter!Unanswered
<1>13. ASSUME \/ \E l \in Letters : Letter!GrowOld(l) \/ Letter!Mail(l) \/ Letter!OpenHere(l)
                   \/ Letter!OpenElsewhere(l) \/ Letter!Yes(l) \/ Letter!No(l)
              \/ Letter!OpenScreen \/ Letter!Ask \/ Letter!Mailed \/ Letter!NotMailed
              \/ Letter!ChangeMail \/ Letter!Leave
       PROVE  UNCHANGED call
  BY <1>13 DEF Letter!OpenElsewhere, Letter!GrowOld, Letter!Mail, Letter!OpenHere, Letter!Yes,
     Letter!No, Letter!OpenScreen, Letter!Ask, Letter!Mailed, Letter!NotMailed, Letter!ChangeMail,
     Letter!Leave
<1> QED
  BY <1>5, <1>6, <1>7, <1>10, <1>11, <1>12, <1>13 DEF Letter!Next

\* The tab of a screen that is opened, left or in.
LEMMA OpenedTab ==
  ASSUME NEW where \in {"away", "form", "sent", "in"}, NEW l \in Letters \cup {None}
  PROVE  LET opened == [Letter!Away EXCEPT !.at = where, !.letter = l]
         IN  opened \in [at : {"away", "form", "sent", "in"}, letter : Letters \cup {None}, calling : {None}]
             /\ opened.at = where
BY DEF Letter!Away

\* What the tab, the request for a letter and the page of a letter are told.
LEMMA ScreensAreTyped == Letter!LoginInv /\ Letter!Next => Letter!Typed'
<1> SUFFICES ASSUME Letter!LoginInv, Letter!Next PROVE Letter!Typed'
  OBVIOUS
<1> DEFINE Goal ==
      /\ stored' \in Letters \cup {None} /\ tab' \in Letter!TabRow
      /\ told' \in [what : {"nothing", "rejected", "expired"}, letter : Letters \cup {None}]
      /\ told'.what # "nothing" => told'.letter \in Letters
      /\ asked' \in [at : {"none", "asked", "mailed"}, letter : Letters \cup {None}, by : {"tab", "left", "gone"}]
      /\ asked'.at = "mailed" => asked'.letter \in Letters
      /\ page' \in [Letters -> {"none", "here", "ask", "done", "rejected", "expired"}]
      /\ session' \in BOOLEAN
<1>1. /\ login' \in [Letters -> LetterRow] /\ call' \in [Calls -> Letter!CallRow]
      /\ \A c \in Calls : /\ call[c] \in Letter!CallRow
                           /\ call[c].at = "answer" => call[c].letter \in Letters /\ call[c].answer # "none"
  BY LettersGoOn, AnswersStayTrue DEF Letter!LoginInv, Letter!Typed, Letter!AnswersAreTrue, Letter!Says
<1>2. Goal
  <2> USE DEF Letter!LoginInv, Letter!Typed, Letter!TabRow, Letter!Away, Letter!NotTold, Letter!NotAsked
  <2>0. Letter!NotTold \in [what : {"nothing", "rejected", "expired"}, letter : Letters \cup {None}]
    OBVIOUS
  <2>1. CASE Letter!OpenScreen \/ Letter!ChangeMail \/ Letter!Leave \/ Letter!Reload
    <3>1. /\ told' = Letter!NotTold /\ Letter!NotTold.what = "nothing" /\ UNCHANGED <<page, session>>
          /\ stored' \in {stored, None}
      BY <2>1 DEF Letter!OpenScreen, Letter!ChangeMail, Letter!Leave, Letter!Reload
    <3>2. tab' \in Letter!TabRow
      <4>1. Letter!Remembered \in Letters \cup {None}
        BY DEF Letter!Remembered
      <4>2. CASE Letter!OpenScreen
        <5>1. PICK where \in {"form", "sent"} :
                tab' = [Letter!Away EXCEPT !.at = where, !.letter = Letter!Remembered]
          BY <4>2, Zenon DEF Letter!OpenScreen
        <5> QED
          BY <4>1, <5>1, OpenedTab DEF Letter!TabRow
      <4>3. CASE Letter!ChangeMail \/ Letter!Leave \/ Letter!Reload
        BY <4>3 DEF Letter!ChangeMail, Letter!Leave, Letter!Reload
      <4> QED
        BY <2>1, <4>2, <4>3
    <3>3. asked' = asked \/ \E who \in {"left", "gone"} : asked' = [asked EXCEPT !.by = who]
      BY <2>1 DEF Letter!OpenScreen, Letter!ChangeMail, Letter!Leave, Letter!Reload
    <3> QED
      BY <2>0, <3>1, <3>2, <3>3
  <2>2. CASE Letter!Ask \/ Letter!Mailed \/ Letter!NotMailed
    BY <2>2 DEF Letter!Ask, Letter!Mailed, Letter!NotMailed
  <2>3. ASSUME NEW l \in Letters, Letter!Mail(l) PROVE Goal
    BY <2>3 DEF Letter!Mail
  <2>4. ASSUME NEW l \in Letters, Letter!OpenHere(l) \/ Letter!OpenElsewhere(l) \/ Letter!Yes(l) \/ Letter!No(l)
        PROVE  Goal
    BY <2>4 DEF Letter!OpenHere, Letter!OpenElsewhere, Letter!Yes, Letter!No, Letter!Shows
  <2>5. ASSUME NEW c \in Calls, Letter!Calling(c) \/ Letter!Unanswered(c) PROVE Goal
    BY <2>5 DEF Letter!Calling, Letter!Unanswered
  <2>6. ASSUME NEW c \in Calls, Letter!Answer(c) PROVE Goal
    <3>1. session' \in BOOLEAN
      BY <2>6, Zenon DEF Letter!Answer
    <3>2. /\ call[c].answer \in {"in", "pending", "rejected", "expired"} /\ call[c].letter \in Letters
      BY <1>1, <2>6 DEF Letter!Answer, Letter!CallRow
    <3>3. /\ UNCHANGED <<asked, page>> /\ stored' \in {stored, None}
      BY <2>6 DEF Letter!Answer
    <3>4. tab' \in Letter!TabRow
      BY <2>6 DEF Letter!Answer
    <3>5. \/ told' = told
          \/ /\ call[c].answer \notin {"in", "pending"}
             /\ told' = [what |-> call[c].answer, letter |-> call[c].letter]
      BY <2>6, Zenon DEF Letter!Answer
    <3> QED
      BY <3>1, <3>2, <3>3, <3>4, <3>5
  <2>7. ASSUME UNCHANGED <<stored, tab, told, asked, page, session>> PROVE Goal
    BY <2>7
  <2> QED
    BY <2>1, <2>2, <2>3, <2>4, <2>5, <2>6, <2>7 DEF Letter!Next, Letter!GrowOld, Letter!Claim, Letter!Look
<1> QED
  BY <1>1, <1>2 DEF Letter!Typed, LetterRow

LEMMA HonestyStays == Letter!LoginInv /\ Letter!Next => Letter!LoginIsHonest'
<1> SUFFICES ASSUME Letter!LoginInv, Letter!Next PROVE Letter!LoginIsHonest'
  OBVIOUS
<1>1. /\ GoesOn /\ \A l \in Letters : login'[l].claimed => login'[l].state = "approved"
      /\ login' \in [Letters -> LetterRow]
  BY LettersGoOn
<1> DEFINE In == \E l \in Letters : login'[l].state = "approved"
           Heard(t) == /\ t.what = "rejected" => login'[t.letter].state = "rejected"
                       /\ t.what = "expired" => login'[t.letter].old \/ login'[t.letter].claimed
           Done(l) == login'[l].state = "approved"
<1>2. session \/ tab.at = "in" => In
  BY <1>1, TruthStays DEF Letter!LoginInv, Letter!LoginIsHonest
<1>3. Heard(told)
  BY <1>1 DEF Letter!LoginInv, Letter!LoginIsHonest, Letter!Typed, GoesOn
<1>4. \A l \in Letters : page[l] = "done" => Done(l)
  BY <1>1, TruthStays DEF Letter!LoginInv, Letter!LoginIsHonest
<1>5. session' \/ tab'.at = "in" => In
  <2>1. ASSUME NEW l \in Letters, Letter!OpenHere(l) PROVE session' \/ tab'.at = "in" => In
    <3>1. CASE Letter!Unspoilt(l)
      BY <2>1, <3>1 DEF Letter!OpenHere, Letter!LoginInv, Letter!Typed, Letter!States
    <3> QED
      BY <1>2, <2>1, <3>1 DEF Letter!OpenHere
  <2>2. ASSUME NEW c \in Calls, Letter!Answer(c) PROVE session' \/ tab'.at = "in" => In
    <3>1. CASE call[c].answer = "in"
      BY <1>1, <2>2, <3>1, TruthStays DEF Letter!Answer, Letter!LoginInv, Letter!AnswersAreTrue, BorneOut
    <3>2. CASE call[c].answer # "in"
      <4>1. (session' <=> session) /\ (tab'.at = "in" => tab.at = "in")
        BY <2>2, <3>2 DEF Letter!Answer, Letter!Away, Letter!LoginInv, Letter!Typed, Letter!TabRow
      <4> QED
        BY <1>2, <4>1
    <3> QED
      BY <3>1, <3>2
  <2>3. CASE Letter!Reload
    BY <1>2, <2>3 DEF Letter!Reload, Letter!Away
  <2>4. ASSUME UNCHANGED session, tab'.at = "in" => tab.at = "in" PROVE session' \/ tab'.at = "in" => In
    BY <1>2, <2>4
  <2>5. ASSUME \/ \E l \in Letters : Letter!GrowOld(l) \/ Letter!Mail(l)
                     \/ Letter!OpenElsewhere(l) \/ Letter!Yes(l) \/ Letter!No(l)
               \/ \E c \in Calls : Letter!Calling(c) \/ Letter!Claim(c) \/ Letter!Look(c) \/ Letter!Unanswered(c)
               \/ Letter!OpenScreen \/ Letter!Ask \/ Letter!Mailed \/ Letter!NotMailed
               \/ Letter!ChangeMail \/ Letter!Leave
        PROVE  UNCHANGED session /\ (tab'.at = "in" => tab.at = "in")
    <3>1. UNCHANGED session
      BY <2>5 DEF Letter!OpenElsewhere, Letter!GrowOld, Letter!Mail, Letter!Yes, Letter!No, Letter!Claim,
         Letter!Look, Letter!Calling, Letter!Unanswered, Letter!OpenScreen, Letter!Ask, Letter!Mailed,
         Letter!NotMailed, Letter!ChangeMail, Letter!Leave
    <3>2. CASE \/ Letter!OpenScreen \/ Letter!Mailed \/ Letter!ChangeMail \/ Letter!Leave
               \/ \E c \in Calls : Letter!Calling(c) \/ Letter!Unanswered(c)
      <4>1. CASE Letter!OpenScreen \/ Letter!ChangeMail \/ Letter!Leave
        <5>1. CASE Letter!OpenScreen
          <6>1. PICK where \in {"form", "sent"} :
                  tab' = [Letter!Away EXCEPT !.at = where, !.letter = Letter!Remembered]
            BY <5>1, Zenon DEF Letter!OpenScreen
          <6>2. Letter!Remembered \in Letters \cup {None}
            BY DEF Letter!Remembered, Letter!LoginInv, Letter!Typed
          <6>3. tab'.at = where
            BY <6>1, <6>2, OpenedTab
          <6> QED
            BY <3>1, <6>1, <6>3
        <5>2. CASE Letter!ChangeMail \/ Letter!Leave
          BY <5>2 DEF Letter!ChangeMail, Letter!Leave, Letter!Away
        <5> QED
          BY <4>1, <5>1, <5>2
      <4>2. CASE Letter!Mailed
        BY <4>2 DEF Letter!Mailed
      <4>3. CASE \E c \in Calls : Letter!Calling(c) \/ Letter!Unanswered(c)
        BY <4>3 DEF Letter!Calling, Letter!Unanswered, Letter!LoginInv, Letter!Typed, Letter!TabRow
      <4> QED
        BY <3>2, <4>1, <4>2, <4>3
    <3>3. CASE \/ \E l \in Letters : Letter!GrowOld(l) \/ Letter!Mail(l)
                     \/ Letter!OpenElsewhere(l) \/ Letter!Yes(l) \/ Letter!No(l)
               \/ \E c \in Calls : Letter!Claim(c) \/ Letter!Look(c)
               \/ Letter!Ask \/ Letter!NotMailed
      BY <3>3 DEF Letter!OpenElsewhere, Letter!GrowOld, Letter!Mail, Letter!Yes, Letter!No, Letter!Claim,
         Letter!Look, Letter!Ask, Letter!NotMailed
    <3> QED
      BY <2>5, <3>1, <3>2, <3>3
  <2> QED
    BY <2>1, <2>2, <2>3, <2>4, <2>5 DEF Letter!Next
<1>6. Heard(told')
  <2>1. ASSUME NEW c \in Calls, Letter!Answer(c) PROVE Heard(told')
    <3>1. CASE told' = told
      BY <1>3, <3>1
    <3>2. CASE told' # told
      <4>1. /\ told' = [what |-> call[c].answer, letter |-> call[c].letter]
            /\ BorneOut(call[c].answer, call[c].letter)
        BY <1>1, <2>1, <3>2, TruthStays DEF Letter!Answer, Letter!LoginInv, Letter!AnswersAreTrue
      <4> QED
        BY <4>1 DEF BorneOut
    <3> QED
      BY <3>1, <3>2
  <2>2. ASSUME \A c \in Calls : ~Letter!Answer(c) PROVE told' \in {told, Letter!NotTold}
    BY <2>2 DEF Letter!Next, Letter!OpenElsewhere, Letter!GrowOld, Letter!Mail, Letter!Yes, Letter!No,
       Letter!OpenHere, Letter!Claim, Letter!Look, Letter!Calling, Letter!Unanswered, Letter!OpenScreen,
       Letter!Ask, Letter!Mailed, Letter!NotMailed, Letter!ChangeMail, Letter!Leave, Letter!Reload
  <2>3. Heard(Letter!NotTold)
    BY DEF Letter!NotTold
  <2> QED
    BY <1>3, <2>1, <2>2, <2>3
<1>7. \A l \in Letters : page'[l] = "done" => Done(l)
  <2>1. ASSUME NEW l \in Letters, NEW what \in {"here", "ask", "done", "rejected", "expired"},
               Letter!Shows(l, what), what = "done" => Done(l)
        PROVE  \A m \in Letters : page'[m] = "done" => Done(m)
    BY <1>4, <2>1 DEF Letter!Shows, Letter!LoginInv, Letter!Typed
  <2>2. ASSUME NEW l \in Letters, Letter!Yes(l) PROVE \A m \in Letters : page'[m] = "done" => Done(m)
    <3>1. CASE Letter!Shows(l, "expired")
      BY <2>1, <3>1
    <3>2. CASE Letter!Shows(l, "done") /\ Letter!Unspoilt(l)
      <4>1. Done(l)
        BY <2>2, <3>2 DEF Letter!Yes, Letter!LoginInv, Letter!Typed
      <4> QED
        BY <2>1, <3>2, <4>1
    <3> QED
      BY <2>2, <3>1, <3>2 DEF Letter!Yes
  <2>3. ASSUME NEW l \in Letters, Letter!OpenHere(l) \/ Letter!OpenElsewhere(l) \/ Letter!No(l)
        PROVE  \E what \in {"here", "ask", "rejected", "expired"} : Letter!Shows(l, what)
    BY <2>3 DEF Letter!OpenHere, Letter!OpenElsewhere, Letter!No
  <2>4. ASSUME \/ \E l \in Letters : Letter!GrowOld(l) \/ Letter!Mail(l)
               \/ \E c \in Calls : Letter!Calling(c) \/ Letter!Claim(c) \/ Letter!Look(c) \/ Letter!Answer(c)
                                      \/ Letter!Unanswered(c)
               \/ Letter!OpenScreen \/ Letter!Ask \/ Letter!Mailed \/ Letter!NotMailed
               \/ Letter!ChangeMail \/ Letter!Leave \/ Letter!Reload
        PROVE  UNCHANGED page
    BY <2>4 DEF Letter!GrowOld, Letter!Mail, Letter!Claim, Letter!Look, Letter!Calling, Letter!Unanswered,
       Letter!Answer, Letter!OpenScreen, Letter!Ask, Letter!Mailed, Letter!NotMailed, Letter!ChangeMail,
       Letter!Leave, Letter!Reload
  <2> QED
    BY <1>4, <2>1, <2>2, <2>3, <2>4 DEF Letter!Next
<1> QED
  BY <1>1, <1>5, <1>6, <1>7 DEF Letter!LoginIsHonest

LEMMA LettersStay == Letter!LoginInv /\ [MCNext]_all => Letter!LoginInv'
<1>1. Letter!LoginInv /\ UNCHANGED letter => Letter!LoginInv'
  BY DEF letter, Letter!LoginInv, Letter!Typed, Letter!AnswersAreTrue, Letter!Says, Letter!LoginIsHonest
<1>2. Letter!LoginInv /\ Letter!Next => Letter!LoginInv'
  BY AnswersStayTrue, ScreensAreTyped, HonestyStays DEF Letter!LoginInv
<1> QED
  BY <1>1, <1>2 DEF MCNext, all, Updating, LoggingIn, Linking, Drawing, Ordering, Uploading, Analysing

LEMMA LettersBegin == Letter!Init => Letter!LoginInv
<1> SUFFICES ASSUME Letter!Init PROVE Letter!LoginInv
  OBVIOUS
<1>1. /\ \A l \in Letters : login[l].state = "none" /\ ~login[l].claimed /\ page[l] = "none"
      /\ \A c \in Calls : call[c].at = "free"
      /\ session = FALSE /\ tab.at = "away" /\ told.what = "nothing" /\ asked.at = "none"
  BY DEF Letter!Init, Letter!Free, Letter!Away, Letter!NotAsked, Letter!NotTold
<1>2. /\ login \in [Letters -> [state : Letter!States, claimed : BOOLEAN, old : BOOLEAN]]
      /\ call \in [Calls -> Letter!CallRow]
      /\ page \in [Letters -> {"none", "here", "ask", "done", "rejected", "expired"}]
  BY DEF Letter!Init, Letter!Free, Letter!CallRow, Letter!States
<1>3. /\ tab \in Letter!TabRow /\ stored \in Letters \cup {None}
      /\ told \in [what : {"nothing", "rejected", "expired"}, letter : Letters \cup {None}]
      /\ asked \in [at : {"none", "asked", "mailed"}, letter : Letters \cup {None}, by : {"tab", "left", "gone"}]
  BY DEF Letter!Init, Letter!Away, Letter!NotAsked, Letter!NotTold, Letter!TabRow
<1> QED
  BY <1>1, <1>2, <1>3 DEF Letter!LoginInv, Letter!Typed, Letter!AnswersAreTrue, Letter!LoginIsHonest

\* What a screen says of a connection is so: nobody is let in, told of a refusal or of an end
\* but as the letter says, whatever is lost and left (auth.js:346-402, loginWait.js); a point
\* that is cut off says so within the limits, and never when it hears the server
\* (sse-client.js, update.js).
THEOREM ScreensAreHonest == ScreensSpec => []ConnectionIsHonest
<1> DEFINE Inv == Letter!LoginInv /\ Socket!LinkInv
<1>1. ScreensInit => Inv
  BY LettersBegin, LinkBegins DEF ScreensInit, MCInit
<1>2. Inv /\ [MCNext]_all => Inv'
  BY LettersStay, LinkStays
<1>3. Inv => ConnectionIsHonest
  BY LinkInvIsHonest DEF ConnectionIsHonest, Letter!LoginInv
<1> QED
  BY <1>1, <1>2, <1>3, PTL DEF ScreensSpec

-----------------------------------------------------------------------------
(***************************************************************************)
(* The minutes that were analysed.  Only the transaction that writes a     *)
(* segment changes passages: its own, which it deletes and with it takes   *)
(* out those that were joined to it, and the one it is joined to or opens. *)
(***************************************************************************)
LEMMA AnalysisBegins == Analysis!Init => Analysis!MinutesInv
<1> SUFFICES ASSUME Analysis!Init
             PROVE  Analysis!MinutesInv
  OBVIOUS
<1>1. Analysis!PassagesAreWhole
  BY DEF Analysis!Init, Analysis!PassagesAreWhole, Analysis!Free, Analysis!Statuses
<1>2. \A s \in Analysis!Segments : Analysis!Owners(s) = {} /\ ~Analysis!Done(s)
  BY DEF Analysis!Init, Analysis!Owners, Analysis!Covers, Analysis!Done
<1>3. Analysis!OwnedOnce /\ Analysis!DoneIsCovered /\ Analysis!DoneIsJoined
  BY <1>2 DEF Analysis!OwnedOnce, Analysis!AtMostOne, Analysis!DoneIsCovered, Analysis!DoneIsJoined
<1> QED
  BY <1>1, <1>3 DEF Analysis!MinutesInv

\* The steps that write no passage: a segment that is done afterwards was so before.
LEMMA PassagesStay ==
  ASSUME Analysis!MinutesInv, UNCHANGED <<reach, cut, torn, doubled>>,
         status' \in [Analysis!Segments -> Analysis!Statuses],
         \A s \in Analysis!Segments : status'[s] = "done" => status[s] = "done",
         analyst' \in [at : {"claimed", "busy"}, seg : Analysis!Segments]
                        \cup {Analysis!Off, Analysis!Free}
  PROVE  Analysis!MinutesInv'
<1>1. Analysis!PassagesAreWhole'
  BY DEF Analysis!MinutesInv, Analysis!PassagesAreWhole
<1>2. \A s \in Analysis!Segments : /\ Analysis!Owners(s)' = Analysis!Owners(s)
                                   /\ Analysis!Done(s)' => Analysis!Done(s)
  BY DEF Analysis!Owners, Analysis!Covers, Analysis!Done
<1>3. Analysis!OwnedOnce' /\ Analysis!DoneIsCovered' /\ Analysis!DoneIsJoined'
  BY <1>2 DEF Analysis!MinutesInv, Analysis!OwnedOnce, Analysis!AtMostOne,
              Analysis!DoneIsCovered, Analysis!DoneIsJoined
<1> QED
  BY <1>1, <1>3 DEF Analysis!MinutesInv

\* Another status than done.
LEMMA StatusMoves ==
  ASSUME status \in [Analysis!Segments -> Analysis!Statuses], NEW s \in Analysis!Segments,
         NEW how \in Analysis!Statuses \ {"done"}, status' = [status EXCEPT ![s] = how]
  PROVE  /\ status' \in [Analysis!Segments -> Analysis!Statuses]
         /\ \A t \in Analysis!Segments : status'[t] = "done" => status[t] = "done"
OBVIOUS

\* WriteSegment: what it does to the passages.
LEMMA WriteKeeps == Analysis!MinutesInv /\ Analysis!WriteSegment => Analysis!MinutesInv'
<1> SUFFICES ASSUME Analysis!MinutesInv, Analysis!WriteSegment
             PROVE  Analysis!MinutesInv'
  OBVIOUS
<1>0. PICK s \in Analysis!Segments : s = analyst.seg
  BY DEF Analysis!MinutesInv, Analysis!PassagesAreWhole, Analysis!WriteSegment, Analysis!Off,
         Analysis!Free
<1> DEFINE gone == {t \in Analysis!Segments : Analysis!Covers(s, t)} \ {s}
<1>1. s \in Analysis!Segments /\ Clips \in Nat /\ reach \in [Analysis!Segments -> Nat]
      /\ status \in [Analysis!Segments -> Analysis!Statuses]
      /\ \A p \in Analysis!Segments : reach[p] # 0 => reach[p] \in p..Clips
  BY AnalysisIsSound DEF Analysis!MinutesInv, Analysis!PassagesAreWhole,
                         Analysis!ConstantsAreSound
<1>2. PICK prev \in (IF Analysis!OpenBefore(s) = {} THEN {0} ELSE Analysis!OpenBefore(s)) :
        Analysis!Rows(s, prev)
  BY <1>0 DEF Analysis!WriteSegment
<1>3. /\ status' = [status EXCEPT ![s] = "done"] /\ analyst' = Analysis!Free
      /\ cut' = (cut \ {s}) \cup
                (IF s > 1 /\ (~Analysis!Done(s - 1) \/ s - 1 \in torn) THEN {s} ELSE {})
      /\ torn' = (torn \ {s}) \cup gone
      /\ doubled' = (doubled \ (Analysis!AreSingle(gone, s) \cup {s}))
                      \cup (IF Analysis!Owners(s) \ {s} # {} THEN {s} ELSE {})
  BY <1>0 DEF Analysis!WriteSegment
<1> DEFINE pid == IF prev = 0 THEN s ELSE prev
<1>4. reach' = [p \in Analysis!Segments |-> IF p = pid THEN s ELSE IF p = s THEN 0 ELSE reach[p]]
  BY <1>2 DEF Analysis!Rows
<1>5. \/ prev = 0 /\ Analysis!OpenBefore(s) = {}
      \/ /\ prev \in Analysis!Segments \ {s} /\ reach[prev] # 0 /\ reach[prev] = s - 1
         /\ prev < s
  BY <1>1 DEF Analysis!OpenBefore, Analysis!Segments
<1>6. pid \in Analysis!Segments /\ pid <= s /\ (prev # 0 => pid < s)
  BY <1>1, <1>5 DEF Analysis!Segments
<1>7. Analysis!PassagesAreWhole'
  <2>1. reach' \in [Analysis!Segments -> Nat]
        /\ \A p \in Analysis!Segments : reach'[p] # 0 => reach'[p] \in p..Clips
    BY <1>1, <1>4, <1>6 DEF Analysis!Segments
  <2>2. status' \in [Analysis!Segments -> Analysis!Statuses]
    BY <1>1, <1>3 DEF Analysis!Statuses
  <2> QED
    BY <1>3, <2>1, <2>2 DEF Analysis!PassagesAreWhole
\* Another segment loses this passage only; this one is in the passage pid as well.
<1>8. \A t \in Analysis!Segments \ {s} :
         /\ Analysis!Owners(t)' = Analysis!Owners(t) \ {s}
         /\ s \in Analysis!Owners(t) => t \in gone
  <2> SUFFICES ASSUME NEW t \in Analysis!Segments \ {s}
               PROVE  /\ Analysis!Owners(t)' = Analysis!Owners(t) \ {s}
                      /\ s \in Analysis!Owners(t) => t \in gone
    OBVIOUS
  <2>1. s \in Analysis!Owners(t) => t \in gone
    BY DEF Analysis!Owners
  <2>2. ASSUME NEW p \in Analysis!Segments
        PROVE  (reach'[p] # 0 /\ t \in p..reach'[p]) <=> (p # s /\ reach[p] # 0 /\ t \in p..reach[p])
    <3>1. CASE p = pid
      BY <1>1, <1>4, <1>5, <1>6, <3>1 DEF Analysis!Segments
    <3>2. CASE p # pid
      BY <1>1, <1>4, <3>2
    <3> QED
      BY <3>1, <3>2
  <2>3. Analysis!Owners(t)' = Analysis!Owners(t) \ {s}
    BY <2>2 DEF Analysis!Owners, Analysis!Covers
  <2> QED
    BY <2>1, <2>3
<1>9. Analysis!Owners(s)' = (Analysis!Owners(s) \ {s}) \cup {pid}
  <2>1. ASSUME NEW p \in Analysis!Segments
        PROVE  (reach'[p] # 0 /\ s \in p..reach'[p])
                 <=> (p = pid \/ (p # s /\ reach[p] # 0 /\ s \in p..reach[p]))
    <3>1. CASE p = pid
      BY <1>1, <1>4, <1>6, <3>1 DEF Analysis!Segments
    <3>2. CASE p # pid
      BY <1>1, <1>4, <3>2
    <3> QED
      BY <3>1, <3>2
  <2> QED
    BY <1>6, <2>1 DEF Analysis!Owners, Analysis!Covers
<1>10. \A t \in Analysis!Segments \ {s} : Analysis!Done(t)' <=> Analysis!Done(t)
  BY <1>1, <1>3 DEF Analysis!Done
<1> HIDE DEF gone, pid
<1>11. Analysis!OwnedOnce'
  <2> SUFFICES ASSUME NEW t \in Analysis!Segments
               PROVE  Analysis!AtMostOne(Analysis!Owners(t))' \/ t \in doubled'
    BY DEF Analysis!OwnedOnce
  <2>1. CASE t = s
    BY <1>3, <1>9, <2>1 DEF Analysis!AtMostOne
  <2>2. CASE t # s
    <3>1. Analysis!AtMostOne(Analysis!Owners(t)) \/ t \in doubled
      BY DEF Analysis!MinutesInv, Analysis!OwnedOnce
    <3>2. CASE Analysis!AtMostOne(Analysis!Owners(t) \ {s})
      BY <1>8, <2>2, <3>2 DEF Analysis!AtMostOne
    <3>3. CASE ~Analysis!AtMostOne(Analysis!Owners(t) \ {s})
      <4>1. t \in doubled
        BY <3>1, <3>3 DEF Analysis!AtMostOne
      <4>2. t \notin Analysis!AreSingle(gone, s)
        BY <3>3 DEF Analysis!AreSingle
      <4> QED
        BY <1>3, <2>2, <4>1, <4>2
    <3> QED
      BY <3>2, <3>3
  <2> QED
    BY <2>1, <2>2
<1>12. Analysis!DoneIsCovered'
  <2> SUFFICES ASSUME NEW t \in Analysis!Segments, Analysis!Done(t)'
               PROVE  Analysis!Owners(t)' # {} \/ t \in torn'
    BY DEF Analysis!DoneIsCovered
  <2>1. CASE t = s
    BY <1>9, <2>1
  <2>2. CASE t # s
    BY <1>3, <1>8, <1>10, <2>2 DEF Analysis!MinutesInv, Analysis!DoneIsCovered
  <2> QED
    BY <2>1, <2>2
<1>13. Analysis!DoneIsJoined'
  <2> SUFFICES ASSUME NEW t \in Analysis!Segments \ {1}, Analysis!Done(t)',
                      t \notin cut' \cup torn' \cup doubled'
               PROVE  \E p \in Analysis!Owners(t)' : p < t
    BY DEF Analysis!DoneIsJoined
  <2>1. CASE t = s
    <3>1. s > 1 /\ s - 1 \in Analysis!Segments
      BY <1>1, <2>1 DEF Analysis!Segments
    <3>2. Analysis!Done(s - 1) /\ s - 1 \notin torn /\ Analysis!Owners(s) \ {s} = {}
      BY <1>3, <2>1, <3>1
    <3>3. PICK p \in Analysis!Owners(s - 1) : TRUE
      BY <3>1, <3>2 DEF Analysis!MinutesInv, Analysis!DoneIsCovered
    <3>4. p \in Analysis!Segments /\ reach[p] # 0 /\ p <= s - 1 /\ s - 1 <= reach[p]
      BY <1>1, <3>1, <3>3 DEF Analysis!Owners, Analysis!Covers, Analysis!Segments
    <3>5. reach[p] = s - 1
      <4>1. p # s /\ p \notin Analysis!Owners(s)
        BY <1>1, <3>2, <3>4 DEF Analysis!Segments
      <4>2. ~(s \in p..reach[p])
        BY <3>4, <4>1 DEF Analysis!Owners, Analysis!Covers
      <4>3. p \in Nat /\ s \in Nat /\ reach[p] \in Nat
        BY <1>1, <3>4 DEF Analysis!Segments
      <4> QED
        BY <3>4, <4>2, <4>3
    <3>6. p \in Analysis!OpenBefore(s)
      BY <1>1, <3>4, <3>5 DEF Analysis!OpenBefore, Analysis!Segments
    <3>7. pid < s
      <4>1. prev # 0
        BY <1>1, <1>5, <3>6 DEF Analysis!Segments
      <4> QED
        BY <1>6, <4>1
    <3>8. pid \in Analysis!Owners(s)'
      BY <1>9
    <3> QED
      BY <2>1, <3>7, <3>8
  <2>2. CASE t # s
    <3>1. t \notin gone /\ t \notin torn /\ t \notin cut
      BY <1>3, <2>2
    <3>2. Analysis!Owners(t)' = Analysis!Owners(t) /\ s \notin Analysis!Owners(t)
      BY <1>8, <2>2, <3>1
    <3>3. t \notin doubled
      BY <1>3, <2>2, <3>1 DEF Analysis!AreSingle
    <3> QED
      BY <1>10, <2>2, <3>1, <3>2, <3>3 DEF Analysis!MinutesInv, Analysis!DoneIsJoined
  <2> QED
    BY <2>1, <2>2
<1> QED
  BY <1>7, <1>11, <1>12, <1>13 DEF Analysis!MinutesInv

LEMMA AnalysisGoesOn ==
  Analysis!MinutesInv /\ [Analysis!Next]_Analysis!vars => Analysis!MinutesInv'
<1> SUFFICES ASSUME Analysis!MinutesInv, [Analysis!Next]_Analysis!vars
             PROVE  Analysis!MinutesInv'
  OBVIOUS
<1> DEFINE Workers == [at : {"claimed", "busy"}, seg : Analysis!Segments]
                        \cup {Analysis!Off, Analysis!Free}
<1> USE DEF Analysis!queue, Analysis!written, Analysis!scars, Analysis!vars
<1>0. status \in [Analysis!Segments -> Analysis!Statuses] /\ analyst \in Workers
      /\ (analyst.at \in {"claimed", "busy"} => analyst.seg \in Analysis!Segments)
  BY DEF Analysis!MinutesInv, Analysis!PassagesAreWhole, Analysis!Off, Analysis!Free
<1>1. ASSUME NEW s \in Analysis!Segments, NEW how \in Analysis!Statuses \ {"done"},
             status' = [status EXCEPT ![s] = how], analyst' \in Workers,
             UNCHANGED <<reach, cut, torn, doubled>>
      PROVE  Analysis!MinutesInv'
  BY <1>0, <1>1, StatusMoves, PassagesStay
<1>2. ASSUME UNCHANGED <<status, reach, cut, torn, doubled>>, analyst' \in Workers
      PROVE  Analysis!MinutesInv'
  BY <1>0, <1>2, PassagesStay
<1>3. CASE Analysis!Claim \/ Analysis!ClaimOld
  <2>1. PICK s \in Analysis!Segments, n \in {attempts[t] + 1 : t \in Analysis!Segments} \cup {1} :
          Analysis!Taken(s, n)
    BY <1>3 DEF Analysis!Claim, Analysis!ClaimOld, Analysis!Waiting, Analysis!Outdated
  <2> QED
    BY <1>1, <2>1 DEF Analysis!Taken, Analysis!Statuses
<1>4. CASE Analysis!Release
  BY <1>0, <1>1, <1>4 DEF Analysis!Release, Analysis!Statuses
<1>5. CASE Analysis!Download
  <2>1. analyst \in [at : {"claimed", "busy"}, seg : Analysis!Segments]
    BY <1>0, <1>5 DEF Analysis!Download, Analysis!Off, Analysis!Free
  <2>2. analyst' \in Workers
    BY <1>5, <2>1 DEF Analysis!Download
  <2> QED
    BY <1>2, <1>5, <2>2 DEF Analysis!Download
<1>6. CASE Analysis!Missing \/ Analysis!Fails
  BY <1>0, <1>1, <1>6 DEF Analysis!Missing, Analysis!Fails, Analysis!Finish, Analysis!Statuses
<1>7. CASE Analysis!WriteSegment
  BY <1>7, WriteKeeps
<1>8. CASE Analysis!RematchReceipts \/ Analysis!ReceiptComes \/ Analysis!ReceiptAges
           \/ UNCHANGED Analysis!vars
  BY <1>0, <1>2, <1>8 DEF Analysis!RematchReceipts, Analysis!ReceiptComes, Analysis!ReceiptAges
<1>9. CASE Analysis!Starts \/ Analysis!Crash \/ Analysis!Stops
  BY <1>2, <1>9 DEF Analysis!Starts, Analysis!Crash, Analysis!Stops
<1>10. ASSUME NEW s \in Analysis!Segments,
              Analysis!Arrives(s) \/ Analysis!LockAges(s) \/ Analysis!Expires(s)
       PROVE  Analysis!MinutesInv'
  BY <1>0, <1>1, <1>2, <1>10
  DEF Analysis!Arrives, Analysis!LockAges, Analysis!Expires, Analysis!Statuses
<1> QED
  BY <1>3, <1>4, <1>5, <1>6, <1>7, <1>8, <1>9, <1>10
  DEF Analysis!Next, Analysis!Work, Analysis!World, Analysis!Accident

LEMMA SegmentsAreCounted == \A S : Analysis!Cardinality(S) = Cardinality(S)
<1>1. \A S : Analysis!IsFiniteSet(S) <=> IsFiniteSet(S)
  BY DEF Analysis!IsFiniteSet, IsFiniteSet
<1> QED
  BY <1>1 DEF Analysis!Cardinality, Cardinality

\* What the invariant says of the archive: at most one passage has a segment, and a
\* segment that was joined is in a passage that began before it.
LEMMA MinutesInvIsWhole ==
  Analysis!MinutesInv => Analysis!EveryMinuteOnce /\ Analysis!SeamsAreClosed
<1> SUFFICES ASSUME Analysis!MinutesInv
             PROVE  Analysis!EveryMinuteOnce /\ Analysis!SeamsAreClosed
  OBVIOUS
<1>1. Analysis!EveryMinuteOnce
  <2> SUFFICES ASSUME NEW s \in Analysis!Segments, Analysis!Done(s)
               PROVE  /\ Analysis!Owners(s) # {} \/ s \in torn
                      /\ Analysis!Cardinality(Analysis!Owners(s)) <= 1 \/ s \in doubled
    BY DEF Analysis!EveryMinuteOnce
  <2>1. Analysis!Owners(s) # {} \/ s \in torn
    BY DEF Analysis!MinutesInv, Analysis!DoneIsCovered
  <2>2. ASSUME s \notin doubled
        PROVE  Analysis!Cardinality(Analysis!Owners(s)) <= 1
    <3>1. Analysis!AtMostOne(Analysis!Owners(s))
      BY <2>2 DEF Analysis!MinutesInv, Analysis!OwnedOnce
    <3>2. CASE Analysis!Owners(s) = {}
      BY <3>2, FS_EmptySet, SegmentsAreCounted
    <3>3. CASE Analysis!Owners(s) # {}
      <4>1. PICK p : Analysis!Owners(s) = {p}
        BY <3>1, <3>3 DEF Analysis!AtMostOne
      <4> QED
        BY <4>1, FS_Singleton, SegmentsAreCounted
    <3> QED
      BY <3>2, <3>3
  <2> QED
    BY <2>1, <2>2
<1>2. Analysis!SeamsAreClosed
  <2> SUFFICES ASSUME NEW s \in Analysis!Segments \ {1},
                      Analysis!Done(s), s \notin cut \cup torn \cup doubled
               PROVE  \E p \in Analysis!Owners(s) : s - 1 \in p..reach[p]
    BY DEF Analysis!SeamsAreClosed
  <2>1. PICK p \in Analysis!Owners(s) : p < s
    BY DEF Analysis!MinutesInv, Analysis!DoneIsJoined
  <2>2. p \in Nat /\ s \in Nat /\ reach[p] \in Nat /\ s <= reach[p]
    BY DEF Analysis!MinutesInv, Analysis!PassagesAreWhole, Analysis!Owners, Analysis!Covers,
           Analysis!Segments
  <2> QED
    BY <2>1, <2>2
<1> QED
  BY <1>1, <1>2

-----------------------------------------------------------------------------
(***************************************************************************)
(* The minutes on their way.  Every copy of a segment is as the segment    *)
(* is, and only ffmpeg makes one grow, in RAM; so whatever takes the last  *)
(* copy has it registered or put aside before, or notes what it takes.     *)
(***************************************************************************)
LEMMA UploadBegins == Upload!Init => Upload!FilesInv
<1> SUFFICES ASSUME Upload!Init
             PROVE  Upload!FilesInv
  OBVIOUS
<1>1. Upload!Formed
  <2>1. Upload!Idle \in Upload!Uploads /\ Upload!Idle.at = "idle"
    BY UploadIsSound DEF Upload!Idle, Upload!Uploads, Upload!ConstantsAreSound
  <2>2. {ram, drive, rejected, bucket, rows} \subseteq [Upload!Segments -> Nat \cup {None}]
    BY DEF Upload!Init, Upload!NoFiles
  <2>3. next \in 1..(Minutes + 1) /\ ffmpeg \in {0, next - 1} /\ copied \in BOOLEAN
    <3>1. next = 1 /\ ffmpeg = 0 /\ Minutes \in Nat
      BY UploadIsSound DEF Upload!Init, Upload!ConstantsAreSound
    <3>2. copied \in BOOLEAN
      BY DEF Upload!Init
    <3> QED
      BY <3>1, <3>2
  <2>4. made \in [Upload!Segments -> Nat] /\ spill = {} /\ found = {} /\ up = Upload!Idle
    BY DEF Upload!Init
  <2> QED
    BY <2>1, <2>2, <2>3, <2>4 DEF Upload!Formed
<1>2. \A s \in Upload!Segments : ram[s] = None /\ drive[s] = None /\ rows[s] = None /\ made[s] = 0
  BY DEF Upload!Init, Upload!NoFiles
<1>3. next = 1 /\ spill = {} /\ copied = FALSE
  BY DEF Upload!Init
<1>4. Upload!CopiesAreTrue
  BY <1>2 DEF Upload!CopiesAreTrue
<1>5. Upload!SpillIsOver
  BY <1>3 DEF Upload!SpillIsOver, Upload!Leaving
<1>6. Upload!NothingGetsLost
  BY <1>3 DEF Upload!NothingGetsLost
<1> QED
  BY <1>1, <1>4, <1>5, <1>6 DEF Upload!FilesInv

Uploaded(u) == u.place \in {"ram", "drive"} /\ u.seg \in Upload!Segments

\* What is known of a segment and of the constants.
LEMMA FilesAreKnown ==
  ASSUME Upload!FilesInv
  PROVE  /\ Minutes \in Nat /\ None \notin Nat /\ Upload!Segments = 1..Minutes
         /\ next \in 1..(Minutes + 1) /\ ffmpeg \in Nat /\ ffmpeg \in {0, next - 1} /\ copied \in BOOLEAN
         /\ spill \subseteq Upload!Segments /\ found \subseteq Upload!Item
         /\ made \in [Upload!Segments -> Nat]
         /\ ram \in [Upload!Segments -> Nat \cup {None}] /\ drive \in [Upload!Segments -> Nat \cup {None}]
         /\ rejected \in [Upload!Segments -> Nat \cup {None}]
         /\ bucket \in [Upload!Segments -> Nat \cup {None}] /\ rows \in [Upload!Segments -> Nat \cup {None}]
         /\ up \in Upload!Uploads /\ (up.at # "idle" => Uploaded(up))
         /\ \A s \in Upload!Segments :
              /\ s >= next => made[s] = 0
              /\ ram[s] # None => s < next /\ ram[s] = made[s]
              /\ drive[s] # None => s < next /\ s # ffmpeg /\ drive[s] = made[s]
              /\ rows[s] # None => rows[s] = bucket[s]
         /\ copied => spill # {}
         /\ \A s \in spill : s < next /\ s # ffmpeg
         /\ \A s \in Upload!Leaving : Upload!Kept(s)
         /\ \A s \in 1..(next - 1) : ram[s] = made[s] \/ Upload!Kept(s)
<1>1. Minutes \in Nat /\ None \notin Nat /\ Upload!Segments = 1..Minutes
  BY UploadIsSound DEF Upload!ConstantsAreSound, Upload!Segments
<1>2. \A s \in 1..(next - 1) : ram[s] = made[s] \/ Upload!Kept(s)
  BY DEF Upload!FilesInv, Upload!NothingGetsLost, Upload!Kept
<1>3. next \in 1..(Minutes + 1) /\ ffmpeg \in Nat /\ ffmpeg \in {0, next - 1} /\ copied \in BOOLEAN
  BY <1>1 DEF Upload!FilesInv, Upload!Formed
<1> QED
  BY <1>1, <1>2, <1>3
  DEF Upload!FilesInv, Upload!Formed, Upload!CopiesAreTrue, Upload!SpillIsOver, Uploaded

LEMMA OneMoreAtMost ==
  \A m, n \in Nat : \A k \in 1..(m + 1) :
    k \in {n, n + 1} => \A s \in 1..(k - 1) : s \in 1..m /\ (s \in 1..(n - 1) \/ s = n)
OBVIOUS

\* A step that writes no segment: copies go, or come from a copy there was, and none
\* of them is the last of what is not kept otherwise.
Begun ==
  \/ next' = next /\ ffmpeg' \in {ffmpeg, 0}
  \/ next' = next + 1 /\ ffmpeg' = next
Moved(s) ==
  /\ ram'[s] \in {ram[s], None} \/ (next' = next + 1 /\ s = next /\ ram'[s] = 0)
  /\ drive'[s] \in {drive[s], None} \/ (s \in spill /\ drive'[s] = ram[s])
  /\ rows'[s] # None => rows'[s] = bucket'[s]
StillThere(s) == ram[s] = made[s] \/ Upload!Kept(s) => ram'[s] = made'[s] \/ Upload!Kept(s)'

LEMMA FilesGoOn ==
  ASSUME Upload!FilesInv, Upload!Formed', made' = made, Begun,
         \A s \in Upload!Segments : Moved(s) /\ StillThere(s),
         copied' => spill' # {}, \A s \in spill' : s < next /\ s # ffmpeg',
         \A s \in Upload!Leaving' : Upload!Kept(s)'
  PROVE  Upload!FilesInv'
<1>0. /\ Minutes \in Nat /\ next \in Nat /\ next' \in 1..(Minutes + 1)
      /\ Upload!Segments = 1..Minutes /\ next <= next' /\ next' \in {next, next + 1}
  BY FilesAreKnown DEF Upload!Formed, Begun
<1>1. ASSUME NEW s \in Upload!Segments
      PROVE  /\ s >= next' => made'[s] = 0
             /\ ram'[s] # None => s < next' /\ ram'[s] = made'[s]
             /\ drive'[s] # None => s < next' /\ s # ffmpeg' /\ drive'[s] = made'[s]
             /\ rows'[s] # None => rows'[s] = bucket'[s]
  <2>1. s \in Nat /\ (s >= next => made[s] = 0) /\ Moved(s)
    BY <1>0, FilesAreKnown
  <2>2. ram'[s] # None => s < next' /\ ram'[s] = made'[s]
    BY <1>0, <2>1, FilesAreKnown DEF Moved
  <2>3. drive'[s] # None => s < next' /\ s # ffmpeg' /\ drive'[s] = made'[s]
    <3>1. CASE drive'[s] = drive[s]
      BY <1>0, <2>1, <3>1, FilesAreKnown DEF Begun
    <3>2. CASE s \in spill /\ drive'[s] = ram[s]
      BY <1>0, <2>1, <3>2, FilesAreKnown DEF Begun
    <3> QED
      BY <2>1, <3>1, <3>2 DEF Moved
  <2> QED
    BY <1>0, <2>1, <2>2, <2>3 DEF Moved
<1>2. Upload!CopiesAreTrue'
  BY <1>1 DEF Upload!CopiesAreTrue
<1>3. Upload!SpillIsOver'
  <2>1. spill' \subseteq Upload!Segments
    BY DEF Upload!Formed, Upload!Segments
  <2>2. \A s \in spill' : s < next' /\ s # ffmpeg'
    BY <1>0, <2>1
  <2> QED
    BY <2>2 DEF Upload!SpillIsOver
<1>4. Upload!NothingGetsLost'
  <2>1. \A s \in 1..(next' - 1) : s \in Upload!Segments /\ (s \in 1..(next - 1) \/ s = next)
    <3>1. \A s \in 1..(next' - 1) : s \in 1..Minutes /\ (s \in 1..(next - 1) \/ s = next)
      BY <1>0, OneMoreAtMost, Zenon
    <3> QED
      BY <1>0, <3>1, Zenon
  <2>2. ASSUME NEW s \in Upload!Segments, s \in 1..(next - 1) \/ s = next
        PROVE  ram'[s] = made'[s] \/ Upload!Kept(s)'
    <3>1. ram[s] = made[s] \/ Upload!Kept(s)
      BY <1>0, <2>2, FilesAreKnown DEF Upload!Kept
    <3> QED
      BY <3>1 DEF StillThere
  <2> QED
    BY <2>1, <2>2 DEF Upload!NothingGetsLost, Upload!Kept
<1> QED
  BY <1>2, <1>3, <1>4 DEF Upload!FilesInv

\* What the uploader keeps in mind.
UploadIsTyped ==
  up' \in Upload!Uploads /\ (up'.at # "idle" => Uploaded(up')) /\ found' \subseteq Upload!Item

LEMMA OverIsTyped ==
  ASSUME Upload!FilesInv, NEW b, Upload!Over(b)
  PROVE  UploadIsTyped
<1>1. Upload!Idle \in Upload!Uploads /\ Upload!Idle.at = "idle"
  BY FilesAreKnown DEF Upload!Idle, Upload!Uploads
<1>2. up' = Upload!Idle /\ found' \subseteq found
  BY DEF Upload!Over
<1> QED
  BY <1>1, <1>2, FilesAreKnown DEF UploadIsTyped

\* A step of the uploader: the recorder's part stays.
FilesAreTyped ==
  /\ ram' \in [Upload!Segments -> Nat \cup {None}] /\ drive' \in [Upload!Segments -> Nat \cup {None}]
  /\ rejected' \in [Upload!Segments -> Nat \cup {None}]
  /\ bucket' \in [Upload!Segments -> Nat \cup {None}] /\ rows' \in [Upload!Segments -> Nat \cup {None}]
StaysKept(s) == Upload!Kept(s) => Upload!Kept(s)'

LEMMA UploaderGoesOn ==
  ASSUME Upload!FilesInv, UNCHANGED <<ffmpeg, next, spill, copied, made>>,
         FilesAreTyped, UploadIsTyped,
         \A s \in Upload!Segments : Moved(s) /\ StaysKept(s) /\ (ram'[s] = ram[s] \/ Upload!Kept(s)')
  PROVE  Upload!FilesInv'
<1>1. Upload!Formed'
  BY DEF Upload!FilesInv, Upload!Formed, FilesAreTyped, UploadIsTyped, Uploaded
<1>2. Upload!Leaving' = Upload!Leaving
  BY Zenon DEF Upload!Leaving, Upload!Earliest
<1>3. Upload!Leaving \subseteq Upload!Segments
  BY FilesAreKnown DEF Upload!Leaving, Upload!Earliest
<1>4. \A s \in Upload!Segments : StillThere(s)
  BY DEF StillThere, StaysKept
<1>5. \A s \in Upload!Leaving' : Upload!Kept(s)'
  BY <1>2, <1>3, FilesAreKnown DEF StaysKept
<1>6. (copied' => spill' # {}) /\ \A s \in spill' : s < next /\ s # ffmpeg'
  BY FilesAreKnown
<1>7. Begun
  BY DEF Begun
<1> QED
  BY <1>1, <1>4, <1>5, <1>6, <1>7, FilesGoOn

\* Nothing that is at the point moves.
LEMMA NothingMoves ==
  ASSUME Upload!FilesInv, UNCHANGED <<ffmpeg, next, spill, copied, made, lost, short>>,
         UNCHANGED <<ram, drive, rejected, rows>>, UploadIsTyped,
         \/ bucket' = bucket
         \/ \E s \in Upload!Segments, b \in Nat : bucket[s] = None /\ bucket' = [bucket EXCEPT ![s] = b]
  PROVE  Upload!FilesInv'
<1>1. FilesAreTyped
  <2>1. bucket' \in [Upload!Segments -> Nat \cup {None}]
    BY FilesAreKnown
  <2> QED
    BY <2>1, FilesAreKnown DEF FilesAreTyped
<1>2. ASSUME NEW s \in Upload!Segments
      PROVE  Moved(s) /\ StaysKept(s)
  <2>1. rows'[s] # None => rows'[s] = bucket'[s]
    BY FilesAreKnown
  <2>2. StaysKept(s)
    BY DEF StaysKept, Upload!Kept
  <2> QED
    BY <2>1, <2>2 DEF Moved
<1> QED
  BY <1>1, <1>2, UploaderGoesOn

\* A file goes to rejected/.
LEMMA RejectKeeps ==
  ASSUME Upload!FilesInv, UNCHANGED <<ffmpeg, next, spill, copied, made, lost, short, bucket, rows>>,
         NEW i \in Upload!Item, Upload!Reject(i), UploadIsTyped
  PROVE  Upload!FilesInv'
<1> DEFINE s == i.seg
<1>1. s \in Upload!Segments /\ i.place \in {"ram", "drive"}
  BY DEF Upload!Item
<1> HIDE DEF s
<1>2. CASE i.place = "ram"
  <2>1. /\ ram' = Upload!Without(ram, {s}) /\ drive' = drive
        /\ rejected' = IF ram[s] = None THEN rejected ELSE [rejected EXCEPT ![s] = ram[s]]
    BY <1>2 DEF Upload!Reject, Upload!Dir, s
  <2>2. FilesAreTyped
    BY <1>1, <2>1, FilesAreKnown DEF FilesAreTyped, Upload!Without
  <2>3. ASSUME NEW t \in Upload!Segments
        PROVE  Moved(t) /\ StaysKept(t) /\ (ram'[t] = ram[t] \/ Upload!Kept(t)')
    <3>1. ram'[t] = IF t = s THEN None ELSE ram[t]
      BY <2>1 DEF Upload!Without
    <3>2. rejected'[t] = IF t = s /\ ram[t] # None THEN ram[t] ELSE rejected[t]
      BY <2>1, FilesAreKnown
    <3>3. ram[t] # None => ram[t] = made[t]
      BY FilesAreKnown
    <3>4. Moved(t)
      BY <2>1, <3>1, FilesAreKnown DEF Moved
    <3>5. StaysKept(t)
      BY <2>1, <3>2, <3>3 DEF StaysKept, Upload!Kept
    <3>6. ram'[t] = ram[t] \/ Upload!Kept(t)'
      BY <2>1, <3>1, <3>2, <3>3 DEF Upload!Kept
    <3> QED
      BY <3>4, <3>5, <3>6
  <2> QED
    BY <2>2, <2>3, UploaderGoesOn
<1>3. CASE i.place = "drive"
  <2>1. /\ drive' = Upload!Without(drive, {s}) /\ ram' = ram
        /\ rejected' = IF drive[s] = None THEN rejected ELSE [rejected EXCEPT ![s] = drive[s]]
    BY <1>3 DEF Upload!Reject, Upload!Dir, s
  <2>2. FilesAreTyped
    BY <1>1, <2>1, FilesAreKnown DEF FilesAreTyped, Upload!Without
  <2>3. ASSUME NEW t \in Upload!Segments
        PROVE  Moved(t) /\ StaysKept(t) /\ ram'[t] = ram[t]
    <3>1. drive'[t] = IF t = s THEN None ELSE drive[t]
      BY <2>1 DEF Upload!Without
    <3>2. rejected'[t] = IF t = s /\ drive[t] # None THEN drive[t] ELSE rejected[t]
      BY <2>1, FilesAreKnown
    <3>3. (drive[t] # None => drive[t] = made[t]) /\ made[t] # None
      BY FilesAreKnown
    <3>4. Moved(t)
      BY <2>1, <3>1, FilesAreKnown DEF Moved
    <3>5. StaysKept(t)
      BY <2>1, <3>1, <3>2, <3>3 DEF StaysKept, Upload!Kept
    <3> QED
      BY <2>1, <3>4, <3>5
  <2> QED
    BY <2>2, <2>3, UploaderGoesOn
<1> QED
  BY <1>1, <1>2, <1>3

\* The row is written, of the size the bucket says, which is what was uploaded.
LEMMA RowKeeps ==
  ASSUME Upload!FilesInv, Upload!Registered \/ Upload!RegisteredUnheard
  PROVE  Upload!FilesInv'
<1> DEFINE s == up.seg
<1>1. /\ s \in Upload!Segments /\ up.bytes \in Nat /\ bucket[s] = up.bytes
      /\ rows' = [rows EXCEPT ![s] = bucket[s]]
      /\ UNCHANGED <<ffmpeg, next, spill, copied, made, lost, rejected, bucket>>
  BY FilesAreKnown DEF Upload!Registered, Upload!RegisteredUnheard, Upload!Row, Upload!Matches,
                       Upload!recorder, Upload!Uploads, Uploaded
<1>2. UploadIsTyped
  BY OverIsTyped DEF Upload!Registered, Upload!RegisteredUnheard
<1> HIDE DEF s
<1>3. \A t \in Upload!Segments :
        /\ rows'[t] = IF t = s THEN up.bytes ELSE rows[t]
        /\ rows[s] \in {None, up.bytes}
        /\ rows'[t] # None => rows'[t] = bucket'[t]
        /\ made[t] \in Nat /\ made[t] # None
        /\ ram[t] # None => ram[t] = made[t]
        /\ drive[t] # None => drive[t] = made[t]
  BY <1>1, FilesAreKnown
<1>4. CASE Upload!RegisteredUnheard
  <2>1. UNCHANGED <<ram, drive, short>>
    BY <1>4 DEF Upload!RegisteredUnheard
  <2>2. FilesAreTyped
    BY <1>1, <2>1, FilesAreKnown DEF FilesAreTyped
  <2>3. ASSUME NEW t \in Upload!Segments
        PROVE  Moved(t) /\ StaysKept(t) /\ ram'[t] = ram[t]
    <3>1. Moved(t)
      BY <1>3, <2>1 DEF Moved
    <3>2. StaysKept(t)
      BY <1>1, <1>3, <2>1 DEF StaysKept, Upload!Kept
    <3> QED
      BY <2>1, <3>1, <3>2
  <2> QED
    BY <1>1, <1>2, <2>2, <2>3, UploaderGoesOn
<1>5. CASE Upload!Registered
  <2>1. \/ /\ ram' = Upload!Without(ram, {s}) /\ drive' = drive
           /\ short' = short \cup (IF ram[s] \in {None, up.bytes} THEN {} ELSE {s})
        \/ /\ drive' = Upload!Without(drive, {s}) /\ ram' = ram
           /\ short' = short \cup (IF drive[s] \in {None, up.bytes} THEN {} ELSE {s})
    BY <1>5 DEF Upload!Registered, Upload!Unlink, Upload!Here, Upload!Dir, s
  <2>2. FilesAreTyped
    BY <1>1, <2>1, FilesAreKnown DEF FilesAreTyped, Upload!Without
  <2>3. ASSUME NEW t \in Upload!Segments
        PROVE  Moved(t) /\ StaysKept(t) /\ (ram'[t] = ram[t] \/ Upload!Kept(t)')
    <3>1. CASE ram' = Upload!Without(ram, {s}) /\ drive' = drive
               /\ short' = short \cup (IF ram[s] \in {None, up.bytes} THEN {} ELSE {s})
      <4>1. ram'[t] = IF t = s THEN None ELSE ram[t]
        BY <3>1 DEF Upload!Without
      <4>2. Moved(t)
        BY <1>3, <3>1, <4>1 DEF Moved
      <4>3. StaysKept(t)
        BY <1>1, <1>3, <3>1 DEF StaysKept, Upload!Kept
      <4>4. ram'[t] = ram[t] \/ Upload!Kept(t)'
        BY <1>1, <1>3, <3>1, <4>1 DEF Upload!Kept
      <4> QED
        BY <4>2, <4>3, <4>4
    <3>2. CASE drive' = Upload!Without(drive, {s}) /\ ram' = ram
               /\ short' = short \cup (IF drive[s] \in {None, up.bytes} THEN {} ELSE {s})
      <4>1. drive'[t] = IF t = s THEN None ELSE drive[t]
        BY <3>2 DEF Upload!Without
      <4>2. Moved(t)
        BY <1>3, <3>2, <4>1 DEF Moved
      <4>3. StaysKept(t)
        BY <1>1, <1>3, <3>2, <4>1 DEF StaysKept, Upload!Kept
      <4> QED
        BY <3>2, <4>2, <4>3
    <3> QED
      BY <2>1, <3>1, <3>2
  <2> QED
    BY <1>1, <1>2, <2>2, <2>3, UploaderGoesOn
<1> QED
  BY <1>4, <1>5

LEMMA UploaderKeeps == Upload!FilesInv /\ Upload!Upload => Upload!FilesInv'
<1> SUFFICES ASSUME Upload!FilesInv, Upload!Upload
             PROVE  Upload!FilesInv'
  OBVIOUS
<1> USE DEF Upload!UploaderOnly, Upload!recorder, Upload!server
<1>0. /\ UNCHANGED <<up, found>> => UploadIsTyped
      /\ \A s \in Upload!Segments : ram[s] \in Nat \cup {None} /\ drive[s] \in Nat \cup {None}
      /\ up \in Upload!Uploads /\ (up.at # "idle" => Uploaded(up))
  BY FilesAreKnown DEF UploadIsTyped
<1>1. CASE Upload!Look
  <2>1. Upload!Found \subseteq Upload!Item
    BY DEF Upload!Found, Upload!Item, Upload!RamReady, Upload!In
  <2>2. UploadIsTyped
    BY <1>0, <1>1, <2>1 DEF Upload!Look, UploadIsTyped
  <2> QED
    BY <1>1, <2>2, NothingMoves DEF Upload!Look
<1>2. CASE Upload!Take
  <2>1. PICK i \in found :
          LET size == Upload!Dir(i.place)[i.seg]
          IN  \/ found' = {} /\ UNCHANGED <<up, ram, drive, rejected>>
              \/ /\ found' \subseteq found /\ UNCHANGED up
                 /\ UNCHANGED <<ram, drive, rejected>> \/ Upload!Reject(i)
              \/ /\ found' \subseteq found /\ size \notin {None, 0}
                 /\ up' = [at |-> "ask", place |-> i.place, seg |-> i.seg, bytes |-> size]
                 /\ UNCHANGED <<ram, drive, rejected>>
    BY <1>2 DEF Upload!Take
  <2>2. i \in Upload!Item /\ i.seg \in Upload!Segments /\ i.place \in {"ram", "drive"}
        /\ Upload!Dir(i.place)[i.seg] \in Nat \cup {None}
    BY <1>0, FilesAreKnown DEF Upload!Item, Upload!Dir
  <2>3. UploadIsTyped
    <3>1. CASE UNCHANGED up
      BY <1>0, <2>1, <3>1, FilesAreKnown DEF UploadIsTyped
    <3>2. CASE ~UNCHANGED up
      <4>1. PICK b \in Nat : up' = [at |-> "ask", place |-> i.place, seg |-> i.seg, bytes |-> b]
        BY <2>1, <2>2, <3>2
      <4>2. i.seg \in 0..Minutes
        BY <2>2, FilesAreKnown
      <4> QED
        BY <2>1, <2>2, <4>1, <4>2, FilesAreKnown DEF UploadIsTyped, Upload!Uploads, Uploaded
    <3> QED
      BY <3>1, <3>2
  <2>4. CASE UNCHANGED <<ram, drive, rejected>>
    BY <1>2, <2>3, <2>4, NothingMoves DEF Upload!Take
  <2>5. CASE Upload!Reject(i)
    BY <1>2, <2>2, <2>3, <2>5, RejectKeeps DEF Upload!Take
  <2> QED
    BY <2>1, <2>4, <2>5
<1>3. CASE Upload!LinkGiven \/ Upload!AlreadyThere
  <2>1. Upload!Over(FALSE) \/ \E w \in {"put", "exists"} : up' = [up EXCEPT !.at = w] /\ found' = found
    BY <1>3 DEF Upload!LinkGiven, Upload!AlreadyThere
  <2>2. up.at # "idle"
    BY <1>3 DEF Upload!LinkGiven, Upload!AlreadyThere
  <2>3. UploadIsTyped
    BY <1>0, <2>1, <2>2, OverIsTyped, FilesAreKnown DEF UploadIsTyped, Upload!Uploads, Uploaded
  <2> QED
    BY <1>3, <2>3, NothingMoves DEF Upload!LinkGiven, Upload!AlreadyThere
<1>4. CASE Upload!LinkRefused \/ Upload!RegisterRefused
  <2>1. Upload!Here \in Upload!Item
    BY <1>0, <1>4 DEF Upload!LinkRefused, Upload!RegisterRefused, Upload!Here, Upload!Item, Uploaded
  <2> QED
    BY <1>4, <2>1, OverIsTyped, RejectKeeps DEF Upload!LinkRefused, Upload!RegisterRefused
<1>5. CASE Upload!AskFails \/ Upload!PutFails \/ Upload!PutPaused \/ Upload!RegisterFails
  <2>1. UploadIsTyped
    BY <1>5, OverIsTyped DEF Upload!AskFails, Upload!PutFails, Upload!PutPaused, Upload!RegisterFails
  <2> QED
    BY <1>5, <2>1, NothingMoves DEF Upload!AskFails, Upload!PutFails, Upload!PutPaused, Upload!RegisterFails
<1>6. CASE Upload!Stored
  <2>1. Upload!Over(TRUE) \/ (up' = [up EXCEPT !.at = "register"] /\ found' = found)
    BY <1>6 DEF Upload!Stored
  <2>2. UploadIsTyped
    BY <1>0, <1>6, <2>1, OverIsTyped, FilesAreKnown
    DEF Upload!Stored, UploadIsTyped, Upload!Uploads, Uploaded
  <2>3. up.seg \in Upload!Segments /\ up.bytes \in Nat
    BY <1>0, <1>6 DEF Upload!Stored, Upload!Uploads, Uploaded
  <2> QED
    BY <1>6, <2>2, <2>3, NothingMoves DEF Upload!Stored
<1>7. CASE Upload!Registered \/ Upload!RegisteredUnheard
  BY <1>7, RowKeeps
<1> QED
  BY <1>1, <1>2, <1>3, <1>4, <1>5, <1>6, <1>7 DEF Upload!Upload

\* What the recorder takes is kept elsewhere or noted; a copy that is done is reckoned with.
LEMMA DiscardNotes ==
  ASSUME Upload!FilesInv, NEW R, NEW D, NEW s \in Upload!Segments,
         UNCHANGED <<made, rejected, rows, short>>,
         ram'[s] = (IF s \in R THEN None ELSE ram[s]), drive'[s] = (IF s \in D THEN None ELSE drive[s]),
         s \in lost => s \in lost',
         s \in R \cup D =>
           \/ s \in lost'
           \/ ram[s] # None /\ s \notin R /\ s \notin Upload!Leaving
           \/ drive[s] # None /\ s \notin D
           \/ made[s] = rows[s] \/ made[s] = rejected[s]
  PROVE  StillThere(s) /\ (s \in Upload!Leaving => StaysKept(s))
<1>1. /\ made[s] # None
      /\ ram[s] # None => ram[s] = made[s]
      /\ drive[s] # None => drive[s] = made[s]
  BY FilesAreKnown
<1>2. CASE s \notin R \cup D
  <2>1. StaysKept(s)
    BY <1>2 DEF StaysKept, Upload!Kept
  <2> QED
    BY <1>2, <2>1 DEF StillThere, StaysKept
<1>3. CASE s \in R \cup D
  <2>1. ram'[s] = made'[s] \/ Upload!Kept(s)'
    BY <1>1, <1>3 DEF Upload!Kept
  <2>2. s \in Upload!Leaving => Upload!Kept(s)'
    BY <1>1, <1>3 DEF Upload!Kept
  <2> QED
    BY <2>1, <2>2 DEF StillThere, StaysKept
<1> QED
  BY <1>2, <1>3

LEMMA DiscardKeeps ==
  ASSUME Upload!FilesInv, NEW R, NEW D, Upload!Discard(R, D), UNCHANGED <<made, rejected, rows, short>>
  PROVE  /\ ram' \in [Upload!Segments -> Nat \cup {None}] /\ drive' \in [Upload!Segments -> Nat \cup {None}]
         /\ \A s \in Upload!Segments :
              /\ ram'[s] \in {ram[s], None} /\ drive'[s] \in {drive[s], None}
              /\ StillThere(s) /\ (s \in Upload!Leaving => StaysKept(s))
<1>1. ram' \in [Upload!Segments -> Nat \cup {None}] /\ drive' \in [Upload!Segments -> Nat \cup {None}]
  BY FilesAreKnown DEF Upload!Discard, Upload!Without
<1>2. ASSUME NEW s \in Upload!Segments
      PROVE  /\ ram'[s] \in {ram[s], None} /\ drive'[s] \in {drive[s], None}
             /\ StillThere(s) /\ (s \in Upload!Leaving => StaysKept(s))
  <2>1. ram'[s] = (IF s \in R THEN None ELSE ram[s]) /\ drive'[s] = (IF s \in D THEN None ELSE drive[s])
    BY DEF Upload!Discard, Upload!Without
  <2>2. /\ s \in lost => s \in lost'
        /\ s \in R \cup D =>
             \/ s \in lost'
             \/ ram[s] # None /\ s \notin R /\ s \notin Upload!Leaving
             \/ drive[s] # None /\ s \notin D
             \/ made[s] = rows[s] \/ made[s] = rejected[s]
    BY DEF Upload!Discard
  <2>3. StillThere(s) /\ (s \in Upload!Leaving => StaysKept(s))
    BY <2>1, <2>2, DiscardNotes
  <2> QED
    BY <2>1, <2>3
<1> QED
  BY <1>1, <1>2

\* A step of the recorder: the uploader's part stays.
LEMMA RecorderGoesOn ==
  ASSUME Upload!FilesInv, Upload!RecorderOnly, UNCHANGED <<made, short>>,
         Begun, next' \in 1..(Minutes + 1), copied' \in BOOLEAN,
         spill' \subseteq Upload!Segments, copied' => spill' # {},
         \A s \in spill' : s < next /\ s # ffmpeg',
         ram' \in [Upload!Segments -> Nat \cup {None}], drive' \in [Upload!Segments -> Nat \cup {None}],
         \A s \in Upload!Segments :
           /\ ram'[s] \in {ram[s], None} \/ (next' = next + 1 /\ s = next /\ ram'[s] = 0)
           /\ drive'[s] \in {drive[s], None} \/ (s \in spill /\ drive'[s] = ram[s])
           /\ StillThere(s),
         \A s \in Upload!Leaving' : Upload!Kept(s)'
  PROVE  Upload!FilesInv'
<1>1. UNCHANGED <<up, found, rejected, bucket, rows>>
  BY DEF Upload!RecorderOnly, Upload!uploader, Upload!server
<1>2. ffmpeg' \in {0, next' - 1}
  BY FilesAreKnown DEF Begun
<1>3. Upload!Formed'
  BY <1>1, <1>2, FilesAreKnown DEF Upload!Formed, Uploaded
<1>4. \A s \in Upload!Segments : Moved(s)
  BY <1>1, FilesAreKnown DEF Moved
<1> QED
  BY <1>3, <1>4, FilesGoOn

\* What waits in RAM is older than what ffmpeg writes.
LEMMA ReadyIsOver ==
  ASSUME Upload!FilesInv, NEW whole \in BOOLEAN, NEW s \in Upload!ToMove(whole)
  PROVE  s \in Upload!Segments /\ s < next /\ (~whole => s # ffmpeg)
<1>1. s \in Upload!Ready(whole)
  BY DEF Upload!ToMove, Upload!Oldest
<1>2. s \in Upload!In(ram) /\ (~whole => s \notin Upload!Newest(Upload!In(ram)))
  BY <1>1 DEF Upload!Ready
<1>3. \A t \in Upload!In(ram) : t \in Upload!Segments /\ t \in Nat /\ t < next
  BY FilesAreKnown DEF Upload!In
<1>4. ASSUME ~whole PROVE s # ffmpeg
  <2>1. PICK t \in Upload!In(ram) : ~(t <= s)
    BY <1>2, <1>4 DEF Upload!Newest
  <2> QED
    BY <1>2, <1>3, <2>1, FilesAreKnown
<1> QED
  BY <1>2, <1>3, <1>4

\* A new minute begins in RAM; what is pruned for it is as with every other discard.
LEMMA MinuteBegins ==
  ASSUME Upload!FilesInv, Upload!RecorderOnly, UNCHANGED <<made, short, spill, copied>>, NEW D,
         next \in Upload!Segments, next' = next + 1, ffmpeg' = next,
         ram' = [ram EXCEPT ![next] = 0], drive' = Upload!Without(drive, D),
         \A s \in Upload!Segments :
           /\ s \in lost => s \in lost'
           /\ s \in D => \/ s \in lost'
                         \/ ram[s] # None /\ s \notin Upload!Leaving
                         \/ made[s] = rows[s] \/ made[s] = rejected[s]
  PROVE  Upload!FilesInv'
<1>1. UNCHANGED <<rejected, rows>>
  BY DEF Upload!RecorderOnly, Upload!uploader, Upload!server
<1>2. /\ ram' \in [Upload!Segments -> Nat \cup {None}]
      /\ drive' \in [Upload!Segments -> Nat \cup {None}]
      /\ next' \in 1..(Minutes + 1)
  BY FilesAreKnown DEF Upload!Without
<1>3. ASSUME NEW s \in Upload!Segments
      PROVE  /\ ram'[s] = IF s = next THEN 0 ELSE ram[s]
             /\ drive'[s] = IF s \in D THEN None ELSE drive[s]
             /\ StillThere(s) /\ (s \in Upload!Leaving => StaysKept(s))
  <2>1. /\ ram'[s] = IF s = next THEN 0 ELSE ram[s]
        /\ drive'[s] = IF s \in D THEN None ELSE drive[s]
    BY FilesAreKnown DEF Upload!Without
  <2>2. CASE s = next
    <3>1. made[s] = 0 /\ made'[s] = 0
      BY <2>2, FilesAreKnown
    <3> QED
      BY <2>1, <3>1 DEF StillThere, StaysKept, Upload!Kept
  <2>3. CASE s # next
    <3> DEFINE R == {}
    <3>1. ram'[s] = (IF s \in R THEN None ELSE ram[s])
      BY <2>1, <2>3
    <3>2. s \in R \cup D =>
            \/ s \in lost'
            \/ ram[s] # None /\ s \notin R /\ s \notin Upload!Leaving
            \/ drive[s] # None /\ s \notin D
            \/ made[s] = rows[s] \/ made[s] = rejected[s]
      BY Zenon
    <3> HIDE DEF R
    <3>3. StillThere(s) /\ (s \in Upload!Leaving => StaysKept(s))
      BY <1>1, <2>1, <3>1, <3>2, DiscardNotes
    <3> QED
      BY <2>1, <3>3
  <2> QED
    BY <2>1, <2>2, <2>3
<1>4. Upload!Leaving' = Upload!Leaving /\ Upload!Leaving \subseteq Upload!Segments
  BY Zenon, FilesAreKnown DEF Upload!Leaving, Upload!Earliest
<1>5. \A s \in Upload!Leaving' : Upload!Kept(s)'
  BY <1>3, <1>4, FilesAreKnown DEF StaysKept
<1>6. \A s \in spill' : s < next /\ s # ffmpeg'
  BY FilesAreKnown
<1>7. Begun
  BY DEF Begun
<1> QED
  BY <1>2, <1>3, <1>5, <1>6, <1>7, FilesAreKnown, RecorderGoesOn

\* The first of the list is one file.
LEMMA FirstIsOne ==
  ASSUME Upload!FilesInv, NEW s \in Upload!Earliest(spill)
  PROVE  s \in spill /\ Upload!Earliest(spill) = {s}
<1>1. \A t \in spill : t \in Nat
  BY FilesAreKnown
<1> QED
  BY <1>1 DEF Upload!Earliest

\* The list of the copy in the background.
LEMMA SpillGoesOn ==
  ASSUME Upload!FilesInv, NEW whole \in BOOLEAN, NEW D, Upload!Spill(whole, D), Upload!RecorderOnly,
         UNCHANGED <<next, made, short>>,
         \/ ~whole /\ UNCHANGED <<ffmpeg, copied>>
         \/ whole /\ ffmpeg' = 0 /\ copied' = FALSE /\ spill = {}
  PROVE  Upload!FilesInv'
<1>1. UNCHANGED <<rejected, rows>>
  BY DEF Upload!RecorderOnly, Upload!uploader, Upload!server
<1>2. PICK R : Upload!Discard(R, D)
  BY DEF Upload!Spill
<1>3. /\ ram' \in [Upload!Segments -> Nat \cup {None}] /\ drive' \in [Upload!Segments -> Nat \cup {None}]
      /\ \A s \in Upload!Segments :
           /\ ram'[s] \in {ram[s], None} /\ drive'[s] \in {drive[s], None}
           /\ StillThere(s) /\ (s \in Upload!Leaving => StaysKept(s))
  BY <1>1, <1>2, DiscardKeeps
<1>4. /\ spill' \subseteq Upload!Segments /\ \A s \in spill' : s < next /\ s # ffmpeg'
  <2>1. CASE spill' = spill
    <3>1. \A s \in spill : s # 0
      BY FilesAreKnown
    <3> QED
      BY <2>1, <3>1, FilesAreKnown
  <2>2. CASE spill' = Upload!ToMove(whole)
    <3>1. \A s \in Upload!Segments : s # 0
      BY FilesAreKnown
    <3> QED
      BY <2>2, <3>1, ReadyIsOver
  <2> QED
    BY <2>1, <2>2 DEF Upload!Spill
<1>5. (copied' => copied /\ spill' = spill /\ spill # {}) /\ copied' \in BOOLEAN
  <2>1. copied => spill' = spill /\ spill # {}
    BY FilesAreKnown DEF Upload!Spill
  <2>2. copied \in BOOLEAN
    BY FilesAreKnown
  <2>3. (copied' => copied) /\ copied' \in BOOLEAN
    <3>1. copied' = copied \/ copied' = FALSE
      OBVIOUS
    <3>2. CASE copied' = copied
      BY <2>2, <3>2
    <3>3. CASE copied' = FALSE
      BY <3>3
    <3> QED
      BY <3>1, <3>2, <3>3
  <2> QED
    BY <2>1, <2>3, Zenon
<1>6. \A s \in Upload!Leaving' : Upload!Kept(s)'
  <2>1. CASE copied'
    <3>1. copied /\ spill' = spill
      BY <1>5, <2>1
    <3>2. Upload!Leaving' = Upload!Leaving /\ Upload!Leaving \subseteq Upload!Segments
      BY <2>1, <3>1, FilesAreKnown DEF Upload!Leaving, Upload!Earliest
    <3> QED
      BY <1>3, <3>2, FilesAreKnown DEF StaysKept
  <2>2. CASE ~copied'
    BY <2>2 DEF Upload!Leaving
  <2> QED
    BY <2>1, <2>2
<1>7. Begun
  BY DEF Begun
<1>8. next' \in 1..(Minutes + 1)
  BY FilesAreKnown
<1> QED
  BY <1>3, <1>4, <1>5, <1>6, <1>7, <1>8, RecorderGoesOn

\* Files stay where they are, and the list of the copy is as it was or given up.
LEMMA FilesStay ==
  ASSUME Upload!FilesInv, Upload!RecorderOnly, UNCHANGED <<next, made, short, ram, drive, lost>>,
         ffmpeg' \in {ffmpeg, 0},
         \/ UNCHANGED <<spill, copied>>
         \/ spill' = {} /\ copied' = FALSE
  PROVE  Upload!FilesInv'
<1>1. UNCHANGED <<rejected, rows>>
  BY DEF Upload!RecorderOnly, Upload!uploader, Upload!server
<1>2. \A s \in Upload!Segments : StillThere(s) /\ StaysKept(s)
  BY <1>1 DEF StillThere, StaysKept, Upload!Kept
<1>3. Upload!Leaving' \subseteq Upload!Leaving /\ Upload!Leaving \subseteq Upload!Segments
  BY FilesAreKnown DEF Upload!Leaving, Upload!Earliest
<1>4. \A s \in Upload!Leaving' : Upload!Kept(s)'
  BY <1>2, <1>3, FilesAreKnown DEF StaysKept
<1>5. spill' \subseteq spill /\ \A s \in spill : s # 0
  BY FilesAreKnown
<1>6. Begun
  BY DEF Begun
<1>7. copied' \in BOOLEAN /\ (copied' => spill' # {})
  <2>1. copied \in BOOLEAN /\ (copied => spill # {})
    BY FilesAreKnown
  <2>2. (copied' = copied /\ spill' = spill) \/ copied' = FALSE
    OBVIOUS
  <2>3. CASE copied' = copied /\ spill' = spill
    BY <2>1, <2>3
  <2>4. CASE copied' = FALSE
    BY <2>4
  <2> QED
    BY <2>2, <2>3, <2>4
<1>8. /\ \A s \in spill' : s < next /\ s # ffmpeg'
      /\ spill' \subseteq Upload!Segments
      /\ next' \in 1..(Minutes + 1)
      /\ ram' \in [Upload!Segments -> Nat \cup {None}]
      /\ drive' \in [Upload!Segments -> Nat \cup {None}]
  BY <1>5, FilesAreKnown
<1> QED
  BY <1>2, <1>4, <1>6, <1>7, <1>8, RecorderGoesOn

LEMMA CopyGoesOn ==
  ASSUME Upload!FilesInv, Upload!SpillCopies \/ Upload!SpillRemoves
  PROVE  Upload!FilesInv'
<1>1. /\ Upload!RecorderOnly /\ UNCHANGED <<ffmpeg, next, made, lost, short>>
      /\ UNCHANGED <<rejected, rows>> /\ next' \in 1..(Minutes + 1)
  BY FilesAreKnown DEF Upload!SpillCopies, Upload!SpillRemoves, Upload!RecorderOnly, Upload!uploader, Upload!server
<1>2. PICK s \in Upload!Earliest(spill) :
        \/ /\ ~copied /\ ram[s] # None /\ copied' = TRUE
           /\ drive' = [drive EXCEPT ![s] = ram[s]] /\ UNCHANGED <<ram, spill>>
        \/ ~copied /\ spill' = {} /\ copied' = FALSE /\ UNCHANGED <<ram, drive>>
        \/ /\ copied /\ copied' = FALSE
           /\ ram' = Upload!Without(ram, {s}) /\ spill' = spill \ {s} /\ UNCHANGED drive
  <2>1. copied \in BOOLEAN
    BY FilesAreKnown
  <2> QED
    BY <2>1, Zenon DEF Upload!SpillCopies, Upload!SpillRemoves
<1>3. /\ s \in spill /\ Upload!Earliest(spill) = {s} /\ s \in Upload!Segments
      /\ \A t \in Upload!Segments :
           /\ made[t] # None
           /\ ram[t] # None => ram[t] = made[t]
           /\ drive[t] # None => drive[t] = made[t]
  BY FilesAreKnown, FirstIsOne
<1>4. Begun
  BY <1>1 DEF Begun
<1>5. CASE /\ ~copied /\ ram[s] # None /\ copied' = TRUE
           /\ drive' = [drive EXCEPT ![s] = ram[s]] /\ UNCHANGED <<ram, spill>>
  <2>1. drive' \in [Upload!Segments -> Nat \cup {None}] /\ ram' \in [Upload!Segments -> Nat \cup {None}]
    BY <1>3, <1>5, FilesAreKnown
  <2>2. \A t \in Upload!Segments : drive'[t] = IF t = s THEN ram[s] ELSE drive[t]
    BY <1>5, FilesAreKnown
  <2>3. \A t \in Upload!Segments : StillThere(t)
    BY <1>1, <1>3, <1>5, <2>2 DEF StillThere, Upload!Kept
  <2>4. \A t \in Upload!Leaving' : Upload!Kept(t)'
    <3>1. Upload!Leaving' = {s}
      BY <1>3, <1>5 DEF Upload!Leaving, Upload!Earliest
    <3>2. made'[s] = drive'[s]
      BY <1>1, <1>3, <1>5, <2>2
    <3> QED
      BY <3>1, <3>2 DEF Upload!Kept
  <2>5. \A t \in spill' : t < next /\ t # ffmpeg'
    BY <1>1, <1>5, FilesAreKnown
  <2>6. \A t \in Upload!Segments : drive'[t] \in {drive[t], None} \/ (t \in spill /\ drive'[t] = ram[t])
    BY <1>3, <2>2
  <2>7. spill' \subseteq Upload!Segments /\ spill' # {}
    BY <1>3, <1>5, FilesAreKnown
  <2> QED
    BY <1>1, <1>4, <1>5, <2>1, <2>3, <2>4, <2>5, <2>6, <2>7, RecorderGoesOn
<1>6. CASE ~copied /\ spill' = {} /\ copied' = FALSE /\ UNCHANGED <<ram, drive>>
  BY <1>1, <1>6, FilesStay
<1>7. CASE /\ copied /\ copied' = FALSE
           /\ ram' = Upload!Without(ram, {s}) /\ spill' = spill \ {s} /\ UNCHANGED drive
  <2>1. drive' \in [Upload!Segments -> Nat \cup {None}] /\ ram' \in [Upload!Segments -> Nat \cup {None}]
    BY <1>7, FilesAreKnown DEF Upload!Without
  <2>2. \A t \in Upload!Segments : ram'[t] = IF t = s THEN None ELSE ram[t]
    BY <1>7 DEF Upload!Without
  <2>3. Upload!Kept(s)
    BY <1>3, <1>7, FilesAreKnown DEF Upload!Leaving
  <2>4. \A t \in Upload!Segments : StillThere(t)
    BY <1>1, <1>7, <2>2, <2>3 DEF StillThere, Upload!Kept
  <2>5. Upload!Leaving' = {}
    BY <1>7 DEF Upload!Leaving
  <2>6. (\A t \in spill' : t < next /\ t # ffmpeg') /\ spill' \subseteq Upload!Segments
    BY <1>1, <1>7, FilesAreKnown
  <2> QED
    BY <1>1, <1>4, <1>7, <2>1, <2>2, <2>4, <2>5, <2>6, RecorderGoesOn
<1> QED
  BY <1>2, <1>5, <1>6, <1>7

\* Only this makes a segment grow: its copy in RAM, or what is missing everywhere.
LEMMA WritingKeeps ==
  ASSUME Upload!FilesInv, Upload!Write
  PROVE  Upload!FilesInv'
<1>1. /\ UNCHANGED <<next, ffmpeg, spill, copied, drive, lost>> /\ UNCHANGED <<up, found, rejected, bucket, rows>>
      /\ made' = [made EXCEPT ![ffmpeg] = made[ffmpeg] + 1] /\ ffmpeg \in Upload!Segments /\ ffmpeg < next
      /\ \/ ram[ffmpeg] # None /\ ram' = [ram EXCEPT ![ffmpeg] = ram[ffmpeg] + 1] /\ short' = short
         \/ ram[ffmpeg] = None /\ short' = short \cup {ffmpeg} /\ ram' = ram
  BY FilesAreKnown DEF Upload!Write, Upload!RecorderOnly, Upload!uploader, Upload!server
<1>2. ASSUME NEW s \in Upload!Segments
      PROVE  /\ s # ffmpeg => made'[s] = made[s] /\ ram'[s] = ram[s]
             /\ s = ffmpeg => /\ made'[s] \in Nat
                              /\ \/ ram[s] # None /\ ram'[s] = made'[s]
                                 \/ ram'[s] = None /\ s \in short'
             /\ s \in short => s \in short'
             /\ ram'[s] # None <=> ram[s] # None
  <2>1. made[s] \in Nat /\ (ram[s] # None => ram[s] = made[s]) /\ None \notin Nat
    BY FilesAreKnown
  <2>2. /\ made'[s] = IF s = ffmpeg THEN made[s] + 1 ELSE made[s]
        /\ \/ ram[ffmpeg] # None /\ ram'[s] = (IF s = ffmpeg THEN ram[s] + 1 ELSE ram[s]) /\ short' = short
           \/ ram[ffmpeg] = None /\ short' = short \cup {ffmpeg} /\ ram'[s] = ram[s]
    BY <1>1, FilesAreKnown
  <2> QED
    BY <2>1, <2>2
<1>3. Upload!Formed'
  <2>1. made' \in [Upload!Segments -> Nat] /\ ram' \in [Upload!Segments -> Nat \cup {None}]
    <3>1. made[ffmpeg] + 1 \in Nat /\ (ram[ffmpeg] # None => ram[ffmpeg] + 1 \in Nat)
      BY <1>1, FilesAreKnown
    <3> QED
      BY <1>1, <3>1, FilesAreKnown
  <2> QED
    BY <1>1, <2>1 DEF Upload!FilesInv, Upload!Formed
<1>4. Upload!CopiesAreTrue'
  <2>1. ASSUME NEW s \in Upload!Segments
        PROVE  /\ s >= next => made'[s] = 0
               /\ ram'[s] # None => s < next /\ ram'[s] = made'[s]
               /\ drive[s] # None => s < next /\ s # ffmpeg /\ drive[s] = made'[s]
               /\ rows[s] # None => rows[s] = bucket[s]
    <3>1. CASE s = ffmpeg
      <4>1. ~(s >= next) /\ drive[s] = None /\ (rows[s] # None => rows[s] = bucket[s])
        BY <1>1, <3>1, FilesAreKnown
      <4> QED
        BY <1>1, <1>2, <3>1, <4>1
    <3>2. CASE s # ffmpeg
      BY <1>2, <3>2, FilesAreKnown
    <3> QED
      BY <3>1, <3>2
  <2> QED
    BY <1>1, <2>1 DEF Upload!CopiesAreTrue
<1>5. \A s \in Upload!Segments : Upload!Kept(s) /\ s # ffmpeg => Upload!Kept(s)'
  BY <1>1, <1>2 DEF Upload!Kept
<1>6. Upload!SpillIsOver'
  <2>1. Upload!Leaving' = Upload!Leaving /\ Upload!Leaving \subseteq spill /\ spill \subseteq Upload!Segments
    BY <1>1, FilesAreKnown DEF Upload!Leaving, Upload!Earliest
  <2>2. \A s \in Upload!Leaving' : Upload!Kept(s)'
    BY <1>5, <2>1, FilesAreKnown
  <2> QED
    BY <1>1, <2>2, FilesAreKnown DEF Upload!SpillIsOver
<1>7. Upload!NothingGetsLost'
  <2>1. ASSUME NEW s \in 1..(next - 1)
        PROVE  ram'[s] = made'[s] \/ Upload!Kept(s)'
    <3>1. s \in Upload!Segments /\ (ram[s] = made[s] \/ Upload!Kept(s))
      BY FilesAreKnown
    <3>2. CASE s = ffmpeg
      BY <1>2, <3>1, <3>2 DEF Upload!Kept
    <3>3. CASE s # ffmpeg
      BY <1>2, <1>5, <3>1, <3>3
    <3> QED
      BY <3>2, <3>3
  <2> QED
    BY <1>1, <2>1 DEF Upload!NothingGetsLost, Upload!Kept
<1> QED
  BY <1>3, <1>4, <1>6, <1>7 DEF Upload!FilesInv

\* Whoever is at work, and whatever happens to them.
LEMMA FilesGoOnAlways ==
  ASSUME Upload!FilesInv,
         Upload!Record \/ Upload!Upload \/ Upload!PauseEnds \/ Upload!Accident \/ UNCHANGED upload
  PROVE  Upload!FilesInv'
<1>1. CASE Upload!StartRecording
  <2>1. \A s \in Upload!Segments :
          /\ s \in lost => s \in lost'
          /\ s \in Upload!Pruned => \/ s \in lost'
                                    \/ ram[s] # None /\ s \notin Upload!Leaving
                                    \/ made[s] = rows[s] \/ made[s] = rejected[s]
    BY <1>1 DEF Upload!StartRecording
  <2>2. next \in Upload!Segments
    BY <1>1, FilesAreKnown DEF Upload!StartRecording
  <2> QED
    BY <1>1, <2>1, <2>2, MinuteBegins DEF Upload!StartRecording
<1>2. CASE Upload!NextSegment
  <2> DEFINE D == {}
  <2>1. drive' = Upload!Without(drive, D)
    BY <1>2, FilesAreKnown DEF Upload!NextSegment, Upload!Without
  <2>2. \A s \in Upload!Segments : (s \in lost => s \in lost') /\ s \notin D
    BY <1>2 DEF Upload!NextSegment
  <2>3. next \in Upload!Segments
    BY <1>2, FilesAreKnown DEF Upload!NextSegment
  <2> HIDE DEF D
  <2> QED
    BY <1>2, <2>1, <2>2, <2>3, MinuteBegins DEF Upload!NextSegment
<1>3. CASE Upload!Tend
  BY <1>3, SpillGoesOn DEF Upload!Tend
<1>4. CASE Upload!RecorderRestarts
  <2>1. CASE spill = {} /\ Upload!Spill(TRUE, {})
    <3> DEFINE D == {}
    <3>1. Upload!Spill(TRUE, D)
      BY <2>1
    <3> HIDE DEF D
    <3> QED
      BY <1>4, <2>1, <3>1, SpillGoesOn DEF Upload!RecorderRestarts
  <2>2. CASE spill' = {} /\ UNCHANGED <<ram, drive, lost>>
    BY <1>4, <2>2, FilesStay DEF Upload!RecorderRestarts
  <2> QED
    BY <1>4, <2>1, <2>2 DEF Upload!RecorderRestarts
<1>5. CASE Upload!Stall \/ Upload!FfmpegEnds \/ Upload!DriveHangs
  BY <1>5, FilesStay DEF Upload!Stall, Upload!FfmpegEnds, Upload!DriveHangs
<1>6. CASE Upload!UploaderRestarts \/ Upload!PauseBegins \/ Upload!PauseEnds \/ UNCHANGED upload
  <2>1. UploadIsTyped
    <3>1. (UNCHANGED up \/ up' = Upload!Idle) /\ found' \subseteq found
      BY <1>6 DEF Upload!UploaderRestarts, Upload!PauseBegins, Upload!PauseEnds, Upload!uploader, upload
    <3>2. Upload!Idle \in Upload!Uploads /\ Upload!Idle.at = "idle"
      BY FilesAreKnown DEF Upload!Idle, Upload!Uploads
    <3> QED
      BY <3>1, <3>2, FilesAreKnown DEF UploadIsTyped
  <2> QED
    BY <1>6, <2>1, NothingMoves
    DEF Upload!UploaderRestarts, Upload!PauseBegins, Upload!PauseEnds, Upload!UploaderOnly,
        Upload!recorder, Upload!server, upload
<1>7. CASE Upload!Cut
  <2> DEFINE R == Upload!In(ram)
             D == {}
  <2>1. /\ Upload!Discard(R, D) /\ ffmpeg' = 0 /\ next' = next /\ spill' = {} /\ copied' = FALSE
        /\ up' = Upload!Idle /\ found' = {} /\ UNCHANGED <<made, rejected, bucket, rows, short>>
    BY <1>7 DEF Upload!Cut, Upload!server
  <2> HIDE DEF R, D
  <2>2. /\ ram' \in [Upload!Segments -> Nat \cup {None}] /\ drive' \in [Upload!Segments -> Nat \cup {None}]
        /\ \A s \in Upload!Segments :
             ram'[s] \in {ram[s], None} /\ drive'[s] \in {drive[s], None} /\ StillThere(s)
    BY <2>1, DiscardKeeps
  <2>3. Upload!Idle \in Upload!Uploads /\ Upload!Idle.at = "idle"
    BY FilesAreKnown DEF Upload!Idle, Upload!Uploads
  <2>4. copied' \in BOOLEAN /\ ~copied' /\ Upload!Leaving' = {}
    BY <2>1 DEF Upload!Leaving
  <2>5. Upload!Formed'
    BY <2>1, <2>2, <2>3, <2>4, FilesAreKnown DEF Upload!Formed
  <2>6. Begun
    BY <2>1 DEF Begun
  <2>7. \A s \in Upload!Segments : Moved(s)
    BY <2>1, <2>2, FilesAreKnown DEF Moved
  <2> QED
    BY <2>1, <2>2, <2>4, <2>5, <2>6, <2>7, FilesGoOn
<1>8. CASE Upload!Write
  BY <1>8, WritingKeeps
<1>9. CASE Upload!SpillCopies \/ Upload!SpillRemoves
  BY <1>9, CopyGoesOn
<1>10. CASE Upload!Upload
  BY <1>10, UploaderKeeps
<1> QED
  BY <1>1, <1>2, <1>3, <1>4, <1>5, <1>6, <1>7, <1>8, <1>9, <1>10 DEF Upload!Record, Upload!Accident

\* A minute of video is in RAM, on the drive, put aside, or stored and registered, whatever
\* is moved, dropped, cut off and sent again, unless it was dropped for want of room or power
\* (recorder.sh, uploader.c, video.js:75-92); what the worker has made of the minutes has
\* each of them once and no seam between (db.py:10-12, 127-131).
THEOREM MinutesStayWhole == JobsSpec => []MinutesAreWhole
<1> DEFINE Inv == Upload!FilesInv /\ Analysis!MinutesInv
<1>1. JobsInit => Inv
  BY UploadBegins, AnalysisBegins DEF JobsInit, MCInit
<1>2. Inv /\ [MCNext]_all => Inv'
  <2>1. Upload!FilesInv /\ [MCNext]_all => Upload!FilesInv'
    BY FilesGoOnAlways
    DEF MCNext, all, Updating, LoggingIn, Linking, Drawing, Ordering, Uploading, Analysing
  <2>2. UNCHANGED analysis => UNCHANGED Analysis!vars
    BY DEF analysis, Analysis!vars, Analysis!queue, Analysis!written, Analysis!scars
  <2>3. Analysis!MinutesInv /\ [MCNext]_all => Analysis!MinutesInv'
    BY <2>2, AnalysisGoesOn
    DEF MCNext, all, Updating, LoggingIn, Linking, Drawing, Ordering, Uploading, Analysing, Analysis!Next
  <2> QED
    BY <2>1, <2>3
<1>3. Inv => MinutesAreWhole
  BY MinutesInvIsWhole DEF MinutesAreWhole, Upload!FilesInv
<1> QED
  BY <1>1, <1>2, <1>3, PTL DEF JobsSpec
=============================================================================
