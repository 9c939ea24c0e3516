------------------------------ MODULE MCDevice ------------------------------
(***************************************************************************)
(* Small instances of the parts around the device of a point, none of      *)
(* which touches the state of another: BonusFlow, Telemetry, KernelLog,    *)
(* KioskScreen, BonusScreen, Overseer and Outage.  A behaviour is one of   *)
(* them (part).  BonusFlow has its own variables; x1 to x14 are those of   *)
(* whichever other part it is, in the order of its module.                 *)
(*                                                                         *)
(* Bonuses: at most MaxInbox messages wait in the socket and MaxQueue      *)
(* events between the threads of the kiosk, and at most MaxFaults times    *)
(* does a connection break, a kiosk restart, or a snapshot, a publication  *)
(* or a pass of the outbox fail.                                           *)
(***************************************************************************)
EXTENDS BonusFlow, TLC

CONSTANTS
  MaxInbox, MaxQueue, MaxFaults,
  QueueMax, BatchMax, ApiMaxBatch, MaxSamples, MaxBoots, MaxRestarts,  \* of Telemetry
  LinesMax, MaxErrors, MaxLogBoots, MaxStarts                          \* of KernelLog

VARIABLES part, faults, x1, x2, x3, x4, x5, x6, x7, x8, x9, x10, x11, x12, x13, x14

\* Receipts and players are interchangeable; no other part knows of them.
Copies == Permutations(Receipts) \cup Permutations(Players)

Samples == INSTANCE Telemetry WITH
       boot <- x1, restarts <- x2, lag <- x3, ntp <- x4, pc <- x5, prevLag <- x6, unsure <- x7,
       queue <- x8, posts <- x9, answer <- x10, rows <- x11, keys <- x12, trimmed <- x13
Kernel == INSTANCE KernelLog WITH
       epoch <- x1, starts <- x2, log <- x3, seen <- x4, pend <- x5, dropped <- x6, skip <- x7,
       sentSeq <- x8, posting <- x9, request <- x10, onWay <- x11, taken <- x12, file <- x13,
       stored <- x14
Screen == INSTANCE KioskScreen WITH
       now <- x1, bucket <- x2, edge <- x3, cache <- x4, png <- x5, hash <- x6, kiosk <- x7,
       torn <- x8, cuts <- x9,
       Kiosks <- {"kiosk"}, Looks <- {"a", "b"}, Prices <- {1}, Refresh <- 2, MaxAge <- 1,
       Window <- 1, MaxPublished <- 2, MaxCuts <- 1, Horizon <- 3, CanFail <- FALSE
Panel == INSTANCE BonusScreen WITH
       fate <- x1, life <- x2, events <- x3, snap <- x4, rows <- x5, popup <- x6, snaps <- x7,
       Grants <- {"g1", "g2"}, MaxRows <- 2, Batch <- 2, QueueCap <- 2, Ttl <- 9, Hold <- 5,
       TakenHold <- 1, MaxSnaps <- 1
Round == INSTANCE Overseer WITH
       hung <- x1, light <- x2, plug <- x3, silent <- x4, broken <- x5, pc <- x6, left <- x7,
       try <- x8, lines <- x9, reboots <- x10, seen <- x11, chat <- x12, cuts <- x13,
       stops <- x14,
       Silence <- 1, After <- 2, Cooldown <- 2, Day <- 5, PerDay <- 2, Tries <- 2,
       Faults <- {"card"}, MaxStops <- 1
Gap == INSTANCE Outage WITH
       now <- x1, device <- x2, uptime <- x3, lag <- x4, queue <- x5, newest <- x6, anchor <- x7,
       trouble <- x8,
       OutageMin <- 3, Slack <- 2, MaxLag <- 1, Horizon <- 8

ASSUME SamplesAreSound == Samples!ConstantsAreSound
ASSUME KernelIsSound == Kernel!ConstantsAreSound

\* A part with n variables leaves the others as they are.
Unused(n) ==
  /\ n < 1 => x1 = None /\ x2 = None /\ x3 = None /\ x4 = None /\ x5 = None /\ x6 = None
              /\ x7 = None
  /\ n < 8 => x8 = None
  /\ n < 9 => x9 = None
  /\ n < 10 => x10 = None /\ x11 = None /\ x12 = None /\ x13 = None
  /\ n < 14 => x14 = None
Kept(n) ==
  /\ n < 1 => UNCHANGED <<x1, x2, x3, x4, x5, x6, x7>>
  /\ n < 8 => UNCHANGED x8
  /\ n < 9 => UNCHANGED x9
  /\ n < 10 => UNCHANGED <<x10, x11, x12, x13>>
  /\ n < 14 => UNCHANGED x14

MCInit ==
  /\ Init /\ faults = 0
  /\ \/ part = "bonuses" /\ Unused(0)
     \/ part = "telemetry" /\ Samples!Init /\ Unused(13)
     \/ part = "kernel" /\ Kernel!Init
     \/ part = "screen" /\ Screen!Init /\ Unused(9)
     \/ part = "popup" /\ Panel!Init /\ Unused(7)
     \/ part = "overseer" /\ Round!Init
     \/ part = "outage" /\ Gap!Init /\ Unused(8)

Fault ==
  \/ Disconnect \/ Restart
  \/ FetchFails
  \/ DrainAborts \/ \E i \in drain.todo : PublishFails(i)

Earning ==
  /\ part = "bonuses" /\ Next
  /\ Len(inbox') <= MaxInbox
  /\ Len(queue') <= MaxQueue
  /\ faults' = IF Fault THEN faults + 1 ELSE faults
  /\ faults' <= MaxFaults
  /\ Kept(0) /\ UNCHANGED part

Other ==
  /\ \/ part = "telemetry" /\ Samples!Next /\ Kept(13)
     \/ part = "kernel" /\ Kernel!Next
     \/ part = "screen" /\ Screen!Next /\ Kept(9)
     \/ part = "popup" /\ Panel!Next /\ Kept(7)
     \/ part = "overseer" /\ Round!Next
     \/ part = "outage" /\ Gap!Next /\ Kept(8)
  /\ UNCHANGED <<part, faults, vars>>

MCNext == Earning \/ Other

mcVars == <<part, faults, vars, x1, x2, x3, x4, x5, x6, x7, x8, x9, x10, x11, x12, x13, x14>>
MCSpec == MCInit /\ [][MCNext]_mcVars

\* What the point measured and the errors of its kernel arrive: a sample stays
\* until the server has it, and of errors that do not fit the first are kept
\* (Telemetry, KernelLog).
TelemetryArrives ==
  /\ part = "telemetry" => Samples!NoSampleIsLost
  /\ part = "kernel" => Kernel!FirstErrorArrives

\* What stands on the screen of the point is so: the menu is the one that was
\* drawn from one publication, and a bonus is shown long enough to be claimed
\* (KioskScreen, BonusScreen).
PointShowsTheTruth ==
  /\ part = "screen" => Screen!ScreenAndPictureAreTrue
  /\ part = "popup" => Panel!BonusIsSeen

\* The overseer cuts the power only as often as it may, and an outage is told
\* with its cause (Overseer, Outage).
OverseerIsFair ==
  [](part = "overseer" => Round!CutsAreFew) /\ [][part = "outage" => Gap!CauseIsFound]_mcVars
=============================================================================
