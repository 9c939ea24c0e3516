---------------------------- MODULE VideoUpload ----------------------------
(***************************************************************************)
(* How a minute of the camera gets from a point into the bucket.           *)
(* recorder.sh has ffmpeg write segments into RAM and moves those that     *)
(* wait too long to the flash drive, in the background; bin/uploader (or   *)
(* uploader.sh) takes RAM first, then the drive: a signed link from the    *)
(* api, the object, the registration, and only then the local copy goes.   *)
(* The bucket is locked: an object that is there cannot be overwritten.    *)
(*                                                                         *)
(* A file is known by its size: 0, 1 or 2 (complete).  Segments are        *)
(* numbered in the order of their names.  Rates, pings, pauses after a     *)
(* failure and the messages are left out.                                  *)
(***************************************************************************)
EXTENDS Integers, FiniteSets

CONSTANTS
  N,         \* segments that are recorded
  RamKeep,   \* RECORDER_RAM_KEEP
  RamMax,    \* RECORDER_RAM_MAX
  Room,      \* segments the drive holds before prune takes the oldest
  Batch,     \* UPLOAD_BATCH
  None

ConstantsAreSound ==
  /\ N \in Nat /\ Batch \in Nat \ {0} /\ Room \in Nat
  /\ RamKeep \in Nat /\ RamMax \in Nat /\ RamKeep <= RamMax
  /\ None \notin Nat

Segments == 1..N
Sizes == 0..2
Files == [Segments -> Sizes \cup {None}]
NoFiles == [s \in Segments |-> None]

VARIABLES
  mode,      \* the uploader is bin/uploader; the script, which sees the drive
             \* only and knows no pause; or there is no key to upload with
  ffmpeg,    \* the segment ffmpeg writes, 0 when it does not run
  next,      \* the next segment
  quiet,     \* it has not written for over a minute
  since,     \* segments begun since the recorder last looked after RAM and drive
  ram,
  drive,
  rejected,  \* rejected/ on the drive
  spill,     \* what the background copy still has to move, in the order of the names
  copied,    \* the first of it is on the drive already
  hung,      \* the drive hangs in the kernel
  mark,      \* state/upload.current
  paused,    \* state/pause.uploader is fresh
  pass,      \* what the uploader has found and not tried yet, RAM before the drive
  up,        \* the upload under way
  bucket,
  rows,      \* video_segments: the registered size
  made,      \* what ffmpeg has written of a segment
  lost,      \* segments that power, the limits of RAM or of the drive took
  short      \* segments of which the end was written into a file already gone

recorder == <<ffmpeg, next, quiet, since, spill, copied, hung, made>>
uploader == <<mode, mark, pass, up>>
server == <<bucket, rows>>
vars == <<recorder, uploader, server, ram, drive, rejected, paused, lost, short>>

Idle == [at |-> "idle", place |-> None, seg |-> 0, bytes |-> 0]
Item == [place : {"ram", "drive"}, seg : Segments]
Uploads == [at : {"idle", "ask", "put", "register", "exists"},
            place : {"ram", "drive", None}, seg : 0..N, bytes : Nat]

TypeOK ==
  /\ ffmpeg \in 0..N /\ next \in 1..(N + 1) /\ since \in 0..N
  /\ mode \in {"bin", "script", "keyless"}
  /\ {quiet, copied, hung, paused} \subseteq BOOLEAN
  /\ {ram, drive, rejected, bucket, rows} \subseteq Files
  /\ made \in [Segments -> Sizes]
  /\ spill \subseteq Segments /\ pass \subseteq Item
  /\ mark \in Segments \cup {None}
  /\ up \in Uploads
  /\ lost \subseteq Segments /\ short \subseteq Segments

Init ==
  /\ mode \in {"bin", "script", "keyless"}
  /\ ffmpeg = 0 /\ next = 1 /\ quiet = FALSE /\ since = 0
  /\ ram = NoFiles /\ drive = NoFiles /\ rejected = NoFiles
  /\ spill = {} /\ copied = FALSE /\ hung = FALSE
  /\ mark = None /\ paused = FALSE /\ pass = {} /\ up = Idle
  /\ bucket = NoFiles /\ rows = NoFiles
  /\ made = [s \in Segments |-> 0] /\ lost = {} /\ short = {}

In(dir) == {s \in Segments : dir[s] # None}
Earliest(S) == {s \in S : \A t \in S : s <= t}
Oldest(S, k) == {s \in S : Cardinality({t \in S : t < s}) < k}
Without(dir, S) == [s \in Segments |-> IF s \in S THEN None ELSE dir[s]]

(***************************************************************************)
(* The recorder.                                                           *)
(***************************************************************************)
RecorderOnly == UNCHANGED <<uploader, server, rejected, paused>>

\* The file in RAM that goes when its copy is done.
Leaving == IF copied THEN Earliest(spill) ELSE {}

\* Files that go, and what goes with them for good.
Discard(fromRam, fromDrive) ==
  /\ ram' = Without(ram, fromRam)
  /\ drive' = Without(drive, fromDrive)
  /\ lost' = lost \cup
       {s \in fromRam \cup fromDrive :
          /\ ram[s] = None \/ s \in fromRam \cup Leaving
          /\ drive[s] = None \/ s \in fromDrive
          /\ made[s] \notin {rows[s], rejected[s]}}

\* prune: the oldest on the drive go until there is room.  On a drive that
\* hangs the recorder hangs with it.
Pruned ==
  LET over == Cardinality(In(drive)) - Room
  IN  IF over > 0 THEN Oldest(In(drive), over) ELSE {}
Stuck == hung /\ Pruned # {}

StartRecording ==
  /\ ffmpeg = 0 /\ next <= N /\ ~Stuck
  /\ ffmpeg' = next /\ next' = next + 1
  /\ drive' = Without(drive, Pruned)
  /\ lost' = lost \cup {s \in Pruned : /\ ram[s] = None \/ s \in Leaving
                                      /\ made[s] \notin {rows[s], rejected[s]}}
  /\ ram' = [ram EXCEPT ![next] = 0]
  /\ quiet' = FALSE /\ since' = since + 1
  /\ UNCHANGED <<spill, copied, hung, made, short>>
  /\ RecorderOnly

Write ==
  /\ ffmpeg # 0 /\ made[ffmpeg] < 2
  /\ made' = [made EXCEPT ![ffmpeg] = @ + 1]
  /\ quiet' = FALSE
  /\ IF ram[ffmpeg] # None
     THEN ram' = [ram EXCEPT ![ffmpeg] = @ + 1] /\ short' = short
     ELSE short' = short \cup {ffmpeg} /\ ram' = ram
  /\ UNCHANGED <<ffmpeg, next, since, spill, copied, hung, drive, lost>>
  /\ RecorderOnly

\* The next minute.  The recorder looks after its files every half a minute.
NextSegment ==
  /\ ffmpeg # 0 /\ made[ffmpeg] = 2 /\ next <= N /\ (since = 0 \/ Stuck)
  /\ ffmpeg' = next /\ next' = next + 1
  /\ ram' = [ram EXCEPT ![next] = 0]
  /\ quiet' = FALSE /\ since' = since + 1
  /\ UNCHANGED <<spill, copied, hung, made, drive, lost, short>>
  /\ RecorderOnly

\* The stream stands still, longer than a minute and not yet three.
Stall ==
  /\ ffmpeg # 0 /\ ~quiet
  /\ quiet' = TRUE
  /\ UNCHANGED <<ffmpeg, next, since, spill, copied, hung, made, ram, drive, lost, short>>
  /\ RecorderOnly

FfmpegEnds ==
  /\ ffmpeg # 0
  /\ ffmpeg' = 0
  /\ UNCHANGED <<next, quiet, since, spill, copied, hung, made, ram, drive, lost, short>>
  /\ RecorderOnly

\* ram_spill: beyond RAM_MAX the oldest are dropped, whatever the copy does;
\* then a copy of all but `keep` is started, if none is running.
Newest(S) == {s \in S : \A t \in S : t <= s}
Ready(all) == In(ram) \ (IF all THEN {} ELSE Newest(In(ram)))
Dropped(all) ==
  IF Cardinality(Ready(all)) > RamMax
  THEN Oldest(Ready(all), Cardinality(Ready(all)) - RamMax) ELSE {}
ToMove(all) ==
  LET waiting == Ready(all) \ Dropped(all)
      keep == IF all THEN 0 ELSE RamKeep
  IN  Oldest(waiting, Cardinality(waiting) - keep) \ {mark}

Spill(all, pruned) ==
  /\ spill' = IF spill # {} THEN spill ELSE ToMove(all)
  /\ Discard(Dropped(all), pruned)

\* The half-minute look: prune, then ram_spill.
Tend ==
  /\ ffmpeg # 0 /\ since > 0 /\ ~Stuck
  /\ since' = 0
  /\ Spill(FALSE, Pruned)
  /\ UNCHANGED <<ffmpeg, next, quiet, copied, hung, made, short>>
  /\ RecorderOnly

\* The copy has its final name; only then the file in RAM goes.
SpillCopies ==
  /\ ~copied /\ ~hung
  /\ \E s \in Earliest(spill) :
       IF ram[s] # None
       THEN /\ drive' = [drive EXCEPT ![s] = ram[s]]
            /\ copied' = TRUE /\ spill' = spill
       ELSE spill' = {} /\ UNCHANGED <<drive, copied>>
  /\ UNCHANGED <<ffmpeg, next, quiet, since, hung, made, ram, lost, short>>
  /\ RecorderOnly

SpillRemoves ==
  /\ copied
  /\ \E s \in Earliest(spill) : ram' = Without(ram, {s}) /\ spill' = spill \ {s}
  /\ copied' = FALSE
  /\ UNCHANGED <<ffmpeg, next, quiet, since, hung, made, drive, lost, short>>
  /\ RecorderOnly

\* SIGTERM: what is in RAM goes to the drive, if the supervisor gives it time.
RecorderRestarts ==
  /\ ~Stuck
  /\ ffmpeg' = 0 /\ copied' = FALSE
  /\ \/ spill = {} /\ Spill(TRUE, {})
     \/ spill' = {} /\ UNCHANGED <<ram, drive, lost>>
  /\ UNCHANGED <<next, quiet, since, hung, made, short>>
  /\ RecorderOnly

DriveHangs ==
  /\ ~hung
  /\ hung' = TRUE
  /\ UNCHANGED <<ffmpeg, next, quiet, since, spill, copied, made, ram, drive, lost, short>>
  /\ RecorderOnly

(***************************************************************************)
(* The uploader.                                                           *)
(***************************************************************************)
UploaderOnly == UNCHANGED <<recorder, mode, paused, lost, short>>

\* In RAM all but the one that grows are complete, and that one too when it
\* has been quiet for a minute.
RamReady == IF mode = "script" THEN {} ELSE {s \in In(ram) : s # ffmpeg \/ quiet}
Dir(place) == IF place = "ram" THEN ram ELSE drive

Found == [place : {"ram"}, seg : RamReady] \cup [place : {"drive"}, seg : In(drive)]
Ahead(i, j) == IF i.place = j.place THEN i.seg < j.seg ELSE i.place = "ram"

Look ==
  /\ up.at = "idle" /\ pass = {} /\ mode # "keyless" /\ (paused => mode = "script")
  /\ Found # {}
  /\ pass' = {i \in Found : Cardinality({j \in Found : Ahead(j, i)}) < Batch}
  /\ UNCHANGED <<ram, drive, rejected, mark, up, server>>
  /\ UploaderOnly

\* The file goes to rejected/; if it has moved on, it does not.
Reject(i) ==
  /\ rejected' = IF Dir(i.place)[i.seg] = None THEN rejected
                 ELSE [rejected EXCEPT ![i.seg] = Dir(i.place)[i.seg]]
  /\ IF i.place = "ram" THEN ram' = Without(ram, {i.seg}) /\ drive' = drive
                        ELSE drive' = Without(drive, {i.seg}) /\ ram' = ram
Unlink(i) ==
  IF i.place = "ram" THEN ram' = Without(ram, {i.seg}) /\ drive' = drive
                     ELSE drive' = Without(drive, {i.seg}) /\ ram' = ram
Here == [place |-> up.place, seg |-> up.seg]

\* The end of one upload: the mark goes; a failure ends the pass.
Over(failed) ==
  /\ up' = Idle
  /\ pass' = IF failed THEN {} ELSE pass
  /\ mark' = IF up.place = "ram" THEN None ELSE mark

\* The next file of the pass.  The drive waits when RAM has a new one ready.
Take ==
  /\ up.at = "idle"
  /\ \E i \in pass :
       /\ \A j \in pass \ {i} : Ahead(i, j)
       /\ LET size == Dir(i.place)[i.seg]
          IN  IF (paused /\ mode = "bin") \/ (i.place = "drive" /\ RamReady # {})
              THEN pass' = {} /\ UNCHANGED <<up, mark, ram, drive, rejected>>
              ELSE
              /\ pass' = pass \ {i}
              /\ CASE size = None -> UNCHANGED <<up, ram, drive, rejected, mark>>
                   [] size = 0 -> Reject(i) /\ UNCHANGED <<up, mark>>
                   [] OTHER -> /\ up' = [at |-> "ask", place |-> i.place, seg |-> i.seg, bytes |-> size]
                               /\ UNCHANGED <<ram, drive, rejected, mark>>
  /\ UNCHANGED server
  /\ UploaderOnly

\* POST video/upload gives a link; the file is opened, if it is still there.
LinkGiven ==
  /\ up.at = "ask"
  /\ IF Dir(up.place)[up.seg] = None
     THEN Over(FALSE)
     ELSE /\ up' = [up EXCEPT !.at = "put"]
          /\ mark' = IF up.place = "ram" THEN up.seg ELSE mark
          /\ pass' = pass
  /\ UNCHANGED <<ram, drive, rejected, server>>
  /\ UploaderOnly

\* 400: it is the file's fault.
LinkRefused ==
  /\ up.at = "ask"
  /\ Reject(Here)
  /\ Over(FALSE)
  /\ UNCHANGED server
  /\ UploaderOnly

\* No answer, or one that may be another the next time (5xx, 401, 423).
AskFails ==
  /\ up.at = "ask"
  /\ Over(TRUE)
  /\ UNCHANGED <<ram, drive, rejected, server>>
  /\ UploaderOnly

Stored ==
  /\ up.at = "put" /\ bucket[up.seg] = None
  /\ bucket' = [bucket EXCEPT ![up.seg] = up.bytes]
  /\ \/ up' = [up EXCEPT !.at = "register"] /\ UNCHANGED <<pass, mark>>
     \/ Over(TRUE)
  /\ UNCHANGED <<ram, drive, rejected, rows>>
  /\ UploaderOnly

\* Mutant of AlreadyThere: 409 is a failure like any other.
AlreadyThereFails ==
  /\ up.at = "put" /\ bucket[up.seg] # None
  /\ Over(TRUE)
  /\ UNCHANGED <<ram, drive, rejected, server>>
  /\ UploaderOnly
\* 409: the object is there and locked.
AlreadyThere ==
  /\ up.at = "put" /\ bucket[up.seg] # None
  /\ up' = [up EXCEPT !.at = "exists"]
  /\ UNCHANGED <<pass, mark, ram, drive, rejected, server>>
  /\ UploaderOnly

PutFails ==
  /\ up.at = "put"
  /\ Over(TRUE)
  /\ UNCHANGED <<ram, drive, rejected, server>>
  /\ UploaderOnly

\* The kiosk restarts: the upload is broken off, that is no failure.
PutPaused ==
  /\ up.at = "put" /\ paused /\ mode = "bin"
  /\ Over(FALSE)
  /\ UNCHANGED <<ram, drive, rejected, server>>
  /\ UploaderOnly

\* POST video/segment believes the bucket, not the point.
Matches == bucket[up.seg] = up.bytes

Row ==
  /\ up.at \in {"register", "exists"} /\ Matches
  /\ rows' = [rows EXCEPT ![up.seg] = bucket[up.seg]]
  /\ UNCHANGED <<recorder, mode, paused, lost, rejected, bucket>>

Registered ==
  /\ Row
  /\ Unlink(Here) /\ Over(FALSE)
  /\ short' = short \cup (IF Dir(up.place)[up.seg] \in {None, up.bytes} THEN {} ELSE {up.seg})

\* The row is there, the answer is lost.
RegisteredUnheard ==
  /\ Row
  /\ Over(TRUE)
  /\ UNCHANGED <<ram, drive, short>>

RegisterFails ==
  /\ up.at \in {"register", "exists"}
  /\ Over(TRUE)
  /\ UNCHANGED <<ram, drive, rejected, server>>
  /\ UploaderOnly

\* 409 size_mismatch: the bucket holds another upload of that name, and keeps
\* it.
RegisterRefused ==
  /\ up.at = "exists" /\ ~Matches
  /\ Reject(Here) /\ Over(FALSE)
  /\ UNCHANGED server
  /\ UploaderOnly

(***************************************************************************)
(* What happens to them.                                                   *)
(***************************************************************************)
\* SIGTERM removes the mark, SIGKILL does not.
UploaderRestarts ==
  /\ up' = Idle /\ pass' = {}
  /\ mark' \in {mark, None}
  /\ UNCHANGED <<ram, drive, rejected, server>>
  /\ UploaderOnly

PauseBegins ==
  /\ ~paused /\ paused' = TRUE
  /\ UNCHANGED <<recorder, uploader, server, ram, drive, rejected, lost, short>>

\* The updater has removed it, or has died two minutes ago.
PauseEnds ==
  /\ paused /\ paused' = FALSE
  /\ UNCHANGED <<recorder, uploader, server, ram, drive, rejected, lost, short>>

Cut ==
  /\ ffmpeg' = 0 /\ quiet' = FALSE /\ since' = 0
  /\ spill' = {} /\ copied' = FALSE /\ hung' = FALSE
  /\ Discard(In(ram), {})
  /\ up' = Idle /\ pass' = {}
  /\ UNCHANGED <<next, made, mode, mark, server, rejected, paused, short>>

Record ==
  \/ StartRecording \/ Write \/ NextSegment \/ Tend \/ SpillCopies \/ SpillRemoves
Upload ==
  \/ Look \/ Take \/ LinkGiven \/ LinkRefused \/ AskFails
  \/ Stored \/ AlreadyThere \/ PutFails \/ PutPaused
  \/ Registered \/ RegisteredUnheard \/ RegisterFails \/ RegisterRefused
Accident ==
  \/ Stall \/ FfmpegEnds \/ RecorderRestarts \/ DriveHangs
  \/ UploaderRestarts \/ PauseBegins \/ Cut

Next == Record \/ Upload \/ PauseEnds \/ Accident

Safety == Init /\ [][Next]_vars

\* The programs go on, and what is tried for ever succeeds again and again.
\* The copy to the drive may be behind a drive that hangs.
Fairness ==
  /\ WF_vars(Look) /\ WF_vars(Take) /\ WF_vars(PauseEnds)
  /\ WF_vars(SpillCopies) /\ WF_vars(SpillRemoves)
  /\ SF_vars(LinkGiven) /\ SF_vars(Stored) /\ SF_vars(AlreadyThere)
  /\ SF_vars(Registered) /\ SF_vars(RegisterRefused)

Spec == Safety /\ Fairness

(***************************************************************************)
(* Properties.                                                             *)
(***************************************************************************)
\* What the uploader has to take; the script waits for the copy to the drive.
Queue == In(drive) \cup (IF mode = "script" THEN {} ELSE In(ram))

\* A local copy goes only for what the bucket and the table have in full
\* (uploader.c:13-18, video.js:75-92): whatever ffmpeg has written of a
\* segment is in RAM, on the drive, in rejected/, or stored and registered,
\* unless it was dropped for want of room or power or written into a file
\* already taken.
NothingGetsLost ==
  \A s \in 1..(next - 1) :
    made[s] \in {0, ram[s], drive[s], rejected[s], rows[s]} \/ s \in lost \cup short

\* Why: a copy is as its segment is, only ffmpeg makes one grow, and what leaves
\* RAM when its copy is done is kept elsewhere.
Formed ==
  /\ next \in 1..(N + 1) /\ ffmpeg \in {0, next - 1} /\ copied \in BOOLEAN
  /\ made \in [Segments -> Nat] /\ spill \subseteq Segments
  /\ {ram, drive, rejected, bucket, rows} \subseteq [Segments -> Nat \cup {None}]
  /\ up \in Uploads /\ (up.at # "idle" => up.place \in {"ram", "drive"} /\ up.seg \in Segments)
  /\ pass \subseteq Item
CopiesAreTrue ==
  \A s \in Segments :
    /\ s >= next => made[s] = 0
    /\ ram[s] # None => s < next /\ ram[s] = made[s]
    /\ drive[s] # None => s < next /\ s # ffmpeg /\ drive[s] = made[s]
    /\ rows[s] # None => rows[s] = bucket[s]
Kept(s) == made[s] \in {0, drive[s], rejected[s], rows[s]} \/ s \in lost \cup short
SpillIsOver ==
  /\ copied => spill # {}
  /\ \A s \in spill : s < next /\ s # ffmpeg
  /\ \A s \in Leaving : Kept(s)
FilesInv == Formed /\ CopiesAreTrue /\ SpillIsOver /\ NothingGetsLost

\* RAM holds RAM_MAX complete segments, the newest, and what was begun since
\* the last look (recorder.sh:54-57), also when the copy to a dead drive never
\* ends; only a prune that hangs on it stops the looking.
RamIsBounded == Cardinality(In(ram)) <= RamMax + 1 + since \/ Stuck

\* The queue does not stand (uploader.sh:303-320): again and again everything
\* that has been recorded has left the point or is put aside, as long as there
\* is a key to upload with and the drive answers.
QueueDrains == []<>(Queue \subseteq {ffmpeg} \/ hung \/ mode = "keyless")
=============================================================================
