------------------------------ MODULE Telemetry ------------------------------
(***************************************************************************)
(* The samples of a point between its card and the API (pitelemetry.c,     *)
(* telemetry.sh, routes/points.js).  Once a minute the device measures,    *)
(* appends the sample to a file on the card and posts the file in batches; *)
(* the API stores a sample once, by its key.  A post may be lost, answered *)
(* too late, or stored while its answer is lost.                           *)
(*                                                                         *)
(* Without a network the clock of the device lags by the time it was off.  *)
(* When NTP moves it, the samples this process has queued meanwhile are    *)
(* stamped anew from their uptime.  A stamp is true, lagging, or           *)
(* meaningless: computed from the uptime of another boot.                  *)
(***************************************************************************)
EXTENDS Integers, Sequences, SequencesExt

CONSTANTS
  QueueMax,     \* samples the file keeps (QUEUE_MAX)
  BatchMax,     \* samples of one post (BATCH_MAX)
  ApiMaxBatch,  \* samples the API takes at once (MAX_BATCH)
  MaxSamples,   \* bound: samples
  MaxBoots,     \* bound: boots
  MaxRestarts   \* bound: restarts of the component

VARIABLES
  boot, restarts,
  lag,       \* the clock lags
  ntp,       \* the kernel calls the clock synchronised
  pc,        \* where the loop of the device is
  prevLag,   \* whether the clock lagged at the last pass (prev_epoch, prev_up)
  unsure,    \* queued_this_boot: samples queued by this process without NTP
  queue,     \* telemetry.queue
  posts,     \* batches on their way to the API
  answer,    \* the answer on its way back: "none", "stored" or "refused"
  rows,      \* device_telemetry
  keys,      \* keys of the samples measured so far
  trimmed    \* samples the file had no room for

device == <<pc, prevLag, unsure, queue>>
world == <<boot, restarts, lag, ntp>>
api == <<posts, answer, rows>>
telemetryVars == <<world, device, api, keys, trimmed>>

\* Both programs post at most what the API takes (pitelemetry.c:61, points.js:18).
ConstantsAreSound ==
  /\ QueueMax \in Nat \ {0} /\ BatchMax \in Nat \ {0} /\ ApiMaxBatch \in Nat
  /\ BatchMax <= ApiMaxBatch

Stamps == {"true", "lagging", "meaningless"}
Taken == Len(keys)

Init ==
  /\ boot = 1 /\ restarts = 0
  /\ lag \in BOOLEAN /\ ntp = FALSE
  /\ pc = "top" /\ prevLag = lag /\ unsure = 0
  /\ queue = <<>>
  /\ posts = {} /\ answer = "none" /\ rows = {}
  /\ keys = <<>> /\ trimmed = {}

-----------------------------------------------------------------------------
\* The last n lines of the file get the time that their uptime tells.
Restamped(q, n) ==
  [i \in DOMAIN q |->
     IF i + n > Len(q)
     THEN [q[i] EXCEPT !.at = IF q[i].boot = boot THEN "true" ELSE "meaningless"]
     ELSE q[i]]

\* Has the clock jumped since the last pass, and may it be believed now?  (After
\* MaxSamples the loop only sends.)
Top ==
  /\ pc = "top"
  /\ queue' = IF unsure > 0 /\ ntp /\ lag # prevLag THEN Restamped(queue, unsure) ELSE queue
  /\ unsure' = IF ntp THEN 0 ELSE unsure
  /\ prevLag' = lag
  /\ pc' = IF Taken < MaxSamples THEN "measure" ELSE "send"
  /\ UNCHANGED <<world, api, keys, trimmed>>

\* Two boots whose clocks lag may stamp the same second.
KeyOf(s) ==
  {s.id} \cup {r.key : r \in {r \in rows \cup Range(queue) :
                                s.at = "lagging" /\ r.at = "lagging" /\ r.boot < s.boot}}
FromTail(q, n) == SubSeq(q, Len(q) - n + 1, Len(q))

\* sample_json takes seconds and stamps at its end; queue_push keeps the newest.
Measure ==
  /\ pc = "measure"
  /\ LET s == [id |-> Taken + 1, boot |-> boot, at |-> IF lag THEN "lagging" ELSE "true"] IN
       \E k \in KeyOf(s) :
         LET q == Append(queue, [id |-> s.id, boot |-> s.boot, at |-> s.at, key |-> k]) IN
           /\ queue' = IF Len(q) > QueueMax THEN FromTail(q, QueueMax) ELSE q
           /\ trimmed' = trimmed \cup (Range(q) \ Range(queue'))
           /\ keys' = Append(keys, k)
  /\ pc' = "count"
  /\ UNCHANGED <<world, prevLag, unsure, api>>

\* Whether the clock was to be believed is asked after the sample is queued.
Count ==
  /\ pc = "count"
  /\ unsure' = IF ntp THEN unsure ELSE unsure + 1
  /\ pc' = "send"
  /\ UNCHANGED <<world, prevLag, queue, api, keys, trimmed>>

-----------------------------------------------------------------------------
\* send_queue
BatchWhole == queue
Batch == SubSeq(queue, 1, IF Len(queue) < BatchMax THEN Len(queue) ELSE BatchMax)

Post ==
  /\ pc = "send" /\ queue # <<>>
  /\ posts' = posts \cup {Batch}
  /\ answer' = "none"
  /\ pc' = "wait"
  /\ UNCHANGED <<world, prevLag, unsure, queue, rows, keys, trimmed>>

Sleep ==
  /\ pc = "send" /\ queue = <<>>
  /\ pc' = "top"
  /\ UNCHANGED <<world, prevLag, unsure, queue, api, keys, trimmed>>

\* What leaves the file once the API has answered; a batch it refuses would be
\* refused for ever.
Rest(a) == IF a \in {"stored", "refused"} THEN SubSeq(queue, Len(Batch) + 1, Len(queue)) ELSE queue

Answered ==
  /\ pc = "wait" /\ answer # "none"
  /\ queue' = Rest(answer)
  /\ pc' = "send"
  /\ UNCHANGED <<world, prevLag, unsure, api, keys, trimmed>>

\* No answer within 20 s, an error of the server, or a token it does not know:
\* everything stays for the next pass.
GiveUp ==
  /\ pc = "wait"
  /\ queue' = Rest("none")
  /\ pc' = "top"
  /\ UNCHANGED <<world, prevLag, unsure, api, keys, trimmed>>

-----------------------------------------------------------------------------
\* POST /points/:id/telemetry; on conflict (idem_key) do nothing, line by line.
Inserted(batch) ==
  {batch[i] : i \in {i \in DOMAIN batch :
     /\ \A r \in rows : r.key # batch[i].key
     /\ \A j \in 1..(i - 1) : batch[j].key # batch[i].key}}

\* A post is taken while its sender waits, or when nobody waits any more.
Take(batch) ==
  /\ batch \in posts
  /\ posts' = posts \ {batch}
  /\ rows' = IF Len(batch) > ApiMaxBatch THEN rows ELSE rows \cup Inserted(batch)
  /\ answer' = IF pc = "wait" /\ batch = Batch
               THEN IF Len(batch) > ApiMaxBatch THEN "refused" ELSE "stored"
               ELSE answer
  /\ UNCHANGED <<world, device, keys, trimmed>>

PostIsLost(batch) ==
  /\ batch \in posts
  /\ posts' = posts \ {batch}
  /\ UNCHANGED <<world, device, answer, rows, keys, trimmed>>

-----------------------------------------------------------------------------
\* Time, the component and the power.
ClockSet ==
  /\ ~ntp
  /\ ntp' = TRUE /\ lag' = FALSE
  /\ UNCHANGED <<boot, restarts, device, api, keys, trimmed>>

Unsync ==
  /\ ntp /\ ntp' = FALSE
  /\ UNCHANGED <<boot, restarts, lag, device, api, keys, trimmed>>

Begin == pc' = "top" /\ unsure' = 0 /\ prevLag' = lag'

Restart ==
  /\ restarts < MaxRestarts
  /\ restarts' = restarts + 1
  /\ UNCHANGED <<boot, lag, ntp, queue, api, keys, trimmed>>
  /\ Begin

PowerCut ==
  /\ boot < MaxBoots
  /\ boot' = boot + 1
  /\ lag' \in BOOLEAN /\ ntp' = FALSE
  /\ Begin
  /\ UNCHANGED <<restarts, queue, api, keys, trimmed>>

Next ==
  \/ Top \/ Measure \/ Count \/ Post \/ Sleep \/ Answered \/ GiveUp
  \/ \E batch \in posts : Take(batch) \/ PostIsLost(batch)
  \/ ClockSet \/ Unsync \/ Restart \/ PowerCut

\* The loop goes on; and a network that fails again and again also works again
\* and again.
TakeCurrent == pc = "wait" /\ Batch \in posts /\ Take(Batch)
Fairness ==
  /\ WF_telemetryVars(Top \/ Measure \/ Count \/ Post \/ Sleep \/ GiveUp)
  /\ SF_telemetryVars(TakeCurrent) /\ SF_telemetryVars(Answered)

Spec == Init /\ [][Next]_telemetryVars /\ Fairness

-----------------------------------------------------------------------------
Row == [id : 1..MaxSamples, boot : 1..MaxBoots, at : Stamps, key : 1..MaxSamples]

TypeOK ==
  /\ boot \in 1..MaxBoots /\ restarts \in 0..MaxRestarts
  /\ lag \in BOOLEAN /\ ntp \in BOOLEAN /\ prevLag \in BOOLEAN
  /\ pc \in {"top", "measure", "count", "send", "wait"}
  /\ unsure \in 0..MaxSamples
  /\ queue \in Seq(Row) /\ Len(queue) <= QueueMax
  /\ \A b \in posts : b \in Seq(Row)
  /\ answer \in {"none", "stored", "refused"}
  /\ rows \subseteq Row
  /\ keys \in Seq(1..MaxSamples)
  /\ trimmed \subseteq Row

\* A sample is on the card until the API has its key, however often its post was
\* lost, repeated or answered too late, and wherever the power went off; only
\* the oldest make room when the file is full (telemetry.sh: "не втрачати проби
\* при обриві інтернету").
NoSampleIsLost ==
  \A i \in 1..Taken :
    \/ \E s \in Range(queue) \cup trimmed : s.id = i
    \/ \E r \in rows : r.key = keys[i]

\* Why: a line of the file is a sample with the key it was given, and an answer
\* that is waited for says only what is so of the batch.
Line == [id : Nat, boot : Nat, at : Stamps, key : Nat]
Formed ==
  /\ boot \in Nat /\ lag \in BOOLEAN /\ unsure \in Nat
  /\ queue \in Seq(Line) /\ posts \subseteq Seq(Line) /\ rows \subseteq Line
  /\ keys \in Seq(Nat)
LinesAreSamples ==
  \A i \in 1..Len(queue) : queue[i].id \in 1..Taken /\ queue[i].key = keys[queue[i].id]
AnswerIsTrue ==
  pc = "wait" /\ answer # "none" =>
    answer = "stored" /\ \A i \in 1..Len(Batch) : \E r \in rows : r.key = queue[i].key
ArrivalInv == Formed /\ LinesAreSamples /\ AnswerIsTrue /\ NoSampleIsLost

\* The counter of the process picks the lines to stamp anew by their number
\* from the end: sending and trimming take lines from the front, so that it
\* never reaches a line of another boot, whose uptime means nothing now.
OnlyOwnRestamped ==
  \A s \in Range(queue) \cup rows : s.at # "meaningless"

\* The telemetry never comes to a stop: a queued sample leaves the card.
SamplesArrive ==
  \A i \in 1..MaxSamples : (\E s \in Range(queue) : s.id = i) ~> ~(\E s \in Range(queue) : s.id = i)

\* What the restamping is for: once the clock is known, nothing reaches the API
\* with a time of before.  It does: the file is sent in the pass in which the
\* clock was set, and stamped anew at the top of the next one.
SentAfterClockIsTrue ==
  [][\A r \in rows' \ rows : ntp /\ r.boot = boot => r.at = "true"]_telemetryVars
=============================================================================
