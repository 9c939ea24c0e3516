--------------------------- MODULE VideoAnalysis ---------------------------
(***************************************************************************)
(* What the worker (backend/worker) makes of the minutes in the bucket.    *)
(* The table video_segments is its queue; the worker is one process with   *)
(* one thread.  All it writes of a segment is one transaction: the old     *)
(* events of the segment are superseded, its old passages deleted, the new *)
(* ones inserted, or joined to the passage that ends where the segment     *)
(* begins.                                                                 *)
(*                                                                         *)
(* One person is before the camera all the time: passing by in some of the *)
(* segments, at the counter in others (AtCounter).  What the detector and  *)
(* the tracker see in a segment is one stretch from edge to edge, so every *)
(* two neighbours are to be joined.  One receipt is paid in the middle of  *)
(* segment Paid.  Crops, sheets and people are left out.                   *)
(***************************************************************************)
EXTENDS Integers, FiniteSets

CONSTANTS
  N,            \* segments, in the order of started_at
  FromCard,     \* those with source = 'sd'
  AtCounter,    \* those in which the person stands at the counter
  Paid,
  MaxAttempts,
  Versions      \* ANALYSIS_VERSION is 1..Versions

ConstantsAreSound == N \in Nat

Segments == 1..N

VARIABLES
  status,    \* of the row; "none": not registered yet
  attempts,
  stale,     \* locked_at is older than 15 minutes
  version,   \* analysis_version
  stored,    \* still in the bucket
  last,      \* the passage that was inserted for s covers s..last[s]; 0: no such row
  event,     \* the live event that was inserted for s, or "none"
  of,        \* its passage_id, 0 for null
  receipt,   \* "none", "fresh" (of the last six hours) or "old"
  buyer,     \* the passage it belongs to, 0: none
  worker,    \* what it does with which segment
  release,   \* its ANALYSIS_VERSION
  cut,       \* written when the segment before was not done, or was torn
  torn,      \* lost its passage to a new analysis of the segment it began in,
             \* and was not analysed since
  doubled    \* analysed anew while another segment's passage had it

queue == <<status, attempts, stale, version>>
written == <<last, event, of, buyer>>
scars == <<cut, torn, doubled>>
vars == <<queue, stored, written, receipt, worker, release, scars>>

Statuses == {"none", "pending", "processing", "failed", "done", "expired"}
Off == [at |-> "off", seg |-> 0]
Free == [at |-> "free", seg |-> 0]

TypeOK ==
  /\ status \in [Segments -> Statuses]
  /\ attempts \in [Segments -> 0..MaxAttempts] /\ stale \in [Segments -> BOOLEAN]
  /\ version \in [Segments -> 0..Versions] /\ stored \in [Segments -> BOOLEAN]
  /\ last \in [Segments -> 0..N] /\ of \in [Segments -> 0..N]
  /\ event \in [Segments -> {"none", "pass", "approach"}]
  /\ receipt \in {"none", "fresh", "old"} /\ buyer \in 0..N
  /\ worker \in [at : {"claimed", "busy"}, seg : Segments] \cup {Off, Free}
  /\ release \in 1..Versions
  /\ cut \subseteq Segments /\ torn \subseteq Segments /\ doubled \subseteq Segments

Init ==
  /\ status = [s \in Segments |-> "none"] /\ attempts = [s \in Segments |-> 0]
  /\ stale = [s \in Segments |-> FALSE] /\ version = [s \in Segments |-> 0]
  /\ stored = [s \in Segments |-> FALSE]
  /\ last = [s \in Segments |-> 0]
  /\ event = [s \in Segments |-> "none"] /\ of = [s \in Segments |-> 0]
  /\ receipt = "none" /\ buyer = 0
  /\ worker = Free /\ release = 1
  /\ cut = {} /\ torn = {} /\ doubled = {}

Covers(p, s) == last[p] # 0 /\ s \in p..last[p]
Owners(s) == {p \in Segments : Covers(p, s)}
Done(s) == status[s] = "done"

(***************************************************************************)
(* The queue.                                                              *)
(***************************************************************************)
\* POST video/segment (VideoUpload registers the newest minutes before the
\* older ones that wait on the drive), or the import of the card.
Arrives(s) ==
  /\ status[s] = "none"
  /\ status' = [status EXCEPT ![s] = "pending"]
  /\ stored' = [stored EXCEPT ![s] = TRUE]
  /\ UNCHANGED <<attempts, stale, version, written, receipt, worker, release, scars>>

Claimable(s) ==
  \/ status[s] = "pending"
  \/ status[s] = "processing" /\ stale[s]
  \/ status[s] = "failed" /\ attempts[s] < MaxAttempts

\* order by source = 'sd', started_at
Before(s, t) ==
  \/ s \notin FromCard /\ t \in FromCard
  \/ (s \in FromCard <=> t \in FromCard) /\ s <= t
Waiting == {s \in Segments : Claimable(s)}
Outdated == {s \in Segments : Done(s) /\ version[s] < release}

Taken(s, n) ==
  /\ status' = [status EXCEPT ![s] = "processing"]
  /\ stale' = [stale EXCEPT ![s] = FALSE]
  /\ attempts' = [attempts EXCEPT ![s] = IF n > MaxAttempts THEN MaxAttempts ELSE n]
  /\ worker' = [at |-> "claimed", seg |-> s]
  /\ UNCHANGED <<version, stored, written, receipt, release, scars>>

Claim ==
  /\ worker = Free
  /\ \E s \in Waiting :
       /\ \A t \in Waiting : Before(s, t)
       /\ Taken(s, attempts[s] + 1)

\* Nothing waits: the oldest one that an older analysis has done.
ClaimOld ==
  /\ worker = Free /\ Waiting = {}
  /\ \E s \in Outdated :
       /\ \A t \in Outdated : s <= t
       /\ Taken(s, 1)

\* A signal between the claim and the work.
Release ==
  /\ worker.at = "claimed"
  /\ status' = [status EXCEPT ![worker.seg] = "pending"]
  /\ attempts' = [attempts EXCEPT ![worker.seg] = @ - 1]
  /\ worker' = Off
  /\ UNCHANGED <<stale, version, stored, written, receipt, release, scars>>

(***************************************************************************)
(* One segment.                                                            *)
(***************************************************************************)
Download ==
  /\ worker.at = "claimed" /\ stored[worker.seg]
  /\ worker' = [worker EXCEPT !.at = "busy"]
  /\ UNCHANGED <<queue, stored, written, receipt, release, scars>>

Finish(s, how) ==
  /\ status' = [status EXCEPT ![s] = how]
  /\ worker' = Free
  /\ UNCHANGED <<attempts, stale, version, stored, written, receipt, release, scars>>

\* The lifecycle of the bucket was faster.
Missing == worker.at = "claimed" /\ ~stored[worker.seg] /\ Finish(worker.seg, "expired")
Fails == worker.at \in {"claimed", "busy"} /\ Finish(worker.seg, "failed")

\* attribute_receipts: of the passages that were at the counter that moment
\* one gets it, and its approach.
Attributed(passages, got) ==
  IF receipt # "none" /\ got = 0 /\ Paid \in AtCounter /\ passages # {}
  THEN buyer' \in passages
  ELSE buyer' = got

\* OPEN_BEFORE: passages that end where s begins, other than its own old ones,
\* which are deleted first.
OpenBefore(s) == {p \in Segments \ {s} : last[p] # 0 /\ last[p] = s - 1}

\* supersede, write_passages, write_events and the row, in one transaction.
\* prev is the passage that is extended, 0: a new one is inserted.
Rows(s, prev) ==
  LET kind == IF s \in AtCounter THEN "approach" ELSE "pass"
      pid == IF prev = 0 THEN s ELSE prev
      kept == [t \in Segments |-> IF t = s THEN "none" ELSE event[t]]
      at == [t \in Segments |-> IF of[t] = s THEN 0 ELSE of[t]]
      Live(k) == {t \in Segments : prev # 0 /\ kept[t] = k /\ at[t] = prev}
      \* a pass is said by the event there is; an approach replaces a pass
      silent == kind = "pass" /\ (Live("approach") # {} \/ Live("pass") # {})
      ended == IF kind = "approach" THEN Live("pass") ELSE {}
  IN  /\ last' = [p \in Segments |-> IF p = pid THEN s ELSE IF p = s THEN 0 ELSE last[p]]
      /\ event' = [t \in Segments |-> IF t = s /\ ~silent THEN kind
                                      ELSE IF t \in ended THEN "none" ELSE kept[t]]
      /\ of' = [at EXCEPT ![s] = IF silent THEN 0 ELSE pid]

\* Of the segments in the passage of s those that are then in one other at most.
AtMostOne(S) == \A p, q \in S : p = q
AreSingle(S, s) == {t \in S : AtMostOne(Owners(t) \ {s})}

\* Mutant of WriteSegment: the old passages of the segment stay.
WriteSegmentKeeps ==
  /\ worker.at = "busy"
  /\ LET s == worker.seg
     IN  /\ \E prev \in IF OpenBefore(s) = {} THEN {0} ELSE OpenBefore(s) :
              /\ last' = [p \in Segments |-> IF p = prev \/ (prev = 0 /\ p = s) THEN s ELSE last[p]]
              /\ of' = [of EXCEPT ![s] = IF prev = 0 THEN s ELSE prev]
              /\ event' = [event EXCEPT ![s] = IF s \in AtCounter THEN "approach" ELSE "pass"]
              /\ buyer' = buyer
         /\ status' = [status EXCEPT ![s] = "done"]
         /\ version' = [version EXCEPT ![s] = release]
  /\ worker' = Free
  /\ UNCHANGED <<attempts, stale, stored, receipt, release, scars>>

WriteSegment ==
  /\ worker.at = "busy"
  /\ LET s == worker.seg
         gone == {t \in Segments : Covers(s, t)} \ {s}
     IN  /\ \E prev \in IF OpenBefore(s) = {} THEN {0} ELSE OpenBefore(s) :
              /\ Rows(s, prev)
              /\ LET got == IF buyer = s THEN 0 ELSE buyer
                     there == {p \in Segments : last'[p] # 0 /\ Paid \in p..last'[p]}
                 IN  IF s = Paid THEN Attributed(there, got) ELSE buyer' = got
         /\ status' = [status EXCEPT ![s] = "done"]
         /\ version' = [version EXCEPT ![s] = release]
         /\ cut' = (cut \ {s}) \cup (IF s > 1 /\ (~Done(s - 1) \/ s - 1 \in torn) THEN {s} ELSE {})
         /\ torn' = (torn \ {s}) \cup gone
         /\ doubled' = (doubled \ (AreSingle(gone, s) \cup {s})) \cup (IF Owners(s) \ {s} # {} THEN {s} ELSE {})
  /\ worker' = Free
  /\ UNCHANGED <<attempts, stale, stored, receipt, release>>

\* Between two segments: receipts that have come later than their segment.
RematchReceipts ==
  /\ worker = Free /\ receipt = "fresh" /\ buyer = 0
  /\ Owners(Paid) # {} /\ Paid \in AtCounter
  /\ Attributed(Owners(Paid), 0)
  /\ UNCHANGED <<queue, stored, last, event, of, receipt, worker, release, scars>>

(***************************************************************************)
(* What happens to them.                                                   *)
(***************************************************************************)
LockAges(s) ==
  /\ status[s] = "processing" /\ ~stale[s] /\ worker.seg # s
  /\ stale' = [stale EXCEPT ![s] = TRUE]
  /\ UNCHANGED <<status, attempts, version, stored, written, receipt, worker, release, scars>>

\* SIGKILL, or no memory left.
Crash ==
  /\ worker # Off
  /\ worker' = Off
  /\ UNCHANGED <<queue, stored, written, receipt, release, scars>>

\* The container starts, of the same release or of a newer one.
Starts ==
  /\ worker = Off
  /\ worker' = Free
  /\ release' \in {release} \cup {r \in 1..Versions : r = release + 1}
  /\ UNCHANGED <<queue, stored, written, receipt, scars>>

\* docker compose up: the worker finishes its segment before it goes.
Stops ==
  /\ worker = Free
  /\ worker' = Off
  /\ UNCHANGED <<queue, stored, written, receipt, release, scars>>

\* The lifecycle of the bucket takes the oldest first.
Expires(s) ==
  /\ stored[s] /\ \A t \in 1..(s - 1) : ~stored[t]
  /\ stored' = [stored EXCEPT ![s] = FALSE]
  /\ UNCHANGED <<queue, written, receipt, worker, release, scars>>

ReceiptComes ==
  /\ receipt = "none"
  /\ receipt' \in {"fresh", "old"}
  /\ UNCHANGED <<queue, stored, written, worker, release, scars>>

ReceiptAges ==
  /\ receipt = "fresh"
  /\ receipt' = "old"
  /\ UNCHANGED <<queue, stored, written, worker, release, scars>>

Work ==
  \/ Claim \/ ClaimOld \/ Download \/ Missing \/ WriteSegment \/ RematchReceipts
  \/ Starts
Accident == Release \/ Fails \/ Crash \/ Stops \/ \E s \in Segments : Expires(s)
World ==
  \/ \E s \in Segments : Arrives(s) \/ LockAges(s)
  \/ ReceiptComes \/ ReceiptAges

Next == Work \/ World \/ Accident

Safety == Init /\ [][Next]_vars

\* The worker is always started again and time goes on; work that does not fail
\* gets done.
Fairness ==
  /\ WF_vars(Claim) /\ WF_vars(ClaimOld) /\ WF_vars(Download) /\ WF_vars(Missing)
  /\ WF_vars(WriteSegment) /\ WF_vars(Starts) /\ SF_vars(RematchReceipts)
  /\ \A s \in Segments : WF_vars(LockAges(s))

Spec == Safety /\ Fairness

(***************************************************************************)
(* Properties.                                                             *)
(***************************************************************************)
\* A segment that is done is in the archive of passages exactly once
\* (db.py:10-12), however often it was claimed, failed and was left halfway;
\* a new analysis may tear it out of, or double it beside, the passage of
\* another segment.
EveryMinuteOnce ==
  \A s \in Segments :
    Done(s) =>
      /\ Owners(s) # {} \/ s \in torn
      /\ Cardinality(Owners(s)) <= 1 \/ s \in doubled

\* A seam is closed (db.py:127-131): neighbours of one analysis, done in their
\* order, are one passage.
SeamsAreClosed ==
  \A s \in Segments \ {1} :
    Done(s) /\ Done(s - 1) /\ version[s] = version[s - 1] /\ s \notin cut \cup torn \cup doubled
      => \E p \in Owners(s) : s - 1 \in p..last[p]

\* Why: whatever happens to a segment later, it is in one passage or known to be
\* in two, and only the analysis of another that had it takes it out.
PassagesAreWhole ==
  /\ last \in [Segments -> Nat] /\ \A p \in Segments : last[p] # 0 => last[p] \in p..N
  /\ status \in [Segments -> Statuses]
  /\ worker \in [at : {"claimed", "busy"}, seg : Segments] \cup {Off, Free}
OwnedOnce == \A s \in Segments : AtMostOne(Owners(s)) \/ s \in doubled
DoneIsCovered == \A s \in Segments : Done(s) => Owners(s) # {} \/ s \in torn
DoneIsJoined ==
  \A s \in Segments \ {1} :
    Done(s) /\ s \notin cut \cup torn \cup doubled => \E p \in Owners(s) : p < s
MinutesInv == PassagesAreWhole /\ OwnedOnce /\ DoneIsCovered /\ DoneIsJoined

\* Again and again everything that was registered is settled by the newest
\* analysis (docs/video.md:624-632): done, gone from the bucket, or given up
\* after MaxAttempts, also when the worker died on it.
Settled(s) ==
  \/ status[s] \in {"none", "expired"}
  \/ status[s] = "failed" /\ attempts[s] = MaxAttempts
  \/ Done(s) /\ version[s] = release
SegmentsSettle == []<>(\A s \in Segments : Settled(s))

\* A receipt of the last six hours finds the passage that stood at the
\* counter (db.py:329-339, 391-403), also when it comes after it.
ReceiptFindsBuyer ==
  (receipt = "fresh" /\ Done(Paid) /\ Paid \in AtCounter) ~>
    (buyer # 0 \/ receipt = "old" \/ Paid \in torn)

\* "A segment that is lost is a hole in the archive" (docs/video.md:601-603): what
\* the newest analysis has done is in a passage.
NoHoleInArchive ==
  \A s \in Segments : Done(s) /\ version[s] = release => Owners(s) # {}
=============================================================================
