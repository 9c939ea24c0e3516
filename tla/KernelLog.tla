------------------------------ MODULE KernelLog ------------------------------
(***************************************************************************)
(* The errors of the kernel of a point on their way to the API             *)
(* (pitelemetry.c, "ядро").  A thread of the telemetry reads the log of    *)
(* the kernel and posts what it has read at once; it never touches the     *)
(* card, so that what it could not send waits in memory, the first lines   *)
(* before the later ones.  The main loop writes on the card how far the    *)
(* API has got, for the next start of the component in the same boot.      *)
(*                                                                         *)
(* The errors of a boot are numbered; a post has the key of its first one. *)
(***************************************************************************)
EXTENDS Integers, Sequences, SequencesExt

CONSTANTS
  LinesMax,    \* lines the thread holds (K_LINES_MAX)
  MaxErrors,   \* bound: errors of one boot
  MaxLogBoots, \* bound: boots
  MaxStarts    \* bound: starts of the component after the first

\* The thread holds some lines (pitelemetry.c:663).
ConstantsAreSound == LinesMax \in Nat \ {0}

VARIABLES
  epoch,    \* the boot, K_BOOT
  starts,
  log,      \* errors the kernel has logged in this boot
  seen,     \* how far the thread has read
  pend,     \* K_PEND
  dropped,  \* K_DROPPED
  skip,     \* K_SKIP
  sentSeq,  \* K_SENT
  posting,  \* k_send is waiting for its answer
  request,  \* what it has posted
  onWay,    \* posts on their way
  taken,    \* the API has stored the current post, or had its key already
  file,     \* kmsg.sent
  stored    \* rows of device_telemetry with source kernel

thread == <<seen, pend, dropped, skip, sentSeq, posting, request>>
kernelVars == <<epoch, starts, log, thread, onWay, taken, file, stored>>

Nothing == [boot |-> 0, first |-> 0, lines |-> {}]

Init ==
  /\ epoch = 1 /\ starts = 0 /\ log = 0
  /\ seen = 0 /\ pend = <<>> /\ dropped = 0 /\ skip = 0 /\ sentSeq = 0
  /\ posting = FALSE /\ request = Nothing /\ onWay = {} /\ taken = FALSE
  /\ file = [boot |-> 0, seq |-> 0] /\ stored = {}

Logged ==
  /\ log < MaxErrors
  /\ log' = log + 1
  /\ UNCHANGED <<epoch, starts, thread, onWay, taken, file, stored>>

-----------------------------------------------------------------------------
\* k_line: a line the API has is passed over; one that finds no room is counted.
Held(q, n) == IF Len(q) < LinesMax THEN Append(q, n) ELSE q

Read ==
  /\ ~posting /\ seen < log
  /\ seen' = seen + 1
  /\ IF seen' <= skip THEN UNCHANGED <<pend, dropped>>
     ELSE /\ pend' = Held(pend, seen')
          /\ dropped' = IF Len(pend) < LinesMax THEN dropped ELSE dropped + 1
  /\ UNCHANGED <<epoch, starts, log, skip, sentSeq, posting, request, onWay, taken, file, stored>>

\* k_send
PostLines ==
  /\ ~posting /\ pend # <<>>
  /\ posting' = TRUE /\ taken' = FALSE
  /\ request' = [boot |-> epoch, first |-> Head(pend), lines |-> Range(pend)]
  /\ onWay' = onWay \cup {request'}
  /\ UNCHANGED <<epoch, starts, log, seen, pend, dropped, skip, sentSeq, file, stored>>

\* on conflict (idem_key) do nothing
KeyIsFree(r) == \A s \in stored : <<s.boot, s.first>> # <<r.boot, r.first>>

TakeLines(r) ==
  /\ r \in onWay
  /\ onWay' = onWay \ {r}
  /\ stored' = IF KeyIsFree(r) THEN stored \cup {r} ELSE stored
  /\ taken' = (taken \/ (posting /\ r = request))
  /\ UNCHANGED <<epoch, starts, log, thread, file>>

LinesAreLost(r) ==
  /\ r \in onWay
  /\ onWay' = onWay \ {r}
  /\ UNCHANGED <<epoch, starts, log, thread, taken, file, stored>>

\* The answer: what was sent is forgotten, and its last line remembered.
LinesSent ==
  /\ posting /\ taken
  /\ posting' = FALSE /\ request' = Nothing
  /\ pend' = <<>> /\ dropped' = 0
  /\ sentSeq' = Last(pend)
  /\ UNCHANGED <<epoch, starts, log, seen, skip, onWay, taken, file, stored>>

\* No answer: the same lines again in half a minute, with what came meanwhile.
NoAnswer ==
  /\ posting
  /\ posting' = FALSE /\ request' = Nothing
  /\ UNCHANGED <<epoch, starts, log, seen, pend, dropped, skip, sentSeq, onWay, taken, file, stored>>

-----------------------------------------------------------------------------
\* kernel_tick, by the main loop once a minute and when it stops.
Mark ==
  /\ sentSeq # 0 /\ file # [boot |-> epoch, seq |-> sentSeq]
  /\ file' = [boot |-> epoch, seq |-> sentSeq]
  /\ UNCHANGED <<epoch, starts, log, thread, onWay, taken, stored>>

\* kernel_start: the log is read from its beginning; the mark of this boot tells
\* what the API has.
MarkOf(b) == IF file.boot = b THEN file.seq ELSE 0

Start(b) ==
  /\ seen' = 0 /\ pend' = <<>> /\ dropped' = 0
  /\ skip' = MarkOf(b) /\ sentSeq' = MarkOf(b)
  /\ posting' = FALSE /\ request' = Nothing /\ taken' = FALSE
  /\ UNCHANGED <<onWay, file, stored>>

StartAgain ==
  /\ starts < MaxStarts
  /\ starts' = starts + 1
  /\ Start(epoch)
  /\ UNCHANGED <<epoch, log>>

Reboot ==
  /\ epoch < MaxLogBoots
  /\ epoch' = epoch + 1 /\ log' = 0
  /\ Start(epoch + 1)
  /\ UNCHANGED starts

Next ==
  \/ Logged \/ Read \/ PostLines \/ LinesSent \/ NoAnswer \/ Mark
  \/ \E r \in onWay : TakeLines(r) \/ LinesAreLost(r)
  \/ StartAgain \/ Reboot

Spec == Init /\ [][Next]_kernelVars

-----------------------------------------------------------------------------
Seqs == 0..MaxErrors
Requests == [boot : 0..MaxLogBoots, first : Seqs, lines : SUBSET Seqs]

TypeOK ==
  /\ epoch \in 1..MaxLogBoots /\ starts \in 0..MaxStarts
  /\ log \in Seqs /\ seen \in Seqs /\ skip \in Seqs /\ sentSeq \in Seqs
  /\ pend \in Seq(Seqs) /\ Len(pend) <= LinesMax
  /\ dropped \in Nat
  /\ posting \in BOOLEAN /\ taken \in BOOLEAN
  /\ request \in Requests /\ onWay \subseteq Requests /\ stored \subseteq Requests
  /\ file \in [boot : 0..MaxLogBoots, seq : Seqs]

\* How a trouble began is never lost: the first error of a boot is in a row, or
\* the thread still holds it or will read it; however many errors followed,
\* whatever posts and answers were lost and whenever the component was started
\* again ("перші найцінніші: з них видно, з чого почалось").
FirstErrorArrives ==
  \/ log = 0
  \/ \E r \in stored : r.boot = epoch /\ 1 \in r.lines
  \/ 1 \in Range(pend)
  \/ seen = 0 /\ skip = 0

\* Why: the thread holds lines in their order, what it has posted is what it still
\* holds, and who has sent something or passes something over has sent the first
\* (a key of the API is that of a post with its first line).
FirstIsStored == \E r \in stored : r.boot = epoch /\ 1 \in r.lines
Formed ==
  /\ epoch \in Nat /\ log \in Nat /\ seen \in 0..log /\ skip \in Nat /\ sentSeq \in Nat
  /\ pend \in Seq(Nat) /\ file \in [boot : Nat, seq : Nat] /\ file.boot <= epoch
PostsAreWhole == \A r \in onWay \cup stored : r.first \in r.lines
FirstComesFirst ==
  /\ seen = 0 => pend = <<>>
  /\ 1 \in Range(pend) => pend[1] = 1
PostIsHeld ==
  posting =>
    /\ pend # <<>>
    /\ request = [boot |-> epoch, first |-> Head(pend), lines |-> Range(pend)]
    /\ taken => ~KeyIsFree(request)
MarksAreTrue ==
  skip # 0 \/ sentSeq # 0 \/ (file.boot = epoch /\ file.seq # 0) => FirstIsStored
ErrorInv ==
  /\ Formed /\ PostsAreWhole /\ FirstComesFirst /\ PostIsHeld /\ MarksAreTrue
  /\ FirstErrorArrives

\* Every error arrives that found room, the same way.  It does not hold: when
\* the answer to a post is lost, the next post has the same key and more lines,
\* and the API keeps the first.
EveryErrorArrives ==
  \A n \in 1..sentSeq :
    \/ \E r \in stored : r.boot = epoch /\ n \in r.lines
    \/ n \in Range(pend) \/ n > seen
    \/ dropped > 0
=============================================================================
