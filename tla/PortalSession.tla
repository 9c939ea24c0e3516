---------------------------- MODULE PortalSession ----------------------------
(***************************************************************************)
(* The server's only way to a coffee machine: the web portal of its maker  *)
(* (lib/src/jetinno/portal.js), with one operator's session, kept in Redis *)
(* for the jobs that use it, and a pace shared by all of them (limiter.js).*)
(* A request that finds the session gone signs in once and is sent again;  *)
(* a lock in Redis, which nobody takes away, lets that happen once in      *)
(* Every.                                                                  *)
(*                                                                         *)
(* A job goes through its requests in turn, and ends at the first that     *)
(* fails (jobs/jetinno.js, jobs/menu.js); the last of them is a command.   *)
(***************************************************************************)
EXTENDS Integers, FiniteSets

CONSTANTS Jobs,
          Every,        \* JETINNO_RELOGIN_MIN, in intervals of the limiter
          Ttl,          \* of the key of the limiter, in intervals
          Tries,        \* maxCaptchaTries
          LastRequest,  \* of a job: the command
          OneSession,   \* whether a sign-in ends the session before
          Horizon,      \* bound: intervals
          MaxSessions,  \* bound: sign-ins that the portal lets in
          MaxFaults,    \* bound: connections that break, answers 5xx
          None

VARIABLES now,
          session, loginLock, \* Redis: the cookie; when the lock ends
          slot,               \* Redis: [at, ends]; the next free interval
          alive, made, uk,    \* the portal: cookies that are signed in, how
                              \* many there were, those with our language
          job,                \* the pass of each job
          logins, done, rows, \* when sign-ins began; the commands carried out
                              \* of a pass; what its row says
          faults

portalVars == <<now, session, loginLock, slot, alive, made, uk, job, logins, done, rows, faults>>
redis == <<session, loginLock, slot>>
portal == <<alive, made, uk>>
seen == <<logins, done, rows>>

Rest == [pc |-> "no", n |-> 0, at |-> 0, cookie |-> None, relogged |-> FALSE, tries |-> 0]

Init ==
  /\ now = 0 /\ session = 0 /\ loginLock = 0 /\ slot = [at |-> 0, ends |-> 0]
  /\ alive \in {{}, {0}} /\ made = 0 /\ uk = {0}
  /\ job = [j \in Jobs |-> Rest]
  /\ logins = {} /\ done = [j \in Jobs |-> 0] /\ rows = [j \in Jobs |-> None]
  /\ faults = 0

TimePasses ==
  /\ now < Horizon
  /\ now' = now + 1
  /\ UNCHANGED <<redis, portal, job, seen, faults>>

(* The portal ends a session; or a person signs in and puts the cookie into *)
(* Redis (setSession).                                                      *)
Expires ==
  /\ alive # {}
  /\ \E c \in alive : alive' = alive \ {c}
  /\ UNCHANGED <<now, redis, made, uk, job, seen, faults>>

LetIn(c) ==
  /\ made' = c
  /\ alive' = IF OneSession THEN {c} ELSE alive \cup {c}

SetSession ==
  /\ made < MaxSessions
  /\ LetIn(made + 1)
  /\ uk' = uk \cup {made'}
  /\ session' = made'
  /\ UNCHANGED <<now, loginLock, slot, job, seen, faults>>

---------------------------------------------------------------------------

(* limiter.js: the interval that is free next, for all processes; its key  *)
(* outlives the last request by Ttl.                                       *)
NextAt == IF slot.ends > now THEN slot.at ELSE 0
Slot == IF NextAt > now THEN NextAt ELSE now

(* throttle() of a request *)
Queued(j, new) ==
  /\ slot' = [at |-> Slot + 1, ends |-> now + Ttl]
  /\ job' = [job EXCEPT ![j] = [new EXCEPT !.pc = "waits", !.at = Slot]]

Starts(j) ==
  /\ job[j].pc = "no"
  /\ done' = [done EXCEPT ![j] = 0]
  /\ Queued(j, [Rest EXCEPT !.n = 1])
  /\ UNCHANGED <<now, session, loginLock, portal, logins, rows, faults>>

(* The pass is over; a poll leaves a row that says whether there was a     *)
(* session, and none after another error.                                  *)
Ends(j, row) ==
  /\ job' = [job EXCEPT ![j] = Rest]
  /\ rows' = [rows EXCEPT ![j] = IF row = "error" THEN @ ELSE row]

(* set … PX … NX. *)
MayLogin == loginLock <= now

(* A request without a session: once in a request, tryRelogin. *)
NoSession(j) ==
  IF ~ job[j].relogged /\ MayLogin
  THEN /\ loginLock' = now + Every
       /\ logins' = logins \cup {[by |-> j, at |-> now]}
       /\ job' = [job EXCEPT ![j].pc = "login", ![j].tries = 0]
       /\ UNCHANGED rows
  ELSE Ends(j, "no session") /\ UNCHANGED <<loginLock, logins>>

Cookie(j) ==
  /\ job[j].pc = "waits" /\ job[j].at <= now
  /\ IF session = None
     THEN NoSession(j)
     ELSE job' = [job EXCEPT ![j].pc = "sent", ![j].cookie = session] /\ UNCHANGED <<loginLock, logins, rows>>
  /\ UNCHANGED <<now, session, slot, portal, done, faults>>

IsCommand(j) == job[j].n = LastRequest
CarriedOut(j) == done' = IF IsCommand(j) THEN [done EXCEPT ![j] = @ + 1] ELSE done

Answered(j) ==
  /\ job[j].pc = "sent" /\ job[j].cookie \in alive
  /\ CarriedOut(j)
  /\ IF IsCommand(j)
     THEN Ends(j, "session") /\ UNCHANGED slot
     ELSE Queued(j, [Rest EXCEPT !.n = job[j].n + 1]) /\ UNCHANGED rows
  /\ UNCHANGED <<now, session, loginLock, portal, logins, faults>>

(* The page of the sign-in instead of an answer *)
SignedOut(j) ==
  /\ job[j].pc = "sent" /\ job[j].cookie \notin alive
  /\ NoSession(j)
  /\ UNCHANGED <<now, session, slot, portal, done, faults>>

GivenUp(j) == Ends(j, "error") /\ UNCHANGED slot

(* The connection breaks before or after the portal did what it was told. *)
Breaks(j) ==
  /\ job[j].pc = "sent" /\ faults < MaxFaults
  /\ faults' = faults + 1
  /\ \/ job[j].cookie \in alive /\ CarriedOut(j)
     \/ UNCHANGED done
  /\ GivenUp(j)
  /\ UNCHANGED <<now, session, loginLock, portal, logins>>

---------------------------------------------------------------------------
(* login *)

(* The captcha was read wrong: once more, with a new one. *)
Misread(j) ==
  /\ job[j].pc = "login" /\ job[j].tries < Tries - 1
  /\ job' = [job EXCEPT ![j].tries = @ + 1]
  /\ UNCHANGED <<now, redis, portal, seen, faults>>

(* The last of the tries, a wrong password, a locked account, a portal or  *)
(* a reader of captchas that does not answer                               *)
Refused(j) ==
  /\ job[j].pc = "login"
  /\ Ends(j, "no session")
  /\ UNCHANGED <<now, redis, portal, logins, done, faults>>

(* The cookie is signed in, its language set or not ... *)
In(j) ==
  /\ job[j].pc = "login" /\ made < MaxSessions
  /\ LetIn(made + 1)
  /\ uk' \in {uk, uk \cup {made'}}
  /\ job' = [job EXCEPT ![j].pc = "in", ![j].cookie = made']
  /\ UNCHANGED <<now, redis, seen, faults>>

(* ... and is kept; the request is sent again. *)
Keeps(j) ==
  /\ job[j].pc = "in"
  /\ session' = job[j].cookie
  /\ Queued(j, [job[j] EXCEPT !.cookie = None, !.relogged = TRUE])
  /\ UNCHANGED <<now, loginLock, portal, seen, faults>>

Next ==
  \/ TimePasses \/ Expires \/ SetSession
  \/ \E j \in Jobs :
       \/ Starts(j) \/ Cookie(j) \/ Answered(j) \/ SignedOut(j) \/ Breaks(j)
       \/ Misread(j) \/ Refused(j) \/ In(j) \/ Keeps(j)

Spec == Init /\ [][Next]_portalVars

---------------------------------------------------------------------------

Cookies == (0 .. MaxSessions) \cup {None}

TypeOK ==
  /\ now \in 0 .. Horizon /\ session \in Cookies
  /\ alive \subseteq Cookies /\ uk \subseteq Cookies /\ made \in 0 .. MaxSessions
  /\ \A j \in Jobs : job[j].n \in 0 .. LastRequest /\ job[j].tries \in 0 .. Tries /\ job[j].cookie \in Cookies
  /\ faults \in 0 .. MaxFaults

(* However many jobs find the session gone, and however their sign-ins end *)
(* there is one in Every (portal.js:48-60) ...                             *)
LoginsAreRare == \A x, y \in logins : x # y => x.at - y.at >= Every \/ y.at - x.at >= Every

(* ... two requests do not wait for one interval (limiter.js:1-5) ...      *)
PaceIsKept ==
  \A i, j \in Jobs : i # j /\ job[i].pc = "waits" /\ job[j].pc = "waits" => job[i].at # job[j].at

(* ... and a command that is sent again after a sign-in, or was cut off,   *)
(* is carried out once at most.                                            *)
CommandOnce == \A j \in Jobs : done[j] <= 1

PortalIsSpared == LoginsAreRare /\ PaceIsKept /\ CommandOnce

(* A row says "no session - a sign-in is needed" when there is none        *)
(* (jobs/jetinno.js:8-10).  The other job may have signed in between.      *)
NoSessionIsTrue ==
  [][\A j \in Jobs : rows'[j] = "no session" /\ job[j].pc # "no" /\ job'[j].pc = "no" => session \notin alive]_portalVars

(* "the language the parsers are written for is fixed right after a        *)
(* sign-in" (portal.js:204-205); a failure to set it is passed over.       *)
OurLanguage == session \in alive => session \in uk
=============================================================================
