------------------------------- MODULE Sessions -------------------------------
(***************************************************************************)
(* How a player gets in and out (routes/auth.js, session.js, account.js):  *)
(* a letter with a link, Google, the refresh of the access token, logging  *)
(* out and the deletion of the account, as concurrent calls of the API.    *)
(* Everything here is about one mail address; a session is a key in Redis  *)
(* and an entry in the set of its player.                                  *)
(*                                                                         *)
(* A call is a sequence of steps with a database transaction or a command  *)
(* to Redis each, and an API that is restarted forgets the calls it was    *)
(* in.                                                                     *)
(***************************************************************************)
EXTENDS Naturals, FiniteSets

CONSTANTS
  Accounts,   \* rows of users that ever had this address
  Links,      \* letters
  Sids,       \* session ids
  Threads,    \* concurrent calls of the API
  NoAccount

ASSUME NoAccountIsNone == NoAccount \notin Accounts

VARIABLES
  account,    \* users: "none", "open" or "deleted" (deleted_at)
  mail,       \* the accounts whose email is this address
  identity,   \* user_identities ('email', address)
  lock,       \* who holds pg_advisory_xact_lock, the calls in no transaction not
  link,       \* login_links
  live,       \* keys sess:<id>
  owner,      \* the player written in a session
  index,      \* sets sess:user:<id>
  thread,     \* the calls
  closed,     \* sessions that were logged out
  entered     \* sessions by the link that opened them

base == <<account, mail, identity>>
redis == <<live, owner, index>>
sessionVars == <<base, lock, link, redis, thread, closed, entered>>

Idle == [at |-> "idle"]
Free(c) == thread[c] = Idle
At(c, step) == thread[c].at = step
Goto(c, step) == thread' = [thread EXCEPT ![c].at = step]
Done(c) == thread' = [thread EXCEPT ![c] = Idle]

\* An account with this address may exist from before there were letters.
Init ==
  /\ \E a \in Accounts \cup {NoAccount} :
       /\ account = [x \in Accounts |-> IF x = a THEN "open" ELSE "none"]
       /\ mail = {a} \ {NoAccount}
  /\ identity = NoAccount
  /\ lock = {}
  /\ link = [l \in Links |-> [state |-> "none", claimed |-> FALSE, alive |-> TRUE]]
  /\ live = {} /\ owner = [s \in Sids |-> NoAccount] /\ index = [a \in Accounts |-> {}]
  /\ thread = [c \in Threads |-> Idle]
  /\ closed = {} /\ entered = {}

-----------------------------------------------------------------------------
\* Three ways in.
SendLetter(l) ==
  /\ link[l].state = "none"
  /\ link' = [link EXCEPT ![l].state = "open"]
  /\ UNCHANGED <<base, lock, redis, thread, closed, entered>>

\* The link is used up by one update, before anything else happens.
Verify(c, l) ==
  /\ Free(c) /\ link[l].state = "open" /\ link[l].alive
  /\ link' = [link EXCEPT ![l].state = "approved"]
  /\ thread' = [thread EXCEPT ![c] = [at |-> "lock", by |-> <<"verify", l>>, who |-> NoAccount]]
  /\ UNCHANGED <<base, lock, redis, closed, entered>>

Reject(l) ==
  /\ link[l].state = "open"
  /\ link' = [link EXCEPT ![l].state = "rejected"]
  /\ UNCHANGED <<base, lock, redis, thread, closed, entered>>

\* The tab that asked for the letter takes a session of its own.  Here the link
\* may be too old: it was approved in time.
ClaimableTwice(l) == link[l].state = "approved"
Claimable(l) == link[l].state = "approved" /\ ~link[l].claimed

Claim(c, l) ==
  /\ Free(c) /\ Claimable(l)
  /\ link' = [link EXCEPT ![l].claimed = TRUE]
  /\ thread' = [thread EXCEPT ![c] = [at |-> "lock", by |-> <<"wait", l>>, who |-> NoAccount]]
  /\ UNCHANGED <<base, lock, redis, closed, entered>>

Google(c) ==
  /\ Free(c)
  /\ thread' = [thread EXCEPT ![c] = [at |-> "lock", by |-> <<"google">>, who |-> NoAccount]]
  /\ UNCHANGED <<base, lock, link, redis, closed, entered>>

LinkGrowsOld(l) ==
  /\ link[l].alive
  /\ link' = [link EXCEPT ![l].alive = FALSE]
  /\ UNCHANGED <<base, lock, redis, thread, closed, entered>>

-----------------------------------------------------------------------------
\* userByEmail: one transaction under the lock of the address.
MayAlwaysLock == TRUE
MayLock == lock = {}

Lock(c) ==
  /\ At(c, "lock") /\ MayLock
  /\ lock' = lock \cup {c}
  /\ Goto(c, "find")
  /\ UNCHANGED <<base, link, redis, closed, entered>>

Known ==
  IF identity # NoAccount /\ account[identity] = "open" THEN {identity}
  ELSE {a \in mail : account[a] = "open"}

Find(c) ==
  /\ At(c, "find")
  /\ \E a \in IF Known = {} THEN {NoAccount} ELSE Known :
       thread' = [thread EXCEPT ![c].at = "enter", ![c].who = a]
  /\ UNCHANGED <<base, lock, link, redis, closed, entered>>

\* A new account if there was none; the identity stays where it is on conflict.
Enter(c) ==
  /\ At(c, "enter")
  /\ \E a \in IF thread[c].who = NoAccount
               THEN {a \in Accounts : account[a] = "none"} ELSE {thread[c].who} :
       /\ account' = [account EXCEPT ![a] = IF @ = "none" THEN "open" ELSE @]
       /\ mail' = IF account[a] = "none" THEN mail \cup {a} ELSE mail
       /\ identity' = IF identity = NoAccount THEN a ELSE identity
       /\ thread' = [thread EXCEPT ![c].at = "issue", ![c].who = a]
  /\ lock' = lock \ {c}
  /\ UNCHANGED <<link, redis, closed, entered>>

\* createSession: the key and the entry in one MULTI.
Issue(c) ==
  /\ At(c, "issue")
  /\ \E s \in Sids :
       /\ owner[s] = NoAccount
       /\ live' = live \cup {s}
       /\ owner' = [owner EXCEPT ![s] = thread[c].who]
       /\ index' = [index EXCEPT ![thread[c].who] = @ \cup {s}]
       /\ entered' = entered \cup {[by |-> thread[c].by, sid |-> s]}
  /\ Done(c)
  /\ UNCHANGED <<base, lock, link, closed>>

-----------------------------------------------------------------------------
\* POST /auth/refresh: read the session, ask whether its player is still there,
\* push the end of the session away.  Without a session there is a 401 and the
\* call changes nothing.
Refresh(c, s) ==
  /\ Free(c) /\ s \in live
  /\ thread' = [thread EXCEPT ![c] = [at |-> "check", sid |-> s]]
  /\ UNCHANGED <<base, lock, link, redis, closed, entered>>

Check(c) ==
  /\ At(c, "check")
  /\ Goto(c, IF account[owner[thread[c].sid]] = "open" THEN "touch" ELSE "drop")
  /\ UNCHANGED <<base, lock, link, redis, closed, entered>>

\* SET ... XX: a session that was dropped meanwhile does not rise again.
TouchedWithoutXX(s) == live \cup {s}
Touched(s) == live

Touch(c) ==
  /\ At(c, "touch")
  /\ live' = Touched(thread[c].sid)
  /\ Done(c)
  /\ UNCHANGED <<base, lock, link, owner, index, closed, entered>>

\* dropSession, of a refresh without a player and of POST /auth/logout: read who
\* it belongs to, then delete the key and the entry in one MULTI.
Logout(c, s) ==
  /\ Free(c) /\ owner[s] # NoAccount
  /\ thread' = [thread EXCEPT ![c] = [at |-> "drop", sid |-> s]]
  /\ UNCHANGED <<base, lock, link, redis, closed, entered>>

Read(c) ==
  /\ At(c, "drop")
  /\ thread' = [thread EXCEPT ![c] = [at |-> "delete", sid |-> @.sid, known |-> @.sid \in live]]
  /\ UNCHANGED <<base, lock, link, redis, closed, entered>>

Delete(c) ==
  /\ At(c, "delete")
  /\ LET s == thread[c].sid IN
       /\ live' = live \ {s}
       /\ index' = IF thread[c].known THEN [index EXCEPT ![owner[s]] = @ \ {s}] ELSE index
       /\ closed' = closed \cup {s}
  /\ Done(c)
  /\ UNCHANGED <<base, lock, link, owner, entered>>

-----------------------------------------------------------------------------
\* POST /me/deletion: the transaction, then every session of the player.
Leave(c, a) ==
  /\ Free(c) /\ account[a] = "open"
  /\ account' = [account EXCEPT ![a] = "deleted"]
  /\ mail' = mail \ {a}
  /\ identity' = IF identity = a THEN NoAccount ELSE identity
  /\ thread' = [thread EXCEPT ![c] = [at |-> "members", who |-> a]]
  /\ UNCHANGED <<lock, link, redis, closed, entered>>

Members(c) ==
  /\ At(c, "members")
  /\ thread' = [thread EXCEPT ![c] = [at |-> "wipe", who |-> @.who, sids |-> index[@.who]]]
  /\ UNCHANGED <<base, lock, link, redis, closed, entered>>

Wipe(c) ==
  /\ At(c, "wipe")
  /\ live' = live \ thread[c].sids
  /\ index' = [index EXCEPT ![thread[c].who] = {}]
  /\ Done(c)
  /\ UNCHANGED <<base, lock, link, owner, closed, entered>>

-----------------------------------------------------------------------------
\* Half a year without a refresh.
IdlesOut(s) ==
  /\ s \in live
  /\ live' = live \ {s}
  /\ UNCHANGED <<base, lock, link, owner, index, thread, closed, entered>>

\* The API stops within a call: its transaction, if it was in one, is undone.
Stop(c) ==
  /\ ~Free(c)
  /\ lock' = lock \ {c}
  /\ Done(c)
  /\ UNCHANGED <<base, link, redis, closed, entered>>

Step(c) ==
  \/ Lock(c) \/ Find(c) \/ Enter(c) \/ Issue(c)
  \/ Check(c) \/ Touch(c) \/ Read(c) \/ Delete(c) \/ Members(c) \/ Wipe(c)

Next ==
  \/ \E l \in Links : SendLetter(l) \/ Reject(l) \/ LinkGrowsOld(l)
  \/ \E c \in Threads, l \in Links : Verify(c, l) \/ Claim(c, l)
  \/ \E c \in Threads, s \in Sids : Refresh(c, s) \/ Logout(c, s)
  \/ \E c \in Threads, a \in Accounts : Leave(c, a)
  \/ \E c \in Threads : Google(c) \/ Step(c) \/ Stop(c)
  \/ \E s \in Sids : IdlesOut(s)

Spec == Init /\ [][Next]_sessionVars

-----------------------------------------------------------------------------
TypeOK ==
  /\ account \in [Accounts -> {"none", "open", "deleted"}]
  /\ mail \subseteq Accounts /\ identity \in Accounts \cup {NoAccount}
  /\ lock \subseteq Threads
  /\ link \in [Links -> [state : {"none", "open", "approved", "rejected"},
                         claimed : BOOLEAN, alive : BOOLEAN]]
  /\ live \subseteq Sids /\ closed \subseteq Sids
  /\ owner \in [Sids -> Accounts \cup {NoAccount}]
  /\ index \in [Accounts -> SUBSET Sids]

\* A session that was logged out does not come back, though a refresh that read
\* it before may still be going to write it (session.js:56).
LogoutIsFinal == closed \cap live = {}

\* Two links, or a link and Google, opened at the same time do not start two
\* accounts of one address (auth.js:121), nor does a deletion in between.
OneAccountPerEmail ==
  /\ Cardinality({a \in Accounts : account[a] = "open"}) <= 1
  /\ \A a \in Accounts : account[a] = "open" => a \in mail

\* A link lets in the browser that opened it and the tab that asked for it, each
\* once, and nobody once it was rejected.
LinkOpensOnce ==
  \A l \in Links :
    LET by(way) == {e.sid : e \in {e \in entered : e.by = <<way, l>>}} IN
      /\ Cardinality(by("verify")) <= 1 /\ Cardinality(by("wait")) <= 1
      /\ link[l].state # "approved" => by("verify") \cup by("wait") = {}

\* The deletion of an account finds its sessions: a session that can still be
\* refreshed is in the set of its player.
SessionsAreFound ==
  \A s \in live : account[owner[s]] = "open" => s \in index[owner[s]]

=============================================================================
