------------------------------ MODULE Rewards -------------------------------
(***************************************************************************)
(* What one player gets silver for and pays a chat with: the profile quiz, *)
(* the drink quiz (routes/quiz.js), the posts (routes/repost.js) and the   *)
(* messages (routes/chat.js).  The API serves several requests of the      *)
(* player, and visits of strangers, at once: what a handler reads before   *)
(* its transaction, or in it without a lock, may be stale when it writes.  *)
(***************************************************************************)
EXTENDS Integers, FiniteSets, FiniteSetsExt

CONSTANTS
  Calls,          \* requests that are served at the same time
  Items,          \* drinks on receipts of the player
  Attempts,       \* numbers of repost codes, 0..Attempts - 1
  MaxPosts,       \* max_per_account
  Gap,            \* min_days_between
  FreeMessages, MessagePrice,
  Milestones, Every,         \* drink_credit_milestones, drink_credit_every
  ProfileCoins, DrinkCoins, PostCoins,
  MaxDays, MaxMessages       \* bounds of the run

Codes == 0..(Attempts - 1)
Never == -1
NoLink == [open |-> FALSE, verified |-> Never, coins |-> 0]
Free == [op |-> "free"]

VARIABLES
  silver,         \* users.coins_silver
  profile,        \* the profile quiz was sent
  claimed,        \* drinks of receipts the player has claimed
  answer,         \* drink -> coins awarded with its answer, or Never
  link,           \* code -> row of repost_verifications
  messages,       \* coins charged for the messages: price -> how many
  call,           \* call -> what a request has read
  today

rewardVars == <<silver, profile, claimed, answer, link, messages, call, today>>

Init ==
  /\ silver = 0 /\ profile = FALSE /\ claimed = {}
  /\ answer = [i \in Items |-> Never]
  /\ link = [c \in Codes |-> NoLink]
  /\ messages = [p \in {0, MessagePrice} |-> 0]
  /\ call = [c \in Calls |-> Free] /\ today = 0

Begins(c, record) == call[c] = Free /\ call' = [call EXCEPT ![c] = record]
Ends(c) == call' = [call EXCEPT ![c] = Free]

-----------------------------------------------------------------------------
(* POST /quiz/profile: one statement decides who was first *)
SendProfile ==
  /\ ~profile /\ profile' = TRUE /\ silver' = silver + ProfileCoins
  /\ UNCHANGED <<claimed, answer, link, messages, call, today>>

(* a receipt with one more drink is claimed (wallet.js) *)
ClaimDrink(i) ==
  /\ i \notin claimed /\ claimed' = claimed \union {i}
  /\ UNCHANGED <<silver, profile, answer, link, messages, call, today>>

-----------------------------------------------------------------------------
(* POST /quiz/drink *)

EarnedCredits(n) ==
  Cardinality({m \in Milestones : n >= m})
    + (IF n >= Every THEN n \div Every - Cardinality({m \in Milestones : m % Every = 0}) ELSE 0)

Answered == {i \in Items : answer[i] # Never}
CreditsLeft == EarnedCredits(Cardinality(claimed)) - Cardinality(Answered)

(* the credits are counted before the transaction *)
CountCredits(c, i) ==
  /\ i \in claimed
  /\ Begins(c, [op |-> "quiz", item |-> i, reward |-> IF CreditsLeft > 0 THEN DrinkCoins ELSE 0])
  /\ UNCHANGED <<silver, profile, claimed, answer, link, messages, today>>

(* on conflict do nothing: every drink is answered once *)
FirstAnswer(i) == answer[i] = Never

SaveAnswer(c) ==
  /\ call[c].op = "quiz"
  /\ IF FirstAnswer(call[c].item)
     THEN /\ answer' = [answer EXCEPT ![call[c].item] = call[c].reward]
          /\ silver' = silver + call[c].reward
     ELSE UNCHANGED <<answer, silver>>
  /\ Ends(c) /\ UNCHANGED <<profile, claimed, link, messages, today>>

-----------------------------------------------------------------------------
(* GET /repost: the link that waits for its visitor, or a new one *)

Verified == {k \in Codes : link[k].verified # Never}
Waiting(done) == \E k \in done : link[k].verified + Gap > today
Open == {k \in Codes : link[k].open /\ link[k].verified = Never}

AskLink(c) ==
  /\ Open = {} /\ ~Waiting(Verified) /\ Cardinality(Verified) < MaxPosts
  /\ Begins(c, [op |-> "link", from |-> Cardinality(Verified)])
  /\ UNCHANGED <<silver, profile, claimed, answer, link, messages, today>>

(* freeCode: the first number that is not taken *)
FindCode(c) ==
  /\ call[c].op = "link"
  /\ LET free == {k \in Codes : k >= call[c].from /\ ~link[k].open}
     IN  call' = [call EXCEPT ![c] = IF free = {} THEN Free ELSE [op |-> "insert", code |-> Min(free)]]
  /\ UNCHANGED <<silver, profile, claimed, answer, link, messages, today>>

(* the token is unique: the second of two equal inserts fails *)
InsertLink(c) ==
  /\ call[c].op = "insert"
  /\ link' = IF link[call[c].code].open THEN link ELSE [link EXCEPT ![call[c].code].open = TRUE]
  /\ Ends(c) /\ UNCHANGED <<silver, profile, claimed, answer, messages, today>>

-----------------------------------------------------------------------------
(* POST /repost/visit/:token by somebody else; a row that is verified      *)
(* already ends it before the transaction                                  *)
Visit(c, k) ==
  /\ k \in Open
  /\ Begins(c, [op |-> "visit", code |-> k])
  /\ UNCHANGED <<silver, profile, claimed, answer, link, messages, today>>

Locked(k) == \E c \in Calls : call[c].op = "pay" /\ call[c].code = k

(* the transaction locks the link, looks at it again, and reads the others *)
StillOpen(k) == link[k].verified = Never

LockLink(c) ==
  /\ call[c].op = "visit" /\ ~Locked(call[c].code)
  /\ IF StillOpen(call[c].code) /\ Cardinality(Verified) < MaxPosts /\ ~Waiting(Verified)
     THEN call' = [call EXCEPT ![c].op = "pay"]
     ELSE Ends(c)
  /\ UNCHANGED <<silver, profile, claimed, answer, link, messages, today>>

PayVisit(c) ==
  /\ call[c].op = "pay"
  /\ link' = [link EXCEPT ![call[c].code].verified = today, ![call[c].code].coins = PostCoins]
  /\ silver' = silver + PostCoins
  /\ Ends(c) /\ UNCHANGED <<profile, claimed, answer, messages, today>>

-----------------------------------------------------------------------------
(* POST /me/plants/:id/chat *)

Sent == messages[0] + messages[MessagePrice]

(* the price is counted before the transaction *)
AskPrice(c) ==
  /\ Sent < MaxMessages
  /\ Begins(c, [op |-> "chat", price |-> IF Sent < FreeMessages THEN 0 ELSE MessagePrice])
  /\ UNCHANGED <<silver, profile, claimed, answer, link, messages, today>>

(* spendCoins locks the user; without coins nothing is written *)
CanPay(price) == price <= silver

SendMessage(c) ==
  /\ call[c].op = "chat"
  /\ IF CanPay(call[c].price)
     THEN /\ silver' = silver - call[c].price
          /\ messages' = [messages EXCEPT ![call[c].price] = @ + 1]
     ELSE UNCHANGED <<silver, messages>>
  /\ Ends(c) /\ UNCHANGED <<profile, claimed, answer, link, today>>

-----------------------------------------------------------------------------
NextDay ==
  /\ today < MaxDays /\ today' = today + 1
  /\ UNCHANGED <<silver, profile, claimed, answer, link, messages, call>>

Next ==
  \/ SendProfile \/ NextDay
  \/ \E i \in Items : ClaimDrink(i)
  \/ \E c \in Calls :
       \/ \E i \in Items : CountCredits(c, i)
       \/ \E k \in Codes : Visit(c, k)
       \/ SaveAnswer(c) \/ AskLink(c) \/ FindCode(c) \/ InsertLink(c)
       \/ LockLink(c) \/ PayVisit(c) \/ AskPrice(c) \/ SendMessage(c)

Spec == Init /\ [][Next]_rewardVars

-----------------------------------------------------------------------------
TypeOK ==
  /\ silver \in Nat /\ profile \in BOOLEAN /\ claimed \subseteq Items
  /\ answer \in [Items -> {Never, 0, DrinkCoins}]
  /\ link \in [Codes -> [open: BOOLEAN, verified: -1..MaxDays, coins: {0, PostCoins}]]
  /\ \A c \in Calls : call[c].op \in {"free", "quiz", "link", "insert", "visit", "pay", "chat"}

(* Whatever is served at once, the silver is what the rows say: every      *)
(* answer and every post paid once, and every charged message paid; it     *)
(* never falls below zero (quiz.js:239-254, repost.js:148-173,             *)
(* purchases.js:48-62).                                                    *)
SilverMatchesRows ==
  /\ silver >= 0
  /\ silver + MessagePrice * messages[MessagePrice] =
       (IF profile THEN ProfileCoins ELSE 0)
       + SumFunction([i \in Items |-> IF answer[i] = Never THEN 0 ELSE answer[i]])
       + SumFunction([k \in Codes |-> link[k].coins])

(* "не частіше раз на 10 днів між двома зарахованими постами; не більше 3  *)
(* разів сумарно" (docs/gamification_economy.md:286-287), and "два         *)
(* переходи в одну секунду не мають дати дві винагороди" (repost.js:146).  *)
PostsArePaced ==
  /\ Cardinality(Verified) <= MaxPosts
  /\ \A k, l \in Verified : k # l =>
       link[k].verified + Gap <= link[l].verified \/ link[l].verified + Gap <= link[k].verified

(* The drink quiz pays within the credits of the drinks (economy 2.4).     *)
QuizWithinCredits ==
  Cardinality({i \in Items : answer[i] = DrinkCoins}) <= EarnedCredits(Cardinality(claimed))

(* Only the first messages are free (chat.js:37).                          *)
FreeMessagesAreFew == messages[0] <= FreeMessages

(* What makes it inductive: what a request remembers is a reward or a      *)
(* price of this table, and who pays a post has its row, which is unpaid.  *)
ConstantsAreSound ==
  /\ IsFiniteSet(Items) /\ Attempts \in Nat
  /\ {MessagePrice, ProfileCoins, DrinkCoins, PostCoins} \subseteq Nat

CallRow ==
  [op : {"free"}] \cup [op : {"quiz"}, item : Items, reward : {0, DrinkCoins}]
    \cup [op : {"link"}, from : Nat] \cup [op : {"insert", "visit", "pay"}, code : Codes]
    \cup [op : {"chat"}, price : {0, MessagePrice}]
PostRow == [open : BOOLEAN, verified : {Never} \cup Nat, coins : {0, PostCoins}]
Typed ==
  /\ silver \in Nat /\ profile \in BOOLEAN /\ today \in Nat
  /\ answer \in [Items -> {Never, 0, DrinkCoins}]
  /\ link \in [Codes -> PostRow] /\ messages \in [{0, MessagePrice} -> Nat]
  /\ call \in [Calls -> CallRow]

PayerHasThePost ==
  /\ \A c \in Calls : call[c].op = "pay" => link[call[c].code].verified = Never
  /\ \A c, d \in Calls : call[c].op = "pay" /\ call[d].op = "pay" /\ call[c].code = call[d].code => c = d
UnpaidIsEmpty == \A k \in Codes : link[k].verified = Never => link[k].coins = 0

RewardInv == Typed /\ PayerHasThePost /\ UnpaidIsEmpty /\ SilverMatchesRows
=============================================================================
