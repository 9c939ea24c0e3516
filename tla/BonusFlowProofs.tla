-------------------------- MODULE BonusFlowProofs --------------------------
(***************************************************************************)
(* For any number of receipts and of players: a bonus is paid once, the    *)
(* outbox tells what the rows say, and once it has its snapshot the kiosk  *)
(* has no hole.  And of what the point measures: no sample is lost but for *)
(* want of room, and the first error of a kernel arrives (at the end).     *)
(*                                                                         *)
(* PaidOnce compares entries of the ledger with the grants they name, so   *)
(* the invariant adds what makes it inductive: a receipt has one grant,    *)
(* and a grant has one entry.  The first is kept by Ingest alone, the      *)
(* second by Redeem alone, because the grant it pays names nobody yet and  *)
(* an entry always has its player's name on the grant.                     *)
(***************************************************************************)
EXTENDS MCDevice, FiniteSetTheorems, WellFoundedInduction, TLAPS

Typed ==
  /\ grants \in Seq(Grant)
  /\ ledger \in Seq([player : Players, grant : Nat])
  /\ \A i \in 1..Len(ledger) : ledger[i].grant \in Grants

OneGrantEach ==
  \A g, h \in Grants : grants[g].receipt = grants[h].receipt => g = h

OneEntryEach ==
  \A i, j \in 1..Len(ledger) : ledger[i].grant = ledger[j].grant => i = j

NamesItsPlayer ==
  \A g \in Grants, u \in Players :
    grants[g].by = u <=> \E i \in 1..Len(ledger) :
                           ledger[i] = [player |-> u, grant |-> g]

IInv == Typed /\ OneGrantEach /\ OneEntryEach /\ NamesItsPlayer

\* In the beginning there is neither a grant nor an entry.
LEMMA InitIInv == Init => IInv
  BY DEF Init, IInv, Typed, OneGrantEach, OneEntryEach, NamesItsPlayer, Grants

\* The invariant speaks of grants and ledger only.
LEMMA SameRows == IInv /\ UNCHANGED <<grants, ledger>> => IInv'
  BY DEF IInv, Typed, OneGrantEach, OneEntryEach, NamesItsPlayer, Grants, Grant

\* A new grant is of a receipt that had none, and has no entry.
LEMMA IngestKeeps ==
  ASSUME IInv, NEW r \in Receipts, Ingest(r)
  PROVE  IInv'
<1> DEFINE n == Len(grants) + 1
           new == [receipt |-> r, status |-> "pending", claimed |-> FALSE, by |-> None]
<1>1. grants' = Append(grants, new) /\ ledger' = ledger
  BY DEF Ingest, NewGrant
<1>2. new \in Grant
  BY DEF Grant
<1>3. Len(grants) \in Nat
  BY DEF IInv, Typed
<1>4. grants' \in Seq(Grant) /\ Len(grants') = n
      /\ grants'[n] = new /\ \A g \in Grants : grants'[g] = grants[g]
  BY <1>1, <1>2 DEF IInv, Typed, Grants
<1>5. Grants' = Grants \cup {n} /\ n \notin Grants
  BY <1>3, <1>4 DEF Grants
<1>6. Typed'
  BY <1>1, <1>4, <1>5 DEF IInv, Typed
<1>7. OneGrantEach'
  BY <1>4, <1>5 DEF IInv, OneGrantEach, Ingest
<1>8. OneEntryEach'
  BY <1>1 DEF IInv, OneEntryEach
<1>9. NamesItsPlayer'
  <2> SUFFICES ASSUME NEW g \in Grants', NEW u \in Players
               PROVE  grants'[g].by = u <=>
                        \E i \in 1..Len(ledger') : ledger'[i] = [player |-> u, grant |-> g]
    BY Zenon DEF NamesItsPlayer
  <2>0. ledger' = ledger
    BY <1>1
  <2>1. CASE g \in Grants
    <3>1. grants[g].by = u <=>
            \E i \in 1..Len(ledger) : ledger[i] = [player |-> u, grant |-> g]
      BY <2>1, Zenon DEF IInv, NamesItsPlayer
    <3>2. grants'[g] = grants[g]
      BY <2>1, <1>4
    <3> QED
      BY <2>0, <3>1, <3>2
  <2>2. CASE g = n
    <3>1. grants'[g].by = None
      BY <2>2, <1>4
    <3>2. \A i \in 1..Len(ledger) : ledger[i].grant \in Grants
      BY DEF IInv, Typed
    <3> QED
      BY <2>0, <3>1, <3>2, <2>2, <1>5, NoneIsNoPlayer
  <2> QED
    BY <2>1, <2>2, <1>5
<1> QED
  BY <1>6, <1>7, <1>8, <1>9 DEF IInv

\* A phone that has read the QR changes neither receipt nor player.
LEMMA SeenKeeps ==
  ASSUME IInv, NEW g \in Grants, Seen(g)
  PROVE  IInv'
<1> DEFINE row == ClaimedRow(grants[g])
<1>1. grants' = [grants EXCEPT ![g] = row] /\ ledger' = ledger
  BY DEF Seen
<1>2. grants[g] \in Grant
  BY DEF IInv, Typed, Grants
<1>3. row \in Grant /\ row.receipt = grants[g].receipt /\ row.by = grants[g].by
  BY <1>2 DEF Grant, ClaimedRow
<1>4. grants' \in Seq(Grant) /\ Grants' = Grants
  BY <1>1, <1>3 DEF IInv, Typed, Grants
<1>5. \A h \in Grants : /\ grants'[h].receipt = grants[h].receipt
                        /\ grants'[h].by = grants[h].by
  BY <1>1, <1>3 DEF IInv, Typed, Grants
<1> QED
  BY <1>1, <1>4, <1>5 DEF IInv, Typed, OneGrantEach, OneEntryEach, NamesItsPlayer

\* The grant named nobody, so no entry was for it.
LEMMA RedeemKeeps ==
  ASSUME IInv, NEW g \in Grants, NEW u \in Players, Redeem(g, u)
  PROVE  IInv'
<1> DEFINE m == Len(ledger) + 1
           new == [player |-> u, grant |-> g]
<1> DEFINE row == RedeemedRow(grants[g], u)
<1>1. grants' = [grants EXCEPT ![g] = row]
  BY DEF Redeem
<1>2. row \in Grant /\ row.receipt = grants[g].receipt /\ row.by = u
  <2>1. grants[g] \in Grant
    BY DEF IInv, Typed, Grants
  <2> QED
    BY <2>1 DEF Grant, RedeemedRow
<1>3. /\ grants' \in Seq(Grant) /\ Grants' = Grants
      /\ \A h \in Grants : grants'[h].receipt = grants[h].receipt
      /\ \A h \in Grants \ {g} : grants'[h].by = grants[h].by
      /\ grants'[g].by = u
  BY <1>1, <1>2 DEF IInv, Typed, Grants
<1>4. Len(ledger) \in Nat /\ \A i \in 1..Len(ledger) :
        /\ ledger[i] \in [player : Players, grant : Nat]
        /\ ledger[i].grant \in Grants
  <2>1. ledger \in Seq([player : Players, grant : Nat])
    BY DEF IInv, Typed
  <2>2. Len(ledger) \in Nat
    BY <2>1
  <2>3. \A i \in 1..Len(ledger) : ledger[i] \in [player : Players, grant : Nat]
    <3> DEFINE Entry == [player : Players, grant : Nat]
    <3>1. ledger \in Seq(Entry)
      BY <2>1
    <3> HIDE DEF Entry
    <3>2. \A i \in 1..Len(ledger) : ledger[i] \in Entry
      BY <3>1
    <3> QED
      BY <3>2 DEF Entry
  <2> QED
    BY <2>2, <2>3 DEF IInv, Typed
<1>5. ledger' = Append(ledger, new) /\ new \in [player : Players, grant : Nat]
  BY DEF Redeem, Grants
<1>6. ledger' \in Seq([player : Players, grant : Nat]) /\ Len(ledger') = m
      /\ ledger'[m] = new /\ \A i \in 1..Len(ledger) : ledger'[i] = ledger[i]
  BY <1>5 DEF IInv, Typed
<1>7. \A i \in 1..Len(ledger) : ledger[i].grant # g
  <2> SUFFICES ASSUME NEW i \in 1..Len(ledger), ledger[i].grant = g
               PROVE  FALSE
    OBVIOUS
  <2>1. ledger[i] = [player |-> ledger[i].player, grant |-> g] /\ ledger[i].player \in Players
    BY <1>4
  <2>2. grants[g].by = ledger[i].player
    BY <2>1 DEF IInv, NamesItsPlayer
  <2> QED
    BY <2>1, <2>2, NoneIsNoPlayer DEF Redeem
<1>8. 1..Len(ledger') = 1..Len(ledger) \cup {m}
  BY <1>4, <1>6
<1>9. Typed'
  <2>1. \A i \in 1..Len(ledger') : ledger'[i].grant \in Grants
    BY <1>4, <1>6, <1>8
  <2> QED
    BY <2>1, <1>3, <1>6 DEF Typed
<1>10. OneGrantEach'
  BY <1>3 DEF IInv, OneGrantEach
<1>11. OneEntryEach'
  <2>1. ledger'[m].grant = g
    BY <1>6
  <2>2. \A i \in 1..Len(ledger) : ledger'[i].grant = ledger[i].grant
    BY <1>6
  <2> SUFFICES ASSUME NEW i \in 1..Len(ledger'), NEW j \in 1..Len(ledger'),
                      ledger'[i].grant = ledger'[j].grant
               PROVE  i = j
    BY DEF OneEntryEach
  <2> HIDE DEF m, new, row
  <2>3. CASE i = m /\ j = m
    BY <2>3
  <2>4. CASE i \in 1..Len(ledger) /\ j = m
    BY <2>4, <2>1, <2>2, <1>7
  <2>5. CASE i = m /\ j \in 1..Len(ledger)
    BY <2>5, <2>1, <2>2, <1>7
  <2>6. CASE i \in 1..Len(ledger) /\ j \in 1..Len(ledger)
    BY <2>6, <2>2 DEF IInv, OneEntryEach
  <2> QED
    BY <2>3, <2>4, <2>5, <2>6, <1>8
<1>12. NamesItsPlayer'
  <2> SUFFICES ASSUME NEW h \in Grants, NEW v \in Players
               PROVE  grants'[h].by = v <=>
                        \E i \in 1..Len(ledger') : ledger'[i] = [player |-> v, grant |-> h]
    BY <1>3 DEF NamesItsPlayer
  <2>1. CASE h = g
    <3>1. \A i \in 1..Len(ledger) : ledger'[i] # [player |-> v, grant |-> h]
      BY <2>1, <1>6, <1>7
    <3>2. ledger'[m] = [player |-> v, grant |-> h] <=> u = v
      BY <2>1, <1>6
    <3>3. grants'[h].by = u
      BY <2>1, <1>3
    <3>4. m \in 1..Len(ledger')
      BY <1>8
    <3> HIDE DEF m, new
    <3> QED
      BY <3>1, <3>2, <3>3, <3>4, <1>8
  <2>2. CASE h # g
    <3>1. grants'[h].by = grants[h].by
      BY <2>2, <1>3
    <3>2. ledger'[m] # [player |-> v, grant |-> h]
      BY <2>2, <1>6
    <3>3. grants[h].by = v <=>
            \E i \in 1..Len(ledger) : ledger[i] = [player |-> v, grant |-> h]
      BY Zenon DEF IInv, NamesItsPlayer
    <3> HIDE DEF m, new
    <3> QED
      BY <3>1, <3>2, <3>3, <1>6, <1>8
  <2> QED
    BY <2>1, <2>2
<1> QED
  BY <1>9, <1>10, <1>11, <1>12 DEF IInv

\* Every other step leaves the rows alone.
LEMMA NextKeeps == IInv /\ [Next]_vars => IInv'
<1> SUFFICES ASSUME IInv, [Next]_vars
             PROVE  IInv'
  OBVIOUS
<1>1. ASSUME NEW r \in Receipts, Ingest(r) PROVE IInv'
  BY <1>1, IngestKeeps
<1>2. ASSUME NEW g \in Grants, Burn(g) PROVE IInv'
  BY <1>2, SameRows DEF Burn
<1>3. CASE PhoneStep
  BY <1>3, SeenKeeps, RedeemKeeps DEF PhoneStep
<1>4. CASE DrainStep
  <2>1. UNCHANGED <<grants, ledger>>
    BY <1>4 DEF DrainStep, DrainBegin, Publish, PublishFails, DrainCommit, DrainAborts,
                grantVars
  <2> QED
    BY <2>1, SameRows
<1>5. CASE NetStep
  <2>1. UNCHANGED <<grants, ledger>>
    BY <1>5 DEF NetStep, Connect, FetchSnapshot, FetchFails, HandleText, Disconnect,
                grantVars
  <2> QED
    BY <2>1, SameRows
<1>6. CASE LoopStep
  <2>1. UNCHANGED <<grants, ledger>>
    BY <1>6 DEF LoopStep, FrameSnapshot, FrameEvents, grantVars
  <2> QED
    BY <2>1, SameRows
<1>7. CASE Restart
  BY <1>7, SameRows DEF Restart, grantVars
<1>8. CASE UNCHANGED vars
  BY <1>8, SameRows DEF vars, grantVars
<1> QED
  BY <1>1, <1>2, <1>3, <1>4, <1>5, <1>6, <1>7, <1>8 DEF Next

\* Two entries for a receipt name its one grant, which has one entry.
LEMMA IInvPaysOnce == IInv => PaidOnce
<1> SUFFICES ASSUME IInv
             PROVE  PaidOnce
  OBVIOUS
<1>1. \A i \in 1..Len(ledger) : ledger[i].grant \in Grants
  BY DEF IInv, Typed
<1> QED
  BY <1>1 DEF IInv, OneGrantEach, OneEntryEach, NamesItsPlayer, PaidOnce

\* A receipt pays once and to the player its grant names, however often it
\* is delivered and however many phones redeem it (receipts.js:118-139,
\* wallet.js:166-203).
THEOREM ReceiptPaysOnce == Spec => []PaidOnce
<1>1. Spec => []IInv
  BY InitIInv, NextKeeps, PTL DEF Spec, Safety
<1> QED
  BY <1>1, IInvPaysOnce, PTL

-----------------------------------------------------------------------------
(***************************************************************************)
(* The outbox tells what the rows of bonus_grants say, whatever drains it. *)
(*                                                                         *)
(* OutboxTellsRows counts events; the invariant says the same without      *)
(* counting: no two rows of the outbox are equal, each grant is announced, *)
(* a grant is told as taken if and only if a phone has claimed it, and an  *)
(* event is of a grant that is there.                                      *)
(***************************************************************************)
Ready(g) == [event |-> "bonus_ready", grant |-> g]
Taken(g) == [event |-> "bonus_taken", grant |-> g]

RowsTyped ==
  /\ grants \in Seq(Grant)
  /\ outbox \in Seq([event : {"bonus_ready", "bonus_taken"}, grant : Nat])
  /\ \A i \in 1..Len(outbox) : outbox[i].grant \in Grants

ToldOnce == \A i, j \in 1..Len(outbox) : outbox[i] = outbox[j] => i = j

Announced == \A g \in Grants : \E i \in 1..Len(outbox) : outbox[i] = Ready(g)

TakenIsClaimed ==
  \A g \in Grants : grants[g].claimed <=> \E i \in 1..Len(outbox) : outbox[i] = Taken(g)

ReadyComesFirst ==
  \A g \in Grants, i, j \in 1..Len(outbox) :
    outbox[i] = Ready(g) /\ outbox[j] = Taken(g) => i < j

OInv == RowsTyped /\ ToldOnce /\ Announced /\ TakenIsClaimed /\ ReadyComesFirst

\* In the beginning nothing is there to be told.
LEMMA InitOInv == Init => OInv
  BY DEF Init, OInv, RowsTyped, ToldOnce, Announced, TakenIsClaimed, ReadyComesFirst, Grants

\* The invariant speaks of the grants' number and claims and of the outbox only.
LEMMA SameClaims ==
  ASSUME OInv, outbox' = outbox, grants' \in Seq(Grant), Grants' = Grants,
         \A g \in Grants : grants'[g].claimed = grants[g].claimed
  PROVE  OInv'
  BY DEF OInv, RowsTyped, ToldOnce, Announced, TakenIsClaimed, ReadyComesFirst, Ready, Taken

\* What an event that is new does to the outbox.
LEMMA NewEvent ==
  ASSUME OInv, NEW g \in Nat, NEW e \in {Ready(g), Taken(g)}, outbox' = Append(outbox, e)
  PROVE  /\ Len(outbox) \in Nat /\ Len(outbox') = Len(outbox) + 1
         /\ outbox' \in Seq([event : {"bonus_ready", "bonus_taken"}, grant : Nat])
         /\ 1..Len(outbox') = 1..Len(outbox) \cup {Len(outbox) + 1}
         /\ Len(outbox) + 1 \notin 1..Len(outbox)
         /\ \A i \in 1..Len(outbox) : i < Len(outbox) + 1
         /\ outbox'[Len(outbox) + 1] = e
         /\ \A i \in 1..Len(outbox) : outbox'[i] = outbox[i]
<1> DEFINE Row == [event : {"bonus_ready", "bonus_taken"}, grant : Nat]
<1>1. e \in Row
  BY DEF Ready, Taken
<1>2. outbox \in Seq(Row)
  BY DEF OInv, RowsTyped
<1> HIDE DEF Row
<1>3. /\ Len(outbox) \in Nat /\ Len(outbox') = Len(outbox) + 1
      /\ outbox' \in Seq(Row)
      /\ outbox'[Len(outbox) + 1] = e
      /\ \A i \in 1..Len(outbox) : outbox'[i] = outbox[i]
  BY <1>1, <1>2
<1> QED
  BY <1>3 DEF Row

\* A new grant is announced in its own transaction.
LEMMA IngestTells ==
  ASSUME OInv, NEW r \in Receipts, Ingest(r)
  PROVE  OInv'
<1> DEFINE n == Len(grants) + 1
           k == Len(outbox) + 1
           new == [receipt |-> r, status |-> "pending", claimed |-> FALSE, by |-> None]
<1>1. /\ grants' = Append(grants, new) /\ outbox' = Append(outbox, Ready(n))
      /\ new \in Grant /\ grants \in Seq(Grant)
  BY DEF Ingest, NewGrant, Grant, Ready, OInv, RowsTyped
<1>2. /\ grants' \in Seq(Grant) /\ n \in Nat /\ Len(grants') = n
      /\ grants'[n] = new /\ \A g \in Grants : grants'[g] = grants[g]
  BY <1>1 DEF Grants
<1>3. Grants' = Grants \cup {n} /\ n \notin Grants /\ Grants \subseteq Nat
  BY <1>1, <1>2 DEF Grants
<1>4. ~grants'[n].claimed
  BY <1>2
<1> HIDE DEF n, new
<1>5. /\ 1..Len(outbox') = 1..Len(outbox) \cup {k} /\ k \notin 1..Len(outbox)
      /\ outbox' \in Seq([event : {"bonus_ready", "bonus_taken"}, grant : Nat])
      /\ outbox'[k] = Ready(n) /\ \A i \in 1..Len(outbox) : outbox'[i] = outbox[i] /\ i < k
  BY <1>1, <1>2, NewEvent
<1> HIDE DEF k
<1>6. \A i \in 1..Len(outbox) : outbox[i].grant \in Grants
  BY DEF OInv, RowsTyped
<1>7. \A i \in 1..Len(outbox) : outbox[i] # Ready(n) /\ outbox[i] # Taken(n)
  BY <1>3, <1>6 DEF Ready, Taken
<1>8. \A g \in Grants' : Taken(g) # Ready(n) /\ (Ready(g) = Ready(n) <=> g = n)
  BY DEF Ready, Taken
<1>9. RowsTyped'
  <2>1. outbox'[k].grant = n
    BY <1>5 DEF Ready
  <2> QED
    BY <1>2, <1>3, <1>5, <1>6, <2>1 DEF RowsTyped
<1>10. ToldOnce'
  BY <1>5, <1>7 DEF ToldOnce, OInv
<1>11. Announced'
  BY <1>3, <1>5 DEF Announced, OInv
<1>12. TakenIsClaimed'
  <2> SUFFICES ASSUME NEW g \in Grants'
               PROVE  grants'[g].claimed <=> \E i \in 1..Len(outbox') : outbox'[i] = Taken(g)
    BY DEF TakenIsClaimed
  <2>1. (\E i \in 1..Len(outbox') : outbox'[i] = Taken(g))
          <=> \E i \in 1..Len(outbox) : outbox[i] = Taken(g)
    BY <1>5, <1>8
  <2>2. CASE g = n
    BY <2>1, <2>2, <1>4, <1>7
  <2>3. CASE g \in Grants
    BY <2>1, <2>3, <1>2 DEF TakenIsClaimed, OInv
  <2> QED
    BY <2>2, <2>3, <1>3
<1>13. ReadyComesFirst'
  BY <1>3, <1>5, <1>7, <1>8 DEF ReadyComesFirst, OInv
<1> QED
  BY <1>9, <1>10, <1>11, <1>12, <1>13 DEF OInv

\* The first phone tells the kiosk, once: the grant was not claimed.
LEMMA SeenTells ==
  ASSUME OInv, NEW g \in Grants, Seen(g)
  PROVE  OInv'
<1> DEFINE k == Len(outbox) + 1
           row == ClaimedRow(grants[g])
<1>1. /\ grants' = [grants EXCEPT ![g] = row] /\ outbox' = Append(outbox, Taken(g))
      /\ ~grants[g].claimed
  BY DEF Seen, Taken
<1>2. row \in Grant /\ row.claimed
  <2>1. grants[g] \in Grant
    BY DEF OInv, RowsTyped, Grants
  <2> QED
    BY <2>1 DEF Grant, ClaimedRow
<1>3. /\ grants' \in Seq(Grant) /\ Grants' = Grants /\ g \in Nat
      /\ grants'[g].claimed
      /\ \A h \in Grants \ {g} : grants'[h] = grants[h]
  BY <1>1, <1>2 DEF OInv, RowsTyped, Grants
<1> HIDE DEF row
<1>4. /\ 1..Len(outbox') = 1..Len(outbox) \cup {k} /\ k \notin 1..Len(outbox)
      /\ outbox' \in Seq([event : {"bonus_ready", "bonus_taken"}, grant : Nat])
      /\ outbox'[k] = Taken(g) /\ \A i \in 1..Len(outbox) : outbox'[i] = outbox[i] /\ i < k
  BY <1>1, <1>3, NewEvent
<1> HIDE DEF k
<1>5. \A i \in 1..Len(outbox) : outbox[i] # Taken(g)
  BY <1>1 DEF OInv, TakenIsClaimed
<1>6. \A h \in Grants : Ready(h) # Taken(g) /\ (Taken(h) = Taken(g) <=> h = g)
  BY DEF Ready, Taken
<1>7. RowsTyped'
  <2>1. outbox'[k].grant = g
    BY <1>4 DEF Taken
  <2> QED
    BY <1>3, <1>4, <2>1 DEF RowsTyped, OInv
<1>8. ToldOnce'
  BY <1>4, <1>5 DEF ToldOnce, OInv
<1>9. Announced'
  <2> SUFFICES ASSUME NEW h \in Grants
               PROVE  \E i \in 1..Len(outbox') : outbox'[i] = Ready(h)
    BY <1>3 DEF Announced
  <2>1. PICK i \in 1..Len(outbox) : outbox[i] = Ready(h)
    BY DEF Announced, OInv
  <2> QED
    BY <1>4, <2>1
<1>10. TakenIsClaimed'
  <2> SUFFICES ASSUME NEW h \in Grants
               PROVE  grants'[h].claimed <=> \E i \in 1..Len(outbox') : outbox'[i] = Taken(h)
    BY <1>3 DEF TakenIsClaimed
  <2>1. CASE h = g
    BY <2>1, <1>3, <1>4
  <2>2. CASE h # g
    <3>1. (\E i \in 1..Len(outbox') : outbox'[i] = Taken(h))
            <=> \E i \in 1..Len(outbox) : outbox[i] = Taken(h)
      BY <2>2, <1>4, <1>6
    <3> QED
      BY <3>1, <2>2, <1>3 DEF TakenIsClaimed, OInv
  <2> QED
    BY <2>1, <2>2
<1>11. ReadyComesFirst'
  <2> SUFFICES ASSUME NEW h \in Grants, NEW i \in 1..Len(outbox'), NEW j \in 1..Len(outbox'),
                      outbox'[i] = Ready(h), outbox'[j] = Taken(h)
               PROVE  i < j
    BY <1>3 DEF ReadyComesFirst
  <2>1. i \in 1..Len(outbox) /\ outbox[i] = Ready(h)
    BY <1>4, <1>6
  <2>2. CASE j = k
    BY <2>1, <2>2, <1>4
  <2>3. CASE j \in 1..Len(outbox)
    BY <2>1, <2>3, <1>4 DEF ReadyComesFirst, OInv
  <2> QED
    BY <2>2, <2>3, <1>4
<1> QED
  BY <1>7, <1>8, <1>9, <1>10, <1>11 DEF OInv

\* Redeeming a bonus does not claim it.
LEMMA RedeemTells ==
  ASSUME OInv, NEW g \in Grants, NEW u \in Players, Redeem(g, u)
  PROVE  OInv'
<1> DEFINE row == RedeemedRow(grants[g], u)
<1>1. grants' = [grants EXCEPT ![g] = row] /\ outbox' = outbox
  BY DEF Redeem, outboxVars
<1>2. row \in Grant /\ row.claimed = grants[g].claimed
  <2>1. grants[g] \in Grant
    BY DEF OInv, RowsTyped, Grants
  <2> QED
    BY <2>1 DEF Grant, RedeemedRow
<1>3. /\ grants' \in Seq(Grant) /\ Grants' = Grants
      /\ \A h \in Grants : grants'[h].claimed = grants[h].claimed
  BY <1>1, <1>2 DEF OInv, RowsTyped, Grants
<1> QED
  BY <1>1, <1>3, SameClaims

\* The drain, the kiosk and the time leave both tables alone.
LEMMA NextTells == OInv /\ [Next]_vars => OInv'
<1> SUFFICES ASSUME OInv, [Next]_vars
             PROVE  OInv'
  OBVIOUS
<1>1. ASSUME NEW r \in Receipts, Ingest(r) PROVE OInv'
  BY <1>1, IngestTells
<1>2. CASE PhoneStep
  BY <1>2, SeenTells, RedeemTells DEF PhoneStep
<1>3. ASSUME UNCHANGED <<grants, outbox>> PROVE OInv'
  BY <1>3, SameClaims DEF Grants, OInv, RowsTyped
<1>4. ASSUME NEW g \in Grants, Burn(g) PROVE OInv'
  BY <1>3, <1>4 DEF Burn, outboxVars
<1>5. CASE DrainStep
  BY <1>3, <1>5 DEF DrainStep, DrainBegin, Publish, PublishFails, DrainCommit, DrainAborts,
                    grantVars
<1>6. CASE NetStep
  BY <1>3, <1>6 DEF NetStep, Connect, FetchSnapshot, FetchFails, HandleText, Disconnect,
                    grantVars, outboxVars
<1>7. CASE LoopStep
  BY <1>3, <1>7 DEF LoopStep, FrameSnapshot, FrameEvents, grantVars, outboxVars
<1>8. CASE Restart
  BY <1>3, <1>8 DEF Restart, grantVars, outboxVars
<1>9. CASE UNCHANGED vars
  BY <1>3, <1>9 DEF vars, grantVars, outboxVars
<1> QED
  BY <1>1, <1>2, <1>4, <1>5, <1>6, <1>7, <1>8, <1>9 DEF Next

\* A set with one element in it, and no other, is counted as one.
LEMMA OneOfASet ==
  ASSUME NEW S, NEW x \in S, \A y \in S : y = x
  PROVE  Cardinality(S) = 1
<1>1. S = {x}
  OBVIOUS
<1> QED
  BY <1>1, FS_Singleton

\* Events that differ from one another and are there are events that are counted.
LEMMA OInvTellsRows == OInv => OutboxTellsRows
<1> SUFFICES ASSUME OInv, NEW g \in Grants
             PROVE  LET Told(event) == {i \in 1..Len(outbox) :
                                          outbox[i] = [event |-> event, grant |-> g]}
                    IN /\ Cardinality(Told("bonus_ready")) = 1
                       /\ Cardinality(Told("bonus_taken")) = IF grants[g].claimed THEN 1 ELSE 0
                       /\ \A i \in Told("bonus_ready"), j \in Told("bonus_taken") : i < j
  BY DEF OutboxTellsRows
<1> DEFINE Told(event) == {i \in 1..Len(outbox) : outbox[i] = [event |-> event, grant |-> g]}
<1>1. Told("bonus_ready") = {i \in 1..Len(outbox) : outbox[i] = Ready(g)}
  BY DEF Ready
<1>2. Told("bonus_taken") = {i \in 1..Len(outbox) : outbox[i] = Taken(g)}
  BY DEF Taken
<1> HIDE DEF Told
<1>3. Cardinality(Told("bonus_ready")) = 1
  <2>1. PICK i \in 1..Len(outbox) : outbox[i] = Ready(g)
    BY DEF OInv, Announced
  <2>2. i \in Told("bonus_ready") /\ \A j \in Told("bonus_ready") : j = i
    BY <1>1, <2>1 DEF OInv, ToldOnce
  <2> QED
    BY <2>2, OneOfASet
<1>4. CASE grants[g].claimed
  <2>1. PICK i \in 1..Len(outbox) : outbox[i] = Taken(g)
    BY <1>4 DEF OInv, TakenIsClaimed
  <2>2. i \in Told("bonus_taken") /\ \A j \in Told("bonus_taken") : j = i
    BY <1>2, <2>1 DEF OInv, ToldOnce
  <2>3. Cardinality(Told("bonus_taken")) = 1
    BY <2>2, OneOfASet
  <2>4. \A i1 \in Told("bonus_ready"), j \in Told("bonus_taken") : i1 < j
    BY <1>1, <1>2 DEF OInv, ReadyComesFirst
  <2> QED
    BY <1>3, <1>4, <2>3, <2>4 DEF Told
<1>5. CASE ~grants[g].claimed
  <2>1. Told("bonus_taken") = {}
    BY <1>2, <1>5 DEF OInv, TakenIsClaimed
  <2> QED
    BY <1>3, <1>5, <2>1, FS_EmptySet DEF Told
<1> QED
  BY <1>4, <1>5

\* Each grant is announced once, and told as taken once when a phone has claimed it
\* and not before it was announced, for any number of receipts, of passes of the
\* drain and of phones (outbox.js:1-4; receipts.js:118-139; wallet.js:118-204).
THEOREM OutboxIsTrue == Spec => []OutboxTellsRows
<1>1. Spec => []OInv
  BY InitOInv, NextTells, PTL DEF Spec, Safety
<1> QED
  BY <1>1, OInvTellsRows, PTL

-----------------------------------------------------------------------------
(***************************************************************************)
(* Induction over a sequence.  Only and Applied run over a sequence by     *)
(* recursive functions: that such a function exists, and what it returns,  *)
(* follows by induction over 0..n, which WFMin of WellFoundedInduction     *)
(* gives for sets of numbers.                                              *)
(***************************************************************************)
\* A set of naturals that is not empty has a least element.
LEMMA LeastElement ==
  ASSUME NEW T, T \subseteq Nat, T # {}
  PROVE  \E x \in T : \A y \in T : x <= y
<1>1. \E x \in T : \A y \in T : ~(<<y, x>> \in OpToRel(<, Nat))
  BY WFMin, NatLessThanWellFounded
<1>2. OpToRel(<, Nat) = {ss \in Nat \X Nat : ss[1] < ss[2]}
  BY Zenon DEF OpToRel
<1>3. PICK x \in T : \A y \in T : ~(<<y, x>> \in {ss \in Nat \X Nat : ss[1] < ss[2]})
  BY <1>1, <1>2, Zenon
<1>4. \A y \in T : ~(y < x)
  BY <1>3
<1> QED
  BY <1>4

\* Induction over 0..n, for a set of numbers in the place of a predicate.
LEMMA PrefixInduction ==
  ASSUME NEW n \in Nat, NEW P, 0 \in P, \A k \in 1..n : k - 1 \in P => k \in P
  PROVE  \A k \in 0..n : k \in P
<1> DEFINE T == {k \in 0..n : k \notin P}
<1> SUFFICES ASSUME T # {}
             PROVE  FALSE
  OBVIOUS
<1>1. T \subseteq Nat
  OBVIOUS
<1> HIDE DEF T
<1>2. PICK x \in T : \A y \in T : x <= y
  BY <1>1, LeastElement
<1> USE DEF T
<1>3. x \in 1..n /\ x - 1 \in 0..n
  BY <1>2
<1> QED
  BY <1>2, <1>3

\* f is base at 0 and follows from its last value by step.
Follows(f, n, base, step) ==
  f[0] = base /\ \A j \in 1..n : f[j] = step[j][f[j - 1]]

\* There is such a function, whatever the step.
LEMMA Recursion ==
  ASSUME NEW n \in Nat, NEW R, NEW base \in R, NEW step \in [1..n -> [R -> R]]
  PROVE  \E f \in [0..n -> R] : Follows(f, n, base, step)
<1> DEFINE Is(f, k) == Follows(f, k, base, step)
           P == {k \in 0..n : \E f \in [0..k -> R] : Is(f, k)}
<1>1. 0 \in P
  <2> DEFINE z == [k \in 0..0 |-> base]
  <2>1. z \in [0..0 -> R] /\ Is(z, 0)
    BY DEF Follows
  <2> HIDE DEF z
  <2> QED
    BY <2>1
<1>2. \A k \in 1..n : k - 1 \in P => k \in P
  <2> SUFFICES ASSUME NEW k \in 1..n, NEW f \in [0..k - 1 -> R], Is(f, k - 1)
               PROVE  k \in P
    OBVIOUS
  <2> DEFINE g == [j \in 0..k |-> IF j = k THEN step[k][f[k - 1]] ELSE f[j]]
  <2>1. g \in [0..k -> R]
    OBVIOUS
  <2>2. Is(g, k)
    BY DEF Follows
  <2> HIDE DEF g
  <2> QED
    BY <2>1, <2>2
<1>3. n \in P
  <2> HIDE DEF P
  <2>1. \A k \in 0..n : k \in P
    BY <1>1, <1>2, PrefixInduction
  <2> QED
    BY <2>1
<1> QED
  BY <1>3

\* What Only does, element by element.
LEMMA OnlyUnfolds ==
  ASSUME NEW E, NEW s \in Seq(E), NEW S
  PROVE  \E f : /\ f[0] = << >>
                /\ \A k \in 1..Len(s) :
                     f[k] = IF s[k] \in S THEN Append(f[k - 1], s[k]) ELSE f[k - 1]
                /\ Only(s, S) = f[Len(s)]
<1> DEFINE n == Len(s)
           R == Seq(E)
           base == << >>
           Step(k, t) == IF s[k] \in S THEN Append(t, s[k]) ELSE t
           Def(f) == [k \in 0..n |-> IF k = 0 THEN << >>
                                     ELSE IF s[k] \in S THEN Append(f[k - 1], s[k]) ELSE f[k - 1]]
           step == [k \in 1..n |-> [t \in R |-> Step(k, t)]]
           only == CHOOSE f : f = Def(f)
<1>1. n \in Nat /\ base \in R /\ step \in [1..n -> [R -> R]]
  OBVIOUS
<1>2. \E f : f = Def(f)
  <2> HIDE DEF step, n, R, base, Step
  <2>1. PICK f \in [0..n -> R] : Follows(f, n, base, step)
    BY <1>1, Recursion
  <2>2. \A j \in 1..n : f[j - 1] \in R
    BY <1>1
  <2>3. \A j \in 1..n : step[j][f[j - 1]] = Step(j, f[j - 1])
    BY <2>2 DEF step
  <2>4. f = [k \in 0..n |-> IF k = 0 THEN base ELSE Step(k, f[k - 1])]
    BY <2>1, <2>3, <1>1 DEF Follows
  <2>5. f = Def(f)
    BY <2>4 DEF Step, base
  <2> QED
    BY <2>5
<1>3. only = Def(only)
  <2> HIDE DEF Def
  <2> QED
    BY <1>2
<1>4. Only(s, S) = only[n]
  BY Zenon DEF Only
<1> HIDE DEF only
<1>5. only[0] = << >>
  BY <1>3, <1>1
<1>6. \A k \in 1..n : only[k] = IF s[k] \in S THEN Append(only[k - 1], s[k]) ELSE only[k - 1]
  <2> SUFFICES ASSUME NEW k \in 1..n
               PROVE  only[k] = Step(k, only[k - 1])
    OBVIOUS
  <2>1. k \in 0..n /\ k # 0
    BY <1>1
  <2> HIDE DEF n
  <2>2. only[k] = Def(only)[k]
    BY <1>3
  <2>3. Def(only)[k] = Step(k, only[k - 1])
    BY <2>1
  <2> QED
    BY <2>2, <2>3
<1> QED
  BY <1>4, <1>5, <1>6

-----------------------------------------------------------------------------
(***************************************************************************)
(* What the main loop does to the panel.                                   *)
(***************************************************************************)
\* x is an element of the sequence s.
In(s, x) == \E i \in 1..Len(s) : s[i] = x

\* Only selects: what stays is what was there and is in S.
LEMMA OnlySelects ==
  ASSUME NEW E, NEW s \in Seq(E), NEW S
  PROVE  /\ Only(s, S) \in Seq(E) /\ Len(Only(s, S)) <= Len(s)
         /\ \A x \in E : In(Only(s, S), x) <=> x \in S /\ In(s, x)
<1> DEFINE n == Len(s)
<1>1. PICK f : /\ f[0] = << >>
               /\ \A k \in 1..n : f[k] = IF s[k] \in S THEN Append(f[k - 1], s[k]) ELSE f[k - 1]
               /\ Only(s, S) = f[n]
  BY OnlyUnfolds
<1> DEFINE Good(k) == /\ f[k] \in Seq(E) /\ Len(f[k]) <= k
                      /\ \A x \in E : In(f[k], x) <=> x \in S /\ \E i \in 1..k : s[i] = x
           P == {k \in 0..n : Good(k)}
<1>2. n \in Nat /\ \A k \in 1..n : s[k] \in E
  OBVIOUS
<1> HIDE DEF n
<1>3. 0 \in P
  <2>1. f[0] = << >> /\ Len(f[0]) = 0 /\ f[0] \in Seq(E)
    BY <1>1
  <2>2. \A x \in E : ~In(f[0], x)
    BY <2>1 DEF In
  <2>3. Good(0)
    BY <2>1, <2>2
  <2> QED
    BY <1>2, <2>3
<1>4. \A k \in 1..n : k - 1 \in P => k \in P
  <2> SUFFICES ASSUME NEW k \in 1..n, Good(k - 1)
               PROVE  Good(k)
    BY <1>2
  <2>1. \A x : (\E i \in 1..k : s[i] = x) <=> (\E i \in 1..k - 1 : s[i] = x) \/ s[k] = x
    BY <1>2
  <2>2. CASE s[k] \notin S
    <3>1. f[k] = f[k - 1]
      BY <1>1, <2>2
    <3> QED
      BY <3>1, <2>1, <2>2, <1>2
  <2>3. CASE s[k] \in S
    <3> DEFINE t == f[k - 1]
               m == Len(t) + 1
    <3>1. f[k] = Append(t, s[k]) /\ t \in Seq(E) /\ Len(t) <= k - 1 /\ s[k] \in E
      BY <1>1, <1>2, <2>3
    <3>2. \A x \in E : In(t, x) <=> x \in S /\ \E i \in 1..k - 1 : s[i] = x
      OBVIOUS
    <3> HIDE DEF t
    <3>3. /\ f[k] \in Seq(E) /\ Len(f[k]) = m /\ m \in 1..k /\ f[k][m] = s[k]
          /\ \A i \in 1..Len(t) : f[k][i] = t[i]
          /\ 1..m = 1..Len(t) \cup {m}
      BY <3>1
    <3> HIDE DEF m
    <3>4. \A x : In(f[k], x) <=> In(t, x) \/ s[k] = x
      BY <3>3 DEF In
    <3> QED
      BY <3>2, <3>3, <3>4, <2>1, <2>3, <1>2
  <2> QED
    BY <2>2, <2>3
<1>5. Good(n)
  <2> HIDE DEF P
  <2>1. \A k \in 0..n : k \in P
    BY <1>2, <1>3, <1>4, PrefixInduction
  <2> QED
    BY <2>1, <1>2 DEF P
<1> QED
  BY <1>1, <1>5 DEF In, n

\* Panels with rows, and events, of the grants of G.
Panels(G) == {p \in Seq([grant : G, going : BOOLEAN]) : Len(p) <= MaxRows}
EventOf(G) == [event : {"bonus_ready", "bonus_taken"}, grant : G]

\* Marking rows marks none but those of the grants of H.
LEMMA MarkRows ==
  ASSUME NEW G, NEW p \in Panels(G), NEW H
  PROVE  /\ Mark(p, H) \in Panels(G) /\ Len(Mark(p, H)) = Len(p)
         /\ \A i \in 1..Len(p) :
              /\ Mark(p, H)[i].grant = p[i].grant
              /\ Mark(p, H)[i] # p[i] => p[i].grant \in H
<1> DEFINE Row == [grant : G, going : BOOLEAN]
           row(i) == IF p[i].grant \in H /\ \A j \in 1..i - 1 : p[j].grant # p[i].grant
                     THEN [grant |-> p[i].grant, going |-> TRUE] ELSE p[i]
<1>1. p \in Seq(Row) /\ Len(p) \in Nat
  BY DEF Panels
<1>2. \A i \in 1..Len(p) : p[i] \in Row
  <2> HIDE DEF Row
  <2> QED
    BY <1>1
<1>3. \A i \in 1..Len(p) : /\ row(i) \in Row /\ row(i).grant = p[i].grant
                           /\ row(i) # p[i] => p[i].grant \in H
  BY <1>2
<1>4. Mark(p, H) = [i \in 1..Len(p) |-> row(i)]
  BY DEF Mark
<1> HIDE DEF Row, row
<1>5. Mark(p, H) \in Seq(Row) /\ Len(Mark(p, H)) = Len(p)
  BY <1>1, <1>3, <1>4
<1>6. \A i \in 1..Len(p) : Mark(p, H)[i] = row(i)
  BY <1>4
<1>7. Mark(p, H) \in Panels(G)
  BY <1>5 DEF Panels, Row
<1> QED
  BY <1>3, <1>5, <1>6, <1>7

\* Two sequences, one behind the other.
LEMMA Concatenation ==
  ASSUME NEW R, NEW p \in Seq(R), NEW q \in Seq(R)
  PROVE  /\ p \o q \in Seq(R) /\ Len(p \o q) = Len(p) + Len(q)
         /\ \A i \in 1..Len(p) + Len(q) :
              (p \o q)[i] = IF i <= Len(p) THEN p[i] ELSE q[i - Len(p)]
OBVIOUS

\* Rows are added behind those of the panel, for some of gs, and they stay.
LEMMA AddRowsAdds ==
  ASSUME NEW G, NEW p \in Panels(G), NEW gs \in Seq(G)
  PROVE  /\ AddRows(p, gs) \in Panels(G) /\ Len(p) <= Len(AddRows(p, gs))
         /\ \A i \in 1..Len(p) : AddRows(p, gs)[i] = p[i]
         /\ \A i \in 1..Len(AddRows(p, gs)) \ 1..Len(p) :
              ~AddRows(p, gs)[i].going /\ In(gs, AddRows(p, gs)[i].grant)
<1> DEFINE Row == [grant : G, going : BOOLEAN]
           room == MaxRows - Len(p)
           n == IF Len(gs) < room THEN Len(gs) ELSE room
           new == [i \in 1..n |-> [grant |-> gs[i], going |-> FALSE]]
<1>1. p \in Seq(Row) /\ Len(p) \in Nat /\ Len(gs) \in Nat /\ n \in Nat
      /\ n <= Len(gs) /\ Len(p) + n <= MaxRows
  BY MaxRowsIsPositive DEF Panels
<1>2. \A i \in 1..n : gs[i] \in G /\ In(gs, gs[i])
  BY <1>1 DEF In
<1>3. AddRows(p, gs) = p \o new
  BY DEF AddRows
<1> HIDE DEF n
<1>4. new \in Seq(Row) /\ Len(new) = n
      /\ \A i \in 1..n : ~new[i].going /\ In(gs, new[i].grant)
  BY <1>1, <1>2
<1> HIDE DEF new, Row
<1>5. /\ AddRows(p, gs) \in Seq(Row) /\ Len(AddRows(p, gs)) = Len(p) + n
      /\ \A i \in 1..Len(p) : AddRows(p, gs)[i] = p[i]
      /\ \A i \in 1..Len(p) + n \ 1..Len(p) : AddRows(p, gs)[i] = new[i - Len(p)]
  <2>1. new \in Seq(Row) /\ Len(new) = n
    BY <1>4
  <2>2. /\ p \o new \in Seq(Row) /\ Len(p \o new) = Len(p) + n
        /\ \A i \in 1..Len(p) + n :
             (p \o new)[i] = IF i <= Len(p) THEN p[i] ELSE new[i - Len(p)]
    <3>1. p \in Seq(Row)
      BY <1>1
    <3> QED
      BY <2>1, <3>1, Concatenation
  <2> QED
    BY <1>1, <1>3, <2>2
<1>6. \A i \in 1..Len(p) + n \ 1..Len(p) : i - Len(p) \in 1..n
  BY <1>1
<1>7. AddRows(p, gs) \in Panels(G)
  BY <1>1, <1>5 DEF Panels, Row
<1> QED
  BY <1>1, <1>4, <1>5, <1>6, <1>7

\* An event leaves a panel.
LEMMA ApplyKeeps ==
  ASSUME NEW G, NEW p \in Panels(G), NEW e \in EventOf(G)
  PROVE  Apply(p, e) \in Panels(G)
<1>1. <<e.grant>> \in Seq(G)
  BY DEF EventOf
<1>2. AddRows(p, <<e.grant>>) \in Panels(G)
  BY <1>1, AddRowsAdds
<1>3. Mark(p, {e.grant}) \in Panels(G)
  BY MarkRows
<1> QED
  BY <1>2, <1>3 DEF Apply

\* What Applied does, event by event.
LEMMA AppliedUnfolds ==
  ASSUME NEW G, NEW p \in Panels(G), NEW q \in Seq(EventOf(G))
  PROVE  \E f : /\ f[0] = p
                /\ \A k \in 1..Len(q) : f[k] = Apply(f[k - 1], q[k])
                /\ Applied(p, q) = f[Len(q)]
<1> DEFINE n == Len(q)
           R == Panels(G)
           base == p
           Def(f) == [k \in 0..n |-> IF k = 0 THEN p ELSE Apply(f[k - 1], q[k])]
           step == [k \in 1..n |-> [t \in R |-> Apply(t, q[k])]]
           after == CHOOSE f : f = Def(f)
<1>1. n \in Nat
  OBVIOUS
<1>2. \A k \in 1..n, t \in R : Apply(t, q[k]) \in R
  BY ApplyKeeps
<1>3. \E f : f = Def(f)
  <2> HIDE DEF n, R
  <2>1. step \in [1..n -> [R -> R]]
    BY <1>2
  <2>2. base \in R
    BY DEF R
  <2> HIDE DEF step, Def, base
  <2>3. PICK f \in [0..n -> R] : Follows(f, n, base, step)
    BY <1>1, <2>1, <2>2, Recursion
  <2>4. \A j \in 1..n : f[j - 1] \in R
    BY <1>1
  <2>5. \A j \in 1..n : step[j][f[j - 1]] = Apply(f[j - 1], q[j])
    BY <2>4 DEF step
  <2>6. f = Def(f)
    BY <2>3, <2>5, <1>1 DEF Def, base, Follows
  <2> QED
    BY <2>6
<1>4. after = Def(after)
  <2> HIDE DEF Def
  <2> QED
    BY <1>3
<1>5. Applied(p, q) = after[n]
  BY Zenon DEF Applied
<1> HIDE DEF after
<1>6. after[0] = p
  BY <1>4, <1>1
<1>7. \A k \in 1..n : after[k] = Apply(after[k - 1], q[k])
  <2> SUFFICES ASSUME NEW k \in 1..n
               PROVE  after[k] = Apply(after[k - 1], q[k])
    OBVIOUS
  <2>1. k \in 0..n /\ k # 0
    BY <1>1
  <2> HIDE DEF n
  <2>2. after[k] = Def(after)[k]
    BY <1>4
  <2>3. Def(after)[k] = Apply(after[k - 1], q[k])
    BY <2>1
  <2> QED
    BY <2>2, <2>3
<1> QED
  BY <1>5, <1>6, <1>7

\* The events of q leave a panel.
LEMMA AppliedIsAPanel ==
  ASSUME NEW G, NEW p \in Panels(G), NEW q \in Seq(EventOf(G))
  PROVE  Applied(p, q) \in Panels(G)
<1> DEFINE n == Len(q)
<1>1. PICK f : /\ f[0] = p
               /\ \A k \in 1..n : f[k] = Apply(f[k - 1], q[k])
               /\ Applied(p, q) = f[n]
  BY AppliedUnfolds
<1> DEFINE P == {k \in 0..n : f[k] \in Panels(G)}
<1>2. n \in Nat /\ \A k \in 1..n : q[k] \in EventOf(G)
  OBVIOUS
<1> HIDE DEF n
<1>3. 0 \in P
  BY <1>1, <1>2
<1>4. \A k \in 1..n : k - 1 \in P => k \in P
  BY <1>1, <1>2, ApplyKeeps
<1>5. f[n] \in Panels(G)
  <2> HIDE DEF P
  <2>1. \A k \in 0..n : k \in P
    BY <1>2, <1>3, <1>4, PrefixInduction
  <2> QED
    BY <2>1, <1>2 DEF P
<1> QED
  BY <1>1, <1>5

\* The events of q keep the rows of a grant that none of them says is taken; what they
\* add of it is not going.
LEMMA AppliedKeeps ==
  ASSUME NEW G, NEW p \in Panels(G), NEW q \in Seq(EventOf(G)), NEW g,
         \A k \in 1..Len(q) : q[k].event = "bonus_taken" => q[k].grant # g
  PROVE  LET a == Applied(p, q)
         IN  /\ \A i \in 1..Len(p) : p[i].grant = g => i \in 1..Len(a) /\ a[i] = p[i]
             /\ \A i \in 1..Len(a) :
                  a[i].grant = g => ~a[i].going \/ (i \in 1..Len(p) /\ a[i] = p[i])
<1> DEFINE n == Len(q)
           Good(a) == /\ a \in Panels(G)
                      /\ \A i \in 1..Len(p) : p[i].grant = g => i \in 1..Len(a) /\ a[i] = p[i]
                      /\ \A i \in 1..Len(a) :
                           a[i].grant = g => ~a[i].going \/ (i \in 1..Len(p) /\ a[i] = p[i])
<1>1. PICK f : /\ f[0] = p
               /\ \A k \in 1..n : f[k] = Apply(f[k - 1], q[k])
               /\ Applied(p, q) = f[n]
  BY AppliedUnfolds
<1> DEFINE P == {k \in 0..n : Good(f[k])}
<1>2. n \in Nat /\ \A k \in 1..n : q[k] \in EventOf(G)
  OBVIOUS
<1>3. ASSUME NEW k \in 1..n, NEW a, Good(a)
      PROVE  Good(Apply(a, q[k]))
  <2> DEFINE b == Apply(a, q[k])
  <2>1. q[k].grant \in G
    BY <1>2 DEF EventOf
  <2>2. CASE q[k].event = "bonus_ready"
    <3>1. b = AddRows(a, <<q[k].grant>>) /\ <<q[k].grant>> \in Seq(G)
      BY <2>1, <2>2 DEF Apply
    <3> HIDE DEF b
    <3>2. /\ b \in Panels(G) /\ Len(a) <= Len(b)
          /\ \A i \in 1..Len(a) : b[i] = a[i]
          /\ \A i \in 1..Len(b) \ 1..Len(a) : ~b[i].going
      BY <1>3, <3>1, AddRowsAdds
    <3>3. Len(a) \in Nat /\ Len(b) \in Nat
      BY <1>3, <3>2 DEF Panels
    <3>4. Good(b)
      BY <1>3, <3>2, <3>3
    <3> QED
      BY <3>4 DEF b
  <2>3. CASE q[k].event = "bonus_taken"
    <3>1. b = Mark(a, {q[k].grant}) /\ q[k].grant # g
      BY <2>3 DEF Apply
    <3> HIDE DEF b
    <3>2. /\ b \in Panels(G) /\ Len(b) = Len(a)
          /\ \A i \in 1..Len(a) : /\ b[i].grant = a[i].grant
                                  /\ b[i] # a[i] => a[i].grant # g
      BY <1>3, <3>1, MarkRows
    <3>3. Good(b)
      BY <1>3, <3>2
    <3> QED
      BY <3>3 DEF b
  <2> QED
    BY <1>2, <2>2, <2>3 DEF EventOf
<1>4. Good(p)
  OBVIOUS
<1> HIDE DEF n, Good
<1>5. 0 \in P
  BY <1>1, <1>2, <1>4
<1>6. \A k \in 1..n : k - 1 \in P => k \in P
  BY <1>1, <1>2, <1>3
<1>7. Good(f[n])
  <2> HIDE DEF P
  <2>1. \A k \in 0..n : k \in P
    BY <1>2, <1>5, <1>6, PrefixInduction
  <2> QED
    BY <2>1, <1>2 DEF P
<1> QED
  BY <1>1, <1>7 DEF Good

-----------------------------------------------------------------------------
(***************************************************************************)
(* Types: the tables, then the kiosk, whose messages and rows name grants  *)
(* and ids of the tables.                                                  *)
(***************************************************************************)
Entry == [player : Players, grant : Grants]
PanelRow == [grant : Grants, going : BOOLEAN]
Ids == 1..Len(outbox)

\* TypeOK has two halves.
TablesTyped ==
  /\ grants \in Seq(Grant) /\ ledger \in Seq(Entry) /\ burnt \subseteq Grants
  /\ outbox \in Seq(Event) /\ published \subseteq Ids
  /\ drain \in [todo : SUBSET Ids, sent : SUBSET Ids]

KioskTyped ==
  /\ link \in {"down", "joined", "listening"} /\ synced \in BOOLEAN
  /\ inbox \in Seq(Ids) /\ seen \subseteq Ids
  /\ queue \in Seq(Event) /\ snap \in [ready : BOOLEAN, rows : SUBSET Grants]
  /\ frame \in {"start", "events"} /\ panel \in Panels(Grants)
  /\ missed \subseteq Grants /\ known \subseteq Grants

\* Also of the next state, where the lemmas need it.
LEMMA TypeParts ==
  /\ TypeOK <=> TablesTyped /\ KioskTyped
  /\ TypeOK' <=> TablesTyped' /\ KioskTyped'
<1>1. panel \in Panels(Grants) <=> panel \in Seq(PanelRow) /\ Len(panel) <= MaxRows
  BY DEF Panels, PanelRow
<1>2. panel' \in Panels(Grants') <=> panel' \in Seq(PanelRow') /\ Len(panel') <= MaxRows
  BY DEF Panels, PanelRow
<1>3. TypeOK <=> TablesTyped /\ KioskTyped
  BY <1>1 DEF TypeOK, TablesTyped, KioskTyped, Entry, PanelRow, Ids
<1>4. TypeOK' <=> TablesTyped' /\ KioskTyped'
  BY <1>2 DEF TypeOK, TablesTyped, KioskTyped, Entry, PanelRow, Ids
<1> QED
  BY <1>3, <1>4

\* A sequence over a set is one over a larger set.
LEMMA SeqGrows ==
  ASSUME NEW A, NEW B, A \subseteq B, NEW s \in Seq(A)
  PROVE  s \in Seq(B)
  OBVIOUS

\* What is typed stays so while the tables grow.
LEMMA KioskStaysTyped ==
  ASSUME TypeOK, Grants \subseteq Grants', Ids \subseteq Ids',
         UNCHANGED <<netVars, queue, snap, loopVars>>
  PROVE  KioskTyped'
<1>1. Event \subseteq Event' /\ PanelRow \subseteq PanelRow'
  BY DEF Event, PanelRow
<1>2. KioskTyped
  BY TypeParts
<1>3. inbox \in Seq(Ids') /\ queue \in Seq(Event')
  <2>1. inbox \in Seq(Ids) /\ queue \in Seq(Event)
    BY <1>2 DEF KioskTyped
  <2> QED
    BY <2>1, <1>1, SeqGrows
<1>4. panel \in Panels(Grants')
  <2>1. panel \in Seq(PanelRow) /\ Len(panel) <= MaxRows
    BY <1>2 DEF KioskTyped, Panels, PanelRow
  <2>2. panel \in Seq(PanelRow')
    BY <2>1, <1>1, SeqGrows
  <2> QED
    BY <2>1, <2>2 DEF Panels, PanelRow
<1> QED
  BY <1>2, <1>3, <1>4 DEF KioskTyped, netVars, loopVars

\* Ingest adds a grant and its event.
LEMMA IngestTyped ==
  ASSUME TypeOK, NEW r \in Receipts, Ingest(r)
  PROVE  TypeOK'
<1> DEFINE n == Len(grants) + 1
           new == [receipt |-> r, status |-> "pending", claimed |-> FALSE, by |-> None]
           e == [event |-> "bonus_ready", grant |-> n]
<1>1. TablesTyped
  BY TypeParts
<1>2. /\ grants' = Append(grants, new) /\ outbox' = Append(outbox, e)
      /\ UNCHANGED <<ledger, burnt, published, drain, netVars, queue, snap, loopVars>>
      /\ new \in Grant
  BY DEF Ingest, NewGrant, Grant
<1>3. grants \in Seq(Grant) /\ outbox \in Seq(Event)
  BY <1>1 DEF TablesTyped
<1> HIDE DEF new
<1>4. grants' \in Seq(Grant) /\ Grants' = Grants \cup {n} /\ n \in Grants'
  <2>1. grants' \in Seq(Grant) /\ Len(grants') = n /\ n \in Nat \ {0} /\ Len(grants) \in Nat
    BY <1>2, <1>3
  <2> QED
    BY <2>1 DEF Grants
<1>5. e \in Event' /\ Event \subseteq Event' /\ Entry \subseteq Entry'
  BY <1>4 DEF Event, Entry
<1> HIDE DEF e
<1>6. outbox' \in Seq(Event') /\ Ids \subseteq Ids'
  <2>1. outbox \in Seq(Event')
    BY <1>3, <1>5, SeqGrows
  <2>2. outbox' \in Seq(Event') /\ Len(outbox') = Len(outbox) + 1 /\ Len(outbox) \in Nat
    BY <1>2, <1>5, <2>1
  <2> QED
    BY <2>2 DEF Ids
<1>7. ledger' \in Seq(Entry')
  BY <1>1, <1>2, <1>5, SeqGrows DEF TablesTyped
<1>8. drain' \in [todo : SUBSET Ids', sent : SUBSET Ids']
  BY <1>1, <1>2, <1>6 DEF TablesTyped
<1>9. Grant' = Grant
  BY DEF Grant
<1>10. TablesTyped'
  BY <1>1, <1>2, <1>4, <1>6, <1>7, <1>8, <1>9 DEF TablesTyped
<1>11. KioskTyped'
  BY <1>2, <1>4, <1>6, KioskStaysTyped
<1> QED
  BY <1>10, <1>11, TypeParts

\* Seen changes a row and adds its event.
LEMMA SeenTyped ==
  ASSUME TypeOK, NEW g \in Grants, Seen(g)
  PROVE  TypeOK'
<1> DEFINE row == ClaimedRow(grants[g])
           e == [event |-> "bonus_taken", grant |-> g]
<1>1. TablesTyped
  BY TypeParts
<1>2. /\ grants' = [grants EXCEPT ![g] = row] /\ outbox' = Append(outbox, e)
      /\ UNCHANGED <<ledger, burnt, published, drain, netVars, queue, snap, loopVars>>
  BY DEF Seen
<1>3. grants \in Seq(Grant) /\ outbox \in Seq(Event) /\ e \in Event
  BY <1>1 DEF TablesTyped, Event
<1>4. row \in Grant
  <2>1. grants[g] \in Grant
    BY <1>3 DEF Grants
  <2> QED
    BY <2>1 DEF Grant, ClaimedRow
<1> HIDE DEF row, e
<1>5. grants' \in Seq(Grant) /\ Grants' = Grants
  BY <1>2, <1>3, <1>4 DEF Grants
<1>6. Event' = Event /\ Entry' = Entry /\ Grant' = Grant
  BY <1>5 DEF Event, Entry, Grant
<1>7. outbox' \in Seq(Event) /\ Ids \subseteq Ids'
  <2>1. outbox' \in Seq(Event) /\ Len(outbox') = Len(outbox) + 1 /\ Len(outbox) \in Nat
    BY <1>2, <1>3
  <2> QED
    BY <2>1 DEF Ids
<1>8. drain' \in [todo : SUBSET Ids', sent : SUBSET Ids']
  BY <1>1, <1>2, <1>7 DEF TablesTyped
<1>9. TablesTyped'
  BY <1>1, <1>2, <1>5, <1>6, <1>7, <1>8 DEF TablesTyped
<1>10. KioskTyped'
  BY <1>2, <1>5, <1>7, KioskStaysTyped
<1> QED
  BY <1>9, <1>10, TypeParts

\* Redeem changes a row and adds its entry.
LEMMA RedeemTyped ==
  ASSUME TypeOK, NEW g \in Grants, NEW u \in Players, Redeem(g, u)
  PROVE  TypeOK'
<1> DEFINE row == RedeemedRow(grants[g], u)
           e == [player |-> u, grant |-> g]
<1>1. TablesTyped
  BY TypeParts
<1>2. /\ grants' = [grants EXCEPT ![g] = row] /\ ledger' = Append(ledger, e)
      /\ UNCHANGED <<burnt, outbox, published, drain, netVars, queue, snap, loopVars>>
  BY DEF Redeem, outboxVars
<1>3. grants \in Seq(Grant) /\ ledger \in Seq(Entry) /\ e \in Entry
  BY <1>1 DEF TablesTyped, Entry
<1>4. row \in Grant
  <2>1. grants[g] \in Grant
    BY <1>3 DEF Grants
  <2> QED
    BY <2>1 DEF Grant, RedeemedRow
<1> HIDE DEF row, e
<1>5. grants' \in Seq(Grant) /\ Grants' = Grants /\ ledger' \in Seq(Entry)
  BY <1>2, <1>3, <1>4 DEF Grants
<1>6. Event' = Event /\ Entry' = Entry /\ Grant' = Grant /\ Ids' = Ids
  BY <1>2, <1>5 DEF Event, Entry, Grant, Ids
<1>7. TablesTyped'
  BY <1>1, <1>2, <1>5, <1>6 DEF TablesTyped
<1>8. KioskTyped'
  BY <1>2, <1>5, <1>6, KioskStaysTyped
<1> QED
  BY <1>7, <1>8, TypeParts
\* The drain moves ids of the outbox.
LEMMA DrainTyped == TypeOK /\ DrainStep => TypeOK'
<1> SUFFICES ASSUME TypeOK, DrainStep
             PROVE  TypeOK'
  OBVIOUS
<1>1. TablesTyped /\ KioskTyped
  BY TypeParts
<1>2. /\ UNCHANGED <<grants, ledger, burnt, outbox, link, synced, seen, queue, snap, loopVars>>
      /\ published' \subseteq Ids
      /\ drain' \in [todo : SUBSET Ids, sent : SUBSET Ids]
      /\ inbox' = inbox \/ \E i \in drain.todo : inbox' = Append(inbox, i)
  BY <1>1 DEF DrainStep, DrainBegin, Publish, PublishFails, DrainCommit, DrainAborts,
              grantVars, outboxVars, netVars, TablesTyped, Ids, NoDrain
<1>3. Grants' = Grants /\ Ids' = Ids /\ Grant' = Grant /\ Event' = Event /\ Entry' = Entry
  BY <1>2 DEF Grants, Ids, Grant, Event, Entry
<1>4. inbox' \in Seq(Ids)
  <2>1. inbox \in Seq(Ids) /\ drain.todo \subseteq Ids
    BY <1>1 DEF KioskTyped, TablesTyped
  <2> QED
    BY <1>2, <2>1
<1>5. TablesTyped'
  BY <1>1, <1>2, <1>3 DEF TablesTyped
<1>6. KioskTyped'
  BY <1>1, <1>2, <1>3, <1>4 DEF KioskTyped, loopVars
<1> QED
  BY <1>5, <1>6, TypeParts

\* What the network thread takes, it takes from the tables; a restart empties the kiosk.
LEMMA NetTyped == TypeOK /\ (NetStep \/ Restart) => TypeOK'
<1> SUFFICES ASSUME TypeOK, NetStep \/ Restart
             PROVE  TypeOK'
  OBVIOUS
<1>1. TablesTyped /\ KioskTyped
  BY TypeParts
<1>2. UNCHANGED <<grants, ledger, burnt, outbox, published, drain>>
  BY DEF NetStep, Connect, FetchSnapshot, FetchFails, HandleText, Disconnect, Restart,
         grantVars, outboxVars
<1>3. Grants' = Grants /\ Ids' = Ids /\ Grant' = Grant /\ Event' = Event /\ Entry' = Entry
  BY <1>2 DEF Grants, Ids, Grant, Event, Entry
<1>4. TablesTyped'
  BY <1>1, <1>2, <1>3 DEF TablesTyped
<1>5. ASSUME Connect \/ FetchFails \/ Disconnect PROVE KioskTyped'
  <2>1. inbox' = inbox \/ inbox' = << >>
    BY <1>5 DEF Connect, FetchFails, Disconnect
  <2>2. inbox' \in Seq(Ids)
    <3>1. inbox \in Seq(Ids) /\ << >> \in Seq(Ids)
      BY <1>1 DEF KioskTyped
    <3> QED
      BY <2>1, <3>1
  <2> QED
    BY <1>1, <1>3, <1>5, <2>2 DEF KioskTyped, Connect, FetchFails, Disconnect, loopVars
<1>6. ASSUME FetchSnapshot PROVE KioskTyped'
  <2>1. Active \subseteq Grants
    BY DEF Active
  <2> QED
    BY <1>1, <1>3, <1>6, <2>1 DEF KioskTyped, FetchSnapshot
<1>7. ASSUME HandleText PROVE KioskTyped'
  <2>1. inbox \in Seq(Ids) /\ outbox \in Seq(Event) /\ queue \in Seq(Event)
    BY <1>1 DEF KioskTyped, TablesTyped
  <2>2. Head(inbox) \in Ids /\ inbox' \in Seq(Ids)
    BY <2>1, <1>7 DEF HandleText
  <2>3. outbox[Head(inbox)] \in Event
    BY <2>1, <2>2 DEF Ids
  <2>4. queue' \in Seq(Event)
    BY <2>1, <2>3, <1>7 DEF HandleText
  <2>5. seen' \subseteq Ids
    BY <1>1, <1>7, <2>2 DEF HandleText, KioskTyped
  <2> QED
    BY <1>1, <1>3, <1>7, <2>2, <2>4, <2>5 DEF KioskTyped, HandleText, loopVars
<1>8. ASSUME Restart PROVE KioskTyped'
  <2>1. << >> \in Seq(Ids) /\ << >> \in Seq(Event) /\ << >> \in Panels(Grants)
    BY MaxRowsIsPositive DEF Panels
  <2> QED
    BY <1>1, <1>3, <1>8, <2>1 DEF KioskTyped, Restart, NoSnap
<1>9. KioskTyped'
  BY <1>5, <1>6, <1>7, <1>8 DEF NetStep
<1> QED
  BY <1>4, <1>9, TypeParts

\* The rows of a panel.
LEMMA PanelIsTyped ==
  ASSUME NEW G, NEW p \in Panels(G)
  PROVE  /\ Len(p) \in Nat /\ Len(p) <= MaxRows
         /\ p \in Seq([grant : G, going : BOOLEAN])
         /\ \A i \in 1..Len(p) : p[i] \in [grant : G, going : BOOLEAN] /\ p[i].grant \in G
<1> DEFINE Row == [grant : G, going : BOOLEAN]
<1>1. p \in Seq(Row) /\ Len(p) <= MaxRows
  BY DEF Panels
<1> HIDE DEF Row
<1>2. Len(p) \in Nat /\ \A i \in 1..Len(p) : p[i] \in Row
  BY <1>1
<1> QED
  BY <1>1, <1>2 DEF Row

\* What a frame makes of the panel is a panel.
LEMMA LoopTyped == TypeOK /\ LoopStep => TypeOK'
<1> SUFFICES ASSUME TypeOK, LoopStep
             PROVE  TypeOK'
  OBVIOUS
<1>1. TablesTyped /\ KioskTyped
  BY TypeParts
<1>2. UNCHANGED <<grants, ledger, burnt, outbox, published, drain, link, synced, inbox, seen>>
  BY DEF LoopStep, FrameSnapshot, FrameEvents, grantVars, outboxVars, netVars
<1>3. Grants' = Grants /\ Ids' = Ids /\ Grant' = Grant /\ Event' = Event /\ Entry' = Entry
  BY <1>2 DEF Grants, Ids, Grant, Event, Entry
<1>4. TablesTyped'
  BY <1>1, <1>2, <1>3 DEF TablesTyped
<1>5. panel \in Panels(Grants) /\ Len(panel) \in Nat
      /\ \A i \in 1..Len(panel) : panel[i].grant \in Grants
  BY <1>1, PanelIsTyped DEF KioskTyped
<1>6. ASSUME FrameSnapshot PROVE KioskTyped'
  <2> DEFINE gone == Rows(panel) \ snap.rows
             all == [g \in Grants |-> g]
             lacking == Only(all, {g \in snap.rows : ~Has(panel, g)})
  <2>1. /\ frame' = "events" /\ snap' = NoSnap /\ UNCHANGED <<queue, known>>
        /\ panel' = AddRows(Mark(panel, gone), lacking)
        /\ missed' = missed \cup gone \cup (snap.rows \ Rows(panel'))
    BY <1>6 DEF FrameSnapshot
  <2>2. all \in Seq(Grants)
    BY <1>1 DEF Grants, TablesTyped
  <2>3. lacking \in Seq(Grants)
    <3> HIDE DEF all
    <3> QED
      BY <2>2, OnlySelects
  <2>4. Mark(panel, gone) \in Panels(Grants)
    BY <1>5, MarkRows
  <2> HIDE DEF lacking
  <2>5. panel' \in Panels(Grants)
    BY <2>1, <2>3, <2>4, AddRowsAdds
  <2>6. missed' \subseteq Grants
    BY <1>1, <1>5, <2>1 DEF KioskTyped, Rows
  <2> QED
    BY <1>1, <1>2, <1>3, <2>1, <2>5, <2>6 DEF KioskTyped, NoSnap
<1>7. ASSUME FrameEvents PROVE KioskTyped'
  <2> DEFINE applied == Applied(panel, queue)
             announced == {queue[k].grant : k \in {k \in 1..Len(queue) :
                                                     queue[k].event = "bonus_ready"}}
  <2>1. /\ frame' = "start" /\ queue' = << >> /\ snap' = snap
        /\ missed' = missed \cup (announced \ Rows(applied))
        /\ known' = known \cup Rows(panel')
    BY <1>7 DEF FrameEvents
  <2>2. PICK over \in SUBSET (burnt \cap Rows(applied)) :
          panel' = Only(applied, [grant : Grants \ over, going : {FALSE}])
    BY <1>7 DEF FrameEvents
  <2>3. queue \in Seq(EventOf(Grants)) /\ \A k \in 1..Len(queue) : queue[k].grant \in Grants
    <3>1. queue \in Seq(Event)
      BY <1>1 DEF KioskTyped
    <3>2. \A k \in 1..Len(queue) : queue[k] \in Event
      BY <3>1
    <3> QED
      BY <3>1, <3>2 DEF Event, EventOf
  <2>4. applied \in Panels(Grants)
    BY <1>5, <2>3, AppliedIsAPanel
  <2> HIDE DEF applied
  <2>5. panel' \in Panels(Grants)
    <3>1. applied \in Seq(PanelRow) /\ Len(applied) <= MaxRows /\ Len(applied) \in Nat
      BY <2>4 DEF Panels, PanelRow
    <3>2. panel' \in Seq(PanelRow) /\ Len(panel') <= Len(applied)
      BY <2>2, <3>1, OnlySelects
    <3>3. Len(panel') \in Nat
      BY <3>2
    <3> QED
      BY <3>1, <3>2, <3>3, MaxRowsIsPositive DEF Panels, PanelRow
  <2>6. \A i \in 1..Len(panel') : panel'[i].grant \in Grants
    BY <2>5, PanelIsTyped
  <2>7. missed' \subseteq Grants /\ known' \subseteq Grants
    BY <1>1, <2>1, <2>3, <2>6 DEF KioskTyped, Rows
  <2> QED
    BY <1>1, <1>2, <1>3, <2>1, <2>5, <2>7 DEF KioskTyped
<1>8. KioskTyped'
  BY <1>6, <1>7 DEF LoopStep
<1> QED
  BY <1>4, <1>8, TypeParts
\* A grant that burns is one that is there, and so every step keeps the types.
LEMMA NextTyped == TypeOK /\ [Next]_vars => TypeOK'
<1> SUFFICES ASSUME TypeOK, [Next]_vars
             PROVE  TypeOK'
  OBVIOUS
<1>1. ASSUME NEW r \in Receipts, Ingest(r) PROVE TypeOK'
  BY <1>1, IngestTyped
<1>2. ASSUME UNCHANGED <<grants, ledger, outbox, published, drain>>, burnt' \subseteq Grants,
             UNCHANGED <<netVars, queue, snap, loopVars>>
      PROVE  TypeOK'
  <2>1. Grants' = Grants /\ Ids' = Ids /\ Grant' = Grant /\ Event' = Event /\ Entry' = Entry
    BY <1>2 DEF Grants, Ids, Grant, Event, Entry
  <2>2. TablesTyped'
    BY <1>2, <2>1, TypeParts DEF TablesTyped
  <2>3. KioskTyped'
    BY <1>2, <2>1, KioskStaysTyped
  <2> QED
    BY <2>2, <2>3, TypeParts
<1>3. ASSUME NEW g \in Grants, Burn(g) PROVE TypeOK'
  <2>1. burnt' \subseteq Grants
    BY <1>3, TypeParts DEF Burn, TablesTyped
  <2> QED
    BY <1>2, <1>3, <2>1 DEF Burn, outboxVars
<1>4. CASE PhoneStep
  BY <1>4, SeenTyped, RedeemTyped DEF PhoneStep
<1>5. CASE DrainStep
  BY <1>5, DrainTyped
<1>6. CASE NetStep \/ Restart
  BY <1>6, NetTyped
<1>7. CASE LoopStep
  BY <1>7, LoopTyped
<1>8. CASE UNCHANGED vars
  <2>1. burnt' \subseteq Grants
    BY <1>8, TypeParts DEF vars, grantVars, TablesTyped
  <2> QED
    BY <1>2, <1>8, <2>1 DEF vars, grantVars, outboxVars
<1> QED
  BY <1>1, <1>3, <1>4, <1>5, <1>6, <1>7, <1>8 DEF Next

\* In the beginning all is empty.
LEMMA InitTyped == Init => TypeOK
<1> SUFFICES ASSUME Init
             PROVE  TypeOK
  OBVIOUS
<1>1. \A S : << >> \in Seq(S)
  OBVIOUS
<1>2. TablesTyped
  BY <1>1 DEF Init, TablesTyped, NoDrain
<1>3. << >> \in Panels(Grants)
  BY <1>1, MaxRowsIsPositive DEF Panels
<1>4. KioskTyped
  BY <1>1, <1>3 DEF Init, KioskTyped, NoSnap
<1> QED
  BY <1>2, <1>4, TypeParts

\* Whatever the network and the drain do, the rows, the socket and the panel hold what
\* they are for, and the panel no more rows than the screen has room for (bonus.c:214-338).
THEOREM TypeCorrect == Spec => []TypeOK
  BY InitTyped, NextTyped, PTL DEF Spec, Safety

-----------------------------------------------------------------------------
(***************************************************************************)
(* The kiosk has no hole.  NoHole asks where an active bonus is once the   *)
(* kiosk has its snapshot; it is not inductive.  Three things are missing: *)
(* an event in the socket whose id the kiosk remembers will be thrown      *)
(* away, so only an event it has not seen is on its way (Waiting); a row   *)
(* that is going still has the token, so a bonus that is announced again   *)
(* could have no other row, unless what made it go accounts for it         *)
(* (GoingIsExcused), and none is going when a frame starts (StartIsClean); *)
(* and an event that says taken would take the row away, but it is one of  *)
(* the outbox (QueueIsTold), which says so of claimed grants only (OInv).  *)
(***************************************************************************)
\* Where a bonus is: on the screen, on its way to it, or in the snapshot.
OnScreen(g) == \E i \in 1..Len(panel) : panel[i].grant = g /\ ~panel[i].going

Waiting(i) == i \notin seen /\ (i \notin published \cup drain.sent \/ In(inbox, i))

InSnap(g) == snap.ready /\ g \in snap.rows

Coming(g) ==
  \/ \E i \in Ids : outbox[i] = Ready(g) /\ Waiting(i)
  \/ In(queue, Ready(g))
  \/ InSnap(g)

\* What NoHole needs of the connection, of the queue and of the panel.
Joined == synced => link = "listening"
QueueIsTold == \A k \in 1..Len(queue) : In(outbox, queue[k])
StartIsClean == frame = "start" => \A i \in 1..Len(panel) : ~panel[i].going
GoingIsExcused ==
  synced => \A i \in 1..Len(panel) :
              panel[i].going /\ panel[i].grant \in Active =>
                panel[i].grant \in missed \/ InSnap(panel[i].grant)
Covered == synced => \A g \in Active : OnScreen(g) \/ Coming(g) \/ g \in missed

KInv == Joined /\ QueueIsTold /\ StartIsClean /\ GoingIsExcused /\ Covered

\* The invariant says more than NoHole.
LEMMA KInvNoHole == KInv => NoHole
<1> SUFFICES ASSUME KInv, link = "listening", synced, NEW g \in Active
             PROVE  OnScreen(g) \/ OnItsWay(g) \/ g \in missed
  BY DEF NoHole, OnScreen
<1>1. Coming(g) => OnItsWay(g)
  BY DEF Coming, OnItsWay, Waiting, InSnap, Ids, In, Ready
<1> QED
  BY <1>1 DEF KInv, Covered

\* In the beginning nothing is synced.
LEMMA InitKInv == Init => KInv
  BY DEF Init, KInv, Joined, QueueIsTold, StartIsClean, GoingIsExcused, Covered, NoSnap

\* The tables may change as long as no more grants are active.
LEMMA TablesKeep ==
  ASSUME KInv, Active' \subseteq Active, Ids \subseteq Ids',
         \A i \in Ids : outbox'[i] = outbox[i],
         UNCHANGED <<published, drain, netVars, queue, snap, loopVars>>
  PROVE  KInv'
<1>1. \A i : Waiting(i)' <=> Waiting(i)
  BY DEF Waiting, netVars, In
<1>2. \A g : /\ OnScreen(g)' <=> OnScreen(g)
             /\ InSnap(g)' <=> InSnap(g)
             /\ Coming(g) => Coming(g)'
  BY <1>1 DEF OnScreen, InSnap, Coming, In, loopVars
<1>3. QueueIsTold'
  BY DEF KInv, QueueIsTold, In, Ids
<1>4. Joined' /\ StartIsClean'
  BY DEF KInv, Joined, StartIsClean, netVars, loopVars
<1>5. GoingIsExcused'
  BY <1>2 DEF KInv, GoingIsExcused, netVars, loopVars
<1>6. Covered'
  BY <1>2 DEF KInv, Covered, netVars, loopVars
<1> QED
  BY <1>3, <1>4, <1>5, <1>6 DEF KInv

\* A phone and the time make grants inactive, never active again.
LEMMA PhoneAndTimeKeep ==
  ASSUME TypeOK, KInv, NEW g \in Grants,
         Burn(g) \/ Seen(g) \/ \E u \in Players : Redeem(g, u)
  PROVE  KInv'
<1>1. grants \in Seq(Grant) /\ outbox \in Seq(Event) /\ grants[g] \in Grant
  BY TypeParts DEF TablesTyped, Grants
<1>2. /\ Active' \subseteq Active
      /\ UNCHANGED <<published, drain, netVars, queue, snap, loopVars>>
      /\ outbox' = outbox \/ outbox' = Append(outbox, Taken(g))
  <2>1. CASE Burn(g)
    BY <2>1 DEF Burn, Active, Grants, outboxVars
  <2>2. CASE Seen(g)
    <3> DEFINE row == ClaimedRow(grants[g])
    <3>1. grants' = [grants EXCEPT ![g] = row] /\ row.claimed /\ burnt' = burnt
      BY <2>2, <1>1 DEF Seen, ClaimedRow, Grant
    <3> HIDE DEF row
    <3>2. Active' \subseteq Active
      BY <1>1, <3>1 DEF Active, Grants
    <3> QED
      BY <2>2, <3>2 DEF Seen, Taken
  <2>3. ASSUME NEW u \in Players, Redeem(g, u)
        PROVE  Active' \subseteq Active
    <3> DEFINE row == RedeemedRow(grants[g], u)
    <3>1. grants' = [grants EXCEPT ![g] = row] /\ row.status = "redeemed" /\ burnt' = burnt
      BY <2>3, <1>1 DEF Redeem, RedeemedRow, Grant
    <3> HIDE DEF row
    <3> QED
      BY <1>1, <3>1 DEF Active, Grants
  <2>4. CASE \E u \in Players : Redeem(g, u)
    BY <2>3, <2>4 DEF Redeem, outboxVars
  <2> QED
    BY <2>1, <2>2, <2>4
<1>3. Ids \subseteq Ids' /\ \A i \in Ids : outbox'[i] = outbox[i]
  BY <1>1, <1>2 DEF Ids
<1> QED
  BY <1>2, <1>3, TablesKeep

\* A new grant is active, and its event waits in the outbox.
LEMMA IngestCovers ==
  ASSUME TypeOK, KInv, NEW r \in Receipts, Ingest(r)
  PROVE  KInv'
<1> DEFINE n == Len(grants) + 1
           k == Len(outbox) + 1
           new == [receipt |-> r, status |-> "pending", claimed |-> FALSE, by |-> None]
<1>1. TablesTyped /\ KioskTyped
  BY TypeParts
<1>2. /\ grants' = Append(grants, new) /\ outbox' = Append(outbox, Ready(n))
      /\ UNCHANGED <<burnt, published, drain, netVars, queue, snap, loopVars>>
  BY DEF Ingest, NewGrant, Ready
<1>3. grants \in Seq(Grant) /\ outbox \in Seq(Event)
  BY <1>1 DEF TablesTyped
<1> HIDE DEF new
<1>4. Active' \subseteq Active \cup {n} /\ n \notin Grants
  <2>1. Len(grants) \in Nat /\ Len(grants') = n /\ \A g \in 1..Len(grants) : grants'[g] = grants[g]
    BY <1>2, <1>3
  <2>2. Grants' = Grants \cup {n} /\ n \notin Grants
    BY <2>1 DEF Grants
  <2> HIDE DEF n
  <2> QED
    BY <1>2, <2>1, <2>2 DEF Active, Grants
<1> HIDE DEF n
<1>5. /\ Ids' = Ids \cup {k} /\ k \notin Ids /\ outbox'[k] = Ready(n)
      /\ \A i \in Ids : outbox'[i] = outbox[i]
  <2>1. Len(outbox) \in Nat /\ Len(outbox') = k /\ outbox'[k] = Ready(n)
        /\ \A i \in 1..Len(outbox) : outbox'[i] = outbox[i]
    BY <1>2, <1>3
  <2> QED
    BY <2>1 DEF Ids
<1> HIDE DEF k
<1>6. \A i : Waiting(i)' <=> Waiting(i)
  BY <1>2 DEF Waiting, netVars, In
<1>7. \A g : /\ OnScreen(g)' <=> OnScreen(g)
             /\ InSnap(g)' <=> InSnap(g)
             /\ Coming(g) => Coming(g)'
  BY <1>2, <1>5, <1>6 DEF OnScreen, InSnap, Coming, In, loopVars
<1>8. Waiting(k)
  BY <1>1, <1>5 DEF Waiting, TablesTyped, KioskTyped
<1>9. \A g : g = n => Coming(g)'
  BY <1>5, <1>6, <1>8 DEF Coming
<1>10. QueueIsTold'
  BY <1>2, <1>5 DEF KInv, QueueIsTold, In, Ids
<1>11. Joined' /\ StartIsClean'
  BY <1>2 DEF KInv, Joined, StartIsClean, netVars, loopVars
<1>12. \A i \in 1..Len(panel) : panel[i].grant \in Grants
  BY <1>1, PanelIsTyped DEF KioskTyped
<1>13. GoingIsExcused'
  BY <1>2, <1>4, <1>7, <1>12 DEF KInv, GoingIsExcused, netVars, loopVars
<1>14. Covered'
  BY <1>2, <1>4, <1>7, <1>9 DEF KInv, Covered, netVars, loopVars
<1> QED
  BY <1>10, <1>11, <1>13, <1>14 DEF KInv
\* What is appended to a sequence is in it, with what was there.
LEMMA InAppend ==
  ASSUME NEW E, NEW s \in Seq(E), NEW x \in E
  PROVE  \A y : In(Append(s, x), y) <=> In(s, y) \/ y = x
<1>1. /\ Len(Append(s, x)) = Len(s) + 1 /\ Len(s) \in Nat /\ Append(s, x)[Len(s) + 1] = x
      /\ \A i \in 1..Len(s) : Append(s, x)[i] = s[i]
  OBVIOUS
<1> QED
  BY <1>1 DEF In

\* What is in a sequence and is not its head is in its tail.
LEMMA InTail ==
  ASSUME NEW E, NEW s \in Seq(E), s # << >>, NEW y, In(s, y)
  PROVE  y = Head(s) \/ In(Tail(s), y)
<1>1. PICK i \in 1..Len(s) : s[i] = y
  BY DEF In
<1>2. CASE i = 1
  BY <1>1, <1>2
<1>3. CASE i # 1
  <2>1. i - 1 \in 1..Len(Tail(s)) /\ Tail(s)[i - 1] = s[i]
    BY <1>3
  <2> QED
    BY <1>1, <2>1 DEF In
<1> QED
  BY <1>2, <1>3

\* An event that the drain has sent is in the socket, if somebody listens.
LEMMA DrainKeeps ==
  ASSUME TypeOK, KInv, DrainStep
  PROVE  KInv'
<1>1. TablesTyped /\ KioskTyped
  BY TypeParts
<1>2. UNCHANGED <<grants, ledger, burnt, outbox, link, synced, seen, queue, snap, loopVars>>
  BY DEF DrainStep, DrainBegin, Publish, PublishFails, DrainCommit, DrainAborts,
         grantVars, netVars
<1>3. ASSUME synced, NEW i, Waiting(i)
      PROVE  Waiting(i)'
  <2>1. link = "listening"
    BY <1>3 DEF KInv, Joined
  <2>2. ASSUME NEW j \in drain.todo, Publish(j)
        PROVE  Waiting(i)'
    <3>1. inbox' = Append(inbox, j) /\ drain'.sent = drain.sent \cup {j} /\ published' = published
      BY <2>1, <2>2 DEF Publish
    <3>2. inbox \in Seq(Ids) /\ j \in Ids
      BY <1>1 DEF KioskTyped, TablesTyped
    <3>3. \A y : In(inbox', y) <=> In(inbox, y) \/ y = j
      BY <3>1, <3>2, InAppend
    <3> QED
      BY <1>2, <1>3, <3>1, <3>3 DEF Waiting
  <2>3. ASSUME drain'.sent \cup published' \subseteq drain.sent \cup published, inbox' = inbox
        PROVE  Waiting(i)'
    BY <1>2, <1>3, <2>3 DEF Waiting, In
  <2>4. CASE DrainBegin \/ DrainCommit \/ DrainAborts
    BY <1>1, <2>3, <2>4 DEF DrainBegin, DrainCommit, DrainAborts, NoDrain, netVars, TablesTyped
  <2>5. ASSUME NEW j \in drain.todo, PublishFails(j)
        PROVE  Waiting(i)'
    BY <1>1, <2>3, <2>5 DEF PublishFails, netVars, TablesTyped
  <2> QED
    BY <2>2, <2>4, <2>5 DEF DrainStep
<1>4. Active' = Active /\ Ids' = Ids
  BY <1>2 DEF Active, Grants, Ids
<1>5. \A g : /\ OnScreen(g)' <=> OnScreen(g)
             /\ InSnap(g)' <=> InSnap(g)
             /\ synced /\ Coming(g) => Coming(g)'
  BY <1>2, <1>3, <1>4 DEF OnScreen, InSnap, Coming, In, loopVars
<1>6. Joined' /\ StartIsClean' /\ QueueIsTold'
  BY <1>2 DEF KInv, Joined, StartIsClean, QueueIsTold, In, loopVars
<1>7. GoingIsExcused'
  BY <1>2, <1>4, <1>5 DEF KInv, GoingIsExcused, loopVars
<1>8. Covered'
  BY <1>2, <1>4, <1>5 DEF KInv, Covered, loopVars
<1> QED
  BY <1>6, <1>7, <1>8 DEF KInv

\* A connection that is not synced promises nothing.
LEMMA UnsyncedKeeps ==
  ASSUME KInv, ~synced', UNCHANGED outbox, queue' = queue \/ queue' = << >>,
         UNCHANGED <<frame, panel>> \/ panel' = << >>
  PROVE  KInv'
<1>1. QueueIsTold'
  BY DEF KInv, QueueIsTold, In
<1>2. StartIsClean'
  BY DEF KInv, StartIsClean
<1> QED
  BY <1>1, <1>2 DEF KInv, Joined, GoingIsExcused, Covered

\* The snapshot holds all that is active; an event that was read is in the queue,
\* unless it had been read before.
LEMMA NetKeeps ==
  ASSUME TypeOK, KInv, NetStep \/ Restart
  PROVE  KInv'
<1>1. TablesTyped /\ KioskTyped
  BY TypeParts
<1>2. UNCHANGED <<grants, ledger, burnt, outbox, published, drain>>
  BY DEF NetStep, Connect, FetchSnapshot, FetchFails, HandleText, Disconnect, Restart,
         grantVars, outboxVars
<1>3. Active' = Active /\ Ids' = Ids
  BY <1>2 DEF Active, Grants, Ids
<1>4. CASE Connect \/ FetchFails
  <2>1. ~synced'
    BY <1>4 DEF Connect, FetchFails, KInv, Joined
  <2> QED
    BY <1>2, <1>4, <2>1, UnsyncedKeeps DEF Connect, FetchFails, loopVars
<1>5. CASE Disconnect
  BY <1>2, <1>5, UnsyncedKeeps DEF Disconnect, loopVars
<1>6. CASE Restart
  BY <1>2, <1>6, UnsyncedKeeps DEF Restart
<1>7. CASE FetchSnapshot
  <2>1. /\ link' = "listening" /\ snap' = [ready |-> TRUE, rows |-> Active]
        /\ UNCHANGED <<queue, frame, panel>>
    BY <1>7 DEF FetchSnapshot
  <2>2. \A g \in Active : InSnap(g)'
    BY <2>1 DEF InSnap
  <2>3. QueueIsTold' /\ StartIsClean' /\ Joined'
    BY <1>2, <2>1 DEF KInv, QueueIsTold, StartIsClean, Joined, In
  <2>4. GoingIsExcused' /\ Covered'
    BY <1>3, <2>1, <2>2 DEF GoingIsExcused, Covered, Coming
  <2> QED
    BY <2>3, <2>4 DEF KInv
<1>8. CASE HandleText
  <2> DEFINE h == Head(inbox)
  <2>1. /\ inbox # << >> /\ inbox' = Tail(inbox) /\ seen' = seen \cup {h}
        /\ queue' = IF h \in seen THEN queue ELSE Append(queue, outbox[h])
        /\ UNCHANGED <<link, synced, snap, loopVars>>
    BY <1>8 DEF HandleText
  <2>2. inbox \in Seq(Ids) /\ queue \in Seq(Event) /\ outbox \in Seq(Event)
    BY <1>1 DEF KioskTyped, TablesTyped
  <2>3. h \in Ids
    BY <2>1, <2>2
  <2>4. outbox[h] \in Event
    BY <2>2, <2>3 DEF Ids
  <2>5. \A y : In(inbox, y) => y = h \/ In(inbox', y)
    BY <2>1, <2>2, InTail
  <2>6. \A y : In(queue', y) <=> In(queue, y) \/ (h \notin seen /\ y = outbox[h])
    <3>1. \A y : In(Append(queue, outbox[h]), y) <=> In(queue, y) \/ y = outbox[h]
      BY <2>2, <2>4, InAppend
    <3> QED
      BY <2>1, <3>1
  <2> HIDE DEF h
  <2>7. \A i : Waiting(i) => Waiting(i)' \/ (i = h /\ h \notin seen)
    BY <1>2, <2>1, <2>5 DEF Waiting
  <2>8. \A g : /\ OnScreen(g)' <=> OnScreen(g)
               /\ InSnap(g)' <=> InSnap(g)
               /\ Coming(g) => Coming(g)'
    <3>1. \A g : (OnScreen(g)' <=> OnScreen(g)) /\ (InSnap(g)' <=> InSnap(g))
      BY <2>1 DEF OnScreen, InSnap, loopVars
    <3>2. ASSUME NEW g, Coming(g)
          PROVE  Coming(g)'
      <4>1. CASE InSnap(g)
        BY <4>1, <3>1 DEF Coming
      <4>2. CASE In(queue, Ready(g))
        <5>1. In(queue', Ready(g))
          BY <4>2, <2>6
        <5> QED
          BY <5>1 DEF Coming, Ready
      <4>3. ASSUME NEW i \in Ids, outbox[i] = Ready(g), Waiting(i)
            PROVE  Coming(g)'
        <5>1. CASE Waiting(i)'
          BY <1>2, <1>3, <4>3, <5>1 DEF Coming, Ready
        <5>2. CASE i = h /\ h \notin seen
          <6>1. In(queue', Ready(g))
            BY <4>3, <5>2, <2>6
          <6> QED
            BY <6>1 DEF Coming, Ready
        <5> QED
          BY <4>3, <5>1, <5>2, <2>7
      <4> QED
        BY <3>2, <4>1, <4>2, <4>3 DEF Coming
    <3> QED
      BY <3>1, <3>2
  <2>9. QueueIsTold'
    <3> SUFFICES ASSUME NEW k \in 1..Len(queue')
                 PROVE  In(outbox, queue'[k])
      BY <1>2 DEF QueueIsTold, In
    <3>1. In(queue', queue'[k])
      BY DEF In
    <3>2. In(outbox, outbox[h])
      BY <2>3 DEF In, Ids
    <3>3. \A y : In(queue, y) => In(outbox, y)
      BY DEF KInv, QueueIsTold, In
    <3> QED
      BY <3>1, <3>2, <3>3, <2>6
  <2>10. Joined' /\ StartIsClean'
    BY <2>1 DEF KInv, Joined, StartIsClean, loopVars
  <2>11. GoingIsExcused'
    BY <1>3, <2>1, <2>8 DEF KInv, GoingIsExcused, loopVars
  <2>12. Covered'
    BY <1>3, <2>1, <2>8 DEF KInv, Covered, loopVars
  <2> QED
    BY <2>9, <2>10, <2>11, <2>12 DEF KInv
<1> QED
  BY <1>4, <1>5, <1>6, <1>7, <1>8 DEF NetStep
\* The snapshot takes rows away that are not active, or that were not when it was taken.
LEMMA FrameSnapshotKeeps ==
  ASSUME TypeOK, KInv, FrameSnapshot
  PROVE  KInv'
<1> DEFINE gone == Rows(panel) \ snap.rows
           all == [g \in Grants |-> g]
           lacking == Only(all, {g \in snap.rows : ~Has(panel, g)})
           marked == Mark(panel, gone)
<1>1. TablesTyped /\ KioskTyped
  BY TypeParts
<1>2. /\ frame = "start" /\ snap.ready /\ frame' = "events"
      /\ panel' = AddRows(marked, lacking)
      /\ missed' = missed \cup gone \cup (snap.rows \ Rows(panel'))
      /\ UNCHANGED <<grants, burnt, outbox, published, drain, netVars, queue>>
  BY DEF FrameSnapshot, grantVars, outboxVars
<1>3. Active' = Active /\ Ids' = Ids
  BY <1>2 DEF Active, Grants, Ids
<1>4. panel \in Panels(Grants) /\ \A i \in 1..Len(panel) : ~panel[i].going
  BY <1>1, <1>2 DEF KioskTyped, KInv, StartIsClean
<1>5. lacking \in Seq(Grants)
  <2>1. all \in Seq(Grants)
    BY <1>1 DEF Grants, TablesTyped
  <2> HIDE DEF all
  <2> QED
    BY <2>1, OnlySelects
<1>6. /\ marked \in Panels(Grants) /\ Len(marked) = Len(panel)
      /\ \A i \in 1..Len(panel) : /\ marked[i].grant = panel[i].grant
                                  /\ marked[i] # panel[i] => panel[i].grant \in gone
  BY <1>4, MarkRows
<1> HIDE DEF lacking, marked
<1>7. /\ panel' \in Panels(Grants) /\ Len(panel) <= Len(panel')
      /\ \A i \in 1..Len(panel) : panel'[i] = marked[i]
      /\ \A i \in 1..Len(panel') \ 1..Len(panel) : ~panel'[i].going
  BY <1>2, <1>5, <1>6, AddRowsAdds
<1>8. Len(panel) \in Nat /\ Len(panel') \in Nat
  BY <1>4, <1>7, PanelIsTyped
<1>9. \A i \in 1..Len(panel') : panel'[i].going => panel'[i].grant \in gone
  BY <1>4, <1>6, <1>7
<1>10. \A i : Waiting(i)' <=> Waiting(i)
  BY <1>2 DEF Waiting, netVars, In
<1>11. GoingIsExcused'
  BY <1>2, <1>9 DEF GoingIsExcused
<1>12. Covered'
  <2> SUFFICES ASSUME synced, NEW g \in Active
               PROVE  OnScreen(g)' \/ Coming(g)' \/ g \in missed'
    BY <1>2, <1>3 DEF Covered, netVars
  <2>1. CASE OnScreen(g)
    <3>1. PICK i \in 1..Len(panel) : panel[i].grant = g /\ ~panel[i].going
      BY <2>1 DEF OnScreen
    <3>2. CASE g \in gone
      BY <1>2, <3>2
    <3>3. CASE g \notin gone
      <4>1. panel'[i] = panel[i] /\ i \in 1..Len(panel')
        BY <1>6, <1>7, <1>8, <3>1, <3>3
      <4> QED
        BY <3>1, <4>1 DEF OnScreen
    <3> QED
      BY <3>2, <3>3
  <2>2. CASE InSnap(g)
    <3>1. g \notin gone /\ g \in snap.rows
      BY <2>2 DEF InSnap
    <3>2. CASE g \notin Rows(panel')
      BY <1>2, <3>1, <3>2
    <3>3. CASE g \in Rows(panel')
      BY <1>9, <3>1, <3>3 DEF Rows, OnScreen
    <3> QED
      BY <3>2, <3>3
  <2>3. CASE (\E i \in Ids : outbox[i] = Ready(g) /\ Waiting(i)) \/ In(queue, Ready(g))
    BY <1>2, <1>3, <1>10, <2>3 DEF Coming, Ready, In
  <2>4. CASE g \in missed
    BY <1>2, <2>4
  <2> QED
    BY <2>1, <2>2, <2>3, <2>4 DEF KInv, Covered, Coming
<1>13. Joined' /\ QueueIsTold' /\ StartIsClean'
  BY <1>2 DEF KInv, Joined, QueueIsTold, StartIsClean, In, netVars
<1> QED
  BY <1>11, <1>12, <1>13 DEF KInv

\* An active bonus is not told as taken, so no event takes its row away; one that is
\* announced has a row now, or had no room.
LEMMA FrameEventsKeeps ==
  ASSUME TypeOK, OInv, KInv, FrameEvents
  PROVE  KInv'
<1> DEFINE applied == Applied(panel, queue)
           announced == {queue[k].grant : k \in {k \in 1..Len(queue) :
                                                   queue[k].event = "bonus_ready"}}
<1>1. TablesTyped /\ KioskTyped
  BY TypeParts
<1>2. /\ frame' = "start" /\ queue' = << >>
      /\ missed' = missed \cup (announced \ Rows(applied))
      /\ UNCHANGED <<grants, burnt, outbox, published, drain, netVars, snap>>
  BY DEF FrameEvents, grantVars, outboxVars
<1>3. PICK over \in SUBSET (burnt \cap Rows(applied)) :
        panel' = Only(applied, [grant : Grants \ over, going : {FALSE}])
  BY DEF FrameEvents
<1>4. Active' = Active /\ Ids' = Ids
  BY <1>2 DEF Active, Grants, Ids
<1>5. queue \in Seq(Event) /\ queue \in Seq(EventOf(Grants))
      /\ \A k \in 1..Len(queue) : queue[k] \in Event
  <2>1. queue \in Seq(Event)
    BY <1>1 DEF KioskTyped
  <2>2. \A k \in 1..Len(queue) : queue[k] \in Event
    BY <2>1
  <2> QED
    BY <2>1, <2>2 DEF Event, EventOf
<1>6. panel \in Panels(Grants) /\ applied \in Panels(Grants)
  BY <1>1, <1>5, AppliedIsAPanel DEF KioskTyped
<1>7. ASSUME NEW g \in Active
      PROVE  /\ \A i \in 1..Len(panel) :
                  panel[i].grant = g => i \in 1..Len(applied) /\ applied[i] = panel[i]
             /\ \A i \in 1..Len(applied) :
                  applied[i].grant = g =>
                    ~applied[i].going \/ (i \in 1..Len(panel) /\ applied[i] = panel[i])
  <2>1. \A i \in Ids : outbox[i] # Taken(g)
    BY DEF OInv, TakenIsClaimed, Active, Ids
  <2>2. \A k \in 1..Len(queue) : queue[k].event = "bonus_taken" => queue[k].grant # g
    <3> SUFFICES ASSUME NEW k \in 1..Len(queue), queue[k].event = "bonus_taken",
                        queue[k].grant = g
                 PROVE  FALSE
      OBVIOUS
    <3>1. queue[k] = Taken(g)
      BY <1>5 DEF Event, Taken
    <3>2. In(outbox, queue[k])
      BY DEF KInv, QueueIsTold
    <3> QED
      BY <2>1, <3>1, <3>2 DEF In, Ids
  <2> QED
    BY <1>5, <1>6, <2>2, AppliedKeeps
<1> HIDE DEF applied
<1>8. /\ applied \in Seq(PanelRow)
      /\ \A i \in 1..Len(applied) : applied[i] \in PanelRow
  BY <1>6, PanelIsTyped DEF PanelRow
<1>9. /\ panel' \in Seq(PanelRow)
      /\ \A x \in PanelRow : In(panel', x) <=>
                               x \in [grant : Grants \ over, going : {FALSE}] /\ In(applied, x)
  <2> DEFINE stay == [grant : Grants \ over, going : {FALSE}]
  <2>1. panel' = Only(applied, stay) /\ applied \in Seq(PanelRow)
    BY <1>3, <1>8
  <2> HIDE DEF stay
  <2>2. /\ panel' \in Seq(PanelRow)
        /\ \A x \in PanelRow : In(panel', x) <=> x \in stay /\ In(applied, x)
    BY <2>1, OnlySelects
  <2> QED
    BY <2>2 DEF stay
<1>10. \A i \in 1..Len(panel') : ~panel'[i].going
  <2> SUFFICES ASSUME NEW i \in 1..Len(panel')
               PROVE  ~panel'[i].going
    OBVIOUS
  <2>1. panel'[i] \in PanelRow
    BY <1>9
  <2>2. In(panel', panel'[i])
    BY DEF In
  <2> QED
    BY <1>9, <2>1, <2>2
<1>11. ASSUME NEW g \in Active, NEW i \in 1..Len(applied), applied[i].grant = g,
              ~applied[i].going
       PROVE  OnScreen(g)'
  <2>1. applied[i] \in PanelRow /\ In(applied, applied[i])
    BY <1>8 DEF In
  <2>2. applied[i] \in [grant : Grants \ over, going : {FALSE}]
    BY <1>11, <2>1 DEF PanelRow, Active
  <2>3. In(panel', applied[i])
    BY <1>9, <2>1, <2>2
  <2> QED
    BY <1>11, <2>3 DEF In, OnScreen
<1>12. Covered'
  <2> SUFFICES ASSUME synced, NEW g \in Active
               PROVE  OnScreen(g)' \/ Coming(g)' \/ g \in missed'
    BY <1>2, <1>4 DEF Covered, netVars
  <2>1. CASE OnScreen(g)
    BY <2>1, <1>7, <1>11 DEF OnScreen
  <2>2. CASE InSnap(g)
    BY <2>2, <1>2 DEF InSnap, Coming
  <2>3. CASE \E i \in Ids : outbox[i] = Ready(g) /\ Waiting(i)
    <3>1. \A i : Waiting(i)' <=> Waiting(i)
      BY <1>2 DEF Waiting, netVars, In
    <3> QED
      BY <1>2, <1>4, <2>3, <3>1 DEF Coming, Ready
  <2>4. CASE In(queue, Ready(g))
    <3>1. g \in announced
      BY <2>4 DEF In, Ready
    <3>2. CASE g \notin Rows(applied)
      BY <1>2, <3>1, <3>2
    <3>3. CASE g \in Rows(applied)
      <4>1. PICK i \in 1..Len(applied) : applied[i].grant = g
        BY <3>3 DEF Rows
      <4>2. CASE ~applied[i].going
        BY <4>1, <4>2, <1>11
      <4>3. CASE applied[i].going
        <5>1. i \in 1..Len(panel) /\ panel[i].going /\ panel[i].grant = g
          BY <4>1, <4>3, <1>7
        <5>2. g \in missed \/ InSnap(g)
          BY <5>1 DEF KInv, GoingIsExcused
        <5> QED
          BY <5>2, <2>2, <1>2
      <4> QED
        BY <4>2, <4>3
    <3> QED
      BY <3>2, <3>3
  <2>5. CASE g \in missed
    BY <1>2, <2>5
  <2> QED
    BY <2>1, <2>2, <2>3, <2>4, <2>5 DEF KInv, Covered, Coming
<1>13. GoingIsExcused' /\ StartIsClean'
  BY <1>10 DEF GoingIsExcused, StartIsClean
<1>14. Joined' /\ QueueIsTold'
  BY <1>2 DEF KInv, Joined, QueueIsTold, netVars
<1> QED
  BY <1>12, <1>13, <1>14 DEF KInv

\* Every step keeps the invariant.
LEMMA NextKeepsKInv == TypeOK /\ OInv /\ KInv /\ [Next]_vars => KInv'
<1> SUFFICES ASSUME TypeOK, OInv, KInv, [Next]_vars
             PROVE  KInv'
  OBVIOUS
<1>1. ASSUME NEW r \in Receipts, Ingest(r) PROVE KInv'
  BY <1>1, IngestCovers
<1>2. ASSUME NEW g \in Grants, Burn(g) PROVE KInv'
  BY <1>2, PhoneAndTimeKeep
<1>3. CASE PhoneStep
  BY <1>3, PhoneAndTimeKeep DEF PhoneStep
<1>4. CASE DrainStep
  BY <1>4, DrainKeeps
<1>5. CASE NetStep \/ Restart
  BY <1>5, NetKeeps
<1>6. CASE LoopStep
  BY <1>6, FrameSnapshotKeeps, FrameEventsKeeps DEF LoopStep
<1>7. CASE UNCHANGED vars
  <2>1. /\ Active' = Active /\ Ids' = Ids /\ outbox' = outbox
        /\ UNCHANGED <<published, drain, netVars, queue, snap, loopVars>>
    BY <1>7 DEF vars, grantVars, outboxVars, Active, Grants, Ids
  <2> QED
    BY <2>1, TablesKeep
<1> QED
  BY <1>1, <1>2, <1>3, <1>4, <1>5, <1>6, <1>7 DEF Next

\* Once the kiosk has its snapshot, every active bonus is on its screen, on its way to it
\* or dropped for want of room, for any number of receipts and phones, whatever Redis, the
\* drain and the connection do and however often an event comes (kiosk/ws.c:589-592,
\* main.c:736-819, outbox.js:20-54).
THEOREM NoHoleStays == Spec => []NoHole
<1>1. Init => TypeOK /\ OInv /\ KInv
  BY InitTyped, InitOInv, InitKInv
<1>2. TypeOK /\ OInv /\ KInv /\ [Next]_vars => (TypeOK /\ OInv /\ KInv)'
  BY NextTyped, NextTells, NextKeepsKInv
<1> QED
  BY <1>1, <1>2, KInvNoHole, PTL DEF Spec, Safety

-----------------------------------------------------------------------------
(***************************************************************************)
(* The samples of a point.  A line of the file is a sample with the key it *)
(* was given, so that a row with the key of a line is the row of its       *)
(* sample; and an answer that is waited for is about the batch at the head *)
(* of the file, which nobody changes meanwhile.                            *)
(***************************************************************************)
\* The lines of a file, as a set.
LEMMA LinesOfFile ==
  ASSUME NEW q \in Seq(Samples!Line)
  PROVE  Samples!Range(q) = {q[j] : j \in 1..Len(q)}
BY DEF Samples!Range

\* What NoSampleIsLost says, without sets of lines.
LEMMA SampleIsSomewhere ==
  ASSUME Samples!Formed
  PROVE  Samples!NoSampleIsLost <=>
           \A i \in 1..Len(x12) :
             \/ \E j \in 1..Len(x8) : x8[j].id = i
             \/ \E s \in x13 : s.id = i
             \/ \E r \in x11 : r.key = x12[i]
<1>1. Samples!Range(x8) = {x8[j] : j \in 1..Len(x8)}
  BY LinesOfFile DEF Samples!Formed
<1> QED
  BY <1>1 DEF Samples!NoSampleIsLost, Samples!Taken

LEMMA SamplesBegin == Samples!Init => Samples!ArrivalInv
<1> SUFFICES ASSUME Samples!Init
             PROVE  Samples!ArrivalInv
  OBVIOUS
<1>1. Samples!Formed
  BY DEF Samples!Init, Samples!Formed, Samples!Line
<1>2. Samples!LinesAreSamples /\ Samples!AnswerIsTrue
  BY DEF Samples!Init, Samples!LinesAreSamples, Samples!AnswerIsTrue
<1>3. Samples!NoSampleIsLost
  BY DEF Samples!Init, Samples!NoSampleIsLost, Samples!Taken
<1> QED
  BY <1>1, <1>2, <1>3 DEF Samples!ArrivalInv

\* The steps that change neither file, keys nor what has been dropped, and take no
\* row away: the loop goes on, posts are made and lost, time and power.
LEMMA FileStays ==
  ASSUME Samples!ArrivalInv, Samples!Formed', UNCHANGED <<x8, x12, x13>>, x11 \subseteq x11',
         Samples!AnswerIsTrue'
  PROVE  Samples!ArrivalInv'
<1>1. Samples!LinesAreSamples'
  BY DEF Samples!ArrivalInv, Samples!LinesAreSamples, Samples!Taken
<1>2. Samples!NoSampleIsLost'
  BY SampleIsSomewhere DEF Samples!ArrivalInv, Samples!NoSampleIsLost, Samples!Taken, Samples!Range
<1> QED
  BY <1>1, <1>2 DEF Samples!ArrivalInv

\* Top stamps lines anew: neither their samples nor their keys change.
LEMMA TopKeeps == Samples!ArrivalInv /\ Samples!Top => Samples!ArrivalInv'
<1> SUFFICES ASSUME Samples!ArrivalInv, Samples!Top
             PROVE  Samples!ArrivalInv'
  OBVIOUS
<1>1. x8 \in Seq(Samples!Line) /\ x7 \in Nat /\ x12 \in Seq(Nat)
  BY DEF Samples!ArrivalInv, Samples!Formed
<1>2. Samples!Restamped(x8, x7) \in Seq(Samples!Line)
      /\ Len(Samples!Restamped(x8, x7)) = Len(x8)
      /\ \A i \in 1..Len(x8) : /\ Samples!Restamped(x8, x7)[i].id = x8[i].id
                               /\ Samples!Restamped(x8, x7)[i].key = x8[i].key
  <2> DEFINE new(i) == IF i + x7 > Len(x8)
                       THEN [x8[i] EXCEPT !.at = IF x8[i].boot = x1 THEN "true" ELSE "meaningless"]
                       ELSE x8[i]
  <2>1. Samples!Restamped(x8, x7) = [i \in 1..Len(x8) |-> new(i)]
    BY <1>1 DEF Samples!Restamped
  <2>2. \A i \in 1..Len(x8) : /\ new(i) \in Samples!Line
                              /\ new(i).id = x8[i].id /\ new(i).key = x8[i].key
    <3> SUFFICES ASSUME NEW i \in 1..Len(x8)
                 PROVE  new(i) \in Samples!Line /\ new(i).id = x8[i].id /\ new(i).key = x8[i].key
      OBVIOUS
    <3>1. x8[i] \in Samples!Line
      BY <1>1
    <3> QED
      BY <3>1 DEF Samples!Line, Samples!Stamps
  <2> HIDE DEF new
  <2> QED
    BY <1>1, <2>1, <2>2
<1>3. x8' \in Seq(Samples!Line) /\ Len(x8') = Len(x8)
      /\ \A i \in 1..Len(x8) : x8'[i].id = x8[i].id /\ x8'[i].key = x8[i].key
  BY <1>1, <1>2 DEF Samples!Top
<1>4. UNCHANGED <<x1, x3, x9, x11, x12, x13>> /\ x7' \in Nat /\ x5' # "wait"
  BY <1>1 DEF Samples!Top, Samples!world, Samples!api
<1>5. Samples!Formed'
  BY <1>3, <1>4 DEF Samples!ArrivalInv, Samples!Formed
<1>6. Samples!LinesAreSamples'
  BY <1>3, <1>4 DEF Samples!ArrivalInv, Samples!LinesAreSamples, Samples!Taken
<1>7. Samples!AnswerIsTrue'
  BY <1>4 DEF Samples!AnswerIsTrue
<1>8. \A i \in 1..Len(x12') :
         \/ \E j \in 1..Len(x8') : x8'[j].id = i
         \/ \E s \in x13' : s.id = i
         \/ \E r \in x11' : r.key = x12'[i]
  BY <1>3, <1>4, SampleIsSomewhere DEF Samples!ArrivalInv
<1>9. Samples!NoSampleIsLost'
  <2>1. Samples!Range(x8)' = {x8'[j] : j \in 1..Len(x8')}
    BY <1>3 DEF Samples!Range
  <2> QED
    BY <1>8, <2>1 DEF Samples!NoSampleIsLost, Samples!Taken
<1> QED
  BY <1>5, <1>6, <1>7, <1>9 DEF Samples!ArrivalInv

\* Measure: the file gets a line with the key of its sample; what makes room for it is
\* remembered as dropped.
LEMMA MeasureKeeps == Samples!ArrivalInv /\ Samples!Measure => Samples!ArrivalInv'
<1> SUFFICES ASSUME Samples!ArrivalInv, Samples!Measure
             PROVE  Samples!ArrivalInv'
  OBVIOUS
<1> DEFINE n == Len(x12) + 1
           s == [id |-> n, boot |-> x1, at |-> IF x3 THEN "lagging" ELSE "true"]
           line(k) == [id |-> n, boot |-> x1, at |-> IF x3 THEN "lagging" ELSE "true", key |-> k]
           q(k) == Append(x8, line(k))
           m == IF Len(x8) + 1 > QueueMax THEN Len(x8) + 1 - QueueMax ELSE 0
<1>1. x8 \in Seq(Samples!Line) /\ x12 \in Seq(Nat) /\ x1 \in Nat /\ x3 \in BOOLEAN
      /\ n \in Nat /\ QueueMax \in Nat \ {0} /\ m \in 0..Len(x8)
  BY SamplesAreSound DEF Samples!ArrivalInv, Samples!Formed, Samples!ConstantsAreSound
<1>2. PICK k \in Samples!KeyOf(s) :
        /\ x8' = IF Len(q(k)) > QueueMax THEN Samples!FromTail(q(k), QueueMax) ELSE q(k)
        /\ x13' = x13 \cup (Samples!Range(q(k)) \ Samples!Range(x8)')
        /\ x12' = Append(x12, k)
  BY DEF Samples!Measure, Samples!Taken
<1>3. k \in Nat
  <2>1. \A r \in x11 \cup Samples!Range(x8) : r.key \in Nat
    <3>1. Samples!Range(x8) = {x8[j] : j \in 1..Len(x8)}
      BY <1>1, LinesOfFile
    <3>2. x11 \subseteq Samples!Line
      BY DEF Samples!ArrivalInv, Samples!Formed
    <3>3. \A r \in Samples!Line : r.key \in Nat
      BY DEF Samples!Line
    <3>4. \A j \in 1..Len(x8) : x8[j] \in Samples!Line
      BY <1>1
    <3> QED
      BY <3>1, <3>2, <3>3, <3>4
  <2> QED
    BY <1>1, <1>2, <2>1 DEF Samples!KeyOf
<1>4. line(k) \in Samples!Line
  BY <1>1, <1>3 DEF Samples!Line, Samples!Stamps
<1> DEFINE longer == q(k)
<1>5. /\ longer \in Seq(Samples!Line) /\ Len(longer) = Len(x8) + 1
      /\ \A j \in 1..Len(x8) : longer[j] = x8[j]
      /\ longer[Len(x8) + 1].id = n /\ longer[Len(x8) + 1].key = k
  BY <1>1, <1>4
<1>6. /\ x8' = IF Len(longer) > QueueMax THEN Samples!FromTail(longer, QueueMax) ELSE longer
      /\ x13' = x13 \cup (Samples!Range(longer) \ Samples!Range(x8)')
  BY <1>2
<1> HIDE DEF longer, q, line, s
<1>7. /\ x8' \in Seq(Samples!Line) /\ Len(x8') = Len(longer) - m
      /\ \A j \in 1..Len(x8') : x8'[j] = longer[j + m]
  <2>1. CASE Len(longer) > QueueMax
    <3>1. x8' = SubSeq(longer, m + 1, Len(longer))
      BY <1>1, <1>5, <1>6, <2>1 DEF Samples!FromTail
    <3> HIDE DEF m
    <3> QED
      BY <1>1, <1>5, <3>1
  <2>2. CASE ~(Len(longer) > QueueMax)
    BY <1>1, <1>5, <1>6, <2>2
  <2> QED
    BY <2>1, <2>2
<1>8. x12' \in Seq(Nat) /\ Len(x12') = n /\ x12'[n] = k /\ \A i \in 1..Len(x12) : x12'[i] = x12[i]
  BY <1>1, <1>2, <1>3
<1>9. UNCHANGED <<x1, x3, x7, x9, x11>> /\ x5' # "wait"
  BY DEF Samples!Measure, Samples!world, Samples!api
<1> HIDE DEF m
<1>10. \A j \in 1..Len(longer) : longer[j].id \in 1..n /\ longer[j].key = x12'[longer[j].id]
  <2> SUFFICES ASSUME NEW j \in 1..Len(longer)
               PROVE  longer[j].id \in 1..n /\ longer[j].key = x12'[longer[j].id]
    OBVIOUS
  <2>1. CASE j = Len(x8) + 1
    BY <1>1, <1>5, <1>8, <2>1
  <2>2. CASE j # Len(x8) + 1
    <3>1. j \in 1..Len(x8) /\ longer[j] = x8[j]
      BY <1>1, <1>5, <2>2
    <3>2. x8[j].id \in 1..Len(x12) /\ x8[j].key = x12[x8[j].id]
      BY <3>1 DEF Samples!ArrivalInv, Samples!LinesAreSamples, Samples!Taken
    <3>3. \A i \in 1..Len(x12) : i \in 1..n /\ x12'[i] = x12[i]
      BY <1>1, <1>8
    <3> QED
      BY <3>1, <3>2, <3>3, Zenon
  <2> QED
    BY <2>1, <2>2
<1>11. Samples!Formed'
  BY <1>7, <1>8, <1>9 DEF Samples!ArrivalInv, Samples!Formed
<1>12. Samples!LinesAreSamples'
  <2> SUFFICES ASSUME NEW j \in 1..Len(x8')
               PROVE  x8'[j].id \in 1..Len(x12') /\ x8'[j].key = x12'[x8'[j].id]
    BY DEF Samples!LinesAreSamples, Samples!Taken
  <2>1. j + m \in 1..Len(longer) /\ x8'[j] = longer[j + m]
    BY <1>1, <1>5, <1>7
  <2> QED
    BY <1>8, <1>10, <2>1
<1>13. Samples!AnswerIsTrue'
  BY <1>9 DEF Samples!AnswerIsTrue
<1>14. \A j \in 1..Len(longer) : (\E i \in 1..Len(x8') : x8'[i] = longer[j]) \/ longer[j] \in x13'
  <2>1. Samples!Range(longer) = {longer[j] : j \in 1..Len(longer)}
    BY <1>5, LinesOfFile
  <2>2. Samples!Range(x8)' = {x8'[i] : i \in 1..Len(x8')}
    BY <1>7 DEF Samples!Range
  <2> QED
    BY <1>6, <2>1, <2>2
<1>15. \A i \in 1..Len(x12') :
         \/ \E j \in 1..Len(x8') : x8'[j].id = i
         \/ \E r \in x13' : r.id = i
         \/ \E r \in x11' : r.key = x12'[i]
  <2> SUFFICES ASSUME NEW i \in 1..n
               PROVE  \/ \E j \in 1..Len(x8') : x8'[j].id = i
                      \/ \E r \in x13' : r.id = i
                      \/ \E r \in x11' : r.key = x12'[i]
    BY <1>8
  <2>1. CASE \E j \in 1..Len(longer) : longer[j].id = i
    BY <1>14, <2>1
  <2>2. CASE i \in 1..Len(x12) /\ ~\E j \in 1..Len(longer) : longer[j].id = i
    <3>1. \/ \E j \in 1..Len(x8) : x8[j].id = i
          \/ \E r \in x13 : r.id = i
          \/ \E r \in x11 : r.key = x12[i]
      BY <2>2, SampleIsSomewhere DEF Samples!ArrivalInv
    <3>2. x13 \subseteq x13' /\ x12'[i] = x12[i] /\ x11' = x11
      BY <1>6, <1>8, <1>9, <2>2
    <3> QED
      BY <1>5, <2>2, <3>1, <3>2
  <2> QED
    BY <1>1, <1>5, <2>1, <2>2
<1>16. Samples!NoSampleIsLost'
  <2>1. Samples!Range(x8)' = {x8'[j] : j \in 1..Len(x8')}
    BY <1>7 DEF Samples!Range
  <2> QED
    BY <1>15, <2>1 DEF Samples!NoSampleIsLost, Samples!Taken
<1> QED
  BY <1>11, <1>12, <1>13, <1>16 DEF Samples!ArrivalInv

\* The batch is the head of the file, and never longer than the API takes.
LEMMA BatchIsTheHead ==
  ASSUME Samples!Formed
  PROVE  /\ Samples!Batch \in Seq(Samples!Line)
         /\ Len(Samples!Batch) \in 0..Len(x8) /\ Len(Samples!Batch) <= ApiMaxBatch
         /\ \A i \in 1..Len(Samples!Batch) : Samples!Batch[i] = x8[i]
<1>1. x8 \in Seq(Samples!Line) /\ BatchMax \in Nat \ {0} /\ ApiMaxBatch \in Nat
      /\ BatchMax <= ApiMaxBatch
  BY SamplesAreSound DEF Samples!Formed, Samples!ConstantsAreSound
<1> DEFINE n == IF Len(x8) < BatchMax THEN Len(x8) ELSE BatchMax
<1>2. n \in 0..Len(x8) /\ n <= ApiMaxBatch
  BY <1>1
<1>3. Samples!Batch = SubSeq(x8, 1, n)
  BY DEF Samples!Batch
<1> HIDE DEF n
<1> QED
  BY <1>1, <1>2, <1>3

\* Answered: what leaves the file has its key in a row.
LEMMA AnsweredKeeps == Samples!ArrivalInv /\ Samples!Answered => Samples!ArrivalInv'
<1> SUFFICES ASSUME Samples!ArrivalInv, Samples!Answered
             PROVE  Samples!ArrivalInv'
  OBVIOUS
<1> DEFINE m == Len(Samples!Batch)
<1>1. x8 \in Seq(Samples!Line) /\ m \in 0..Len(x8) /\ x12 \in Seq(Nat)
  BY BatchIsTheHead DEF Samples!ArrivalInv, Samples!Formed
<1>2. x10 = "stored" /\ \A i \in 1..m : \E r \in x11 : r.key = x8[i].key
  BY DEF Samples!Answered, Samples!ArrivalInv, Samples!AnswerIsTrue
<1>3. x8' = SubSeq(x8, m + 1, Len(x8))
  BY <1>2 DEF Samples!Answered, Samples!Rest
<1>4. UNCHANGED <<x1, x3, x7, x9, x11, x12, x13>> /\ x5' # "wait"
  BY DEF Samples!Answered, Samples!world, Samples!api
<1> HIDE DEF m
<1>5. /\ x8' \in Seq(Samples!Line) /\ Len(x8') = Len(x8) - m
      /\ \A j \in 1..Len(x8') : x8'[j] = x8[j + m]
  BY <1>1, <1>3
<1>6. Samples!Formed'
  BY <1>4, <1>5 DEF Samples!ArrivalInv, Samples!Formed
<1>7. \A j \in 1..Len(x8) : x8[j].id \in 1..Len(x12) /\ x8[j].key = x12[x8[j].id]
  BY DEF Samples!ArrivalInv, Samples!LinesAreSamples, Samples!Taken
<1>8. Samples!LinesAreSamples'
  <2> SUFFICES ASSUME NEW j \in 1..Len(x8')
               PROVE  x8'[j].id \in 1..Len(x12) /\ x8'[j].key = x12[x8'[j].id]
    BY <1>4 DEF Samples!LinesAreSamples, Samples!Taken
  <2>1. j + m \in 1..Len(x8) /\ x8'[j] = x8[j + m]
    BY <1>1, <1>5
  <2> QED
    BY <1>7, <2>1
<1>9. Samples!AnswerIsTrue'
  BY <1>4 DEF Samples!AnswerIsTrue
<1>10. \A i \in 1..Len(x12) :
         \/ \E j \in 1..Len(x8') : x8'[j].id = i
         \/ \E s \in x13 : s.id = i
         \/ \E r \in x11 : r.key = x12[i]
  <2>0. \A i \in 1..Len(x12) :
          \/ \E j \in 1..Len(x8) : x8[j].id = i
          \/ \E s \in x13 : s.id = i
          \/ \E r \in x11 : r.key = x12[i]
    BY SampleIsSomewhere DEF Samples!ArrivalInv
  <2> SUFFICES ASSUME NEW j \in 1..Len(x8)
               PROVE  \/ \E l \in 1..Len(x8') : x8'[l].id = x8[j].id
                      \/ \E r \in x11 : r.key = x12[x8[j].id]
    BY <2>0
  <2>1. CASE j \in 1..m
    BY <1>2, <1>7, <2>1
  <2>2. CASE j \notin 1..m
    <3>1. j - m \in 1..Len(x8') /\ x8'[j - m] = x8[j]
      BY <1>1, <1>5, <2>2
    <3> QED
      BY <3>1
  <2> QED
    BY <2>1, <2>2
<1>11. Samples!NoSampleIsLost'
  <2>1. Samples!Range(x8)' = {x8'[j] : j \in 1..Len(x8')}
    BY <1>5 DEF Samples!Range
  <2> QED
    BY <1>4, <1>10, <2>1 DEF Samples!NoSampleIsLost, Samples!Taken
<1> QED
  BY <1>6, <1>8, <1>9, <1>11 DEF Samples!ArrivalInv

\* Take: of the lines of a batch with one key the first is inserted, if the key is new.
LEMMA TakeKeeps ==
  ASSUME Samples!ArrivalInv, NEW batch \in x9, Samples!Take(batch)
  PROVE  Samples!ArrivalInv'
<1>1. batch \in Seq(Samples!Line) /\ x11 \subseteq Samples!Line
  BY DEF Samples!ArrivalInv, Samples!Formed
<1>2. UNCHANGED <<x1, x3, x5, x7, x8, x12, x13>> /\ x9' = x9 \ {batch}
  BY DEF Samples!Take, Samples!world, Samples!device
<1>3. Samples!Inserted(batch) \subseteq Samples!Line
  BY <1>1 DEF Samples!Inserted
<1>4. x11 \subseteq x11' /\ x11' \subseteq Samples!Line
  BY <1>1, <1>3 DEF Samples!Take
<1>5. Samples!Formed'
  BY <1>2, <1>4 DEF Samples!ArrivalInv, Samples!Formed
<1>6. \A i \in 1..Len(batch) :
        \E r \in x11 \cup Samples!Inserted(batch) : r.key = batch[i].key
  <2> SUFFICES ASSUME NEW i \in 1..Len(batch), \A r \in x11 : r.key # batch[i].key
               PROVE  \E r \in Samples!Inserted(batch) : r.key = batch[i].key
    OBVIOUS
  <2> DEFINE same == {j \in 1..Len(batch) : batch[j].key = batch[i].key}
  <2>1. same \subseteq Nat /\ i \in same
    BY <1>1
  <2> HIDE DEF same
  <2>2. PICK j \in same : \A l \in same : j <= l
    BY <2>1, LeastElement
  <2> USE DEF same
  <2>3. /\ j \in DOMAIN batch /\ \A r \in x11 : r.key # batch[j].key
        /\ \A l \in 1..(j - 1) : batch[l].key # batch[j].key
    BY <1>1, <2>2
  <2>4. batch[j] \in Samples!Inserted(batch)
    BY <2>3 DEF Samples!Inserted
  <2> QED
    BY <2>2, <2>4
<1>7. Samples!AnswerIsTrue'
  <2> SUFFICES ASSUME x5 = "wait", x10' # "none"
               PROVE  /\ x10' = "stored"
                      /\ \A i \in 1..Len(Samples!Batch) : \E r \in x11' : r.key = x8[i].key
    BY <1>2 DEF Samples!AnswerIsTrue, Samples!Batch
  <2>1. CASE batch = Samples!Batch
    <3>1. Len(batch) <= ApiMaxBatch /\ Len(batch) \in Nat /\ ApiMaxBatch \in Nat
          /\ \A i \in 1..Len(batch) : batch[i] = x8[i]
      BY <2>1, BatchIsTheHead, SamplesAreSound DEF Samples!ArrivalInv, Samples!ConstantsAreSound
    <3>2. x11' = x11 \cup Samples!Inserted(batch) /\ x10' = "stored"
      BY <2>1, <3>1 DEF Samples!Take
    <3> QED
      BY <1>6, <2>1, <3>1, <3>2
  <2>2. CASE batch # Samples!Batch
    <3>1. x10' = x10
      BY <2>2 DEF Samples!Take
    <3> QED
      BY <1>4, <3>1 DEF Samples!ArrivalInv, Samples!AnswerIsTrue
  <2> QED
    BY <2>1, <2>2
<1> QED
  BY <1>2, <1>4, <1>5, <1>7, FileStays

\* Every step keeps the samples.
LEMMA SamplesGoOn ==
  Samples!ArrivalInv /\ [Samples!Next]_Samples!telemetryVars => Samples!ArrivalInv'
<1> SUFFICES ASSUME Samples!ArrivalInv, [Samples!Next]_Samples!telemetryVars
             PROVE  Samples!ArrivalInv'
  OBVIOUS
<1> USE DEF Samples!world, Samples!device, Samples!api, Samples!telemetryVars
<1>0. Samples!Formed /\ Samples!AnswerIsTrue
  BY DEF Samples!ArrivalInv
<1>1. CASE Samples!Top
  BY <1>1, TopKeeps
<1>2. CASE Samples!Measure
  BY <1>2, MeasureKeeps
<1>3. CASE Samples!Count
  <2>1. UNCHANGED <<x1, x3, x8, x9, x11, x12, x13>> /\ x7' \in Nat /\ x5' # "wait"
    BY <1>0, <1>3 DEF Samples!Count, Samples!Formed
  <2>2. Samples!Formed' /\ Samples!AnswerIsTrue'
    BY <1>0, <2>1 DEF Samples!Formed, Samples!AnswerIsTrue
  <2> QED
    BY <2>1, <2>2, FileStays
<1>4. CASE Samples!Post
  <2>1. UNCHANGED <<x1, x3, x7, x8, x11, x12, x13>> /\ x9' = x9 \cup {Samples!Batch} /\ x10' = "none"
    BY <1>4 DEF Samples!Post
  <2>2. Samples!Formed' /\ Samples!AnswerIsTrue'
    BY <1>0, <2>1, BatchIsTheHead DEF Samples!Formed, Samples!AnswerIsTrue
  <2> QED
    BY <2>1, <2>2, FileStays
<1>5. CASE Samples!Sleep \/ Samples!GiveUp
  <2>1. UNCHANGED <<x1, x3, x7, x8, x9, x11, x12, x13>> /\ x5' # "wait"
    BY <1>5 DEF Samples!Sleep, Samples!GiveUp, Samples!Rest
  <2>2. Samples!Formed' /\ Samples!AnswerIsTrue'
    BY <1>0, <2>1 DEF Samples!Formed, Samples!AnswerIsTrue
  <2> QED
    BY <2>1, <2>2, FileStays
<1>6. CASE Samples!Answered
  BY <1>6, AnsweredKeeps
<1>7. ASSUME NEW batch \in x9, Samples!Take(batch) PROVE Samples!ArrivalInv'
  BY <1>7, TakeKeeps
<1>8. ASSUME NEW batch \in x9, Samples!PostIsLost(batch) PROVE Samples!ArrivalInv'
  <2>1. UNCHANGED <<x1, x3, x5, x7, x8, x10, x11, x12, x13>> /\ x9' = x9 \ {batch}
    BY <1>8 DEF Samples!PostIsLost
  <2>2. Samples!Formed' /\ Samples!AnswerIsTrue'
    BY <1>0, <2>1 DEF Samples!Formed, Samples!AnswerIsTrue, Samples!Batch
  <2> QED
    BY <2>1, <2>2, FileStays
<1>9. CASE Samples!ClockSet \/ Samples!Unsync \/ UNCHANGED Samples!telemetryVars
  <2>1. UNCHANGED <<x1, x5, x7, x8, x9, x10, x11, x12, x13>> /\ x3' \in BOOLEAN
    BY <1>0, <1>9 DEF Samples!ClockSet, Samples!Unsync, Samples!Formed
  <2>2. Samples!Formed' /\ Samples!AnswerIsTrue'
    BY <1>0, <2>1 DEF Samples!Formed, Samples!AnswerIsTrue, Samples!Batch
  <2> QED
    BY <2>1, <2>2, FileStays
<1>10. CASE Samples!Restart \/ Samples!PowerCut
  <2>1. /\ UNCHANGED <<x8, x9, x11, x12, x13>> /\ x7' \in Nat /\ x5' # "wait"
        /\ x1' \in Nat /\ x3' \in BOOLEAN
    BY <1>0, <1>10 DEF Samples!Restart, Samples!PowerCut, Samples!Begin, Samples!Formed
  <2>2. Samples!Formed' /\ Samples!AnswerIsTrue'
    BY <1>0, <2>1 DEF Samples!Formed, Samples!AnswerIsTrue
  <2> QED
    BY <2>1, <2>2, FileStays
<1> QED
  BY <1>1, <1>2, <1>3, <1>4, <1>5, <1>6, <1>7, <1>8, <1>9, <1>10 DEF Samples!Next

-----------------------------------------------------------------------------
(***************************************************************************)
(* The errors of its kernel.  What the thread has posted is what it still  *)
(* holds, its first line the one its key is of; so a key that is taken     *)
(* says that the first error is stored, whichever post came first.         *)
(***************************************************************************)
LEMMA KernelBegins == Kernel!Init => Kernel!ErrorInv
<1> SUFFICES ASSUME Kernel!Init
             PROVE  Kernel!ErrorInv
  OBVIOUS
<1>1. Kernel!Formed
  BY DEF Kernel!Init, Kernel!Formed
<1>2. Kernel!PostsAreWhole /\ Kernel!PostIsHeld /\ Kernel!MarksAreTrue /\ Kernel!FirstErrorArrives
  BY DEF Kernel!Init, Kernel!PostsAreWhole, Kernel!PostIsHeld, Kernel!MarksAreTrue,
         Kernel!FirstErrorArrives
<1>3. Kernel!FirstComesFirst
  BY DEF Kernel!Init, Kernel!FirstComesFirst, Kernel!Range
<1> QED
  BY <1>1, <1>2, <1>3 DEF Kernel!ErrorInv

\* The lines the thread holds, as a set.
LEMMA HeldLines ==
  ASSUME NEW q \in Seq(Nat)
  PROVE  Kernel!Range(q) = {q[j] : j \in 1..Len(q)}
BY DEF Kernel!Range

\* The steps that leave the thread as it is and take no row away.
LEMMA ThreadStays ==
  ASSUME Kernel!ErrorInv, Kernel!Formed', Kernel!PostsAreWhole',
         UNCHANGED <<x1, x4, x5, x7, x8, x9, x10>>, x3 <= x3', x14 \subseteq x14',
         x12' => x12 \/ ~Kernel!KeyIsFree(x10)', x13' = x13 \/ x8 # 0
  PROVE  Kernel!ErrorInv'
<1>0. Kernel!FirstIsStored => Kernel!FirstIsStored'
  BY DEF Kernel!FirstIsStored
<1>1. Kernel!FirstComesFirst'
  BY HeldLines DEF Kernel!ErrorInv, Kernel!FirstComesFirst, Kernel!Formed, Kernel!Range
<1>2. Kernel!PostIsHeld'
  BY DEF Kernel!ErrorInv, Kernel!PostIsHeld, Kernel!KeyIsFree, Kernel!Range
<1>3. Kernel!MarksAreTrue'
  BY <1>0 DEF Kernel!ErrorInv, Kernel!MarksAreTrue
<1>4. Kernel!FirstErrorArrives'
  BY <1>0 DEF Kernel!ErrorInv, Kernel!FirstErrorArrives, Kernel!FirstIsStored,
              Kernel!MarksAreTrue, Kernel!Formed, Kernel!Range
<1> QED
  BY <1>1, <1>2, <1>3, <1>4 DEF Kernel!ErrorInv

\* Read: the first line that is held is the first one read.
LEMMA ReadKeeps == Kernel!ErrorInv /\ Kernel!Read => Kernel!ErrorInv'
<1> SUFFICES ASSUME Kernel!ErrorInv, Kernel!Read
             PROVE  Kernel!ErrorInv'
  OBVIOUS
<1> USE DEF Kernel!FirstIsStored
<1>1. /\ x5 \in Seq(Nat) /\ x4 \in 0..x3 /\ x3 \in Nat /\ x7 \in Nat /\ LinesMax \in Nat \ {0}
      /\ (x4 = 0 => x5 = <<>>)
  BY KernelIsSound DEF Kernel!ErrorInv, Kernel!Formed, Kernel!FirstComesFirst,
                       Kernel!ConstantsAreSound
<1>2. /\ UNCHANGED <<x1, x3, x7, x8, x9, x10, x11, x12, x13, x14>> /\ ~x9
      /\ x4' = x4 + 1 /\ x4 < x3
      /\ IF x4 + 1 <= x7 THEN x5' = x5 ELSE x5' = Kernel!Held(x5, x4 + 1)
  BY DEF Kernel!Read
<1>3. \/ x5' = x5 /\ (x4 # 0 \/ x7 # 0)
      \/ x5' = Append(x5, x4 + 1)
  BY <1>1, <1>2 DEF Kernel!Held
<1>4. Kernel!Formed'
  <2>1. x5' \in Seq(Nat)
    BY <1>1, <1>3
  <2> QED
    BY <1>1, <1>2, <2>1 DEF Kernel!ErrorInv, Kernel!Formed
<1>5. Kernel!PostsAreWhole' /\ Kernel!PostIsHeld' /\ Kernel!MarksAreTrue'
  BY <1>2 DEF Kernel!ErrorInv, Kernel!PostsAreWhole, Kernel!PostIsHeld, Kernel!MarksAreTrue
<1>6. Kernel!Range(x5) = {x5[j] : j \in 1..Len(x5)}
  BY <1>1, HeldLines
<1>7. CASE x5' = x5 /\ (x4 # 0 \/ x7 # 0)
  <2>1. Kernel!FirstComesFirst'
    BY <1>1, <1>2, <1>7 DEF Kernel!ErrorInv, Kernel!FirstComesFirst, Kernel!Range
  <2>2. Kernel!FirstErrorArrives'
    BY <1>1, <1>2, <1>7 DEF Kernel!ErrorInv, Kernel!FirstErrorArrives, Kernel!MarksAreTrue,
                            Kernel!Range
  <2> QED
    BY <1>4, <1>5, <2>1, <2>2 DEF Kernel!ErrorInv
<1>8. CASE x5' = Append(x5, x4 + 1)
  <2>1. /\ Len(x5') = Len(x5) + 1 /\ x5'[Len(x5) + 1] = x4 + 1
        /\ \A j \in 1..Len(x5) : x5'[j] = x5[j]
    BY <1>1, <1>8
  <2>2. Kernel!Range(x5)' = {x5'[j] : j \in 1..Len(x5')}
    BY <1>4, HeldLines DEF Kernel!Formed, Kernel!Range
  <2>3. Kernel!FirstComesFirst'
    <3> SUFFICES ASSUME NEW j \in 1..Len(x5'), x5'[j] = 1
                 PROVE  x5'[1] = 1
      BY <1>1, <1>2, <2>2 DEF Kernel!FirstComesFirst
    <3>1. CASE j \in 1..Len(x5)
      <4>1. x5[1] = 1
        BY <1>6, <2>1, <3>1 DEF Kernel!ErrorInv, Kernel!FirstComesFirst
      <4> QED
        BY <2>1, <3>1, <4>1
    <3>2. CASE j = Len(x5) + 1
      BY <1>1, <2>1, <3>2
    <3> QED
      BY <1>1, <2>1, <3>1, <3>2
  <2>4. Kernel!FirstErrorArrives'
    <3>1. CASE x4 = 0
      <4>1. 1 \in Kernel!Range(x5)'
        BY <1>1, <2>1, <2>2, <3>1
      <4> QED
        BY <4>1 DEF Kernel!FirstErrorArrives
    <3>2. CASE 1 \in Kernel!Range(x5)
      <4>1. 1 \in Kernel!Range(x5)'
        BY <1>1, <1>6, <2>1, <2>2, <3>2
      <4> QED
        BY <4>1 DEF Kernel!FirstErrorArrives
    <3>3. CASE x4 # 0 /\ 1 \notin Kernel!Range(x5)
      BY <1>1, <1>2, <3>3 DEF Kernel!ErrorInv, Kernel!FirstErrorArrives
    <3> QED
      BY <3>1, <3>2, <3>3
  <2> QED
    BY <1>4, <1>5, <2>3, <2>4 DEF Kernel!ErrorInv
<1> QED
  BY <1>3, <1>7, <1>8

\* PostLines: what is posted is what is held, from its first line on.
LEMMA PostKeeps == Kernel!ErrorInv /\ Kernel!PostLines => Kernel!ErrorInv'
<1> SUFFICES ASSUME Kernel!ErrorInv, Kernel!PostLines
             PROVE  Kernel!ErrorInv'
  OBVIOUS
<1> USE DEF Kernel!FirstIsStored
<1>1. x5 \in Seq(Nat) /\ x5 # <<>>
  BY DEF Kernel!ErrorInv, Kernel!Formed, Kernel!PostLines
<1> DEFINE post == [boot |-> x1, first |-> Head(x5), lines |-> Kernel!Range(x5)]
<1>2. /\ UNCHANGED <<x1, x3, x4, x5, x7, x8, x13, x14>>
      /\ x9' = TRUE /\ x12' = FALSE /\ x10' = post /\ x11' = x11 \cup {post}
  BY DEF Kernel!PostLines
<1>3. post.first \in post.lines
  BY <1>1, HeldLines
<1>4. Kernel!Formed'
  BY <1>2 DEF Kernel!ErrorInv, Kernel!Formed
<1>5. Kernel!PostsAreWhole'
  BY <1>2, <1>3 DEF Kernel!ErrorInv, Kernel!PostsAreWhole
<1>6. Kernel!PostIsHeld'
  BY <1>1, <1>2 DEF Kernel!PostIsHeld, Kernel!Range
<1>7. Kernel!FirstComesFirst' /\ Kernel!MarksAreTrue' /\ Kernel!FirstErrorArrives'
  BY <1>2 DEF Kernel!ErrorInv, Kernel!FirstComesFirst, Kernel!MarksAreTrue,
              Kernel!FirstErrorArrives, Kernel!Range
<1> QED
  BY <1>4, <1>5, <1>6, <1>7 DEF Kernel!ErrorInv

\* LinesSent: who forgets what was posted knows that the first is stored.
LEMMA SentKeeps == Kernel!ErrorInv /\ Kernel!LinesSent => Kernel!ErrorInv'
<1> SUFFICES ASSUME Kernel!ErrorInv, Kernel!LinesSent
             PROVE  Kernel!ErrorInv'
  OBVIOUS
<1>1. x5 \in Seq(Nat) /\ x5 # <<>> /\ x4 \in 0..x3 /\ x3 \in Nat
  BY DEF Kernel!ErrorInv, Kernel!Formed, Kernel!LinesSent, Kernel!PostIsHeld
<1>2. /\ UNCHANGED <<x1, x3, x4, x7, x11, x12, x13, x14>>
      /\ x9' = FALSE /\ x5' = <<>> /\ x8' = Kernel!Last(x5)
  BY DEF Kernel!LinesSent
<1>3. Kernel!FirstIsStored
  <2>1. PICK s \in x14 : s.boot = x1 /\ s.first = Head(x5)
    BY DEF Kernel!ErrorInv, Kernel!PostIsHeld, Kernel!LinesSent, Kernel!KeyIsFree
  <2>2. CASE 1 \in Kernel!Range(x5)
    <3>1. s.first = 1
      BY <1>1, <2>1, <2>2 DEF Kernel!ErrorInv, Kernel!FirstComesFirst
    <3>2. s.first \in s.lines
      BY DEF Kernel!ErrorInv, Kernel!PostsAreWhole
    <3> QED
      BY <2>1, <3>1, <3>2 DEF Kernel!FirstIsStored
  <2>3. CASE 1 \notin Kernel!Range(x5)
    <3>1. x4 # 0
      BY <1>1 DEF Kernel!ErrorInv, Kernel!FirstComesFirst
    <3> QED
      BY <1>1, <2>3, <3>1 DEF Kernel!ErrorInv, Kernel!FirstErrorArrives, Kernel!FirstIsStored
  <2> QED
    BY <2>2, <2>3
<1>4. Kernel!FirstIsStored'
  BY <1>2, <1>3 DEF Kernel!FirstIsStored
<1>5. Kernel!Formed'
  <2>1. Kernel!Last(x5) \in Nat
    BY <1>1 DEF Kernel!Last
  <2> QED
    BY <1>2, <2>1 DEF Kernel!ErrorInv, Kernel!Formed
<1>6. Kernel!PostsAreWhole' /\ Kernel!PostIsHeld' /\ Kernel!MarksAreTrue'
      /\ Kernel!FirstErrorArrives'
  BY <1>2, <1>4 DEF Kernel!ErrorInv, Kernel!PostsAreWhole, Kernel!PostIsHeld,
                    Kernel!MarksAreTrue, Kernel!FirstErrorArrives, Kernel!FirstIsStored
<1>7. Kernel!FirstComesFirst'
  BY <1>2 DEF Kernel!FirstComesFirst, Kernel!Range
<1> QED
  BY <1>5, <1>6, <1>7 DEF Kernel!ErrorInv

\* A start: what is passed over is what the card says is sent.
LEMMA StartKeeps ==
  ASSUME Kernel!ErrorInv, Kernel!StartAgain \/ Kernel!Reboot
  PROVE  Kernel!ErrorInv'
<1> USE DEF Kernel!FirstIsStored
<1>1. /\ x1 \in Nat /\ x3 \in Nat /\ x13 \in [boot : Nat, seq : Nat] /\ x13.boot <= x1
  BY DEF Kernel!ErrorInv, Kernel!Formed
<1>2. /\ UNCHANGED <<x11, x13, x14>> /\ x4' = 0 /\ x5' = <<>> /\ x9' = FALSE
      /\ x7' = Kernel!MarkOf(x1') /\ x8' = x7'
      /\ \/ x1' = x1 /\ x3' = x3
         \/ x1' = x1 + 1 /\ x3' = 0
  BY DEF Kernel!StartAgain, Kernel!Reboot, Kernel!Start
<1>3. x7' \in Nat /\ (x7' # 0 => x13.boot = x1' /\ x13.seq # 0)
  BY <1>1, <1>2 DEF Kernel!MarkOf
<1>4. Kernel!Formed'
  BY <1>1, <1>2, <1>3 DEF Kernel!Formed
<1>5. x13.boot = x1' /\ x13.seq # 0 => x1' = x1 /\ Kernel!FirstIsStored'
  BY <1>1, <1>2 DEF Kernel!ErrorInv, Kernel!MarksAreTrue
<1>6. Kernel!PostsAreWhole' /\ Kernel!PostIsHeld'
  BY <1>2 DEF Kernel!ErrorInv, Kernel!PostsAreWhole, Kernel!PostIsHeld
<1>7. Kernel!FirstComesFirst'
  BY <1>2 DEF Kernel!FirstComesFirst, Kernel!Range
<1>8. Kernel!MarksAreTrue' /\ Kernel!FirstErrorArrives'
  BY <1>2, <1>3, <1>5 DEF Kernel!MarksAreTrue, Kernel!FirstErrorArrives
<1> QED
  BY <1>4, <1>6, <1>7, <1>8 DEF Kernel!ErrorInv

\* Every step keeps the errors.
LEMMA KernelGoesOn == Kernel!ErrorInv /\ [Kernel!Next]_Kernel!kernelVars => Kernel!ErrorInv'
<1> SUFFICES ASSUME Kernel!ErrorInv, [Kernel!Next]_Kernel!kernelVars
             PROVE  Kernel!ErrorInv'
  OBVIOUS
<1> USE DEF Kernel!thread, Kernel!kernelVars
<1>0. Kernel!Formed /\ Kernel!PostsAreWhole
  BY DEF Kernel!ErrorInv
<1>1. CASE Kernel!Logged \/ UNCHANGED Kernel!kernelVars
  <2>1. /\ UNCHANGED <<x1, x4, x5, x7, x8, x9, x10, x11, x12, x13, x14>>
        /\ x3' \in Nat /\ x3 <= x3'
    BY <1>0, <1>1 DEF Kernel!Logged, Kernel!Formed
  <2>2. Kernel!Formed' /\ Kernel!PostsAreWhole'
    BY <1>0, <2>1 DEF Kernel!Formed, Kernel!PostsAreWhole
  <2> QED
    BY <2>1, <2>2, ThreadStays
<1>2. CASE Kernel!Read
  BY <1>2, ReadKeeps
<1>3. CASE Kernel!PostLines
  BY <1>3, PostKeeps
<1>4. CASE Kernel!LinesSent
  BY <1>4, SentKeeps
<1>5. CASE Kernel!NoAnswer
  <2>1. UNCHANGED <<x1, x3, x4, x5, x7, x8, x11, x12, x13, x14>> /\ x9' = FALSE
    BY <1>5 DEF Kernel!NoAnswer
  <2>2. Kernel!Formed' /\ Kernel!PostsAreWhole' /\ Kernel!PostIsHeld'
    BY <1>0, <2>1 DEF Kernel!Formed, Kernel!PostsAreWhole, Kernel!PostIsHeld
  <2>3. Kernel!FirstComesFirst' /\ Kernel!MarksAreTrue' /\ Kernel!FirstErrorArrives'
    BY <2>1 DEF Kernel!ErrorInv, Kernel!FirstComesFirst, Kernel!MarksAreTrue,
                Kernel!FirstErrorArrives, Kernel!FirstIsStored, Kernel!Range
  <2> QED
    BY <2>2, <2>3 DEF Kernel!ErrorInv
<1>6. CASE Kernel!Mark
  <2>1. /\ UNCHANGED <<x1, x3, x4, x5, x7, x8, x9, x10, x11, x12, x14>> /\ x8 # 0
        /\ x13' = [boot |-> x1, seq |-> x8]
    BY <1>6 DEF Kernel!Mark
  <2>2. Kernel!Formed' /\ Kernel!PostsAreWhole'
    BY <1>0, <2>1 DEF Kernel!Formed, Kernel!PostsAreWhole
  <2>3. x3 <= x3'
    BY <1>0, <2>1 DEF Kernel!Formed
  <2> QED
    BY <2>1, <2>2, <2>3, ThreadStays
<1>7. ASSUME NEW r \in x11, Kernel!TakeLines(r) PROVE Kernel!ErrorInv'
  <2>1. /\ UNCHANGED <<x1, x3, x4, x5, x7, x8, x9, x10, x13>> /\ x11' = x11 \ {r}
        /\ x14' = IF Kernel!KeyIsFree(r) THEN x14 \cup {r} ELSE x14
        /\ x12' => x12 \/ r = x10
    BY <1>7 DEF Kernel!TakeLines
  <2>2. Kernel!Formed' /\ Kernel!PostsAreWhole'
    BY <1>0, <2>1 DEF Kernel!Formed, Kernel!PostsAreWhole
  <2>3. x3 <= x3' /\ x14 \subseteq x14'
    BY <1>0, <2>1 DEF Kernel!Formed
  <2>4. \E s \in x14' : <<s.boot, s.first>> = <<r.boot, r.first>>
    BY <2>1 DEF Kernel!KeyIsFree
  <2>5. x12' => x12 \/ ~Kernel!KeyIsFree(x10)'
    BY <2>1, <2>4 DEF Kernel!KeyIsFree
  <2> QED
    BY <2>1, <2>2, <2>3, <2>5, ThreadStays
<1>8. ASSUME NEW r \in x11, Kernel!LinesAreLost(r) PROVE Kernel!ErrorInv'
  <2>1. UNCHANGED <<x1, x3, x4, x5, x7, x8, x9, x10, x12, x13, x14>> /\ x11' = x11 \ {r}
    BY <1>8 DEF Kernel!LinesAreLost
  <2>2. Kernel!Formed' /\ Kernel!PostsAreWhole'
    BY <1>0, <2>1 DEF Kernel!Formed, Kernel!PostsAreWhole
  <2>3. x3 <= x3'
    BY <1>0, <2>1 DEF Kernel!Formed
  <2> QED
    BY <2>1, <2>2, <2>3, ThreadStays
<1>9. CASE Kernel!StartAgain \/ Kernel!Reboot
  BY <1>9, StartKeeps
<1> QED
  BY <1>1, <1>2, <1>3, <1>4, <1>5, <1>6, <1>7, <1>8, <1>9 DEF Kernel!Next

-----------------------------------------------------------------------------
\* A behaviour is of one part: the invariant of that part is what it needs.
PointInv ==
  /\ part = "telemetry" => Samples!ArrivalInv
  /\ part = "kernel" => Kernel!ErrorInv

\* Whatever posts and answers are lost, late or repeated, and wherever the power goes or
\* the component is started again: a measured sample stays on the card until the API has
\* its key, and the first error of a boot is stored or still to be sent, for any sizes of
\* files and batches (pitelemetry.c:600-640, 760-915, telemetry.sh:405-455, points.js:161).
THEOREM NothingIsForgotten == MCSpec => []TelemetryArrives
<1>1. MCInit => PointInv
  BY SamplesBegin, KernelBegins DEF MCInit, PointInv
<1>2. PointInv /\ [MCNext]_mcVars => PointInv'
  <2> SUFFICES ASSUME PointInv, [MCNext]_mcVars
               PROVE  PointInv'
    OBVIOUS
  <2>1. part' = part
    BY DEF MCNext, Earning, Other, mcVars
  <2>2. CASE part = "telemetry"
    <3>1. [Samples!Next]_Samples!telemetryVars
      BY <2>2 DEF MCNext, Earning, Other, mcVars, Samples!telemetryVars, Samples!world,
                  Samples!device, Samples!api
    <3> QED
      BY <2>1, <2>2, <3>1, SamplesGoOn DEF PointInv
  <2>3. CASE part = "kernel"
    <3>1. [Kernel!Next]_Kernel!kernelVars
      BY <2>3 DEF MCNext, Earning, Other, mcVars, Kernel!kernelVars, Kernel!thread
    <3> QED
      BY <2>1, <2>3, <3>1, KernelGoesOn DEF PointInv
  <2> QED
    BY <2>1, <2>2, <2>3 DEF PointInv
<1>3. PointInv => TelemetryArrives
  BY DEF PointInv, TelemetryArrives, Samples!ArrivalInv, Kernel!ErrorInv
<1> QED
  BY <1>1, <1>2, <1>3, PTL DEF MCSpec
=============================================================================
