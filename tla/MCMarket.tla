------------------------------ MODULE MCMarket ------------------------------
(***************************************************************************)
(* A small instance of Market for TLC: two players, two plants and a       *)
(* sapling to come, a set of two slots.  The rows of sets and listings and *)
(* the requests in flight are bounded, and only one account is deleted.    *)
(***************************************************************************)
EXTENDS Market, TLC

CONSTANTS MaxSets, MaxListings, MaxRows, MaxRequests, u1, u2, p1, p2, p3, i1, i2, s1, s2

MCSlotOf == (i1 :> s1) @@ (i2 :> s2)

\* Two plants of one player, none of the other; one sapling not born yet.
MCInit ==
  /\ Init
  /\ plants[p1].owner = u1 /\ plants[p2].owner = u1 /\ plants[p3].owner = Nobody
  /\ \A i \in Items : items[i].user = u1

\* Both plants are the same to everybody in the beginning.
Twins == Permutations({p1, p2})

MCNext ==
  /\ Next
  /\ Len(sets') <= MaxSets
  /\ Len(listings') <= MaxListings
  /\ Len(sets') + Len(listings') <= MaxRows
  /\ Cardinality(requests') <= MaxRequests
  /\ deleted' \subseteq {u1}

MCSpec == MCInit /\ [][MCNext]_vars
=============================================================================
