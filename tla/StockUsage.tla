----------------------------- MODULE StockUsage -----------------------------
(***************************************************************************)
(* What the orders of a coffee machine have used up (lib/src/stock.js,     *)
(* syncUsage): a row for each material of the recipe that was valid when   *)
(* the order was bought.  The scheduler brings the rows up to date every   *)
(* ten minutes, and the API after each change of a recipe, so that two of  *)
(* these transactions may overlap; the orders come from the portal of the  *)
(* machine, which may still change their status.                           *)
(*                                                                         *)
(* The database is READ COMMITTED: a statement sees what was committed     *)
(* when it began, and waits for the rows that another transaction has      *)
(* locked.                                                                 *)
(***************************************************************************)
EXTENDS Naturals, FiniteSets, FiniteSetsExt

CONSTANTS
  Orders, Bought,      \* machine_orders, purchased_at
  Versions, ValidFrom, \* recipe_versions, valid_from
  Recipe,              \* the materials of a version
  Clients,             \* calls of the API and the pass of the scheduler
  NoVersion

VARIABLES
  status,    \* of each order: "none", "ok" or "failed"
  versions,  \* recipe_versions
  usage,     \* stock_usage, as it is committed
  sync,      \* the transactions
  mixed      \* orders whose rows two transactions have written at once

\* There is a latest of the versions before an order.
ConstantsAreSound == Bought \in [Orders -> Nat] /\ ValidFrom \in [Versions -> Nat]

usageVars == <<status, versions, usage, sync, mixed>>

Idle == [at |-> "idle", gone |-> NoVersion, stale |-> {}, deleted |-> {}, wanted |-> {},
         inserted |-> {}, alone |-> FALSE]

Init ==
  /\ status = [o \in Orders |-> "none"]
  /\ \E v \in Versions : versions = {v}
  /\ usage = {}
  /\ sync = [c \in Clients |-> Idle]
  /\ mixed = {}

\* Only for the properties: nobody else is writing, no recipe changes meanwhile,
\* and no order its status.
Disturbed == [d \in Clients |-> [sync[d] EXCEPT !.alone = FALSE]]

At(c, step) == sync[c].at = step
Others(c) == Clients \ {c}
OrdersOf(rows) == {r.order : r \in rows}
Keys(rows) == {<<r.order, r.item>> : r \in rows}

-----------------------------------------------------------------------------
\* The portal (jobs/jetinno.js): an order is inserted, or its status updated.
ImportOrder(o) ==
  /\ \E s \in {"ok", "failed"} \ {status[o]} : status' = [status EXCEPT ![o] = s]
  /\ sync' = IF status[o] = "none" THEN sync ELSE Disturbed
  /\ UNCHANGED <<versions, usage, mixed>>

\* VERSION_OF
ValidVersion(o) ==
  LET past == {v \in versions : ValidFrom[v] <= Bought[o]} IN
    IF past = {} THEN NoVersion
    ELSE CHOOSE v \in past : \A w \in past : ValidFrom[w] <= ValidFrom[v]

RowsBy(o, v) ==
  IF v = NoVersion THEN {} ELSE {[order |-> o, item |-> i, version |-> v] : i \in Recipe[v]}
RowsOf(o) == {r \in usage : r.order = o}

-----------------------------------------------------------------------------
\* createVersion: valid_from is unique.
CreateVersion(c, v) ==
  /\ At(c, "idle")
  /\ \A w \in versions : ValidFrom[w] # ValidFrom[v]
  /\ versions' = versions \cup {v}
  /\ sync' = [Disturbed EXCEPT ![c].at = "begin"]
  /\ UNCHANGED <<status, usage, mixed>>

\* The last version stays; it is asked before the deletion.
AskRemove(c, v) ==
  /\ At(c, "idle") /\ v \in versions
  /\ Cardinality(versions) > 1
  /\ sync' = [sync EXCEPT ![c].at = "remove", ![c].gone = v]
  /\ UNCHANGED <<status, versions, usage, mixed>>

\* Its rows go with it; it waits for whoever has inserted rows of it.
Remove(c) ==
  LET v == sync[c].gone IN
    /\ At(c, "remove")
    /\ \A d \in Others(c) : \A r \in sync[d].inserted : r.version # v
    /\ versions' = versions \ {v}
    /\ usage' = {r \in usage : r.version # v}
    /\ sync' = [Disturbed EXCEPT ![c] = IF v \in versions THEN [Idle EXCEPT !.at = "begin"] ELSE Idle]
    /\ UNCHANGED <<status, mixed>>

JobBegins(c) ==
  /\ At(c, "idle")
  /\ sync' = [sync EXCEPT ![c].at = "begin"]
  /\ UNCHANGED <<status, versions, usage, mixed>>

-----------------------------------------------------------------------------
\* syncUsage: rows of another version than the valid one are deleted ...
NoRow == {}
StaleRows == {r \in usage : r.version # ValidVersion(r.order)}

FindStale(c) ==
  /\ At(c, "begin")
  /\ sync' = [Disturbed EXCEPT ![c].at = "delete", ![c].stale = StaleRows,
                                ![c].alone = \A d \in Others(c) : At(d, "idle")]
  /\ UNCHANGED <<status, versions, usage, mixed>>

DeleteStale(c) ==
  /\ At(c, "delete")
  /\ \A d \in Others(c) : sync[d].deleted \cap sync[c].stale = {}
  /\ sync' = [sync EXCEPT ![c].at = "find", ![c].deleted = sync[c].stale \cap usage]
  /\ UNCHANGED <<status, versions, usage, mixed>>

\* ... and those of the successful orders without any row are inserted.
Unwritten(c) == {o \in Orders : status[o] = "ok" /\ RowsOf(o) \subseteq sync[c].deleted}

FindNew(c) ==
  /\ At(c, "find")
  /\ sync' = [sync EXCEPT ![c].at = "insert",
                ![c].wanted = UNION {RowsBy(o, ValidVersion(o)) : o \in Unwritten(c)}]
  /\ UNCHANGED <<status, versions, usage, mixed>>

\* on conflict do nothing: it waits for the one that is inserting the same.
Visible(c) == usage \ sync[c].deleted
Uncommitted(c) == UNION {sync[d].inserted : d \in Others(c)}
Insertable(c) == {r \in sync[c].wanted : <<r.order, r.item>> \notin Keys(Visible(c))}

InsertNew(c) ==
  /\ At(c, "insert")
  /\ Keys(sync[c].wanted) \cap Keys(Uncommitted(c)) = {}
  /\ \A r \in Insertable(c) : r.version \in versions
  /\ sync' = [sync EXCEPT ![c].at = "commit", ![c].inserted = Insertable(c)]
  /\ mixed' = mixed \cup (OrdersOf(sync[c].wanted) \cap OrdersOf(Visible(c) \cup Uncommitted(c)))
  /\ UNCHANGED <<status, versions, usage>>

Commit(c) ==
  /\ At(c, "commit")
  /\ usage' = (usage \ sync[c].deleted) \cup sync[c].inserted
  /\ sync' = [sync EXCEPT ![c] = Idle]
  /\ UNCHANGED <<status, versions, mixed>>

\* Rolled back: by an error of the database, or with its process.
Rollback(c) ==
  /\ ~At(c, "idle")
  /\ sync' = [sync EXCEPT ![c] = Idle]
  /\ UNCHANGED <<status, versions, usage, mixed>>

Next ==
  \/ \E o \in Orders : ImportOrder(o)
  \/ \E c \in Clients :
       \/ \E v \in Versions : CreateVersion(c, v) \/ AskRemove(c, v)
       \/ Remove(c) \/ JobBegins(c)
       \/ FindStale(c) \/ DeleteStale(c) \/ FindNew(c) \/ InsertNew(c) \/ Commit(c) \/ Rollback(c)

Spec == Init /\ [][Next]_usageVars

-----------------------------------------------------------------------------
Rows == {[order |-> o, item |-> i, version |-> v] :
           o \in Orders, i \in UNION {Recipe[v] : v \in Versions}, v \in Versions}

TypeOK ==
  /\ status \in [Orders -> {"none", "ok", "failed"}]
  /\ versions \subseteq Versions
  /\ usage \subseteq Rows /\ mixed \subseteq Orders
  /\ \A c \in Clients :
       /\ sync[c].at \in {"idle", "remove", "begin", "delete", "find", "insert", "commit"}
       /\ sync[c].stale \cup sync[c].deleted \cup sync[c].wanted \cup sync[c].inserted \subseteq Rows

\* The rows of an order are a whole recipe: those of one version, or none; and a
\* pass that no other overlaps leaves every successful order with the recipe
\* that was valid when it was bought, whatever versions came and went and
\* whichever passes were rolled back (stock.js:324-328).
Whole == \A o \in Orders \ mixed : RowsOf(o) = {} \/ \E v \in Versions : RowsOf(o) = RowsBy(o, v)
Written(c) == {o \in Orders : RowsOf(o) # {}} \cup OrdersOf(sync[c].wanted)
Current(c) ==
  Commit(c) /\ sync[c].alone =>
    \A o \in Written(c) \ mixed : status[o] = "ok" => RowsOf(o)' = RowsBy(o, ValidVersion(o))
Corrects == \A c \in Clients : Current(c)
UsageFollowsRecipe == []Whole /\ [][Corrects]_usageVars

\* Why: what a pass takes from an order or gives it are all the rows of a version,
\* since whoever writes beside it is found out when it inserts.
Of(rows, o) == {r \in rows : r.order = o}
WholeIn(rows, o) == Of(rows, o) = {} \/ \E v \in Versions : Of(rows, o) = RowsBy(o, v)
Pass ==
  [at : {"idle", "remove", "begin", "delete", "find", "insert", "commit"},
   gone : Versions \cup {NoVersion}, stale : SUBSET Rows, deleted : SUBSET Rows,
   wanted : SUBSET Rows, inserted : SUBSET Rows, alone : BOOLEAN]
Formed ==
  /\ status \in [Orders -> {"none", "ok", "failed"}]
  /\ versions \subseteq Versions /\ usage \subseteq Rows /\ mixed \subseteq Orders
  /\ sync \in [Clients -> Pass]
  /\ \A c \in Clients :
       /\ sync[c].at \in {"idle", "remove", "begin"} => sync[c].stale = {} /\ ~sync[c].alone
       /\ sync[c].at \in {"idle", "remove", "begin", "delete"} => sync[c].deleted = {}
       /\ sync[c].at \in {"idle", "remove", "begin", "delete", "find"} => sync[c].wanted = {}
       /\ sync[c].at # "commit" => sync[c].inserted = {}
       /\ sync[c].inserted \subseteq sync[c].wanted
PassesAreWhole ==
  \A o \in Orders \ mixed, c \in Clients :
    /\ WholeIn(sync[c].stale, o) /\ WholeIn(sync[c].deleted, o) /\ WholeIn(sync[c].wanted, o)
    /\ At(c, "commit") => Of(sync[c].inserted, o) = Of(sync[c].wanted, o)
OneWrites ==
  \A o \in Orders \ mixed, c \in Clients :
    Of(sync[c].inserted, o) # {} =>
      RowsOf(o) \subseteq sync[c].deleted /\ \A d \in Others(c) : Of(sync[d].inserted, o) = {}
RowsAreOfImported ==
  \A o \in Orders : status[o] = "none" => RowsOf(o) = {} /\ \A c \in Clients : Of(sync[c].wanted, o) = {}

\* What a pass has found out is still so while it is alone.
FoundIsSo(c) ==
  /\ \A d \in Others(c) : sync[d].at \in {"idle", "remove", "begin"}
  /\ At(c, "delete") => sync[c].stale = StaleRows
  /\ sync[c].at \in {"find", "insert", "commit"} => sync[c].deleted = StaleRows
  /\ sync[c].at \in {"insert", "commit"} =>
       \A o \in Written(c) : status[o] = "ok" =>
         Of(sync[c].wanted, o) = IF RowsOf(o) \subseteq StaleRows THEN RowsBy(o, ValidVersion(o)) ELSE {}
AloneIsRight == \A c \in Clients : sync[c].alone => FoundIsSo(c)
UsageInv ==
  Formed /\ Whole /\ PassesAreWhole /\ OneWrites /\ RowsAreOfImported /\ AloneIsRight

\* Two passes that overlap are no exception for good: whatever they have mixed,
\* the next pass sets right.  It does not: it deletes the rows of the old
\* version, and the order keeps those of the new one that had no rival.
MixedIsSetRight ==
  [][\A c \in Clients : Commit(c) /\ sync[c].alone =>
       \A o \in mixed : RowsOf(o)' \in {{}, RowsBy(o, ValidVersion(o))}]_usageVars

\* An order that failed uses nothing.  It does when the portal called it
\* successful before: nothing deletes its rows.
FailedUsesNothing == \A o \in Orders : status[o] = "failed" => RowsOf(o) = {}

\* A recipe always remains; two deletions at once take the last two.
AVersionStays == versions # {}
=============================================================================
