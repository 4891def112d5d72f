---------------------------- MODULE AccountPlaces ----------------------------
(***************************************************************************)
(* Which accounts a limited plan keeps in use: the plan in force           *)
(* (resolveEntitlement, src/shared/domain.ts), the freeze derived from it  *)
(* and from the stored choice (frozenAccountIds), and the operations of    *)
(* src/server/services/accounts.ts that change the choice or the live      *)
(* accounts.                                                               *)
(*                                                                         *)
(* An operation takes the account namespace lock, reads, and decides; it   *)
(* writes when its transaction commits.  Only one is between those two     *)
(* steps at a time, but the plan, which no lock of it holds still, may     *)
(* change there: a webhook, a grace that runs out, an operator, a restart  *)
(* with billing on or off.                                                 *)
(***************************************************************************)
EXTENDS Integers, FiniteSets

CONSTANTS Opened,      \* how many accounts may ever be opened
          MaxFree,     \* MAX_FREE_ACCOUNTS
          Standings    \* what may be known of the person's plan

ASSUME PlacesAssumption == Opened \in Nat /\ MaxFree \in Nat

(* An account is known by its place in the order of creation, the order    *)
(* (createdAt, id) that the freeze ranks accounts by.                      *)
Accounts == 1 .. Opened

VARIABLES status,    \* status[a]: not opened yet, live, archived or deleted
          active,    \* active[a]: the stored choice
          standing,  \* what is known of the plan
          task,      \* the operation that holds the namespace lock
          owed,      \* a limit came into force and no choice was made since
          usedFree   \* accounts in use under a limit since last left out
placesVars == <<status, active, standing, task, owed, usedFree>>

NoTask == [op |-> "none"]
Entitling == {"active", "trialing"}

(* The plan in force: an operator's decision, while it lasts, before what  *)
(* any of the subscriptions says.  A failed renewal keeps the plan while   *)
(* its grace lasts.                                                        *)
ResolveEntitlement(s) ==
  IF ~s.selling THEN "none"
  ELSE IF s.override # "none" THEN s.override
  ELSE IF s.subscriptions \cap (Entitling \cup {"past due, in grace"}) # {} THEN "plus"
  ELSE "free"

Limits(s) == ResolveEntitlement(s) = "free"
Limited == Limits(standing)

LiveAccounts(h) == {a \in Accounts : h[a] = "live"}

Oldest(S, n) == {a \in S : Cardinality({b \in S : b < a}) < n}

FrozenAccountIds(limited, h, marked) ==
  IF ~limited \/ Cardinality(LiveAccounts(h)) <= MaxFree THEN {}
  ELSE LiveAccounts(h) \ Oldest({a \in LiveAccounts(h) : marked[a]}, MaxFree)

InUse(limited, h, marked) == LiveAccounts(h) \ FrozenAccountIds(limited, h, marked)

CountActiveAccounts(limited, h, marked) == Cardinality(InUse(limited, h, marked))

(* accountAllowance, of a create and of a restore.                         *)
HasPlace(limited, h, marked) ==
  limited => CountActiveAccounts(limited, h, marked) < MaxFree

ActiveChoicePending(limited, h, marked) ==
  limited /\ Cardinality({a \in LiveAccounts(h) : marked[a]}) > MaxFree

(* accountsToMarkActive: by the free plan's number, whatever the plan is.  *)
(* (Mutant: by the limit in force.)                                        *)
MarkedUnderLimit(limited, h, marked) ==
  IF limited /\ Cardinality(LiveAccounts(h)) <= MaxFree
  THEN [a \in Accounts |-> marked[a] \/ a \in LiveAccounts(h)] ELSE marked

MarkFittingAccountsActive(limited, h, marked) ==
  IF Cardinality(LiveAccounts(h)) <= MaxFree
  THEN [a \in Accounts |-> marked[a] \/ a \in LiveAccounts(h)] ELSE marked

ActiveAccountChange(limited, h, marked, wanted) ==
  IF ~limited \/ Cardinality(LiveAccounts(h)) <= MaxFree
  THEN {a \in LiveAccounts(h) : marked[a]} = wanted
  ELSE /\ Cardinality(wanted) <= MaxFree
       /\ \/ ActiveChoicePending(limited, h, marked)
          \/ InUse(limited, h, marked) \subseteq wanted

-----------------------------------------------------------------------------
(* Operations: each reads and decides under the lock, and writes later.    *)

NothingUnderWay == task.op = "none"

(* The next account to be opened.                                          *)
Newest == Cardinality({a \in Accounts : status[a] # "unopened"}) + 1

Decides(t) == /\ task' = t
              /\ UNCHANGED <<status, active, standing, owed, usedFree>>

(* What was in use under a limit and may now be missed if it is frozen.    *)
Uses(h, marked, s) == IF Limits(s) THEN InUse(TRUE, h, marked) ELSE {}

Commits(h, marked, out) ==
  /\ status' = h
  /\ active' = marked
  /\ task' = NoTask
  /\ usedFree' = (usedFree \ out) \cup Uses(h, marked, standing)
  /\ UNCHANGED standing

Creates(archived) ==
  /\ NothingUnderWay
  /\ Newest \in Accounts
  /\ archived \/ HasPlace(Limited, status, MarkFittingAccountsActive(Limited, status, active))
  /\ Decides([op |-> "create", account |-> Newest, archived |-> archived])

Created ==
  /\ task.op = "create"
  /\ LET before == MarkFittingAccountsActive(Limited, status, active)
         h == [status EXCEPT ![task.account] = IF task.archived THEN "archived" ELSE "live"]
         marked == [before EXCEPT ![task.account] = TRUE]
     IN  Commits(h, IF task.archived THEN MarkFittingAccountsActive(Limited, h, marked)
                    ELSE marked, {})
  /\ UNCHANGED owed

Archives(a) ==
  /\ NothingUnderWay
  /\ status[a] = "live"
  /\ Decides([op |-> "archive", account |-> a])

Archived ==
  /\ task.op = "archive"
  /\ LET h == [status EXCEPT ![task.account] = "archived"]
     IN  Commits(h, MarkFittingAccountsActive(Limited, h, active), {task.account})
  /\ UNCHANGED owed

(* (Mutant: a restore needs no free place.)                                *)
RestoreUnchecked(limited, h, marked) == TRUE

(* restoreAllowance, after the accounts that fit are marked.               *)
RestoreAllowance(limited, h, marked) ==
  HasPlace(limited, h, MarkFittingAccountsActive(limited, h, marked))

Restores(a) ==
  /\ NothingUnderWay
  /\ status[a] = "archived"
  /\ RestoreAllowance(Limited, status, active)
  /\ Decides([op |-> "restore", account |-> a])

Restored ==
  /\ task.op = "restore"
  /\ LET before == MarkFittingAccountsActive(Limited, status, active)
     IN  Commits([status EXCEPT ![task.account] = "live"],
                 [before EXCEPT ![task.account] = TRUE], {})
  /\ UNCHANGED owed

(* An account something names is refused: here, any may be unnamed.        *)
Deletes(a) ==
  /\ NothingUnderWay
  /\ status[a] = "live"
  /\ Decides([op |-> "delete", account |-> a])

Deleted ==
  /\ task.op = "delete"
  /\ LET h == [status EXCEPT ![task.account] = "deleted"]
     IN  Commits(h, MarkFittingAccountsActive(Limited, h, active), {task.account})
  /\ UNCHANGED owed

Chooses(wanted) ==
  /\ NothingUnderWay
  /\ ActiveAccountChange(Limited, status, active, wanted)
  /\ Decides([op |-> "choose", wanted |-> wanted])

Chosen ==
  /\ task.op = "choose"
  /\ LET live == LiveAccounts(status)
     IN  Commits(status, [a \in Accounts |-> IF a \in live THEN a \in task.wanted ELSE active[a]],
                 live \ task.wanted)
  /\ owed' = (owed /\ active' = active)

(* The transaction is rolled back: a version that was stale, a name that   *)
(* is taken, an account something names, a connection that breaks.         *)
RolledBack ==
  /\ ~NothingUnderWay
  /\ task' = NoTask
  /\ UNCHANGED <<status, active, standing, owed, usedFree>>

(* The plan changes with nobody present.                                   *)
PlanChanges ==
  /\ standing' \in Standings \ {standing}
  /\ owed' = (owed \/ (~Limited /\ Limited'))
  /\ usedFree' = usedFree \cup Uses(status, active, standing')
  /\ UNCHANGED <<status, active, task>>

PlacesInit ==
  /\ status = [a \in Accounts |-> "unopened"]
  /\ active = [a \in Accounts |-> FALSE]
  /\ standing \in Standings
  /\ task = NoTask
  /\ owed = FALSE
  /\ usedFree = {}

PlacesNext ==
  \/ \E archived \in BOOLEAN : Creates(archived)
  \/ Created
  \/ \E a \in Accounts : Archives(a) \/ Restores(a) \/ Deletes(a)
  \/ Archived \/ Restored \/ Deleted
  \/ \E wanted \in SUBSET LiveAccounts(status) : Chooses(wanted)
  \/ Chosen
  \/ RolledBack
  \/ PlanChanges

PlacesSpec == PlacesInit /\ [][PlacesNext]_placesVars
-----------------------------------------------------------------------------
(* Properties.                                                             *)

(* Every variable has its type: an account has one of its states, and at   *)
(* most one operation is between its decision and its commit.              *)
PlacesTypeOK ==
  /\ status \in [Accounts -> {"unopened", "live", "archived", "deleted"}]
  /\ active \in [Accounts -> BOOLEAN]
  /\ standing \in Standings
  /\ task.op \in {"none", "create", "archive", "restore", "delete", "choose"}
  /\ owed \in BOOLEAN
  /\ usedFree \subseteq Accounts

(* While a limited plan is in force an account in use stays in use until   *)
(* it is archived or deleted.  Only the one choice owed since the limit    *)
(* came into force may leave it out, or the order of age that stands in    *)
(* for that choice while the person is asked for it: no create, no restore *)
(* and no second choice swaps it for another, whatever the plan was when   *)
(* they decided.                                                           *)
InUseStaysInUse ==
  [][Limited /\ Limited' =>
       \A a \in InUse(TRUE, status, active) :
         \/ a \in InUse(TRUE, status, active)'
         \/ status'[a] # "live"
         \/ owed /\ (owed' => ActiveChoicePending(TRUE, status, active)')]_placesVars

(* A spell on the paid plan freezes nothing behind the person's back: once *)
(* it is over, an account that was in use under the limit, and was neither *)
(* left out of a choice nor archived since, is frozen only while the       *)
(* person is asked to choose again.                                        *)
NoSilentFreeze ==
  Limited /\ ~ActiveChoicePending(TRUE, status, active)
    => FrozenAccountIds(TRUE, status, active) \cap usedFree = {}
=============================================================================
