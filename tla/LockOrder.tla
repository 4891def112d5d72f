------------------------------ MODULE LockOrder ------------------------------
(***************************************************************************)
(* The order in which one person's requests take their locks.              *)
(*                                                                         *)
(* Every write of src/server/services takes, in one transaction, advisory  *)
(* locks on names and references, and then locks on the rows it rewrites;  *)
(* all of them are exclusive and held until the transaction ends.  Nothing *)
(* but the order they are taken in keeps two requests from waiting on each *)
(* other.  LocksTaken transcribes that order, operation by operation; the  *)
(* rest of the module is what PostgreSQL does with it.                     *)
(***************************************************************************)
EXTENDS Naturals, Sequences, FiniteSets

CONSTANTS Requests,
          Accounts, Entries, Staged, Recurrences, Templates,   \* ids of rows
          IdempotencyKeys,
          Everyone,   \* stands for the tenant in the key of a namespace lock
          Free,       \* holds a lock nobody holds
          Asked,      \* Asked[r]: what request r may turn out to be
          Place       \* the order of the keys: kind by kind, ids sorted

Reference(S) == {"reference"} \X S
Namespace(name) == {<<name, Everyone>>}
Namespaces == {"accounts", "categories", "payees", "templates", "recurrences", "duplicates"}
Keys == ({"idempotency"} \X IdempotencyKeys) \cup Reference(Accounts)
          \cup (Namespaces \X {Everyone})
          \cup ({"entry"} \X Entries) \cup ({"staged"} \X Staged)
          \cup ({"recurrence"} \X Recurrences) \cup ({"template"} \X Templates)

(* The order helpers.ts and services.md fix: idempotency key, accounts,    *)
(* namespaces, and rows after every namespace.                             *)
Level(kind) ==
  CASE kind = "idempotency" -> 1
    [] kind = "reference"   -> 2
    [] kind = "accounts"    -> 3
    [] kind = "categories"  -> 4
    [] kind = "payees"      -> 5
    [] kind = "templates"   -> 6
    [] kind = "recurrences" -> 7
    [] kind = "duplicates"  -> 8
    [] kind = "entry"       -> 9
    [] kind = "staged"      -> 10
    [] kind = "recurrence"  -> 11
    [] OTHER                -> 12

(* What is asked: an operation, the key it is retried under, the accounts  *)
(* it names, whether it names a category, and the rows it rewrites, those  *)
(* it finds through their legs apart from those it finds by column.        *)
Operations == {"createEntry", "updateEntry", "voidEntry", "restoreEntry", "editEntries",
               "deleteEntries", "createStage", "updateStage", "editStages", "commitStages",
               "deleteStages", "createAccount", "updateAccount", "archiveAccount",
               "writeCategory", "mergeCategories", "mergePayees", "saveTemplate",
               "editTemplates", "deleteTemplates", "saveRecurrence", "deleteRecurrence",
               "proposeDue", "addLedgerFile"}
Asks == [op : Operations, retry : SUBSET IdempotencyKeys, accounts : SUBSET Accounts,
         named : BOOLEAN, entries : SUBSET Entries, split : SUBSET Entries,
         staged : SUBSET Staged, recurrences : SUBSET Recurrences,
         templates : SUBSET Templates]

ASSUME LockOrderAssumption ==
  /\ IsFiniteSet(Requests) /\ Free \notin Requests
  /\ Asked \in [Requests -> SUBSET Asks]
  /\ Place \in [Keys -> Nat]
  /\ \A k, l \in Keys : Level(k[1]) < Level(l[1]) => Place[k] < Place[l]
  /\ \A k, l \in Keys : k # l => Place[k] # Place[l]

VARIABLES lock,   \* lock[key]: the request holding it
          todo,   \* todo[r]: the groups of locks r has still to take, in order
          doing   \* doing[r]: the operation r is in, "idle" before and "done" after
vars == <<lock, todo, doing>>

-----------------------------------------------------------------------------
(* The locks of each operation, group by group in the order of the code;   *)
(* within a group they are taken in sorted order.                          *)

Retry(ask) == {"idempotency"} \X ask.retry
Category(ask) == IF ask.named THEN Namespace("categories") ELSE {}
Rows(kind, S) == {kind} \X S

(* Mutant: an edit that moves an entry off its category takes that lock    *)
(* with the prune at its end.                                              *)
EntryLocksPruningLast(ask) ==
  <<Retry(ask), Reference(ask.accounts), Namespace("payees"), Namespace("duplicates"),
    Rows("entry", ask.entries), Category(ask)>>

(* Creating, saving, restoring and mass-editing entries.                   *)
EntryLocks(ask) ==
  <<Retry(ask), Reference(ask.accounts), Category(ask), Namespace("payees"),
    Namespace("duplicates"), Rows("entry", ask.entries)>>

(* Voiding one entry or many: the accounts they are on, then the rows.     *)
VoidLocks(ask) == <<Retry(ask), Reference(ask.accounts), Rows("entry", ask.entries)>>

(* Staging drafts and editing them, and committing them to the books.      *)
StageLocks(ask) ==
  <<Retry(ask), Reference(ask.accounts), Category(ask), Namespace("payees"), Rows("staged", ask.staged)>>
CommitLocks(ask) ==
  <<Retry(ask), Reference(ask.accounts), Category(ask), Namespace("payees"),
    Namespace("duplicates"), Rows("staged", ask.staged)>>

(* A rename takes the namespace; the opening of an account needs no more   *)
(* than its reference.  Archiving and deleting take both.                  *)
Renamed(ask) == IF ask.named THEN Namespace("accounts") ELSE {}
AccountLocks(ask) == <<Reference(ask.accounts), Renamed(ask)>>
ArchiveLocks(ask) == <<Reference(ask.accounts), Namespace("accounts")>>

(* A merge finds entries by their column and then by their legs, sorting   *)
(* each of the two reads by id, and then every standing reference.         *)
MergeCategoryLocks(ask) ==
  <<Retry(ask), Namespace("categories"), Rows("entry", ask.entries), Rows("entry", ask.split),
    Rows("staged", ask.staged), Rows("recurrence", ask.recurrences), Rows("template", ask.templates)>>
MergePayeeLocks(ask) ==
  <<Retry(ask), Namespace("payees"), Rows("entry", ask.entries),
    Rows("staged", ask.staged), Rows("recurrence", ask.recurrences), Rows("template", ask.templates)>>

TemplateLocks(ask) ==
  <<Retry(ask), Reference(ask.accounts), Category(ask), Namespace("templates"),
    Rows("template", ask.templates)>>
UntemplateLocks(ask) == <<Retry(ask), Namespace("templates"), Rows("template", ask.templates)>>
RecurrenceLocks(ask) ==
  <<Reference(ask.accounts), Category(ask), Namespace("recurrences"),
    Rows("recurrence", ask.recurrences)>>

(* The sweep claims its recurrence before the references of what it stages *)
SweepLocks(ask) ==
  <<Rows("recurrence", ask.recurrences), Reference(ask.accounts), Category(ask), Namespace("payees")>>

FileLocks(ask) ==
  <<Retry(ask), Reference(ask.accounts), Namespace("accounts"), Namespace("categories"),
    Namespace("payees"), Namespace("templates"), Namespace("recurrences"), Namespace("duplicates")>>

LocksTaken(ask) ==
  CASE ask.op \in {"createEntry", "updateEntry", "restoreEntry", "editEntries"} -> EntryLocks(ask)
    [] ask.op \in {"voidEntry", "deleteEntries"} -> VoidLocks(ask)
    [] ask.op \in {"createStage", "updateStage", "editStages"} -> StageLocks(ask)
    [] ask.op = "commitStages" -> CommitLocks(ask)
    [] ask.op = "deleteStages" -> <<Rows("staged", ask.staged)>>
    [] ask.op = "createAccount" -> <<Namespace("accounts")>>
    [] ask.op = "updateAccount" -> AccountLocks(ask)
    [] ask.op = "archiveAccount" -> ArchiveLocks(ask)
    [] ask.op = "writeCategory" -> <<Namespace("categories")>>
    [] ask.op = "mergeCategories" -> MergeCategoryLocks(ask)
    [] ask.op = "mergePayees" -> MergePayeeLocks(ask)
    [] ask.op \in {"saveTemplate", "editTemplates"} -> TemplateLocks(ask)
    [] ask.op = "deleteTemplates" -> UntemplateLocks(ask)
    [] ask.op = "saveRecurrence" -> RecurrenceLocks(ask)
    [] ask.op = "deleteRecurrence" -> <<Rows("recurrence", ask.recurrences)>>
    [] ask.op = "proposeDue" -> SweepLocks(ask)
    [] OTHER -> FileLocks(ask)

-----------------------------------------------------------------------------
Working(r) == doing[r] \in Operations
Held(r) == {k \in Keys : lock[k] = r}

(* The next lock of the group: the least of those not already held.        *)
Wanted(r) == Head(todo[r]) \ Held(r)
Least(S) == CHOOSE k \in S : \A l \in S : Place[k] <= Place[l]
NextKey(r) == Least(Wanted(r))
Asking(r) == Working(r) /\ todo[r] # <<>> /\ Wanted(r) # {}

(* The sweep skips a recurrence somebody holds; everything else waits.     *)
Skips(r) == doing[r] = "proposeDue" /\ NextKey(r)[1] = "recurrence"
Blocked(r) == Asking(r) /\ lock[NextKey(r)] # Free /\ ~ Skips(r)

Begin(r) ==
  /\ doing[r] = "idle"
  /\ \E ask \in Asked[r] : /\ todo' = [todo EXCEPT ![r] = LocksTaken(ask)]
                            /\ doing' = [doing EXCEPT ![r] = ask.op]
  /\ UNCHANGED lock

Take(r) ==
  /\ Asking(r)
  /\ lock[NextKey(r)] = Free
  /\ lock' = [lock EXCEPT ![NextKey(r)] = r]
  /\ UNCHANGED <<todo, doing>>

(* Everything in this group is held: on to the next.                       *)
Proceed(r) ==
  /\ Working(r) /\ todo[r] # <<>> /\ Wanted(r) = {}
  /\ todo' = [todo EXCEPT ![r] = Tail(@)]
  /\ UNCHANGED <<lock, doing>>

Finish(r) == /\ doing' = [doing EXCEPT ![r] = "done"]
             /\ todo' = [todo EXCEPT ![r] = <<>>]

(* Mutant: what a transaction locked outlives it.                          *)
EndHolding(r) ==
  /\ Working(r) /\ ~ Blocked(r)
  /\ Finish(r)
  /\ UNCHANGED lock

(* The transaction commits, or is refused between one lock and the next;   *)
(* either way its locks go with it.                                        *)
End(r) ==
  /\ Working(r) /\ ~ Blocked(r)
  /\ Finish(r)
  /\ lock' = [k \in Keys |-> IF lock[k] = r THEN Free ELSE lock[k]]

Serve(r) == Take(r) \/ Proceed(r) \/ End(r)

Init == /\ lock = [k \in Keys |-> Free]
        /\ todo = [r \in Requests |-> <<>>]
        /\ doing = [r \in Requests |-> "idle"]
Next == \E r \in Requests : Begin(r) \/ Serve(r)

(* A transaction that can go on does, and PostgreSQL hands a lock that is  *)
(* let go to somebody who waits for it.                                    *)
Spec == Init /\ [][Next]_vars
FairSpec == Spec /\ \A r \in Requests : WF_vars(Serve(r))
-----------------------------------------------------------------------------
(* The lock table has holders that are requests, and what a request has    *)
(* still to take is a sequence of groups of its keys.                      *)
TypeOK ==
  /\ lock \in [Keys -> Requests \cup {Free}]
  /\ todo \in [Requests -> Seq(SUBSET Keys)]
  /\ doing \in [Requests -> Operations \cup {"idle", "done"}]

(***************************************************************************)
(* No group of requests waits on one another: whoever is blocked is        *)
(* blocked, in the end, by somebody who is not.                            *)
(***************************************************************************)
NoDeadlock ==
  \A W \in (SUBSET Requests) \ {{}} :
    ~ \A r \in W : Blocked(r) /\ lock[NextKey(r)] \in W

(* Every request that begins is served to its end, whoever else is writing *)
EveryRequestEnds == \A r \in Requests : Working(r) ~> doing[r] = "done"

(* What the order of the code gives: groups that ascend.                   *)
Ascending(groups) ==
  \A i, j \in DOMAIN groups : i < j => \A k \in groups[i], l \in groups[j] : Place[k] < Place[l]
=============================================================================
