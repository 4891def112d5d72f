----------------------------- MODULE MCLockOrder -----------------------------
(* Values of LockOrder's constants for TLC.                                *)
EXTENDS LockOrder, TLC

CONSTANTS r1, r2, r3, a1, a2, t1, t2, s1, s2, c1, c2, m1, k1

TwoAccounts == {a1, a2}
TwoEntries == {t1, t2}
TwoStaged == {s1, s2}
TwoRecurrences == {c1, c2}
Order == [id \in {a1, t1, s1, c1, m1, k1, Everyone} |-> 0] @@ [id \in {a2, t2, s2, c2} |-> 1]
Places == [k \in Keys |-> 2 * Level(k[1]) + Order[k[2]]]

None == [op |-> "createEntry", retry |-> {}, accounts |-> {}, named |-> FALSE, entries |-> {},
         split |-> {}, staged |-> {}, recurrences |-> {}, templates |-> {}]
On(op, accts) == [None EXCEPT !.op = op, !.accounts = accts]
OnEntries(op, accts, rows) == [On(op, accts) EXCEPT !.entries = rows]
Named(ask) == [ask EXCEPT !.named = TRUE]
Retried(ask) == [ask EXCEPT !.retry = {k1}]

(* Writes on entries and the accounts they are in.                         *)
First == {Named(OnEntries("updateEntry", {a1, a2}, {t1})), OnEntries("updateEntry", {a1}, {t1}),
          Retried(On("createEntry", {a1})), OnEntries("restoreEntry", {a2}, {t2}),
          Retried(Named(OnEntries("editEntries", {a1, a2}, {t1, t2}))),
          Retried([On("commitStages", {a1}) EXCEPT !.staged = {s1, s2}]),
          Named([On("editStages", {a2}) EXCEPT !.staged = {s1, s2}]),
          Named([On("saveRecurrence", {a1}) EXCEPT !.recurrences = {c1}])}
(* Writes that void, and writes that reach across the whole ledger.  The   *)
(* sweep is on accounts that no write of its recurrence here waits for:    *)
(* docs/acceptance.md:62 records that the two can deadlock otherwise.      *)
Second == {Retried(OnEntries("deleteEntries", {a1, a2}, {t1, t2})),
           [OnEntries("mergeCategories", {}, {t1, t2})
              EXCEPT !.staged = {s1, s2}, !.recurrences = {c1}, !.templates = {m1}],
           [OnEntries("mergePayees", {}, {t1, t2})
              EXCEPT !.staged = {s1, s2}, !.recurrences = {c1}, !.templates = {m1}],
           Named([On("editTemplates", {a1}) EXCEPT !.templates = {m1}]),
           [On("proposeDue", {a2}) EXCEPT !.recurrences = {c2}],
           On("addLedgerFile", {a1, a2})}
(* Writes on accounts, categories and the queue.                           *)
Third == {On("archiveAccount", {a1}), On("archiveAccount", {a2}), Named(On("updateAccount", {a1})),
          On("createAccount", {}), On("writeCategory", {}), OnEntries("voidEntry", {a1}, {t2}),
          [On("deleteStages", {}) EXCEPT !.staged = {s1, s2}],
          [On("deleteTemplates", {}) EXCEPT !.templates = {m1}],
          [On("deleteRecurrence", {}) EXCEPT !.recurrences = {c1}],
          [On("deleteRecurrence", {}) EXCEPT !.recurrences = {c2}],
          Named([On("updateStage", {a2}) EXCEPT !.staged = {s2}])}
Together == (r1 :> First) @@ (r2 :> Second) @@ (r3 :> Third)

(* A merge of categories that splits name, beside a mass delete.           *)
Merging == (r1 :> {[OnEntries("mergeCategories", {}, {t2}) EXCEPT !.split = {t1}]})
             @@ (r2 :> {OnEntries("deleteEntries", {a1}, {t1, t2}), OnEntries("mergePayees", {}, {t1, t2})})
             @@ (r3 :> {OnEntries("voidEntry", {a2}, {t2}), On("archiveAccount", {a1})})
=============================================================================
