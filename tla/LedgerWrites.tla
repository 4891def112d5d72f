---------------------------- MODULE LedgerWrites ----------------------------
(***************************************************************************)
(* The requests that write the books, as they interleave.                  *)
(*                                                                         *)
(* Every write of transactions.ts and accounts.ts runs in one PostgreSQL   *)
(* transaction at READ COMMITTED.  A request names the version of the rows *)
(* it was shown, reads them again before it holds any lock (entry writes)  *)
(* or after (account writes), waits for advisory locks one at a time, and  *)
(* only then decides what to write from what is committed at that moment.  *)
(* Its rows appear when it commits.  Step by step, then, a request is      *)
(*                                                                         *)
(*     Submit -> Read -> Lock ... Lock -> Work (or Refuse) -> Commit       *)
(*                                                                         *)
(* The tables and what a write does to them are Ledger's; this module says *)
(* what each request had read when it decided, and checks that every       *)
(* commit is still one of Ledger's atomic operations.                      *)
(***************************************************************************)
EXTENDS Ledger

CONSTANTS Requests,   \* requests, each served once
          May,        \* May[r]: what request r may ask for
          Rank,       \* the order ids sort in
          Existing,   \* the entries already in the books
          Imported,   \* the entries a ledger file brought or brings
          Free        \* holds a lock nobody holds

(* What a request may ask: one entry, a selection of them, or an account.  *)
Single == {{e} : e \in Entries}
Selections == (SUBSET Entries) \ {{}}
Asks ==
  [op : {"create", "update"}, entries : Single, draft : Drafts, allow : BOOLEAN]
    \cup [op : {"restore"}, entries : Single, allow : BOOLEAN]
    \cup [op : {"delete"}, entries : Single]
    \cup [op : {"deleteMany"}, entries : Selections]
    \cup [op : {"editMany"}, entries : Selections, patch : Patches, allow : BOOLEAN]
    \cup [op : {"archive", "unarchive", "remove", "reconcile"}, account : Accounts]
    \cup [op : {"opening"}, account : Accounts, opening : Openings, day : Days]
Voiding == {"delete", "deleteMany"}
OnEntries(ask) == "entries" \in DOMAIN ask

ASSUME WritesAssumption ==
  /\ Existing \subseteq Entries /\ Imported \subseteq Entries
  /\ May \in [Requests -> SUBSET Asks]
  /\ Rank \in [Accounts \cup Entries -> Nat] /\ IsInjective(Rank)
  /\ Free \notin Requests

Rows == ({"entry"} \X Entries) \cup ({"account"} \X Accounts)
LockKeys == ({"reference"} \X Accounts) \cup ({"row"} \X Entries) \cup { <<"accounts">>, <<"duplicates">> }

VARIABLES version,   \* version[row]: the version column
          lock,      \* lock[key]: the request holding it
          req        \* req[r]: where request r is and what it knows
wvars == <<account, entry, posted, written, now, zone, version, lock, req>>

-----------------------------------------------------------------------------
(* What a request knows.                                                   *)

RowNow(row) == IF row[1] = "entry" THEN entry[row[2]] ELSE account[row[2]]
Seen(rows) == [row \in rows |-> [at |-> version[row], says |-> RowNow(row)]]

(* The rows a client names, with the versions it was shown.                *)
NamedRows(ask) ==
  IF ask.op \in {"create", "reconcile"} THEN {}
  ELSE IF OnEntries(ask) THEN {"entry"} \X ask.entries
  ELSE {<<"account", ask.account>>}

NothingToWrite == [entries |-> <<>>, accounts |-> <<>>, rows |-> <<>>, on |-> <<>>, gone |-> {}]
Idle == [at |-> "idle", ask |-> <<>>, saw |-> <<>>, before |-> <<>>, keys |-> {},
         change |-> NothingToWrite]

(* The draft the request means to post of an entry.                        *)
Wanting(ask, e) ==
  CASE ask.op \in {"create", "update"} -> ask.draft
    [] ask.op = "editMany" -> Patched(entry[e].draft, ask.patch)
    [] OTHER -> entry[e].draft

(* Mutant: voiding holds no account.                                       *)
SidesHeldPosting(ask) ==
  IF ask.op \in Voiding THEN {}
  ELSE UNION {(IF Stored(e) THEN Sides(entry[e].draft) ELSE {}) \cup Sides(Wanting(ask, e)) : e \in ask.entries}

(* The accounts whose references an entry write holds: those its rows are  *)
(* stored on and those it moves them to.                                   *)
SidesHeld(ask) ==
  UNION {(IF Stored(e) THEN Sides(entry[e].draft) ELSE {}) \cup Sides(Wanting(ask, e)) : e \in ask.entries}
DuplicateLock(ask) == IF ask.op \in Voiding THEN {} ELSE { <<"duplicates">> }
RowsHeld(ask) == IF ask.op = "create" THEN {} ELSE {"row"} \X ask.entries

(* The locks a request waits for.  They are worked out from the rows as    *)
(* they stand before any lock is held.                                     *)
LocksOf(ask) ==
  IF OnEntries(ask)
  THEN ({"reference"} \X SidesHeld(ask)) \cup DuplicateLock(ask) \cup RowsHeld(ask)
  ELSE {<<"reference", ask.account>>}
         \cup (IF ask.op \in {"opening", "reconcile"} THEN {} ELSE { <<"accounts">> })

(* The order it takes them in: account references sorted by id, the        *)
(* account namespace, the duplicate check, and last the rows, by id.       *)
Level(key) ==
  CASE key[1] = "reference" -> 1
    [] key[1] = "accounts" -> 2
    [] key[1] = "duplicates" -> 3
    [] OTHER -> 4
TakenBefore(k, l) == Level(k) < Level(l) \/ (Level(k) = Level(l) /\ Rank[k[2]] < Rank[l[2]])

-----------------------------------------------------------------------------
(* What a request decides once it holds its locks.                         *)

Unchanged(r) == \A row \in NamedRows(req[r].ask) : version[row] = req[r].saw[row].at
SidesBefore(r, e) == Sides(req[r].before[<<"entry", e>>].says.draft)

(* Entries a file brought have an origin each, and no two have the same:   *)
(* two of them are two entries, however alike.                             *)
OriginsDiffer(x, y) == x # y /\ {x, y} \subseteq Imported

(* Another live entry that looks like d, which e has or is to have.        *)
Alike(d, f) == [d EXCEPT !.refund = FALSE] = [f EXCEPT !.refund = FALSE]
Twins(e, d, except) ==
  {x \in Entries \ except : /\ entry[x].status = "live" /\ Alike(entry[x].draft, d)
                            /\ ~ OriginsDiffer(x, e)}

(* The row an entry of the request is to have, if it is to have another.   *)
NewRow(ask, e) ==
  CASE ask.op = "create" -> Row("live", ask.draft)
    [] ask.op = "update" -> Row(entry[e].status, ask.draft)
    [] ask.op = "editMany" -> Row(entry[e].status, Patched(entry[e].draft, ask.patch))
    [] ask.op = "restore" -> [entry[e] EXCEPT !.status = "live"]
    [] OTHER -> [entry[e] EXCEPT !.status = "deleted"]
Changing(ask) ==
  IF ask.op \in Voiding THEN {e \in ask.entries : entry[e].status = "live"}
  ELSE {e \in ask.entries : NewRow(ask, e) # entry[e]}

(* The duplicate check of single writes, and of a mass edit's selection    *)
(* (mutant: what is restored was in the books before, and is not looked    *)
(* for).                                                                   *)
NoDuplicateUnrestored(ask) ==
  CASE ask.op \in {"create", "update"} ->
         ask.allow \/ \A e \in ask.entries : Twins(e, Wanting(ask, e), {e}) = {}
    [] OTHER -> TRUE

NoDuplicate(ask) ==
  CASE ask.op \in {"create", "update", "restore"} ->
         ask.allow \/ \A e \in ask.entries : Twins(e, Wanting(ask, e), {e}) = {}
    [] ask.op = "editMany" ->
         LET live == {e \in Changing(ask) : entry[e].status = "live"}
         IN  ask.allow \/ \A e \in live :
               /\ Twins(e, Wanting(ask, e), Changing(ask)) = {}
               /\ \A f \in live \ {e} :
                    Alike(Wanting(ask, e), Wanting(ask, f)) => OriginsDiffer(e, f)
    [] OTHER -> TRUE

EntryAllowed(r) ==
  LET ask == req[r].ask
  IN  /\ Unchanged(r)
      /\ Changing(ask) # {}
      /\ NoDuplicate(ask)
      /\ CASE ask.op = "create" -> Preparable(ask.draft, {})
           [] ask.op \in {"update", "restore"} ->
                \A e \in ask.entries : Preparable(Wanting(ask, e), SidesBefore(r, e))
           [] ask.op = "editMany" -> \A e \in ask.entries : Patchable(e, ask.patch)
           [] OTHER -> TRUE

NewAccount(ask) ==
  LET row == account[ask.account]
  IN  CASE ask.op = "archive" -> [row EXCEPT !.status = "archived", !.archivedAt = now]
        [] ask.op = "unarchive" -> [row EXCEPT !.status = "live", !.archivedAt = 0]
        [] ask.op = "opening" -> [row EXCEPT !.opening = ask.opening, !.openingDay = ask.day]
        [] ask.op = "remove" -> Unopened
        [] OTHER -> row

AccountAllowed(r) ==
  LET ask == req[r].ask
      a == ask.account
  IN  /\ Unchanged(r)
      /\ Kept(a)
      /\ CASE ask.op = "remove" -> /\ ~ Archived(a)
                                   /\ EntriesOn(a) = {}
                                   /\ \A e \in Entries : a \notin written[<<"entry", e>>]
           [] ask.op = "reconcile" -> Archived(a)
           [] OTHER -> NewAccount(ask) # account[a]

(* The posting rows that bring the committed sums to what is wanted.       *)
Posting(wants, closing, rows) ==
  LET p == PostedAfter(posted, wants)
      q == PostedAfter(p, Close(p, closing, rows))
      changed == {src \in Sources : q[src] # posted[src]}
  IN  [rows |-> [src \in changed |-> Difference(posted[src], q[src])],
       on   |-> [src \in changed |-> RowsOn(posted[src], p[src]) \cup RowsOn(p[src], q[src])]]

(* Mutant: a void leaves the archived account it came out of as it was.    *)
EntryPostingUnclosed(ask) ==
  LET wants == [src \in {"entry"} \X Changing(ask) |->
                  LET row == NewRow(ask, src[2])
                  IN  IF row.status = "live" THEN PostingsOf(row.draft, account) ELSE Nothing]
  IN  Posting(wants, {}, account)

EntryPosting(ask) ==
  LET wants == [src \in {"entry"} \X Changing(ask) |->
                  LET row == NewRow(ask, src[2])
                  IN  IF row.status = "live" THEN PostingsOf(row.draft, account) ELSE Nothing]
      touched == UNION {RowsOn(posted[src], wants[src]) : src \in DOMAIN wants}
  IN  Posting(wants, IF ask.op = "create" THEN {} ELSE {a \in touched : Archived(a)}, account)

AccountPosting(ask) ==
  LET a == ask.account
      rows == [account EXCEPT ![a] = NewAccount(ask)]
      wants == IF ask.op = "opening" THEN [src \in {<<"opening", a>>} |-> OpeningOf(a, rows[a])] ELSE NoWants
  IN  Posting(wants, {a}, rows)

EntryChange(ask) ==
  [entries |-> [e \in Changing(ask) |-> NewRow(ask, e)], accounts |-> <<>>,
   rows |-> EntryPosting(ask).rows, on |-> EntryPosting(ask).on, gone |-> {}]

AccountChange(ask) ==
  LET a == ask.account
      row == IF ask.op = "reconcile" THEN <<>> ELSE [x \in {a} |-> NewAccount(ask)]
  IN  IF ask.op = "remove"
      THEN [entries |-> <<>>, accounts |-> row, rows |-> <<>>, on |-> <<>>,
            gone |-> {"opening", "closing"} \X {a}]
      ELSE [entries |-> <<>>, accounts |-> row,
            rows |-> AccountPosting(ask).rows, on |-> AccountPosting(ask).on, gone |-> {}]

Allowed(r) == IF OnEntries(req[r].ask) THEN EntryAllowed(r) ELSE AccountAllowed(r)
Change(ask) == IF OnEntries(ask) THEN EntryChange(ask) ELSE AccountChange(ask)

-----------------------------------------------------------------------------
(* The steps of a request.                                                 *)

Tables == <<account, entry, posted, written, now, zone, version>>
Release(r) == lock' = [key \in LockKeys |-> IF lock[key] = r THEN Free ELSE lock[key]]
Ended(r) == [Idle EXCEPT !.at = "done"]

(* A row being created has an id nobody else was given.                    *)
Fresh(r, e) == \A s \in Requests \ {r} : req[s].ask # <<>> /\ OnEntries(req[s].ask) => e \notin req[s].ask.entries

(* A person is shown rows, and asks for something about them.              *)
Submit(r) ==
  /\ req[r].at = "idle"
  /\ \E ask \in May[r] :
       /\ IF OnEntries(ask)
          THEN \A e \in ask.entries : IF ask.op = "create" THEN ~ Stored(e) /\ Fresh(r, e) ELSE Stored(e)
          ELSE Kept(ask.account)
       /\ req' = [req EXCEPT ![r].at = "read", ![r].ask = ask, ![r].saw = Seen(NamedRows(ask))]
  /\ UNCHANGED <<Tables, lock>>

(* The read before any lock: an entry shown at another version is refused, *)
(* and so is one already in the state asked for.                           *)
Read(r) ==
  /\ req[r].at = "read"
  /\ LET ask == req[r].ask
         stale == OnEntries(ask) /\ ~ Unchanged(r)
         idle == \/ ask.op = "delete" /\ \A e \in ask.entries : entry[e].status = "deleted"
                 \/ ask.op = "restore" /\ \A e \in ask.entries : entry[e].status = "live"
     IN  req' = [req EXCEPT ![r] = IF stale \/ idle THEN Ended(r)
                                   ELSE [@ EXCEPT !.at = "lock", !.before = Seen(NamedRows(ask)),
                                                  !.keys = LocksOf(ask)]]
  /\ UNCHANGED <<Tables, lock>>

Lock(r) ==
  /\ req[r].at = "lock"
  /\ \E key \in req[r].keys :
       /\ \A other \in req[r].keys \ {key} : TakenBefore(key, other)
       /\ lock[key] = Free
       /\ lock' = [lock EXCEPT ![key] = r]
       /\ req' = [req EXCEPT ![r].keys = @ \ {key}]
  /\ UNCHANGED Tables

Refuse(r) ==
  /\ req[r].at = "lock" /\ req[r].keys = {}
  /\ ~ Allowed(r)
  /\ req' = [req EXCEPT ![r] = Ended(r)]
  /\ Release(r)
  /\ UNCHANGED Tables

Work(r) ==
  /\ req[r].at = "lock" /\ req[r].keys = {}
  /\ Allowed(r)
  /\ req' = [req EXCEPT ![r].at = "commit", ![r].change = Change(req[r].ask)]
  /\ UNCHANGED <<Tables, lock>>

(* Mutant: restoring leaves the version as it was.                         *)
BumpsEditsOnly(row, c) ==
  \/ row[1] = "entry" /\ row[2] \in DOMAIN c.entries /\ c.entries[row[2]].status # entry[row[2]].status
  \/ row[1] = "account" /\ row[2] \in DOMAIN c.accounts

Bumps(row, c) ==
  \/ row[1] = "entry" /\ row[2] \in DOMAIN c.entries
  \/ row[1] = "account" /\ row[2] \in DOMAIN c.accounts

(* The rows a request wrote appear together, and its locks are let go.     *)
Commit(r) ==
  /\ req[r].at = "commit"
  /\ LET c == req[r].change
     IN  /\ entry' = [e \in Entries |-> IF e \in DOMAIN c.entries THEN c.entries[e] ELSE entry[e]]
         /\ account' = [a \in Accounts |-> IF a \in DOMAIN c.accounts THEN c.accounts[a] ELSE account[a]]
         /\ posted' = [src \in Sources |-> IF src \in c.gone THEN Nothing
                                           ELSE IF src \in DOMAIN c.rows THEN Added(posted[src], c.rows[src])
                                           ELSE posted[src]]
         /\ written' = [src \in Sources |-> IF src \in c.gone THEN {}
                                            ELSE IF src \in DOMAIN c.on THEN written[src] \cup c.on[src]
                                            ELSE written[src]]
         /\ version' = [row \in Rows |-> IF Bumps(row, c) THEN version[row] + 1 ELSE version[row]]
  /\ req' = [req EXCEPT ![r] = Ended(r)]
  /\ Release(r)
  /\ UNCHANGED <<now, zone>>

Serve(r) == Read(r) \/ Lock(r) \/ Refuse(r) \/ Work(r) \/ Commit(r)

(* Books with every account open, some of them archived, and the entries   *)
(* of Existing in them, some of those deleted.                             *)
WInit ==
  /\ now = 1 /\ zone \in Zones
  /\ \E closed \in SUBSET Accounts, drafts \in [Existing -> Drafts],
        status \in [Existing -> {"live", "deleted"}] :
       /\ account = [a \in Accounts |->
                      [Unopened EXCEPT !.status = IF a \in closed THEN "archived" ELSE "live",
                                       !.archivedAt = IF a \in closed THEN now ELSE 0]]
       /\ entry = [e \in Entries |-> IF e \in Existing THEN Row(status[e], drafts[e]) ELSE NoEntry]
       /\ \A e \in Existing : Even(drafts[e])
       /\ LET had == [src \in Sources |-> IF src \in {"entry"} \X Existing
                                          THEN PostingsOf(drafts[src[2]], account) ELSE Nothing]
              p == [src \in Sources |-> IF src[1] = "entry" /\ entry[src[2]].status # "live"
                                        THEN Nothing ELSE had[src]]
          IN  /\ posted = PostedAfter(p, Close(p, closed, account))
              /\ written = [src \in Sources |-> RowsOn(Nothing, had[src]) \cup RowsOn(Nothing, posted[src])]
  /\ version = [row \in Rows |-> 1]
  /\ lock = [key \in LockKeys |-> Free]
  /\ req = [r \in Requests |-> Idle]

WNext == \E r \in Requests : Submit(r) \/ Serve(r)

WSpec == WInit /\ [][WNext]_wvars
-----------------------------------------------------------------------------
(* What the locks and the versions are for.                                *)

(***************************************************************************)
(* Every commit is one of the ledger's own atomic operations on the books  *)
(* as they stood the moment before, however stale what it had read.        *)
(***************************************************************************)
CommitsAreAtomic == [][Next]_vars

(* A request that commits a change to a row changes the row its client was *)
(* shown, field for field, so no edit is lost under another.               *)
NoLostUpdate ==
  [][\A r \in Requests : req[r].at = "commit" /\ req'[r].at = "done" =>
       \A row \in NamedRows(req[r].ask) : RowNow(row) = req[r].saw[row].says]_wvars

(* A request that does not allow duplicates never leaves a live entry with *)
(* a live twin, not even one written at the same moment by a request that  *)
(* does allow them; two entries that files brought under origins of their  *)
(* own are no twins, one of them and one typed by hand are.                *)
NoSilentDuplicate ==
  [][\A r \in Requests :
       (req[r].at = "commit" /\ req'[r].at = "done" /\ OnEntries(req[r].ask) /\ req[r].ask.op \notin Voiding
          /\ ~ req[r].ask.allow)
       => \A e \in DOMAIN req[r].change.entries :
            entry'[e].status = "live" =>
              \A x \in Entries \ {e} :
                entry'[x].status = "live" /\ Alike(entry'[x].draft, entry'[e].draft)
                  => OriginsDiffer(x, e)]_wvars
=============================================================================
