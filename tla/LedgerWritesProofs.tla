-------------------------- MODULE LedgerWritesProofs --------------------------
(***************************************************************************)
(* Proofs about LedgerWrites, for any number of requests, accounts and     *)
(* entries, and whatever the requests ask for: however they interleave,    *)
(* every commit is one of Ledger's atomic operations on the books as they  *)
(* stood the moment before.  What a request decided when it held its locks *)
(* is what it would decide at its commit, because whoever commits between  *)
(* holds other accounts and other rows.                                    *)
(***************************************************************************)
EXTENDS LedgerProofs, LedgerWrites

-------------------------------------------------------------------------------
(* What may be asked.                                                      *)

EntryOps == {"create", "update", "restore", "delete", "deleteMany", "editMany"}
AccountOps == {"archive", "unarchive", "remove", "reconcile", "opening"}

LEMMA AskIs ==
  ASSUME NEW ask \in Asks
  PROVE  /\ ask # <<>>
         /\ OnEntries(ask) <=> ask.op \in EntryOps
         /\ ~ OnEntries(ask) <=> ask.op \in AccountOps
         /\ OnEntries(ask) => ask.entries \in SUBSET Entries
         /\ ~ OnEntries(ask) => ask.account \in Accounts
         /\ ask.op \in {"create", "update", "restore", "delete"}
              => \E e \in Entries : ask.entries = {e}
         /\ ask.op \in {"create", "update"} => ask.draft \in Drafts
         /\ ask.op = "editMany" => ask.patch \in Patches
         /\ ask.op = "opening" => ask.opening \in Openings /\ ask.day \in Days
<1>1. CASE ask \in [op : {"create", "update"}, entries : Single, draft : Drafts, allow : BOOLEAN]
  <2>1. DOMAIN ask = {"op", "entries", "draft", "allow"}
    BY <1>1
  <2>2. ask.entries \in Single /\ ask.draft \in Drafts /\ ask.op \in {"create", "update"}
    BY <1>1
  <2> QED
    BY <2>1, <2>2 DEF Single, OnEntries, EntryOps, AccountOps
<1>2. CASE ask \in [op : {"restore"}, entries : Single, allow : BOOLEAN]
  <2>1. DOMAIN ask = {"op", "entries", "allow"}
    BY <1>2
  <2>2. ask.entries \in Single /\ ask.op = "restore"
    BY <1>2
  <2> QED
    BY <2>1, <2>2 DEF Single, OnEntries, EntryOps, AccountOps
<1>3. CASE ask \in [op : {"delete"}, entries : Single]
  <2>1. DOMAIN ask = {"op", "entries"}
    BY <1>3
  <2>2. ask.entries \in Single /\ ask.op = "delete"
    BY <1>3
  <2> QED
    BY <2>1, <2>2 DEF Single, OnEntries, EntryOps, AccountOps
<1>4. CASE ask \in [op : {"deleteMany"}, entries : Selections]
  <2>1. DOMAIN ask = {"op", "entries"}
    BY <1>4
  <2>2. ask.entries \in Selections /\ ask.op = "deleteMany"
    BY <1>4
  <2> QED
    BY <2>1, <2>2 DEF Selections, OnEntries, EntryOps, AccountOps
<1>5. CASE ask \in [op : {"editMany"}, entries : Selections, patch : Patches, allow : BOOLEAN]
  <2>1. DOMAIN ask = {"op", "entries", "patch", "allow"}
    BY <1>5
  <2>2. ask.entries \in Selections /\ ask.op = "editMany" /\ ask.patch \in Patches
    BY <1>5
  <2> QED
    BY <2>1, <2>2 DEF Selections, OnEntries, EntryOps, AccountOps
<1>6. CASE ask \in [op : {"archive", "unarchive", "remove", "reconcile"}, account : Accounts]
  <2>1. DOMAIN ask = {"op", "account"}
    BY <1>6
  <2>2. ask.account \in Accounts /\ ask.op \in {"archive", "unarchive", "remove", "reconcile"}
    BY <1>6
  <2> QED
    BY <2>1, <2>2 DEF OnEntries, EntryOps, AccountOps
<1>7. CASE ask \in [op : {"opening"}, account : Accounts, opening : Openings, day : Days]
  <2>1. DOMAIN ask = {"op", "account", "opening", "day"}
    BY <1>7
  <2>2. ask.account \in Accounts /\ ask.opening \in Openings /\ ask.day \in Days /\ ask.op = "opening"
    BY <1>7
  <2> QED
    BY <2>1, <2>2 DEF OnEntries, EntryOps, AccountOps
<1> QED
  BY <1>1, <1>2, <1>3, <1>4, <1>5, <1>6, <1>7 DEF Asks

(* What an entry write wants of each of its rows, and on which accounts.   *)
LEMMA WantingIs ==
  ASSUME TypeOK, NEW ask \in Asks, OnEntries(ask), NEW e \in ask.entries
  PROVE  /\ WellFormed(Wanting(ask, e))
         /\ Sides(Wanting(ask, e)) \subseteq SidesHeld(ask)
         /\ Stored(e) => Sides(entry[e].draft) \subseteq SidesHeld(ask)
<1>1. e \in Entries /\ ask.op \in EntryOps
  BY AskIs
<1>2. WellFormed(Wanting(ask, e))
  <2>1. CASE ask.op \in {"create", "update"}
    <3>1. Wanting(ask, e) = ask.draft /\ ask.draft \in Drafts
      BY <2>1, AskIs DEF Wanting
    <3> QED
      BY <3>1, LedgerAssumption
  <2>2. CASE ask.op = "editMany"
    <3>1. Wanting(ask, e) = Patched(entry[e].draft, ask.patch) /\ ask.patch \in Patches
      BY <2>2, AskIs DEF Wanting
    <3> QED
      BY <1>1, <3>1, PatchedIs
  <2>3. CASE ask.op \in {"restore", "delete", "deleteMany"}
    <3>1. Wanting(ask, e) = entry[e].draft
      BY <2>3 DEF Wanting
    <3> QED
      BY <1>1, <3>1 DEF TypeOK
  <2> QED
    BY <1>1, <2>1, <2>2, <2>3 DEF EntryOps
<1> QED
  BY <1>2 DEF SidesHeld

LEMMA SidesHeldAreAccounts ==
  ASSUME TypeOK, NEW ask \in Asks, OnEntries(ask)
  PROVE  SidesHeld(ask) \subseteq Accounts
<1>1. \A d : WellFormed(d) => Sides(d) \subseteq Accounts
  BY DEF WellFormed, Sides
<1>2. \A e \in ask.entries : e \in Entries /\ WellFormed(entry[e].draft)
  BY AskIs DEF TypeOK
<1>3. \A e \in ask.entries : Sides(Wanting(ask, e)) \subseteq Accounts
  BY <1>1, WantingIs
<1> QED
  BY <1>1, <1>2, <1>3 DEF SidesHeld

LEMMA NewRowIs ==
  ASSUME TypeOK, NEW ask \in Asks, OnEntries(ask), NEW e \in ask.entries
  PROVE  /\ NewRow(ask, e).draft = Wanting(ask, e)
         /\ NewRow(ask, e).status
              = CASE ask.op \in {"create", "restore"} -> "live"
                  [] ask.op \in {"update", "editMany"} -> entry[e].status
                  [] OTHER -> "deleted"
<1>1. e \in Entries /\ ask.op \in EntryOps
  BY AskIs
<1>2. \A status, d : Row(status, d).draft = d /\ Row(status, d).status = status
  BY DEF Row
<1>3. /\ [entry[e] EXCEPT !.status = "live"].draft = entry[e].draft
      /\ [entry[e] EXCEPT !.status = "live"].status = "live"
      /\ [entry[e] EXCEPT !.status = "deleted"].draft = entry[e].draft
      /\ [entry[e] EXCEPT !.status = "deleted"].status = "deleted"
  BY <1>1 DEF TypeOK
<1>4. CASE ask.op = "create"
  BY <1>2, <1>4 DEF NewRow, Wanting
<1>5. CASE ask.op = "update"
  BY <1>2, <1>5 DEF NewRow, Wanting
<1>6. CASE ask.op = "editMany"
  BY <1>2, <1>6 DEF NewRow, Wanting
<1>7. CASE ask.op = "restore"
  BY <1>3, <1>7 DEF NewRow, Wanting
<1>8. CASE ask.op \in {"delete", "deleteMany"}
  BY <1>3, <1>8 DEF NewRow, Wanting
<1> QED
  BY <1>1, <1>4, <1>5, <1>6, <1>7, <1>8 DEF EntryOps

-------------------------------------------------------------------------------
(* What a commit writes.  The rows of differences add up to a settlement.  *)

Writes(c) ==
  /\ posted' = [src \in Sources |-> IF src \in DOMAIN c.rows THEN Added(posted[src], c.rows[src])
                                    ELSE posted[src]]
  /\ written' = [src \in Sources |-> IF src \in DOMAIN c.on THEN written[src] \cup c.on[src]
                                     ELSE written[src]]

LEMMA NoRowsOnSame == ASSUME NEW x \in Slot PROVE RowsOn(x, x) = {}
<1>1. ASSUME NEW a \in Accounts, NEW day \in Days
      PROVE  Difference(x, x)[<<a, day>>] = 0
  <2>1. <<a, day>> \in Slots
    BY SlotsAre
  <2>2. x[<<a, day>>] \in Int
    BY <2>1 DEF Slot
  <2>3. Difference(x, x)[<<a, day>>] = x[<<a, day>>] - x[<<a, day>>]
    BY <2>1 DEF Difference
  <2>4. \A n \in Int : n - n = 0
    OBVIOUS
  <2> QED
    BY <2>2, <2>3, <2>4
<1> QED
  BY <1>1 DEF RowsOn

LEMMA DifferenceAdds ==
  ASSUME NEW have \in Slot, NEW want \in Slot
  PROVE  Added(have, Difference(have, want)) = want
<1>1. \A slot \in Slots : have[slot] + (want[slot] - have[slot]) = want[slot]
  BY DEF Slot
<1>2. want = [slot \in Slots |-> want[slot]]
  BY DEF Slot
<1> QED
  BY <1>1, <1>2 DEF Added, Difference

LEMMA PostingSettles ==
  ASSUME TypeOK, NEW wants, DOMAIN wants \subseteq NotClosing,
         \A src \in DOMAIN wants : wants[src] \in Slot,
         NEW closing \in SUBSET Accounts, NEW rows, \A a \in closing : Closable(rows[a]),
         Writes(Posting(wants, closing, rows))
  PROVE  Settle(wants, closing, rows)
<1> DEFINE p == PostedAfter(posted, wants)
           cls == Close(p, closing, rows)
           q == PostedAfter(p, cls)
           changed == {src \in Sources : q[src] # posted[src]}
           w == WrittenAfter(written, posted, wants)
           v == WrittenAfter(w, p, cls)
<1>1. posted \in Postings /\ written \in [Sources -> SUBSET Accounts]
  BY DEF TypeOK, Postings, Slot
<1>2. p = [src \in Sources |-> IF src \in DOMAIN wants THEN wants[src] ELSE posted[src]]
  BY <1>1, PostedIs
<1>3. p \in Postings
  BY <1>1, <1>2 DEF Postings
<1> HIDE DEF p
<1>4. /\ DOMAIN cls = {"closing"} \X closing
      /\ \A src \in DOMAIN cls : cls[src] \in Slot /\ src \notin NotClosing
  <2>1. \A a \in closing : ClosingWanted(p, a, rows[a]) \in Slot
    BY <1>3, ClosingIs
  <2> QED
    BY <2>1 DEF Close, NotClosing
<1> HIDE DEF cls
<1>5. q = [src \in Sources |-> IF src \in DOMAIN cls THEN cls[src] ELSE p[src]]
  BY <1>3, <1>4, PostedIs
<1>6. q \in Postings
  BY <1>3, <1>4, <1>5 DEF Postings
<1> HIDE DEF q
<1>7. /\ Posting(wants, closing, rows).rows = [src \in changed |-> Difference(posted[src], q[src])]
      /\ Posting(wants, closing, rows).on
           = [src \in changed |-> RowsOn(posted[src], p[src]) \cup RowsOn(p[src], q[src])]
  BY DEF Posting, p, cls, q
<1>8. posted' = [src \in Sources |-> IF src \in changed
                                     THEN Added(posted[src], Difference(posted[src], q[src]))
                                     ELSE posted[src]]
  BY <1>7 DEF Writes
<1>9. written' = [src \in Sources |-> IF src \in changed
                                      THEN written[src] \cup (RowsOn(posted[src], p[src])
                                                                \cup RowsOn(p[src], q[src]))
                                      ELSE written[src]]
  BY <1>7 DEF Writes
<1>10. posted' = q
  <2>1. \A src \in Sources : Added(posted[src], Difference(posted[src], q[src])) = q[src]
    BY <1>1, <1>6, DifferenceAdds DEF Postings
  <2>2. q = [src \in Sources |-> q[src]]
    BY <1>6 DEF Postings
  <2> QED
    BY <1>8, <2>1, <2>2
<1>11. \A src \in Sources : src \in DOMAIN wants =>
         p[src] = wants[src] /\ q[src] = wants[src] /\ src \notin DOMAIN cls
  BY <1>2, <1>4, <1>5
<1>12. \A src \in Sources : src \in DOMAIN cls =>
         p[src] = posted[src] /\ q[src] = cls[src] /\ src \notin DOMAIN wants
  BY <1>2, <1>4, <1>5
<1>13. \A src \in Sources : src \notin DOMAIN wants /\ src \notin DOMAIN cls =>
         p[src] = posted[src] /\ q[src] = posted[src]
  BY <1>2, <1>5
<1>14. \A src \in Sources : posted[src] \in Slot /\ q[src] \in Slot
  BY <1>1, <1>6 DEF Postings
<1>15. \A src \in Sources :
         /\ w[src] = IF src \in DOMAIN wants THEN written[src] \cup RowsOn(posted[src], wants[src])
                     ELSE written[src]
         /\ v[src] = IF src \in DOMAIN cls THEN w[src] \cup RowsOn(p[src], cls[src]) ELSE w[src]
  BY DEF WrittenAfter
<1>16. v = [src \in Sources |-> v[src]]
  BY DEF WrittenAfter
<1> HIDE DEF w, v
<1>17. \A src \in Sources : written'[src] = v[src]
  <2> SUFFICES ASSUME NEW src \in Sources PROVE written'[src] = v[src]
    OBVIOUS
  <2>1. RowsOn(posted[src], posted[src]) = {} /\ RowsOn(q[src], q[src]) = {}
    BY <1>14, NoRowsOnSame
  <2>2. CASE src \in DOMAIN wants
    BY <1>9, <1>11, <1>15, <2>1, <2>2
  <2>3. CASE src \in DOMAIN cls
    BY <1>9, <1>12, <1>15, <2>1, <2>3
  <2>4. CASE src \notin DOMAIN wants /\ src \notin DOMAIN cls
    BY <1>9, <1>13, <1>15, <2>4
  <2> QED
    BY <2>2, <2>3, <2>4
<1>18. written' = v
  BY <1>9, <1>16, <1>17
<1> QED
  BY <1>10, <1>18 DEF Settle, p, cls, q, w, v

-------------------------------------------------------------------------------
(* What an entry write leaves.                                             *)

EntryWants(ask) == [src \in {"entry"} \X Changing(ask) |-> Says(NewRow(ask, src[2]), account)]
EntryClosing(ask) ==
  IF ask.op = "create" THEN {}
  ELSE {a \in UNION {RowsOn(posted[src], EntryWants(ask)[src]) : src \in {"entry"} \X Changing(ask)} :
          Archived(a)}

LEMMA EntryPostingIs ==
  ASSUME NEW ask
  PROVE  EntryPosting(ask) = Posting(EntryWants(ask), EntryClosing(ask), account)
BY DEF EntryPosting, EntryWants, EntryClosing, Says

LEMMA EntryWantsAre ==
  ASSUME TypeOK, NEW ask \in Asks, OnEntries(ask)
  PROVE  /\ DOMAIN EntryWants(ask) = {"entry"} \X Changing(ask)
         /\ DOMAIN EntryWants(ask) \subseteq NotClosing
         /\ \A e \in Changing(ask) :
              /\ e \in ask.entries /\ e \in Entries
              /\ EntryWants(ask)[<<"entry", e>>] = Says(NewRow(ask, e), account)
         /\ \A src \in DOMAIN EntryWants(ask) : EntryWants(ask)[src] \in Slot
         /\ EntryClosing(ask) \in SUBSET Accounts
         /\ \A a \in EntryClosing(ask) : Archived(a)
<1>1. /\ DOMAIN EntryWants(ask) = {"entry"} \X Changing(ask)
      /\ \A e \in Changing(ask) : EntryWants(ask)[<<"entry", e>>] = Says(NewRow(ask, e), account)
  BY DEF EntryWants
<1>2. \A e \in Changing(ask) : e \in ask.entries /\ e \in Entries
  BY AskIs DEF Changing
<1>3. \A e \in Changing(ask) : Says(NewRow(ask, e), account) \in Slot
  <2> TAKE e \in Changing(ask)
  <2>1. WellFormed(NewRow(ask, e).draft)
    BY <1>2, WantingIs, NewRowIs
  <2> QED
    BY <2>1, ClosableRows, SaysIs
<1>4. \A src \in DOMAIN EntryWants(ask) : \E e \in Changing(ask) : src = <<"entry", e>>
  BY <1>1
<1>5. /\ DOMAIN EntryWants(ask) \subseteq NotClosing
      /\ \A src \in DOMAIN EntryWants(ask) : EntryWants(ask)[src] \in Slot
  BY <1>1, <1>2, <1>3, <1>4, SourcesAre
<1>6. EntryClosing(ask) \in SUBSET Accounts /\ \A a \in EntryClosing(ask) : Archived(a)
  BY DEF EntryClosing, RowsOn
<1> QED
  BY <1>1, <1>2, <1>5, <1>6

EntryWritten(ask) ==
  /\ entry' = [e \in Entries |-> IF e \in Changing(ask) THEN NewRow(ask, e) ELSE entry[e]]
  /\ UNCHANGED <<account, now, zone>>
  /\ Settle(EntryWants(ask), EntryClosing(ask), account)

(* The commit of what was decided just now writes exactly that.            *)
LEMMA EntryCommits ==
  ASSUME TypeOK, NEW r \in Requests, NEW ask \in Asks, OnEntries(ask),
         req[r].change = EntryChange(ask), Commit(r)
  PROVE  EntryWritten(ask)
<1> DEFINE c == EntryChange(ask)
<1>1. /\ c.entries = [e \in Changing(ask) |-> NewRow(ask, e)]
      /\ c.accounts = <<>> /\ c.gone = {}
      /\ c.rows = EntryPosting(ask).rows /\ c.on = EntryPosting(ask).on
  BY DEF EntryChange
<1>2. DOMAIN c.accounts = {}
  BY <1>1
<1>3. /\ entry' = [e \in Entries |-> IF e \in DOMAIN c.entries THEN c.entries[e] ELSE entry[e]]
      /\ account' = [a \in Accounts |-> IF a \in DOMAIN c.accounts THEN c.accounts[a] ELSE account[a]]
      /\ posted' = [src \in Sources |-> IF src \in c.gone THEN Nothing
                                        ELSE IF src \in DOMAIN c.rows THEN Added(posted[src], c.rows[src])
                                        ELSE posted[src]]
      /\ written' = [src \in Sources |-> IF src \in c.gone THEN {}
                                         ELSE IF src \in DOMAIN c.on THEN written[src] \cup c.on[src]
                                         ELSE written[src]]
      /\ UNCHANGED <<now, zone>>
  BY DEF Commit
<1> HIDE DEF c
<1>4. DOMAIN c.entries = Changing(ask) /\ \A e \in Changing(ask) : c.entries[e] = NewRow(ask, e)
  BY <1>1
<1>5. entry' = [e \in Entries |-> IF e \in Changing(ask) THEN NewRow(ask, e) ELSE entry[e]]
  BY <1>3, <1>4
<1>6. account' = account
  BY <1>2, <1>3 DEF TypeOK
<1>7. Writes(c)
  BY <1>1, <1>3 DEF Writes
<1>8. Writes(EntryPosting(ask))
  BY <1>1, <1>7 DEF Writes
<1>9. Writes(Posting(EntryWants(ask), EntryClosing(ask), account))
  BY <1>8, EntryPostingIs
<1>10. Settle(EntryWants(ask), EntryClosing(ask), account)
  BY <1>9, EntryWantsAre, ClosableRows, PostingSettles
<1> QED
  BY <1>3, <1>5, <1>6, <1>10 DEF EntryWritten
(* Which of Ledger's own actions that is.  An entry being created is not   *)
(* stored yet, any other one is, and the sides a request remembers of it   *)
(* are those it is stored on.                                              *)
Placed(r, ask) ==
  /\ ask.op = "create" <=> \E e \in ask.entries : ~ Stored(e)
  /\ ask.op # "create" => \A e \in ask.entries : SidesBefore(r, e) = Sides(entry[e].draft)

LEMMA CreateIsAtomic ==
  ASSUME TypeOK, NEW r, NEW ask \in Asks, ask = req[r].ask, ask.op = "create",
         EntryAllowed(r), Placed(r, ask), EntryWritten(ask)
  PROVE  EntryStep
<1>1. PICK e \in Entries : ask.entries = {e}
  BY AskIs
<1>2. ask.draft \in Drafts /\ ~ Stored(e) /\ Preparable(ask.draft, {}) /\ Changing(ask) = {e}
  <2>1. OnEntries(ask)
    BY AskIs DEF EntryOps
  <2>2. Changing(ask) \subseteq {e} /\ Changing(ask) # {}
    BY <1>1, <2>1 DEF EntryAllowed, Changing
  <2> QED
    BY <1>1, <2>2, AskIs DEF EntryAllowed, Placed
<1>3. NewRow(ask, e) = Row("live", ask.draft)
  BY DEF NewRow
<1>4. entry' = [entry EXCEPT ![e] = Row("live", ask.draft)]
  BY <1>2, <1>3 DEF EntryWritten, TypeOK
<1>5. EntryWants(ask) = [src \in {<<"entry", e>>} |-> PostingsOf(ask.draft, account)]
  <2>1. {"entry"} \X {e} = {<<"entry", e>>}
    OBVIOUS
  <2>2. Says(NewRow(ask, e), account) = PostingsOf(ask.draft, account)
    BY <1>3 DEF Says, Row
  <2> QED
    BY <1>2, <2>1, <2>2 DEF EntryWants
<1>6. Settle([src \in {<<"entry", e>>} |-> PostingsOf(ask.draft, account)], {}, account)
  BY <1>5 DEF EntryWritten, EntryClosing
<1>7. CreateEntry(e, ask.draft)
  BY <1>2, <1>4, <1>6 DEF CreateEntry, EntryWritten
<1> QED
  BY <1>2, <1>7 DEF EntryStep

LEMMA UpdateIsAtomic ==
  ASSUME TypeOK, NEW r, NEW ask \in Asks, ask = req[r].ask, ask.op = "update",
         EntryAllowed(r), Placed(r, ask), EntryWritten(ask)
  PROVE  EntryStep
<1>1. PICK e \in Entries : ask.entries = {e}
  BY AskIs
<1>2. NewRow(ask, e) = Row(entry[e].status, ask.draft) /\ Wanting(ask, e) = ask.draft
  BY DEF NewRow, Wanting
<1>3. /\ ask.draft \in Drafts /\ Stored(e) /\ Preparable(ask.draft, Sides(entry[e].draft))
      /\ Changing(ask) = {e} /\ Row(entry[e].status, ask.draft) # entry[e]
  <2>1. OnEntries(ask)
    BY AskIs DEF EntryOps
  <2>2. Changing(ask) \subseteq {e} /\ Changing(ask) # {} /\ (e \in Changing(ask) => NewRow(ask, e) # entry[e])
    BY <1>1, <2>1 DEF EntryAllowed, Changing, Voiding
  <2> QED
    BY <1>1, <1>2, <2>2, AskIs DEF EntryAllowed, Placed
<1>4. entry' = [entry EXCEPT ![e] = Row(entry[e].status, ask.draft)]
  BY <1>2, <1>3 DEF EntryWritten, TypeOK
<1> DEFINE wants == [src \in {"entry"} \X {e} |-> IF entry[src[2]].status = "deleted" THEN Nothing
                                                ELSE PostingsOf(ask.draft, account)]
<1>5. EntryWants(ask) = wants
  <2>1. entry[e].status \in {"live", "deleted"}
    BY <1>3 DEF TypeOK, Stored
  <2>2. Says(NewRow(ask, e), account) = IF entry[e].status = "deleted" THEN Nothing
                                        ELSE PostingsOf(ask.draft, account)
    BY <1>2, <2>1 DEF Says, Row
  <2> QED
    BY <1>3, <2>2 DEF EntryWants
<1>6. Settle(wants, {a \in UNION {RowsOn(posted[src], wants[src]) : src \in {"entry"} \X {e}} :
                       Archived(a)}, account)
  BY <1>3, <1>5 DEF EntryWritten, EntryClosing
<1>7. RepostEntries({e}, LAMBDA x : IF entry[x].status = "deleted" THEN Nothing
                                    ELSE PostingsOf(ask.draft, account))
  BY <1>6 DEF RepostEntries
<1>8. UpdateEntry(e, ask.draft)
  BY <1>3, <1>4, <1>7 DEF UpdateEntry, EntryWritten
<1> QED
  BY <1>3, <1>8 DEF EntryStep

LEMMA RestoreIsAtomic ==
  ASSUME TypeOK, NEW r, NEW ask \in Asks, ask = req[r].ask, ask.op = "restore",
         EntryAllowed(r), Placed(r, ask), EntryWritten(ask)
  PROVE  EntryStep
<1>1. PICK e \in Entries : ask.entries = {e}
  BY AskIs
<1>2. NewRow(ask, e) = [entry[e] EXCEPT !.status = "live"] /\ Wanting(ask, e) = entry[e].draft
  BY DEF NewRow, Wanting
<1>3. /\ Stored(e) /\ Preparable(entry[e].draft, Sides(entry[e].draft))
      /\ Changing(ask) = {e} /\ NewRow(ask, e) # entry[e]
  <2>1. OnEntries(ask)
    BY AskIs DEF EntryOps
  <2>2. Changing(ask) \subseteq {e} /\ Changing(ask) # {} /\ (e \in Changing(ask) => NewRow(ask, e) # entry[e])
    BY <1>1, <2>1 DEF EntryAllowed, Changing, Voiding
  <2> QED
    BY <1>1, <1>2, <2>2, AskIs DEF EntryAllowed, Placed
<1>4. entry[e].status = "deleted"
  <2>1. entry[e].status = "live" => [entry[e] EXCEPT !.status = "live"] = entry[e]
    BY DEF TypeOK
  <2> QED
    BY <1>2, <1>3, <2>1 DEF TypeOK, Stored
<1>5. entry' = [entry EXCEPT ![e].status = "live"]
  BY <1>2, <1>3 DEF EntryWritten, TypeOK
<1> DEFINE wants == [src \in {"entry"} \X {e} |-> PostingsOf(entry[src[2]].draft, account)]
<1>6. EntryWants(ask) = wants
  <2>1. NewRow(ask, e).status = "live" /\ NewRow(ask, e).draft = entry[e].draft
    BY <1>2 DEF TypeOK
  <2>2. Says(NewRow(ask, e), account) = PostingsOf(entry[e].draft, account)
    BY <2>1 DEF Says
  <2> QED
    BY <1>3, <2>2 DEF EntryWants
<1>7. Settle(wants, {a \in UNION {RowsOn(posted[src], wants[src]) : src \in {"entry"} \X {e}} :
                       Archived(a)}, account)
  BY <1>3, <1>6 DEF EntryWritten, EntryClosing
<1>8. RepostEntries({e}, LAMBDA x : PostingsOf(entry[x].draft, account))
  BY <1>7 DEF RepostEntries
<1>9. RestoreEntry(e)
  BY <1>3, <1>4, <1>5, <1>8 DEF RestoreEntry, EntryWritten
<1> QED
  BY <1>9 DEF EntryStep

LEMMA VoidIsAtomic ==
  ASSUME TypeOK, NEW r, NEW ask \in Asks, ask = req[r].ask, ask.op \in Voiding,
         EntryAllowed(r), Placed(r, ask), EntryWritten(ask)
  PROVE  EntryStep
<1> DEFINE es == {e \in ask.entries : entry[e].status = "live"}
<1>1. OnEntries(ask) /\ ask.entries \in SUBSET Entries
  BY AskIs DEF EntryOps, Voiding
<1>2. Changing(ask) = es /\ es # {} /\ \A e \in ask.entries : Stored(e)
  BY DEF EntryAllowed, Changing, Placed, Voiding
<1>3. \A e \in es : NewRow(ask, e) = [entry[e] EXCEPT !.status = "deleted"]
  BY DEF NewRow, Voiding
<1>4. entry' = [e \in Entries |-> IF e \in es THEN [entry[e] EXCEPT !.status = "deleted"] ELSE entry[e]]
  BY <1>2, <1>3 DEF EntryWritten
<1> DEFINE wants == [src \in {"entry"} \X es |-> Nothing]
<1>5. EntryWants(ask) = wants
  <2>1. \A e \in es : Says(NewRow(ask, e), account) = Nothing
    <3> TAKE e \in es
    <3>1. NewRow(ask, e).status = "deleted"
      BY <1>1, <1>3 DEF TypeOK
    <3> QED
      BY <3>1 DEF Says
  <2>2. \A src \in {"entry"} \X es : Says(NewRow(ask, src[2]), account) = Nothing
    BY <2>1
  <2> HIDE DEF es
  <2> QED
    BY <1>2, <2>2 DEF EntryWants
<1>6. Settle(wants, {a \in UNION {RowsOn(posted[src], wants[src]) : src \in {"entry"} \X es} :
                       Archived(a)}, account)
  BY <1>2, <1>5 DEF EntryWritten, EntryClosing, Voiding
<1>7. RepostEntries(es, LAMBDA e : Nothing)
  BY <1>6 DEF RepostEntries
<1>8. DeleteEntries(ask.entries)
  BY <1>1, <1>2, <1>4, <1>7 DEF DeleteEntries, EntryWritten
<1> QED
  BY <1>1, <1>8 DEF EntryStep

LEMMA EditIsAtomic ==
  ASSUME TypeOK, NEW r, NEW ask \in Asks, ask = req[r].ask, ask.op = "editMany",
         EntryAllowed(r), Placed(r, ask), EntryWritten(ask)
  PROVE  EntryStep
<1> DEFINE edited(e) == Row(entry[e].status, Patched(entry[e].draft, ask.patch))
<1> DEFINE es == {e \in ask.entries : edited(e) # entry[e]}
<1>1. OnEntries(ask) /\ ask.entries \in SUBSET Entries /\ ask.patch \in Patches
  BY AskIs DEF EntryOps
<1>2. \A e \in ask.entries : NewRow(ask, e) = edited(e)
  BY DEF NewRow
<1>3. /\ Changing(ask) = es /\ es # {}
      /\ \A e \in ask.entries : Stored(e) /\ Patchable(e, ask.patch)
  <2>1. Changing(ask) = {e \in ask.entries : NewRow(ask, e) # entry[e]}
    BY DEF Changing, Voiding
  <2>2. Changing(ask) = es
    BY <1>2, <2>1
  <2> HIDE DEF es
  <2> QED
    BY <1>1, <2>2 DEF EntryAllowed, Placed
<1>4. \A e \in es : NewRow(ask, e) = edited(e) /\ e \in ask.entries
  BY <1>2
<1>5. entry' = [e \in Entries |-> IF e \in es THEN edited(e) ELSE entry[e]]
  <2> HIDE DEF es, edited
  <2> QED
    BY <1>3, <1>4 DEF EntryWritten
<1> DEFINE wants == [src \in {"entry"} \X es |-> IF entry[src[2]].status = "deleted" THEN Nothing
                                               ELSE PostingsOf(edited(src[2]).draft, account)]
<1>6. EntryWants(ask) = wants
  <2>1. \A e \in es : Says(NewRow(ask, e), account) = IF entry[e].status = "deleted" THEN Nothing
                                                      ELSE PostingsOf(edited(e).draft, account)
    <3> TAKE e \in es
    <3>1. entry[e].status \in {"live", "deleted"}
      BY <1>1, <1>3, <1>4 DEF TypeOK, Stored
    <3>2. edited(e).status = entry[e].status
      BY DEF Row
    <3> QED
      BY <1>4, <3>1, <3>2 DEF Says
  <2> HIDE DEF es, edited
  <2> QED
    BY <1>3, <2>1 DEF EntryWants
<1>7. Settle(wants, {a \in UNION {RowsOn(posted[src], wants[src]) : src \in {"entry"} \X es} :
                       Archived(a)}, account)
  <2> HIDE DEF es, wants
  <2> QED
    BY <1>3, <1>6 DEF EntryWritten, EntryClosing
<1>8. RepostEntries(es, LAMBDA e : IF entry[e].status = "deleted" THEN Nothing
                                   ELSE PostingsOf(edited(e).draft, account))
  BY <1>7 DEF RepostEntries
<1>9. EditEntries(ask.entries, ask.patch)
  BY <1>1, <1>3, <1>5, <1>8 DEF EditEntries, EntryWritten
<1> QED
  BY <1>1, <1>9 DEF EntryStep

LEMMA EntryWriteIsAtomic ==
  ASSUME TypeOK, NEW r, NEW ask \in Asks, ask = req[r].ask, OnEntries(ask),
         EntryAllowed(r), Placed(r, ask), EntryWritten(ask)
  PROVE  EntryStep
<1>1. ask.op \in EntryOps
  BY AskIs
<1> QED
  BY <1>1, CreateIsAtomic, UpdateIsAtomic, RestoreIsAtomic, VoidIsAtomic, EditIsAtomic
     DEF EntryOps, Voiding
-------------------------------------------------------------------------------
(* What an account write leaves, and which of Ledger's actions that is.    *)

AccountWants(ask) ==
  IF ask.op = "opening"
  THEN [src \in {<<"opening", ask.account>>} |-> OpeningOf(ask.account, NewAccount(ask))]
  ELSE NoWants
NewAccounts(ask) == [account EXCEPT ![ask.account] = NewAccount(ask)]

LEMMA AccountPostingIs ==
  ASSUME TypeOK, NEW ask \in Asks, ~ OnEntries(ask)
  PROVE  AccountPosting(ask) = Posting(AccountWants(ask), {ask.account}, NewAccounts(ask))
<1>1. NewAccounts(ask)[ask.account] = NewAccount(ask)
  BY AskIs DEF NewAccounts, TypeOK
<1> QED
  BY <1>1 DEF AccountPosting, AccountWants, NewAccounts

(* No time passes while the requests are served, so whatever is archived   *)
(* was archived now; what is not carries no archive instant.               *)
Tidy ==
  \A a \in Accounts : account[a].archivedAt = IF Archived(a) THEN now ELSE 0

LEMMA NewAccountIs ==
  ASSUME TypeOK, NEW ask \in Asks, ~ OnEntries(ask), Kept(ask.account) \/ ask.op = "remove"
  PROVE  /\ NewAccount(ask) \in AccountRows
         /\ NewAccount(ask).status # "none" \/ ask.op = "remove"
         /\ NewAccount(ask).status = "archived" => NewAccount(ask).archivedAt \in Instants
         /\ ask.op # "remove" => NewAccount(ask).currency = account[ask.account].currency
         /\ Closable(NewAccount(ask))
<1> DEFINE a == ask.account
           row == account[a]
<1>1. a \in Accounts /\ ask.op \in AccountOps
  BY AskIs
<1>2. /\ row \in AccountRows /\ now \in Instants /\ now \in Nat /\ zone \in Zones
      /\ row.status = "archived" => row.archivedAt \in Instants
      /\ Kept(a) => row.status # "none"
  BY <1>1 DEF TypeOK, AccountRows, Instants, Days, Archived, Kept
<1> HIDE DEF row
<1>3. CASE ask.op = "archive"
  <2>1. NewAccount(ask) = [row EXCEPT !.status = "archived", !.archivedAt = now]
    BY <1>3 DEF NewAccount, row
  <2>2. /\ NewAccount(ask) \in AccountRows /\ NewAccount(ask).status = "archived"
        /\ NewAccount(ask).archivedAt = now /\ NewAccount(ask).currency = row.currency
        /\ row.currency \in Currencies
    BY <1>2, <2>1 DEF AccountRows
  <2>3. CalendarDay(now, zone) \in Days
    BY <1>2 DEF Instants, CalendarDay
  <2> QED
    BY <1>2, <1>3, <2>2, <2>3 DEF row, Closable
<1>4. CASE ask.op = "unarchive"
  <2>1. NewAccount(ask) = [row EXCEPT !.status = "live", !.archivedAt = 0]
    BY <1>4 DEF NewAccount, row
  <2>2. /\ NewAccount(ask) \in AccountRows /\ NewAccount(ask).status = "live"
        /\ NewAccount(ask).currency = row.currency /\ row.currency \in Currencies
    <3> DEFINE Reopened(x, n) == [x EXCEPT !.status = "live", !.archivedAt = n]
    <3>1. \A n \in Nat : \A x \in AccountRows :
            /\ Reopened(x, n) \in AccountRows /\ Reopened(x, n).status = "live"
            /\ Reopened(x, n).currency = x.currency /\ x.currency \in Currencies
      BY DEF AccountRows
    <3>2. NewAccount(ask) = Reopened(row, 0)
      BY <2>1
    <3> HIDE DEF Reopened
    <3> QED
      BY <1>2, <3>1, <3>2
  <2>3. NewAccount(ask).status # "archived" /\ NewAccount(ask).status # "none"
    BY <2>2
  <2>4. NewAccount(ask).currency \in Currencies
    BY <2>2
  <2>5. Closable(NewAccount(ask))
    BY <2>3, <2>4 DEF Closable
  <2> QED
    BY <1>4, <2>2, <2>3, <2>5 DEF row
<1>5. CASE ask.op = "opening"
  <2>1. NewAccount(ask) = [row EXCEPT !.opening = ask.opening, !.openingDay = ask.day]
    BY <1>5 DEF NewAccount, row
  <2>2. ask.opening \in Int /\ ask.day \in Days
    BY <1>5, AskIs, LedgerAssumption
  <2> QED
    BY <1>2, <1>5, <2>1, <2>2 DEF AccountRows, row, Closable, Instants, CalendarDay
<1>6. CASE ask.op = "remove"
  <2>1. NewAccount(ask) = Unopened
    BY <1>6 DEF NewAccount
  <2> QED
    BY <1>6, <2>1, UnopenedRow DEF Unopened, Closable, AccountRows
<1>7. CASE ask.op = "reconcile"
  <2>1. NewAccount(ask) = row
    BY <1>7 DEF NewAccount, row
  <2> QED
    BY <1>2, <1>7, <2>1 DEF AccountRows, row, Closable, Instants, CalendarDay
<1> QED
  BY <1>1, <1>3, <1>4, <1>5, <1>6, <1>7 DEF AccountOps

AccountWritten(ask) ==
  /\ UNCHANGED <<entry, now, zone>>
  /\ account' = NewAccounts(ask)
  /\ Settle(AccountWants(ask), {ask.account}, NewAccounts(ask))

AccountRemoved(ask) ==
  /\ UNCHANGED <<entry, now, zone>>
  /\ account' = [account EXCEPT ![ask.account] = Unopened]
  /\ posted' = [posted EXCEPT ![<<"opening", ask.account>>] = Nothing,
                              ![<<"closing", ask.account>>] = Nothing]
  /\ written' = [written EXCEPT ![<<"opening", ask.account>>] = {},
                                ![<<"closing", ask.account>>] = {}]

LEMMA AccountWantsAre ==
  ASSUME TypeOK, NEW ask \in Asks, ~ OnEntries(ask), Kept(ask.account)
  PROVE  /\ DOMAIN AccountWants(ask) \subseteq NotClosing
         /\ DOMAIN AccountWants(ask) = IF ask.op = "opening" THEN {<<"opening", ask.account>>} ELSE {}
         /\ \A src \in DOMAIN AccountWants(ask) : AccountWants(ask)[src] \in Slot
         /\ \A a \in {ask.account} : Closable(NewAccounts(ask)[a])
         /\ {ask.account} \in SUBSET Accounts
<1>1. ask.account \in Accounts
  BY AskIs
<1>2. NewAccounts(ask)[ask.account] = NewAccount(ask)
  BY <1>1 DEF NewAccounts, TypeOK
<1>3. Closable(NewAccount(ask)) /\ NewAccount(ask) \in AccountRows
  BY NewAccountIs
<1>4. OpeningOf(ask.account, NewAccount(ask)) \in Slot
  BY <1>1, <1>3, OpeningIs
<1> QED
  BY <1>1, <1>2, <1>3, <1>4, SourcesAre DEF AccountWants, NoWants

LEMMA AccountCommits ==
  ASSUME TypeOK, NEW r \in Requests, NEW ask \in Asks, ~ OnEntries(ask), Kept(ask.account),
         req[r].change = AccountChange(ask), Commit(r)
  PROVE  IF ask.op = "remove" THEN AccountRemoved(ask) ELSE AccountWritten(ask)
<1> DEFINE c == AccountChange(ask)
           a == ask.account
<1>1. a \in Accounts
  BY AskIs
<1>2. /\ c.entries = <<>>
      /\ c.accounts = IF ask.op = "reconcile" THEN <<>> ELSE [x \in {a} |-> NewAccount(ask)]
      /\ ask.op = "remove" => c.gone = {"opening", "closing"} \X {a} /\ c.rows = <<>> /\ c.on = <<>>
      /\ ask.op # "remove" => c.gone = {} /\ c.rows = AccountPosting(ask).rows
                              /\ c.on = AccountPosting(ask).on
  BY DEF AccountChange
<1>3. DOMAIN <<>> = {}
  OBVIOUS
<1>4. /\ entry' = [e \in Entries |-> IF e \in DOMAIN c.entries THEN c.entries[e] ELSE entry[e]]
      /\ account' = [x \in Accounts |-> IF x \in DOMAIN c.accounts THEN c.accounts[x] ELSE account[x]]
      /\ posted' = [src \in Sources |-> IF src \in c.gone THEN Nothing
                                        ELSE IF src \in DOMAIN c.rows THEN Added(posted[src], c.rows[src])
                                        ELSE posted[src]]
      /\ written' = [src \in Sources |-> IF src \in c.gone THEN {}
                                         ELSE IF src \in DOMAIN c.on THEN written[src] \cup c.on[src]
                                         ELSE written[src]]
      /\ UNCHANGED <<now, zone>>
  BY DEF Commit
<1> HIDE DEF c
<1>5. entry' = entry
  BY <1>2, <1>3, <1>4 DEF TypeOK
<1>6. account' = NewAccounts(ask)
  <2>1. CASE ask.op = "reconcile"
    <3>1. NewAccount(ask) = account[a]
      BY <2>1 DEF NewAccount
    <3> QED
      BY <1>1, <1>2, <1>3, <1>4, <2>1, <3>1 DEF TypeOK, NewAccounts
  <2>2. CASE ask.op # "reconcile"
    <3>1. DOMAIN c.accounts = {a} /\ c.accounts[a] = NewAccount(ask)
      BY <1>2, <2>2
    <3> QED
      BY <1>1, <1>4, <3>1 DEF TypeOK, NewAccounts
  <2> QED
    BY <2>1, <2>2
<1>7. CASE ask.op = "remove"
  <2>1. NewAccount(ask) = Unopened
    BY <1>7 DEF NewAccount
  <2>2. /\ <<"opening", a>> \in Sources /\ <<"closing", a>> \in Sources
        /\ <<"opening", a>> # <<"closing", a>>
        /\ c.gone = {<<"opening", a>>, <<"closing", a>>}
    BY <1>1, <1>2, <1>7, SourcesAre
  <2>3. posted \in [Sources -> [Slots -> Int]] /\ written \in [Sources -> SUBSET Accounts]
    BY DEF TypeOK
  <2>4. posted' = [src \in Sources |-> IF src \in c.gone THEN Nothing ELSE posted[src]]
    BY <1>2, <1>3, <1>4, <1>7
  <2>5. written' = [src \in Sources |-> IF src \in c.gone THEN {} ELSE written[src]]
    BY <1>2, <1>3, <1>4, <1>7
  <2>6. posted' = [posted EXCEPT ![<<"opening", a>>] = Nothing, ![<<"closing", a>>] = Nothing]
    BY <2>2, <2>3, <2>4
  <2>7. written' = [written EXCEPT ![<<"opening", a>>] = {}, ![<<"closing", a>>] = {}]
    BY <2>2, <2>3, <2>5
  <2> QED
    BY <1>4, <1>5, <1>6, <1>7, <2>1, <2>6, <2>7 DEF AccountRemoved, NewAccounts
<1>8. CASE ask.op # "remove"
  <2>1. Writes(AccountPosting(ask))
    BY <1>2, <1>4, <1>8 DEF Writes
  <2>2. Writes(Posting(AccountWants(ask), {a}, NewAccounts(ask)))
    BY <2>1, AccountPostingIs
  <2>3. Settle(AccountWants(ask), {a}, NewAccounts(ask))
    BY <2>2, AccountWantsAre, PostingSettles
  <2> QED
    BY <1>4, <1>5, <1>6, <1>8, <2>3 DEF AccountWritten
<1> QED
  BY <1>7, <1>8

LEMMA AccountWriteIsAtomic ==
  ASSUME TypeOK, Tidy, NEW r, NEW ask \in Asks, ask = req[r].ask, ~ OnEntries(ask),
         AccountAllowed(r), IF ask.op = "remove" THEN AccountRemoved(ask) ELSE AccountWritten(ask)
  PROVE  AccountStep
<1> DEFINE a == ask.account
           row == account[a]
<1>1. a \in Accounts /\ ask.op \in AccountOps
  BY AskIs
<1>2. /\ Kept(a) /\ row \in AccountRows
      /\ row.archivedAt = IF Archived(a) THEN now ELSE 0
  BY <1>1 DEF AccountAllowed, TypeOK, AccountRows, Tidy
<1>3. CASE ask.op = "archive"
  <2> DEFINE new == [row EXCEPT !.status = "archived", !.archivedAt = now]
  <2>1. NewAccount(ask) = new /\ NewAccount(ask) # row
    BY <1>3 DEF NewAccount, AccountAllowed
  <2>2. row.status # "archived"
    <3>1. \A x \in AccountRows : [x EXCEPT !.status = x.status, !.archivedAt = x.archivedAt] = x
      BY DEF AccountRows
    <3> QED
      BY <1>2, <2>1, <3>1 DEF Archived
  <2>3. account' = [account EXCEPT ![a] = new] /\ Settle(NoWants, {a}, [account EXCEPT ![a] = new])
    BY <1>3, <2>1 DEF AccountWritten, AccountWants, NewAccounts
  <2>4. UNCHANGED <<entry, now, zone>> /\ new = [row EXCEPT !.status = "archived",
                                           !.archivedAt = IF "archived" = "archived" THEN now ELSE 0]
    BY <1>3 DEF AccountWritten
  <2>5. SetAccountArchived(a, "archived")
    BY <1>2, <2>2, <2>3, <2>4 DEF SetAccountArchived
  <2> QED
    BY <1>1, <2>5 DEF AccountStep
<1>4. CASE ask.op = "unarchive"
  <2> DEFINE new == [row EXCEPT !.status = "live", !.archivedAt = 0]
  <2>1. NewAccount(ask) = new /\ NewAccount(ask) # row
    BY <1>4 DEF NewAccount, AccountAllowed
  <2>2. row.status # "live"
    <3>1. \A x \in AccountRows : [x EXCEPT !.status = x.status, !.archivedAt = x.archivedAt] = x
      BY DEF AccountRows
    <3> QED
      BY <1>2, <2>1, <3>1 DEF Archived
  <2>3. account' = [account EXCEPT ![a] = new] /\ Settle(NoWants, {a}, [account EXCEPT ![a] = new])
    BY <1>4, <2>1 DEF AccountWritten, AccountWants, NewAccounts
  <2>4. UNCHANGED <<entry, now, zone>> /\ new = [row EXCEPT !.status = "live",
                                           !.archivedAt = IF "live" = "archived" THEN now ELSE 0]
    BY <1>4 DEF AccountWritten
  <2>5. SetAccountArchived(a, "live")
    BY <1>2, <2>2, <2>3, <2>4 DEF SetAccountArchived
  <2> QED
    BY <1>1, <2>5 DEF AccountStep
<1>5. CASE ask.op = "opening"
  <2> DEFINE new == [row EXCEPT !.currency = row.currency, !.opening = ask.opening, !.openingDay = ask.day]
  <2>1. NewAccount(ask) = new /\ NewAccount(ask) # row
    <3>1. NewAccount(ask) = [row EXCEPT !.opening = ask.opening, !.openingDay = ask.day]
      BY <1>5 DEF NewAccount
    <3>2. NewAccount(ask) # row
      BY <1>5 DEF AccountAllowed
    <3> HIDE DEF row
    <3> QED
      BY <1>2, <3>1, <3>2 DEF AccountRows
  <2>2. ask.opening \in Openings /\ ask.day \in Days /\ row.currency \in Currencies
    BY <1>2, <1>5, AskIs DEF AccountRows
  <2>3. /\ account' = [account EXCEPT ![a] = new]
        /\ Settle([src \in {<<"opening", a>>} |-> OpeningOf(a, new)], {a}, [account EXCEPT ![a] = new])
    BY <1>5, <2>1 DEF AccountWritten, AccountWants, NewAccounts
  <2>4. UpdateAccount(a, row.currency, ask.opening, ask.day)
    BY <1>2, <1>5, <2>1, <2>3 DEF UpdateAccount, OpenAndClose, AccountWritten
  <2> QED
    BY <1>1, <2>2, <2>4 DEF AccountStep
<1>6. CASE ask.op = "remove"
  <2>1. DeleteAccount(a)
    BY <1>2, <1>6 DEF DeleteAccount, AccountRemoved, AccountAllowed, Kept, Archived, AccountRows
  <2> QED
    BY <1>1, <2>1 DEF AccountStep
<1>7. CASE ask.op = "reconcile"
  <2>1. NewAccounts(ask) = account
    BY <1>1, <1>7 DEF NewAccounts, NewAccount, TypeOK
  <2>2. ReconcileArchived(a)
    BY <1>7, <2>1 DEF ReconcileArchived, AccountWritten, AccountWants, AccountAllowed
  <2> QED
    BY <1>1, <2>2 DEF AccountStep
<1> QED
  BY <1>1, <1>3, <1>4, <1>5, <1>6, <1>7 DEF AccountOps
-------------------------------------------------------------------------------
(* What a write leaves alone: every account but those it holds, and every  *)
(* entry but those it names.                                               *)

Touches(ask) == IF OnEntries(ask) THEN SidesHeld(ask) ELSE {ask.account}
EntriesOf(ask) == IF OnEntries(ask) THEN ask.entries ELSE {}

Apart(touched, es) ==
  /\ UNCHANGED <<now, zone>>
  /\ \A a \in Accounts \ touched :
       /\ account'[a] = account[a]
       /\ posted'[<<"opening", a>>] = posted[<<"opening", a>>]
       /\ posted'[<<"closing", a>>] = posted[<<"closing", a>>]
       /\ \A src \in NotClosing, day \in Days : posted'[src][<<a, day>>] = posted[src][<<a, day>>]
       /\ \A e \in Entries :
            /\ a \in written'[<<"entry", e>>] <=> a \in written[<<"entry", e>>]
            /\ (entry'[e].status # "none" /\ a \in Sides(entry'[e].draft)) <=> e \in EntriesOn(a)
  /\ \A e \in Entries \ es : /\ entry'[e] = entry[e]
                             /\ posted'[<<"entry", e>>] = posted[<<"entry", e>>]

(* Neither what an entry is to say nor what it says reaches an account its *)
(* request does not hold.                                                  *)
LEMMA SaysOnTheHeld ==
  ASSUME Books, NEW ask \in Asks, OnEntries(ask), NEW e \in Changing(ask),
         NEW a \in Accounts \ SidesHeld(ask), NEW day \in Days
  PROVE  /\ Says(NewRow(ask, e), account)[<<a, day>>] = 0
         /\ posted[<<"entry", e>>][<<a, day>>] = 0
<1>0. TypeOK /\ EntriesSettled
  BY DEF Books
<1>1. e \in ask.entries /\ e \in Entries
  BY <1>0, EntryWantsAre
<1>2. /\ WellFormed(NewRow(ask, e).draft) /\ WellFormed(entry[e].draft)
      /\ a \notin Sides(NewRow(ask, e).draft)
      /\ Stored(e) => a \notin Sides(entry[e].draft)
  BY <1>0, <1>1, WantingIs, NewRowIs DEF TypeOK
<1>3. posted[<<"entry", e>>] = Says(entry[e], account)
  BY <1>0, <1>1 DEF EntriesSettled, Says
<1>4. \A row : WellFormed(row.draft) =>
        (Says(row, account)[<<a, day>>] # 0 => row.status = "live" /\ a \in Sides(row.draft))
  BY <1>0, ClosableRows, SaysIs
<1> QED
  BY <1>2, <1>3, <1>4 DEF Stored

LEMMA RowsOnTheHeld ==
  ASSUME Books, NEW ask \in Asks, OnEntries(ask), NEW e \in Changing(ask)
  PROVE  RowsOn(posted[<<"entry", e>>], EntryWants(ask)[<<"entry", e>>]) \subseteq SidesHeld(ask)
<1>0. TypeOK
  BY DEF Books
<1> SUFFICES ASSUME NEW a \in Accounts, a \notin SidesHeld(ask),
                    a \in RowsOn(posted[<<"entry", e>>], EntryWants(ask)[<<"entry", e>>])
             PROVE  FALSE
  BY DEF RowsOn
<1>1. EntryWants(ask)[<<"entry", e>>] = Says(NewRow(ask, e), account)
  BY <1>0, EntryWantsAre
<1>2. PICK day \in Days : Difference(posted[<<"entry", e>>], Says(NewRow(ask, e), account))[<<a, day>>] # 0
  BY <1>1 DEF RowsOn
<1>3. <<a, day>> \in Slots
  BY SlotsAre
<1>4. Says(NewRow(ask, e), account)[<<a, day>>] = 0 /\ posted[<<"entry", e>>][<<a, day>>] = 0
  BY SaysOnTheHeld
<1> QED
  BY <1>2, <1>3, <1>4 DEF Difference

LEMMA ClosesTheHeld ==
  ASSUME Books, NEW ask \in Asks, OnEntries(ask)
  PROVE  EntryClosing(ask) \subseteq SidesHeld(ask)
<1> SUFFICES ASSUME NEW a \in EntryClosing(ask) PROVE a \in SidesHeld(ask)
  OBVIOUS
<1>1. PICK e \in Changing(ask) : a \in RowsOn(posted[<<"entry", e>>], EntryWants(ask)[<<"entry", e>>])
  BY DEF EntryClosing
<1> QED
  BY <1>1, RowsOnTheHeld

LEMMA EntryWriteApart ==
  ASSUME Books, NEW ask \in Asks, OnEntries(ask), EntryWritten(ask)
  PROVE  Apart(SidesHeld(ask), ask.entries)
<1>0. TypeOK /\ \A a \in Accounts : Closable(account[a])
  BY ClosableRows DEF Books
<1> DEFINE wants == EntryWants(ask)
           closing == EntryClosing(ask)
<1>1. /\ DOMAIN wants = {"entry"} \X Changing(ask)
      /\ DOMAIN wants \subseteq NotClosing
      /\ \A e \in Changing(ask) : /\ e \in ask.entries /\ e \in Entries
                                  /\ wants[<<"entry", e>>] = Says(NewRow(ask, e), account)
      /\ \A src \in DOMAIN wants : wants[src] \in Slot
      /\ closing \in SUBSET Accounts
  BY <1>0, EntryWantsAre
<1>2. closing \subseteq SidesHeld(ask)
  BY ClosesTheHeld
<1> HIDE DEF wants, closing
<1>3. SettledTo(wants, closing, account)
  <2>1. Settle(wants, closing, account)
    BY DEF EntryWritten, wants, closing
  <2> QED
    BY <1>0, <1>1, <2>1, SettleIs
<1>4. /\ entry' = [e \in Entries |-> IF e \in Changing(ask) THEN NewRow(ask, e) ELSE entry[e]]
      /\ UNCHANGED <<account, now, zone>>
  BY DEF EntryWritten
<1>5. ASSUME NEW a \in Accounts \ SidesHeld(ask), NEW src \in NotClosing, NEW day \in Days
      PROVE  posted'[src][<<a, day>>] = posted[src][<<a, day>>]
  <2>1. CASE src \in DOMAIN wants
    <3>1. PICK e \in Changing(ask) : src = <<"entry", e>>
      BY <1>1, <2>1
    <3>2. posted'[src] = Says(NewRow(ask, e), account)
      BY <1>1, <1>3, <2>1, <3>1 DEF SettledTo
    <3> QED
      BY <3>1, <3>2, SaysOnTheHeld
  <2>2. CASE src \notin DOMAIN wants
    BY <1>3, <2>2 DEF SettledTo
  <2> QED
    BY <2>1, <2>2
<1>6. ASSUME NEW a \in Accounts \ SidesHeld(ask)
      PROVE  /\ posted'[<<"opening", a>>] = posted[<<"opening", a>>]
             /\ posted'[<<"closing", a>>] = posted[<<"closing", a>>]
  <2>1. <<"opening", a>> \notin DOMAIN wants /\ <<"opening", a>> \in NotClosing
    BY <1>1, SourcesAre
  <2>2. a \notin closing
    BY <1>2
  <2> QED
    BY <1>3, <2>1, <2>2 DEF SettledTo
<1>7. ASSUME NEW a \in Accounts \ SidesHeld(ask), NEW e \in Entries
      PROVE  /\ a \in written'[<<"entry", e>>] <=> a \in written[<<"entry", e>>]
             /\ (entry'[e].status # "none" /\ a \in Sides(entry'[e].draft)) <=> e \in EntriesOn(a)
  <2>1. <<"entry", e>> \in Sources /\ <<"entry", e>> \in NotClosing
    BY SourcesAre
  <2>2. a \in written'[<<"entry", e>>] <=> a \in written[<<"entry", e>>]
    <3>1. \A day \in Days : posted'[<<"entry", e>>][<<a, day>>] = posted[<<"entry", e>>][<<a, day>>]
      BY <1>5, <2>1
    <3>2. /\ a \in written[<<"entry", e>>] => a \in written'[<<"entry", e>>]
          /\ a \in written'[<<"entry", e>>] /\ a \notin written[<<"entry", e>>]
               => \E day \in Days :
                    posted'[<<"entry", e>>][<<a, day>>] # posted[<<"entry", e>>][<<a, day>>]
      BY <1>3, <2>1 DEF SettledTo, Remembered
    <3> QED  BY <3>1, <3>2
  <2>3. CASE e \in Changing(ask)
    <3>1. entry'[e].draft = Wanting(ask, e) /\ e \in ask.entries
      BY <1>0, <1>1, <1>4, <2>3, NewRowIs
    <3>2. a \notin Sides(entry'[e].draft) /\ (Stored(e) => a \notin Sides(entry[e].draft))
      BY <1>0, <3>1, WantingIs
    <3> QED
      BY <2>2, <3>2 DEF EntriesOn
  <2>4. CASE e \notin Changing(ask)
    BY <1>4, <2>2, <2>4 DEF EntriesOn, Stored
  <2> QED
    BY <2>3, <2>4
<1>8. ASSUME NEW e \in Entries \ ask.entries
      PROVE  entry'[e] = entry[e] /\ posted'[<<"entry", e>>] = posted[<<"entry", e>>]
  <2>1. e \notin Changing(ask) /\ <<"entry", e>> \notin DOMAIN wants /\ <<"entry", e>> \in NotClosing
    BY <1>1, SourcesAre
  <2> QED
    BY <1>3, <1>4, <2>1 DEF SettledTo
<1> QED
  BY <1>4, <1>5, <1>6, <1>7, <1>8 DEF Apart

LEMMA AccountWriteApart ==
  ASSUME Books, NEW ask \in Asks, ~ OnEntries(ask), Kept(ask.account),
         IF ask.op = "remove" THEN AccountRemoved(ask) ELSE AccountWritten(ask)
  PROVE  Apart({ask.account}, {})
<1> DEFINE a == ask.account
<1>0. /\ TypeOK /\ OpeningsSettled /\ a \in Accounts
      /\ account[a] \in AccountRows
  BY AskIs DEF Books, TypeOK, AccountRows
<1>1. UNCHANGED <<entry, now, zone>> /\ \A b \in Accounts \ {a} : account'[b] = account[b]
  BY <1>0 DEF AccountRemoved, AccountWritten, NewAccounts, TypeOK
<1>2. ASSUME NEW b \in Accounts \ {a}, NEW row \in AccountRows, NEW day \in Days
      PROVE  OpeningOf(a, row)[<<b, day>>] = 0
  <2> DEFINE eq == <<"equity", row.currency>>
  <2>1. b \in LedgerAccounts \ {a, eq}
    BY <1>0, SlotsAre, OpeningIs
  <2> QED
    BY <1>0, <2>1, OpeningIs
<1>3. CASE ask.op = "remove"
  <2>1. /\ posted' = [posted EXCEPT ![<<"opening", a>>] = Nothing, ![<<"closing", a>>] = Nothing]
        /\ written' = [written EXCEPT ![<<"opening", a>>] = {}, ![<<"closing", a>>] = {}]
    BY <1>3 DEF AccountRemoved
  <2>2. posted \in [Sources -> [Slots -> Int]] /\ written \in [Sources -> SUBSET Accounts]
    BY <1>0 DEF TypeOK
  <2>3. \A src \in Sources : src # <<"opening", a>> /\ src # <<"closing", a>>
          => posted'[src] = posted[src] /\ written'[src] = written[src]
    BY <2>1, <2>2
  <2>4. /\ <<"opening", a>> \in Sources /\ <<"closing", a>> \in Sources
        /\ <<"opening", a>> # <<"closing", a>>
    BY <1>0, SourcesAre
  <2>5. posted'[<<"opening", a>>] = Nothing
    BY <2>1, <2>2, <2>4
  <2>6. ASSUME NEW b \in Accounts \ {a}, NEW src \in NotClosing, NEW day \in Days
        PROVE  posted'[src][<<b, day>>] = posted[src][<<b, day>>]
    <3>1. CASE src = <<"opening", a>>
      <4>1. posted[src] = OpeningOf(a, account[a])
        BY <1>0, <3>1 DEF OpeningsSettled
      <4>2. posted[src][<<b, day>>] = 0
        BY <1>0, <1>2, <4>1
      <4>3. Nothing[<<b, day>>] = 0
        BY NothingIs, SlotsAre
      <4> QED
        BY <2>5, <3>1, <4>2, <4>3
    <3>2. CASE src # <<"opening", a>>
      BY <1>0, <2>3, <3>2, SourcesAre
    <3> QED
      BY <3>1, <3>2
  <2>7. \A b \in Accounts \ {a} : /\ posted'[<<"opening", b>>] = posted[<<"opening", b>>]
                                  /\ posted'[<<"closing", b>>] = posted[<<"closing", b>>]
    <3> TAKE b \in Accounts \ {a}
    <3>1. /\ <<"opening", b>> \in Sources /\ <<"closing", b>> \in Sources
          /\ <<"opening", b>> # <<"opening", a>> /\ <<"closing", b>> # <<"closing", a>>
          /\ <<"opening", b>> # <<"closing", a>> /\ <<"closing", b>> # <<"opening", a>>
      BY SourcesAre
    <3> QED
      BY <2>3, <3>1
  <2>8. \A e \in Entries : /\ posted'[<<"entry", e>>] = posted[<<"entry", e>>]
                           /\ written'[<<"entry", e>>] = written[<<"entry", e>>]
    <3> TAKE e \in Entries
    <3>1. /\ <<"entry", e>> \in Sources
          /\ <<"entry", e>> # <<"opening", a>> /\ <<"entry", e>> # <<"closing", a>>
      BY SourcesAre
    <3> QED
      BY <2>3, <3>1
  <2> QED
    BY <1>1, <2>6, <2>7, <2>8 DEF Apart, EntriesOn, Stored
<1>4. CASE ask.op # "remove"
  <2> DEFINE wants == AccountWants(ask)
             rows == NewAccounts(ask)
  <2>1. /\ DOMAIN wants \subseteq NotClosing
        /\ DOMAIN wants = IF ask.op = "opening" THEN {<<"opening", a>>} ELSE {}
        /\ \A src \in DOMAIN wants : wants[src] \in Slot
        /\ \A b \in {a} : Closable(rows[b])
        /\ {a} \in SUBSET Accounts
    BY <1>0, AccountWantsAre
  <2>2. ask.op = "opening" => wants[<<"opening", a>>] = OpeningOf(a, NewAccount(ask))
    BY DEF AccountWants
  <2>3. NewAccount(ask) \in AccountRows
    BY <1>0, NewAccountIs
  <2>4. Settle(wants, {a}, rows)
    BY <1>4 DEF AccountWritten
  <2> HIDE DEF wants, rows
  <2>5. SettledTo(wants, {a}, rows)
    BY <1>0, <2>1, <2>4, SettleIs
  <2>6. ASSUME NEW b \in Accounts \ {a}, NEW src \in NotClosing, NEW day \in Days
        PROVE  posted'[src][<<b, day>>] = posted[src][<<b, day>>]
    <3>1. CASE src \in DOMAIN wants
      <4>1. src = <<"opening", a>> /\ posted'[src] = OpeningOf(a, NewAccount(ask))
        BY <2>1, <2>2, <2>5, <3>1 DEF SettledTo
      <4>2. posted[src] = OpeningOf(a, account[a])
        BY <1>0, <4>1 DEF OpeningsSettled
      <4> QED
        BY <1>0, <1>2, <2>3, <4>1, <4>2
    <3>2. CASE src \notin DOMAIN wants
      BY <2>5, <3>2 DEF SettledTo
    <3> QED
      BY <3>1, <3>2
  <2>7. ASSUME NEW b \in Accounts \ {a}
        PROVE  /\ posted'[<<"opening", b>>] = posted[<<"opening", b>>]
               /\ posted'[<<"closing", b>>] = posted[<<"closing", b>>]
    <3>1. b # a /\ b \in Accounts
      OBVIOUS
    <3>2. <<"opening", b>> # <<"opening", a>> /\ <<"opening", b>> \in NotClosing
      BY <3>1, SourcesAre
    <3>3. <<"opening", b>> \notin DOMAIN wants
      BY <2>1, <3>2
    <3> QED
      BY <2>5, <3>1, <3>2, <3>3 DEF SettledTo
  <2>8. ASSUME NEW e \in Entries
        PROVE  posted'[<<"entry", e>>] = posted[<<"entry", e>>]
    <3>1. <<"entry", e>> \notin DOMAIN wants /\ <<"entry", e>> \in NotClosing
      BY <2>1, SourcesAre
    <3> QED
      BY <2>5, <3>1 DEF SettledTo
  <2>9. ASSUME NEW b \in Accounts \ {a}, NEW e \in Entries
        PROVE  b \in written'[<<"entry", e>>] <=> b \in written[<<"entry", e>>]
    <3>1. <<"entry", e>> \in Sources
      BY SourcesAre
    <3> QED
      BY <2>5, <2>8, <3>1 DEF SettledTo, Remembered
  <2> QED
    BY <1>1, <2>6, <2>7, <2>8, <2>9 DEF Apart, EntriesOn, Stored
<1> QED
  BY <1>3, <1>4
-------------------------------------------------------------------------------
(* A write that leaves a request's accounts and entries alone leaves what  *)
(* that request decided as it was.                                         *)

ClosedAfter(p, closing, rows) == PostedAfter(p, Close(p, closing, rows))
PostingFrom(have, wants, closing, rows) ==
  LET p == PostedAfter(have, wants)
      q == ClosedAfter(p, closing, rows)
      changed == {src \in Sources : q[src] # have[src]}
  IN  [rows |-> [src \in changed |-> Difference(have[src], q[src])],
       on   |-> [src \in changed |-> RowsOn(have[src], p[src]) \cup RowsOn(p[src], q[src])]]

LEMMA ClosingThen == ASSUME zone' = zone PROVE \A p, c, rows : Close(p, c, rows)' = Close(p, c, rows)
BY DEF Close, ClosingWanted

LEMMA PostingThen ==
  ASSUME zone' = zone, NEW ask
  PROVE  /\ EntryPosting(ask)' = PostingFrom(posted', EntryWants(ask)', EntryClosing(ask)', account')
         /\ EntryPosting(ask) = PostingFrom(posted, EntryWants(ask), EntryClosing(ask), account)
<1>1. EntryPosting(ask)' = Posting(EntryWants(ask), EntryClosing(ask), account)'
  BY DEF EntryPosting, EntryWants, EntryClosing, Says
<1>2. Posting(EntryWants(ask), EntryClosing(ask), account)'
        = PostingFrom(posted', EntryWants(ask)', EntryClosing(ask)', account')
  BY ClosingThen DEF Posting, PostingFrom, ClosedAfter
<1>3. Posting(EntryWants(ask), EntryClosing(ask), account)
        = PostingFrom(posted, EntryWants(ask), EntryClosing(ask), account)
  BY DEF Posting, PostingFrom, ClosedAfter
<1> QED
  BY <1>1, <1>2, <1>3, EntryPostingIs

LEMMA AccountPostingThen ==
  ASSUME zone' = zone, NEW ask
  PROVE  Posting(AccountWants(ask), {ask.account}, NewAccounts(ask))'
           = PostingFrom(posted', AccountWants(ask)', {ask.account}, NewAccounts(ask)')
BY ClosingThen DEF Posting, PostingFrom, ClosedAfter

(* What two postings come to from tables that agree where they write.      *)
LEMMA PostedFromIs ==
  ASSUME NEW have \in Postings, NEW wants, DOMAIN wants \subseteq NotClosing,
         \A src \in DOMAIN wants : wants[src] \in Slot
  PROVE  /\ PostedAfter(have, wants) \in Postings
         /\ \A src \in Sources : src \in DOMAIN wants => PostedAfter(have, wants)[src] = wants[src]
         /\ \A src \in Sources : src \notin DOMAIN wants => PostedAfter(have, wants)[src] = have[src]
<1>1. PostedAfter(have, wants) = [src \in Sources |-> IF src \in DOMAIN wants THEN wants[src] ELSE have[src]]
  BY PostedIs
<1> QED
  BY <1>1 DEF Postings

LEMMA ClosedAfterIs ==
  ASSUME NEW p \in Postings,
         NEW closing \in SUBSET Accounts, NEW rows, \A a \in closing : Closable(rows[a])
  PROVE  /\ \A src \in NotClosing : ClosedAfter(p, closing, rows)[src] = p[src]
         /\ \A a \in closing :
              ClosedAfter(p, closing, rows)[<<"closing", a>>] = ClosingWanted(p, a, rows[a])
         /\ \A a \in Accounts \ closing :
              ClosedAfter(p, closing, rows)[<<"closing", a>>] = p[<<"closing", a>>]
<1> DEFINE cls == Close(p, closing, rows)
           q == PostedAfter(p, cls)
<1>1. /\ DOMAIN cls = {"closing"} \X closing
      /\ \A a \in closing : cls[<<"closing", a>>] = ClosingWanted(p, a, rows[a])
  BY DEF Close
<1>2. \A src \in DOMAIN cls : cls[src] \in Slot /\ src \notin NotClosing
  <2>1. \A a \in closing : ClosingWanted(p, a, rows[a]) \in Slot
    BY ClosingIs
  <2> QED
    BY <2>1 DEF Close, NotClosing
<1>3. ClosedAfter(p, closing, rows) = q
  BY DEF ClosedAfter
<1> HIDE DEF cls
<1>4. q = [src \in Sources |-> IF src \in DOMAIN cls THEN cls[src] ELSE p[src]]
  BY <1>2, PostedIs
<1> HIDE DEF q
<1>5. \A src \in NotClosing : q[src] = p[src]
  BY <1>2, <1>4, SourcesAre
<1>6. ASSUME NEW a \in Accounts
      PROVE  /\ a \in closing => q[<<"closing", a>>] = ClosingWanted(p, a, rows[a])
             /\ a \notin closing => q[<<"closing", a>>] = p[<<"closing", a>>]
  <2>1. <<"closing", a>> \in Sources
    BY SourcesAre
  <2>2. <<"closing", a>> \in DOMAIN cls <=> a \in closing
    BY <1>1
  <2> QED
    BY <1>1, <1>4, <2>1, <2>2
<1> QED
  BY <1>3, <1>5, <1>6

LEMMA PostingSame ==
  ASSUME NEW have \in Postings, NEW then \in Postings,
         NEW wants, DOMAIN wants \subseteq NotClosing,
         \A src \in DOMAIN wants : wants[src] \in Slot /\ then[src] = have[src],
         NEW closing \in SUBSET Accounts, NEW rows, NEW rowsThen,
         \A a \in closing : /\ Closable(rows[a]) /\ rowsThen[a] = rows[a]
                            /\ then[<<"closing", a>>] = have[<<"closing", a>>]
                            /\ \A src \in NotClosing, day \in Days :
                                 then[src][<<a, day>>] = have[src][<<a, day>>]
  PROVE  PostingFrom(then, wants, closing, rowsThen) = PostingFrom(have, wants, closing, rows)
<1> DEFINE p == PostedAfter(have, wants)
           q == ClosedAfter(p, closing, rows)
           changed == {src \in Sources : q[src] # have[src]}
           pt == PostedAfter(then, wants)
           qt == ClosedAfter(pt, closing, rowsThen)
           changedThen == {src \in Sources : qt[src] # then[src]}
<1>1. /\ p \in Postings /\ pt \in Postings
      /\ \A src \in Sources : src \in DOMAIN wants => p[src] = wants[src] /\ pt[src] = wants[src]
      /\ \A src \in Sources : src \notin DOMAIN wants => p[src] = have[src] /\ pt[src] = then[src]
  BY PostedFromIs
<1>2. \A a \in closing : Closable(rows[a]) /\ Closable(rowsThen[a])
  OBVIOUS
<1>3. /\ PostingFrom(have, wants, closing, rows)
           = [rows |-> [src \in changed |-> Difference(have[src], q[src])],
              on   |-> [src \in changed |-> RowsOn(have[src], p[src]) \cup RowsOn(p[src], q[src])]]
      /\ PostingFrom(then, wants, closing, rowsThen)
           = [rows |-> [src \in changedThen |-> Difference(then[src], qt[src])],
              on   |-> [src \in changedThen |-> RowsOn(then[src], pt[src]) \cup RowsOn(pt[src], qt[src])]]
  BY DEF PostingFrom
<1> HIDE DEF p, pt
<1>4. ASSUME NEW a \in closing
      PROVE  ClosingWanted(pt, a, rowsThen[a]) = ClosingWanted(p, a, rows[a])
  <2>1. ASSUME NEW src \in NotClosing, NEW day \in Days
        PROVE  pt[src][<<a, day>>] = p[src][<<a, day>>]
    <3>1. src \in Sources
      BY SourcesAre
    <3>2. CASE src \in DOMAIN wants
      BY <1>1, <3>1, <3>2
    <3>3. CASE src \notin DOMAIN wants
      <4>1. then[src][<<a, day>>] = have[src][<<a, day>>]
        OBVIOUS
      <4>2. pt[src] = then[src] /\ p[src] = have[src]
        BY <1>1, <3>1, <3>3
      <4> QED
        BY <4>1, <4>2
    <3> QED
      BY <3>2, <3>3
  <2>2. a \in Accounts /\ rowsThen[a] = rows[a] /\ Closable(rows[a])
    OBVIOUS
  <2> QED
    BY <1>1, <2>1, <2>2, ClosingSame
<1>9. /\ \A src \in NotClosing : q[src] = p[src] /\ qt[src] = pt[src]
      /\ \A a \in closing : /\ q[<<"closing", a>>] = ClosingWanted(p, a, rows[a])
                            /\ qt[<<"closing", a>>] = ClosingWanted(pt, a, rowsThen[a])
      /\ \A a \in Accounts \ closing : /\ q[<<"closing", a>>] = p[<<"closing", a>>]
                                       /\ qt[<<"closing", a>>] = pt[<<"closing", a>>]
  BY <1>1, <1>2, ClosedAfterIs
<1> HIDE DEF q, qt
<1> DEFINE Still(src) == q[src] = have[src] /\ p[src] = have[src] /\ qt[src] = then[src] /\ pt[src] = then[src]
           Moved(src) == q[src] = qt[src] /\ p[src] = pt[src] /\ then[src] = have[src]
<1>5. ASSUME NEW src \in Sources
      PROVE  Still(src) \/ Moved(src)
  <2>1. CASE src \in DOMAIN wants
    <3>1. src \in NotClosing /\ then[src] = have[src]
      BY <2>1
    <3>2. p[src] = wants[src] /\ pt[src] = wants[src]
      BY <1>1, <2>1
    <3>3. q[src] = p[src] /\ qt[src] = pt[src]
      BY <1>9, <3>1
    <3> QED
      BY <3>1, <3>2, <3>3
  <2>2. CASE src \in NotClosing /\ src \notin DOMAIN wants
    BY <1>1, <1>9, <2>2
  <2>3. CASE src \notin NotClosing
    <3>1. PICK a \in Accounts : src = <<"closing", a>>
      BY <2>3, SourcesAre
    <3>2. p[src] = have[src] /\ pt[src] = then[src]
      BY <1>1, <2>3
    <3>3. CASE a \in closing
      <4>1. then[src] = have[src]
        BY <3>1, <3>3
      <4>2. q[src] = qt[src]
        BY <1>4, <1>9, <3>1, <3>3
      <4> QED
        BY <3>2, <4>1, <4>2
    <3>4. CASE a \notin closing
      BY <1>9, <3>1, <3>2, <3>4
    <3> QED
      BY <3>3, <3>4
  <2> QED
    BY <2>1, <2>2, <2>3
<1>6. changedThen = changed
  BY <1>5
<1>7. \A src \in changed : /\ Difference(then[src], qt[src]) = Difference(have[src], q[src])
                           /\ RowsOn(then[src], pt[src]) = RowsOn(have[src], p[src])
                           /\ RowsOn(pt[src], qt[src]) = RowsOn(p[src], q[src])
  <2> TAKE src \in changed
  <2>1. q[src] = qt[src] /\ p[src] = pt[src] /\ then[src] = have[src]
    BY <1>5
  <2> QED
    BY <2>1
<1> HIDE DEF changed, changedThen
<1>8. /\ [src \in changedThen |-> Difference(then[src], qt[src])]
           = [src \in changed |-> Difference(have[src], q[src])]
      /\ [src \in changedThen |-> RowsOn(then[src], pt[src]) \cup RowsOn(pt[src], qt[src])]
           = [src \in changed |-> RowsOn(have[src], p[src]) \cup RowsOn(p[src], q[src])]
  BY <1>6, <1>7
<1> QED
  BY <1>3, <1>8

LEMMA NewRowSame ==
  ASSUME TypeOK, NEW ask \in Asks, OnEntries(ask), NEW touched, NEW es, Apart(touched, es),
         touched \cap SidesHeld(ask) = {}, es \cap ask.entries = {}
  PROVE  /\ \A e \in ask.entries : /\ e \in Entries /\ entry'[e] = entry[e]
                                   /\ posted'[<<"entry", e>>] = posted[<<"entry", e>>]
                                   /\ Wanting(ask, e)' = Wanting(ask, e)
                                   /\ NewRow(ask, e)' = NewRow(ask, e)
         /\ \A a \in SidesHeld(ask) : /\ a \in Accounts /\ account'[a] = account[a]
                                      /\ a \in Accounts \ touched
         /\ SidesHeld(ask)' = SidesHeld(ask)
         /\ LocksOf(ask)' = LocksOf(ask)
         /\ Changing(ask)' = Changing(ask)
<1>1. ask.entries \in SUBSET Entries /\ ask.op \in EntryOps
  BY AskIs
<1>2. \A e \in ask.entries : /\ e \in Entries /\ entry'[e] = entry[e]
                             /\ posted'[<<"entry", e>>] = posted[<<"entry", e>>]
  BY <1>1 DEF Apart
<1>3. \A a \in SidesHeld(ask) : /\ a \in Accounts /\ account'[a] = account[a]
                                /\ a \in Accounts \ touched
  BY SidesHeldAreAccounts DEF Apart
<1>4. \A e \in ask.entries : Wanting(ask, e)' = Wanting(ask, e)
  BY <1>2 DEF Wanting
<1>5. SidesHeld(ask)' = SidesHeld(ask)
  <2> DEFINE held(e) == (IF Stored(e) THEN Sides(entry[e].draft) ELSE {}) \cup Sides(Wanting(ask, e))
  <2>1. \A e \in ask.entries : held(e)' = held(e)
    BY <1>2, <1>4 DEF Stored
  <2>2. SidesHeld(ask) = UNION {held(e) : e \in ask.entries}
    BY DEF SidesHeld
  <2>3. SidesHeld(ask)' = UNION {held(e)' : e \in ask.entries}
    BY DEF SidesHeld
  <2> HIDE DEF held
  <2> QED
    BY <2>1, <2>2, <2>3
<1>6. LocksOf(ask)' = LocksOf(ask)
  BY <1>5 DEF LocksOf, DuplicateLock, RowsHeld
<1>7. ASSUME NEW e \in ask.entries PROVE NewRow(ask, e)' = NewRow(ask, e)
  <2> DEFINE d == Wanting(ask, e)
  <2>1. WellFormed(d) /\ Sides(d) \subseteq SidesHeld(ask) /\ d' = d /\ entry'[e] = entry[e]
    BY <1>2, <1>4, WantingIs
  <2>2. \A side \in {d.from, d.to} : CurrencyOn(side)' = CurrencyOn(side)
    BY <1>3, <2>1 DEF CurrencyOn, Sides
  <2>3. \A f, status : f = d => Row(status, f)' = Row(status, f)
    BY <2>1, <2>2 DEF Row
  <2>4. CASE ask.op = "create"
    <3>1. d = ask.draft
      BY <2>4 DEF Wanting
    <3> HIDE DEF d
    <3> QED
      BY <2>3, <2>4, <3>1 DEF NewRow
  <2>5. CASE ask.op = "update"
    <3>1. d = ask.draft
      BY <2>5 DEF Wanting
    <3> HIDE DEF d
    <3> QED
      BY <2>1, <2>3, <2>5, <3>1 DEF NewRow
  <2>6. CASE ask.op = "editMany"
    <3>1. d = Patched(entry[e].draft, ask.patch)
      BY <2>6 DEF Wanting
    <3> HIDE DEF d
    <3> QED
      BY <2>1, <2>3, <2>6, <3>1 DEF NewRow
  <2>7. CASE ask.op \in {"restore", "delete", "deleteMany"}
    BY <2>1, <2>7 DEF NewRow
  <2> QED
    BY <1>1, <2>4, <2>5, <2>6, <2>7 DEF EntryOps
<1>8. Changing(ask)' = Changing(ask)
  BY <1>2, <1>7 DEF Changing
<1> QED
  BY <1>2, <1>3, <1>4, <1>5, <1>6, <1>7, <1>8
LEMMA EntryChangeSame ==
  ASSUME Books, TypeOK', NEW ask \in Asks, OnEntries(ask), NEW touched, NEW es, Apart(touched, es),
         touched \cap SidesHeld(ask) = {}, es \cap ask.entries = {}
  PROVE  EntryChange(ask)' = EntryChange(ask)
<1> DEFINE wants == EntryWants(ask)
           closing == EntryClosing(ask)
<1>0. /\ TypeOK /\ posted \in Postings /\ posted' \in Postings
      /\ zone' = zone
      /\ \A a \in Accounts : Closable(account[a])
  BY ClosableRows DEF Books, TypeOK, Postings, Slot, Apart
<1>1. /\ \A e \in ask.entries : /\ e \in Entries /\ entry'[e] = entry[e]
                                /\ posted'[<<"entry", e>>] = posted[<<"entry", e>>]
                                /\ NewRow(ask, e)' = NewRow(ask, e)
      /\ \A a \in SidesHeld(ask) : /\ a \in Accounts /\ account'[a] = account[a]
                                   /\ a \in Accounts \ touched
      /\ Changing(ask)' = Changing(ask)
  BY <1>0, NewRowSame
<1>2. /\ DOMAIN wants = {"entry"} \X Changing(ask)
      /\ DOMAIN wants \subseteq NotClosing
      /\ \A e \in Changing(ask) : e \in ask.entries /\ e \in Entries
      /\ \A src \in DOMAIN wants : wants[src] \in Slot
      /\ closing \in SUBSET Accounts
  BY <1>0, EntryWantsAre
<1>3. ASSUME NEW e \in Changing(ask)
      PROVE  Says(NewRow(ask, e), account)' = Says(NewRow(ask, e), account)
  <2> DEFINE row == NewRow(ask, e)
  <2>1. WellFormed(row.draft) /\ Sides(row.draft) \subseteq SidesHeld(ask) /\ row' = row
    <3>1. TypeOK /\ e \in ask.entries
      BY <1>0, <1>2
    <3>2. row.draft = Wanting(ask, e)
      BY <3>1, NewRowIs
    <3>3. WellFormed(Wanting(ask, e)) /\ Sides(Wanting(ask, e)) \subseteq SidesHeld(ask)
      BY <3>1, WantingIs
    <3>4. row' = row
      BY <1>1, <3>1
    <3> HIDE DEF row
    <3> QED  BY <3>2, <3>3, <3>4
  <2> HIDE DEF row
  <2>2. PostingsOf(row.draft, account') = PostingsOf(row.draft, account)
    BY <1>1, <2>1, PostingsLocal
  <2>3. Says(row, account)' = Says(row, account)
    BY <2>1, <2>2 DEF Says, Nothing, PostingsOf
  <2> QED
    BY <2>3 DEF row
<1>4. wants' = wants
  <2>1. wants = [src \in {"entry"} \X Changing(ask) |-> Says(NewRow(ask, src[2]), account)]
    BY DEF EntryWants
  <2>2. wants' = [src \in {"entry"} \X Changing(ask)' |-> Says(NewRow(ask, src[2]), account)']
    BY DEF EntryWants
  <2> QED
    BY <1>1, <1>3, <2>1, <2>2
<1>5. closing' = closing
  <2>1. CASE ask.op = "create"
    BY <2>1 DEF EntryClosing
  <2>2. CASE ask.op # "create"
    <3> DEFINE on(src) == RowsOn(posted[src], wants[src])
               moved == UNION {on(src) : src \in {"entry"} \X Changing(ask)}
    <3>1. closing = {a \in moved : Archived(a)}
      BY <2>2 DEF EntryClosing
    <3>2. closing' = {a \in moved' : Archived(a)'}
      BY <2>2 DEF EntryClosing
    <3>3. \A src \in {"entry"} \X Changing(ask) : on(src)' = on(src)
      <4> TAKE src \in {"entry"} \X Changing(ask)
      <4>1. posted'[src] = posted[src]
        BY <1>1, <1>2
      <4> HIDE DEF wants
      <4> QED
        BY <1>4, <4>1 DEF RowsOn, Difference
    <3>4. \A src \in {"entry"} \X Changing(ask) : on(src) \subseteq SidesHeld(ask)
      BY RowsOnTheHeld
    <3>5. moved' = moved
      <4>1. moved' = UNION {on(src)' : src \in {"entry"} \X Changing(ask)'}
        OBVIOUS
      <4> HIDE DEF on
      <4> QED
        BY <1>1, <3>3, <4>1
    <3>6. moved \subseteq SidesHeld(ask)
      <4> HIDE DEF on
      <4> QED
        BY <3>4
    <3>7. \A a \in moved : Archived(a)' <=> Archived(a)
      <4> HIDE DEF moved
      <4> QED
        BY <1>1, <3>6 DEF Archived
    <3> HIDE DEF moved, closing
    <3> QED
      BY <3>1, <3>2, <3>5, <3>7
  <2> QED
    BY <2>1, <2>2
<1>6. PostingFrom(posted', wants, closing, account') = PostingFrom(posted, wants, closing, account)
  <2>1. \A src \in DOMAIN wants : wants[src] \in Slot /\ posted'[src] = posted[src]
    BY <1>1, <1>2
  <2>2. \A a \in closing : a \in SidesHeld(ask)
    BY ClosesTheHeld
  <2> HIDE DEF wants, closing
  <2>3. \A a \in closing : /\ Closable(account[a]) /\ account'[a] = account[a]
                           /\ posted'[<<"closing", a>>] = posted[<<"closing", a>>]
                           /\ \A src \in NotClosing, day \in Days :
                                posted'[src][<<a, day>>] = posted[src][<<a, day>>]
    <3> TAKE a \in closing
    <3>1. a \in Accounts \ touched /\ account'[a] = account[a]
      BY <1>1, <2>2
    <3>2. Closable(account[a])
      BY <1>0, <3>1
    <3>3. /\ posted'[<<"closing", a>>] = posted[<<"closing", a>>]
          /\ \A src \in NotClosing, day \in Days :
               posted'[src][<<a, day>>] = posted[src][<<a, day>>]
      BY <3>1 DEF Apart
    <3> QED  BY <3>1, <3>2, <3>3
  <2> QED
    BY <1>0, <1>2, <2>1, <2>3, PostingSame
<1>7. EntryPosting(ask)' = EntryPosting(ask)
  BY <1>0, <1>4, <1>5, <1>6, PostingThen
<1>8. [e \in Changing(ask) |-> NewRow(ask, e)]' = [e \in Changing(ask) |-> NewRow(ask, e)]
  <2>1. [e \in Changing(ask) |-> NewRow(ask, e)]' = [e \in Changing(ask)' |-> NewRow(ask, e)']
    OBVIOUS
  <2>2. \A e \in Changing(ask) : NewRow(ask, e)' = NewRow(ask, e)
    BY <1>1, <1>2
  <2> QED
    BY <1>1, <2>1, <2>2
<1> QED
  BY <1>7, <1>8 DEF EntryChange

LEMMA AccountChangeSame ==
  ASSUME TypeOK, TypeOK', NEW ask \in Asks, ~ OnEntries(ask), Kept(ask.account),
         NEW touched, NEW es, Apart(touched, es), ask.account \notin touched
  PROVE  NewAccount(ask)' = NewAccount(ask) /\ AccountChange(ask)' = AccountChange(ask)
<1> DEFINE a == ask.account
           wants == AccountWants(ask)
<1>0. /\ posted \in Postings /\ posted' \in Postings /\ a \in Accounts
      /\ zone' = zone /\ now' = now /\ account'[a] = account[a]
  BY AskIs DEF TypeOK, Postings, Slot, Apart
<1>1. NewAccount(ask)' = NewAccount(ask)
  BY <1>0 DEF NewAccount, Unopened
<1>2. wants' = wants
  BY <1>1 DEF AccountWants, OpeningOf, NoWants, Pair, Nothing
<1>3. NewAccounts(ask)[a] = NewAccount(ask) /\ NewAccounts(ask)'[a] = NewAccount(ask)
  BY <1>0, <1>1 DEF NewAccounts, TypeOK
<1>4. AccountPosting(ask)' = PostingFrom(posted', wants', {a}, NewAccounts(ask)')
  <2>1. AccountPosting(ask)' = Posting(AccountWants(ask), {a}, NewAccounts(ask))'
    BY <1>1, <1>3 DEF AccountPosting, AccountWants, NewAccounts
  <2> QED
    BY <1>0, <2>1, AccountPostingThen
<1>5. AccountPosting(ask) = PostingFrom(posted, wants, {a}, NewAccounts(ask))
  <2>1. Posting(wants, {a}, NewAccounts(ask)) = PostingFrom(posted, wants, {a}, NewAccounts(ask))
    BY DEF Posting, PostingFrom, ClosedAfter
  <2> QED
    BY <2>1, AccountPostingIs
<1>6. /\ DOMAIN wants \subseteq NotClosing
      /\ DOMAIN wants = IF ask.op = "opening" THEN {<<"opening", a>>} ELSE {}
      /\ \A src \in DOMAIN wants : wants[src] \in Slot
      /\ \A b \in {a} : Closable(NewAccounts(ask)[b])
  BY AccountWantsAre
<1> HIDE DEF wants
<1>7. PostingFrom(posted', wants, {a}, NewAccounts(ask)') = PostingFrom(posted, wants, {a}, NewAccounts(ask))
  <2>1. a \in Accounts \ touched
    BY <1>0
  <2>5. posted'[<<"opening", a>>] = posted[<<"opening", a>>]
    BY <2>1 DEF Apart
  <2>2. \A src \in DOMAIN wants : wants[src] \in Slot /\ posted'[src] = posted[src]
    BY <1>6, <2>5
  <2>3. /\ Closable(NewAccounts(ask)[a]) /\ NewAccounts(ask)'[a] = NewAccounts(ask)[a]
        /\ posted'[<<"closing", a>>] = posted[<<"closing", a>>]
        /\ \A src \in NotClosing, day \in Days : posted'[src][<<a, day>>] = posted[src][<<a, day>>]
    BY <1>3, <1>6, <2>1 DEF Apart
  <2>4. {a} \in SUBSET Accounts
    BY <1>0
  <2> QED
    BY <1>0, <1>6, <2>2, <2>3, <2>4, PostingSame
<1>8. AccountPosting(ask)' = AccountPosting(ask)
  BY <1>2, <1>4, <1>5, <1>7
<1>9. AccountChange(ask)' = AccountChange(ask)
  BY <1>1, <1>8 DEF AccountChange
<1> QED
  BY <1>1, <1>9
-------------------------------------------------------------------------------
(* What a request decided stands while others write what it does not hold. *)
(* Who looks for duplicates holds everyone else from making any: an entry  *)
(* that is live afterwards is one that was live before.                    *)
NoneMade == \A x \in Entries : entry'[x].status = "live" => entry'[x] = entry[x]

LEMMA PreparableSame ==
  ASSUME NEW d, NEW allowed, WellFormed(d), \A a \in Sides(d) : account'[a] = account[a],
         Preparable(d, allowed)
  PROVE  Preparable(d, allowed)'
<1>1. \A a \in Sides(d) : (Kept(a)' <=> Kept(a)) /\ (Archived(a)' <=> Archived(a))
  BY DEF Kept, Archived
<1>2. Even(d)' <=> Even(d)
  <2>1. CASE d.type = "transfer"
    <3>1. d.from \in Sides(d) /\ d.to \in Sides(d)
      BY <2>1, LedgerAssumption DEF WellFormed, Sides
    <3> QED
      BY <3>1 DEF Even
  <2>2. CASE d.type # "transfer"
    BY <2>2 DEF Even
  <2> QED
    BY <2>1, <2>2
<1> QED
  BY <1>1, <1>2 DEF Preparable

LEMMA NoDuplicateSame ==
  ASSUME TypeOK, NEW ask \in Asks, OnEntries(ask), NEW touched, NEW es, Apart(touched, es),
         touched \cap SidesHeld(ask) = {}, es \cap ask.entries = {},
         ask.op \in Voiding \/ NoneMade, NoDuplicate(ask)
  PROVE  NoDuplicate(ask)'
<1>1. /\ \A e \in ask.entries : /\ entry'[e] = entry[e] /\ e \in Entries
                                /\ Wanting(ask, e)' = Wanting(ask, e)
      /\ Changing(ask)' = Changing(ask)
      /\ ask.op \in EntryOps
  BY NewRowSame, AskIs
<1>2. CASE ask.op \in {"create", "update", "restore"}
  <2>1. NoneMade
    BY <1>2 DEF Voiding
  <2>2. \A e \in ask.entries : Twins(e, Wanting(ask, e), {e})' \subseteq Twins(e, Wanting(ask, e), {e})
    <3> TAKE e \in ask.entries
    <3> DEFINE d == Wanting(ask, e)
    <3>1. d' = d
      BY <1>1
    <3> HIDE DEF d
    <3>2. Twins(e, d, {e})' \subseteq Twins(e, d, {e})
      BY <2>1, <3>1 DEF Twins, NoneMade, Alike, OriginsDiffer
    <3> QED
      BY <3>2 DEF d
  <2>3. NoDuplicate(ask) <=> (ask.allow \/ \A e \in ask.entries : Twins(e, Wanting(ask, e), {e}) = {})
    BY <1>2 DEF NoDuplicate
  <2>4. NoDuplicate(ask)' <=> (ask.allow \/ \A e \in ask.entries : Twins(e, Wanting(ask, e), {e})' = {})
    BY <1>2 DEF NoDuplicate
  <2> QED
    BY <2>2, <2>3, <2>4
<1>3. CASE ask.op = "editMany"
  <2>1. NoneMade
    BY <1>3 DEF Voiding
  <2> DEFINE live == {e \in Changing(ask) : entry[e].status = "live"}
             but == Changing(ask)
  <2>2. live \subseteq ask.entries
    BY DEF Changing
  <2>3. live' = live
    BY <1>1, <2>2 DEF Changing
  <2>4. NoDuplicate(ask) <=> (ask.allow \/ \A e \in live :
               /\ Twins(e, Wanting(ask, e), but) = {}
               /\ \A f \in live \ {e} :
                    Alike(Wanting(ask, e), Wanting(ask, f)) => OriginsDiffer(e, f))
    BY <1>3 DEF NoDuplicate
  <2>5. NoDuplicate(ask)' <=> (ask.allow \/ \A e \in live' :
               /\ Twins(e, Wanting(ask, e), but)' = {}
               /\ \A f \in live' \ {e} :
                    Alike(Wanting(ask, e)', Wanting(ask, f)') => OriginsDiffer(e, f))
    BY <1>3 DEF NoDuplicate, Alike, OriginsDiffer
  <2>6. \A e \in ask.entries : Twins(e, Wanting(ask, e), but)' \subseteq Twins(e, Wanting(ask, e), but)
    <3> TAKE e \in ask.entries
    <3> DEFINE d == Wanting(ask, e)
    <3>1. d' = d /\ but' = but
      BY <1>1
    <3> HIDE DEF d, but
    <3>2. Twins(e, d, but)' \subseteq Twins(e, d, but)
      BY <2>1, <3>1 DEF Twins, NoneMade, Alike, OriginsDiffer
    <3> QED
      BY <3>2 DEF d
  <2> HIDE DEF live, but
  <2>7. \A e \in live : Wanting(ask, e)' = Wanting(ask, e) /\ e \in ask.entries
    BY <1>1, <2>2
  <2> QED
    BY <2>3, <2>4, <2>5, <2>6, <2>7
<1>4. CASE ask.op \in Voiding
  BY <1>4 DEF NoDuplicate, Voiding
<1> QED
  BY <1>1, <1>2, <1>3, <1>4 DEF EntryOps, Voiding

LEMMA PatchableSame ==
  ASSUME TypeOK, NEW ask \in Asks, ask.op = "editMany", NEW e \in ask.entries,
         entry'[e] = entry[e], \A a \in SidesHeld(ask) : account'[a] = account[a],
         Patchable(e, ask.patch)
  PROVE  Patchable(e, ask.patch)'
<1> DEFINE d == entry[e].draft
           next == Patched(d, ask.patch)
           patch == ask.patch
<1>1. /\ OnEntries(ask) /\ e \in Entries /\ patch \in Patches /\ WellFormed(d)
  BY AskIs DEF EntryOps, TypeOK
<1>2. next = Wanting(ask, e) /\ WellFormed(next) /\ Sides(next) \subseteq SidesHeld(ask)
  BY <1>1, WantingIs DEF Wanting
<1>3. d' = d /\ next' = next
  BY DEF Patched
<1>4. (patch.account # Nobody /\ d.type # "transfer") => patch.account \in Sides(next)
  BY <1>1 DEF Patched, Sides, WellFormed, EntryTypes
<1>5. Stored(e)' <=> Stored(e)
  BY DEF Stored
<1>6. Preparable(next, Sides(d))
  BY DEF Patchable
<1>7. Preparable(next, Sides(d))'
  <2> DEFINE allowed == Sides(d)
  <2>1. allowed' = allowed
    BY <1>3
  <2>2. \A a \in Sides(next) : account'[a] = account[a]
    BY <1>2
  <2>3. Preparable(next, allowed)
    BY <1>6
  <2> HIDE DEF next, allowed
  <2>4. ASSUME NEW f, f = next, NEW g, g = allowed PROVE Preparable(f, g)'
    BY <1>2, <2>2, <2>3, <2>4, PreparableSame
  <2>5. \A f, g : f = next' /\ g = allowed' => Preparable(f, g)'
    BY <1>3, <2>1, <2>4
  <2> QED
    BY <2>5 DEF allowed, Preparable, Even, Kept, Archived
<1>8. Patchable(e, patch)' <=>
        /\ Stored(e)'
        /\ d'.type = "transfer" => patch.account = Nobody /\ patch.type = ""
        /\ Preparable(next, Sides(d))'
        /\ (patch.account # Nobody /\ d'.type # "transfer")
             => account'[patch.account].currency \in {entry'[e].fromCurrency, entry'[e].toCurrency}
  BY DEF Patchable
<1>9. /\ d.type = "transfer" => patch.account = Nobody /\ patch.type = ""
      /\ (patch.account # Nobody /\ d.type # "transfer")
             => account[patch.account].currency \in {entry[e].fromCurrency, entry[e].toCurrency}
      /\ Stored(e)
  BY DEF Patchable
<1> HIDE DEF d, next
<1>10. (patch.account # Nobody /\ d.type # "transfer") => account'[patch.account] = account[patch.account]
  BY <1>2, <1>4
<1> QED
  BY <1>3, <1>5, <1>7, <1>8, <1>9, <1>10
LEMMA EntryAllowedSame ==
  ASSUME TypeOK, NEW r, NEW ask \in Asks, ask = req[r].ask, OnEntries(ask), req'[r].ask = ask, req'[r].before = req[r].before,
         NEW touched, NEW es, Apart(touched, es),
         touched \cap SidesHeld(ask) = {}, es \cap ask.entries = {},
         ask.op \in Voiding \/ NoneMade, Unchanged(r)', EntryAllowed(r)
  PROVE  EntryAllowed(r)'
<1>1. /\ \A e \in ask.entries : /\ entry'[e] = entry[e] /\ e \in Entries
                                /\ Wanting(ask, e)' = Wanting(ask, e)
      /\ \A a \in SidesHeld(ask) : account'[a] = account[a]
      /\ Changing(ask)' = Changing(ask)
      /\ ask.op \in EntryOps
  <2>1. /\ \A e \in ask.entries : /\ entry'[e] = entry[e] /\ e \in Entries
                                  /\ Wanting(ask, e)' = Wanting(ask, e)
        /\ \A a \in SidesHeld(ask) : account'[a] = account[a]
        /\ Changing(ask)' = Changing(ask)
    BY NewRowSame
  <2> QED
    BY <2>1, AskIs
<1>2. Changing(ask)' # {} /\ NoDuplicate(ask)'
  <2>1. Changing(ask) # {} /\ NoDuplicate(ask)
    BY DEF EntryAllowed
  <2> QED
    BY <1>1, <2>1, NoDuplicateSame
<1>3. ASSUME NEW e \in ask.entries, NEW allowed, NEW d, d = Wanting(ask, e), Preparable(d, allowed)
      PROVE  Wanting(ask, e)' = d /\ Preparable(d, allowed)'
  <2>1. WellFormed(d) /\ \A a \in Sides(d) : account'[a] = account[a]
    BY <1>1, <1>3, WantingIs
  <2> QED
    BY <1>1, <1>3, <2>1, PreparableSame
<1>4. ask = req'[r].ask /\ \A e : SidesBefore(r, e)' = SidesBefore(r, e)
  BY DEF SidesBefore
<1>5. CASE ask.op = "create"
  <2>1. PICK e \in Entries : ask.entries = {e}
    BY <1>5, AskIs
  <2>2. Wanting(ask, e) = ask.draft /\ Wanting(ask, e)' = ask.draft
    BY <1>5 DEF Wanting
  <2>3. Preparable(ask.draft, {})
    BY <1>5 DEF EntryAllowed
  <2>4. Preparable(ask.draft, {})'
    BY <1>3, <2>1, <2>2, <2>3
  <2> QED
    BY <1>2, <1>4, <1>5, <2>4 DEF EntryAllowed
<1>6. CASE ask.op \in {"update", "restore"}
  <2>1. \A e \in ask.entries : Preparable(Wanting(ask, e), SidesBefore(r, e))
    BY <1>6 DEF EntryAllowed
  <2>2. \A e \in ask.entries : Preparable(Wanting(ask, e), SidesBefore(r, e))'
    <3> TAKE e \in ask.entries
    <3>1. \A allowed, d : allowed = SidesBefore(r, e) /\ d = Wanting(ask, e)
            => Wanting(ask, e)' = d /\ SidesBefore(r, e)' = allowed /\ Preparable(d, allowed)'
      BY <1>3, <1>4, <2>1
    <3> QED
      BY <3>1 DEF Preparable, Even, Kept, Archived
  <2> QED
    BY <1>2, <1>4, <1>6, <2>2 DEF EntryAllowed
<1>7. CASE ask.op = "editMany"
  <2>1. \A e \in ask.entries : Patchable(e, ask.patch)
    BY <1>7 DEF EntryAllowed
  <2>2. \A e \in ask.entries : Patchable(e, ask.patch)'
    BY <1>1, <1>7, <2>1, PatchableSame
  <2> QED
    BY <1>2, <1>4, <1>7, <2>2 DEF EntryAllowed
<1>8. CASE ask.op \in Voiding
  BY <1>2, <1>4, <1>8 DEF EntryAllowed, Voiding
<1> QED
  BY <1>1, <1>5, <1>6, <1>7, <1>8 DEF EntryOps, Voiding

LEMMA AccountAllowedSame ==
  ASSUME TypeOK, TypeOK', NEW r, NEW ask \in Asks, ask = req[r].ask, ~ OnEntries(ask), req'[r].ask = ask, req'[r].before = req[r].before,
         NEW touched, NEW es, Apart(touched, es), ask.account \notin touched,
         Unchanged(r)', AccountAllowed(r)
  PROVE  AccountAllowed(r)'
<1> DEFINE a == ask.account
<1>1. a \in Accounts \ touched /\ Kept(a)
  BY AskIs DEF AccountAllowed
<1>2. /\ account'[a] = account[a] /\ NewAccount(ask)' = NewAccount(ask)
      /\ \A e \in Entries : /\ a \in written'[<<"entry", e>>] <=> a \in written[<<"entry", e>>]
                            /\ (entry'[e].status # "none" /\ a \in Sides(entry'[e].draft)) <=> e \in EntriesOn(a)
  BY <1>1, AccountChangeSame DEF Apart
<1>3. /\ Kept(a)' /\ (Archived(a)' <=> Archived(a))
  BY <1>1, <1>2 DEF Kept, Archived
<1>4. EntriesOn(a)' = EntriesOn(a)
  BY <1>2 DEF EntriesOn, Stored
<1>5. ask = req'[r].ask
  OBVIOUS
<1> QED
  BY <1>2, <1>3, <1>4, <1>5 DEF AccountAllowed

(* A decision is what is allowed and what is to be written.                *)
Decided(r, ask) ==
  /\ IF OnEntries(ask) THEN EntryAllowed(r) ELSE AccountAllowed(r)
  /\ req[r].change = IF OnEntries(ask) THEN EntryChange(ask) ELSE AccountChange(ask)

LEMMA DecidedSame ==
  ASSUME Books, TypeOK', NEW r, NEW ask \in Asks, ask = req[r].ask,
         req'[r].ask = ask, req'[r].before = req[r].before,
         NEW touched, NEW es, Apart(touched, es),
         touched \cap Touches(ask) = {}, es \cap EntriesOf(ask) = {},
         (OnEntries(ask) /\ ask.op \notin Voiding) => NoneMade, Unchanged(r)',
         IF OnEntries(ask) THEN EntryAllowed(r) ELSE AccountAllowed(r),
         req'[r].change = IF OnEntries(ask) THEN EntryChange(ask) ELSE AccountChange(ask)
  PROVE  Decided(r, ask)'
<1>1. TypeOK
  BY DEF Books
<1>2. CASE OnEntries(ask)
  <2>1. /\ touched \cap SidesHeld(ask) = {} /\ es \cap ask.entries = {}
        /\ ask.op \in Voiding \/ NoneMade
    BY <1>2 DEF Touches, EntriesOf
  <2>2. EntryChange(ask)' = EntryChange(ask) /\ EntryAllowed(r)'
    BY <1>1, <1>2, <2>1, EntryChangeSame, EntryAllowedSame
  <2> QED
    BY <1>2, <2>2 DEF Decided
<1>3. CASE ~ OnEntries(ask)
  <2>1. ask.account \notin touched /\ Kept(ask.account)
    BY <1>3 DEF Touches, AccountAllowed
  <2>2. AccountChange(ask)' = AccountChange(ask) /\ AccountAllowed(r)'
    BY <1>1, <1>3, <2>1, AccountChangeSame, AccountAllowedSame
  <2> QED
    BY <1>3, <2>2 DEF Decided
<1> QED
  BY <1>2, <1>3
-------------------------------------------------------------------------------
(* What a request knows at each of its steps.                              *)

Busy(r) == req[r].at \in {"read", "lock", "commit"}
Locking(r) == req[r].at \in {"lock", "commit"}

Requested(x) ==
  /\ x = [at |-> x.at, ask |-> x.ask, saw |-> x.saw, before |-> x.before, keys |-> x.keys,
          change |-> x.change]
  /\ x.at \in {"idle", "read", "lock", "commit", "done"}
  /\ IF x.at \in {"idle", "done"} THEN x.ask = <<>> ELSE x.ask \in Asks
  /\ x.keys \subseteq LockKeys
  /\ x.at = "commit" => x.keys = {}

(* A row still at the version it was shown at still says what it said.     *)
Shown(r) ==
  Busy(r) =>
    \A row \in NamedRows(req[r].ask) :
      /\ req[r].saw[row].at \in Nat /\ req[r].saw[row].at <= version[row]
      /\ req[r].saw[row].at = version[row] => req[r].saw[row].says = RowNow(row)

(* An entry write went on only with the rows its client was shown.         *)
ReadAgain(r) ==
  Locking(r) /\ OnEntries(req[r].ask) =>
    \A row \in NamedRows(req[r].ask) : req[r].before[row].says = req[r].saw[row].says

(* An entry being created is nobody else's; any other one is stored.       *)
Owns(r) ==
  Busy(r) /\ OnEntries(req[r].ask) =>
    \A e \in req[r].ask.entries :
      IF req[r].ask.op = "create"
      THEN /\ ~ Stored(e)
           /\ \A s \in Requests \ {r} : Busy(s) /\ OnEntries(req[s].ask) => e \notin req[s].ask.entries
      ELSE Stored(e)

(* The locks worked out before any was held are those that are needed, as  *)
(* long as the rows are those that were shown.                             *)
Covered(r) ==
  Locking(r) /\ Unchanged(r) =>
    \A key \in LocksOf(req[r].ask) : key \in req[r].keys \/ lock[key] = r

Certain(r) == req[r].at = "commit" => Decided(r, req[r].ask)

Known(r) == Requested(req[r]) /\ Shown(r) /\ ReadAgain(r) /\ Owns(r) /\ Covered(r) /\ Certain(r)

WritesTyped ==
  /\ version \in [Rows -> Nat]
  /\ lock \in [LockKeys -> Requests \cup {Free}]
  /\ req = [r \in Requests |-> req[r]]

WritesInv ==
  /\ Books /\ ClosingsSettled /\ Tidy /\ WritesTyped
  /\ \A r \in Requests : Known(r)

-------------------------------------------------------------------------------
(* What the commit of a request finds and leaves.                          *)

LEMMA NamedRowsAre ==
  ASSUME NEW ask \in Asks
  PROVE  /\ OnEntries(ask) => NamedRows(ask) = IF ask.op = "create" THEN {} ELSE {"entry"} \X ask.entries
         /\ ~ OnEntries(ask) => NamedRows(ask) = IF ask.op = "reconcile" THEN {} ELSE {<<"account", ask.account>>}
         /\ NamedRows(ask) \subseteq Rows
<1>1. CASE OnEntries(ask)
  <2>1. ask.op \in EntryOps /\ ask.entries \in SUBSET Entries
    BY <1>1, AskIs
  <2> QED
    <3>1. NamedRows(ask) = IF ask.op = "create" THEN {} ELSE {"entry"} \X ask.entries
      BY <1>1, <2>1 DEF NamedRows, EntryOps
    <3>2. {"entry"} \X ask.entries \subseteq Rows
      BY <2>1 DEF Rows
    <3> QED
      BY <1>1, <3>1, <3>2
<1>2. CASE ~ OnEntries(ask)
  <2>1. ask.op \in AccountOps /\ ask.account \in Accounts
    BY <1>2, AskIs
  <2> QED
    BY <1>2, <2>1 DEF NamedRows, AccountOps, Rows
<1> QED
  BY <1>1, <1>2

(* A commit finds the rows as they were shown, the locks its own, and what *)
(* it decided still decided.                                               *)
LEMMA CommitFinds ==
  ASSUME WritesInv, NEW r \in Requests, req[r].at = "commit", NEW ask, ask = req[r].ask
  PROVE  /\ ask \in Asks /\ Decided(r, ask) /\ Unchanged(r)
         /\ \A key \in LocksOf(ask) : lock[key] = r
         /\ \A row \in NamedRows(ask) : RowNow(row) = req[r].saw[row].says
         /\ OnEntries(ask) => Placed(r, ask)
         /\ ~ OnEntries(ask) => Kept(ask.account)
<1>1. Requested(req[r]) /\ Shown(r) /\ ReadAgain(r) /\ Owns(r) /\ Covered(r) /\ Certain(r)
  BY DEF WritesInv, Known
<1>2. ask \in Asks /\ req[r].keys = {} /\ Busy(r) /\ Locking(r) /\ Decided(r, ask)
  BY <1>1 DEF Requested, Busy, Locking, Certain
<1>3. Unchanged(r) /\ (~ OnEntries(ask) => Kept(ask.account))
  BY <1>2 DEF Decided, EntryAllowed, AccountAllowed
<1>4. \A key \in LocksOf(ask) : lock[key] = r
  BY <1>1, <1>2, <1>3 DEF Covered
<1>5. \A row \in NamedRows(ask) : RowNow(row) = req[r].saw[row].says
  BY <1>1, <1>2, <1>3 DEF Shown, Unchanged
<1>6. ASSUME OnEntries(ask) PROVE Placed(r, ask)
  <2>1. NamedRows(ask) = IF ask.op = "create" THEN {} ELSE {"entry"} \X ask.entries
    BY <1>2, <1>6, NamedRowsAre
  <2>2. \A row \in NamedRows(ask) : req[r].before[row].says = RowNow(row)
    BY <1>1, <1>2, <1>5, <1>6 DEF ReadAgain
  <2>3. ASSUME ask.op # "create", NEW e \in ask.entries
        PROVE  SidesBefore(r, e) = Sides(entry[e].draft)
    <3>1. <<"entry", e>> \in NamedRows(ask)
      BY <2>1, <2>3
    <3>2. req[r].before[<<"entry", e>>].says = RowNow(<<"entry", e>>)
      BY <2>2, <3>1
    <3>3. RowNow(<<"entry", e>>) = entry[e]
      BY DEF RowNow
    <3> QED
      BY <3>2, <3>3 DEF SidesBefore
  <2>4. ask.op = "create" <=> \E e \in ask.entries : ~ Stored(e)
    <3>1. ask.op = "create" => \E e \in ask.entries : TRUE
      BY <1>2, AskIs
    <3> QED
      BY <1>1, <1>2, <1>6, <3>1 DEF Owns
  <2> QED
    BY <2>3, <2>4 DEF Placed
<1> QED
  BY <1>2, <1>3, <1>4, <1>5, <1>6

(* It is one of Ledger's own actions, on what its request holds.           *)
LEMMA CommitIsAtomic ==
  ASSUME WritesInv, NEW r \in Requests, Commit(r), NEW ask, ask = req[r].ask
  PROVE  /\ Next
         /\ Apart(Touches(ask), EntriesOf(ask))
         /\ OnEntries(ask) => EntryWritten(ask)
         /\ ~ OnEntries(ask) => IF ask.op = "remove" THEN AccountRemoved(ask) ELSE AccountWritten(ask)
<1>1. /\ Books /\ TypeOK /\ Tidy /\ req[r].at = "commit"
  BY DEF WritesInv, Books, Commit
<1>2. /\ ask \in Asks /\ Decided(r, ask)
      /\ OnEntries(ask) => Placed(r, ask)
      /\ ~ OnEntries(ask) => Kept(ask.account)
  BY <1>1, CommitFinds
<1>3. CASE OnEntries(ask)
  <2>1. EntryAllowed(r) /\ req[r].change = EntryChange(ask)
    BY <1>2, <1>3 DEF Decided
  <2>2. EntryWritten(ask)
    BY <1>1, <1>2, <1>3, <2>1, EntryCommits
  <2>3. EntryStep
    BY <1>1, <1>2, <1>3, <2>1, <2>2, EntryWriteIsAtomic
  <2>4. Apart(SidesHeld(ask), ask.entries)
    BY <1>1, <1>2, <1>3, <2>2, EntryWriteApart
  <2> QED
    BY <1>3, <2>2, <2>3, <2>4 DEF Next, Touches, EntriesOf
<1>4. CASE ~ OnEntries(ask)
  <2>1. AccountAllowed(r) /\ req[r].change = AccountChange(ask)
    BY <1>2, <1>4 DEF Decided
  <2>2. IF ask.op = "remove" THEN AccountRemoved(ask) ELSE AccountWritten(ask)
    BY <1>1, <1>2, <1>4, <2>1, AccountCommits
  <2>3. AccountStep
    BY <1>1, <1>2, <1>4, <2>1, <2>2, AccountWriteIsAtomic
  <2>4. Apart({ask.account}, {})
    BY <1>1, <1>2, <1>4, <2>2, AccountWriteApart
  <2> QED
    BY <1>4, <2>2, <2>3, <2>4 DEF Next, Touches, EntriesOf
<1> QED
  BY <1>3, <1>4
(* The versions it raises are those of rows its request holds, and a row   *)
(* whose version it leaves is as it was.                                   *)
Named(ask) == ({"entry"} \X EntriesOf(ask)) \cup (IF OnEntries(ask) THEN {} ELSE {<<"account", ask.account>>})

LEMMA CommitBumps ==
  ASSUME WritesInv, NEW r \in Requests, Commit(r), NEW ask, ask = req[r].ask
  PROVE  /\ version' \in [Rows -> Nat]
         /\ \A row \in Rows : version[row] <= version'[row]
         /\ \A row \in Rows \ Named(ask) : version'[row] = version[row]
         /\ \A row \in Rows : version'[row] = version[row] => RowNow(row)' = RowNow(row)
<1> DEFINE c == req[r].change
<1>1. /\ ask \in Asks /\ Decided(r, ask) /\ version \in [Rows -> Nat]
      /\ account' = [a \in Accounts |-> IF a \in DOMAIN c.accounts THEN c.accounts[a] ELSE account[a]]
      /\ entry' = [e \in Entries |-> IF e \in DOMAIN c.entries THEN c.entries[e] ELSE entry[e]]
      /\ version' = [row \in Rows |-> IF Bumps(row, c) THEN version[row] + 1 ELSE version[row]]
  BY CommitFinds DEF Commit, WritesInv, WritesTyped
<1>2. DOMAIN <<>> = {}
  OBVIOUS
<1>3. /\ OnEntries(ask) => DOMAIN c.entries = Changing(ask) /\ DOMAIN c.accounts = {}
      /\ ~ OnEntries(ask) => DOMAIN c.entries = {} /\ DOMAIN c.accounts \subseteq {ask.account}
  <2>1. CASE OnEntries(ask)
    <3>1. c = EntryChange(ask)
      BY <1>1, <2>1 DEF Decided
    <3>2. c.entries = [e \in Changing(ask) |-> NewRow(ask, e)] /\ c.accounts = <<>>
      BY <3>1 DEF EntryChange
    <3> QED
      BY <1>2, <2>1, <3>2
  <2>2. CASE ~ OnEntries(ask)
    <3>1. c = AccountChange(ask)
      BY <1>1, <2>2 DEF Decided
    <3>2. c.entries = <<>> /\ c.accounts = IF ask.op = "reconcile" THEN <<>>
                                           ELSE [x \in {ask.account} |-> NewAccount(ask)]
      BY <3>1 DEF AccountChange
    <3> QED
      BY <1>2, <2>2, <3>2
  <2> QED
    BY <2>1, <2>2
<1> HIDE DEF c
<1>4. Changing(ask) \subseteq ask.entries
  BY DEF Changing
<1>5. \A row \in Rows : Bumps(row, c) => row \in Named(ask)
  <2> SUFFICES ASSUME NEW row \in Rows, Bumps(row, c) PROVE row \in Named(ask)
    OBVIOUS
  <2>1. CASE row[1] = "entry" /\ row[2] \in DOMAIN c.entries
    <3>1. OnEntries(ask) /\ row[2] \in ask.entries /\ row = <<"entry", row[2]>>
      BY <1>3, <1>4, <2>1 DEF Rows
    <3> QED
      BY <3>1 DEF Named, EntriesOf
  <2>2. CASE row[1] = "account" /\ row[2] \in DOMAIN c.accounts
    <3>1. ~ OnEntries(ask) /\ row[2] = ask.account /\ row = <<"account", row[2]>>
      BY <1>3, <2>2 DEF Rows
    <3> QED
      BY <3>1 DEF Named
  <2> QED
    BY <2>1, <2>2 DEF Bumps
<1>6. \A row \in Rows : /\ version[row] \in Nat
                        /\ version'[row] = IF Bumps(row, c) THEN version[row] + 1 ELSE version[row]
  BY <1>1
<1>7. /\ version' \in [Rows -> Nat]
      /\ \A row \in Rows : version[row] <= version'[row]
      /\ \A row \in Rows \ Named(ask) : version'[row] = version[row]
  BY <1>1, <1>5, <1>6
<1>8. ASSUME NEW row \in Rows, version'[row] = version[row] PROVE RowNow(row)' = RowNow(row)
  <2>1. ~ Bumps(row, c)
    BY <1>6, <1>8
  <2>2. CASE row[1] = "entry"
    <3>1. row[2] \in Entries /\ row[2] \notin DOMAIN c.entries
      BY <2>1, <2>2 DEF Bumps, Rows
    <3>2. entry'[row[2]] = entry[row[2]]
      BY <1>1, <3>1
    <3> QED
      BY <2>2, <3>2 DEF RowNow
  <2>3. CASE row[1] # "entry"
    <3>1. row[1] = "account" /\ row[2] \in Accounts /\ row[2] \notin DOMAIN c.accounts
      BY <2>1, <2>3 DEF Bumps, Rows
    <3>2. account'[row[2]] = account[row[2]]
      BY <1>1, <3>1
    <3> QED
      BY <2>3, <3>2 DEF RowNow
  <2> QED
    BY <2>2, <2>3
<1> QED
  BY <1>7, <1>8

(* Whoever voids entries or works on an account makes no entry live.       *)
LEMMA NoneMadeLive ==
  ASSUME WritesInv, NEW r \in Requests, Commit(r), NEW ask, ask = req[r].ask,
         OnEntries(ask) => ask.op \in Voiding
  PROVE  NoneMade
<1>1. ask \in Asks /\ TypeOK /\ req[r].at = "commit"
  BY CommitFinds DEF Commit, WritesInv, Books
<1>2. CASE OnEntries(ask)
  <2>1. EntryWritten(ask)
    BY <1>2, CommitIsAtomic
  <2>2. \A e \in Changing(ask) : NewRow(ask, e).status = "deleted"
    <3>1. \A e \in Changing(ask) : e \in ask.entries
      BY DEF Changing
    <3> QED
      BY <1>1, <1>2, <3>1, NewRowIs DEF Voiding
  <2> QED
    BY <2>1, <2>2 DEF EntryWritten, NoneMade
<1>3. CASE ~ OnEntries(ask)
  <2>1. entry' = entry
    BY <1>3, CommitIsAtomic DEF AccountRemoved, AccountWritten
  <2> QED
    BY <2>1 DEF NoneMade
<1> QED
  BY <1>2, <1>3

(* What is stored stays stored.                                            *)
LEMMA StaysStored ==
  ASSUME WritesInv, NEW r \in Requests, Commit(r), NEW e \in Entries, Stored(e)
  PROVE  Stored(e)'
<1> DEFINE ask == req[r].ask
<1>1. ask \in Asks /\ TypeOK
  BY CommitFinds DEF Commit, WritesInv, Books
<1>2. CASE OnEntries(ask)
  <2>1. EntryWritten(ask)
    BY <1>2, CommitIsAtomic
  <2>2. ASSUME e \in Changing(ask) PROVE NewRow(ask, e).status # "none"
    <3>1. e \in ask.entries /\ ask.op \in EntryOps
      BY <1>1, <1>2, <2>2, AskIs DEF Changing
    <3> QED
      BY <1>1, <1>2, <3>1, NewRowIs DEF EntryOps, Stored
  <2> HIDE DEF ask
  <2> QED
    BY <2>1, <2>2 DEF EntryWritten, Stored
<1>3. CASE ~ OnEntries(ask)
  <2>1. entry' = entry
    BY <1>3, CommitIsAtomic DEF AccountRemoved, AccountWritten
  <2> QED
    BY <2>1 DEF Stored
<1> QED
  BY <1>2, <1>3
-------------------------------------------------------------------------------
(* What one request knows, through the steps of the others.                *)

(* Two requests that commit hold nothing in common, and not both of them   *)
(* look for duplicates.                                                    *)
LEMMA CommitsExclude ==
  ASSUME WritesInv, NEW r \in Requests, NEW s \in Requests, r # s,
         req[r].at = "commit", req[s].at = "commit",
         NEW mine, mine = req[r].ask, NEW theirs, theirs = req[s].ask
  PROVE  /\ Touches(theirs) \cap Touches(mine) = {}
         /\ EntriesOf(theirs) \cap EntriesOf(mine) = {}
         /\ Named(theirs) \cap NamedRows(mine) = {}
         /\ OnEntries(mine) /\ mine.op \notin Voiding /\ OnEntries(theirs) => theirs.op \in Voiding
<1>1. /\ mine \in Asks /\ theirs \in Asks
      /\ \A key \in LocksOf(mine) : lock[key] = r
      /\ \A key \in LocksOf(theirs) : lock[key] = s
      /\ Owns(r) /\ Owns(s) /\ Busy(r) /\ Busy(s)
  BY CommitFinds DEF WritesInv, Known, Busy
<1>2. LocksOf(mine) \cap LocksOf(theirs) = {}
  BY <1>1
<1>3. ASSUME NEW ask \in {mine, theirs}, NEW a \in Touches(ask) PROVE <<"reference", a>> \in LocksOf(ask)
  BY <1>3 DEF LocksOf, Touches
<1>4. Touches(theirs) \cap Touches(mine) = {}
  BY <1>2, <1>3
<1>5. EntriesOf(theirs) \cap EntriesOf(mine) = {}
  <2> SUFFICES ASSUME OnEntries(mine), OnEntries(theirs), NEW e \in mine.entries, e \in theirs.entries
               PROVE  FALSE
    BY DEF EntriesOf
  <2>1. CASE mine.op = "create"
    BY <1>1, <2>1 DEF Owns
  <2>2. CASE theirs.op = "create"
    BY <1>1, <2>2 DEF Owns
  <2>3. CASE mine.op # "create" /\ theirs.op # "create"
    <3>1. <<"row", e>> \in RowsHeld(mine) /\ <<"row", e>> \in RowsHeld(theirs)
      BY <2>3 DEF RowsHeld
    <3>2. <<"row", e>> \in LocksOf(mine) /\ <<"row", e>> \in LocksOf(theirs)
      BY <3>1 DEF LocksOf
    <3> QED
      BY <1>2, <3>2
  <2> QED
    BY <2>1, <2>2, <2>3
<1>6. Named(theirs) \cap NamedRows(mine) = {}
  <2> SUFFICES ASSUME NEW row \in Named(theirs), row \in NamedRows(mine) PROVE FALSE
    OBVIOUS
  <2>1. CASE OnEntries(mine)
    <3>1. PICK e \in mine.entries : row = <<"entry", e>>
      BY <1>1, <2>1, NamedRowsAre
    <3>2. e \in EntriesOf(theirs)
      BY <3>1 DEF Named
    <3> QED
      BY <1>5, <2>1, <3>2 DEF EntriesOf
  <2>2. CASE ~ OnEntries(mine)
    <3>1. row = <<"account", mine.account>>
      BY <1>1, <2>2, NamedRowsAre
    <3>2. ~ OnEntries(theirs) /\ theirs.account = mine.account
      BY <3>1 DEF Named
    <3> QED
      BY <1>4, <2>2, <3>2 DEF Touches
  <2> QED
    BY <2>1, <2>2
<1>7. OnEntries(mine) /\ mine.op \notin Voiding /\ OnEntries(theirs) => theirs.op \in Voiding
  <2> SUFFICES ASSUME OnEntries(mine), mine.op \notin Voiding, OnEntries(theirs), theirs.op \notin Voiding
               PROVE  FALSE
    OBVIOUS
  <2>1. <<"duplicates">> \in LocksOf(mine) /\ <<"duplicates">> \in LocksOf(theirs)
    BY DEF LocksOf, DuplicateLock
  <2> QED
    BY <1>2, <2>1
<1> QED
  BY <1>4, <1>5, <1>6, <1>7

LEMMA LocksAreKeys ==
  ASSUME TypeOK, NEW ask \in Asks
  PROVE  LocksOf(ask) \subseteq LockKeys
<1>1. CASE OnEntries(ask)
  <2>1. SidesHeld(ask) \subseteq Accounts /\ ask.entries \in SUBSET Entries
    BY <1>1, SidesHeldAreAccounts, AskIs
  <2> QED
    BY <1>1, <2>1 DEF LocksOf, DuplicateLock, RowsHeld, LockKeys
<1>2. CASE ~ OnEntries(ask)
  <2>1. ask.account \in Accounts
    BY <1>2, AskIs
  <2> QED
    BY <1>2, <2>1 DEF LocksOf, LockKeys
<1> QED
  BY <1>1, <1>2

LEMMA LocksSame ==
  ASSUME NEW ask \in Asks, OnEntries(ask) => \A e \in ask.entries : entry'[e] = entry[e]
  PROVE  LocksOf(ask)' = LocksOf(ask)
<1>1. CASE ~ OnEntries(ask)
  BY <1>1 DEF LocksOf
<1>2. CASE OnEntries(ask)
  <2> DEFINE held(e) == (IF Stored(e) THEN Sides(entry[e].draft) ELSE {}) \cup Sides(Wanting(ask, e))
  <2>1. \A e \in ask.entries : held(e)' = held(e)
    BY <1>2 DEF Stored, Wanting
  <2>2. SidesHeld(ask) = UNION {held(e) : e \in ask.entries}
    BY DEF SidesHeld
  <2>3. SidesHeld(ask)' = UNION {held(e)' : e \in ask.entries}
    BY DEF SidesHeld
  <2> HIDE DEF held
  <2>4. SidesHeld(ask)' = SidesHeld(ask)
    BY <2>1, <2>2, <2>3
  <2> QED
    BY <1>2, <2>4 DEF LocksOf, DuplicateLock, RowsHeld
<1> QED
  BY <1>1, <1>2

(* What others do to the tables and the locks.                             *)
Onward(r) ==
  /\ req'[r] = req[r]
  /\ \A key \in LockKeys : lock[key] = r => lock'[key] = r
  /\ version' \in [Rows -> Nat]
  /\ \A row \in Rows : version[row] <= version'[row]
  /\ \A row \in Rows : version'[row] = version[row] => RowNow(row)' = RowNow(row)

LEMMA KnownSame ==
  ASSUME WritesInv, TypeOK', NEW r \in Requests, Onward(r), Owns(r)', Certain(r)',
         (Busy(r) /\ OnEntries(req[r].ask) /\ req[r].ask.op = "create")
           => \A e \in req[r].ask.entries : entry'[e] = entry[e]
  PROVE  Known(r)'
<1> DEFINE ask == req[r].ask
<1>1. Requested(req[r]) /\ Shown(r) /\ ReadAgain(r) /\ Owns(r) /\ Covered(r) /\ WritesTyped /\ TypeOK
  BY DEF WritesInv, Known, Books
<1>2. /\ req'[r] = req[r] /\ version \in [Rows -> Nat] /\ version' \in [Rows -> Nat]
      /\ (Busy(r)' <=> Busy(r)) /\ (Locking(r)' <=> Locking(r))
      /\ NamedRows(req'[r].ask) = NamedRows(ask)
  BY <1>1 DEF Onward, WritesTyped, Busy, Locking
<1>3. Busy(r) => ask \in Asks /\ NamedRows(ask) \subseteq Rows
  BY <1>1, NamedRowsAre DEF Requested, Busy
<1>4. Requested(req[r])'
  BY <1>1, <1>2 DEF Requested
<1>5. ASSUME Busy(r), NEW row \in NamedRows(ask)
      PROVE  /\ row \in Rows /\ req[r].saw[row].at \in Nat /\ req[r].saw[row].at <= version'[row]
             /\ req[r].saw[row].at = version'[row]
                  => /\ version'[row] = version[row] /\ RowNow(row)' = RowNow(row)
                     /\ req[r].saw[row].says = RowNow(row)'
  <2>1. row \in Rows /\ version[row] \in Nat /\ version'[row] \in Nat /\ version[row] <= version'[row]
    BY <1>2, <1>3, <1>5 DEF Onward
  <2>2. req[r].saw[row].at \in Nat /\ req[r].saw[row].at <= version[row]
    BY <1>1, <1>5 DEF Shown
  <2>3. ASSUME req[r].saw[row].at = version'[row]
        PROVE  /\ version'[row] = version[row] /\ RowNow(row)' = RowNow(row)
               /\ req[r].saw[row].says = RowNow(row)'
    <3>1. version'[row] = version[row]
      BY <2>1, <2>2, <2>3
    <3>2. RowNow(row)' = RowNow(row)
      BY <2>1, <3>1 DEF Onward
    <3>3. req[r].saw[row].says = RowNow(row)
      BY <1>1, <1>5, <2>3, <3>1 DEF Shown
    <3> QED
      BY <3>1, <3>2, <3>3
  <2> QED
    BY <2>1, <2>2, <2>3
<1>6. Shown(r)'
  <2> SUFFICES ASSUME Busy(r)', NEW row \in NamedRows(ask)
               PROVE  /\ req'[r].saw[row].at \in Nat /\ req'[r].saw[row].at <= version'[row]
                      /\ req'[r].saw[row].at = version'[row] => req'[r].saw[row].says = RowNow(row)'
    BY <1>2 DEF Shown
  <2> QED
    BY <1>2, <1>5
<1>7. ReadAgain(r)'
  BY <1>1, <1>2 DEF ReadAgain
<1>8. Covered(r)'
  <2> SUFFICES ASSUME Locking(r)', Unchanged(r)', NEW key \in LocksOf(ask)'
               PROVE  key \in req[r].keys \/ lock'[key] = r
    BY <1>2 DEF Covered
  <2>1. Busy(r) /\ Locking(r)
    BY <1>2 DEF Busy, Locking
  <2>2. \A row \in NamedRows(ask) : version'[row] = req[r].saw[row].at
    BY <1>2 DEF Unchanged
  <2>3. \A row \in NamedRows(ask) : version[row] = req[r].saw[row].at /\ RowNow(row)' = RowNow(row)
    BY <1>5, <2>1, <2>2
  <2>4. Unchanged(r)
    BY <2>3 DEF Unchanged
  <2>5. ASSUME OnEntries(ask), NEW e \in ask.entries PROVE entry'[e] = entry[e]
    <3>1. CASE ask.op = "create"
      BY <2>1, <2>5, <3>1
    <3>2. CASE ask.op # "create"
      <4>1. <<"entry", e>> \in NamedRows(ask)
        BY <1>3, <2>1, <2>5, <3>2, NamedRowsAre
      <4>2. RowNow(<<"entry", e>>)' = RowNow(<<"entry", e>>)
        BY <2>3, <4>1
      <4> QED
        BY <4>2 DEF RowNow
    <3> QED
      BY <3>1, <3>2
  <2>6. LocksOf(ask)' = LocksOf(ask)
    <3> SUFFICES ASSUME NEW wish, wish = ask PROVE LocksOf(wish)' = LocksOf(wish) /\ wish = ask'
      OBVIOUS
    <3> QED
      BY <1>2, <1>3, <2>1, <2>5, LocksSame
  <2>7. key \in LocksOf(ask)
    BY <2>6
  <2>8. key \in req[r].keys \/ lock[key] = r
    BY <1>1, <2>1, <2>4, <2>7 DEF Covered
  <2>9. key \in LockKeys
    BY <1>1, <1>3, <2>1, <2>7, LocksAreKeys
  <2> QED
    BY <2>8, <2>9 DEF Onward
<1> QED
  BY <1>4, <1>6, <1>7, <1>8 DEF Known
(* What is remembered of a request, field by field.                        *)
Record(at, ask, saw, before, keys, change) ==
  [at |-> at, ask |-> ask, saw |-> saw, before |-> before, keys |-> keys, change |-> change]

LEMMA RecordFields ==
  ASSUME NEW at, NEW ask, NEW saw, NEW before, NEW keys, NEW change,
         NEW x, x = Record(at, ask, saw, before, keys, change)
  PROVE  /\ x.at = at /\ x.ask = ask /\ x.saw = saw /\ x.before = before /\ x.keys = keys
         /\ x.change = change
BY DEF Record

(* How a step changes it.                                                  *)
Finishing(x) == [x EXCEPT !.at = "done"]
Submitting(x, wish, shown) == [x EXCEPT !.at = "read", !.ask = wish, !.saw = shown]
Beginning(x, read, wait) == [x EXCEPT !.at = "lock", !.before = read, !.keys = wait]
Waiting(x, wait) == [x EXCEPT !.keys = wait]
Working(x, work) == [x EXCEPT !.at = "commit", !.change = work]

LEMMA RecordFinishes ==
  ASSUME NEW at, NEW ask, NEW saw, NEW before, NEW keys, NEW change, NEW x,
         x = Record(at, ask, saw, before, keys, change)
  PROVE  Finishing(x) = Record("done", ask, saw, before, keys, change)
BY DEF Finishing, Record

LEMMA RecordSteps ==
  ASSUME NEW at, NEW ask, NEW saw, NEW before, NEW keys, NEW change, NEW p, NEW q, NEW x,
         x = Record(at, ask, saw, before, keys, change)
  PROVE  /\ Submitting(x, p, q) = Record("read", p, q, before, keys, change)
         /\ Beginning(x, p, q) = Record("lock", ask, saw, p, q, change)
<1>1. ASSUME NEW y, y = Submitting(x, p, q) PROVE y = Record("read", p, q, before, keys, change)
  BY <1>1 DEF Submitting, Record
<1>2. ASSUME NEW y, y = Beginning(x, p, q) PROVE y = Record("lock", ask, saw, p, q, change)
  BY <1>2 DEF Beginning, Record
<1> QED
  BY <1>1, <1>2

LEMMA RecordWaits ==
  ASSUME NEW at, NEW ask, NEW saw, NEW before, NEW keys, NEW change, NEW p, NEW x,
         x = Record(at, ask, saw, before, keys, change)
  PROVE  /\ Waiting(x, p) = Record(at, ask, saw, before, p, change)
         /\ Working(x, p) = Record("commit", ask, saw, before, keys, p)
<1>1. ASSUME NEW y, y = Waiting(x, p) PROVE y = Record(at, ask, saw, before, p, change)
  BY <1>1 DEF Waiting, Record
<1>2. ASSUME NEW y, y = Working(x, p) PROVE y = Record("commit", ask, saw, before, keys, p)
  BY <1>2 DEF Working, Record
<1> QED
  BY <1>1, <1>2

LEMMA EndedIs ==
  ASSUME NEW r
  PROVE  Requested(Ended(r)) /\ Ended(r).at = "done" /\ Ended(r).ask = <<>>
<1> DEFINE x == Ended(r)
<1>1. Idle = Record("idle", <<>>, <<>>, <<>>, {}, NothingToWrite)
  BY DEF Idle, Record
<1>2. x = Finishing(Idle)
  BY DEF Ended, Finishing
<1> HIDE DEF x
<1>3. x = Record("done", <<>>, <<>>, <<>>, {}, NothingToWrite)
  BY <1>1, <1>2, RecordFinishes
<1>4. /\ x.at = "done" /\ x.ask = <<>> /\ x.saw = <<>> /\ x.before = <<>> /\ x.keys = {}
      /\ x.change = NothingToWrite
  BY <1>3 DEF Record
<1>5. x = Record(x.at, x.ask, x.saw, x.before, x.keys, x.change)
  BY <1>3, <1>4
<1>6. Requested(x)
  BY <1>4, <1>5 DEF Requested, Record
<1> QED
  BY <1>4, <1>6 DEF x

(* A request that has ended knows nothing any more.                        *)
LEMMA EndedKnows ==
  ASSUME NEW r, req'[r] = Ended(r)
  PROVE  Known(r)'
<1>1. Requested(req[r])' /\ req'[r].at = "done"
  BY EndedIs DEF Requested
<1> QED
  BY <1>1 DEF Known, Shown, ReadAgain, Owns, Covered, Certain, Busy, Locking

LEMMA CommitKeepsOthers ==
  ASSUME WritesInv, TypeOK', NEW s \in Requests, Commit(s), NEW r \in Requests \ {s}
  PROVE  Known(r)'
<1> DEFINE mine == req[r].ask
           theirs == req[s].ask
<1>1. /\ \A t \in Requests \ {s} : req'[t] = req[t]
      /\ req'[s].at = "done" /\ req[s].at = "commit"
      /\ \A key \in LockKeys : lock[key] = r => lock'[key] = r
      /\ WritesTyped /\ Requested(req[r]) /\ Owns(r) /\ Certain(r) /\ Busy(s) /\ Books
  BY EndedIs DEF Commit, Release, WritesInv, WritesTyped, Known, Busy
<1>2. Onward(r)
  BY <1>1, CommitBumps DEF Onward
<1>3. Apart(Touches(theirs), EntriesOf(theirs))
  BY CommitIsAtomic
<1>4. ASSUME Busy(r), OnEntries(mine), mine.op = "create", NEW e \in mine.entries
      PROVE  entry'[e] = entry[e] /\ e \in Entries
  <2>1. e \in Entries
    BY <1>1, <1>4, AskIs DEF Requested, Busy
  <2>2. e \notin EntriesOf(theirs)
    BY <1>1, <1>4 DEF Owns, EntriesOf
  <2> QED
    BY <1>3, <2>1, <2>2 DEF Apart
<1>5. Owns(r)'
  <2> SUFFICES ASSUME Busy(r)', OnEntries(mine), NEW e \in mine.entries
               PROVE  IF mine.op = "create"
                      THEN /\ ~ Stored(e)'
                           /\ \A t \in Requests \ {r} : Busy(t)' /\ OnEntries(req'[t].ask)
                                                          => e \notin req'[t].ask.entries
                      ELSE Stored(e)'
    BY <1>1 DEF Owns
  <2>1. Busy(r) /\ e \in Entries
    <3>1. Busy(r)
      BY <1>1 DEF Busy
    <3> QED
      BY <1>1, <3>1, AskIs DEF Requested, Busy
  <2>2. CASE mine.op # "create"
    <3>1. Stored(e)
      BY <1>1, <2>1, <2>2 DEF Owns
    <3> QED
      BY <2>1, <2>2, <3>1, StaysStored
  <2>3. CASE mine.op = "create"
    <3>1. ~ Stored(e)'
      BY <1>1, <1>4, <2>1, <2>3 DEF Owns, Stored
    <3>2. \A t \in Requests \ {r} : Busy(t)' => req'[t] = req[t] /\ Busy(t)
      BY <1>1 DEF Busy
    <3> QED
      BY <1>1, <2>1, <2>3, <3>1, <3>2 DEF Owns
  <2> QED
    BY <2>2, <2>3
<1>6. Certain(r)'
  <2> SUFFICES ASSUME req'[r].at = "commit" PROVE Decided(r, mine)'
    BY DEF Certain
  <2>6. req[r].at = "commit"
    BY <1>1
  <2>1. /\ mine \in Asks /\ Decided(r, mine) /\ Unchanged(r)
    BY <2>6, CommitFinds
  <2>2. /\ Touches(theirs) \cap Touches(mine) = {}
        /\ EntriesOf(theirs) \cap EntriesOf(mine) = {}
        /\ Named(theirs) \cap NamedRows(mine) = {}
        /\ OnEntries(mine) /\ mine.op \notin Voiding /\ OnEntries(theirs) => theirs.op \in Voiding
    BY <1>1, <2>6, CommitsExclude
  <2>3. Unchanged(r)'
    <3>1. \A row \in NamedRows(mine) : row \in Rows \ Named(theirs)
      BY <2>1, <2>2, NamedRowsAre
    <3>2. \A row \in NamedRows(mine) : version'[row] = version[row]
      BY <3>1, CommitBumps
    <3> QED
      BY <1>1, <2>1, <3>2 DEF Unchanged
  <2>4. (OnEntries(mine) /\ mine.op \notin Voiding) => NoneMade
    BY <2>2, NoneMadeLive
  <2>5. ASSUME NEW ask, ask = mine PROVE Decided(r, ask)' /\ ask = mine'
    <3>1. /\ req'[r].ask = ask /\ req'[r].before = req[r].before
          /\ IF OnEntries(ask) THEN EntryAllowed(r) ELSE AccountAllowed(r)
          /\ req'[r].change = IF OnEntries(ask) THEN EntryChange(ask) ELSE AccountChange(ask)
      BY <1>1, <2>1, <2>5 DEF Decided
    <3> QED
      BY <1>1, <1>3, <2>1, <2>2, <2>3, <2>4, <2>5, <3>1, DecidedSame
  <2> QED
    BY <2>5
<1> QED
  BY <1>2, <1>4, <1>5, <1>6, KnownSame
-------------------------------------------------------------------------------
(* The steps that write nothing.                                           *)

LEMMA QuietIs ==
  ASSUME WritesInv, UNCHANGED Tables
  PROVE  /\ Books' /\ ClosingsSettled' /\ Tidy' /\ TypeOK /\ TypeOK'
         /\ version' = version /\ version \in [Rows -> Nat]
         /\ Apart({}, {}) /\ NoneMade
         /\ \A row : RowNow(row)' = RowNow(row)
         /\ \A e : Stored(e)' <=> Stored(e)
<1>1. Books /\ ClosingsSettled /\ Tidy /\ version \in [Rows -> Nat]
  BY DEF WritesInv, WritesTyped
<1>2. UNCHANGED vars /\ zone' = zone
  BY DEF Tables, vars
<1>3. Books' /\ ClosingsSettled' /\ TypeOK /\ TypeOK'
  BY <1>1, <1>2, NextKeeps DEF Books
<1>4. Tidy'
  BY <1>1 DEF Tables, Tidy, Archived
<1>5. Apart({}, {})
  BY DEF Tables, Apart, EntriesOn, Stored
<1>6. NoneMade
  BY DEF Tables, NoneMade
<1>7. /\ \A row : RowNow(row)' = RowNow(row)
      /\ \A e : Stored(e)' <=> Stored(e)
  BY DEF Tables, RowNow, Stored
<1> QED
  BY <1>1, <1>3, <1>4, <1>5, <1>6, <1>7 DEF Tables

(* What a request decided stands, whichever step it takes itself.          *)
LEMMA QuietDecided ==
  ASSUME WritesInv, UNCHANGED Tables, NEW r, NEW ask \in Asks, ask = req[r].ask,
         req'[r].ask = ask, req'[r].before = req[r].before, req'[r].saw = req[r].saw,
         IF OnEntries(ask) THEN EntryAllowed(r) ELSE AccountAllowed(r),
         req'[r].change = IF OnEntries(ask) THEN EntryChange(ask) ELSE AccountChange(ask)
  PROVE  Decided(r, ask)'
<1>1. Books /\ TypeOK' /\ Apart({}, {}) /\ NoneMade /\ version' = version
  BY QuietIs DEF WritesInv
<1>2. Unchanged(r)
  BY DEF EntryAllowed, AccountAllowed
<1>3. Unchanged(r)'
  BY <1>1, <1>2 DEF Unchanged
<1>4. {} \cap Touches(ask) = {} /\ {} \cap EntriesOf(ask) = {}
  OBVIOUS
<1> QED
  BY <1>1, <1>3, <1>4, DecidedSame

LEMMA QuietKeepsOthers ==
  ASSUME WritesInv, UNCHANGED Tables, NEW r \in Requests, req'[r] = req[r], Owns(r)',
         \A key \in LockKeys : lock[key] = r => lock'[key] = r
  PROVE  Known(r)'
<1>1. TypeOK' /\ version' = version /\ version \in [Rows -> Nat] /\ \A row : RowNow(row)' = RowNow(row)
  BY QuietIs
<1>2. Onward(r)
  BY <1>1 DEF Onward
<1>3. Requested(req[r]) /\ Certain(r)
  BY DEF WritesInv, Known
<1>4. Certain(r)'
  <2> SUFFICES ASSUME req'[r].at = "commit" PROVE Decided(r, req[r].ask)'
    BY DEF Certain
  <2>1. req[r].ask \in Asks /\ Decided(r, req[r].ask)
    BY <1>3 DEF Requested, Certain
  <2>2. ASSUME NEW ask, ask = req[r].ask PROVE Decided(r, ask)'
    BY <2>1, <2>2, QuietDecided DEF Decided
  <2> QED
    BY <2>2
<1>5. entry' = entry
  BY DEF Tables
<1> QED
  BY <1>1, <1>2, <1>4, <1>5, KnownSame

(* Nobody asks for anything new.                                           *)
NothingAsked == \A t \in Requests : Busy(t)' => Busy(t) /\ req'[t].ask = req[t].ask

LEMMA QuietOwns ==
  ASSUME WritesInv, UNCHANGED Tables, NothingAsked, NEW r \in Requests
  PROVE  Owns(r)'
<1>1. Owns(r) /\ \A e : Stored(e)' <=> Stored(e)
  BY QuietIs DEF WritesInv, Known
<1> SUFFICES ASSUME Busy(r)', OnEntries(req'[r].ask), NEW e \in req'[r].ask.entries
             PROVE  IF req'[r].ask.op = "create"
                    THEN /\ ~ Stored(e)'
                         /\ \A t \in Requests \ {r} : Busy(t)' /\ OnEntries(req'[t].ask)
                                                        => e \notin req'[t].ask.entries
                    ELSE Stored(e)'
  BY DEF Owns
<1>2. Busy(r) /\ req'[r].ask = req[r].ask
  BY DEF NothingAsked
<1> QED
  BY <1>1, <1>2 DEF Owns, NothingAsked
(* The record of a request, and how the steps below change it.             *)
LEMMA RequestIs ==
  ASSUME WritesInv, NEW r \in Requests
  PROVE  /\ req[r] = Record(req[r].at, req[r].ask, req[r].saw, req[r].before, req[r].keys, req[r].change)
         /\ Requested(req[r]) /\ Known(r)
         /\ \A x : [req EXCEPT ![r] = x][r] = x
         /\ \A x : \A t \in Requests : t # r => [req EXCEPT ![r] = x][t] = req[t]
<1>1. Requested(req[r]) /\ Known(r)
  BY DEF WritesInv, Known
<1>2. req[r] = Record(req[r].at, req[r].ask, req[r].saw, req[r].before, req[r].keys, req[r].change)
  BY <1>1 DEF Requested, Record
<1>3. req = [t \in Requests |-> req[t]]
  BY DEF WritesInv, WritesTyped
<1> QED
  BY <1>1, <1>2, <1>3

LEMMA RecordRequested ==
  ASSUME NEW at \in {"read", "lock", "commit"}, NEW ask \in Asks, NEW saw, NEW before,
         NEW keys \in SUBSET LockKeys, NEW change, at = "commit" => keys = {}
  PROVE  Requested(Record(at, ask, saw, before, keys, change))
BY RecordFields DEF Requested, Record

(* Submitting shows the rows as they are.                                  *)
LEMMA SubmitKeeps ==
  ASSUME WritesInv, NEW s \in Requests, Submit(s), NEW r \in Requests
  PROVE  Known(r)'
<1>1. PICK ask \in May[s] :
        /\ IF OnEntries(ask)
           THEN \A e \in ask.entries : IF ask.op = "create" THEN ~ Stored(e) /\ Fresh(s, e) ELSE Stored(e)
           ELSE Kept(ask.account)
        /\ req' = [req EXCEPT ![s].at = "read", ![s].ask = ask, ![s].saw = Seen(NamedRows(ask))]
  BY DEF Submit
<1> DEFINE saw == Seen(NamedRows(ask))
           before == req[s].before
           keys == req[s].keys
           change == req[s].change
           x == [req[s] EXCEPT !.at = "read", !.ask = ask, !.saw = saw]
<1>2. /\ UNCHANGED Tables /\ lock' = lock /\ req[s].at = "idle" /\ ask \in Asks
      /\ keys \subseteq LockKeys
  <2>1. ask \in Asks
    BY WritesAssumption
  <2> QED
    BY <2>1, RequestIs DEF Submit, Requested
<1>3. x = Record("read", ask, saw, before, keys, change)
  <2>1. req[s] = Record(req[s].at, req[s].ask, req[s].saw, before, keys, change)
    BY RequestIs
  <2>2. x = Submitting(req[s], ask, saw)
    BY DEF Submitting
  <2> HIDE DEF x, saw, before, keys, change
  <2> QED
    BY <2>1, <2>2, RecordSteps
<1>4. req' = [req EXCEPT ![s] = x]
  BY <1>1
<1> HIDE DEF x
<1>5. /\ req'[s] = Record("read", ask, saw, before, keys, change)
      /\ \A t \in Requests : t # s => req'[t] = req[t]
  BY <1>3, <1>4, RequestIs
<1>6. /\ req'[s].at = "read" /\ req'[s].ask = ask /\ req'[s].saw = saw
      /\ Requested(req'[s])
  <2>1. Requested(Record("read", ask, saw, before, keys, change))
    BY <1>2, RecordRequested
  <2> QED
    BY <1>5, <2>1, RecordFields
<1>7. \A t \in Requests : t # s => req'[t] = req[t] /\ (Busy(t)' <=> Busy(t))
  BY <1>5 DEF Busy
<1>8. Owns(r)'
  <2> SUFFICES ASSUME Busy(r)', OnEntries(req'[r].ask), NEW e \in req'[r].ask.entries
               PROVE  IF req'[r].ask.op = "create"
                      THEN /\ ~ Stored(e)'
                           /\ \A t \in Requests \ {r} : Busy(t)' /\ OnEntries(req'[t].ask)
                                                          => e \notin req'[t].ask.entries
                      ELSE Stored(e)'
    BY DEF Owns
  <2>1. \A f : Stored(f)' <=> Stored(f)
    BY <1>2, QuietIs
  <2>2. \A t \in Requests : Busy(t) => req[t].ask # <<>>
    BY RequestIs, AskIs DEF Requested, Busy
  <2>3. CASE r = s
    BY <1>1, <1>6, <1>7, <2>1, <2>2, <2>3 DEF Fresh
  <2>4. CASE r # s
    <3>1. /\ Busy(r) /\ req'[r].ask = req[r].ask /\ e \in req[r].ask.entries /\ Owns(r)
          /\ OnEntries(req[r].ask)
      BY <1>7, <2>4, RequestIs DEF Known
    <3>2. CASE req[r].ask.op # "create"
      BY <2>1, <3>1, <3>2 DEF Owns
    <3>3. CASE req[r].ask.op = "create"
      <4>1. ~ Stored(e) /\ \A t \in Requests \ {r} : Busy(t) /\ OnEntries(req[t].ask) => e \notin req[t].ask.entries
        BY <3>1, <3>3 DEF Owns
      <4>2. OnEntries(ask) => e \notin ask.entries
        <5> SUFFICES ASSUME OnEntries(ask), e \in ask.entries PROVE FALSE
          OBVIOUS
        <5>1. Fresh(s, e)
          BY <1>1, <4>1
        <5> QED
          BY <2>2, <2>4, <3>1, <5>1 DEF Fresh
      <4>3. \A t \in Requests \ {r} : Busy(t)' /\ OnEntries(req'[t].ask) => e \notin req'[t].ask.entries
        BY <1>6, <1>7, <4>1, <4>2
      <4> QED
        BY <2>1, <3>1, <3>3, <4>1, <4>3
    <3> QED
      BY <3>2, <3>3
  <2> QED
    BY <2>3, <2>4
<1>9. CASE r # s
  BY <1>2, <1>7, <1>8, <1>9, QuietKeepsOthers
<1>10. CASE r = s
  <2>1. Shown(s)'
    <3> SUFFICES ASSUME NEW row \in NamedRows(ask)
                 PROVE  /\ saw[row].at \in Nat /\ saw[row].at <= version'[row]
                        /\ saw[row].says = RowNow(row)'
      BY <1>6 DEF Shown
    <3>1. /\ version' = version /\ version[row] \in Nat /\ RowNow(row)' = RowNow(row)
      BY <1>2, QuietIs, NamedRowsAre
    <3>2. saw[row] = [at |-> version[row], says |-> RowNow(row)]
      BY DEF Seen
    <3> QED
      BY <3>1, <3>2
  <2> QED
    BY <1>6, <1>8, <1>10, <2>1 DEF Known, ReadAgain, Covered, Certain, Locking
<1> QED
  BY <1>9, <1>10
(* Reading again goes on only with the rows as they were shown.            *)
LEMMA ReadKeeps ==
  ASSUME WritesInv, NEW s \in Requests, Read(s), NEW r \in Requests
  PROVE  Known(r)'
<1> DEFINE ask == req[s].ask
           before == Seen(NamedRows(ask))
           keys == LocksOf(ask)
           x == [req[s] EXCEPT !.at = "lock", !.before = before, !.keys = keys]
<1>1. /\ UNCHANGED Tables /\ lock' = lock /\ req[s].at = "read" /\ ask \in Asks /\ Shown(s) /\ Busy(s)
      /\ keys \subseteq LockKeys /\ TypeOK
  <2>1. UNCHANGED Tables /\ lock' = lock /\ req[s].at = "read" /\ TypeOK
    BY QuietIs DEF Read
  <2>2. ask \in Asks /\ Shown(s) /\ Busy(s)
    BY <2>1, RequestIs DEF Requested, Known, Busy
  <2> QED
    BY <2>1, <2>2, LocksAreKeys
<1>2. \/ req' = [req EXCEPT ![s] = Ended(s)]
      \/ req' = [req EXCEPT ![s] = x] /\ (OnEntries(ask) => Unchanged(s))
  BY DEF Read
<1>3. \A t \in Requests : t # s => req'[t] = req[t]
  <2> HIDE DEF x
  <2> QED
    BY <1>2, RequestIs
<1>4. req'[s] = Ended(s) \/ (req'[s] = x /\ (OnEntries(ask) => Unchanged(s)))
  <2> HIDE DEF x
  <2> QED
    BY <1>2, RequestIs
<1>5. x = Record("lock", ask, req[s].saw, before, keys, req[s].change)
  <2>1. req[s] = Record(req[s].at, ask, req[s].saw, req[s].before, req[s].keys, req[s].change)
    BY RequestIs
  <2>2. x = Beginning(req[s], before, keys)
    BY DEF Beginning
  <2> HIDE DEF x, ask, before, keys
  <2> QED
    BY <2>1, <2>2, RecordSteps
<1>6. x.at = "lock" /\ x.ask = ask /\ x.saw = req[s].saw /\ x.before = before /\ x.keys = keys
  <2> HIDE DEF x
  <2> QED
    BY <1>5, RecordFields
<1>7. Requested(x)
  <2> HIDE DEF x
  <2> QED
    BY <1>1, <1>5, RecordRequested
<1>8. NothingAsked
  <2>1. \A t \in Requests : t # s => (Busy(t)' <=> Busy(t))
    BY <1>3 DEF Busy
  <2>2. Busy(s)' => req'[s].ask = ask
    <3> HIDE DEF x
    <3> QED
      BY <1>4, <1>6, EndedIs DEF Busy
  <2> QED
    BY <1>1, <1>3, <2>1, <2>2 DEF NothingAsked
<1>9. Owns(r)'
  BY <1>1, <1>8, QuietOwns
<1> HIDE DEF x
<1>10. CASE r # s
  BY <1>1, <1>3, <1>9, <1>10, QuietKeepsOthers
<1>11. CASE r = s /\ req'[s] = Ended(s)
  BY <1>11, EndedKnows
<1>12. CASE r = s /\ req'[s] = x /\ (OnEntries(ask) => Unchanged(s))
  <2>1. /\ version' = version /\ \A row : RowNow(row)' = RowNow(row)
    BY <1>1, QuietIs
  <2>2. Requested(req[s])' /\ ~ (req'[s].at = "commit")
    BY <1>6, <1>7, <1>12
  <2>3. Shown(s)'
    BY <1>1, <1>6, <1>12, <2>1 DEF Shown
  <2>4. ReadAgain(s)'
    <3> SUFFICES ASSUME OnEntries(ask), NEW row \in NamedRows(ask)
                 PROVE  before[row].says = req[s].saw[row].says
      BY <1>6, <1>12 DEF ReadAgain
    <3>1. req[s].saw[row].at = version[row]
      BY <1>12 DEF Unchanged
    <3>2. req[s].saw[row].says = RowNow(row)
      BY <1>1, <3>1 DEF Shown
    <3>3. before[row] = [at |-> version[row], says |-> RowNow(row)]
      BY DEF Seen
    <3> QED
      BY <3>2, <3>3
  <2>5. Covered(s)'
    <3>1. entry' = entry
      BY <1>1 DEF Tables
    <3>2. \A wish \in Asks : LocksOf(wish)' = LocksOf(wish)
      BY <3>1, LocksSame
    <3>3. req'[s].ask = ask /\ req'[s].keys = keys
      BY <1>6, <1>12
    <3>4. LocksOf(req[s].ask)' = keys
      <4> SUFFICES ASSUME NEW wish, wish = ask PROVE LocksOf(wish)' = LocksOf(wish) /\ wish = req'[s].ask
        OBVIOUS
      <4> QED
        BY <1>1, <3>2, <3>3
    <3> QED
      BY <3>3, <3>4 DEF Covered
  <2> QED
    BY <1>9, <1>12, <2>2, <2>3, <2>4, <2>5 DEF Known, Certain
<1> QED
  BY <1>4, <1>10, <1>11, <1>12

(* A step of a request that has read the rows again and keeps what it read *)
LEMMA GoesOn ==
  ASSUME WritesInv, UNCHANGED Tables, NEW s \in Requests, Locking(s), Locking(s)',
         req'[s].ask = req[s].ask, req'[s].saw = req[s].saw, req'[s].before = req[s].before
  PROVE  /\ Shown(s)' /\ ReadAgain(s)'
         /\ LocksOf(req[s].ask)' = LocksOf(req[s].ask)
         /\ Unchanged(s)' <=> Unchanged(s)
<1>1. Requested(req[s]) /\ Shown(s) /\ ReadAgain(s)
  BY RequestIs DEF Known
<1>2. Busy(s) /\ req[s].ask \in Asks
  BY <1>1 DEF Busy, Locking, Requested
<1>3. version' = version /\ entry' = entry /\ \A row : RowNow(row)' = RowNow(row)
  BY QuietIs DEF Tables
<1>4. Shown(s)'
  BY <1>1, <1>2, <1>3 DEF Shown
<1>5. ReadAgain(s)'
  BY <1>1 DEF ReadAgain
<1>6. LocksOf(req[s].ask)' = LocksOf(req[s].ask)
  <2> SUFFICES ASSUME NEW wish, wish = req[s].ask
               PROVE  LocksOf(wish)' = LocksOf(wish) /\ wish = req'[s].ask
    OBVIOUS
  <2> QED
    BY <1>2, <1>3, LocksSame
<1>7. Unchanged(s)' <=> Unchanged(s)
  BY <1>3 DEF Unchanged
<1> QED
  BY <1>4, <1>5, <1>6, <1>7
(* A lock that is taken is one that was free.                              *)
LEMMA LockKeeps ==
  ASSUME WritesInv, NEW s \in Requests, Lock(s), NEW r \in Requests
  PROVE  Known(r)'
<1>1. PICK key \in req[s].keys :
        /\ lock[key] = Free
        /\ lock' = [lock EXCEPT ![key] = s]
        /\ req' = [req EXCEPT ![s].keys = @ \ {key}]
  BY DEF Lock
<1> DEFINE ask == req[s].ask
           keys == req[s].keys \ {key}
           x == [req[s] EXCEPT !.keys = keys]
<1>2. /\ UNCHANGED Tables /\ req[s].at = "lock" /\ ask \in Asks /\ key \in LockKeys
      /\ keys \subseteq LockKeys /\ lock \in [LockKeys -> Requests \cup {Free}]
      /\ Covered(s)
  BY RequestIs DEF Lock, Requested, WritesInv, WritesTyped, Known
<1>3. x = Record("lock", ask, req[s].saw, req[s].before, keys, req[s].change)
  <2>1. req[s] = Record("lock", ask, req[s].saw, req[s].before, req[s].keys, req[s].change)
    BY <1>2, RequestIs
  <2>2. x = Waiting(req[s], keys)
    BY DEF Waiting
  <2> HIDE DEF x, ask, keys
  <2> QED
    BY <2>1, <2>2, RecordWaits
<1>4. req' = [req EXCEPT ![s] = x]
  BY <1>1
<1> HIDE DEF x
<1>5. /\ req'[s].at = "lock" /\ req'[s].ask = ask /\ req'[s].saw = req[s].saw
      /\ req'[s].before = req[s].before /\ req'[s].keys = keys
      /\ Requested(req'[s])
      /\ \A t \in Requests : t # s => req'[t] = req[t]
  <2>1. req'[s] = x /\ \A t \in Requests : t # s => req'[t] = req[t]
    BY <1>4, RequestIs
  <2>2. Requested(x)
    BY <1>2, <1>3, RecordRequested
  <2> QED
    BY <1>3, <2>1, <2>2, RecordFields
<1>6. NothingAsked /\ Locking(s) /\ Locking(s)'
  BY <1>2, <1>5 DEF NothingAsked, Busy, Locking
<1>7. Owns(r)'
  BY <1>2, <1>6, QuietOwns
<1>8. CASE r # s
  <2>1. \A other \in LockKeys : lock[other] = r => lock'[other] = r
    BY <1>1, <1>2, WritesAssumption
  <2> QED
    BY <1>2, <1>5, <1>7, <1>8, <2>1, QuietKeepsOthers
<1>9. CASE r = s
  <2>1. /\ Shown(s)' /\ ReadAgain(s)' /\ LocksOf(ask)' = LocksOf(ask)
        /\ (Unchanged(s)' <=> Unchanged(s))
    BY <1>2, <1>5, <1>6, GoesOn
  <2>2. Covered(s)'
    <3> SUFFICES ASSUME Unchanged(s)', NEW other \in LocksOf(ask)'
                 PROVE  other \in keys \/ lock'[other] = s
      BY <1>5 DEF Covered
    <3>1. other \in req[s].keys \/ lock[other] = s
      BY <1>2, <1>6, <2>1 DEF Covered
    <3>2. other \in LockKeys
      <4>1. TypeOK
        BY DEF WritesInv, Books
      <4> QED
        BY <1>2, <2>1, <4>1, LocksAreKeys
    <3> QED
      BY <1>1, <1>2, <3>1, <3>2
  <2> QED
    BY <1>5, <1>7, <1>9, <2>1, <2>2 DEF Known, Certain
<1> QED
  BY <1>8, <1>9

LEMMA RefuseKeeps ==
  ASSUME WritesInv, NEW s \in Requests, Refuse(s), NEW r \in Requests
  PROVE  Known(r)'
<1>1. /\ UNCHANGED Tables /\ req' = [req EXCEPT ![s] = Ended(s)]
      /\ lock' = [key \in LockKeys |-> IF lock[key] = s THEN Free ELSE lock[key]]
  BY DEF Refuse, Release
<1>2. req'[s] = Ended(s) /\ \A t \in Requests : t # s => req'[t] = req[t]
  BY <1>1, RequestIs
<1>3. NothingAsked
  BY <1>2, EndedIs DEF NothingAsked, Busy
<1>4. CASE r = s
  BY <1>2, <1>4, EndedKnows
<1>5. CASE r # s
  <2>1. Owns(r)' /\ \A key \in LockKeys : lock[key] = r => lock'[key] = r
    BY <1>1, <1>3, <1>5, QuietOwns
  <2> QED
    BY <1>1, <1>2, <1>5, <2>1, QuietKeepsOthers
<1> QED
  BY <1>4, <1>5

LEMMA WorkKeeps ==
  ASSUME WritesInv, NEW s \in Requests, Work(s), NEW r \in Requests
  PROVE  Known(r)'
<1> DEFINE ask == req[s].ask
           change == Change(ask)
           x == [req[s] EXCEPT !.at = "commit", !.change = change]
<1>1. /\ UNCHANGED Tables /\ lock' = lock /\ req[s].at = "lock" /\ req[s].keys = {} /\ Allowed(s)
      /\ req' = [req EXCEPT ![s] = x]
  BY DEF Work
<1>2. ask \in Asks /\ Covered(s)
  BY <1>1, RequestIs DEF Requested, Known
<1>3. x = Record("commit", ask, req[s].saw, req[s].before, req[s].keys, change)
  <2>1. req[s] = Record("lock", ask, req[s].saw, req[s].before, req[s].keys, req[s].change)
    BY <1>1, RequestIs
  <2>2. x = Working(req[s], change)
    BY DEF Working
  <2> HIDE DEF x, ask, change
  <2> QED
    BY <2>1, <2>2, RecordWaits
<1> HIDE DEF x
<1>4. /\ req'[s].at = "commit" /\ req'[s].ask = ask /\ req'[s].saw = req[s].saw
      /\ req'[s].before = req[s].before /\ req'[s].keys = {} /\ req'[s].change = change
      /\ Requested(req'[s])
      /\ \A t \in Requests : t # s => req'[t] = req[t]
  <2>3. req' = [req EXCEPT ![s] = x]
    BY <1>1
  <2>4. /\ [req EXCEPT ![s] = x][s] = x
        /\ \A t \in Requests : t # s => [req EXCEPT ![s] = x][t] = req[t]
    BY RequestIs
  <2>1. req'[s] = x /\ \A t \in Requests : t # s => req'[t] = req[t]
    BY <2>3, <2>4
  <2>2. Requested(x)
    BY <1>1, <1>2, <1>3, RecordRequested
  <2> HIDE DEF change
  <2> QED
    BY <1>1, <1>3, <2>1, <2>2, RecordFields
<1>5. NothingAsked /\ Locking(s) /\ Locking(s)'
  BY <1>1, <1>4 DEF NothingAsked, Busy, Locking
<1>6. Owns(r)'
  BY <1>1, <1>5, QuietOwns
<1>7. CASE r # s
  BY <1>1, <1>4, <1>6, <1>7, QuietKeepsOthers
<1>8. CASE r = s
  <2>1. /\ Shown(s)' /\ ReadAgain(s)' /\ LocksOf(ask)' = LocksOf(ask)
        /\ (Unchanged(s)' <=> Unchanged(s))
    BY <1>1, <1>4, <1>5, GoesOn
  <2>2. Covered(s)'
    <3> SUFFICES ASSUME Unchanged(s)', NEW key \in LocksOf(ask)' PROVE lock'[key] = s
      BY <1>4 DEF Covered
    <3> QED
      BY <1>1, <1>2, <1>5, <2>1 DEF Covered
  <2>3. Certain(s)'
    <3>1. ASSUME NEW wish, wish = ask PROVE Decided(s, wish)' /\ wish = req'[s].ask
      <4>1. /\ IF OnEntries(wish) THEN EntryAllowed(s) ELSE AccountAllowed(s)
            /\ req'[s].change = IF OnEntries(wish) THEN EntryChange(wish) ELSE AccountChange(wish)
        BY <1>1, <1>4, <3>1 DEF Allowed, Change
      <4> QED
        BY <1>1, <1>2, <1>4, <3>1, <4>1, QuietDecided
    <3> QED
      BY <3>1 DEF Certain
  <2> QED
    BY <1>4, <1>6, <1>8, <2>1, <2>2, <2>3 DEF Known
<1> QED
  BY <1>7, <1>8
-------------------------------------------------------------------------------
(* The books the requests find.                                            *)
FoundRow(s, n) == [Unopened EXCEPT !.status = s, !.archivedAt = n]

LEMMA FoundRows ==
  ASSUME NEW s \in {"live", "archived"}, NEW n \in Nat
  PROVE  /\ FoundRow(s, n) \in AccountRows
         /\ FoundRow(s, n).status = s /\ FoundRow(s, n).archivedAt = n
         /\ \A a \in Accounts : OpeningOf(a, FoundRow(s, n)) = Nothing
<1> DEFINE Found(x) == [x EXCEPT !.status = s, !.archivedAt = n]
<1>1. \A x \in AccountRows :
        /\ Found(x) \in AccountRows /\ Found(x).status = s /\ Found(x).archivedAt = n
        /\ Found(x).currency = x.currency /\ Found(x).opening = x.opening
        /\ Found(x).openingDay = x.openingDay
  BY DEF AccountRows
<1> DEFINE row == FoundRow(s, n)
<1>2. row = Found(Unopened) /\ Unopened \in AccountRows
  BY UnopenedRow DEF FoundRow
<1> HIDE DEF Found, row
<1>3. \A a \in Accounts : OpeningOf(a, row) = OpeningOf(a, Unopened)
  BY <1>1, <1>2 DEF OpeningOf
<1> QED
  BY <1>1, <1>2, <1>3, UnopenedRow DEF row

LEMMA InitWrites ==
  ASSUME WInit
  PROVE  Books /\ ClosingsSettled /\ Tidy
<1>1. PICK closed \in SUBSET Accounts, drafts \in [Existing -> Drafts],
           status \in [Existing -> {"live", "deleted"}] :
        /\ account = [a \in Accounts |->
                       [Unopened EXCEPT !.status = IF a \in closed THEN "archived" ELSE "live",
                                        !.archivedAt = IF a \in closed THEN now ELSE 0]]
        /\ entry = [e \in Entries |-> IF e \in Existing THEN Row(status[e], drafts[e]) ELSE NoEntry]
        /\ \A e \in Existing : Even(drafts[e])
        /\ LET had == [src \in Sources |-> IF src \in {"entry"} \X Existing
                                           THEN PostingsOf(drafts[src[2]], account) ELSE Nothing]
               p == [src \in Sources |-> IF src[1] = "entry" /\ entry[src[2]].status # "live"
                                         THEN Nothing ELSE had[src]]
           IN  /\ posted = PostedAfter(p, Close(p, closed, account))
               /\ written = [src \in Sources |-> RowsOn(Nothing, had[src]) \cup RowsOn(Nothing, posted[src])]
  BY DEF WInit
<1> DEFINE had == [src \in Sources |-> IF src \in {"entry"} \X Existing
                                       THEN PostingsOf(drafts[src[2]], account) ELSE Nothing]
           p == [src \in Sources |-> IF src[1] = "entry" /\ entry[src[2]].status # "live"
                                     THEN Nothing ELSE had[src]]
<1>2. /\ posted = PostedAfter(p, Close(p, closed, account))
      /\ written = [src \in Sources |-> RowsOn(Nothing, had[src]) \cup RowsOn(Nothing, posted[src])]
  BY <1>1
<1>3. now = 1 /\ now \in Instants /\ now \in Nat /\ zone \in Zones
  BY FirstInstant DEF WInit
<1>4. /\ account \in [Accounts -> AccountRows]
      /\ \A a \in Accounts : /\ account[a].status = IF a \in closed THEN "archived" ELSE "live"
                             /\ account[a].archivedAt = IF a \in closed THEN now ELSE 0
                             /\ \A b \in Accounts : OpeningOf(b, account[a]) = Nothing
  <2>1. \A a \in Accounts :
          /\ account[a] \in AccountRows
          /\ account[a].status = IF a \in closed THEN "archived" ELSE "live"
          /\ account[a].archivedAt = IF a \in closed THEN now ELSE 0
          /\ \A b \in Accounts : OpeningOf(b, account[a]) = Nothing
    <3> TAKE a \in Accounts
    <3> DEFINE s == IF a \in closed THEN "archived" ELSE "live"
               n == IF a \in closed THEN now ELSE 0
    <3>1. account[a] = FoundRow(s, n)
      BY <1>1 DEF FoundRow
    <3>2. s \in {"live", "archived"} /\ n \in Nat
      BY <1>3
    <3> HIDE DEF s, n
    <3>3. /\ account[a] \in AccountRows /\ account[a].status = s /\ account[a].archivedAt = n
          /\ \A b \in Accounts : OpeningOf(b, account[a]) = Nothing
      BY <3>1, <3>2, FoundRows
    <3> QED
      BY <3>3 DEF s, n
  <2>2. account = [a \in Accounts |-> account[a]]
    BY <1>1
  <2> QED
    BY <2>1, <2>2
<1>5. \A a \in Accounts : /\ Kept(a) /\ (Archived(a) <=> a \in closed)
                          /\ Closable(account[a]) /\ account[a].currency \in Currencies
  BY <1>3, <1>4 DEF Kept, Archived, Closable, AccountRows, Instants, CalendarDay
<1>6. /\ WellFormed(NoEntry.draft) /\ NoEntry.status = "none"
      /\ NoEntry.fromCurrency = Nobody /\ NoEntry.toCurrency = Nobody
      /\ NoEntry = [status |-> NoEntry.status, draft |-> NoEntry.draft,
                    fromCurrency |-> NoEntry.fromCurrency, toCurrency |-> NoEntry.toCurrency]
  <2>1. (CHOOSE d \in Drafts : TRUE) \in Drafts
    BY LedgerAssumption
  <2>2. NoEntry.draft \in Drafts
    BY <2>1 DEF NoEntry
  <2>3. WellFormed(NoEntry.draft)
    BY <2>2, LedgerAssumption
  <2> QED
    BY <2>3 DEF NoEntry
<1>7. \A e \in Existing : WellFormed(drafts[e]) /\ status[e] \in {"live", "deleted"} /\ e \in Entries
  <2>1. Existing \subseteq Entries
    BY WritesAssumption
  <2>2. \A d \in Drafts : WellFormed(d)
    BY LedgerAssumption
  <2>3. \A e \in Existing : drafts[e] \in Drafts /\ status[e] \in {"live", "deleted"}
    OBVIOUS
  <2> QED
    BY <2>1, <2>2, <2>3
<1>8. \A e \in Entries : entry[e] = IF e \in Existing THEN Row(status[e], drafts[e]) ELSE NoEntry
  BY <1>1
<1>9. \A e \in Existing : entry[e].status = status[e] /\ entry[e].draft = drafts[e]
  <2>1. \A k, d : Row(k, d).status = k /\ Row(k, d).draft = d
    BY DEF Row
  <2> QED
    BY <1>7, <1>8, <2>1
<1>10. \A e \in Entries : WellFormed(entry[e].draft)
  BY <1>6, <1>7, <1>8, <1>9
<1>11. entry \in EntryRows
  <2>1. \A side \in Accounts \cup {Nobody} : CurrencyOn(side) \in Currencies \cup {Nobody}
    BY <1>5 DEF CurrencyOn
  <2>2. \A s \in {"live", "deleted"} : \A d : WellFormed(d) =>
          Row(s, d) \in [status : {"none", "live", "deleted"},
                         draft : [type : EntryTypes, from : Accounts \cup {Nobody},
                                  to : Accounts \cup {Nobody}, sent : Nat \ {0},
                                  received : Nat \ {0}, day : Days, refund : BOOLEAN],
                         fromCurrency : Currencies \cup {Nobody},
                         toCurrency : Currencies \cup {Nobody}]
    BY <2>1 DEF Row, WellFormed
  <2>3. NoEntry \in [status : {"none", "live", "deleted"},
                         draft : [type : EntryTypes, from : Accounts \cup {Nobody},
                                  to : Accounts \cup {Nobody}, sent : Nat \ {0},
                                  received : Nat \ {0}, day : Days, refund : BOOLEAN],
                         fromCurrency : Currencies \cup {Nobody},
                         toCurrency : Currencies \cup {Nobody}]
    BY <1>6 DEF WellFormed
  <2>4. entry = [e \in Entries |-> entry[e]]
    BY <1>1
  <2> QED
    BY <1>7, <1>8, <2>2, <2>3, <2>4 DEF EntryRows
<1>12. /\ \A e \in Entries : /\ p[<<"entry", e>>] = Says(entry[e], account)
                             /\ Says(entry[e], account) \in Slot
       /\ \A a \in Accounts : /\ p[<<"opening", a>>] = Nothing /\ had[<<"opening", a>>] = Nothing
                              /\ p[<<"closing", a>>] = Nothing /\ had[<<"closing", a>>] = Nothing
       /\ p = [src \in Sources |-> p[src]]
  <2>1. \A src \in Sources : p[src] = IF src[1] = "entry" /\ entry[src[2]].status # "live"
                                      THEN Nothing ELSE had[src]
    OBVIOUS
  <2>2. \A src \in Sources : had[src] = IF src \in {"entry"} \X Existing
                                        THEN PostingsOf(drafts[src[2]], account) ELSE Nothing
    OBVIOUS
  <2>3. p = [src \in Sources |-> p[src]]
    OBVIOUS
  <2> HIDE DEF p, had
  <2>4. \A e \in Entries : Says(entry[e], account) \in Slot
    BY <1>5, <1>10, SaysIs
  <2>5. ASSUME NEW e \in Entries PROVE p[<<"entry", e>>] = Says(entry[e], account)
    <3>1. <<"entry", e>> \in Sources
      BY SourcesAre
    <3>2. p[<<"entry", e>>] = IF entry[e].status # "live" THEN Nothing ELSE had[<<"entry", e>>]
      BY <2>1, <3>1
    <3>3. CASE e \in Existing
      <4>1. had[<<"entry", e>>] = PostingsOf(drafts[e], account)
        BY <2>2, <3>1, <3>3
      <4> QED
        BY <1>9, <3>2, <3>3, <4>1 DEF Says
    <3>4. CASE e \notin Existing
      BY <1>6, <1>8, <3>2, <3>4 DEF Says
    <3> QED
      BY <3>3, <3>4
  <2>6. ASSUME NEW a \in Accounts, NEW k \in {"opening", "closing"}
        PROVE  p[<<k, a>>] = Nothing /\ had[<<k, a>>] = Nothing
    <3>1. <<k, a>> \in Sources
      BY SourcesAre
    <3>2. k # "entry"
      OBVIOUS
    <3>3. had[<<k, a>>] = Nothing
      BY <2>2, <3>1, <3>2
    <3> QED
      BY <2>1, <3>1, <3>2, <3>3
  <2> QED
    BY <2>3, <2>4, <2>5, <2>6
<1> HIDE DEF p, had
<1>13. p \in Postings
  <2>1. Nothing \in Slot
    BY NothingIs
  <2>2. /\ \A e \in Entries : p[<<"entry", e>>] \in Slot
        /\ \A a \in Accounts : p[<<"opening", a>>] \in Slot /\ p[<<"closing", a>>] \in Slot
    BY <1>12, <2>1
  <2>3. \A src \in Sources : p[src] \in Slot
    BY <2>2, SourcesAre
  <2>4. p = [src \in Sources |-> p[src]]
    BY <1>12
  <2> QED
    BY <2>3, <2>4 DEF Postings
<1> DEFINE wants == Close(p, closed, account)
<1>14. /\ DOMAIN wants = {"closing"} \X closed
       /\ \A a \in closed : wants[<<"closing", a>>] = ClosingWanted(p, a, account[a])
       /\ \A src \in DOMAIN wants : wants[src] \in Slot
  <2>1. /\ DOMAIN wants = {"closing"} \X closed
        /\ \A a \in closed : wants[<<"closing", a>>] = ClosingWanted(p, a, account[a])
    BY DEF Close
  <2>2. \A a \in closed : ClosingWanted(p, a, account[a]) \in Slot
    BY <1>5, <1>13, ClosingIs
  <2> HIDE DEF wants
  <2> QED
    BY <2>1, <2>2
<1>15. posted = [src \in Sources |-> IF src \in DOMAIN wants THEN wants[src] ELSE p[src]]
  <2> HIDE DEF wants
  <2>1. posted = PostedAfter(p, wants)
    BY <1>2 DEF wants
  <2> QED
    BY <1>13, <1>14, <2>1, PostedIs
<1> HIDE DEF wants
<1>16. /\ posted \in Postings
       /\ \A src \in NotClosing : posted[src] = p[src]
       /\ \A a \in Accounts : posted[<<"closing", a>>] = IF a \in closed
                                                         THEN ClosingWanted(p, a, account[a]) ELSE Nothing
  <2>1. \A src \in Sources : posted[src] \in Slot
    BY <1>13, <1>14, <1>15 DEF Postings
  <2>2. posted = [src \in Sources |-> posted[src]]
    BY <1>15
  <2>3. posted \in Postings
    BY <2>1, <2>2 DEF Postings
  <2>4. \A src \in NotClosing : src \in Sources /\ src \notin {"closing"} \X closed
    BY SourcesAre DEF NotClosing
  <2>5. \A src \in NotClosing : posted[src] = p[src]
    BY <1>14, <1>15, <2>4
  <2>6. ASSUME NEW a \in Accounts
        PROVE  posted[<<"closing", a>>] = IF a \in closed THEN ClosingWanted(p, a, account[a]) ELSE Nothing
    <3>1. <<"closing", a>> \in Sources
      BY SourcesAre
    <3>2. <<"closing", a>> \in DOMAIN wants <=> a \in closed
      BY <1>14
    <3> QED
      BY <1>12, <1>14, <1>15, <3>1, <3>2
  <2> QED
    BY <2>3, <2>5, <2>6
<1>17. ASSUME NEW a \in Accounts PROVE posted[<<"closing", a>>] = ClosingWanted(posted, a, account[a])
  <2>1. CASE a \in closed
    <3>1. ClosingWanted(p, a, account[a]) = ClosingWanted(posted, a, account[a])
      BY <1>5, <1>13, <1>16, ClosingSame
    <3> QED
      BY <1>16, <2>1, <3>1
  <2>2. CASE a \notin closed
    <3>1. account[a].status # "archived"
      BY <1>5, <2>2 DEF Archived
    <3>2. ClosingWanted(posted, a, account[a]) = Nothing
      BY <3>1 DEF ClosingWanted
    <3> QED
      BY <1>16, <2>2, <3>2
  <2> QED
    BY <2>1, <2>2
<1>18. ASSUME NEW a \in Accounts, NEW day \in Days
       PROVE  /\ posted[<<"closing", a>>][<<<<"equity", account[a].currency>>, day>>]
                   = -posted[<<"closing", a>>][<<a, day>>]
              /\ \A la \in LedgerAccounts \ Own(a) : posted[<<"closing", a>>][<<la, day>>] = 0
  BY <1>5, <1>16, <1>17, ClosingIs DEF Own
<1>19. ClosingsSettled /\ ClosingsPaired
  BY <1>17, <1>18 DEF ClosingsSettled, ClosingsPaired
<1>20. TypeOK
  <2>1. written \in [Sources -> SUBSET Accounts]
    BY <1>2 DEF RowsOn
  <2> QED
    BY <1>3, <1>4, <1>5, <1>10, <1>11, <1>16, <2>1 DEF TypeOK, AccountRows, EntryRows, Postings, Slot
<1>21. EntriesSettled /\ OpeningsSettled
  <2>1. \A e \in Entries : posted[<<"entry", e>>] = Says(entry[e], account)
    BY <1>12, <1>16, SourcesAre
  <2>2. \A a \in Accounts : posted[<<"opening", a>>] = OpeningOf(a, account[a])
    BY <1>4, <1>12, <1>16, SourcesAre
  <2> QED
    BY <2>1, <2>2 DEF EntriesSettled, OpeningsSettled, Says
<1>22. EntriesPlaced
  <2> SUFFICES ASSUME NEW e \in Entries
               PROVE  /\ \A a \in Sides(entry[e].draft) : Kept(a)
                      /\ entry[e].status = "live" => Even(entry[e].draft)
    BY DEF EntriesPlaced
  <2>1. Sides(entry[e].draft) \subseteq Accounts
    <3>1. WellFormed(entry[e].draft)
      BY <1>10
    <3> QED
      BY <3>1 DEF WellFormed, Sides
  <2>2. entry[e].status = "live" => e \in Existing
    BY <1>6, <1>8
  <2> QED
    BY <1>1, <1>5, <1>9, <2>1, <2>2
<1>23. \A src \in Sources : written[src] = RowsOn(Nothing, had[src]) \cup RowsOn(Nothing, posted[src])
  BY <1>2
<1>24. \A x \in Slot, a \in Accounts : a \in RowsOn(Nothing, x) <=> \E day \in Days : x[<<a, day>>] # 0
  <2> TAKE x \in Slot, a \in Accounts
  <2>1. \A day \in Days : Difference(Nothing, x)[<<a, day>>] = x[<<a, day>>]
    <3> TAKE day \in Days
    <3>1. <<a, day>> \in Slots
      BY SlotsAre
    <3>2. x[<<a, day>>] \in Int /\ Nothing[<<a, day>>] = 0
      BY <3>1 DEF Slot, Nothing
    <3> QED
      BY <3>1, <3>2 DEF Difference
  <2> QED
    BY <2>1 DEF RowsOn
<1>25. Recorded
  <2> SUFFICES ASSUME NEW src \in Sources, NEW a \in Accounts, NEW day \in Days,
                      posted[src][<<a, day>>] # 0
               PROVE  a \in written[src]
    BY DEF Recorded
  <2>1. posted[src] \in Slot
    BY <1>16 DEF Postings
  <2> QED
    BY <1>23, <1>24, <2>1
<1>26. OwnRowsOnly
  <2>1. ASSUME NEW a \in Accounts, NEW b \in Accounts, b # a, NEW k \in {"opening", "closing"}
        PROVE  b \notin written[<<k, a>>]
    <3>1. <<k, a>> \in Sources /\ had[<<k, a>>] = Nothing /\ Nothing \in Slot /\ posted[<<k, a>>] \in Slot
      BY <1>12, <1>16, SourcesAre, NothingIs DEF Postings
    <3>2. \A day \in Days : Nothing[<<b, day>>] = 0 /\ posted[<<k, a>>][<<b, day>>] = 0
      <4>1. b \in LedgerAccounts \ Own(a)
        BY <1>5, <2>1, SlotsAre, CountersApart DEF Own, Counters, CounterKinds
      <4>2. \A day \in Days : Nothing[<<b, day>>] = 0
        BY <4>1, NothingIs
      <4>3. posted[<<"opening", a>>] = Nothing
        BY <1>12, <1>16, SourcesAre
      <4> QED
        BY <1>18, <4>1, <4>2, <4>3, ZenonT(40)
    <3>3. b \notin RowsOn(Nothing, had[<<k, a>>]) /\ b \notin RowsOn(Nothing, posted[<<k, a>>])
      BY <1>24, <3>1, <3>2
    <3> QED
      BY <1>23, <3>1, <3>3
  <2>2. \A src \in Sources : written[src] \subseteq Accounts
    BY <1>20 DEF TypeOK
  <2> QED
    BY <2>1, <2>2, SourcesAre DEF OwnRowsOnly
<1>27. NoOrphanPostings /\ Tidy
  BY <1>4, <1>5, <1>20 DEF NoOrphanPostings, Tidy, TypeOK
<1> QED
  BY <1>19, <1>20, <1>21, <1>22, <1>25, <1>26, <1>27 DEF Books

(* Nothing is closed but on the day it is archived.                        *)
LEMMA NewAccountTidy ==
  ASSUME TypeOK, Tidy, NEW ask \in Asks, ~ OnEntries(ask)
  PROVE  NewAccount(ask).archivedAt = IF NewAccount(ask).status = "archived" THEN now ELSE 0
<1> DEFINE row == account[ask.account]
           Turned(x, k, n) == [x EXCEPT !.status = k, !.archivedAt = n]
           Opening(x, o, d) == [x EXCEPT !.opening = o, !.openingDay = d]
<1>1. /\ ask.account \in Accounts /\ ask.op \in AccountOps /\ row \in AccountRows
      /\ row.archivedAt = IF row.status = "archived" THEN now ELSE 0
  BY AskIs DEF TypeOK, AccountRows, Tidy, Archived
<1>2. \A x \in AccountRows : \A k, n : Turned(x, k, n).status = k /\ Turned(x, k, n).archivedAt = n
  BY DEF AccountRows
<1>3. \A x \in AccountRows : \A o, d : /\ Opening(x, o, d).status = x.status
                                        /\ Opening(x, o, d).archivedAt = x.archivedAt
  BY DEF AccountRows
<1>4. /\ ask.op = "archive" => NewAccount(ask) = Turned(row, "archived", now)
      /\ ask.op = "unarchive" => NewAccount(ask) = Turned(row, "live", 0)
      /\ ask.op = "opening" => NewAccount(ask) = Opening(row, ask.opening, ask.day)
      /\ ask.op = "remove" => NewAccount(ask) = Unopened
      /\ ask.op = "reconcile" => NewAccount(ask) = row
  BY DEF NewAccount
<1>5. Unopened.status = "none" /\ Unopened.archivedAt = 0
  BY DEF Unopened
<1> HIDE DEF row, Turned, Opening
<1>6. CASE ask.op = "archive"
  BY <1>1, <1>2, <1>4, <1>6
<1>7. CASE ask.op = "unarchive"
  BY <1>1, <1>2, <1>4, <1>7
<1>8. CASE ask.op = "opening"
  BY <1>1, <1>3, <1>4, <1>8
<1>9. CASE ask.op = "remove"
  BY <1>4, <1>5, <1>9
<1>10. CASE ask.op = "reconcile"
  BY <1>1, <1>4, <1>10
<1> QED
  BY <1>1, <1>6, <1>7, <1>8, <1>9, <1>10 DEF AccountOps

LEMMA CommitTidy ==
  ASSUME WritesInv, NEW s \in Requests, Commit(s)
  PROVE  Tidy'
<1> DEFINE ask == req[s].ask
<1>1. TypeOK /\ Tidy /\ ask \in Asks /\ now' = now
  BY CommitFinds DEF WritesInv, Books, Commit
<1>2. CASE OnEntries(ask)
  <2>1. account' = account
    BY <1>2, CommitIsAtomic DEF EntryWritten
  <2> QED
    BY <1>1, <2>1 DEF Tidy, Archived
<1>3. CASE ~ OnEntries(ask)
  <2>1. account' = [account EXCEPT ![ask.account] = NewAccount(ask)]
    <3>1. CASE ask.op = "remove"
      <4>1. AccountRemoved(ask) /\ NewAccount(ask) = Unopened
        BY <1>3, <3>1, CommitIsAtomic DEF NewAccount
      <4> QED
        BY <4>1 DEF AccountRemoved
    <3>2. CASE ask.op # "remove"
      <4>1. AccountWritten(ask)
        BY <1>3, <3>2, CommitIsAtomic
      <4> QED
        BY <4>1 DEF AccountWritten, NewAccounts
    <3> QED
      BY <3>1, <3>2
  <2>2. NewAccount(ask).archivedAt = IF NewAccount(ask).status = "archived" THEN now ELSE 0
    BY <1>1, <1>3, NewAccountTidy
  <2>3. \A a \in Accounts : account'[a] = IF a = ask.account THEN NewAccount(ask) ELSE account[a]
    BY <1>1, <2>1 DEF TypeOK
  <2> HIDE DEF ask
  <2> QED
    BY <1>1, <2>2, <2>3 DEF Tidy, Archived
<1> QED
  BY <1>2, <1>3

-------------------------------------------------------------------------------
(* Every step.                                                             *)

LEMMA InitKnown ==
  ASSUME WInit
  PROVE  WritesInv
<1>1. Books /\ ClosingsSettled /\ Tidy
  BY InitWrites
<1>2. \A r \in Requests : req[r] = Idle
  BY DEF WInit
<1>3. WritesTyped
  <2>1. version \in [Rows -> Nat] /\ lock \in [LockKeys -> Requests \cup {Free}]
    BY DEF WInit
  <2>2. req = [r \in Requests |-> req[r]]
    BY DEF WInit
  <2> QED
    BY <2>1, <2>2 DEF WritesTyped
<1>4. Requested(Idle) /\ Idle.at = "idle"
  <2>1. Idle = Record("idle", <<>>, <<>>, <<>>, {}, NothingToWrite)
    BY DEF Idle, Record
  <2> DEFINE x == Idle
  <2>2. /\ x.at = "idle" /\ x.ask = <<>> /\ x.saw = <<>> /\ x.before = <<>> /\ x.keys = {}
        /\ x.change = NothingToWrite
    BY <2>1 DEF Record
  <2> HIDE DEF x
  <2>3. x = Record(x.at, x.ask, x.saw, x.before, x.keys, x.change)
    BY <2>1, <2>2 DEF x
  <2>4. Requested(x)
    BY <2>2, <2>3 DEF Requested, Record
  <2> QED
    BY <2>2, <2>4 DEF x
<1>5. \A r \in Requests : Known(r)
  BY <1>2, <1>4 DEF Known, Shown, ReadAgain, Owns, Covered, Certain, Busy, Locking
<1> QED
  BY <1>1, <1>3, <1>5 DEF WritesInv

(* What each kind of step leaves typed.                                    *)
LEMMA StepTyped ==
  ASSUME WritesInv, NEW s \in Requests, Submit(s) \/ Serve(s)
  PROVE  WritesTyped'
<1>1. /\ version \in [Rows -> Nat] /\ lock \in [LockKeys -> Requests \cup {Free}]
      /\ req = [r \in Requests |-> req[r]]
  BY DEF WritesInv, WritesTyped
<1>2. \A x : [req EXCEPT ![s] = x] = [r \in Requests |-> [req EXCEPT ![s] = x][r]]
  BY <1>1
<1>3. Release(s) => lock' \in [LockKeys -> Requests \cup {Free}]
  BY <1>1 DEF Release
<1>4. /\ version' \in [Rows -> Nat] /\ lock' \in [LockKeys -> Requests \cup {Free}]
      /\ \E x : req' = [req EXCEPT ![s] = x]
  <2>1. CASE Submit(s)
    <3>1. PICK ask \in May[s] :
            req' = [req EXCEPT ![s].at = "read", ![s].ask = ask, ![s].saw = Seen(NamedRows(ask))]
      BY <2>1 DEF Submit
    <3>2. version' = version /\ lock' = lock
      BY <2>1 DEF Submit, Tables
    <3> QED
      BY <1>1, <3>1, <3>2
  <2>2. CASE Read(s)
    <3>1. version' = version /\ lock' = lock /\ \E x : req' = [req EXCEPT ![s] = x]
      BY <2>2 DEF Read, Tables
    <3> QED
      BY <1>1, <3>1
  <2>3. CASE Lock(s)
    <3>1. PICK key \in req[s].keys :
            /\ lock' = [lock EXCEPT ![key] = s]
            /\ req' = [req EXCEPT ![s].keys = @ \ {key}]
      BY <2>3 DEF Lock
    <3>2. version' = version
      BY <2>3 DEF Lock, Tables
    <3>3. \E x : req' = [req EXCEPT ![s] = x]
      BY <3>1
    <3> QED
      BY <1>1, <3>1, <3>2, <3>3
  <2>4. CASE Refuse(s)
    <3>1. version' = version /\ Release(s) /\ req' = [req EXCEPT ![s] = Ended(s)]
      BY <2>4 DEF Refuse, Tables
    <3> QED
      BY <1>1, <1>3, <3>1
  <2>5. CASE Work(s)
    <3>1. version' = version /\ lock' = lock
      BY <2>5 DEF Work, Tables
    <3>2. req' = [req EXCEPT ![s].at = "commit", ![s].change = Change(req[s].ask)]
      BY <2>5 DEF Work
    <3> QED
      BY <1>1, <3>1, <3>2
  <2>6. CASE Commit(s)
    <3>1. version' \in [Rows -> Nat]
      BY <2>6, CommitBumps
    <3>2. Release(s) /\ req' = [req EXCEPT ![s] = Ended(s)]
      BY <2>6 DEF Commit
    <3> QED
      BY <1>3, <3>1, <3>2
  <2> QED
    BY <2>1, <2>2, <2>3, <2>4, <2>5, <2>6 DEF Serve
<1> QED
  BY <1>2, <1>4 DEF WritesTyped

LEMMA CommitKeeps ==
  ASSUME WritesInv, NEW s \in Requests, Commit(s)
  PROVE  Next /\ WritesInv'
<1>1. Next
  BY CommitIsAtomic
<1>2. Books' /\ ClosingsSettled' /\ TypeOK'
  <2>1. Books /\ ClosingsSettled /\ zone' = zone /\ [Next]_vars
    BY <1>1 DEF WritesInv, Commit
  <2>2. Books' /\ ClosingsSettled'
    BY <2>1, NextKeeps
  <2> QED
    BY <2>2 DEF Books
<1>3. Tidy' /\ WritesTyped'
  BY CommitTidy, StepTyped DEF Serve
<1>4. \A r \in Requests : Known(r)'
  <2>1. Known(s)'
    <3>1. req' = [req EXCEPT ![s] = Ended(s)]
      BY DEF Commit
    <3>2. [req EXCEPT ![s] = Ended(s)][s] = Ended(s)
      BY RequestIs
    <3> QED
      BY <3>1, <3>2, EndedKnows
  <2> QED
    BY <1>2, <2>1, CommitKeepsOthers
<1> QED
  BY <1>1, <1>2, <1>3, <1>4 DEF WritesInv

LEMMA QuietKeeps ==
  ASSUME WritesInv, NEW s \in Requests, Submit(s) \/ Read(s) \/ Lock(s) \/ Refuse(s) \/ Work(s)
  PROVE  UNCHANGED vars /\ WritesInv'
<1>1. UNCHANGED Tables
  BY DEF Submit, Read, Lock, Refuse, Work
<1>2. Books' /\ ClosingsSettled' /\ Tidy'
  BY <1>1, QuietIs
<1>3. WritesTyped'
  BY StepTyped DEF Serve
<1>4. \A r \in Requests : Known(r)'
  BY SubmitKeeps, ReadKeeps, LockKeeps, RefuseKeeps, WorkKeeps
<1> QED
  BY <1>1, <1>2, <1>3, <1>4 DEF WritesInv, Tables, vars

LEMMA StepKeeps ==
  ASSUME WritesInv, [WNext]_wvars
  PROVE  [Next]_vars /\ WritesInv'
<1>1. CASE WNext
  <2>1. PICK s \in Requests : Submit(s) \/ Serve(s)
    BY <1>1 DEF WNext
  <2>2. CASE Commit(s)
    BY <2>2, CommitKeeps
  <2>3. CASE Submit(s) \/ Read(s) \/ Lock(s) \/ Refuse(s) \/ Work(s)
    BY <2>3, QuietKeeps
  <2> QED
    BY <2>1, <2>2, <2>3 DEF Serve
<1>2. CASE UNCHANGED wvars
  <2>1. UNCHANGED Tables /\ UNCHANGED vars /\ lock' = lock /\ req' = req
    BY <1>2 DEF wvars, Tables, vars
  <2>2. Books' /\ ClosingsSettled' /\ Tidy'
    BY <2>1, QuietIs
  <2>3. WritesTyped'
    BY <2>1 DEF WritesInv, WritesTyped, Tables
  <2>4. NothingAsked
    BY <2>1 DEF NothingAsked, Busy
  <2>5. \A r \in Requests : Known(r)'
    BY <2>1, <2>4, QuietOwns, QuietKeepsOthers
  <2> QED
    BY <2>1, <2>2, <2>3, <2>5 DEF WritesInv
<1> QED
  BY <1>1, <1>2

(* A request that goes from deciding to done has committed.                *)
LEMMA OnlyCommits ==
  ASSUME WritesInv, [WNext]_wvars, NEW r \in Requests, req[r].at = "commit", req'[r].at = "done"
  PROVE  Commit(r)
<1>1. req' # req
  OBVIOUS
<1>2. PICK s \in Requests : Submit(s) \/ Serve(s)
  BY <1>1 DEF WNext, wvars
<1>3. \E x : req' = [req EXCEPT ![s] = x]
  <2>1. Submit(s) => \E x : req' = [req EXCEPT ![s] = x]
    BY DEF Submit
  <2>2. Read(s) => \E x : req' = [req EXCEPT ![s] = x]
    BY DEF Read
  <2>3. Lock(s) => \E x : req' = [req EXCEPT ![s] = x]
    BY DEF Lock
  <2>4. Refuse(s) \/ Work(s) \/ Commit(s) => \E x : req' = [req EXCEPT ![s] = x]
    BY DEF Refuse, Work, Commit
  <2> QED
    BY <1>2, <2>1, <2>2, <2>3, <2>4 DEF Serve
<1>4. s = r
  <2> SUFFICES ASSUME s # r PROVE FALSE
    OBVIOUS
  <2>1. req'[r] = req[r]
    BY <1>3, RequestIs
  <2> QED
    BY <2>1
<1> QED
  BY <1>2, <1>4 DEF Serve, Submit, Read, Lock, Refuse, Work

-------------------------------------------------------------------------------
(* What every execution keeps.                                             *)

(***************************************************************************)
(* What every request knows stands in every reachable state, and with it   *)
(* the books: whatever the requests ask for and however they interleave.   *)
(***************************************************************************)
THEOREM WritesHold == WSpec => []WritesInv
<1>1. WInit => WritesInv
  BY InitKnown
<1>2. WritesInv /\ [WNext]_wvars => WritesInv'
  BY StepKeeps
<1> QED
  BY <1>1, <1>2, PTL DEF WSpec

(***************************************************************************)
(* Requests that interleave refine requests served one at a time: each     *)
(* commit is one of Ledger's operations on the books as they stood the     *)
(* moment before, with every check that operation makes, and no other      *)
(* step touches the books.                                                 *)
(***************************************************************************)
THEOREM EveryCommitIsAtomic == WSpec => CommitsAreAtomic
<1>1. WritesInv /\ [WNext]_wvars => [Next]_vars
  BY StepKeeps
<1> QED
  BY <1>1, WritesHold, PTL DEF WSpec, CommitsAreAtomic

(* An archived account reads zero however the requests interleave.         *)
THEOREM ReadsZeroThroughout == WSpec => []ArchivedReadsZero
<1>1. WritesInv => ArchivedReadsZero
  BY SettledReadsZero DEF WritesInv
<1> QED
  BY <1>1, WritesHold, PTL

(***************************************************************************)
(* No edit is lost: what a commit changes is, field for field, what its    *)
(* client was shown when it asked.                                         *)
(***************************************************************************)
THEOREM NoEditIsLost == WSpec => NoLostUpdate
<1> DEFINE Kind == \A r \in Requests : req[r].at = "commit" /\ req'[r].at = "done" =>
                     \A row \in NamedRows(req[r].ask) : RowNow(row) = req[r].saw[row].says
<1>1. WritesInv /\ [WNext]_wvars => Kind
  BY CommitFinds
<1>2. WritesInv /\ [WNext]_wvars => [Kind]_wvars
  BY <1>1
<1> HIDE DEF Kind
<1>3. WSpec => [][Kind]_wvars
  BY <1>2, WritesHold, PTL DEF WSpec
<1> QED
  BY <1>3 DEF NoLostUpdate, Kind

(* What a commit that allows no duplicates leaves.                         *)
LEMMA NoTwinLeft ==
  ASSUME WritesInv, NEW r \in Requests, Commit(r), NEW ask, ask = req[r].ask,
         OnEntries(ask), ask.op \notin Voiding, ~ ask.allow,
         NEW e \in Changing(ask), entry'[e].status = "live",
         NEW x \in Entries \ {e}, entry'[x].status = "live", Alike(entry'[x].draft, entry'[e].draft)
  PROVE  OriginsDiffer(x, e)
<1>1. ask \in Asks /\ Decided(r, ask) /\ TypeOK /\ req[r].at = "commit"
  BY CommitFinds DEF Commit, WritesInv, Books
<1>2. /\ NoDuplicate(ask)
      /\ entry' = [f \in Entries |-> IF f \in Changing(ask) THEN NewRow(ask, f) ELSE entry[f]]
  BY <1>1, CommitIsAtomic DEF Decided, EntryAllowed, EntryWritten
<1>3. Changing(ask) \subseteq ask.entries /\ ask.entries \subseteq Entries /\ ask.op \in EntryOps
  BY <1>1, AskIs DEF Changing
<1>4. /\ \A f \in Changing(ask) : entry'[f] = NewRow(ask, f)
      /\ \A f \in Entries \ Changing(ask) : entry'[f] = entry[f]
  BY <1>2, <1>3
<1>5. \A f \in Changing(ask) : entry'[f].draft = Wanting(ask, f)
  BY <1>1, <1>3, <1>4, NewRowIs
<1>6. /\ \A d, f : Alike(d, f) => Alike(f, d)
      /\ \A f, g : OriginsDiffer(f, g) => OriginsDiffer(g, f)
  BY DEF Alike, OriginsDiffer
<1>7. CASE ask.op \in {"create", "update", "restore"}
  <2>1. Twins(e, Wanting(ask, e), {e}) = {}
    BY <1>2, <1>3, <1>7 DEF NoDuplicate
  <2>2. x \notin Changing(ask)
    BY <1>1, <1>3, <1>7, AskIs
  <2> QED
    BY <1>4, <1>5, <2>1, <2>2 DEF Twins
<1>8. CASE ask.op = "editMany"
  <2> DEFINE live == {f \in Changing(ask) : entry[f].status = "live"}
  <2>1. /\ \A f \in live : Twins(f, Wanting(ask, f), Changing(ask)) = {}
        /\ \A f \in live : \A g \in live \ {f} :
             Alike(Wanting(ask, f), Wanting(ask, g)) => OriginsDiffer(f, g)
    BY <1>2, <1>8 DEF NoDuplicate
  <2>2. \A f \in Changing(ask) : entry'[f].status = entry[f].status
    BY <1>1, <1>3, <1>4, <1>8, NewRowIs
  <2>3. e \in live
    BY <2>2
  <2>4. CASE x \in Changing(ask)
    <3>1. x \in live
      BY <2>2, <2>4
    <3> HIDE DEF live
    <3> QED
      BY <1>5, <1>6, <2>1, <2>3, <2>4, <3>1
  <2>5. CASE x \notin Changing(ask)
    <3> HIDE DEF live
    <3> QED
      BY <1>4, <1>5, <2>1, <2>3, <2>5 DEF Twins
  <2> QED
    BY <2>4, <2>5
<1> QED
  BY <1>3, <1>7, <1>8 DEF EntryOps, Voiding

(***************************************************************************)
(* No duplicate arrives unseen: a request that allows none leaves no live  *)
(* entry it wrote with a live twin, though a twin be written meanwhile.    *)
(***************************************************************************)
THEOREM NoDuplicateArrives == WSpec => NoSilentDuplicate
<1> DEFINE Kind ==
      \A r \in Requests :
        (req[r].at = "commit" /\ req'[r].at = "done" /\ OnEntries(req[r].ask) /\ req[r].ask.op \notin Voiding
           /\ ~ req[r].ask.allow)
        => \A e \in DOMAIN req[r].change.entries :
             entry'[e].status = "live" =>
               \A x \in Entries \ {e} :
                 entry'[x].status = "live" /\ Alike(entry'[x].draft, entry'[e].draft)
                   => OriginsDiffer(x, e)
<1>1. ASSUME WritesInv, [WNext]_wvars PROVE Kind
  <2> SUFFICES ASSUME NEW r \in Requests, req[r].at = "commit", req'[r].at = "done", OnEntries(req[r].ask),
                      req[r].ask.op \notin Voiding, ~ req[r].ask.allow,
                      NEW e \in DOMAIN req[r].change.entries, entry'[e].status = "live",
                      NEW x \in Entries \ {e}, entry'[x].status = "live",
                      Alike(entry'[x].draft, entry'[e].draft)
               PROVE  OriginsDiffer(x, e)
    OBVIOUS
  <2>1. Commit(r)
    BY <1>1, OnlyCommits
  <2>2. e \in Changing(req[r].ask)
    <3>1. Decided(r, req[r].ask)
      BY <1>1, CommitFinds
    <3>2. req[r].change.entries = [f \in Changing(req[r].ask) |-> NewRow(req[r].ask, f)]
      BY <3>1 DEF Decided, EntryChange
    <3> QED
      BY <3>2
  <2> QED
    BY <1>1, <2>1, <2>2, NoTwinLeft
<1>2. WritesInv /\ [WNext]_wvars => [Kind]_wvars
  BY <1>1
<1> HIDE DEF Kind
<1>3. WSpec => [][Kind]_wvars
  BY <1>2, WritesHold, PTL DEF WSpec
<1> QED
  BY <1>3 DEF NoSilentDuplicate, Kind
=============================================================================
