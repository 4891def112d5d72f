------------------------------- MODULE Ledger -------------------------------
(***************************************************************************)
(* One person's double-entry books: the accounts they keep, the entries    *)
(* they write, and the posting table every balance is summed from.         *)
(*                                                                         *)
(* src/server/services/transactions.ts writes entries and                  *)
(* src/server/services/accounts.ts opens, archives, restores and deletes   *)
(* accounts.  Each action below is one committed database transaction of   *)
(* those services; the locks, the version checks and the interleavings     *)
(* that make a transaction atomic are the subject of LedgerWrites.         *)
(*                                                                         *)
(* Postings are append-only rows.  What matters of them is what they sum   *)
(* to, so posted[src][slot] is the sum of the rows one source (an entry,   *)
(* an account's opening, an account's closing) has written for one account *)
(* and day, and written[src] the accounts it has ever written a row for,   *)
(* which the deletion of an account and a change of its currency count.    *)
(***************************************************************************)
EXTENDS Integers, FiniteSets, Functions

CONSTANTS Accounts,     \* ids of the accounts a person may keep
          Entries,      \* ids of ledger entries (transactions)
          Currencies,   \* currency codes
          Drafts,       \* the drafts a request may carry
          Openings,     \* the opening balances a request may carry
          Patches,      \* the patches a mass edit may carry
          LastDay,      \* the last day anything is dated
          Zones,        \* timezones, each the days it is ahead of UTC
          Nobody        \* stands for the side an entry does not have

Days == 1 .. LastDay
Instants == {t \in Days : \A z \in Zones : t + z \in Days}

EntryTypes == {"deposit", "withdrawal", "transfer"}

(* What every well-formed draft satisfies: transactionDraftSchema.         *)
WellFormed(d) ==
  /\ d \in [type : EntryTypes, from : Accounts \cup {Nobody}, to : Accounts \cup {Nobody},
            sent : Nat \ {0}, received : Nat \ {0}, day : Days, refund : BOOLEAN]
  /\ d.from \in (IF d.type = "deposit" THEN {Nobody} ELSE Accounts)
  /\ d.to \in (IF d.type = "withdrawal" THEN {Nobody} ELSE Accounts)
  /\ d.from # d.to
  /\ d.type # "transfer" => d.sent = d.received

ASSUME LedgerAssumption ==
  /\ IsFiniteSet(Accounts) /\ IsFiniteSet(Entries) /\ IsFiniteSet(Currencies)
  /\ Accounts # {} /\ Currencies # {} /\ Drafts # {}
  /\ Nobody \notin Accounts
  /\ LastDay \in Nat
  /\ Zones \subseteq Nat /\ Zones # {} /\ Instants # {}
  /\ Openings \subseteq Int
  /\ Patches \subseteq [day : Days \cup {0}, account : Accounts \cup {Nobody},
                        type : {"deposit", "withdrawal", ""}]
  /\ \A d \in Drafts : WellFormed(d)

(* The server's own accounts, one of each kind and currency.               *)
CounterKinds == {"income", "expense", "exchange", "equity"}
Counters == CounterKinds \X Currencies
ASSUME CountersApart == Counters \cap Accounts = {}

LedgerAccounts == Accounts \cup Counters
Slots == LedgerAccounts \X Days
Sources == ({"entry"} \X Entries) \cup ({"opening", "closing"} \X Accounts)

VARIABLES account,   \* account[a]: the ledger_account row
          entry,     \* entry[e]: the ledger_transaction row
          posted,    \* posted[src][slot]: what the posting rows of src sum to
          written,   \* written[src]: the accounts src has posting rows on
          now,       \* the current instant
          zone       \* the person's stored timezone
vars == <<account, entry, posted, written, now, zone>>

-----------------------------------------------------------------------------
(* Dates and rows.                                                         *)

CalendarDay(instant, tz) == instant + tz
ArchiveDay(a) == CalendarDay(account[a].archivedAt, zone)

Nothing == [slot \in Slots |-> 0]
Kept(a) == account[a].status # "none"
Archived(a) == account[a].status = "archived"
Stored(e) == entry[e].status # "none"

Sides(d) == {d.from, d.to} \ {Nobody}
EntriesOn(a) == {e \in Entries : Stored(e) /\ a \in Sides(entry[e].draft)}

(* Two balanced postings on one day.                                       *)
Pair(acct, counter, day, amount) ==
  [slot \in Slots |-> CASE slot = <<acct, day>> -> amount
                        [] slot = <<counter, day>> -> -amount
                        [] OTHER -> 0]

(* The counter-account a deposit or withdrawal settles against: income and *)
(* expense, the other way round when its category says it is a refund.     *)
CounterKind(d) == IF (d.type = "deposit") # d.refund THEN "income" ELSE "expense"

(***************************************************************************)
(* The postings of a draft, whose accounts hold the currencies accts says. *)
(* A conversion settles through the exchange account of each currency.     *)
(***************************************************************************)
PostingsOf(d, accts) ==
  CASE d.type = "deposit" ->
         Pair(d.to, <<CounterKind(d), accts[d.to].currency>>, d.day, d.sent)
    [] d.type = "withdrawal" ->
         Pair(d.from, <<CounterKind(d), accts[d.from].currency>>, d.day, -d.sent)
    [] d.type = "transfer" /\ accts[d.from].currency = accts[d.to].currency ->
         Pair(d.from, d.to, d.day, -d.sent)
    [] OTHER ->
         LET out == Pair(d.from, <<"exchange", accts[d.from].currency>>, d.day, -d.sent)
             in  == Pair(d.to, <<"exchange", accts[d.to].currency>>, d.day, d.received)
         IN  [slot \in Slots |-> out[slot] + in[slot]]

(***************************************************************************)
(* Whether a draft may be prepared: every account it names is one of the   *)
(* person's and either in use or, being stored on the entry already,       *)
(* allowed though archived; a same-currency transfer moves one amount.     *)
(***************************************************************************)
Even(d) ==
  d.type = "transfer" /\ account[d.from].currency = account[d.to].currency => d.sent = d.received

Preparable(d, allowedArchived) ==
  /\ \A a \in Sides(d) : Kept(a) /\ (Archived(a) => a \in allowedArchived)
  /\ Even(d)

-----------------------------------------------------------------------------
(* Writing postings: the difference to what is wanted is appended.         *)

Difference(have, want) == [slot \in Slots |-> want[slot] - have[slot]]
Added(have, rows) == [slot \in Slots |-> have[slot] + rows[slot]]
RowsOn(have, want) == {a \in Accounts : \E day \in Days : Difference(have, want)[<<a, day>>] # 0}

(* What p sums to once every source src of wants says wants[src].          *)
PostedAfter(p, wants) ==
  [src \in Sources |-> IF src \in DOMAIN wants
                       THEN Added(p[src], Difference(p[src], wants[src]))
                       ELSE p[src]]
WrittenAfter(w, p, wants) ==
  [src \in Sources |-> IF src \in DOMAIN wants
                       THEN w[src] \cup RowsOn(p[src], wants[src])
                       ELSE w[src]]

(* What the account was given by everything but closings, dated on day.    *)
NotClosing == {src \in Sources : src[1] # "closing"}
NetOn(p, a, day) ==
  SumFunctionOnSet([src \in NotClosing |-> p[src][<<a, day>>]], NotClosing)
NetOver(p, a, days) == SumFunctionOnSet([day \in Days |-> NetOn(p, a, day)], days)

(* (Mutant: no mirror collapses onto the archive day.)                     *)
MeasuredDayByDay(p, a, anchor, day) == NetOn(p, a, day)

(***************************************************************************)
(* The closing postings of an account closed on anchor: everything dated   *)
(* on or before the archive day collapses onto it, and each later day is   *)
(* mirrored on its own.  The equity account receives what leaves.          *)
(***************************************************************************)
Measured(p, a, anchor, day) ==
  CASE day < anchor -> 0
    [] day = anchor -> NetOver(p, a, 1 .. anchor)
    [] OTHER        -> NetOn(p, a, day)

ClosingOf(p, a, anchor, currency) ==
  [slot \in Slots |-> CASE slot[1] = a -> -Measured(p, a, anchor, slot[2])
                        [] slot[1] = <<"equity", currency>> -> Measured(p, a, anchor, slot[2])
                        [] OTHER -> 0]

(* The closing an account with this row should have: none while in use.    *)
ClosingWanted(p, a, row) ==
  IF row.status = "archived"
  THEN ClosingOf(p, a, CalendarDay(row.archivedAt, zone), row.currency)
  ELSE Nothing

Close(p, closing, rows) ==
  [src \in {"closing"} \X closing |-> ClosingWanted(p, src[2], rows[src[2]])]

NoWants == [src \in {} |-> Nothing]

(* Post wants, then bring the closings of the accounts of closing in line. *)
Settle(wants, closing, rows) ==
  LET p == PostedAfter(posted, wants)
  IN  /\ posted' = PostedAfter(p, Close(p, closing, rows))
      /\ written' = WrittenAfter(WrittenAfter(written, posted, wants), p, Close(p, closing, rows))

(***************************************************************************)
(* Post what each entry of es should now say, and re-close every archived  *)
(* account a row of the difference was written on.                         *)
(***************************************************************************)
RepostEntries(es, Want(_)) ==
  LET wants == [src \in {"entry"} \X es |-> Want(src[2])]
      touched == UNION {RowsOn(posted[src], wants[src]) : src \in {"entry"} \X es}
  IN  Settle(wants, {a \in touched : Archived(a)}, account)

-----------------------------------------------------------------------------
(* Entries.                                                                *)

CurrencyOn(side) == IF side = Nobody THEN Nobody ELSE account[side].currency
Row(status, d) ==
  [status |-> status, draft |-> d, fromCurrency |-> CurrencyOn(d.from), toCurrency |-> CurrencyOn(d.to)]

CreateEntry(e, d) ==
  /\ ~ Stored(e)
  /\ Preparable(d, {})
  /\ entry' = [entry EXCEPT ![e] = Row("live", d)]
  /\ Settle([src \in {<<"entry", e>>} |-> PostingsOf(d, account)], {}, account)
  /\ UNCHANGED <<account, now, zone>>

(* Mutant: a deleted entry is posted again by an edit of its labels.       *)
UpdateEntryLive(e, d) ==
  /\ Stored(e)
  /\ Preparable(d, Sides(entry[e].draft))
  /\ Row(entry[e].status, d) # entry[e]
  /\ entry' = [entry EXCEPT ![e] = Row(entry[e].status, d)]
  /\ RepostEntries({e}, LAMBDA x : PostingsOf(d, account))
  /\ UNCHANGED <<account, now, zone>>

(***************************************************************************)
(* Saving an entry.  One that would change nothing writes nothing; a       *)
(* deleted one keeps its ledger void whatever its labels say.              *)
(***************************************************************************)
UpdateEntry(e, d) ==
  /\ Stored(e)
  /\ Preparable(d, Sides(entry[e].draft))
  /\ Row(entry[e].status, d) # entry[e]
  /\ entry' = [entry EXCEPT ![e] = Row(entry[e].status, d)]
  /\ RepostEntries({e}, LAMBDA x : IF entry[x].status = "deleted" THEN Nothing
                                   ELSE PostingsOf(d, account))
  /\ UNCHANGED <<account, now, zone>>

(* Deleting one entry, or every entry still live in a mass selection.      *)
DeleteEntries(selected) ==
  LET deletable == {e \in selected : entry[e].status = "live"}
  IN  /\ \A e \in selected : Stored(e)
      /\ deletable # {}
      /\ entry' = [e \in Entries |-> IF e \in deletable
                                     THEN [entry[e] EXCEPT !.status = "deleted"]
                                     ELSE entry[e]]
      /\ RepostEntries(deletable, LAMBDA e : Nothing)
      /\ UNCHANGED <<account, now, zone>>

(* Restoring prepares the stored entry again, from the accounts as they    *)
(* are now, and writes nothing but deletedAt on the row itself.            *)
RestoreEntry(e) ==
  /\ entry[e].status = "deleted"
  /\ Preparable(entry[e].draft, Sides(entry[e].draft))
  /\ entry' = [entry EXCEPT ![e].status = "live"]
  /\ RepostEntries({e}, LAMBDA x : PostingsOf(entry[x].draft, account))
  /\ UNCHANGED <<account, now, zone>>

(***************************************************************************)
(* A mass edit: patch names a day, an account or a direction, each left    *)
(* alone when it is 0, Nobody or "".  Every row of the selection or none.  *)
(***************************************************************************)
Patched(d, patch) ==
  LET type == IF patch.type = "" THEN d.type ELSE patch.type
      side == IF patch.account # Nobody THEN patch.account
              ELSE IF d.type = "deposit" THEN d.to ELSE d.from
      day  == IF patch.day = 0 THEN d.day ELSE patch.day
  IN  IF d.type = "transfer" THEN [d EXCEPT !.day = day]
      ELSE [d EXCEPT !.type = type, !.day = day,
                     !.from = IF type = "deposit" THEN Nobody ELSE side,
                     !.to = IF type = "deposit" THEN side ELSE Nobody,
                     !.refund = IF type = d.type THEN d.refund ELSE FALSE]

Patchable(e, patch) ==
  LET d == entry[e].draft
      next == Patched(d, patch)
  IN  /\ Stored(e)
      /\ d.type = "transfer" => patch.account = Nobody /\ patch.type = ""
      /\ Preparable(next, Sides(d))
      /\ (patch.account # Nobody /\ d.type # "transfer")
           => account[patch.account].currency \in {entry[e].fromCurrency, entry[e].toCurrency}

EditEntries(selected, patch) ==
  LET edited(e) == Row(entry[e].status, Patched(entry[e].draft, patch))
      changing == {e \in selected : edited(e) # entry[e]}
  IN  /\ \A e \in selected : Patchable(e, patch)
      /\ changing # {}
      /\ entry' = [e \in Entries |-> IF e \in changing THEN edited(e) ELSE entry[e]]
      /\ RepostEntries(changing, LAMBDA e : IF entry[e].status = "deleted" THEN Nothing
                                            ELSE PostingsOf(edited(e).draft, account))
      /\ UNCHANGED <<account, now, zone>>

-----------------------------------------------------------------------------
(* Accounts.                                                               *)

OpeningOf(a, row) == Pair(a, <<"equity", row.currency>>, row.openingDay, row.opening)

OpenAndClose(a, row) ==
  /\ account' = [account EXCEPT ![a] = row]
  /\ Settle([src \in {<<"opening", a>>} |-> OpeningOf(a, row)], {a}, [account EXCEPT ![a] = row])

(* An account arrives live, or already archived from another ledger's file *)
CreateAccount(a, currency, opening, day, status) ==
  /\ ~ Kept(a)
  /\ OpenAndClose(a, [status |-> status, currency |-> currency, opening |-> opening,
                      openingDay |-> day, archivedAt |-> IF status = "archived" THEN now ELSE 0])
  /\ UNCHANGED <<entry, now, zone>>

HasPostings(a) == \E src \in Sources : a \in written[src]

(* Mutant: only the opening is asked about when the currency changes.      *)
UpdateAccountFreely(a, currency, opening, day) ==
  LET row == [account[a] EXCEPT !.currency = currency, !.opening = opening, !.openingDay = day]
  IN  /\ Kept(a)
      /\ row # account[a]
      /\ currency # account[a].currency => account[a].opening = 0
      /\ OpenAndClose(a, row)
      /\ UNCHANGED <<entry, now, zone>>

UpdateAccount(a, currency, opening, day) ==
  LET row == [account[a] EXCEPT !.currency = currency, !.opening = opening, !.openingDay = day]
  IN  /\ Kept(a)
      /\ row # account[a]
      /\ currency # account[a].currency => account[a].opening = 0 /\ ~ HasPostings(a)
      /\ OpenAndClose(a, row)
      /\ UNCHANGED <<entry, now, zone>>

SetAccountArchived(a, status) ==
  LET row == [account[a] EXCEPT !.status = status,
                                !.archivedAt = IF status = "archived" THEN now ELSE 0]
  IN  /\ Kept(a)
      /\ account[a].status # status
      /\ account' = [account EXCEPT ![a] = row]
      /\ Settle(NoWants, {a}, [account EXCEPT ![a] = row])
      /\ UNCHANGED <<entry, now, zone>>

Unopened == [status |-> "none", currency |-> CHOOSE c \in Currencies : TRUE,
             opening |-> 0, openingDay |-> 1, archivedAt |-> 0]

(* Mutant: transactions are counted, the postings they left behind are not *)
DeleteAccountUnposted(a) ==
  /\ account[a].status = "live"
  /\ EntriesOn(a) = {}
  /\ account' = [account EXCEPT ![a] = Unopened]
  /\ posted' = [posted EXCEPT ![<<"opening", a>>] = Nothing, ![<<"closing", a>>] = Nothing]
  /\ written' = [written EXCEPT ![<<"opening", a>>] = {}, ![<<"closing", a>>] = {}]
  /\ UNCHANGED <<entry, now, zone>>

(* Only an account no entry names, and no entry ever posted on, is deleted *)
DeleteAccount(a) ==
  /\ account[a].status = "live"
  /\ EntriesOn(a) = {}
  /\ \A e \in Entries : a \notin written[<<"entry", e>>]
  /\ account' = [account EXCEPT ![a] = Unopened]
  /\ posted' = [posted EXCEPT ![<<"opening", a>>] = Nothing, ![<<"closing", a>>] = Nothing]
  /\ written' = [written EXCEPT ![<<"opening", a>>] = {}, ![<<"closing", a>>] = {}]
  /\ UNCHANGED <<entry, now, zone>>

(* At every start of the server, each archived account is closed again.    *)
ReconcileArchived(a) ==
  /\ Archived(a)
  /\ Settle(NoWants, {a}, account)
  /\ UNCHANGED <<account, entry, now, zone>>

-----------------------------------------------------------------------------
Advance ==
  /\ now + 1 \in Instants
  /\ now' = now + 1
  /\ UNCHANGED <<account, entry, posted, written, zone>>

(* Preferences are saved; nothing already posted is looked at.             *)
SetTimezone(z) ==
  /\ z # zone
  /\ zone' = z
  /\ UNCHANGED <<account, entry, posted, written, now>>

NoEntry == [status |-> "none", draft |-> CHOOSE d \in Drafts : TRUE,
            fromCurrency |-> Nobody, toCurrency |-> Nobody]

Init ==
  /\ account = [a \in Accounts |-> Unopened]
  /\ entry = [e \in Entries |-> NoEntry]
  /\ posted = [src \in Sources |-> Nothing]
  /\ written = [src \in Sources |-> {}]
  /\ now = 1
  /\ zone \in Zones

EntryStep ==
  \/ \E e \in Entries, d \in Drafts : CreateEntry(e, d) \/ UpdateEntry(e, d)
  \/ \E selected \in SUBSET Entries : DeleteEntries(selected)
  \/ \E e \in Entries : RestoreEntry(e)
  \/ \E selected \in SUBSET Entries, patch \in Patches : EditEntries(selected, patch)

AccountStep ==
  \E a \in Accounts :
    \/ \E c \in Currencies, o \in Openings, day \in Days, s \in {"live", "archived"} :
         CreateAccount(a, c, o, day, s)
    \/ \E c \in Currencies, o \in Openings, day \in Days : UpdateAccount(a, c, o, day)
    \/ \E s \in {"live", "archived"} : SetAccountArchived(a, s)
    \/ DeleteAccount(a)
    \/ ReconcileArchived(a)

Next == EntryStep \/ AccountStep \/ Advance \/ (\E z \in Zones : SetTimezone(z))

Spec == Init /\ [][Next]_vars
-----------------------------------------------------------------------------
(* What the books promise.                                                 *)

(* Every variable has its type: rows of the three tables that are well     *)
(* formed, and postings that are whole minor units on known slots.         *)
TypeOK ==
  /\ account \in [Accounts -> [status : {"none", "live", "archived"}, currency : Currencies,
                               opening : Int, openingDay : Days, archivedAt : Nat]]
  /\ \A a \in Accounts : Archived(a) => account[a].archivedAt \in Instants
  /\ entry \in [Entries -> [status : {"none", "live", "deleted"},
                            draft : [type : EntryTypes, from : Accounts \cup {Nobody},
                                     to : Accounts \cup {Nobody}, sent : Nat \ {0},
                                     received : Nat \ {0}, day : Days, refund : BOOLEAN],
                            fromCurrency : Currencies \cup {Nobody},
                            toCurrency : Currencies \cup {Nobody}]]
  /\ \A e \in Entries : WellFormed(entry[e].draft)
  /\ posted \in [Sources -> [Slots -> Int]]
  /\ written \in [Sources -> SUBSET Accounts]
  /\ now \in Instants
  /\ zone \in Zones

(* An account's balance as of a day, as the reports sum it.                *)
Balance(a, day) ==
  NetOver(posted, a, 1 .. day)
    + SumFunctionOnSet([d \in Days |->
                          SumFunctionOnSet([src \in {"closing"} \X Accounts |-> posted[src][<<a, d>>]],
                                           {"closing"} \X Accounts)], 1 .. day)

(* What the account's own entries and opening say it held that day.        *)
Effect(d, a) == (IF d.to = a THEN d.received ELSE 0) - (IF d.from = a THEN d.sent ELSE 0)
Weighs(e, day) == entry[e].status = "live" /\ entry[e].draft.day <= day
BooksSay(a, day) ==
  (IF account[a].openingDay <= day THEN account[a].opening ELSE 0)
    + SumFunctionOnSet([e \in Entries |-> IF Weighs(e, day) THEN Effect(entry[e].draft, a) ELSE 0],
                       Entries)

(***************************************************************************)
(* An archived account reads zero as of its archive day and every day      *)
(* after, whatever is edited, deleted, restored, moved, reopened or dated  *)
(* ahead: repostTransaction and postOpeningBalance re-close it each time.  *)
(***************************************************************************)
ArchivedReadsZero ==
  \A a \in Accounts, day \in Days : Archived(a) /\ day >= ArchiveDay(a) => Balance(a, day) = 0

(***************************************************************************)
(* Every other balance a person is shown is what the live entries and the  *)
(* opening say: an account in use at any date, and an archived one before  *)
(* its archive day, hold no trace of any closing ever posted.              *)
(***************************************************************************)
BalanceIsTheBooks ==
  \A a \in Accounts, day \in Days :
    Kept(a) /\ ~ (Archived(a) /\ day >= ArchiveDay(a)) => Balance(a, day) = BooksSay(a, day)

(***************************************************************************)
(* Double entry holds source by source, day by day and currency by         *)
(* currency, an account counting under the currency it holds now: no edit  *)
(* of an account's currency may strand what was posted before it.          *)
(***************************************************************************)
InCurrency(c) == {a \in Accounts : account[a].currency = c} \cup (CounterKinds \X {c})
ZeroSum ==
  \A src \in Sources, day \in Days, c \in Currencies :
    SumFunctionOnSet([la \in LedgerAccounts |-> posted[src][<<la, day>>]], InCurrency(c)) = 0

(***************************************************************************)
(* What an entry's rows add up to on every account, counter-accounts       *)
(* included, is what its stored shape says in the accounts as they are     *)
(* now, and nothing at all while it is deleted.                            *)
(***************************************************************************)
EntriesSettled ==
  \A e \in Entries : posted[<<"entry", e>>] = IF entry[e].status = "live"
                                              THEN PostingsOf(entry[e].draft, account)
                                              ELSE Nothing

(* No posting row names an account that has been deleted, not even rows    *)
(* left behind by entries that have moved away from it since.              *)
NoOrphanPostings == \A src \in Sources : \A a \in written[src] : Kept(a)

(***************************************************************************)
(* schema.ts says of an entry's currency columns that "no row can name an  *)
(* amount in a currency its account does not hold".                        *)
(***************************************************************************)
RowNamesItsCurrencies ==
  \A e \in Entries :
    entry[e].status = "live" =>
      /\ entry[e].fromCurrency = CurrencyOn(entry[e].draft.from)
      /\ entry[e].toCurrency = CurrencyOn(entry[e].draft.to)
-----------------------------------------------------------------------------
(* What makes those promises inductive.                                    *)

(* An opening pair says what the account's row says.                       *)
OpeningsSettled == \A a \in Accounts : posted[<<"opening", a>>] = OpeningOf(a, account[a])

(* A closing pair moves money between its account and equity only.         *)
Own(a) == {a, <<"equity", account[a].currency>>}
ClosingsPaired ==
  \A a \in Accounts, day \in Days :
    /\ posted[<<"closing", a>>][<<<<"equity", account[a].currency>>, day>>]
         = -posted[<<"closing", a>>][<<a, day>>]
    /\ \A la \in LedgerAccounts \ Own(a) : posted[<<"closing", a>>][<<la, day>>] = 0

(* A closing mirrors what its account was given, and is gone while in use. *)
ClosingsSettled ==
  \A a \in Accounts : posted[<<"closing", a>>] = ClosingWanted(posted, a, account[a])

(* Entries name accounts that exist, and a live transfer within one        *)
(* currency moves one amount.                                              *)
EntriesPlaced ==
  \A e \in Entries :
    /\ Stored(e) => \A a \in Sides(entry[e].draft) : Kept(a)
    /\ entry[e].status = "live" => Even(entry[e].draft)

(* Rows are remembered: a sum that is not zero came from a row.            *)
Recorded ==
  \A src \in Sources, a \in Accounts, day \in Days :
    posted[src][<<a, day>>] # 0 => a \in written[src]

(* An opening or a closing writes on its own account and no other.         *)
OwnRowsOnly == \A a \in Accounts, k \in {"opening", "closing"} : written[<<k, a>>] \subseteq {a}

Books == /\ TypeOK /\ EntriesSettled /\ OpeningsSettled /\ ClosingsPaired
         /\ EntriesPlaced /\ Recorded /\ OwnRowsOnly /\ NoOrphanPostings
=============================================================================
