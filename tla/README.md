# Simple Balance: a verification project

TLA+ modules that model the server of Simple Balance, a self-hosted personal
ledger, TLC configurations that check them on small instances, and theorems
about them that the TLA+ proof system checks for every value of their
constants.  Paths below are relative to the repository's root; line numbers
are in `PROJECT.json`, which maps every definition to the code it stands for.

## 1. The system

A person keeps accounts and writes entries (deposits, withdrawals, transfers);
a double-entry ledger of *postings* in PostgreSQL holds what they add up to.
Drafts from files, agents and schedules wait in a staging queue to be
committed.  A hosted deployment sells a plan through Stripe; without one the
number of accounts in use is limited.  The API, an MCP endpoint for agents and
the scheduler in each process that has it on are all the same services
(`src/server/services/*.ts`) over the same database, at READ COMMITTED.

| component | state it keeps | operations that change it | what is hard |
|---|---|---|---|
| transactions | `ledger_transaction`, its legs, `posting` | create, save, void, restore, mass edit, mass delete | postings are append-only and netted; reads before locks; duplicates; archived accounts |
| accounts | `ledger_account`, opening and closing postings | create, update, archive, restore, delete, choose active ones, reconcile at startup | an archived account must read zero for ever; currency changes; places under a plan |
| locks and retry records | advisory locks, `idempotency_record` | lock, look up, store, prune | lock order over some twenty write paths; replay and retention |
| staging | `staged_transaction` | stage, edit, mass edit, delete, commit | stale selections, partial failure, duplicates between rows and books |
| recurrences, scheduler | `recurrence` with its watermark | create, edit, delete, sweep | replicas, crashes, backlog, a stale due list, calendars |
| reminders and mail | `template_notification` with its watermark | sweep: claim, then send | at most once, never twice |
| categories, groups, payees, budgets | `category`, `category_group`, `budget_plan`, `budget_entry`, names on every other table | write, merge, prune | references without foreign keys, rewriting under version checks |
| templates | `transaction_template` | write, mass edit, delete | names, references in jsonb |
| ledger files | all of the above | add a file, move a ledger part by part | resuming a move, origins seen twice |
| billing, account deletion | `subscription`, webhook claims, `billing_operation` | apply a snapshot, begin and finish an operation, close | Stripe orders nothing; a call to it may be lost on either side |
| preferences | timezone and display | save | the timezone dates every archive |
| the budget report | none: it is folded again each time | | carry, funds and averages over gaps, caps, edits and a bound; what a group and its categories both hold |
| other reports, forecast, CSV, client, deployment | none of their own, or no protocol | | reads, text and plumbing |

They interact through the database and its locks.  A request runs in one
transaction: it reads, takes advisory locks one after another, locks or
rewrites rows, and commits.  The scheduler's sweeps claim rows with
`for update skip locked`.  Stripe calls in by webhook and is called out to.

## 2. The plan

Modules, in the order of what matters most; **bold** ones exist.

1. **`Ledger`**: the books, one committed transaction per action.
2. **`LedgerWrites`** extends `Ledger`: the same writes as requests that
   interleave, and the atomic `Ledger` as the specification they implement
   (`CommitsAreAtomic`).
3. **`LockOrder`**: the lock order of every write path.
4. **`Schedule`**, **`RecurrenceSweep`**: what a recurrence promises, and how
   any number of schedulers, a clock and people editing keep it.
5. **`Idempotency`**: a write retried under a key, its record and the
   retention sweep.
6. **`SubscriptionBooks`**, **`Billing`**: what the billing tables promise
   about a subscription, and the presses, deliveries, sweeps and the deletion
   of the person that keep it, with Stripe on the other side.
7. **`RecurrenceDates`**, **`Reminders`**: the dates of a rule, and template
   reminders claimed before they are sent.
8. **`AccountPlaces`**: which accounts a plan keeps in use.
9. **`StagingQueue`**: the queue and its commit.
10. **`Categories`**: categories, their groups, everything that names one and
    the budgets about them.
11. **`LedgerFiles`**: what a file calls an entry, adding a file to a ledger
    and moving a ledger part by part.
12. **`BudgetReports`**: what a budget carries, asks for and claims, folded
    over the periods before.
13. **`SumTheorems`**, **`LedgerProofs`**, **`LedgerWritesProofs`**,
    **`LockOrderProofs`**, **`ScheduleProofs`** (the sweep, the calendar and the
    reminders), **`IdempotencyProofs`**, **`BillingProofs`**,
    **`ServicesProofs`** (the queue, the places, the files, the categories, the
    budget report, and the services side by side): the theorems.
14. Left: `SplitLegs` (the legs of an entry as a pure function), and what a
    move does to archived accounts and balances.

Abstract specifications: the atomic ledger (for `LedgerWrites`); a schedule
whose every occurrence is settled once, in order (for `RecurrenceSweep`);
books that lag behind Stripe and never call ended what is charged (for
`Billing`).  Theorems worth proving next: what a split or a move adds once it
is modelled; of what is checked now, every safety property is proved.

## 3. What is modelled

**`Ledger`** (`transactions.ts`, `accounts.ts`).  `account`, `entry` are the
rows of the two tables; `posted[src][slot]` is what the posting rows of one
source (an entry, an account's opening, an account's closing) sum to on one
account and day, and `written[src]` the accounts it ever wrote a row on, which
is what `deleteAccount` and a change of currency count.  `repostTransaction`'s
netting is `Difference`; `postClosingBalance` is `ClosingOf`, measured over
the other sources from the archive day on; `Settle` runs the two in the order
of the code.  Actions are the service functions: `CreateEntry`, `UpdateEntry`,
`DeleteEntries` (single and mass), `RestoreEntry`, `EditEntries`,
`CreateAccount`, `UpdateAccount`, `SetAccountArchived`, `DeleteAccount`,
`ReconcileArchived`, and `Advance` and `SetTimezone` around them.  A refund
is the flag the category's kind gave the draft when it was made; a mass edit
that would make one is refused by the code.  Legs of a split share the slot
of their counter-account here.  A version, a frozen account, a staged draft
or a standing reference that makes the code refuse is a guard `Ledger`
leaves out: the properties hold without it.

**`LedgerWrites`** extends it with `version`, `lock` and `req`: `Submit` is
the client naming rows and versions, `Read` the read before any lock, `Lock`
one advisory or row lock, `Refuse`/`Work` the decision on what is committed
then, `Commit` the commit.  A decision taken on rows read too early would
show as a commit that is not a step of `Ledger`.  `Imported` are the entries a
ledger file brought, each under an origin of its own as the unique index has
it; two of them are never each other's duplicates, one of them and a typed
entry may be (`OriginsDiffer`).

**`LockOrder`** keeps only locks: `LocksTaken` transcribes, operation by
operation, the groups of locks in their order; `Take`, `Proceed`, `End` are
PostgreSQL.  Foreign-key share locks and the rows of accounts and categories
themselves, each written under its own namespace, are not in it.

**`Schedule`** (`recurrences.ts`, `recurrence-dates.ts`) is the promise: a
row's rule names days (`Occurs`), each with the day its row would carry or
none (`Posted`, which stands for `postedDateFor`); everything up to the
`Cursor` is settled; `Propose` settles the next `Batch` and stages the rows of
it that no policy and no floor pass over.  Days are counted from the first of
the run; a day a policy moves back keeps its place in the sequence.

**`RecurrenceSweep`** extends it with the schedulers that bring it about:
`ReadDue` is the unlocked due list of `runDueRecurrences` (a page of the most
overdue, a day early), `Examine` the decision by the owner's date and the
timezone the list carried, `Claim` the `for update skip locked` read of the
row, `Commit` rows and watermark in one transaction, `Fail` the catch around
it, `Tell` the mail after it, `EndTick` the next tick.  `Crash` is a process
that stops or dies anywhere; `Change` is a person, who waits for the row's
lock.  A mail that fails and one never sent are the same.  `Commit` writes
from the copy of the row it claimed, so `KeepsThePromise` (`Schedule`'s
specification over the same row) fails as soon as anybody writes between.
Whoever holds a row's lock for the length of an edit makes a tick skip the
row until the next; the names a recurrence must not share and the limit on
their number are left out.

**`Idempotency`** (`helpers.ts`, `mcp.ts`).  A name is the table's primary key;
`LockOf` is the part of it the advisory lock is taken on, which MCP's wrapper
(operation prefixed `mcp.`) and the service share.  `Begin`, `Lock`,
`Miss`/`Replay` (`getIdempotent`), `Store` (the work and `setIdempotent`, both
uncommitted, with the primary key as PostgreSQL enforces it) and `Commit` are
one transaction; `Fail` rolls it back anywhere.  A client that lost its answer
just begins again.  `SweepRead` and `SweepDelete` are the two statements of
`pruneIdempotencyRecords`.  The work itself is opaque, so what a repeated one
would meet (the duplicate check, a stale version) is not in it; nor are dry
runs, which skip the record, and the deletion of a person.  One clock stands
for PostgreSQL's (`created_at`) and the sweeping process's (the cutoff).

**`Billing`** (`billing.ts`, `account-deletion.ts`, the webhook route of
`api.ts`).  A *job* is one run of a function: a press (`setSubscription`,
`setSubscriptionCancellation`), a delivery or a load of the plan tab, the
reconciliation sweep, the deletion of the person.  Its steps are single calls
of Stripe and single committed transactions, so anything may happen between
them, and `Break` ends it anywhere.  `Decide` to `StoreMade` is the section
under the person's billing lock.  The order in which snapshots were stamped
(`syncedAt`) is all that `reconcileSubscription` compares, so `stamp` keeps
that order and no clock; clocks of several replicas are taken to agree, as
`billing.ts:324-330` says.  Stripe is `customer`, `sub` and `due` (events not
yet delivered, in any order, each perhaps more than once or never before its
retries end): `Move` is what it does by itself, `Becomes` a change and its
event, `DeletesCustomer` the end of everything a customer owns.  A repeated
idempotency key changes nothing and is answered as it was before, even where
the subscription has moved on since (`MadeBy`, and for updates `Updates`); a
cancellation is a DELETE, which has no such key.  Left out: refusals
that come before any step (prices that do not check, plans that were granted,
early reads without the lock), payment methods and setup intents, a customer
or a subscription that a key of the wrong account cannot see
(`storeSubscriptionGone`, `missingMeansGone`), the 24 hours after which Stripe
forgets a key, and the two calls inside one change of schedule with their
keys.
`orphans` is not in the code: it counts the subscriptions that an attempt made
at Stripe and broke off before storing, until a retry of the same key takes
them up again.  `OneToPay` bounds what a person may be charged by it.

**`SubscriptionBooks`** is the promise: Stripe's truth changes by itself; a
record may be of an older truth; it says *ended* only of what has ended; and
one that is wrong is put right again.

**`RecurrenceDates`** (`recurrence-dates.ts`) has the calendar, the sequence of
a rule counted from its anchor, the policies for month ends and weekends, and
the guess of the first index after a watermark; days are numbered from the
first of January of `BaseYear`.  `Names` and `PassedBy` say the same schedule
day by day and share only the calendar with it: they are the reference.
`RuleFits` is what the schema lets a schedule be.

**`Reminders`** (`notifications.ts`, `transaction-templates.ts`).  `reminder`
is the row, replaced whole by `SaveWrites` after `SaveLocks` read it `for
update`; a replica's pass reads the list, claims the row if nobody holds it,
and sends or fails to.  The clock is the person's own, a day and an hour;
`Backlog` is the loop that collapses what was missed.

**`AccountPlaces`** (`accounts.ts`, `domain.ts`).  An operation decides under
the namespace lock and writes when it commits; the plan, which no lock of it
holds, may change in between (`PlanChanges`: a webhook, a grace that ends, an
operator, a restart with billing on or off).  `active` is the stored choice,
`FrozenAccountIds` what is derived from it.  `assertAccountAllowance` and
`countActiveAccounts` each read the plan again: what changes between the two
reads can only refuse more, and is left out.

**`StagingQueue`** (`staging.ts`).  Creates and edits hold the locks of the
accounts they name from their first relevant read on, so they are one step; a
commit reads its rows first (`CommitReads`), then locks and validates
(`CommitLocks`), then posts, marks and stores its answer (`CommitPosts`).
An archive or a delete counts the rows that name the account under the same
lock (`Counts`) and writes later (`PutsAway`).  What makes a draft complete is
one bit, the account `Blank`; duplicates, payees and progress are left out.
A commit reads once which accounts are frozen and a comment there says that
nothing changes it before the last insert; the choice of accounts takes no
lock a commit holds and plans change by webhook, so it may, and
`NothingOnClosedAccount` does not count frozen accounts.

**`Categories`** (`categories.ts`, `category-groups.ts`, `budgets.ts`, and the
services that name a category).  One entry, one staged row, one recurrence and
one template are the *holders*; a draft is the category in its column, those
of its legs and its type.  A save that names a category is two steps,
`BeginSave` (the locks, the check) and `CommitSave`, with the namespace lock
between them: that is where a category could go.  Everything else under the
lock is one step.  `ResolveByName` is the category made or brought back from a
name, `PruneOrphans` the category an edit leaves unused, `Using` the count
over four tables that a delete and a prune rest on, `RelabelDraft` the
statement that rewrites a JSON draft.  A budget is its target and its window
of periods, in one currency and one unit.  Versions, amounts, idempotency keys
and the clash of two names are left out.

**`LedgerFiles`** (`ledger-file.ts`, the plan in `ledger-file-import.ts`, the
unique indexes in `schema.ts`).  `thing` is the table of entries and the table
of staged rows, by id; `Origin` is what an export calls one, its stored
origin, the row it was committed from, or its own id.  `FindImportOrigins`,
`FindWaitingOrigins` and `MoveBlocked` are the three statements an import
rests on, branch by branch.  `AddLedgerFile` and `MoveLedgerFile` are one step
each, since they hold every lock an entry and a row are written under; a part
of a move is any set of the file's entries and of its rows, and the last
brings its recurrences.  `fact`, `brought` and `goesOn` are bookkeeping of the properties:
what was once written down, what moves have brought, and whether a move is
under way that nobody has written into.  The accounts and categories that come
with a file, the decisions about them and the balances at the end are left
out, as is the review for duplicates, which may refuse and never adds.  A
recurrence that proposes the same occurrence in two ledgers is two facts here,
as it is two ids there.

**`BudgetReports`** (`getBudgetReport` and what it calls in `budgets.ts`).
The state is what the report reads: money spent and earned by period, the
plans, the amounts typed for one period, and today's period; `PlanFits` is what
the request schema and the table's checks let a plan be.  `Book` is all of
it as one record, so that the figures can also be worked out of the book as it
would be after one more payment.  `Chain` is `foldRollover` for one target,
`Turn` one of its periods; `Figures` adds the groups that are their categories
added up; `Funded` is the funding order and `Claimed` what envelopes hold of
the money in the accounts.  Amounts are whole numbers of the smallest unit and
quotients are rounded to it.  A plan is offered whole: how a patch leaves out
what it does not change is not in it.  One currency, one period unit, every
account in the budget, no uncategorized spending.

## 4. What the runs show

| run | question | result |
|---|---|---|
| `books` | Do edits, conversions, archives and deletions leave a residue, and does double entry survive them? | holds; 2 accounts, 2 entries, 2 currencies, 3 days, 2 zones, an opening on one, a mass edit, 92 thousand states |
| `stored_currency` | Does an entry's row name its account's currency, as `schema.ts` says? | violated: delete the entry, change the currency, restore it |
| `timezone` | Does an archived account stay at zero when the person moves? | violated: the archive day moves with the zone until the next start |
| `writes` | Are the interleaved requests the atomic ledger? Lost edits, silent duplicates? | holds; 3 requests of 11 kinds, 2 imported entries and a typed one, 234 thousand states |
| `lock_order` | Can any two or three write paths deadlock? | no; 3 requests out of 25 asks, 142 thousand states |
| `merge_deadlock` | And a merge of categories that splits name? | yes, with a mass delete or a payee merge: it locks rows in two passes |
| `sweep` | Is every occurrence settled once and in full, and told of once, whoever crashes? | holds; 2 schedulers, 1 recurrence, 2 rules, 4 days, 3 zones, 1 fault, 624 thousand states |
| `services` | Can one broken recurrence starve the rest? Is a reminder claimed once a day it is owed? Does a paid spell freeze anything silently? Is a commit of staged rows whole or nothing? Does a category that goes leave a name behind, or take a budget nobody gave up? Does a file bring an entry twice, or a move leave one out? Does a period read the same in every budget report, and is money claimed once? | holds; 3 recurrences on pages of 2; 12 schedules, 2 replicas, 6 days over two years; 4 accounts for 2 places, 6 plans; 2 rows, 2 requests, 1 account; 7 casts of categories; 2 ledgers, 2 files, 5 ids; 5 households over 4 periods; 393 thousand states |
| `retries` | Is a retry answered quietly and honestly, and its work done once a window? | holds; 2 clients, 2 calls each, 2 requests, 1 sweeper, 278 thousand states |
| `two_sweepers` | And with the sweep on two replicas? | violated: one deletes by name what a retry has just stored again |
| `billing` | Do the billing tables follow Stripe whatever is late, lost or repeated, and can two subscriptions be there to be paid? | holds; 8 casts of up to 4 jobs, 2 subscriptions, 2 customers, 146 thousand states |
| `leaver` | Is nobody charged once their account is destroyed? | violated: a purchase under way makes its customer after the deletion has read that there is none |

The bounds are the smallest at which every branch is taken: a transfer needs
two accounts; a closing needs a day before, on and after the archive; a
change of currency needs two currencies and an entry that has moved away; a
lock inversion needs two requests, and a third to hold what a chain runs
through; a lost day needs a batch longer than the cap and a policy that passes
days over; a starved recurrence needs a broken one and a page that is full.
A repeated work needs a record that has outlived its window and a second call
of the same key, so a clock that passes the window twice and two calls.
Two recurrences meet only in the due list, which is what the `late` part of
`services` is about, so `sweep` has one.  `services` checks seven parts side by
side, of which one moves in each behaviour: they have no state in common.
Its schedules are chosen for the calendar (the 31st, a fifth Friday, the
29th of February, weekends), its days for the boundaries between their
occurrences.  A household of its reports is a hazard: an envelope with a cap carried
past a bound of two periods, amounts worked out from the periods before, funds
one after another budget, envelopes of a category and its group, a funding
order; three plans and payments in each, over four periods.  A cast of its categories names who takes part and what is sent:
three categories where two budgets meet on a third, two elsewhere.  An entry
that is brought twice needs five ids (itself, its row, two files' copies and
one of those committed) and two files; a move in two parts needs two entries.  A place under a limit of two needs four accounts to be taken
twice over.  `books` changes the timezone only while nothing is archived,
because of what `timezone` shows.  A cast of `billing` names its jobs, what
they ask, how often Stripe moves by itself and how often something breaks
off; every cast has the sweep; when no id is left Stripe refuses.  Three branches
need a bigger instance than this: a change of interval while a cancellation is
pending, a switch that finds the plan switched already or its key answered (a
cancellation that does is in the run), and a second delivery of the deletion of
one customer.  Every passing run takes every action of its next-state relation
between them, and each property has a mutant of the code it catches
(`PROJECT.json`).  Deadlock checking is off where the system rests when there
is nothing more to do: every request of the run is served, or the clock of
the run has ended.

**Fairness.** `LockOrder` assumes weak fairness of each
request's own steps, once it has begun: Node keeps running a handler whose
query has answered, no lock in this code has a timeout, and PostgreSQL grants
a lock that is let go to a waiter.  Nothing is assumed of a client.
`RecurrenceSweep` assumes it of each scheduler's own steps: the loop arms the
next tick whatever the last came to, a lock is skipped and never waited for,
and a process that stopped is started again.  It does not assume that a
transaction succeeds, only that transient faults come to an end; a row that
never parses fails for ever.  `Idempotency` assumes that a statement which can
run is run, and strong fairness of `Lock`: PostgreSQL queues the waiters of an
advisory lock, so one that keeps coming free is had.
`Billing` assumes strong fairness of the steps of a job that has begun (its
handler runs on, and an advisory lock queues its waiters), that twelve hours
go by when nothing is under way, and that the sweep of the tick runs; nobody
has to press and no delivery has to arrive.  `services` assumes what
`RecurrenceSweep` does and nothing of the other six, whose properties are
about what may never happen.

## 5. What is proved

`SumTheorems` has what the library lacks about `SumFunctionOnSet` over finite
sets (removing an element, linearity, support, disjoint unions, sums over
tagged indices, the exchange of two sums, one summand changed), by induction on
the finite set through a minimal counterexample (`MinimalSubset`, and
`LeastNatural` for numbers), since the induction theorems with operator
parameters are out of the provers' reach.

`LedgerProofs` proves `Spec => []Books` by one lemma per action.  `Books`
strengthens what one wants to know (`EntriesSettled`, `NoOrphanPostings`) to
something inductive: openings post what the row says, a closing pairs its
account with its own equity account, a posting that is not zero came from a
remembered row, and an opening or closing writes on its own account only.
Without `Recorded` the guard of a currency change (no postings) would not
give zero sums; without `OwnRowsOnly` deletion could orphan a row.

From it follows that every source balances day by day in each currency
(`DoubleEntry`).  The two other figures a person sees, that an archived
account reads zero from its archive day on (`ArchivedAlwaysReadsZero`) and
that any other balance is what the live entries and the opening say
(`BalancesAreTheBooks`), need one invariant more: each closing mirrors what
its account was given (`ClosingsSettled`).  Both assume that the timezone
changes only while nothing is archived (`NoArchiveDayMoves`), the restriction
`MCLedger` makes for `books` too, which the `timezone` run shows is needed.
For the second the posting table is summed by days and then by sources
(`SumSwap`); what each source gives by a day is what its row says, and
closings dated before the archive day are nothing.

`LedgerWritesProofs` proves that the interleaved requests implement the atomic
ledger (`EveryCommitIsAtomic`, from `WritesHold`), for any requests, accounts,
entries and order of ids.  Its invariant, `WritesInv`, is about what a request
knows between its steps.  A row still at the version it was shown at says what
it said then (`Shown`), since every commit that changes a row raises its
version.  The locks were worked out from rows read before any was held, and
are nevertheless the ones needed as long as the rows are the ones that were
shown (`Covered`), which the decision checks again under the locks; an entry
being created is nobody else's (`Owns`).  And once a request has decided, it
would decide and write exactly the same at its commit (`Certain`): who commits
in between holds other accounts and other rows and writes nowhere else
(`CommitsExclude`, `Apart`), so sides, sums, closings and counts it rests on
are as they were (`DecidedSame`), and makes no entry live while another checks
for duplicates.  What is decided is then shown, operation by operation, to be
the effect and the guard of one action of `Ledger`, the rows of differences
adding up to what `Settle` writes (`PostingSettles`).  Lost edits
(`NoEditIsLost`), silent duplicates (`NoDuplicateArrives`) and balances on
archived accounts (`ReadsZeroThroughout`) follow; the last needs no assumption
about the timezone, because no request of this module changes it.

`LockOrderProofs` proves that no circle of requests waits on itself, for any
number of requests and locks (`DeadlockFree`): what a request holds is below
everything it still has to take, so the blocked request at the highest place
waits for one that waits higher.  It assumes requests `InOrder`: not the
recurrence sweep, which claims its row first, a defect
`docs/acceptance.md:62` records, and not a merge over splits.

The sweep's part of `ScheduleProofs` rests on `WorkIsCurrent`: while a scheduler works, the
row is as it read it, because the lock is its own, an edit and a delete wait
for it and a create finds no row.  From it a commit is a `Propose`
(`SweepImplementsSchedule`).  With `QueuedIsSettled` (nothing staged lies
beyond the watermark) the unique index is never met (`NeverCollides`), though
the code keeps it for replicas; the cap cuts a batch only at its end, so rows
and watermark agree (`NoDayIsLost`); and days not yet told belong to one
scheduler (`NobodyIsToldTwice`).  The greatest day of a batch exists by the
same minimal counterexample as the sums.

Its part about the calendar shows that two ways to say a schedule agree, for
any rule `RuleFits` admits and any calendar.  Months follow one another
without a gap (`MonthsFollow`) and a day is in exactly one of them (`MonthOfDay`),
so an ordinal weekday, a clamped
day and a skipped one are single days of their month, later months give later
days, and a sequence of `n` steps from the anchor strictly increases.  What
it reaches are exactly the days the rule names (`NamesTheSequence`).  The
guess of the first index after a day, a division by days or months, is right
to within one either way; so backing off two and stepping forward three times,
as the code does, finds the first and never stops short (`FirstIndexIsFirst`).
The month of a step is linear in it, so two steps compare by their months first
and by days within a month second, without an induction over steps.

Its part about the reminders adds the weekends, which move a date by two days
at most and never put an earlier one after a later one (`SentInOrder`).  `RemindersInv` says that the row
looks for the very day `nextNotificationAfter` gives after its watermark,
whoever wrote it last, and that a save under way has read the row that is
still there, because a claim skips a row that is held.  With it, a row looks
for the first day owed after its watermark, and one that is looked for no more
owes nothing that could have come round (`NextIsAlwaysFirstOwed`); and a claim, which moves through
its backlog one day at a time, takes days that are owed, have come round and
lie after the watermark, and leaves none but where its cap stops it
(`EachDayIsClaimedOnce`), for any replicas, saves and clock.  Two assumptions
carry it.  `RemindersAssumption` has schedules as the schema accepts them,
whose anchor is not among the first two days of the calendar (the code's
begin in 1900, and a weekend moves a date back two days at most).
`LookaheadAssumption` has the code's comment as a formula: more skips in a row
than `MAX_SKIPPED_LOOKAHEAD` leave no schedule (`notifications.ts:40-49`).  An
enumeration of the rules with every interval up to `MAX_RECURRENCE_INTERVAL`
finds no more than 107 dates in a row that are passed over before one that is
not, and the code looks 400 ahead; the run's 4 suffices for its own schedules,
where 1 would not.

`IdempotencyProofs` rests on two facts about a call past the lock: it holds
its key (`LockIsHeld`), and what it did not find is still not there
(`StillMissing`), because only a commit stores and only the holder commits.
Hence the insert never collides (`EveryRetryIsQuiet`) and answers are honest
(`EveryAnswerIsHonest`), for any number of callers and sweepers.  That work is
done once a window (`WorkIsDoneOncePerWindow`) needs `OneSweeper` (at most one
process sweeps, or no window is set): then what a sweeper has read is what it
deletes (`DoomedAreStale`), so work whose record is missing has outlived the
window (`WorkIsRemembered`).  The run `two_sweepers` shows what the assumption
is for.

The queue's part of `ServicesProofs` follows a commit from its first read to its entries.  What it
read of a row still stands as long as the version does (`ReadsFollow`); once
it holds its locks and has looked again (`PostingIsSafe`) every account it
names is open and nobody who puts one away has counted it and not written yet,
since the count is taken under the same lock.  Entries then stand for
committed rows, one each, and none is missing of an answered request
(`EntriesStand`, `OneEntryEach`, `NoneMissing`), so a selection is posted whole
or not at all (`CommitsAreWhole`), and nothing on an archived or deleted
account (`NothingOnAClosedAccount`), for any rows, accounts and requests.

The part about places is about what the operations of `accounts.ts` leave behind
under a plan that changes at any moment.  Whatever fits is marked
(`AllMarked`), what was once in use is marked as long as it lives
(`UsedAreMarked`), and where more is marked than there are places a choice is
owed (`ChoiceOwed`).  `Decided` says what an operation that is past its check
may rely on although the plan is not locked: its decision is still good, or a
choice is owed.  Hence nothing is frozen silently (`NobodyIsFrozenSilently`)
and only what the property names takes an account out of use
(`InUseAlwaysStays`), for any number of accounts and places; the oldest
accounts that fit are found by their order, with the lemmas about counting
and least elements that this takes.

The part about files says what the statements of an import compute, where nothing in
the database says it: every export calls an entry by its fact, the first id it
ever had.  `NamedByFact` (an origin is the fact; what has none is its own fact
or was committed from a row that is) and `CommittedTo` (a committed row and
what it became agree) make it inductive over imports, commits, deletions and
moves, and `FindImportOrigins` then finds exactly the facts a ledger holds
(`EachEntryIsHeldOnce`).  A move nobody interrupts meets in the target only
what it brought itself, which `FindWaitingOrigins` does not count
(`EveryMoveGoesThrough`), for any ledgers, ids, files and parts.

The part about categories follows a name from its check to its last use.  What
is filed anywhere but on a staged row names a category that is there and fits
the entry's direction (`FiledIsThere`).  A save that names a category holds
the namespace lock, and what it checked stands until it commits
(`SaveIsGood`), since whatever takes a category away needs that lock.  With
it, windows of budgets that never meet (`BudgetedOneWay`) and categories that
go leave no name behind and take no budget that nobody gave up
(`CategoriesAlwaysGoCleanly`), for any categories, groups, holders, plans and
drafts.

The part about the budget report is about a fold.  Its state is simple
(`ReportsInv`: types, and plans as the schema and the service let them be); the
argument is about what the fold computes.  `Chain` is a recursive function of
the period, and for it the induction over periods is done by hand: something
that unwinds to any period exists (`SomethingUnwinds`), and its turns follow
one another (`TurnsFollow`); after that every argument takes the first period
where it would fail.  A turn's limit reads nothing of its own period's
spending, and the turns before a period read nothing of it, so the past stands
(`ThePastStands`).  What an envelope has left is a whole number less what its
period spent, a group's as well as a category's, so what is spent leaves the
accounts and the claim by the same amount, once (`EnvelopesPay`); this takes
the sums of `SumTheorems`.  Periods that no plan carries through hand on
nothing, so a fold that begins earlier comes to the same (`FoldsAgree`); a
fund's share stays between the same two neighbours because rounding to the
nearest never leaves them (`EvenShare`, `FundKeepsCourse`); and every place in
the funding queue is somebody's, since as many come sooner as the place says
(`QueueRanks`), along which what is given adds up to the less of what is asked
and what there is (`FundsGoAlong`).  Together they are `FiguresAlwaysAddUp`.

`BillingProofs` runs along the person's billing lock.  Who is between a
decision and its commit holds it (`LockHeld`), and what such a press was told
is still so: its customer is the mapped one unless Stripe has deleted it, its
old subscription has a row (`IsUpToDate`).  So while the person is there,
whatever can be paid and is nobody's broken attempt is in the books, or has
just been made by the holder of the lock (`Recorded`); a press that decides to
make one found nothing in the books to be paid, hence at most one more can be
paid than orphans are waiting (`Counted`, which also counts the orphans that
were found and are over: they have used up their excuse).  From it follows
`AtMostOneToPay`.  A deletion of the person is in the way of the converse:
once the person is gone rows go too, which is why both say `person =>`.  A
claim and the row it is for are written in one transaction
(`ClaimsAreRecorded`), and what a job has seen as ended has ended for good
(`SawTrue`), so the books may lag but never say more than Stripe did: every
step is a step of `SubscriptionBooks` or changes none of its variables
(`BooksNeverRunAhead`).  That a record which is wrong is put right is its
liveness half, `BooksFollowStripe`, which the run checks.

Assumptions on the constants are named in the modules (`LedgerAssumption`,
`LockOrderAssumption`, `ScheduleAssumption`, `SweepAssumption`,
`WritesAssumption`, `IdempotencyAssumption`, `QueueAssumption`,
`PlacesAssumption`, `FilesAssumption`, `CategoriesAssumption`,
`BudgetsAssumption`, `BillingAssumption`, `CalendarAssumption`,
`RemindersAssumption`, `LookaheadAssumption`): finite sets, drafts and plans as the schema accepts them, keys
with distinct places that follow `Level`, names for nothing that are not the
name of something.

The type invariants of these modules are proved (`TypeCorrect`,
`SweepTypeCorrect`, `IdempotencyTypeCorrect`, `QueueTypeCorrect`,
`PlacesTypeCorrect`, `FilesTypeCorrect`, `CategoriesTypeCorrect`,
`ReportsTypeCorrect`, `RemindersTypeCorrect`, `BillingTypeCorrect`, and inside
`DeadlockFree` and `WritesHold`).  The run `services` checks seven of them in
one specification, of which one moves in each behaviour: there each behaves
as it does alone (`ServicesBehave`), so what is proved of one alone holds in
the composition, their types among it (`ServicesTypeCorrect`).

Only model-checked: every liveness property, since fairness and ENABLED are
out of the provers' reach: `EveryRequestEnds`, `EveryCallEnds`,
`LateCatchesUp`, and in `Billing` the second half of `BooksFollowStripe`.
Every other property of a passing run is a theorem.

## 6. What is not modelled, and why

The duplicate lock is redundant in `LedgerWrites` as it is in the code: two
drafts that look alike name the same accounts, whose locks already make one
wait for the other, as `helpers.ts` says of it.  Money is small integers where the code has 18 decimals without
rounding.  The dates a rule names are a parameter of `Schedule`;
`RecurrenceDates` computes them and is checked through the reminders, which
use the same functions.

Two things the code does that no property here forbids.  The recurrence sweep
claims its row before the namespaces other paths take first, which
`docs/acceptance.md:62` records.  And a create or a restore that was decided
while no limit was in force may be written after the limit came back, and by
the order of age push another account out of use while the person is being
asked to choose: `InUseStaysInUse` allows that only then.

Four smaller things were seen on the way and are not runs.  `deleteBudgetPlan`
and `deleteBudgetEntry` read the version without a lock and do not look whether
their delete removed a row (`budgets.ts:735-771`, `991-1023`), so one that
races an edit answers and audits a deletion that did not happen.
`updateCategory` may make a budgeted category an income category, while
`docs/mcp.md:561` says budgeting one is refused.  And a merge rewrites only the
column of a staged draft that has both a column and legs, which can never be
committed (`CategoriesGoCleanly` allows exactly that).  And `domain.ts:2068`
says a report that hit the bound of the fold says so; `getBudgetReport` leaves
the note out where no plan carries (`budgets.ts:1560`), though a step up from
the period before starts again from its typed amount there (`ReportsAgree`
excepts clipped reports).

Parsing, formatting, audit rows, metrics, reads that decide nothing (the other
reports, forecast, lists), the browser and the deployment are left
out.  Of what has a protocol, two things are left: the legs of a split, and
the archived accounts and balances of a move.
