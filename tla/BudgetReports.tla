----------------------------- MODULE BudgetReports -----------------------------
(***************************************************************************)
(* The report of a ledger's budgets (src/server/services/budgets.ts).      *)
(* Nothing of it is stored: what an envelope holds, what a fund asks for   *)
(* and what a derived budget allows are folded over the periods before,    *)
(* for whatever range is asked about, each time somebody looks.            *)
(*                                                                         *)
(* A target is a category or a group of them.  Amounts are whole numbers   *)
(* of the smallest unit canonicalDecimal keeps.  One currency and one      *)
(* period unit: the fold never mixes two.                                  *)
(***************************************************************************)
EXTENDS Integers, Sequences, FiniteSets, FiniteSetsExt

CONSTANTS Filing,      \* the categories money is filed under, by name
          Bundles,     \* groups of them
          NoAmount,    \* null
          MaxRank,     \* bound: the funding orders are 1 .. MaxRank, 0 for none
          EndOfTime,   \* periods are 1 .. EndOfTime; a window without an end
                       \* ends there
          MaxRollover, \* MAX_ROLLOVER_PERIODS
          Households   \* who budgets how: plans offered, groups, money, effort,
                       \* one after the other

(* What the schema lets through: amounts that are not negative, and for    *)
(* each rule what it works with.                                           *)
PlanFits(b) ==
  /\ b.from \in 1 .. EndOfTime /\ b.to \in 1 .. EndOfTime /\ b.priority \in 0 .. MaxRank
  /\ b.amount \in Nat /\ b.cap \in Nat \cup {NoAmount}
  /\ b.rule \in {"fixed", "sinking_fund", "trailing_average", "incremental",
                 "percent_of_income"}
  /\ b.rule = "sinking_fund" => b.goal \in Nat /\ b.date \in Nat
  /\ b.rule = "trailing_average" => b.lookback \in Nat \ {0}
  /\ b.rule \in {"incremental", "percent_of_income"} => b.percent \in Int

(* Money is whole numbers, and a category is filed in a group or nowhere.  *)
ASSUME BudgetsAssumption ==
  /\ EndOfTime \in Nat \ {0} /\ MaxRollover \in Nat /\ MaxRank \in Nat /\ NoAmount \notin Int
  /\ Filing \in Seq(Range(Filing)) /\ IsFiniteSet(Range(Filing)) /\ IsFiniteSet(Bundles)
  /\ Range(Filing) \cap Bundles = {}
  /\ \A h \in DOMAIN Households :
       /\ Households[h].watched \subseteq Range(Filing) \cup Bundles
       /\ Households[h].money \cup Households[h].pay \subseteq Int
       /\ Households[h].amounts \subseteq Nat /\ Households[h].effort \in Nat
       /\ \A b \in Households[h].offers : PlanFits(b)
       /\ \A c \in Range(Filing) : Households[h].membership[c] \notin Range(Filing)

VARIABLES spent,     \* spent[c][p]: the expense postings of a category
          income,    \* income[p]: the income postings; 0 is before the first
          entered,   \* entered[t][p]: budget_entry, or NoAmount
          plans,     \* the rows of budget_plan
          nowIn,     \* the period that is today's
          effort,    \* bound: how much more will happen
          household  \* which of them
budgetVars == <<spent, income, entered, plans, nowIn, effort, household>>

Home == Households[household]
CategoriesFiled == Range(Filing)
BudgetTargets == CategoriesFiled \cup Bundles
Periods == 1 .. EndOfTime
Members(g) == {c \in CategoriesFiled : Home.membership[c] = g}

Total(f, S) == SumFunctionOnSet(f, S)
AtLeast(low, n) == IF n < low THEN low ELSE n

(* A quotient as canonicalDecimal keeps it: to the nearest, halves up.     *)
Rounded(n, d) == (2 * n + d) \div (2 * d)

-----------------------------------------------------------------------------
(* What a report reads: the book, as it is or as it would be.              *)
Book ==
  [spent |-> spent, income |-> income, entered |-> entered, plans |-> plans]

Covers(b, p) == b.from <= p /\ p <= b.to

(* A group spends what its categories spend, budgeted or not.              *)
Actual(book, t, p) ==
  IF t \in Bundles
  THEN Total([c \in CategoriesFiled |-> book.spent[c][p]], Members(t))
  ELSE book.spent[t][p]

(* The amount typed for the period, or else the plan that covers it.       *)
Over(some, t, p) == {b \in some : b.of = t /\ Covers(b, p)}
Typed(book, t, p) == book.entered[t][p] # NoAmount

Budgeted(book, t, p) ==
  IF Typed(book, t, p) THEN book.entered[t][p]
  ELSE IF Over(book.plans, t, p) = {} THEN NoAmount
       ELSE (CHOOSE b \in Over(book.plans, t, p) : TRUE).amount

(* rolloverPlans: the plans the fold has to walk period by period.         *)
Carrying(book) ==
  {b \in book.plans : b.rollover \/ b.rule # "fixed" \/ b.priority # 0}

(* (Mutant: only the periods asked for are folded.)                        *)
FoldAsked(book, start) == start

FoldFrom(book, start) == Min({b.from : b \in Carrying(book)} \cup {start})

Clipped(book, start) == start - FoldFrom(book, start) > MaxRollover
First(book, start) ==
  IF Clipped(book, start) THEN start - MaxRollover ELSE FoldFrom(book, start)

-----------------------------------------------------------------------------
(* The fold.  `before' is what the period before hands on: the carry, what *)
(* earlier periods of this chain spent, and the limit before this one.     *)

NewChain(row) == [carry |-> 0, history |-> << >>, limit |-> NoAmount, row |-> row]
Begun == NewChain(NoAmount)

SinkingFund(b, p, carry) ==
  LET periodsLeft == b.date - p + 1
      needed == b.goal - carry
  IN  IF periodsLeft <= 0 \/ needed <= 0 THEN 0 ELSE Rounded(needed, periodsLeft)

(* (Mutant: the period being budgeted is part of its own average.)         *)
AverageWithThis(book, b, history, p) ==
  LET all == Append(history, Actual(book, b.of, p))
      recent == SubSeq(all, AtLeast(1, Len(all) - b.lookback + 1), Len(all))
  IN  AtLeast(0, Rounded(AtLeast(0, SumFunction(recent)), Len(recent)))

TrailingAverage(book, b, history, p) ==
  LET seen == Len(history)
      recent == SubSeq(history, AtLeast(1, seen - b.lookback + 1), seen)
  IN  IF recent = << >> THEN b.amount
      ELSE Rounded(AtLeast(0, SumFunction(recent)), Len(recent))

DerivedAmount(book, b, p, before) ==
  CASE b.rule = "sinking_fund" -> SinkingFund(b, p, before.carry)
    [] b.rule = "trailing_average" -> TrailingAverage(book, b, before.history, p)
    [] b.rule = "incremental" ->
         IF before.limit = NoAmount THEN b.amount
         ELSE Rounded(AtLeast(0, before.limit * (100 + b.percent)), 100)
    [] b.rule = "percent_of_income" ->
         Rounded(AtLeast(0, book.income[p - 1] * b.percent), 100)

ApplyCap(b, carry) ==
  IF b.cap = NoAmount THEN carry
  ELSE IF carry > b.cap THEN b.cap ELSE AtLeast(-b.cap, carry)

(* A row no fold has touched: a period without a budget that carries.      *)
PlainRow(book, t, p) ==
  LET limit == Budgeted(book, t, p)
  IN  [limit |-> limit, available |-> limit, priority |-> 0,
       carriedIn |-> NoAmount, carriedOut |-> NoAmount,
       remaining |->
         IF limit = NoAmount THEN NoAmount ELSE limit - Actual(book, t, p)]

(* foldRollover, one period under a plan that carries.                     *)
Limit(book, b, p, before) ==
  IF Typed(book, b.of, p) \/ b.rule = "fixed" THEN Budgeted(book, b.of, p)
  ELSE DerivedAmount(book, b, p, before)

CarryOn(b, before, limit, actual) ==
  LET available == IF b.rollover THEN limit + before.carry ELSE limit
      handed == ApplyCap(b, available - actual)
  IN  [carry |-> IF b.rollover THEN handed ELSE 0,
       history |-> Append(before.history, actual),
       limit |-> limit,
       row |-> [limit |-> limit, available |-> available, priority |-> b.priority,
                carriedIn |-> IF b.rollover THEN before.carry ELSE NoAmount,
                carriedOut |-> IF b.rollover THEN handed ELSE NoAmount,
                remaining |-> available - actual]]

TurnUnder(book, b, p, before) ==
  CarryOn(b, before, Limit(book, b, p, before), Actual(book, b.of, p))

(* Without such a plan the chain ends, and the next one begins afresh.     *)
Turn(book, t, p, before) ==
  LET covering == Over(Carrying(book), t, p)
  IN  IF covering = {} THEN NewChain(PlainRow(book, t, p))
      ELSE TurnUnder(book, CHOOSE b \in covering : TRUE, p, before)

(* The turns of one target, from the first period folded to this one.      *)
OneMore(book, t, p, earlier) ==
  Append(earlier,
         Turn(book, t, p, IF earlier = << >> THEN Begun ELSE earlier[Len(earlier)]))

Chain(book, t, first) ==
  LET f[p \in (first - 1) .. nowIn] ==
        IF p < first THEN << >> ELSE OneMore(book, t, p, f[p - 1])
  IN  f[nowIn]

(* The rows of a report that starts at `start', by target and period.      *)
RowsFrom(book, start, first) ==
  [t \in BudgetTargets |->
    LET chain == Chain(book, t, first)
    IN  [p \in start .. nowIn |-> chain[p - first + 1].row]]

Folded(book, start) == RowsFrom(book, start, First(book, start))

-----------------------------------------------------------------------------
(* What is worked out from the folded rows of one period.                  *)

Summing == {g \in Bundles : Home.policy[g] = "sum_of_children"}

(* sumChildBudgets: a group that is its categories added up, after the     *)
(* fold has decided what those are allowed.                                *)
GroupRow(book, rows, g, p) ==
  LET budgeted == {c \in Members(g) : rows[c][p].limit # NoAmount}
      sum(figure) == Total([c \in budgeted |-> rows[c][p][figure]], budgeted)
  IN  IF g \notin Summing \/ budgeted = {} THEN rows[g][p]
      ELSE [rows[g][p] EXCEPT !.limit = sum("limit"), !.available = sum("available"),
                              !.remaining = sum("available") - Actual(book, g, p)]

WithGroups(book, rows, start) ==
  [t \in BudgetTargets |->
    [p \in start .. nowIn |->
      IF t \in Bundles THEN GroupRow(book, rows, t, p) ELSE rows[t][p]]]

Figures(book, start) == WithGroups(book, Folded(book, start), start)

(* allocateByPriority: ranked budgets are funded first, by rank, then the  *)
(* others, by name, until the income of the period runs out.               *)
Rank(rows, c, p) ==
  IF rows[c][p].priority = 0 THEN MaxRank + 1 ELSE rows[c][p].priority
Place(c) == CHOOSE i \in DOMAIN Filing : Filing[i] = c
Sooner(rows, p, c, d) ==
  \/ Rank(rows, c, p) < Rank(rows, d, p)
  \/ Rank(rows, c, p) = Rank(rows, d, p) /\ Place(c) < Place(d)

(* Each category after those that come sooner.                             *)
Wanting(rows, p) == {c \in CategoriesFiled : rows[c][p].limit # NoAmount}
Queue(rows, p) ==
  LET wanting == Wanting(rows, p)
      sooner(c) == {d \in wanting : Sooner(rows, p, d, c)}
  IN  [n \in 1 .. Cardinality(wanting) |->
        CHOOSE c \in wanting : Cardinality(sooner(c)) = n - 1]

Allocates(rows, p) == \E c \in CategoriesFiled : rows[c][p].priority # 0

Grant(so, wanted) ==
  LET funded == IF so.pool >= wanted THEN wanted ELSE AtLeast(0, so.pool)
  IN  [pool |-> so.pool - funded, given |-> Append(so.given, funded)]

GivenAlong(line, rows, p, pool) ==
  LET f[i \in 0 .. Len(line)] ==
        IF i = 0 THEN [pool |-> pool, given |-> << >>]
        ELSE Grant(f[i - 1], rows[line[i]][p].limit)
  IN  f[Len(line)].given

Funded(book, rows, p) == GivenAlong(Queue(rows, p), rows, p, book.income[p])

(* What the accounts in the budget hold at the end of a period.            *)
SpentIn(book, p) ==
  Total([c \in CategoriesFiled |-> book.spent[c][p]], CategoriesFiled)
Perimeter(book, p) ==
  Total(book.income, 0 .. p) - Total([q \in 1 .. p |-> SpentIn(book, q)], 1 .. p)

Envelope(row) == row.carriedIn # NoAmount
Positive(row) == AtLeast(0, row.remaining)

(* (Mutant: a group's envelope claims all it holds, its members' too.)     *)
ClaimedTwice(rows, p) ==
  LET envelopes == {t \in BudgetTargets : Envelope(rows[t][p])}
  IN  Total([t \in envelopes |-> Positive(rows[t][p])], envelopes)

(* A group's envelope claims what the envelopes in it have not claimed.    *)
Claimed(rows, p) ==
  LET envelopes == {t \in BudgetTargets : Envelope(rows[t][p])}
      claim == [t \in envelopes |-> Positive(rows[t][p])]
      extra(g) == AtLeast(0, claim[g] - Total(claim, Members(g) \cap envelopes))
  IN  Total(claim, envelopes \ Bundles)
        + Total([g \in envelopes \cap Bundles |-> extra(g)], envelopes \cap Bundles)

ToAssign(book, rows, p) == Perimeter(book, p) - Claimed(rows, p)

-----------------------------------------------------------------------------
(* What people do.  A plan is offered whole: created or put in the place   *)
(* of the one it edits.                                                    *)

BudgetPlanRefusal(b) ==
  \/ b.rule = "sinking_fund" /\ b.amount # 0
  \/ b.rule = "sinking_fund" /\ b.cap # NoAmount /\ b.cap < b.goal
  \/ b.cap # NoAmount /\ ~b.rollover
  \/ b.priority # 0 /\ b.of \in Bundles

(* resolveCarry, of a plan that is offered whole.                          *)
Acceptable(b) ==
  /\ b.rule = "sinking_fund" => b.rollover /\ b.date >= b.from
  /\ ~BudgetPlanRefusal(b)

(* requireBudgetableTarget.                                                *)
MayBudget(t) == t \in CategoriesFiled \cup (Bundles \ Summing)

(* assertKeptApart.                                                        *)
KeptApart(b, d) == b.of # d.of \/ b.to < d.from \/ d.to < b.from

Happens == effort > 0 /\ effort' = effort - 1
Writes(b, others) ==
  /\ Happens /\ MayBudget(b.of) /\ Acceptable(b)
  /\ b.from <= b.to /\ \A d \in others : KeptApart(b, d)
  /\ plans' = others \cup {b}
  /\ UNCHANGED <<spent, income, entered, nowIn, household>>

CreateBudgetPlan(b) == b \notin plans /\ Writes(b, plans)

UpdateBudgetPlan(d, b) == b # d /\ b.of = d.of /\ Writes(b, plans \ {d})

DeleteBudgetPlan(d) ==
  /\ Happens
  /\ plans' = plans \ {d}
  /\ UNCHANGED <<spent, income, entered, nowIn, household>>

TypeAmount(t, p, amount) ==
  /\ Happens /\ MayBudget(t) /\ entered[t][p] # amount
  /\ entered' = [entered EXCEPT ![t][p] = amount]
  /\ UNCHANGED <<spent, income, plans, nowIn, household>>

UntypeAmount(t, p) ==
  /\ Happens /\ entered[t][p] # NoAmount
  /\ entered' = [entered EXCEPT ![t][p] = NoAmount]
  /\ UNCHANGED <<spent, income, plans, nowIn, household>>

(* Money moves, today or with a date that has passed.                      *)
Spend(c, p, amount) ==
  /\ Happens /\ p <= nowIn
  /\ spent' = [spent EXCEPT ![c][p] = @ + amount]
  /\ UNCHANGED <<income, entered, plans, nowIn, household>>

Earn(p, amount) ==
  /\ Happens /\ p <= nowIn
  /\ income' = [income EXCEPT ![p] = @ + amount]
  /\ UNCHANGED <<spent, entered, plans, nowIn, household>>

PeriodEnds ==
  /\ nowIn < EndOfTime /\ nowIn' = nowIn + 1
  /\ UNCHANGED <<spent, income, entered, plans, effort, household>>

BudgetsInit ==
  /\ household \in DOMAIN Households
  /\ spent = [c \in CategoriesFiled |-> [p \in Periods |-> 0]]
  /\ income = [p \in 0 .. EndOfTime |-> 0]
  /\ entered = [t \in BudgetTargets |-> [p \in Periods |-> NoAmount]]
  /\ plans = {} /\ nowIn = 1 /\ effort = Home.effort

(* The categories that money moves in.                                     *)
Moved == Home.watched \ Bundles

BudgetsNext ==
  \/ \E b \in Home.offers : CreateBudgetPlan(b)
  \/ \E d \in plans, b \in Home.offers : UpdateBudgetPlan(d, b)
  \/ \E d \in plans : DeleteBudgetPlan(d)
  \/ \E t \in Home.watched, p \in Periods, amount \in Home.amounts :
        TypeAmount(t, p, amount)
  \/ \E t \in Home.watched, p \in Periods : UntypeAmount(t, p)
  \/ \E c \in Moved, p \in Periods, amount \in Home.money :
        Spend(c, p, amount)
  \/ \E p \in 0 .. EndOfTime, amount \in Home.pay : Earn(p, amount)
  \/ PeriodEnds

BudgetsSpec == BudgetsInit /\ [][BudgetsNext]_budgetVars

BudgetsTypeOK ==
  /\ spent \in [CategoriesFiled -> [Periods -> Int]]
  /\ income \in [0 .. EndOfTime -> Int]
  /\ entered \in [BudgetTargets -> [Periods -> Nat \cup {NoAmount}]]
  /\ \A b, d \in plans : b = d \/ KeptApart(b, d)
  /\ nowIn \in Periods /\ effort \in Nat

-----------------------------------------------------------------------------
(* A period reads the same whatever range it is asked for in: nothing is   *)
(* stored, so nothing but the fold makes last March in this report the     *)
(* last March of that one.  Only a report that hit the bound may differ.   *)
Agree(earlier, later, r) ==
  \A t \in BudgetTargets, p \in r .. nowIn : earlier[t][p] = later[t][p]

ReportsAgree ==
  \A s, r \in 1 .. nowIn :
    s < r /\ ~Clipped(Book, r) => Agree(Figures(Book, s), Figures(Book, r), r)

(* A sinking fund that nobody draws on asks for the same every period, but *)
(* for the last unit of a quotient, until the period it is needed in: it   *)
(* does not leave everything for the end, and it does not ask again.       *)
SavesEvenly(b, rows) ==
  LET saving == b.from .. Min({b.to, b.date, nowIn})
      quiet(q) == ~Typed(Book, b.of, q) /\ Actual(Book, b.of, q) = 0
  IN  \A p, q \in saving :
        /\ p < q /\ \A k \in p .. q : quiet(k)
        /\ b.cap = NoAmount \/ -b.cap <= rows[p].carriedIn
        => rows[q].limit - rows[p].limit \in -1 .. 1

FundsSaveEvenly ==
  \A b \in plans : b.rule = "sinking_fund" => SavesEvenly(b, Folded(Book, 1)[b.of])

(* Money that came in is given out once, as far as it goes, and no budget  *)
(* goes short while one ranked after it is given anything.                 *)
GivenInOrder(rows, p, line, given) ==
  LET asked == [i \in DOMAIN line |-> rows[line[i]][p].limit]
      ranked(i) == rows[line[i]][p].priority # 0
  IN  /\ SumFunction(given) = Min({SumFunction(asked), AtLeast(0, income[p])})
      /\ \A i, j \in DOMAIN line :
           /\ i < j /\ given[j] > 0 => given[i] = asked[i]
           /\ ranked(i) /\ ~ranked(j) => i < j

FundedInOrder ==
  \A b \in plans : b.priority # 0 =>
    \A p \in b.from .. nowIn : \A rows \in {Folded(Book, p)} :
      Allocates(rows, p) =>
        GivenInOrder(rows, p, Queue(rows, p), Funded(Book, rows, p))

(* What a report says adds up, for every range and every household.        *)
FiguresAddUp == ReportsAgree /\ FundsSaveEvenly /\ FundedInOrder

(* The book after Spend and after Earn.                                    *)
Spending(c, p, amount) == [Book EXCEPT !.spent[c][p] = @ + amount]
Earning(p, amount) == [Book EXCEPT !.income[p] = @ + amount]

(* The past stands still, and so does what a period may spend while it is  *)
(* being spent: money that moves in a period changes no figure of an       *)
(* earlier one and no limit of its own, whoever's it is.                   *)
Stands(before, after, p) ==
  \A t \in BudgetTargets :
    /\ after[t][p].limit = before[t][p].limit
    /\ \A q \in 1 .. p - 1 : after[t][q] = before[t][q]

EarlierPeriodsStand ==
  LET before == Folded(Book, 1)
  IN  \A p \in 1 .. nowIn :
        /\ \A c \in Moved, amount \in Home.money :
             Stands(before, Folded(Spending(c, p, amount), 1), p)
        /\ \A amount \in Home.pay : Stands(before, Folded(Earning(p, amount), 1), p)

(* Money spent out of an envelope that holds it leaves as much to assign   *)
(* in that period as there was: the account has less and the envelope      *)
(* claims less, and neither is counted twice, also where the category and  *)
(* its group both have an envelope.                                        *)
PaysItsOwnWay(c, p, before, book, after) ==
  LET filed == {c, Home.membership[c]} \cap BudgetTargets
      payers == {t \in filed : Envelope(before[t][p])}
      holding(rows) == \A t \in payers : rows[t][p].remaining >= 0
  IN  c \in payers /\ holding(before) /\ holding(after)
      => ToAssign(book, after, p) = ToAssign(Book, before, p)

EnvelopesPayTheirOwnWay ==
  \A p \in 1 .. nowIn :
    LET before == Figures(Book, p)
    IN  \A c \in Moved, amount \in Home.money :
          \A book \in {Spending(c, p, amount)} :
            PaysItsOwnWay(c, p, before, book, Figures(book, p))
=============================================================================
