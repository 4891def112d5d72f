----------------------------- MODULE MCServices ------------------------------
(***************************************************************************)
(* Seven services checked side by side: the recurrence sweep, the          *)
(* reminders, the places of a limited plan, the review queue, the          *)
(* categories with what names them, the files between ledgers, and the     *)
(* budget report.  A behaviour is a behaviour of one of them, `part'; the  *)
(* others stay as they begin.  Each has variables of its own, and no       *)
(* action of one reads what another changes.                               *)
(***************************************************************************)
EXTENDS MCRecurrenceSweep, Reminders, AccountPlaces, StagingQueue, Categories,
        LedgerFiles, BudgetReports

CONSTANTS k1, k2, k3, g1, l1, l2

VARIABLE part
allVars == <<vars, reminderVars, placesVars, queueVars, categoryVars, fileVars,
             budgetVars, part>>

-----------------------------------------------------------------------------
(* Reminders: the schedules asked for, among them month ends, weekends,    *)
(* a fifth weekday, a leap day, and a save that changes the hour.          *)

Rule(frequency, interval, anchor, monthPolicy, weekendPolicy, position) ==
  [frequency |-> frequency, interval |-> interval, anchor |-> anchor,
   monthPolicy |-> monthPolicy, weekendPolicy |-> weekendPolicy, position |-> position]
Plain(frequency, interval, anchor) ==
  Rule(frequency, interval, anchor, "last_day", "allow", NoPosition)

Schedules ==
  {Plain("monthly", 1, 31),
   Rule("monthly", 1, 31, "skip", "previous_business_day", NoPosition),
   Rule("monthly", 1, 20, "last_day", "next_business_day", <<2, 2>>),
   Rule("monthly", 2, 31, "last_day", "allow", <<-1, 5>>),
   Rule("weekly", 2, 30, "last_day", "next_business_day", NoPosition),
   Rule("daily", 3, 28, "last_day", "skip", NoPosition),
   Rule("yearly", 1, 425, "skip", "allow", NoPosition),
   Rule("monthly", 5, 31, "skip", "skip", NoPosition),
   Rule("yearly", 1, 33, "last_day", "allow", <<1, 1>>),
   Rule("weekly", 1, 30, "last_day", "skip", NoPosition)}

MCWishes ==
  {{[rule |-> rule, at |-> 1]} : rule \in Schedules} \cup
  {{[rule |-> Plain("once", 1, 33), at |-> 1], [rule |-> Plain("daily", 2, 30), at |-> 0]},
   {[rule |-> Plain("monthly", 1, 31), at |-> hour] : hour \in {0, 1}}}

-----------------------------------------------------------------------------
(* Places: plans that lift the limit and plans that set it.                *)

Standing(sells, given, statuses) ==
  [selling |-> sells, override |-> given, subscriptions |-> statuses]

MCStandings ==
  {Standing(FALSE, "none", {}), Standing(TRUE, "none", {}),
   Standing(TRUE, "none", {"canceled", "active"}), Standing(TRUE, "free", {"active"}),
   Standing(TRUE, "none", {"past due, in grace"}), Standing(TRUE, "none", {"past due"})}

-----------------------------------------------------------------------------
(* Categories: who takes part, and what the drafts name.  Each cast is a   *)
(* hazard of its own: a recurrence checked while a category goes; a staged *)
(* row nobody has looked at; the three JSON drafts; two budgets about to   *)
(* meet on one target, plans and overrides; an edit that leaves a          *)
(* budgeted category unused; a group and the policy of its budget.         *)

Naming(column, legs, type) == [column |-> column, legs |-> legs, type |-> type]
Plainly(S, type) == {Naming(c, {}, type) : c \in S}
SplitOver(S, type) == Naming(NoCategory, S, type)

Cast(things, drafts, kinds) == [things |-> things, drafts |-> drafts, kinds |-> kinds]

MCCategoryCasts ==
  {Cast({k1, k2, "entry", "recurrence"},
        Plainly({k1, k2, NoCategory}, "withdrawal") \cup {SplitOver({k1, k2}, "withdrawal")},
        {"expense"}),
   Cast({k1, k2, "entry", "staged"},
        Plainly({k1, k2, NoCategory}, "deposit") \cup {Naming(k1, {k1, k2}, "deposit")},
        {"income"}),
   Cast({k1, k2, "staged", "recurrence", "template"},
        Plainly({k1, k2}, "withdrawal"), {"expense"}),
   Cast({k1, k2, k3, "p1", "p2"}, {}, {"expense"}),
   Cast({k1, k2, k3, "o1", "o2"}, {}, {"expense"}),
   Cast({k1, k2, "entry", "p1", "o1"}, Plainly({k1, NoCategory}, "withdrawal"), {"expense"}),
   Cast({k1, "entry", g1, "p1", "o1"}, Plainly({k1}, "deposit"), {"expense", "income"})}

-----------------------------------------------------------------------------
(* Files: one entry that goes round in two files, two that are moved one   *)
(* part at a time, and a ledger that has something of its own.             *)

Room(ids, facts, files, home) == [ids |-> ids, facts |-> facts, files |-> files, home |-> home]

MCRooms == {Room(5, 1, 2, {l1}), Room(4, 2, 1, {l1}), Room(3, 2, 1, {l1, l2})}

-----------------------------------------------------------------------------
(* Budget reports.  Each household is a hazard of its own: an envelope     *)
(* that is edited, capped and carried past the bound of the fold; amounts  *)
(* worked out from the periods before; funds, one of them after another    *)
(* budget; envelopes of a category and of its group; a funding order in a  *)
(* group that is its categories added up.  Nobody lives in the first.      *)

MCFiling == <<k1, k2>>

Budget(t, from, amount) ==
  [of |-> t, from |-> from, to |-> 4, amount |-> amount, rule |-> "fixed",
   rollover |-> FALSE, cap |-> NoAmount, goal |-> NoAmount, date |-> NoAmount,
   lookback |-> NoAmount, percent |-> NoAmount, priority |-> 0]
EnvelopeOf(t, from, amount) == [Budget(t, from, amount) EXCEPT !.rollover = TRUE]
Fund(from, goal, date) ==
  [EnvelopeOf(k1, from, 0) EXCEPT !.rule = "sinking_fund", !.goal = goal, !.date = date]
Averaged(from, lookback) ==
  [Budget(k1, from, 5) EXCEPT !.rule = "trailing_average", !.lookback = lookback]
Stepped(from, percent) ==
  [EnvelopeOf(k1, from, 5) EXCEPT !.rule = "incremental", !.percent = percent]
Shared(from, percent) ==
  [Budget(k1, from, 0) EXCEPT !.rule = "percent_of_income", !.percent = percent]
Ranked(b, priority) == [b EXCEPT !.priority = priority]

House(offers, grouped, policies, watched, money, pay, amounts, much) ==
  [offers |-> offers, watched |-> watched, money |-> money, pay |-> pay,
   amounts |-> amounts, effort |-> much, policy |-> [g \in {g1} |-> policies],
   membership |-> [c \in {k1, k2} |-> IF grouped THEN g1 ELSE NoCategory]]

MCHouseholds ==
  <<House({}, FALSE, "standalone", {}, {}, {}, {}, 0),
    House({EnvelopeOf(k1, 1, 5), [EnvelopeOf(k1, 3, 4) EXCEPT !.cap = 3],
           [Budget(k1, 1, 4) EXCEPT !.to = 2]},
          FALSE, "standalone", {k1}, {7, -2}, {}, {2}, 3),
    House({Averaged(1, 2), Stepped(2, 50), Shared(1, 25)},
          FALSE, "standalone", {k1}, {7, -2}, {6}, {2}, 2),
    House({Fund(1, 7, 3), [Fund(2, 11, 4) EXCEPT !.cap = 12], Fund(2, 7, 4),
           [EnvelopeOf(k1, 1, 6) EXCEPT !.to = 1]},
          FALSE, "standalone", {k1}, {7}, {}, {2}, 3),
    House({EnvelopeOf(k1, 1, 5), Budget(k2, 1, 5), EnvelopeOf(g1, 1, 9)},
          TRUE, "standalone", {k1, k2}, {3}, {}, {}, 3),
    House({Ranked(EnvelopeOf(k1, 1, 5), 2), Ranked(Budget(k2, 2, 5), 1), Budget(k2, 1, 4)},
          TRUE, "sum_of_children", {}, {}, {7, -1}, {}, 3)>>

-----------------------------------------------------------------------------
(* A part that does not move begins in one of its initial states only.     *)
(* The schedulers of the sweep run on; nobody else has to do anything.     *)
ServicesInit ==
  /\ part \in {"late", "reminders", "places", "queue", "categories", "files", "reports"}
  /\ Init /\ (part = "late" \/ \A c \in Recurrences : zone[c] = 0)
  /\ RemindersInit
  /\ part = "reminders" \/ wishes = CHOOSE wish \in MCWishes : Cardinality(wish) = 1
  /\ PlacesInit /\ (part = "places" \/ standing = CHOOSE known \in MCStandings : TRUE)
  /\ QueueInit
  /\ CategoriesInit
  /\ part = "categories" \/ casting = CHOOSE cast \in MCCategoryCasts : TRUE
  /\ FilesInit /\ (part = "files" \/ room = CHOOSE any \in MCRooms : TRUE)
  /\ BudgetsInit /\ (part = "reports" \/ household = 1)

ServicesNext ==
  /\ UNCHANGED part
  /\ \/ /\ part = "late" /\ Next
        /\ UNCHANGED <<reminderVars, placesVars, queueVars, categoryVars, fileVars, budgetVars>>
     \/ /\ part = "reminders" /\ RemindersNext
        /\ UNCHANGED <<vars, placesVars, queueVars, categoryVars, fileVars, budgetVars>>
     \/ /\ part = "places" /\ PlacesNext
        /\ UNCHANGED <<vars, reminderVars, queueVars, categoryVars, fileVars, budgetVars>>
     \/ /\ part = "queue" /\ QueueNext
        /\ UNCHANGED <<vars, reminderVars, placesVars, categoryVars, fileVars, budgetVars>>
     \/ /\ part = "categories" /\ CategoriesNext
        /\ UNCHANGED <<vars, reminderVars, placesVars, queueVars, fileVars, budgetVars>>
     \/ /\ part = "files" /\ FilesNext
        /\ UNCHANGED <<vars, reminderVars, placesVars, queueVars, categoryVars, budgetVars>>
     \/ /\ part = "reports" /\ BudgetsNext
        /\ UNCHANGED <<vars, reminderVars, placesVars, queueVars, categoryVars, fileVars>>

ServicesSpec ==
  /\ ServicesInit /\ [][ServicesNext]_allVars
  /\ \A s \in Schedulers : WF_vars(part = "late" /\ Step(s))

(* The types of the six that are checked nowhere else, each where its own  *)
(* variables move.                                                         *)
ServicesTypeOK ==
  /\ part = "reminders" => RemindersTypeOK
  /\ part = "places" => PlacesTypeOK
  /\ part = "queue" => QueueTypeOK
  /\ part = "categories" => CategoriesTypeOK
  /\ part = "files" => FilesTypeOK
  /\ part = "reports" => BudgetsTypeOK
=============================================================================
