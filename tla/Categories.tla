------------------------------ MODULE Categories ------------------------------
(***************************************************************************)
(* Categories and everything that names them: entries, staged rows,        *)
(* recurrences, templates, and the budgets about a category or about a     *)
(* group of them (src/server/services/categories.ts, category-groups.ts    *)
(* and budgets.ts, with the writes of the other services that name a       *)
(* category).                                                              *)
(*                                                                         *)
(* Recurrences, templates and staged rows name a category inside a JSON    *)
(* draft, where no foreign key sees it.  What keeps a category that goes   *)
(* from leaving its name behind is the category namespace lock: a save     *)
(* that names a category holds it from its check to its commit.            *)
(* Every other operation here takes the lock and does all it does under    *)
(* it, in one step, or only drops a reference and takes no lock.           *)
(***************************************************************************)
EXTENDS Integers, FiniteSets

CONSTANTS Categories, Groups,
          Plans, Overrides,   \* budgets, and amounts set for one period
          NoCategory,
          LastPeriod,         \* periods are 1 .. LastPeriod
          CategoryCasts       \* what takes part, and the drafts sent

VARIABLES category,  \* category[c]: what became of c, its kind, its group
          policy,    \* policy[g]: how a group is budgeted, or what became of it
          filed,     \* filed[h]: the draft of h, or NoDraft
          plan,      \* plan[p]: the target and the window, or NoBudget
          override,  \* override[o]: the target and the period, or NoBudget
          save,      \* the save that is between its check and its commit
          casting
categoryVars == <<category, policy, filed, plan, override, save, casting>>

NoDraft == [column |-> NoCategory, legs |-> {}, type |-> "nothing"]
Holders == {"entry", "staged", "recurrence", "template"}
Running == LastPeriod + 1   \* a window without an end
NoBudget == [of |-> NoCategory, from |-> 0, to |-> 0]
NoSave == [thing |-> "none", locks |-> FALSE]

Kinds == {"income", "expense", "both"}
Targets == Categories \cup Groups

CategoryRows == [is : {"unused", "live", "archived", "gone"}, kind : Kinds,
                 group : Groups \cup {NoCategory}]
CategoryDrafts ==
  [column : Categories \cup {NoCategory}, legs : SUBSET Categories,
   type : {"deposit", "withdrawal", "nothing"}]
Budgets == [of : Targets \cup {NoCategory}, from : 0 .. LastPeriod, to : 0 .. Running]

ASSUME CategoriesAssumption ==
  /\ NoCategory \notin Targets /\ Categories \cap Groups = {}
  /\ LastPeriod \in Nat
  /\ \A cast \in CategoryCasts : cast.drafts \subseteq CategoryDrafts /\ cast.kinds \subseteq Kinds

Named(d) == (IF d.column = NoCategory THEN {} ELSE {d.column}) \cup d.legs

(* A category and legs together: only a staged row holds what no schema    *)
(* has looked at.                                                          *)
Fits(d) == d.column = NoCategory \/ d.legs = {}

Existing(known) == {c \in Categories : known[c].is \in {"live", "archived"}}

Using(f, c) == {h \in Holders : c \in Named(f[h])}
PlansOf(t) == {p \in Plans : plan[p].of = t}
OverridesOf(t) == {o \in Overrides : override[o].of = t}

(* countCategoryUses, without its budgets and with them.                   *)
Unused(f, c) == Using(f, c) = {}
UnusedAndUnbudgeted(f, c) == Unused(f, c) /\ PlansOf(c) = {} /\ OverridesOf(c) = {}

Remove(known, S) ==
  [c \in Categories |->
    IF c \in S THEN [is |-> "gone", kind |-> "both", group |-> NoCategory] ELSE known[c]]

WithoutBudgets(budgets, S) ==
  [b \in DOMAIN budgets |-> IF budgets[b].of \in S THEN NoBudget ELSE budgets[b]]

NamespaceFree == ~save.locks
TakesPart(thing) == thing \in casting.things

CategoriesInit ==
  /\ category = [c \in Categories |-> [is |-> "unused", kind |-> "both", group |-> NoCategory]]
  /\ policy = [g \in Groups |-> "unused"]
  /\ filed = [h \in Holders |-> NoDraft]
  /\ plan = [p \in Plans |-> NoBudget]
  /\ override = [o \in Overrides |-> NoBudget]
  /\ save = NoSave
  /\ casting \in CategoryCasts

-----------------------------------------------------------------------------
(* Saves that name categories.                                             *)

KindFor(type) == IF type = "deposit" THEN "income" ELSE "expense"

(* resolveCategoryByName: one that is not there is made, an archived one   *)
(* comes back, and the kind of one that is there is left as it is.         *)
ResolveByName(known, named, type) ==
  [c \in Categories |->
    IF c \notin named THEN known[c]
    ELSE IF known[c].is = "archived" THEN [known[c] EXCEPT !.is = "live"]
    ELSE IF known[c].is = "unused"
         THEN [is |-> "live", kind |-> KindFor(type), group |-> NoCategory]
    ELSE known[c]]

(* prepareTransaction, after the names are resolved: every category is     *)
(* there, and is archived only if the entry named it already.  The legs    *)
(* of one entry do not go both ways.                                       *)
MayBePosted(known, d, allowed) ==
  /\ Fits(d)
  /\ \A c \in Named(d) :
       known[c].is = "live" \/ (known[c].is = "archived" /\ c \in allowed)
  /\ ~({"income", "expense"} \subseteq {known[c].kind : c \in Named(d)})

(* A draft of a recurrence or a template names categories that are there;  *)
(* a staged row names whatever it was given.                               *)
MayBeSaved(h, d, named) ==
  CASE h = "entry" ->
         MayBePosted(ResolveByName(category, named, d.type), d, Named(filed[h]))
    [] h \in {"recurrence", "template"} ->
         named = {} /\ Fits(d) /\ Named(d) \subseteq Existing(category)
    [] h = "staged" -> named = {}

(* (Mutant: a recurrence and a template are checked without the lock.)     *)
SaveLocksRows(h, d) ==
  h \in {"entry", "staged"} /\ (Named(d) # {} \/ Named(filed[h]) # {})

(* The lock is taken where the draft names a category, and where the       *)
(* stored one does and may be pruned after.                                *)
SaveLocksNamespace(h, d) ==
  Named(d) # {} \/ (h \in {"entry", "staged"} /\ Named(filed[h]) # {})

BeginSave(h, d, named, prunes) ==
  /\ TakesPart(h) /\ save = NoSave
  /\ d # filed[h] /\ MayBeSaved(h, d, named)
  /\ \A c \in named : TakesPart(c)
  /\ prunes => h \in {"entry", "staged"}
  /\ h = "entry" => prunes
  /\ save' = [thing |-> h, draft |-> d, named |-> named, prunes |-> prunes,
                locks |-> SaveLocksNamespace(h, d)]
  /\ UNCHANGED <<category, policy, filed, plan, override, casting>>

(* pruneOrphanedCategories, of what the edit moved off.                    *)
PruneOrphans(released, f) == {c \in released : UnusedAndUnbudgeted(f, c)}

CommitSave ==
  /\ save # NoSave
  /\ LET s == save
         now == [filed EXCEPT ![s.thing] = s.draft]
         left == Named(filed[s.thing]) \ Named(s.draft)
         known == ResolveByName(category, s.named, s.draft.type)
         gone == IF s.prunes THEN PruneOrphans(left \cap Existing(known), now) ELSE {}
     IN /\ filed' = now
        /\ category' = Remove(known, gone)
        /\ plan' = WithoutBudgets(plan, gone)
        /\ override' = WithoutBudgets(override, gone)
  /\ save' = NoSave
  /\ UNCHANGED <<policy, casting>>

(* commitStages: the draft becomes an entry, a name of it a category.      *)
CommitStage(c) ==
  LET d == filed["staged"]
      byName == IF Named(d) = {} THEN {c} \ {NoCategory} ELSE {}
      settled == IF byName = {} THEN d ELSE [d EXCEPT !.column = c]
      known == ResolveByName(category, byName, d.type)
  IN /\ NamespaceFree \/ Named(settled) = {}
     /\ TakesPart("entry") /\ \A b \in byName : TakesPart(b)
     /\ d # NoDraft /\ filed["entry"] = NoDraft
     /\ save.thing \notin {"staged", "entry"}
     /\ MayBePosted(known, settled, {})
     /\ category' = known
     /\ filed' = [filed EXCEPT !["entry"] = settled, !["staged"] = NoDraft]
     /\ UNCHANGED <<policy, plan, override, save, casting>>

(* proposeRow: what the recurrence holds now, into the queue.              *)
ProposeStaged ==
  /\ NamespaceFree \/ Named(filed["recurrence"]) = {}
  /\ TakesPart("staged")
  /\ filed["recurrence"] # NoDraft /\ filed["staged"] = NoDraft
  /\ save.thing \notin {"staged", "recurrence"}
  /\ filed' = [filed EXCEPT !["staged"] = filed["recurrence"]]
  /\ UNCHANGED <<category, policy, plan, override, save, casting>>

(* deleteStages, deleteRecurrence, deleteTransactionTemplate: no lock of   *)
(* the namespace.  An entry that is deleted keeps what it named.           *)
Discard(h) ==
  /\ h # "entry" /\ filed[h] # NoDraft
  /\ save.thing # h
  /\ filed' = [filed EXCEPT ![h] = NoDraft]
  /\ UNCHANGED <<category, policy, plan, override, save, casting>>

-----------------------------------------------------------------------------
(* Categories.                                                             *)

InGroup(g) == g = NoCategory \/ (TakesPart(g) /\ policy[g] \in {"standalone", "sum_of_children"})

CreateCategory(c, kind, g) ==
  /\ NamespaceFree /\ TakesPart(c) /\ category[c].is = "unused" /\ InGroup(g)
  /\ category' = [category EXCEPT ![c] = [is |-> "live", kind |-> kind, group |-> g]]
  /\ UNCHANGED <<policy, filed, plan, override, save, casting>>

(* assertCategoryKindCompatible, over entries and staged rows.             *)
KindCompatible(c, kind) ==
  \/ kind = "both"
  \/ \A h \in Using(filed, c) \cap {"entry", "staged"} :
       filed[h].type # (IF kind = "income" THEN "withdrawal" ELSE "deposit")

UpdateCategory(c, kind, g) ==
  /\ NamespaceFree /\ c \in Existing(category) /\ InGroup(g)
  /\ <<kind, g>> # <<category[c].kind, category[c].group>>
  /\ kind = category[c].kind \/ KindCompatible(c, kind)
  /\ category' = [category EXCEPT ![c].kind = kind, ![c].group = g]
  /\ UNCHANGED <<policy, filed, plan, override, save, casting>>

SetCategoryArchived(c, archived) ==
  /\ NamespaceFree
  /\ category[c].is = IF archived THEN "live" ELSE "archived"
  /\ archived => c \notin Named(filed["staged"])
  /\ category' = [category EXCEPT ![c].is = IF archived THEN "archived" ELSE "live"]
  /\ UNCHANGED <<policy, filed, plan, override, save, casting>>

(* A budget never holds a category against a delete: it goes with it.      *)
DeleteCategory(c) ==
  /\ NamespaceFree /\ c \in Existing(category) /\ Unused(filed, c)
  /\ category' = Remove(category, {c})
  /\ plan' = WithoutBudgets(plan, {c}) /\ override' = WithoutBudgets(override, {c})
  /\ UNCHANGED <<policy, filed, save, casting>>

Overlap(b1, b2) == b1.from <= b2.to /\ b2.from <= b1.to

Apart(budgets, t) ==
  \A b1, b2 \in DOMAIN budgets :
    b1 # b2 /\ budgets[b1].of = t /\ budgets[b2].of = t => ~Overlap(budgets[b1], budgets[b2])

(* (Mutant: each source is compared with the target alone.)                *)
MergeFitsTarget(budgets, sources, target) ==
  \A b1, b2 \in DOMAIN budgets :
    budgets[b1].of \in sources /\ budgets[b2].of = target => ~Overlap(budgets[b1], budgets[b2])

(* What the target will end up with is compared, each with each.           *)
MergeFits(budgets, sources, target) ==
  LET coming == {b \in DOMAIN budgets : budgets[b].of \in sources \cup {target}}
  IN \A b1, b2 \in coming : b1 # b2 => ~Overlap(budgets[b1], budgets[b2])

Relabel(d, sources, target) ==
  [d EXCEPT !.column = IF @ \in sources THEN target ELSE @,
            !.legs = {IF c \in sources THEN target ELSE c : c \in @}]

(* The statement over a JSON draft rewrites the column, or else the legs.  *)
RelabelDraft(d, sources, target) ==
  IF d.column \in sources THEN [d EXCEPT !.column = target]
  ELSE Relabel(d, sources, target)

MovedBudgets(budgets, sources, target) ==
  [b \in DOMAIN budgets |->
    IF budgets[b].of \in sources THEN [budgets[b] EXCEPT !.of = target] ELSE budgets[b]]

MergedKind(S) ==
  LET kinds == {category[c].kind : c \in S}
  IN IF Cardinality(kinds) = 1 THEN CHOOSE kind \in kinds : TRUE ELSE "both"

MergeCategories(target, sources) ==
  /\ NamespaceFree
  /\ sources # {} /\ target \notin sources
  /\ sources \cup {target} \subseteq Existing(category)
  /\ MergeFits(plan, sources, target) /\ MergeFits(override, sources, target)
  /\ filed' = [h \in Holders |->
                IF h = "entry" THEN Relabel(filed[h], sources, target)
                ELSE RelabelDraft(filed[h], sources, target)]
  /\ plan' = WithoutBudgets(MovedBudgets(plan, sources, target), sources)
  /\ override' = WithoutBudgets(MovedBudgets(override, sources, target), sources)
  /\ category' = [Remove(category, sources) EXCEPT
                    ![target].kind = MergedKind(sources \cup {target})]
  /\ UNCHANGED <<policy, save, casting>>

-----------------------------------------------------------------------------
(* Groups.                                                                 *)

CreateCategoryGroup(g, how) ==
  /\ NamespaceFree /\ TakesPart(g) /\ policy[g] = "unused"
  /\ policy' = [policy EXCEPT ![g] = how]
  /\ UNCHANGED <<category, filed, plan, override, save, casting>>

(* A group that holds a budget of its own does not become one that is its  *)
(* categories added up.                                                    *)
HoldsBudget(g) == PlansOf(g) # {} \/ OverridesOf(g) # {}

UpdateCategoryGroup(g, how) ==
  /\ NamespaceFree /\ policy[g] \in {"standalone", "sum_of_children"} /\ policy[g] # how
  /\ how = "sum_of_children" => ~HoldsBudget(g)
  /\ policy' = [policy EXCEPT ![g] = how]
  /\ UNCHANGED <<category, filed, plan, override, save, casting>>

DeleteCategoryGroup(g) ==
  /\ NamespaceFree /\ policy[g] \in {"standalone", "sum_of_children"}
  /\ policy' = [policy EXCEPT ![g] = "gone"]
  /\ category' = [c \in Categories |->
                   IF category[c].group = g THEN [category[c] EXCEPT !.group = NoCategory]
                   ELSE category[c]]
  /\ plan' = WithoutBudgets(plan, {g}) /\ override' = WithoutBudgets(override, {g})
  /\ UNCHANGED <<filed, save, casting>>

-----------------------------------------------------------------------------
(* Budgets, of one currency and one unit of period.                        *)

(* requireBudgetableTarget                                                 *)
Budgetable(t) ==
  IF t \in Groups THEN policy[t] = "standalone"
  ELSE t \in Existing(category) /\ category[t].kind # "income"

NoOverlap(p, t, from, to) ==
  \A q \in PlansOf(t) \ {p} : ~Overlap([from |-> from, to |-> to], plan[q])

(* createBudgetPlan, and updateBudgetPlan of the same plan.                *)
SavePlan(p, t, from, to) ==
  /\ NamespaceFree /\ TakesPart(p) /\ from <= to
  /\ plan[p] = NoBudget \/ (plan[p].of = t /\ <<plan[p].from, plan[p].to>> # <<from, to>>)
  /\ Budgetable(t) /\ NoOverlap(p, t, from, to)
  /\ plan' = [plan EXCEPT ![p] = [of |-> t, from |-> from, to |-> to]]
  /\ UNCHANGED <<category, policy, filed, override, save, casting>>

(* The period that is changed is the one found: another amount for it is   *)
(* no second override.                                                     *)
SetBudgetEntry(o, t, period) ==
  /\ NamespaceFree /\ TakesPart(o) /\ override[o] = NoBudget
  /\ Budgetable(t)
  /\ \A other \in OverridesOf(t) : override[other].from # period
  /\ override' = [override EXCEPT ![o] = [of |-> t, from |-> period, to |-> period]]
  /\ UNCHANGED <<category, policy, filed, plan, save, casting>>

(* deleteBudgetPlan, deleteBudgetEntry: no lock.                           *)
DeleteBudget ==
  /\ \/ \E p \in Plans : plan[p] # NoBudget /\ plan' = [plan EXCEPT ![p] = NoBudget]
                         /\ UNCHANGED override
     \/ \E o \in Overrides : override[o] # NoBudget
                             /\ override' = [override EXCEPT ![o] = NoBudget]
                             /\ UNCHANGED plan
  /\ UNCHANGED <<category, policy, filed, save, casting>>

-----------------------------------------------------------------------------
CategoriesNext ==
  \/ \E h \in Holders, d \in casting.drafts, prunes \in BOOLEAN :
       \E named \in SUBSET Named(d) : BeginSave(h, d, named, prunes)
  \/ CommitSave
  \/ \E c \in Categories \cup {NoCategory} : CommitStage(c)
  \/ ProposeStaged
  \/ \E h \in Holders : Discard(h)
  \/ \E c \in Categories, g \in Groups \cup {NoCategory} :
       \/ \E kind \in casting.kinds : CreateCategory(c, kind, g) \/ UpdateCategory(c, kind, g)
  \/ \E c \in Categories, archived \in BOOLEAN : SetCategoryArchived(c, archived)
  \/ \E c \in Categories : DeleteCategory(c)
  \/ \E target \in Categories, sources \in SUBSET Categories : MergeCategories(target, sources)
  \/ \E g \in Groups, how \in {"standalone", "sum_of_children"} :
       CreateCategoryGroup(g, how) \/ UpdateCategoryGroup(g, how)
  \/ \E g \in Groups : DeleteCategoryGroup(g)
  \/ \E p \in Plans, t \in Targets, from \in 1 .. LastPeriod, to \in 1 .. Running :
       SavePlan(p, t, from, to)
  \/ \E o \in Overrides, t \in Targets, period \in 1 .. LastPeriod : SetBudgetEntry(o, t, period)
  \/ DeleteBudget

CategoriesSpec == CategoriesInit /\ [][CategoriesNext]_categoryVars

-----------------------------------------------------------------------------
CategoriesTypeOK ==
  /\ category \in [Categories -> CategoryRows]
  /\ policy \in [Groups -> {"unused", "standalone", "sum_of_children", "gone"}]
  /\ filed \in [Holders -> CategoryDrafts]
  /\ plan \in [Plans -> Budgets] /\ override \in [Overrides -> Budgets]

(* Entries, recurrences and templates name categories that are there, and  *)
(* a category that goes, whether deleted, pruned or merged away, leaves no *)
(* staged row naming it that could ever be committed.                      *)
NothingDangles ==
  /\ \A h \in Holders \ {"staged"} : Named(filed'[h]) \subseteq Existing(category')
  /\ \A c \in Existing(category) \ Existing(category') :
       c \in Named(filed'["staged"]) => ~Fits(filed'["staged"])

(* A budget ends when somebody asks: with the budget, its category or its  *)
(* group.  A step that files, recategorizes or merges ends none.           *)
BudgetsKept ==
  filed' # filed =>
    /\ \A p \in Plans : plan[p] # NoBudget => plan'[p] # NoBudget
    /\ \A o \in Overrides : override[o] # NoBudget => override'[o] # NoBudget

(* However categories are edited, emptied, merged and deleted, a category  *)
(* that goes takes with it exactly what was asked for: no name of it is    *)
(* left behind, and no budget falls to an edit of an entry                 *)
(* (countCategoryUses, pruneOrphanedCategories, mergeCategories and the    *)
(* lock that createRecurrence and the template saves hold).                *)
CategoriesGoCleanly == [][NothingDangles /\ BudgetsKept]_categoryVars

(* What is budgeted for a period can be said in one way: the windows of    *)
(* one target never overlap, no period of it is set twice, and a group     *)
(* that is its categories added up holds no budget of its own              *)
(* (assertNoOverlap and the checks of mergeCategories and                  *)
(* updateCategoryGroup, which each see a different half of it).            *)
OneBudgetAPeriod ==
  /\ \A t \in Targets : Apart(plan, t) /\ Apart(override, t)
  /\ \A g \in Groups : HoldsBudget(g) => policy[g] = "standalone"
=============================================================================
