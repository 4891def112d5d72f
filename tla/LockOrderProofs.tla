--------------------------- MODULE LockOrderProofs ---------------------------
(***************************************************************************)
(* No deadlock among any number of requests, over any books, as long as    *)
(* none of them is the recurrence sweep or a merge of categories that      *)
(* splits name: every other operation takes its locks in one order.        *)
(***************************************************************************)
EXTENDS LockOrder, SumTheorems, NaturalsInduction

(* What a blocked request waits for lies above everything it holds.        *)
Below ==
  \A r \in Requests : \A k \in Held(r), i \in DOMAIN todo[r] :
    \A l \in todo[r][i] \ Held(r) : Place[k] < Place[l]
IdleHoldsNothing == \A r \in Requests : ~ Working(r) => Held(r) = {}
AllAscend == \A r \in Requests : Ascending(todo[r])
IInv == TypeOK /\ AllAscend /\ Below /\ IdleHoldsNothing

-----------------------------------------------------------------------------
(* Least and greatest places.                                              *)

LEMMA SmallestOf ==
  ASSUME NEW S \in SUBSET Nat, S # {}
  PROVE  \E m \in S : \A n \in S : m <= n
<1>1. IsWellFoundedOn(OpToRel(<, Nat), Nat)
  BY NatLessThanWellFounded
<1>2. PICK m \in S : \A n \in S : ~ (<<n, m>> \in OpToRel(<, Nat))
  BY <1>1, WFMin
<1>3. \A n \in S : ~ (n < m)
  BY <1>2 DEF OpToRel
<1> QED  BY <1>3

(* Least is well defined: a group that has keys has a least one.           *)
LEMMA LeastIsLeast ==
  ASSUME NEW S \in SUBSET Keys, S # {}
  PROVE  Least(S) \in S /\ \A l \in S : Place[Least(S)] <= Place[l]
<1>1. {Place[k] : k \in S} \in SUBSET Nat /\ {Place[k] : k \in S} # {}
  BY LockOrderAssumption
<1>2. PICK m \in {Place[k] : k \in S} : \A n \in {Place[k] : k \in S} : m <= n
  BY <1>1, SmallestOf
<1>3. \E k \in S : \A l \in S : Place[k] <= Place[l]
  BY <1>2
<1> QED  BY <1>3 DEF Least

(* In a finite set of requests, one waits at the highest place.            *)
LEMMA HighestOf ==
  ASSUME NEW S, IsFiniteSet(S), NEW f \in [S -> Nat], S # {}
  PROVE  \E r \in S : \A s \in S : f[s] <= f[r]
<1> DEFINE Bad == {T \in SUBSET S : T # {} /\ ~ \E r \in T : \A s \in T : f[s] <= f[r]}
<1> SUFFICES ASSUME Bad # {} PROVE FALSE
  OBVIOUS
<1>0. Bad \in SUBSET SUBSET S
  OBVIOUS
<1> HIDE DEF Bad
<1>1. PICK T \in Bad : \A U \in SUBSET T : U # T => U \notin Bad
  BY <1>0, MinimalSubset
<1> USE DEF Bad
<1>2. PICK x \in T : TRUE
  OBVIOUS
<1>3. CASE T \ {x} = {}
  BY <1>1, <1>2, <1>3
<1>4. CASE T \ {x} # {}
  <2>1. T \ {x} \notin Bad /\ T \ {x} \in SUBSET S
    BY <1>1, <1>2
  <2>2. PICK r \in T \ {x} : \A s \in T \ {x} : f[s] <= f[r]
    BY <1>4, <2>1
  <2>3. f[x] \in Nat /\ f[r] \in Nat /\ \A s \in T : f[s] \in Nat
    BY <1>1, <1>2, <2>2
  <2>4. \E q \in T : \A s \in T : f[s] <= f[q]
    <3>1. CASE f[x] <= f[r]
      BY <2>2, <2>3, <3>1, <1>2
    <3>2. CASE ~ (f[x] <= f[r])
      BY <2>2, <2>3, <3>2, <1>2
    <3> QED  BY <3>1, <3>2
  <2> QED  BY <1>1, <2>4
<1> QED  BY <1>3, <1>4

-----------------------------------------------------------------------------
(* What the operations take is in order.                                   *)

(* Each group holds keys of one kind, and so of one level.                 *)
LEMMA Groups ==
  ASSUME NEW ask \in Asks
  PROVE  /\ \A k \in Retry(ask) : k \in Keys /\ Level(k[1]) = 1
         /\ \A k \in Reference(ask.accounts) : k \in Keys /\ Level(k[1]) = 2
         /\ \A k \in Renamed(ask) : k \in Keys /\ Level(k[1]) = 3
         /\ \A k \in Category(ask) : k \in Keys /\ Level(k[1]) = 4
         /\ \A k \in Rows("entry", ask.entries) : k \in Keys /\ Level(k[1]) = 9
         /\ \A k \in Rows("entry", ask.split) : k \in Keys /\ Level(k[1]) = 9
         /\ \A k \in Rows("staged", ask.staged) : k \in Keys /\ Level(k[1]) = 10
         /\ \A k \in Rows("recurrence", ask.recurrences) : k \in Keys /\ Level(k[1]) = 11
         /\ \A k \in Rows("template", ask.templates) : k \in Keys /\ Level(k[1]) = 12
<1> USE DEF Asks, Keys, Level, Namespaces
<1>1. \A k \in Retry(ask) : k \in Keys /\ Level(k[1]) = 1
  BY DEF Retry
<1>2. \A k \in Reference(ask.accounts) : k \in Keys /\ Level(k[1]) = 2
  BY DEF Reference
<1>3. \A k \in Renamed(ask) : k \in Keys /\ Level(k[1]) = 3
  BY DEF Renamed, Namespace
<1>4. \A k \in Category(ask) : k \in Keys /\ Level(k[1]) = 4
  BY DEF Category, Namespace
<1>5. \A k \in Rows("entry", ask.entries) \cup Rows("entry", ask.split) : k \in Keys /\ Level(k[1]) = 9
  BY DEF Rows
<1>6. \A k \in Rows("staged", ask.staged) : k \in Keys /\ Level(k[1]) = 10
  BY DEF Rows
<1>7. \A k \in Rows("recurrence", ask.recurrences) : k \in Keys /\ Level(k[1]) = 11
  BY DEF Rows
<1>8. \A k \in Rows("template", ask.templates) : k \in Keys /\ Level(k[1]) = 12
  BY DEF Rows
<1> QED  BY <1>1, <1>2, <1>3, <1>4, <1>5, <1>6, <1>7, <1>8

LEMMA NamespaceGroups ==
  /\ \A k \in Namespace("accounts") : k \in Keys /\ Level(k[1]) = 3
  /\ \A k \in Namespace("categories") : k \in Keys /\ Level(k[1]) = 4
  /\ \A k \in Namespace("payees") : k \in Keys /\ Level(k[1]) = 5
  /\ \A k \in Namespace("templates") : k \in Keys /\ Level(k[1]) = 6
  /\ \A k \in Namespace("recurrences") : k \in Keys /\ Level(k[1]) = 7
  /\ \A k \in Namespace("duplicates") : k \in Keys /\ Level(k[1]) = 8
BY DEF Namespace, Namespaces, Keys, Level

(* Groups on ascending levels ascend.                                      *)
LEMMA AscendByLevel ==
  ASSUME NEW groups, NEW n \in Nat, NEW level, DOMAIN groups = 1 .. n,
         \A i \in 1 .. n : \A k \in groups[i] : k \in Keys /\ Level(k[1]) = level[i],
         \A i, j \in 1 .. n : i < j => level[i] < level[j]
  PROVE  Ascending(groups)
BY LockOrderAssumption DEF Ascending

LEMMA EntryLocksAscend ==
  ASSUME NEW ask \in Asks
  PROVE  EntryLocks(ask) \in Seq(SUBSET Keys) /\ Ascending(EntryLocks(ask))
<1> DEFINE g == EntryLocks(ask)
           level == <<1, 2, 4, 5, 8, 9>>
<1>1. DOMAIN g = 1 .. 6 /\ \A i \in 1 .. 6 : \A k \in g[i] : k \in Keys /\ Level(k[1]) = level[i]
  BY Groups, NamespaceGroups DEF EntryLocks
<1>2. \A i, j \in 1 .. 6 : i < j => level[i] < level[j]
  OBVIOUS
<1>3. Ascending(g)
  <2> HIDE DEF g, level
  <2> QED  BY <1>1, <1>2, AscendByLevel
<1> QED  BY <1>1, <1>3 DEF EntryLocks

LEMMA VoidLocksAscend ==
  ASSUME NEW ask \in Asks
  PROVE  VoidLocks(ask) \in Seq(SUBSET Keys) /\ Ascending(VoidLocks(ask))
<1> DEFINE g == VoidLocks(ask)
           level == <<1, 2, 9>>
<1>1. DOMAIN g = 1 .. 3 /\ \A i \in 1 .. 3 : \A k \in g[i] : k \in Keys /\ Level(k[1]) = level[i]
  BY Groups, NamespaceGroups DEF VoidLocks
<1>2. \A i, j \in 1 .. 3 : i < j => level[i] < level[j]
  OBVIOUS
<1>3. Ascending(g)
  <2> HIDE DEF g, level
  <2> QED  BY <1>1, <1>2, AscendByLevel
<1> QED  BY <1>1, <1>3 DEF VoidLocks

LEMMA StageLocksAscend ==
  ASSUME NEW ask \in Asks
  PROVE  StageLocks(ask) \in Seq(SUBSET Keys) /\ Ascending(StageLocks(ask))
<1> DEFINE g == StageLocks(ask)
           level == <<1, 2, 4, 5, 10>>
<1>1. DOMAIN g = 1 .. 5 /\ \A i \in 1 .. 5 : \A k \in g[i] : k \in Keys /\ Level(k[1]) = level[i]
  BY Groups, NamespaceGroups DEF StageLocks
<1>2. \A i, j \in 1 .. 5 : i < j => level[i] < level[j]
  OBVIOUS
<1>3. Ascending(g)
  <2> HIDE DEF g, level
  <2> QED  BY <1>1, <1>2, AscendByLevel
<1> QED  BY <1>1, <1>3 DEF StageLocks

LEMMA CommitLocksAscend ==
  ASSUME NEW ask \in Asks
  PROVE  CommitLocks(ask) \in Seq(SUBSET Keys) /\ Ascending(CommitLocks(ask))
<1> DEFINE g == CommitLocks(ask)
           level == <<1, 2, 4, 5, 8, 10>>
<1>1. DOMAIN g = 1 .. 6 /\ \A i \in 1 .. 6 : \A k \in g[i] : k \in Keys /\ Level(k[1]) = level[i]
  BY Groups, NamespaceGroups DEF CommitLocks
<1>2. \A i, j \in 1 .. 6 : i < j => level[i] < level[j]
  OBVIOUS
<1>3. Ascending(g)
  <2> HIDE DEF g, level
  <2> QED  BY <1>1, <1>2, AscendByLevel
<1> QED  BY <1>1, <1>3 DEF CommitLocks

LEMMA AccountLocksAscend ==
  ASSUME NEW ask \in Asks
  PROVE  AccountLocks(ask) \in Seq(SUBSET Keys) /\ Ascending(AccountLocks(ask))
<1> DEFINE g == AccountLocks(ask)
           level == <<2, 3>>
<1>1. DOMAIN g = 1 .. 2 /\ \A i \in 1 .. 2 : \A k \in g[i] : k \in Keys /\ Level(k[1]) = level[i]
  BY Groups, NamespaceGroups DEF AccountLocks
<1>2. \A i, j \in 1 .. 2 : i < j => level[i] < level[j]
  OBVIOUS
<1>3. Ascending(g)
  <2> HIDE DEF g, level
  <2> QED  BY <1>1, <1>2, AscendByLevel
<1> QED  BY <1>1, <1>3 DEF AccountLocks

LEMMA ArchiveLocksAscend ==
  ASSUME NEW ask \in Asks
  PROVE  ArchiveLocks(ask) \in Seq(SUBSET Keys) /\ Ascending(ArchiveLocks(ask))
<1> DEFINE g == ArchiveLocks(ask)
           level == <<2, 3>>
<1>1. DOMAIN g = 1 .. 2 /\ \A i \in 1 .. 2 : \A k \in g[i] : k \in Keys /\ Level(k[1]) = level[i]
  BY Groups, NamespaceGroups DEF ArchiveLocks
<1>2. \A i, j \in 1 .. 2 : i < j => level[i] < level[j]
  OBVIOUS
<1>3. Ascending(g)
  <2> HIDE DEF g, level
  <2> QED  BY <1>1, <1>2, AscendByLevel
<1> QED  BY <1>1, <1>3 DEF ArchiveLocks

LEMMA MergePayeeLocksAscend ==
  ASSUME NEW ask \in Asks
  PROVE  MergePayeeLocks(ask) \in Seq(SUBSET Keys) /\ Ascending(MergePayeeLocks(ask))
<1> DEFINE g == MergePayeeLocks(ask)
           level == <<1, 5, 9, 10, 11, 12>>
<1>1. DOMAIN g = 1 .. 6 /\ \A i \in 1 .. 6 : \A k \in g[i] : k \in Keys /\ Level(k[1]) = level[i]
  BY Groups, NamespaceGroups DEF MergePayeeLocks
<1>2. \A i, j \in 1 .. 6 : i < j => level[i] < level[j]
  OBVIOUS
<1>3. Ascending(g)
  <2> HIDE DEF g, level
  <2> QED  BY <1>1, <1>2, AscendByLevel
<1> QED  BY <1>1, <1>3 DEF MergePayeeLocks

LEMMA TemplateLocksAscend ==
  ASSUME NEW ask \in Asks
  PROVE  TemplateLocks(ask) \in Seq(SUBSET Keys) /\ Ascending(TemplateLocks(ask))
<1> DEFINE g == TemplateLocks(ask)
           level == <<1, 2, 4, 6, 12>>
<1>1. DOMAIN g = 1 .. 5 /\ \A i \in 1 .. 5 : \A k \in g[i] : k \in Keys /\ Level(k[1]) = level[i]
  BY Groups, NamespaceGroups DEF TemplateLocks
<1>2. \A i, j \in 1 .. 5 : i < j => level[i] < level[j]
  OBVIOUS
<1>3. Ascending(g)
  <2> HIDE DEF g, level
  <2> QED  BY <1>1, <1>2, AscendByLevel
<1> QED  BY <1>1, <1>3 DEF TemplateLocks

LEMMA UntemplateLocksAscend ==
  ASSUME NEW ask \in Asks
  PROVE  UntemplateLocks(ask) \in Seq(SUBSET Keys) /\ Ascending(UntemplateLocks(ask))
<1> DEFINE g == UntemplateLocks(ask)
           level == <<1, 6, 12>>
<1>1. DOMAIN g = 1 .. 3 /\ \A i \in 1 .. 3 : \A k \in g[i] : k \in Keys /\ Level(k[1]) = level[i]
  BY Groups, NamespaceGroups DEF UntemplateLocks
<1>2. \A i, j \in 1 .. 3 : i < j => level[i] < level[j]
  OBVIOUS
<1>3. Ascending(g)
  <2> HIDE DEF g, level
  <2> QED  BY <1>1, <1>2, AscendByLevel
<1> QED  BY <1>1, <1>3 DEF UntemplateLocks

LEMMA RecurrenceLocksAscend ==
  ASSUME NEW ask \in Asks
  PROVE  RecurrenceLocks(ask) \in Seq(SUBSET Keys) /\ Ascending(RecurrenceLocks(ask))
<1> DEFINE g == RecurrenceLocks(ask)
           level == <<2, 4, 7, 11>>
<1>1. DOMAIN g = 1 .. 4 /\ \A i \in 1 .. 4 : \A k \in g[i] : k \in Keys /\ Level(k[1]) = level[i]
  BY Groups, NamespaceGroups DEF RecurrenceLocks
<1>2. \A i, j \in 1 .. 4 : i < j => level[i] < level[j]
  OBVIOUS
<1>3. Ascending(g)
  <2> HIDE DEF g, level
  <2> QED  BY <1>1, <1>2, AscendByLevel
<1> QED  BY <1>1, <1>3 DEF RecurrenceLocks

LEMMA FileLocksAscend ==
  ASSUME NEW ask \in Asks
  PROVE  FileLocks(ask) \in Seq(SUBSET Keys) /\ Ascending(FileLocks(ask))
<1> DEFINE g == FileLocks(ask)
           level == <<1, 2, 3, 4, 5, 6, 7, 8>>
<1>1. DOMAIN g = 1 .. 8 /\ \A i \in 1 .. 8 : \A k \in g[i] : k \in Keys /\ Level(k[1]) = level[i]
  BY Groups, NamespaceGroups DEF FileLocks
<1>2. \A i, j \in 1 .. 8 : i < j => level[i] < level[j]
  OBVIOUS
<1>3. Ascending(g)
  <2> HIDE DEF g, level
  <2> QED  BY <1>1, <1>2, AscendByLevel
<1> QED  BY <1>1, <1>3 DEF FileLocks

(* A merge that no split names reads its entries once, in order.           *)
LEMMA MergeCategoryLocksAscend ==
  ASSUME NEW ask \in Asks
  PROVE  /\ MergeCategoryLocks(ask) \in Seq(SUBSET Keys)
         /\ ask.split = {} => Ascending(MergeCategoryLocks(ask))
<1> DEFINE g == MergeCategoryLocks(ask)
           level == <<1, 4, 9, 9, 10, 11, 12>>
<1>1. DOMAIN g = 1 .. 7 /\ \A i \in 1 .. 7 : \A k \in g[i] : k \in Keys /\ Level(k[1]) = level[i]
  BY Groups, NamespaceGroups DEF MergeCategoryLocks
<1>2. \A i, j \in 1 .. 7 : i < j => level[i] < level[j] \/ (i = 3 /\ j = 4)
  OBVIOUS
<1>3. ask.split = {} => g[4] = {}
  BY DEF MergeCategoryLocks, Rows
<1>4. ask.split = {} => Ascending(g)
  <2> HIDE DEF g, level
  <2> SUFFICES ASSUME ask.split = {}, NEW i \in 1 .. 7, NEW j \in 1 .. 7, i < j,
                      NEW k \in g[i], NEW l \in g[j]
               PROVE  Place[k] < Place[l]
    BY <1>1 DEF Ascending
  <2>1. level[i] < level[j]
    BY <1>2, <1>3
  <2> QED  BY <1>1, <2>1, LockOrderAssumption
<1> QED  BY <1>1, <1>4 DEF MergeCategoryLocks

LEMMA ShortLocksAscend ==
  ASSUME NEW ask \in Asks,
         NEW S \in {Namespace("accounts"), Namespace("categories"), Rows("staged", ask.staged),
                    Rows("recurrence", ask.recurrences)}
  PROVE  <<S>> \in Seq(SUBSET Keys) /\ Ascending(<<S>>)
BY Groups, NamespaceGroups DEF Ascending

LEMMA SweepLocksTyped ==
  ASSUME NEW ask \in Asks
  PROVE  SweepLocks(ask) \in Seq(SUBSET Keys)
BY Groups, NamespaceGroups DEF SweepLocks

(***************************************************************************)
(* Every operation but the sweep and a merge that splits name takes its    *)
(* locks in ascending order.                                               *)
(***************************************************************************)
InOrder(ask) == ask.op # "proposeDue" /\ (ask.op = "mergeCategories" => ask.split = {})

LEMMA LocksAscend ==
  ASSUME NEW ask \in Asks
  PROVE  /\ LocksTaken(ask) \in Seq(SUBSET Keys)
         /\ InOrder(ask) => Ascending(LocksTaken(ask))
<1>1. CASE ask.op \in {"createEntry", "updateEntry", "restoreEntry", "editEntries"}
  BY <1>1, EntryLocksAscend DEF LocksTaken
<1>2. CASE ask.op \in {"voidEntry", "deleteEntries"}
  BY <1>2, VoidLocksAscend DEF LocksTaken
<1>3. CASE ask.op \in {"createStage", "updateStage", "editStages"}
  BY <1>3, StageLocksAscend DEF LocksTaken
<1>4. CASE ask.op = "commitStages"
  BY <1>4, CommitLocksAscend DEF LocksTaken
<1>5. CASE ask.op = "deleteStages"
  BY <1>5, ShortLocksAscend DEF LocksTaken
<1>6. CASE ask.op \in {"createAccount", "writeCategory"}
  BY <1>6, ShortLocksAscend DEF LocksTaken
<1>7. CASE ask.op = "updateAccount"
  BY <1>7, AccountLocksAscend DEF LocksTaken
<1>8. CASE ask.op = "archiveAccount"
  BY <1>8, ArchiveLocksAscend DEF LocksTaken
<1>9. CASE ask.op = "mergeCategories"
  BY <1>9, MergeCategoryLocksAscend DEF LocksTaken, InOrder
<1>10. CASE ask.op = "mergePayees"
  BY <1>10, MergePayeeLocksAscend DEF LocksTaken
<1>11. CASE ask.op \in {"saveTemplate", "editTemplates"}
  BY <1>11, TemplateLocksAscend DEF LocksTaken
<1>12. CASE ask.op = "deleteTemplates"
  BY <1>12, UntemplateLocksAscend DEF LocksTaken
<1>13. CASE ask.op = "saveRecurrence"
  BY <1>13, RecurrenceLocksAscend DEF LocksTaken
<1>14. CASE ask.op = "deleteRecurrence"
  BY <1>14, ShortLocksAscend DEF LocksTaken
<1>15. CASE ask.op = "proposeDue"
  BY <1>15, SweepLocksTyped DEF LocksTaken, InOrder
<1>16. CASE ask.op = "addLedgerFile"
  BY <1>16, FileLocksAscend DEF LocksTaken
<1> QED
  BY <1>1, <1>2, <1>3, <1>4, <1>5, <1>6, <1>7, <1>8, <1>9, <1>10, <1>11, <1>12, <1>13, <1>14,
     <1>15, <1>16 DEF Asks, Operations

-----------------------------------------------------------------------------
(* The invariant.                                                          *)

LEMMA InitInv == Init => IInv
<1> SUFFICES ASSUME Init PROVE IInv
  OBVIOUS
<1>1. \A r \in Requests : Held(r) = {} /\ todo[r] = <<>>
  BY LockOrderAssumption DEF Init, Held
<1> QED  BY <1>1, LockOrderAssumption
         DEF Init, IInv, TypeOK, AllAscend, Ascending, Below, IdleHoldsNothing

LEMMA BeginKeeps ==
  ASSUME IInv, \A r \in Requests : \A ask \in Asked[r] : InOrder(ask), NEW r \in Requests, Begin(r)
  PROVE  IInv'
<1> USE DEF IInv
<1>1. PICK ask \in Asked[r] : /\ todo' = [todo EXCEPT ![r] = LocksTaken(ask)]
                             /\ doing' = [doing EXCEPT ![r] = ask.op]
  BY DEF Begin
<1>2. ask \in Asks /\ ask.op \in Operations /\ InOrder(ask)
  BY <1>1, LockOrderAssumption DEF Asks
<1>3. TypeOK'
  BY <1>1, <1>2, LocksAscend DEF TypeOK, Begin
<1>4. AllAscend'
  BY <1>1, <1>2, LocksAscend DEF AllAscend, TypeOK
<1>5. \A s \in Requests : Held(s)' = Held(s)
  BY DEF Held, Begin
<1>6. Held(r) = {}
  BY DEF IdleHoldsNothing, Begin, Working, Operations
<1>7. Below'
  BY <1>1, <1>5, <1>6 DEF Below, TypeOK
<1>8. IdleHoldsNothing'
  BY <1>1, <1>2, <1>5, <1>6 DEF IdleHoldsNothing, TypeOK, Working
<1> QED  BY <1>3, <1>4, <1>7, <1>8

LEMMA NextKeyIsLeast ==
  ASSUME TypeOK, NEW r \in Requests, Asking(r)
  PROVE  /\ NextKey(r) \in Keys /\ NextKey(r) \in todo[r][1] /\ NextKey(r) \notin Held(r)
         /\ 1 \in DOMAIN todo[r]
         /\ \A l \in todo[r][1] \ Held(r) : Place[NextKey(r)] <= Place[l]
<1>1. todo[r] \in Seq(SUBSET Keys) /\ todo[r] # <<>> /\ Head(todo[r]) = todo[r][1]
  BY DEF TypeOK, Asking
<1>2. 1 \in DOMAIN todo[r] /\ todo[r][1] \in SUBSET Keys
  BY <1>1
<1>3. Wanted(r) \in SUBSET Keys /\ Wanted(r) # {}
  BY <1>1, <1>2 DEF Wanted, Asking
<1> QED  BY <1>1, <1>2, <1>3, LeastIsLeast DEF NextKey, Wanted

LEMMA TakeKeeps ==
  ASSUME IInv, NEW r \in Requests, Take(r)
  PROVE  IInv'
<1> USE DEF IInv
<1> DEFINE n == NextKey(r)
<1>1. /\ n \in Keys /\ n \in todo[r][1] /\ n \notin Held(r) /\ 1 \in DOMAIN todo[r]
      /\ \A l \in todo[r][1] \ Held(r) : Place[n] <= Place[l]
  BY NextKeyIsLeast DEF Take
<1>2. lock[n] = Free /\ lock' = [lock EXCEPT ![n] = r] /\ UNCHANGED <<todo, doing>> /\ Working(r)
  BY DEF Take, Asking
<1> HIDE DEF n
<1>3. TypeOK'
  BY <1>1, <1>2 DEF TypeOK
<1>4. AllAscend'
  BY <1>2 DEF AllAscend, Ascending
<1>5. Held(r)' = Held(r) \cup {n} /\ \A s \in Requests \ {r} : Held(s)' = Held(s)
  BY <1>1, <1>2, LockOrderAssumption DEF Held, TypeOK
<1>6. Below'
  <2> SUFFICES ASSUME NEW s \in Requests, NEW k \in Held(s)', NEW i \in DOMAIN todo[s],
                      NEW l \in todo[s][i] \ Held(s)'
               PROVE  Place[k] < Place[l]
    BY <1>2 DEF Below
  <2>1. CASE s # r
    BY <2>1, <1>5 DEF Below
  <2>2. CASE s = r /\ k # n
    BY <2>2, <1>5 DEF Below
  <2>3. CASE s = r /\ k = n
    <3>1. todo[r] \in Seq(SUBSET Keys) /\ l \in Keys /\ l # n /\ i \in 1 .. Len(todo[r])
      BY <2>3, <1>5 DEF TypeOK
    <3>2. Place[n] \in Nat /\ Place[l] \in Nat /\ Place[n] # Place[l]
      BY <1>1, <3>1, LockOrderAssumption
    <3>3. CASE i = 1
      BY <1>1, <1>5, <2>3, <3>2, <3>3
    <3>4. CASE i # 1
      BY <1>1, <2>3, <3>1, <3>4 DEF AllAscend, Ascending
    <3> QED  BY <3>3, <3>4
  <2> QED  BY <2>1, <2>2, <2>3
<1>7. IdleHoldsNothing'
  BY <1>2, <1>5 DEF IdleHoldsNothing, Working
<1> QED  BY <1>3, <1>4, <1>6, <1>7

LEMMA ProceedKeeps ==
  ASSUME IInv, NEW r \in Requests, Proceed(r)
  PROVE  IInv'
<1> USE DEF IInv
<1>1. /\ todo[r] \in Seq(SUBSET Keys) /\ todo[r] # <<>>
      /\ todo' = [todo EXCEPT ![r] = Tail(todo[r])] /\ UNCHANGED <<lock, doing>>
  BY DEF Proceed, TypeOK
<1>2. TypeOK'
  BY <1>1 DEF TypeOK
<1>3. todo'[r] = Tail(todo[r]) /\ \A s \in Requests \ {r} : todo'[s] = todo[s]
  BY <1>1 DEF TypeOK
<1>4. \A i \in DOMAIN todo'[r] : i + 1 \in DOMAIN todo[r] /\ todo'[r][i] = todo[r][i + 1] /\ i \in Nat
  <2> DEFINE s == todo[r]
  <2>1. s \in Seq(SUBSET Keys) /\ s # <<>>
    BY <1>1
  <2> HIDE DEF s
  <2>2. \A i \in DOMAIN Tail(s) : i + 1 \in DOMAIN s /\ Tail(s)[i] = s[i + 1] /\ i \in Nat
    BY <2>1
  <2> QED  BY <2>2, <1>3 DEF s
<1>5. \A s \in Requests : Held(s)' = Held(s)
  BY <1>1 DEF Held
<1>6. AllAscend'
  <2>1. Ascending(todo'[r])
    <3>1. Ascending(todo[r])
      BY DEF AllAscend
    <3> QED  BY <3>1, <1>4 DEF Ascending
  <2> QED  BY <2>1, <1>3 DEF AllAscend
<1>7. Below'
  <2> SUFFICES ASSUME NEW s \in Requests, NEW k \in Held(s), NEW i \in DOMAIN todo'[s],
                      NEW l \in todo'[s][i] \ Held(s)
               PROVE  Place[k] < Place[l]
    BY <1>5 DEF Below
  <2>1. CASE s = r
    BY <1>4, <2>1 DEF Below
  <2>2. CASE s # r
    BY <1>3, <2>2 DEF Below
  <2> QED  BY <2>1, <2>2
<1>8. IdleHoldsNothing'
  BY <1>1, <1>5 DEF IdleHoldsNothing, Working
<1> QED  BY <1>2, <1>6, <1>7, <1>8

LEMMA EndKeeps ==
  ASSUME IInv, NEW r \in Requests, End(r)
  PROVE  IInv'
<1> USE DEF IInv, End, Finish
<1>1. TypeOK'
  BY LockOrderAssumption DEF TypeOK
<1>2. Held(r)' = {} /\ \A s \in Requests \ {r} : Held(s)' = Held(s)
  BY LockOrderAssumption DEF Held, TypeOK
<1>3. todo'[r] = <<>> /\ \A s \in Requests \ {r} : todo'[s] = todo[s] /\ doing'[s] = doing[s]
  BY DEF TypeOK
<1>4. AllAscend'
  BY <1>3 DEF AllAscend, Ascending
<1>5. Below'
  BY <1>2, <1>3 DEF Below
<1>6. IdleHoldsNothing'
  BY <1>2, <1>3 DEF IdleHoldsNothing, Working
<1> QED  BY <1>1, <1>4, <1>5, <1>6

LEMMA StutterKeeps == IInv /\ UNCHANGED vars => IInv'
BY DEF IInv, vars, TypeOK, AllAscend, Ascending, Below, IdleHoldsNothing, Held, Working

(* A group of blocked requests, each waiting on another of it, would have  *)
(* one waiting at the highest place, for a lock whose holder waits higher. *)
LEMMA OrderPreventsDeadlock == IInv => NoDeadlock
<1> SUFFICES ASSUME IInv, NEW W \in SUBSET Requests, W # {},
                    \A r \in W : Blocked(r) /\ lock[NextKey(r)] \in W
             PROVE  FALSE
  BY DEF NoDeadlock
<1> USE DEF IInv
<1> DEFINE f == [r \in W |-> Place[NextKey(r)]]
<1>1. \A r \in W : Asking(r)
  BY DEF Blocked
<1>2. \A r \in W : NextKey(r) \in Keys
  BY <1>1, NextKeyIsLeast
<1>3. f \in [W -> Nat] /\ IsFiniteSet(W)
  BY <1>2, LockOrderAssumption, FS_Subset
<1> HIDE DEF f
<1>4. PICK r \in W : \A s \in W : f[s] <= f[r]
  BY <1>3, HighestOf
<1>5. PICK s \in W : lock[NextKey(r)] = s
  OBVIOUS
<1>6. NextKey(r) \in Held(s)
  BY <1>2, <1>5 DEF Held
<1>7. Place[NextKey(r)] < Place[NextKey(s)]
  BY <1>1, <1>6, NextKeyIsLeast DEF Below
<1>8. f[r] = Place[NextKey(r)] /\ f[s] = Place[NextKey(s)] /\ f[r] \in Nat /\ f[s] \in Nat
  BY <1>3 DEF f
<1> QED  BY <1>4, <1>7, <1>8

(***************************************************************************)
(* No requests of this code ever wait on one another in a circle, however  *)
(* many there are and whatever they name, unless one of them is the sweep  *)
(* of recurrences or a merge of categories that splits name.               *)
(***************************************************************************)
THEOREM DeadlockFree ==
  ASSUME \A r \in Requests : \A ask \in Asked[r] : InOrder(ask)
  PROVE  Spec => []NoDeadlock
<1>1. Init => IInv
  BY InitInv
<1>2. IInv /\ [Next]_vars => IInv'
  BY BeginKeeps, TakeKeeps, ProceedKeeps, EndKeeps, StutterKeeps DEF Next, Serve
<1>3. IInv => NoDeadlock
  BY OrderPreventsDeadlock
<1> QED  BY <1>1, <1>2, <1>3, PTL DEF Spec
=============================================================================
