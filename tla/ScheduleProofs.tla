---------------------------- MODULE ScheduleProofs ----------------------------
(***************************************************************************)
(* Proofs about schedules.  For any number of recurrences, schedulers,     *)
(* crashes and edits: the sweep implements Schedule, never meets the       *)
(* unique index, loses no day and tells nobody twice.  For every rule and  *)
(* calendar: the dates that are counted from an anchor are the days the    *)
(* rule names, and the first after any day is found.  For any number of    *)
(* replicas and saves: a reminder is claimed once for each day it is owed. *)
(***************************************************************************)
EXTENDS RecurrenceSweep, Reminders, SumTheorems

(* What a scheduler knows of the row it is on.  While it works, the lock   *)
(* keeps the row as it read it.                                            *)
Underway(s) ==
  /\ at[s] \in {"claiming", "working", "telling"} => job[s].rec \in Recurrences
  /\ at[s] \in {"claiming", "working"} => job[s].through <= now + 1
  /\ at[s] = "working" => /\ held[job[s].rec] = s
                          /\ Live(job[s].rec)
                          /\ job[s].row = row[job[s].rec]
                          /\ Batch(job[s].row, job[s].through) # {}
WorkIsCurrent == \A s \in Schedulers : Underway(s)

(* All that was ever staged lies at or before the watermark.               *)
QueuedIsSettled ==
  \A c \in Recurrences : /\ row[c].status = "none" => queued[c] = {}
                         /\ Live(c) => \A d \in queued[c] : d <= row[c].last

(* What waits to be told is staged, untold, and nobody else's to tell.     *)
Untold ==
  \A s \in Schedulers : at[s] = "telling" =>
    /\ Staged(s) \subseteq queued[job[s].rec]
    /\ \A d \in Staged(s) : told[job[s].rec][d] = 0
    /\ \A t \in Schedulers \ {s} :
         at[t] = "telling" /\ job[t].rec = job[s].rec => Staged(s) \cap Staged(t) = {}

-----------------------------------------------------------------------------
(* Date arithmetic.                                                        *)

LEMMA DaysFinite ==
  ASSUME NEW S \in SUBSET Days
  PROVE  IsFiniteSet(S) /\ S \in SUBSET Int
<1>1. LastDay \in Nat
  BY ScheduleAssumption
<1>2. IsFiniteSet(1 .. LastDay + 1)
  BY <1>1, FS_Interval
<1>3. IsFiniteSet(S)
  BY <1>2, FS_Subset DEF Days
<1>4. S \in SUBSET Int
  BY <1>1 DEF Days
<1> QED  BY <1>3, <1>4

LEMMA SomeLeast ==
  ASSUME NEW S \in SUBSET Int, IsFiniteSet(S), S # {}
  PROVE  \E m \in S : \A x \in S : m <= x
<1> DEFINE Bad == {T \in SUBSET S : T # {} /\ ~ \E m \in T : \A x \in T : m <= x}
<1> SUFFICES ASSUME Bad # {} PROVE FALSE
  <2>1. S \notin Bad
    OBVIOUS
  <2> QED  BY <2>1
<1>1. Bad \in SUBSET SUBSET S
  OBVIOUS
<1>2. PICK T \in Bad : \A U \in SUBSET T : U # T => U \notin Bad
  <2> HIDE DEF Bad
  <2> QED  BY <1>1, MinimalSubset
<1>3. PICK y \in T : TRUE
  BY <1>2
<1>4. T \ {y} # {}
  BY <1>2, <1>3
<1>5. T \ {y} \notin Bad
  BY <1>2, <1>3
<1>6. PICK m \in T \ {y} : \A x \in T \ {y} : m <= x
  BY <1>4, <1>5, <1>2
<1>7. CASE m <= y
  BY <1>2, <1>6, <1>7
<1>8. CASE y <= m
  BY <1>2, <1>3, <1>6, <1>8
<1> QED  BY <1>2, <1>3, <1>6, <1>7, <1>8

LEMMA LeastOf ==
  ASSUME NEW S \in SUBSET Days, S # {}
  PROVE  Least(S) \in S /\ \A x \in S : Least(S) <= x
<1>1. \E m \in S : \A x \in S : m <= x
  BY DaysFinite, SomeLeast
<1> QED  BY <1>1 DEF Least

LEMMA LatestOf ==
  ASSUME NEW S \in SUBSET Days, S # {}
  PROVE  Latest(S) \in S /\ \A x \in S : x <= Latest(S)
<1> DEFINE N == {-x : x \in S}
<1>1. S \in SUBSET Int /\ IsFiniteSet(S)
  BY DaysFinite
<1>2. N \in SUBSET Int /\ N # {} /\ IsFiniteSet(N)
  <2>1. LastDay \in Nat
    BY ScheduleAssumption
  <2>2. \A x \in S : -x \in -(LastDay + 1) .. 0
    BY <2>1 DEF Days
  <2>3. N \in SUBSET (-(LastDay + 1) .. 0)
    BY <2>2
  <2>4. IsFiniteSet(-(LastDay + 1) .. 0)
    BY <2>1, FS_Interval
  <2>5. IsFiniteSet(N)
    BY <2>3, <2>4, FS_Subset
  <2>6. PICK x \in S : TRUE
    OBVIOUS
  <2>7. -x \in N
    BY <2>6
  <2>8. -(LastDay + 1) .. 0 \subseteq Int
    OBVIOUS
  <2>9. N \subseteq Int
    BY <2>3, <2>8
  <2>10. N # {}
    BY <2>7
  <2> HIDE DEF N
  <2> QED  BY <2>5, <2>9, <2>10
<1>3. PICK m \in N : \A x \in N : m <= x
  BY <1>2, SomeLeast
<1>4. PICK d \in S : m = -d
  BY <1>3
<1>5. \A x \in S : -d <= -x
  BY <1>3, <1>4
<1>6. \A x \in S : x <= d
  BY <1>1, <1>5
<1> QED  BY <1>6 DEF Latest

LEMMA NextAfterType ==
  ASSUME NEW rule \in Rules, NEW after \in Int
  PROVE  NextAfter(rule, after) \in 1 .. Beyond
<1> DEFINE later == {d \in Occurs[rule] : d > after}
<1>1. later \in SUBSET Days /\ LastDay \in Nat
  BY ScheduleAssumption
<1>2. CASE later = {}
  BY <1>1, <1>2 DEF NextAfter, Beyond
<1>3. CASE later # {}
  <2>1. Least(later) \in Days
    BY <1>1, <1>3, LeastOf
  <2> QED  BY <1>1, <1>3, <2>1 DEF NextAfter, Beyond, Days
<1> QED  BY <1>2, <1>3

LEMMA CursorType ==
  ASSUME NEW r \in Row
  PROVE  Cursor(r) \in Int /\ r.last <= Cursor(r) /\ r.from - 1 <= Cursor(r)
         /\ Cursor(r) \in {r.last, r.from - 1}
BY ScheduleAssumption DEF Cursor, Row

LEMMA ScheduledType ==
  ASSUME NEW r \in Row
  PROVE  /\ Scheduled(r) \in Row
         /\ Scheduled(r) = [r EXCEPT !.next = NextAfter(r.rule, Cursor(r))]
         /\ Scheduled(r).next \in 1 .. Beyond
         /\ Scheduled(r).next = NextAfter(Scheduled(r).rule, Cursor(Scheduled(r)))
<1>1. NextAfter(r.rule, Cursor(r)) \in 1 .. Beyond
  BY CursorType, NextAfterType DEF Row
<1>2. NextAfter(r.rule, Cursor(r)) \in 0 .. Beyond
  BY <1>1
<1> DEFINE n == NextAfter(r.rule, Cursor(r))
<1>3. Scheduled(r) = [r EXCEPT !.next = n]
  BY DEF Scheduled
<1> HIDE DEF n
<1>4. [r EXCEPT !.next = n] \in Row /\ [r EXCEPT !.next = n].next = n
      /\ [r EXCEPT !.next = n].rule = r.rule /\ [r EXCEPT !.next = n].last = r.last
      /\ [r EXCEPT !.next = n].from = r.from
  BY <1>2 DEF Row, n
<1>5. Cursor([r EXCEPT !.next = n]) = Cursor(r)
  BY <1>4 DEF Cursor
<1> QED  BY <1>1, <1>3, <1>4, <1>5 DEF n

(* A batch is a set of days after the cursor, and settling it moves the    *)
(* watermark to its last day and touches next besides.                     *)
LEMMA BatchDays ==
  ASSUME NEW r \in Row, NEW through \in Int
  PROVE  /\ Batch(r, through) \in SUBSET Days /\ RowsOf(r, through) \subseteq Batch(r, through)
         /\ \A d \in Batch(r, through) : Cursor(r) < d /\ d <= through
BY ScheduleAssumption DEF Batch, Owed, RowsOf, Row

LEMMA SettledType ==
  ASSUME NEW r \in Row, NEW through \in Int, Batch(r, through) # {}
  PROVE  LET after == Settled(r, through)
         IN  /\ after \in Row
             /\ after = [r EXCEPT !.last = after.last, !.next = after.next]
             /\ after.last \in Batch(r, through)
             /\ \A d \in Batch(r, through) : d <= after.last
             /\ after.next \in 1 .. Beyond
             /\ after.next = NextAfter(after.rule, Cursor(after))
<1> DEFINE l == Latest(Batch(r, through))
<1>1. l \in Batch(r, through) /\ \A d \in Batch(r, through) : d <= l
  BY BatchDays, LatestOf
<1>2. l \in 0 .. LastDay + 1
  BY <1>1, BatchDays, ScheduleAssumption DEF Days
<1> DEFINE moved == [r EXCEPT !.last = l]
<1>3. Settled(r, through) = Scheduled(moved)
  BY DEF Settled
<1> HIDE DEF l
<1>4. moved \in Row /\ moved.last = l
  BY <1>2 DEF Row
<1>5. Scheduled(moved) \in Row /\ Scheduled(moved).next \in 1 .. Beyond
      /\ Scheduled(moved) = [moved EXCEPT !.next = NextAfter(moved.rule, Cursor(moved))]
      /\ Scheduled(moved).next = NextAfter(Scheduled(moved).rule, Cursor(Scheduled(moved)))
  BY <1>4, ScheduledType
<1>6. Scheduled(moved).last = l
      /\ Scheduled(moved) = [r EXCEPT !.last = l, !.next = Scheduled(moved).next]
  BY <1>4, <1>5 DEF Row
<1> QED  BY <1>1, <1>3, <1>5, <1>6

-----------------------------------------------------------------------------
(* What the actions do to the rows.                                        *)

LEMMA NoRowType == NoRow \in Row /\ NoJob.row \in Row
<1>1. (CHOOSE r \in Rules : TRUE) \in Rules
  BY ScheduleAssumption
<1>2. 0 \in 0 .. LastDay + 1 /\ 0 \in 0 .. Beyond /\ 1 \in 1 .. MaxVersion
  BY ScheduleAssumption DEF Beyond
<1>3. NoRow \in Row
  BY <1>1, <1>2 DEF NoRow, Row
<1> QED  BY <1>3 DEF NoJob

LEMMA TodayType ==
  ASSUME TypeOK, NEW c \in Recurrences
  PROVE  Today(c) \in 0 .. LastDay + 1
<1>1. zone[c] \in {-1, 0, 1}
  BY ScheduleAssumption DEF TypeOK
<1>2. now \in 1 .. LastDay /\ LastDay \in Nat
  BY ScheduleAssumption DEF TypeOK
<1> QED  BY <1>1, <1>2 DEF Today

(* A person's change leaves one row, well formed, and the rest as it was.  *)
LEMMA PersonRow ==
  ASSUME TypeOK, NEW c \in Recurrences, Person(c)
  PROVE  /\ \E r \in Row :
              /\ row' = [row EXCEPT ![c] = r]
              /\ r.status # "none"
              /\ r.status = "live" =>
                   /\ r.next \in 1 .. Beyond
                   /\ r.next = NextAfter(r.rule, Cursor(r))
                   /\ Live(c) => r.last = row[c].last /\ r.version > 1
                   /\ ~Live(c) => row[c].status = "none" /\ r.last < r.from
         /\ UNCHANGED <<queued, now, zone>>
<1>1. CASE \E rule \in Rules, last \in Watermarks, notify \in Notices : Create(c, rule, last, notify)
  <2>1. PICK rule \in Rules, last \in Watermarks, notify \in Notices : Create(c, rule, last, notify)
    BY <1>1
  <2> DEFINE from == IF last >= Today(c) THEN last + 1 ELSE Today(c)
  <2> DEFINE new == [status |-> "live", version |-> 1, rule |-> rule, from |-> from,
                     last |-> last, next |-> 0, notify |-> notify]
  <2>2. from \in 0 .. LastDay + 1 /\ last < from /\ last \in 0 .. LastDay + 1
    <3>1. Today(c) \in 0 .. LastDay + 1
      BY TodayType
    <3>2. last \in 0 .. LastDay /\ LastDay \in Nat
      BY ScheduleAssumption
    <3> QED  BY <3>1, <3>2
  <2>3. notify \in BOOLEAN /\ 1 \in 1 .. MaxVersion /\ 0 \in 0 .. Beyond
    BY ScheduleAssumption DEF Beyond
  <2>4. row' = [row EXCEPT ![c] = Scheduled(new)] /\ row[c].status = "none"
        /\ UNCHANGED <<queued, now, zone>>
    BY <2>1 DEF Create
  <2> HIDE DEF from
  <2>5. new \in Row
    BY <2>2, <2>3 DEF Row
  <2>6. Scheduled(new) \in Row /\ Scheduled(new).next \in 1 .. Beyond
        /\ Scheduled(new).next = NextAfter(Scheduled(new).rule, Cursor(Scheduled(new)))
        /\ Scheduled(new).status = "live" /\ Scheduled(new).last = last /\ Scheduled(new).from = from
    BY <2>5, ScheduledType
  <2> HIDE DEF new
  <2> QED  BY <2>2, <2>4, <2>6 DEF Live
<1>2. CASE \E rule \in Rules, notify \in Notices : Update(c, rule, notify)
  <2>1. PICK rule \in Rules, notify \in Notices : Update(c, rule, notify)
    BY <1>2
  <2> DEFINE kept == [[row[c] EXCEPT !.notify = notify] EXCEPT !.rule = rule, !.version = @ + 1]
  <2>2. Live(c) /\ row[c].version < MaxVersion /\ row' = [row EXCEPT ![c] = Scheduled(kept)]
        /\ UNCHANGED <<queued, now, zone>>
    BY <2>1 DEF Update, WithRule
  <2>3. row[c] \in Row /\ notify \in BOOLEAN
    BY ScheduleAssumption DEF TypeOK
  <2>4. row[c].version + 1 \in 1 .. MaxVersion /\ row[c].version + 1 > 1
    BY <2>2, <2>3, ScheduleAssumption DEF Row
  <2>5. kept \in Row /\ kept.status = row[c].status /\ kept.last = row[c].last
        /\ kept.version = row[c].version + 1
    BY <2>3, <2>4 DEF Row
  <2>6. Scheduled(kept) \in Row /\ Scheduled(kept).next \in 1 .. Beyond
        /\ Scheduled(kept).next = NextAfter(Scheduled(kept).rule, Cursor(Scheduled(kept)))
        /\ Scheduled(kept).status = kept.status /\ Scheduled(kept).last = kept.last
        /\ Scheduled(kept).version = kept.version
    <3> HIDE DEF kept
    <3>1. Scheduled(kept) = [kept EXCEPT !.next = NextAfter(kept.rule, Cursor(kept))]
      BY DEF Scheduled
    <3>2. Scheduled(kept).status = kept.status /\ Scheduled(kept).last = kept.last
          /\ Scheduled(kept).version = kept.version
      BY <2>5, <3>1 DEF Row
    <3> QED  BY <2>5, <3>2, ScheduledType
  <2> HIDE DEF kept
  <2> QED  BY <2>2, <2>4, <2>5, <2>6 DEF Live
<1>3. CASE Delete(c)
  <2>1. [NoRow EXCEPT !.status = "deleted"] \in Row /\ [NoRow EXCEPT !.status = "deleted"].status = "deleted"
    BY NoRowType DEF Row
  <2> QED  BY <1>3, <2>1 DEF Delete
<1> QED  BY <1>1, <1>2, <1>3 DEF Person

(* What the lock bought: written from a copy of the row, the commit is the *)
(* settling of the row as it stands.                                       *)
LEMMA CommittedRow ==
  ASSUME TypeOK, NEW s \in Schedulers, Underway(s), Commit(s)
  PROVE  LET c == job[s].rec
             through == job[s].through
         IN  /\ c \in Recurrences /\ Live(c)
             /\ through \in 0 .. LastDay + 1 /\ through <= now + 1
             /\ job[s].row = row[c] /\ Batch(row[c], through) # {}
             /\ row' = [row EXCEPT ![c] = Settled(row[c], through)]
             /\ queued' = [queued EXCEPT ![c] = @ \cup RowsOf(row[c], through)]
<1> DEFINE c == job[s].rec
<1> DEFINE through == job[s].through
<1> DEFINE after == Settled(row[c], through)
<1>1. at[s] = "working"
  BY DEF Commit
<1>2. c \in Recurrences /\ Live(c) /\ through <= now + 1 /\ job[s].row = row[c]
      /\ Batch(row[c], through) # {}
  BY <1>1 DEF Underway
<1>3. through \in 0 .. LastDay + 1 /\ through \in Int /\ row[c] \in Row
  BY <1>2 DEF TypeOK
<1>4. after = [row[c] EXCEPT !.last = after.last, !.next = after.next]
  BY <1>2, <1>3, SettledType
<1>5. row' = [row EXCEPT ![c].last = after.last, ![c].next = after.next]
      /\ queued' = [queued EXCEPT ![c] = @ \cup RowsOf(row[c], through)]
  BY <1>2 DEF Commit, Staged
<1> HIDE DEF after
<1>6. row' = [row EXCEPT ![c] = [row[c] EXCEPT !.last = after.last, !.next = after.next]]
  BY <1>2, <1>5 DEF TypeOK
<1>7. row' = [row EXCEPT ![c] = after]
  BY <1>4, <1>6
<1> QED  BY <1>2, <1>3, <1>5, <1>7 DEF after

-----------------------------------------------------------------------------
(* Types, and what a scheduler knows.                                      *)

LEMMA InitTypes == Init => TypeOK /\ WorkIsCurrent
<1> SUFFICES ASSUME Init PROVE TypeOK /\ WorkIsCurrent
  OBVIOUS
<1>1. row \in [Recurrences -> Row] /\ \A c \in Recurrences : ~Live(c)
  BY NoRowType DEF Init, SInit, Live, NoRow
<1>2. 1 \in 1 .. LastDay /\ 0 \in 0 .. LastDay + 1 /\ 0 \in 0 .. MaxFaults
  BY ScheduleAssumption, SweepAssumption
<1>3. job \in [Schedulers -> [rec : Recurrences \cup {Free}, through : 0 .. LastDay + 1, row : Row]]
  BY <1>2, NoRowType DEF Init, NoJob
<1>4. TypeOK
  BY <1>1, <1>2, <1>3 DEF Init, SInit, TypeOK
<1>5. WorkIsCurrent
  BY DEF Init, WorkIsCurrent, Underway
<1> QED  BY <1>4, <1>5

(* The variables a scheduler's own steps are typed by.                     *)
OwnTypes == /\ at \in [Schedulers -> {"asleep", "examining", "claiming", "working", "telling"}]
            /\ due \in [Schedulers -> SUBSET Item]
            /\ job \in [Schedulers -> [rec : Recurrences \cup {Free}, through : 0 .. LastDay + 1,
                                       row : Row]]
            /\ held \in [Recurrences -> Schedulers \cup {Free}]
            /\ told \in [Recurrences -> [Days -> Nat]]
            /\ faults \in 0 .. MaxFaults
RowTypes == /\ row \in [Recurrences -> Row]
            /\ \A c \in Recurrences : Live(c) => row[c].next \in 1 .. Beyond
            /\ queued \in [Recurrences -> SUBSET Days]
            /\ now \in 1 .. LastDay /\ zone \in [Recurrences -> Zones]

LEMMA RowTypesStep ==
  ASSUME TypeOK, WorkIsCurrent, [Next]_vars
  PROVE  RowTypes'
<1> DEFINE Rows == /\ row \in [Recurrences -> Row]
                   /\ \A c \in Recurrences : row[c].status = "live" => row[c].next \in 1 .. Beyond
<1>0. Rows /\ queued \in [Recurrences -> SUBSET Days]
  BY DEF TypeOK, Live
<1>1. CASE UNCHANGED svars
  BY <1>1 DEF RowTypes, TypeOK, Live, svars
<1>2. ASSUME NEW s \in Schedulers, Commit(s) PROVE RowTypes'
  <2> DEFINE c == job[s].rec
  <2> DEFINE through == job[s].through
  <2> DEFINE after == Settled(row[c], through)
  <2>1. /\ c \in Recurrences /\ row' = [row EXCEPT ![c] = after]
        /\ queued' = [queued EXCEPT ![c] = @ \cup RowsOf(row[c], through)]
        /\ Batch(row[c], through) # {} /\ through \in Int /\ row[c] \in Row
    <3>1. Underway(s)
      BY DEF WorkIsCurrent
    <3>2. /\ c \in Recurrences /\ row' = [row EXCEPT ![c] = after]
          /\ queued' = [queued EXCEPT ![c] = @ \cup RowsOf(row[c], through)]
          /\ Batch(row[c], through) # {} /\ through \in 0 .. LastDay + 1
      BY <1>2, <3>1, CommittedRow
    <3>3. row[c] \in Row
      BY <3>2 DEF TypeOK
    <3> QED  BY <3>2, <3>3
  <2>2. after \in Row /\ after.next \in 1 .. Beyond /\ RowsOf(row[c], through) \in SUBSET Days
    BY <2>1, SettledType, BatchDays
  <2>3. UNCHANGED <<now, zone>>
    BY <1>2 DEF Commit
  <2> HIDE DEF after, c
  <2>4. Rows' /\ queued' \in [Recurrences -> SUBSET Days]
    BY <1>0, <2>1, <2>2
  <2> QED  BY <2>3, <2>4 DEF RowTypes, TypeOK, Live
<1>3. ASSUME NEW c \in Recurrences, Change(c) PROVE RowTypes'
  <2>1. Person(c)
    BY <1>3 DEF Change, Person
  <2>2. UNCHANGED <<queued, now, zone>>
        /\ \E r \in Row : row' = [row EXCEPT ![c] = r] /\ (r.status = "live" => r.next \in 1 .. Beyond)
    BY <2>1, PersonRow
  <2>3. Rows'
    BY <1>0, <2>2
  <2> QED  BY <2>2, <2>3 DEF RowTypes, TypeOK, Live
<1>4. ASSUME NEW c \in Recurrences, NEW z \in Zones, Move(c, z) PROVE RowTypes'
  BY <1>4 DEF Move, SetTimezone, RowTypes, TypeOK, Live
<1>5. CASE Clock
  <2>1. now' \in 1 .. LastDay
    BY <1>5, ScheduleAssumption DEF Clock, Advance, TypeOK
  <2> QED  BY <1>5, <2>1 DEF Clock, Advance, RowTypes, TypeOK, Live
<1>6. ASSUME NEW s \in Schedulers, Step(s) \/ Crash(s), ~Commit(s) PROVE UNCHANGED svars
  BY <1>6 DEF Step, ReadDue, Examine, Claim, Fail, Tell, EndTick, Crash
<1> QED  BY <1>1, <1>2, <1>3, <1>4, <1>5, <1>6 DEF Next, vars, svars, Step

LEMMA OwnTypesStep ==
  ASSUME TypeOK, WorkIsCurrent, [Next]_vars
  PROVE  OwnTypes'
<1>0. OwnTypes
  BY DEF TypeOK, OwnTypes
<1>1. ASSUME NEW s \in Schedulers, ReadDue(s) PROVE OwnTypes'
  <2>1. PICK page \in Pages :
          due' = [due EXCEPT ![s] = {[rec |-> c, next |-> row[c].next, zone |-> zone[c]] : c \in page}]
    BY <1>1 DEF ReadDue
  <2>2. \A c \in page : c \in Recurrences /\ row[c].next \in 1 .. Beyond /\ zone[c] \in Zones
    BY DEF TypeOK, Pages, Candidates
  <2>3. {[rec |-> c, next |-> row[c].next, zone |-> zone[c]] : c \in page} \in SUBSET Item
    BY <2>2 DEF Item
  <2>4. due' \in [Schedulers -> SUBSET Item]
    BY <1>0, <2>1, <2>3 DEF OwnTypes
  <2>5. at' \in [Schedulers -> {"asleep", "examining", "claiming", "working", "telling"}]
    BY <1>0, <1>1 DEF ReadDue, OwnTypes
  <2> QED  BY <1>0, <1>1, <2>4, <2>5 DEF ReadDue, OwnTypes
<1>2. ASSUME NEW s \in Schedulers, Examine(s) PROVE OwnTypes'
  <2>1. PICK item \in due[s] :
          LET today == now + item.zone
          IN  /\ due' = [due EXCEPT ![s] = @ \ {item}]
              /\ IF item.next > today
                 THEN UNCHANGED <<at, job>>
                 ELSE /\ at' = [at EXCEPT ![s] = "claiming"]
                      /\ job' = [job EXCEPT ![s] = [NoJob EXCEPT !.rec = item.rec, !.through = today]]
    BY <1>2 DEF Examine
  <2>2. item \in Item
    BY <1>0 DEF OwnTypes
  <2>3. now + item.zone \in 0 .. LastDay + 1 /\ item.rec \in Recurrences
    <3>1. item.zone \in {-1, 0, 1}
      BY <2>2, ScheduleAssumption DEF Item
    <3>2. now \in 1 .. LastDay /\ LastDay \in Nat
      BY ScheduleAssumption DEF TypeOK
    <3> QED  BY <2>2, <3>1, <3>2 DEF Item
  <2>4. [NoJob EXCEPT !.rec = item.rec, !.through = now + item.zone]
          \in [rec : Recurrences \cup {Free}, through : 0 .. LastDay + 1, row : Row]
    BY <2>3, NoRowType DEF NoJob
  <2>5. due' \in [Schedulers -> SUBSET Item]
    BY <1>0, <2>1 DEF OwnTypes
  <2>6. CASE item.next > now + item.zone
    <3>1. UNCHANGED <<at, job>>
      BY <2>1, <2>6
    <3> QED  BY <1>0, <1>2, <2>5, <3>1 DEF Examine, OwnTypes
  <2>7. CASE ~ (item.next > now + item.zone)
    <3>1. /\ at' = [at EXCEPT ![s] = "claiming"]
          /\ job' = [job EXCEPT ![s] = [NoJob EXCEPT !.rec = item.rec, !.through = now + item.zone]]
      BY <2>1, <2>7
    <3>2. at' \in [Schedulers -> {"asleep", "examining", "claiming", "working", "telling"}]
      BY <1>0, <3>1 DEF OwnTypes
    <3>3. job' \in [Schedulers -> [rec : Recurrences \cup {Free}, through : 0 .. LastDay + 1,
                                   row : Row]]
      BY <1>0, <2>4, <3>1 DEF OwnTypes
    <3> QED  BY <1>0, <1>2, <2>5, <3>2, <3>3 DEF Examine, OwnTypes
  <2> QED  BY <2>6, <2>7
<1>j. NoJob \in [rec : Recurrences \cup {Free}, through : 0 .. LastDay + 1, row : Row]
  BY NoRowType, ScheduleAssumption DEF NoJob
<1>3. ASSUME NEW s \in Schedulers, Claim(s) PROVE OwnTypes'
  <2>1. CASE Onward(s) /\ UNCHANGED held
    BY <1>0, <1>3, <1>j, <2>1 DEF Claim, Onward, OwnTypes
  <2>2. CASE Take(s, job[s].rec) /\ Live(job[s].rec)
    <3>1. job[s].rec \in Recurrences
      BY <1>3 DEF Claim, WorkIsCurrent, Underway
    <3>2. row[job[s].rec] \in Row
      BY <3>1 DEF TypeOK
    <3>3. held' \in [Recurrences -> Schedulers \cup {Free}]
      BY <1>0, <2>2 DEF Take, OwnTypes
    <3>4. job' \in [Schedulers -> [rec : Recurrences \cup {Free}, through : 0 .. LastDay + 1, row : Row]]
          /\ at' \in [Schedulers -> {"asleep", "examining", "claiming", "working", "telling"}]
      BY <1>0, <2>2, <3>2 DEF Take, OwnTypes
    <3> QED  BY <1>0, <1>3, <3>3, <3>4 DEF Claim, OwnTypes
  <2> QED  BY <1>3, <2>1, <2>2 DEF Claim
<1>4. ASSUME NEW s \in Schedulers, Commit(s) \/ Fail(s) PROVE OwnTypes'
  <2>1. held' \in [Recurrences -> Schedulers \cup {Free}]
    BY <1>0, <1>4 DEF Commit, Fail, Release, OwnTypes
  <2>2. job' \in [Schedulers -> [rec : Recurrences \cup {Free}, through : 0 .. LastDay + 1, row : Row]]
        /\ at' \in [Schedulers -> {"asleep", "examining", "claiming", "working", "telling"}]
    BY <1>0, <1>4, <1>j DEF Commit, Fail, Onward, OwnTypes
  <2>3. faults' \in 0 .. MaxFaults
    BY <1>0, <1>4, SweepAssumption DEF Commit, Fail, Fails, Counted, OwnTypes
  <2> QED  BY <1>0, <1>4, <2>1, <2>2, <2>3 DEF Commit, Fail, OwnTypes
<1>5. ASSUME NEW s \in Schedulers, Tell(s) PROVE OwnTypes'
  <2>1. told' \in [Recurrences -> [Days -> Nat]]
    <3>1. CASE UNCHANGED told
      BY <1>0, <3>1 DEF OwnTypes
    <3>2. CASE told' = [told EXCEPT ![job[s].rec] =
                          [d \in Days |-> IF d \in Staged(s) THEN @[d] + 1 ELSE @[d]]]
      <4>1. job[s].rec \in Recurrences
        BY <1>5 DEF Tell, WorkIsCurrent, Underway
      <4>2. \A d \in Days : told[job[s].rec][d] \in Nat
        BY <1>0, <4>1 DEF OwnTypes
      <4>3. [d \in Days |-> IF d \in Staged(s) THEN told[job[s].rec][d] + 1 ELSE told[job[s].rec][d]]
              \in [Days -> Nat]
        BY <4>2
      <4> QED  BY <1>0, <3>2, <4>1, <4>3 DEF OwnTypes
    <3> QED  BY <1>5, <3>1, <3>2 DEF Tell
  <2>2. job' \in [Schedulers -> [rec : Recurrences \cup {Free}, through : 0 .. LastDay + 1, row : Row]]
        /\ at' \in [Schedulers -> {"asleep", "examining", "claiming", "working", "telling"}]
    BY <1>0, <1>5, <1>j DEF Tell, Onward, OwnTypes
  <2> QED  BY <1>0, <1>5, <2>1, <2>2 DEF Tell, OwnTypes
<1>6. ASSUME NEW s \in Schedulers, EndTick(s) PROVE OwnTypes'
  BY <1>0, <1>6 DEF EndTick, OwnTypes
<1>7. ASSUME NEW s \in Schedulers, Crash(s) PROVE OwnTypes'
  <2>1. held' \in [Recurrences -> Schedulers \cup {Free}]
    BY <1>0, <1>7 DEF Crash, Release, OwnTypes
  <2>2. job' \in [Schedulers -> [rec : Recurrences \cup {Free}, through : 0 .. LastDay + 1, row : Row]]
        /\ at' \in [Schedulers -> {"asleep", "examining", "claiming", "working", "telling"}]
        /\ due' \in [Schedulers -> SUBSET Item]
    BY <1>0, <1>7, <1>j DEF Crash, OwnTypes
  <2>3. faults' \in 0 .. MaxFaults
    BY <1>0, <1>7, SweepAssumption DEF Crash, OwnTypes
  <2> QED  BY <1>0, <1>7, <2>1, <2>2, <2>3 DEF Crash, OwnTypes
<1>8. CASE NoScheduler \/ UNCHANGED vars
  BY <1>0, <1>8 DEF NoScheduler, vars, OwnTypes
<1> QED
  BY <1>1, <1>2, <1>3, <1>4, <1>5, <1>6, <1>7, <1>8 DEF Next, Step, Change, Move, Clock

(* A row somebody works on changes by nobody else's hand: the lock is his  *)
(* alone, an edit and a delete wait for it, and a create finds no row.     *)
LEMMA WorkIsCurrentStep ==
  ASSUME TypeOK, WorkIsCurrent, [Next]_vars, TypeOK'
  PROVE  WorkIsCurrent'
<1> SUFFICES ASSUME NEW t \in Schedulers PROVE Underway(t)'
  BY DEF WorkIsCurrent
<1>0. Underway(t)
  BY DEF WorkIsCurrent
<1>1. ASSUME UNCHANGED <<row, now>>, at'[t] = at[t], job'[t] = job[t],
             at[t] = "working" => held'[job[t].rec] = held[job[t].rec]
      PROVE  Underway(t)'
  BY <1>0, <1>1 DEF Underway, Live
<1>2. ASSUME NEW s \in Schedulers, ReadDue(s) PROVE Underway(t)'
  <2>1. CASE s = t
    BY <1>2, <2>1 DEF ReadDue, Underway, TypeOK
  <2>2. CASE s # t
    BY <1>1, <1>2, <2>2 DEF ReadDue, svars, TypeOK
  <2> QED  BY <2>1, <2>2
<1>3. ASSUME NEW s \in Schedulers, Examine(s) PROVE Underway(t)'
  <2>1. CASE s = t
    <3>1. PICK item \in due[t] :
            LET today == now + item.zone
            IN  IF item.next > today
                THEN UNCHANGED <<at, job>>
                ELSE /\ at' = [at EXCEPT ![t] = "claiming"]
                     /\ job' = [job EXCEPT ![t] = [NoJob EXCEPT !.rec = item.rec, !.through = today]]
      BY <1>3, <2>1 DEF Examine
    <3>2. item.rec \in Recurrences /\ item.zone \in {-1, 0, 1}
      <4>1. due[t] \in SUBSET Item
        BY DEF TypeOK
      <4> QED  BY <4>1, ScheduleAssumption DEF Item
    <3>3. UNCHANGED <<row, now, held>>
      BY <1>3 DEF Examine, svars
    <3>4. CASE UNCHANGED <<at, job>>
      BY <1>1, <3>3, <3>4
    <3>5. CASE /\ at' = [at EXCEPT ![t] = "claiming"]
               /\ job' = [job EXCEPT ![t] = [NoJob EXCEPT !.rec = item.rec, !.through = now + item.zone]]
      <4>1. at'[t] = "claiming" /\ job'[t].rec = item.rec /\ job'[t].through = now + item.zone
        BY <3>5 DEF TypeOK, NoJob
      <4>2. now + item.zone <= now' + 1
        BY <3>2, <3>3 DEF TypeOK
      <4> QED  BY <3>2, <4>1, <4>2 DEF Underway
    <3> QED  BY <3>1, <3>4, <3>5
  <2>2. CASE s # t
    BY <1>1, <1>3, <2>2 DEF Examine, svars, TypeOK
  <2> QED  BY <2>1, <2>2
<1>4. ASSUME NEW s \in Schedulers, Claim(s) PROVE Underway(t)'
  <2> DEFINE c == job[s].rec
  <2>1. UNCHANGED <<row, now>> /\ c \in Recurrences /\ job[s].through <= now + 1
    BY <1>4 DEF Claim, svars, WorkIsCurrent, Underway
  <2>2. CASE Onward(s) /\ UNCHANGED held
    <3>1. CASE s = t
      BY <2>2, <3>1 DEF Onward, Underway, TypeOK
    <3>2. CASE s # t
      BY <1>1, <2>1, <2>2, <3>2 DEF Onward, TypeOK
    <3> QED  BY <3>1, <3>2
  <2>3. CASE held[c] = Free /\ Live(c) /\ Batch(row[c], job[s].through) # {} /\ Take(s, c)
    <3>1. CASE s = t
      <4>1. /\ at'[t] = "working" /\ job'[t].rec = c /\ job'[t].through = job[t].through
            /\ job'[t].row = row[c] /\ held'[c] = t
        BY <2>1, <2>3, <3>1 DEF Take, TypeOK
      <4> QED  BY <2>1, <2>3, <3>1, <4>1 DEF Underway, Live
    <3>2. CASE s # t
      <4>1. at'[t] = at[t] /\ job'[t] = job[t]
        BY <2>3, <3>2 DEF Take, TypeOK
      <4>2. at[t] = "working" => job[t].rec # c
        BY <1>0, <2>3, SweepAssumption DEF Underway
      <4>3. at[t] = "working" => held'[job[t].rec] = held[job[t].rec]
        BY <1>0, <2>3, <4>2 DEF Take, TypeOK, Underway
      <4> QED  BY <1>1, <2>1, <4>1, <4>3
    <3> QED  BY <3>1, <3>2
  <2> QED  BY <1>4, <2>2, <2>3 DEF Claim
<1>5. ASSUME NEW s \in Schedulers, Commit(s) \/ Fail(s) PROVE Underway(t)'
  <2> DEFINE c == job[s].rec
  <2>1. at[s] = "working" /\ Release(s) /\ UNCHANGED now
    BY <1>5 DEF Commit, Fail, svars
  <2>2. c \in Recurrences /\ held[c] = s
    BY <2>1 DEF WorkIsCurrent, Underway
  <2>3. CASE s = t
    <3>1. at'[t] \in {"telling", "examining"} /\ (at'[t] = "telling" => job'[t] = job[t])
      BY <1>5, <2>3 DEF Commit, Fail, Onward, TypeOK
    <3> QED  BY <2>2, <2>3, <3>1 DEF Underway
  <2>4. CASE s # t
    <3>1. at'[t] = at[t] /\ job'[t] = job[t]
      BY <1>5, <2>4 DEF Commit, Fail, Onward, TypeOK
    <3>2. at[t] = "working" => job[t].rec # c
      BY <1>0, <2>2, <2>4 DEF Underway
    <3>3. at[t] = "working" => held'[job[t].rec] = held[job[t].rec]
      BY <1>0, <2>1, <3>2 DEF Release, TypeOK, Underway
    <3>4. at[t] = "working" => row'[job[t].rec] = row[job[t].rec]
      BY <1>0, <1>5, <3>2 DEF Commit, Fail, svars, TypeOK, Underway
    <3> QED  BY <1>0, <2>1, <3>1, <3>3, <3>4 DEF Underway, Live
  <2> QED  BY <2>3, <2>4
<1>6. ASSUME NEW s \in Schedulers, Tell(s) \/ EndTick(s) PROVE Underway(t)'
  <2>1. UNCHANGED <<row, now, held>>
    BY <1>6 DEF Tell, EndTick, svars
  <2>2. CASE s = t
    BY <1>6, <2>2 DEF Tell, EndTick, Onward, Underway, TypeOK
  <2>3. CASE s # t
    BY <1>1, <1>6, <2>1, <2>3 DEF Tell, EndTick, Onward, TypeOK
  <2> QED  BY <2>2, <2>3
<1>7. ASSUME NEW s \in Schedulers, Crash(s) PROVE Underway(t)'
  <2>1. CASE s = t
    BY <1>7, <2>1 DEF Crash, Underway, TypeOK
  <2>2. CASE s # t
    <3>1. at'[t] = at[t] /\ job'[t] = job[t] /\ UNCHANGED <<row, now>>
      BY <1>7, <2>2 DEF Crash, svars, TypeOK
    <3>2. at[s] = "working" /\ at[t] = "working" => job[t].rec # job[s].rec
      BY <1>0, <2>2 DEF WorkIsCurrent, Underway
    <3>3. at[t] = "working" => held'[job[t].rec] = held[job[t].rec]
      BY <1>0, <1>7, <3>2 DEF Crash, Release, TypeOK, Underway
    <3> QED  BY <1>1, <3>1, <3>3
  <2> QED  BY <2>1, <2>2
<1>8. ASSUME NEW c \in Recurrences, Change(c) PROVE Underway(t)'
  <2>1. UNCHANGED <<at, job, held, now>>
    BY <1>8 DEF Change, NoScheduler, Create, Update, Delete
  <2>2. at[t] = "working" => job[t].rec # c
    <3>1. held[c] = Free \/ row[c].status = "none"
      BY <1>8 DEF Change, Create
    <3> QED  BY <1>0, <3>1, SweepAssumption DEF Underway, Live
  <2>3. at[t] = "working" => row'[job[t].rec] = row[job[t].rec]
    BY <1>0, <1>8, <2>2 DEF Change, Create, Update, Delete, TypeOK, Underway
  <2> QED  BY <1>0, <2>1, <2>3 DEF Underway, Live
<1>9. CASE Clock
  <2>1. UNCHANGED <<row, at, job, held>> /\ now' = now + 1
    BY <1>9 DEF Clock, Advance, NoScheduler
  <2>2. job[t].through <= now + 1 => job[t].through <= now' + 1
    BY <2>1 DEF TypeOK
  <2> QED  BY <1>0, <2>1, <2>2 DEF Underway, Live
<1>10. ASSUME NEW c \in Recurrences, NEW z \in Zones, Move(c, z) PROVE Underway(t)'
  BY <1>1, <1>10 DEF Move, SetTimezone, NoScheduler
<1>11. CASE UNCHANGED vars
  BY <1>1, <1>11 DEF vars
<1> QED
  BY <1>2, <1>3, <1>4, <1>5, <1>6, <1>7, <1>8, <1>9, <1>10, <1>11 DEF Next, Step

LEMMA TypesStep == TypeOK /\ WorkIsCurrent /\ [Next]_vars => (TypeOK /\ WorkIsCurrent)'
<1> SUFFICES ASSUME TypeOK, WorkIsCurrent, [Next]_vars PROVE (TypeOK /\ WorkIsCurrent)'
  OBVIOUS
<1>1. TypeOK'
  BY RowTypesStep, OwnTypesStep DEF TypeOK, RowTypes, OwnTypes
<1> QED  BY <1>1, WorkIsCurrentStep

(* TypeOK holds in every reachable state: rows hold whole days, a live one *)
(* a next day, and a lock has one scheduler at most (runDueRecurrences,    *)
(* proposeDueOccurrences).                                                 *)
THEOREM SweepTypeCorrect == Spec => []TypeOK
<1>1. Spec => [](TypeOK /\ WorkIsCurrent)
  BY InitTypes, TypesStep, PTL DEF Spec
<1> QED  BY <1>1, PTL

LEMMA Working == Spec => [](TypeOK /\ WorkIsCurrent)
BY InitTypes, TypesStep, PTL DEF Spec

-----------------------------------------------------------------------------
(* The sweep is Schedule: a commit is a proposal, a person's change, the   *)
(* clock and a move are themselves, and every other step is invisible.     *)

LEMMA StepIsScheduled ==
  ASSUME TypeOK, WorkIsCurrent, [Next]_vars
  PROVE  [SNext]_svars
<1>1. ASSUME NEW s \in Schedulers, Commit(s) PROVE SNext
  <2>1. Underway(s)
    BY DEF WorkIsCurrent
  <2>2. Propose(job[s].rec, job[s].through) /\ job[s].rec \in Recurrences
        /\ job[s].through \in 0 .. LastDay + 1
    <3>1. UNCHANGED <<now, zone>>
      BY <1>1 DEF Commit
    <3> QED  BY <1>1, <2>1, <3>1, CommittedRow DEF Propose
  <2> QED  BY <2>2 DEF SNext
<1>2. ASSUME NEW s \in Schedulers, Step(s) \/ Crash(s), ~Commit(s) PROVE UNCHANGED svars
  BY <1>2 DEF Step, ReadDue, Examine, Claim, Fail, Tell, EndTick, Crash
<1>3. ASSUME NEW c \in Recurrences, Change(c) PROVE SNext
  BY <1>3 DEF Change, Person, SNext
<1>4. ASSUME NEW c \in Recurrences, NEW z \in Zones, Move(c, z) PROVE SNext
  BY <1>4 DEF Move, SNext
<1>5. CASE Clock
  BY <1>5 DEF Clock, SNext
<1>6. CASE UNCHANGED vars
  BY <1>6 DEF vars, svars
<1> QED  BY <1>1, <1>2, <1>3, <1>4, <1>5, <1>6 DEF Next

(* The sweep implements Schedule: with any number of schedulers, crashes,  *)
(* failures and edits, what a recurrence and its queue go through is one   *)
(* atomic proposal after another (proposeDueOccurrences under its row lock,*)
(* updateRecurrence and deleteRecurrence waiting for it).                  *)
THEOREM SweepImplementsSchedule == Spec => KeepsThePromise
<1>1. Init => SInit
  BY DEF Init
<1>2. TypeOK /\ WorkIsCurrent /\ [Next]_vars => [SNext]_svars
  BY StepIsScheduled
<1> QED  BY <1>1, <1>2, Working, PTL DEF Spec, KeepsThePromise, SSpec

-----------------------------------------------------------------------------
(* What settling a batch adds.                                             *)

LEMMA SettledAgrees ==
  ASSUME NEW r \in Row, NEW through \in Int, Batch(r, through) # {}
  PROVE  LET after == Settled(r, through)
         IN  /\ after.status = r.status /\ after.rule = r.rule /\ after.from = r.from
             /\ after.version = r.version
             /\ r.last < after.last
             /\ after.last \in Int /\ \A d \in Batch(r, through) : d <= after.last
             /\ after.next = NextAfter(after.rule, Cursor(after))
<1> DEFINE after == Settled(r, through)
<1>1. /\ after = [r EXCEPT !.last = after.last, !.next = after.next]
      /\ after.last \in Batch(r, through) /\ \A d \in Batch(r, through) : d <= after.last
      /\ after.next = NextAfter(after.rule, Cursor(after))
  BY SettledType
<1>2. r.last <= Cursor(r) /\ Cursor(r) \in Int /\ r.last \in Int
  BY CursorType, ScheduleAssumption DEF Row
<1>3. after.last \in Int /\ Cursor(r) < after.last
  BY <1>1, BatchDays, DaysFinite
<1> HIDE DEF after
<1>4. /\ after.status = r.status /\ after.rule = r.rule /\ after.from = r.from
      /\ after.version = r.version
  BY <1>1 DEF Row
<1>5. r.last < after.last
  BY <1>2, <1>3
<1> QED  BY <1>1, <1>3, <1>4, <1>5 DEF after

(* The batch is every day owed up to the last of it: a cap leaves out only *)
(* days after those it takes.                                              *)
LEMMA BatchIsInitial ==
  ASSUME NEW r \in Row, NEW through \in Int, NEW d \in Batch(r, through),
         NEW e \in Owed(r, through), e <= d
  PROVE  e \in Batch(r, through)
<1> DEFINE before(x) == {y \in Owed(r, through) : y < x}
<1>1. Owed(r, through) \in SUBSET Days
  BY ScheduleAssumption DEF Owed, Row
<1>2. before(e) \in SUBSET before(d)
  <2>1. d \in Int /\ e \in Int /\ \A y \in Owed(r, through) : y \in Int
    BY <1>1, DaysFinite DEF Batch
  <2>2. ASSUME NEW y \in Owed(r, through), y < e PROVE y < d
    <3>1. y \in Int
      BY <2>1
    <3> QED  BY <2>1, <2>2, <3>1
  <2> QED  BY <2>2
<1>3. IsFiniteSet(before(d)) /\ IsFiniteSet(before(e))
  BY <1>1, DaysFinite
<1>4. Cardinality(before(e)) <= Cardinality(before(d)) /\ Cardinality(before(d)) \in Nat
      /\ Cardinality(before(e)) \in Nat
  <2> DEFINE B == before(d)
  <2> DEFINE A == before(e)
  <2> HIDE DEF A, B
  <2>1. A \in SUBSET B /\ IsFiniteSet(B) /\ IsFiniteSet(A)
    BY <1>2, <1>3 DEF A, B
  <2>2. Cardinality(A) <= Cardinality(B) /\ Cardinality(B) \in Nat /\ Cardinality(A) \in Nat
    BY <2>1, FS_Subset, FS_CardinalityType
  <2> QED  BY <2>2 DEF A, B
<1>5. Cardinality(before(d)) < CatchUp
  BY DEF Batch
<1>6. Cardinality(before(e)) < CatchUp
  BY <1>4, <1>5, ScheduleAssumption
<1> QED  BY <1>6 DEF Batch

-----------------------------------------------------------------------------
(* Nothing staged lies beyond the watermark.                               *)

LEMMA QueuedIsSettledStep ==
  ASSUME TypeOK, WorkIsCurrent, QueuedIsSettled, [Next]_vars
  PROVE  QueuedIsSettled'
<1>1. CASE UNCHANGED <<row, queued>>
  BY <1>1 DEF QueuedIsSettled, Live
<1>2. ASSUME NEW s \in Schedulers, Commit(s) PROVE QueuedIsSettled'
  <2> DEFINE c == job[s].rec
  <2> DEFINE through == job[s].through
  <2> DEFINE after == Settled(row[c], through)
  <2>1. /\ c \in Recurrences /\ Live(c) /\ through \in 0 .. LastDay + 1
        /\ Batch(row[c], through) # {}
        /\ row' = [row EXCEPT ![c] = after]
        /\ queued' = [queued EXCEPT ![c] = @ \cup RowsOf(row[c], through)]
    BY <1>2, CommittedRow DEF WorkIsCurrent
  <2>2. row[c] \in Row /\ through \in Int
    BY <2>1 DEF TypeOK
  <2>3. /\ after.status = "live" /\ row[c].last < after.last /\ after.last \in Int
        /\ \A d \in RowsOf(row[c], through) : d <= after.last
    BY <2>1, <2>2, SettledAgrees, BatchDays DEF Live
  <2>4. \A d \in queued[c] : d <= row[c].last /\ d \in Int
    <3>1. queued[c] \in SUBSET Days
      BY <2>1 DEF TypeOK
    <3>2. queued[c] \in SUBSET Int
      BY <3>1, DaysFinite
    <3> QED  BY <2>1, <3>2 DEF QueuedIsSettled
  <2>5. \A d \in queued[c] : d <= after.last
    BY <2>2, <2>3, <2>4 DEF Row
  <2> HIDE DEF after, c
  <2>6. row'[c] = after /\ queued'[c] = queued[c] \cup RowsOf(row[c], through)
        /\ \A x \in Recurrences \ {c} : row'[x] = row[x] /\ queued'[x] = queued[x]
    BY <2>1 DEF TypeOK
  <2> QED  BY <2>3, <2>5, <2>6 DEF QueuedIsSettled, Live
<1>3. ASSUME NEW c \in Recurrences, Change(c) PROVE QueuedIsSettled'
  <2>1. Person(c)
    BY <1>3 DEF Change, Person
  <2>2. PICK r \in Row :
                        /\ row' = [row EXCEPT ![c] = r] /\ r.status # "none"
                        /\ r.status = "live" /\ Live(c) => r.last = row[c].last
                        /\ r.status = "live" /\ ~Live(c) => row[c].status = "none"
    BY <2>1, PersonRow
  <2>3. UNCHANGED queued
    BY <2>1, PersonRow
  <2>4. row'[c] = r /\ \A x \in Recurrences \ {c} : row'[x] = row[x]
    BY <2>2 DEF TypeOK
  <2>5. r.status = "live" => \A d \in queued[c] : d <= r.last
    BY <2>2 DEF QueuedIsSettled, Live
  <2> QED  BY <2>2, <2>3, <2>4, <2>5 DEF QueuedIsSettled, Live
<1>4. ASSUME NEW s \in Schedulers, Step(s) \/ Crash(s), ~Commit(s) PROVE UNCHANGED <<row, queued>>
  BY <1>4 DEF Step, ReadDue, Examine, Claim, Fail, Tell, EndTick, Crash, svars
<1>5. ASSUME NEW c \in Recurrences, NEW z \in Zones, Move(c, z) PROVE UNCHANGED <<row, queued>>
  BY <1>5 DEF Move, SetTimezone
<1>6. CASE Clock
  BY <1>1, <1>6 DEF Clock, Advance
<1> QED  BY <1>1, <1>2, <1>3, <1>4, <1>5, <1>6 DEF Next, vars

LEMMA Queueing == Spec => [](TypeOK /\ WorkIsCurrent /\ QueuedIsSettled)
<1>1. Init => QueuedIsSettled
  BY DEF Init, SInit, QueuedIsSettled
<1>2. (TypeOK /\ WorkIsCurrent) /\ QueuedIsSettled /\ [Next]_vars => QueuedIsSettled'
  BY QueuedIsSettledStep
<1> QED  BY <1>1, <1>2, Working, PTL DEF Spec

LEMMA WorkCollidesWithNothing ==
  ASSUME TypeOK, WorkIsCurrent, QueuedIsSettled
  PROVE  NoCollision
<1> SUFFICES ASSUME NEW s \in Schedulers, at[s] = "working", Collides(s) PROVE FALSE
  BY DEF NoCollision
<1> DEFINE r == row[job[s].rec]
<1>1. job[s].rec \in Recurrences /\ Live(job[s].rec) /\ job[s].row = r
  BY DEF WorkIsCurrent, Underway
<1>2. r \in Row /\ job[s].through \in Int
  BY <1>1 DEF TypeOK
<1>3. PICK d \in RowsOf(r, job[s].through) : d \in queued[job[s].rec]
  BY <1>1 DEF Collides, Staged
<1>4. d \in Batch(r, job[s].through) /\ Cursor(r) < d /\ d \in Int
  BY <1>2, <1>3, BatchDays, DaysFinite
<1>5. d <= r.last
  BY <1>1, <1>3 DEF QueuedIsSettled
<1>6. r.last <= Cursor(r) /\ Cursor(r) \in Int /\ r.last \in Int
  BY <1>2, CursorType DEF Row
<1> QED  BY <1>4, <1>5, <1>6

(* No sweep's transaction ever meets the unique index over (recurrence,    *)
(* occurrence): the row lock and the watermark keep two schedulers, and a  *)
(* scheduler that comes back, off each other's days (insertRecurringStages).*)
THEOREM NeverCollides == Spec => []NoCollision
<1>1. TypeOK /\ WorkIsCurrent /\ QueuedIsSettled => NoCollision
  BY WorkCollidesWithNothing
<1> QED  BY <1>1, Queueing, PTL

(* The column the due list is read by agrees with the rule and the         *)
(* watermark in every reachable state (nextOccurrenceDateFor, its only     *)
(* writer).                                                                *)
THEOREM NextIsAlwaysDue == Spec => []NextIsDue
<1>1. Init => NextIsDue
  BY DEF Init, SInit, NoRow, Live, NextIsDue
<1>2. ASSUME TypeOK, WorkIsCurrent, NextIsDue, [Next]_vars PROVE NextIsDue'
  <2>1. CASE UNCHANGED row
    BY <1>2, <2>1 DEF NextIsDue, Live
  <2>2. ASSUME NEW s \in Schedulers, Commit(s) PROVE NextIsDue'
    <3> DEFINE c == job[s].rec
    <3> DEFINE after == Settled(row[c], job[s].through)
    <3>1. /\ c \in Recurrences /\ job[s].through \in 0 .. LastDay + 1
          /\ Batch(row[c], job[s].through) # {} /\ row' = [row EXCEPT ![c] = after]
      BY <1>2, <2>2, CommittedRow DEF WorkIsCurrent
    <3>2. row[c] \in Row /\ job[s].through \in Int
      BY <1>2, <3>1 DEF TypeOK
    <3>3. after.next = NextAfter(after.rule, Cursor(after))
      BY <3>1, <3>2, SettledAgrees
    <3> HIDE DEF after, c
    <3>4. row'[c] = after /\ \A x \in Recurrences \ {c} : row'[x] = row[x]
      BY <1>2, <3>1 DEF TypeOK
    <3> QED  BY <1>2, <3>3, <3>4 DEF NextIsDue, Live
  <2>3. ASSUME NEW c \in Recurrences, Change(c) PROVE NextIsDue'
    <3>1. Person(c)
      BY <2>3 DEF Change, Person
    <3>2. PICK r \in Row :
                          /\ row' = [row EXCEPT ![c] = r]
                          /\ r.status = "live" => r.next = NextAfter(r.rule, Cursor(r))
      BY <1>2, <3>1, PersonRow
    <3>3. row'[c] = r /\ \A x \in Recurrences \ {c} : row'[x] = row[x]
      BY <1>2, <3>2 DEF TypeOK
    <3> QED  BY <1>2, <3>2, <3>3 DEF NextIsDue, Live
  <2>4. ASSUME NEW s \in Schedulers, Step(s) \/ Crash(s), ~Commit(s) PROVE UNCHANGED row
    BY <2>4 DEF Step, ReadDue, Examine, Claim, Fail, Tell, EndTick, Crash, svars
  <2>5. ASSUME NEW c \in Recurrences, NEW z \in Zones, Move(c, z) PROVE UNCHANGED row
    BY <2>5 DEF Move, SetTimezone
  <2>6. CASE Clock
    BY <2>1, <2>6 DEF Clock, Advance
  <2> QED  BY <1>2, <2>1, <2>2, <2>3, <2>4, <2>5, <2>6 DEF Next, vars
<1>3. (TypeOK /\ WorkIsCurrent) /\ NextIsDue /\ [Next]_vars => NextIsDue'
  BY <1>2
<1> QED  BY <1>1, <1>3, Working, PTL DEF Spec

-----------------------------------------------------------------------------
(* Nothing is lost: a batch and the watermark move together.               *)

(* The days of a row's rule that are settled and become rows.              *)
SettledRows(r) == {d \in Occurs[r.rule] : r.from <= d /\ d <= r.last /\ Proposes(r, d)}

LEMMA SettlingAddsTheBatch ==
  ASSUME NEW r \in Row, NEW through \in Int, Batch(r, through) # {}
  PROVE  SettledRows(Settled(r, through)) = SettledRows(r) \cup RowsOf(r, through)
<1> DEFINE after == Settled(r, through)
<1>1. /\ after.rule = r.rule /\ after.from = r.from /\ r.last < after.last /\ after.last \in Int
      /\ \A d \in Batch(r, through) : d <= after.last
  BY SettledAgrees
<1>2. after.last \in Batch(r, through)
  BY SettledType
<1>3. /\ r.last <= Cursor(r) /\ r.from - 1 <= Cursor(r) /\ Cursor(r) \in {r.last, r.from - 1}
      /\ r.last \in Int /\ r.from \in Int
  BY CursorType DEF Row
<1>4. Occurs[r.rule] \in SUBSET Int
  <2>1. Occurs[r.rule] \in SUBSET Days
    BY ScheduleAssumption DEF Row
  <2> QED  BY <2>1, DaysFinite
<1>5. \A d : Proposes(after, d) <=> Proposes(r, d)
  BY <1>1 DEF Proposes
<1>6. ASSUME NEW d \in SettledRows(after), d \notin SettledRows(r) PROVE d \in RowsOf(r, through)
  <2> HIDE DEF after
  <2>1. d \in Occurs[r.rule] /\ r.from <= d /\ d <= after.last /\ Proposes(r, d) /\ d \in Int
    BY <1>1, <1>4, <1>5, <1>6 DEF SettledRows
  <2>2. ~ (d <= r.last)
    BY <1>6, <2>1 DEF SettledRows
  <2>3. Cursor(r) < d
    BY <1>3, <2>1, <2>2
  <2>4. after.last <= through
    BY <1>2, BatchDays
  <2>5. d \in Owed(r, through)
    BY <1>1, <2>1, <2>3, <2>4 DEF Owed
  <2>6. d \in Batch(r, through)
    BY <1>2, <2>1, <2>5, BatchIsInitial
  <2> QED  BY <2>1, <2>6 DEF RowsOf
<1>7. ASSUME NEW d \in SettledRows(r) PROVE d \in SettledRows(after)
  <2> HIDE DEF after
  <2>1. d \in Occurs[r.rule] /\ r.from <= d /\ d <= r.last /\ Proposes(r, d) /\ d \in Int
    BY <1>4 DEF SettledRows
  <2>2. d <= after.last
    BY <1>1, <1>3, <2>1
  <2> QED  BY <1>1, <1>5, <2>1, <2>2 DEF SettledRows
<1>8. ASSUME NEW d \in RowsOf(r, through) PROVE d \in SettledRows(after)
  <2> HIDE DEF after
  <2>1. d \in Occurs[r.rule] /\ Proposes(r, d) /\ d \in Batch(r, through) /\ Cursor(r) < d /\ d \in Int
    BY <1>4 DEF RowsOf, Batch, Owed
  <2>2. d <= after.last /\ r.from <= d
    BY <1>1, <1>3, <2>1
  <2> QED  BY <1>1, <1>5, <2>1, <2>2 DEF SettledRows
<1> HIDE DEF after
<1>9. SettledRows(after) = SettledRows(r) \cup RowsOf(r, through)
  BY <1>6, <1>7, <1>8
<1> QED  BY <1>9 DEF after

LEMMA SettledInFullStep ==
  ASSUME TypeOK, WorkIsCurrent, QueuedIsSettled, SettledInFull, [Next]_vars
  PROVE  SettledInFull'
<1>0. \A c \in Recurrences : Live(c) /\ row[c].version = 1 => queued[c] = SettledRows(row[c])
  BY DEF SettledInFull, SettledRows
<1>1. CASE UNCHANGED <<row, queued>>
  BY <1>1 DEF SettledInFull, Live
<1>2. ASSUME NEW s \in Schedulers, Commit(s) PROVE SettledInFull'
  <2> DEFINE c == job[s].rec
  <2> DEFINE through == job[s].through
  <2> DEFINE after == Settled(row[c], through)
  <2>1. /\ c \in Recurrences /\ Live(c) /\ through \in 0 .. LastDay + 1
        /\ Batch(row[c], through) # {}
        /\ row' = [row EXCEPT ![c] = after]
        /\ queued' = [queued EXCEPT ![c] = @ \cup RowsOf(row[c], through)]
    BY <1>2, CommittedRow DEF WorkIsCurrent
  <2>2. row[c] \in Row /\ through \in Int
    BY <2>1 DEF TypeOK
  <2>3. after.version = row[c].version
        /\ SettledRows(after) = SettledRows(row[c]) \cup RowsOf(row[c], through)
    BY <2>1, <2>2, SettledAgrees, SettlingAddsTheBatch
  <2> HIDE DEF after, c, through
  <2>4. row'[c] = after /\ queued'[c] = queued[c] \cup RowsOf(row[c], through)
        /\ \A x \in Recurrences \ {c} : row'[x] = row[x] /\ queued'[x] = queued[x]
    BY <2>1 DEF TypeOK
  <2>5. ASSUME NEW x \in Recurrences, row'[x].status = "live", row'[x].version = 1
        PROVE  queued'[x] = SettledRows(row'[x])
    BY <1>0, <2>1, <2>3, <2>4, <2>5 DEF Live
  <2> QED  BY <2>5 DEF SettledInFull, SettledRows, Live, Proposes
<1>3. ASSUME NEW c \in Recurrences, Change(c) PROVE SettledInFull'
  <2>1. Person(c)
    BY <1>3 DEF Change, Person
  <2>2. PICK r \in Row :
          /\ row' = [row EXCEPT ![c] = r]
          /\ r.status = "live" /\ Live(c) => r.version > 1
          /\ r.status = "live" /\ ~Live(c) => row[c].status = "none" /\ r.last < r.from
    BY <2>1, PersonRow
  <2>3. UNCHANGED queued
    BY <2>1, PersonRow
  <2>4. row'[c] = r /\ \A x \in Recurrences \ {c} : row'[x] = row[x]
    BY <2>2 DEF TypeOK
  <2>5. r.status = "live" /\ r.version = 1 => queued[c] = SettledRows(r)
    <3> SUFFICES ASSUME r.status = "live", r.version = 1 PROVE queued[c] = SettledRows(r)
      OBVIOUS
    <3>1. row[c].status = "none" /\ r.last < r.from
      BY <2>2
    <3>2. queued[c] = {}
      BY <3>1 DEF QueuedIsSettled
    <3>3. Occurs[r.rule] \in SUBSET Int
      <4>1. Occurs[r.rule] \in SUBSET Days
        BY ScheduleAssumption DEF Row
      <4> QED  BY <4>1, DaysFinite
    <3>4. r.last \in Int /\ r.from \in Int
      BY DEF Row
    <3>5. \A d \in Occurs[r.rule] : ~ (r.from <= d /\ d <= r.last)
      BY <3>1, <3>3, <3>4
    <3> QED  BY <3>2, <3>5 DEF SettledRows
  <2>6. ASSUME NEW x \in Recurrences, row'[x].status = "live", row'[x].version = 1
        PROVE  queued'[x] = SettledRows(row'[x])
    BY <1>0, <2>3, <2>4, <2>5, <2>6 DEF Live
  <2> QED  BY <2>6 DEF SettledInFull, SettledRows, Live, Proposes
<1>4. ASSUME NEW s \in Schedulers, Step(s) \/ Crash(s), ~Commit(s) PROVE UNCHANGED <<row, queued>>
  BY <1>4 DEF Step, ReadDue, Examine, Claim, Fail, Tell, EndTick, Crash, svars
<1>5. ASSUME NEW c \in Recurrences, NEW z \in Zones, Move(c, z) PROVE UNCHANGED <<row, queued>>
  BY <1>5 DEF Move, SetTimezone
<1>6. CASE Clock
  BY <1>1, <1>6 DEF Clock, Advance
<1> QED  BY <1>1, <1>2, <1>3, <1>4, <1>5, <1>6 DEF Next, vars

(* Of a rule nobody has changed, every day up to the watermark was staged  *)
(* but those a policy passes over, and no other, whatever failed on the    *)
(* way (proposeDueOccurrences writes rows and watermark together).         *)
THEOREM NoDayIsLost == Spec => []SettledInFull
<1>1. Init => SettledInFull
  BY DEF Init, SInit, NoRow, Live, SettledInFull
<1>2. (TypeOK /\ WorkIsCurrent /\ QueuedIsSettled) /\ SettledInFull /\ [Next]_vars => SettledInFull'
  BY SettledInFullStep
<1> QED  BY <1>1, <1>2, Queueing, PTL DEF Spec

-----------------------------------------------------------------------------
(* Nobody is told twice.                                                   *)

LEMMA ToldStep ==
  ASSUME TypeOK, WorkIsCurrent, Untold, ToldOnce, [Next]_vars
  PROVE  Untold' /\ ToldOnce'
<1>1. ASSUME UNCHANGED <<queued, told>>,
             \A t \in Schedulers : at'[t] = "telling" => at[t] = "telling" /\ job'[t] = job[t]
      PROVE  Untold' /\ ToldOnce'
  <2>1. ToldOnce'
    BY <1>1 DEF ToldOnce
  <2>2. Untold'
    BY <1>1 DEF Untold, Staged
  <2> QED  BY <2>1, <2>2
<1>2. ASSUME NEW s \in Schedulers, Commit(s) PROVE Untold' /\ ToldOnce'
  <2> DEFINE c == job[s].rec
  <2>1. c \in Recurrences /\ Staged(s) \cap queued[c] = {} /\ UNCHANGED told
        /\ queued' = [queued EXCEPT ![c] = @ \cup Staged(s)]
    <3>1. Underway(s) /\ at[s] = "working"
      BY <1>2 DEF WorkIsCurrent, Commit
    <3> QED  BY <1>2, <3>1 DEF Commit, Collides, Underway
  <2>2. \A x \in Recurrences : queued[x] \subseteq queued'[x]
    BY <2>1 DEF TypeOK
  <2>3. Staged(s) \subseteq queued'[c]
    BY <2>1 DEF TypeOK
  <2>4. \A d \in Staged(s) : d \in Days => told[c][d] = 0
    <3> SUFFICES ASSUME NEW d \in Staged(s), d \in Days PROVE told[c][d] = 0
      OBVIOUS
    <3>1. d \notin queued[c]
      BY <2>1
    <3>2. told[c][d] \in Nat
      BY <2>1 DEF TypeOK
    <3>3. told[c][d] <= 1 /\ told[c][d] # 1
      BY <2>1, <3>1 DEF ToldOnce
    <3> QED  BY <3>2, <3>3
  <2>5. Staged(s) \subseteq Days
    <3>1. job[s].row \in Row /\ job[s].through \in Int
      BY DEF TypeOK
    <3> QED  BY <3>1, BatchDays DEF Staged
  <2>6. ASSUME NEW t \in Schedulers, t # s
        PROVE  at'[t] = at[t] /\ job'[t] = job[t]
    BY <1>2, <2>6 DEF Commit, Onward, TypeOK
  <2>7. at'[s] = "telling" => job'[s] = job[s]
    BY <1>2 DEF Commit, Onward, TypeOK
  <2>8. ToldOnce'
    BY <2>1, <2>2 DEF ToldOnce
  <2>9. ASSUME NEW t \in Schedulers, at'[t] = "telling"
        PROVE  /\ Staged(t)' = Staged(t) /\ job'[t].rec = job[t].rec /\ job[t].rec \in Recurrences
               /\ Staged(t) \subseteq queued'[job[t].rec]
               /\ \A d \in Staged(t) : told[job[t].rec][d] = 0
    <3>1. CASE t = s
      BY <2>1, <2>3, <2>4, <2>5, <2>7, <2>9, <3>1 DEF Staged
    <3>2. CASE t # s
      <4>1. at[t] = "telling" /\ job'[t] = job[t]
        BY <2>6, <2>9, <3>2
      <4>2. job[t].rec \in Recurrences
        BY <4>1 DEF WorkIsCurrent, Underway
      <4>3. Staged(t)' = Staged(t)
        BY <4>1 DEF Staged
      <4> QED  BY <2>2, <4>1, <4>2, <4>3 DEF Untold
    <3> QED  BY <3>1, <3>2
  <2>10. ASSUME NEW t \in Schedulers, NEW u \in Schedulers \ {t}, at'[t] = "telling", at'[u] = "telling",
                job[t].rec = job[u].rec
         PROVE  Staged(t) \cap Staged(u) = {}
    <3>1. CASE t = s
      <4>1. Staged(u) \subseteq queued[c]
        BY <2>6, <2>10, <3>1 DEF Untold
      <4> QED  BY <2>1, <3>1, <4>1
    <3>2. CASE u = s
      <4>1. Staged(t) \subseteq queued[c]
        BY <2>6, <2>10, <3>2 DEF Untold
      <4> QED  BY <2>1, <3>2, <4>1
    <3>3. CASE t # s /\ u # s
      <4>1. at[t] = "telling" /\ at[u] = "telling"
        BY <2>6, <2>10, <3>3
      <4> QED  BY <2>10, <4>1 DEF Untold
    <3> QED  BY <3>1, <3>2, <3>3
  <2>11. Untold'
    BY <2>1, <2>9, <2>10 DEF Untold
  <2> QED  BY <2>8, <2>11
<1>3. ASSUME NEW s \in Schedulers, Tell(s) PROVE Untold' /\ ToldOnce'
  <2> DEFINE c == job[s].rec
  <2>1. at[s] = "telling" /\ c \in Recurrences /\ UNCHANGED queued
    BY <1>3 DEF Tell, WorkIsCurrent, Underway, svars
  <2>2. \A t \in Schedulers : at'[t] = "telling" => t # s /\ at[t] = "telling" /\ job'[t] = job[t]
    BY <1>3 DEF Tell, Onward, TypeOK
  <2>3. CASE UNCHANGED told
    BY <1>1, <2>1, <2>2, <2>3
  <2>4. CASE told' = [told EXCEPT ![c] = [d \in Days |-> IF d \in Staged(s) THEN @[d] + 1 ELSE @[d]]]
    <3>1. \A x \in Recurrences, d \in Days :
            told'[x][d] = IF x = c /\ d \in Staged(s) THEN told[x][d] + 1 ELSE told[x][d]
      BY <2>1, <2>4 DEF TypeOK
    <3>2. Staged(s) \subseteq queued[c] /\ \A d \in Staged(s) : told[c][d] = 0
      BY <2>1 DEF Untold
    <3>3. ToldOnce'
      BY <2>1, <3>1, <3>2 DEF ToldOnce
    <3>4. ASSUME NEW t \in Schedulers, at'[t] = "telling"
          PROVE  /\ Staged(t)' = Staged(t) /\ job'[t].rec = job[t].rec
                 /\ Staged(t) \subseteq queued[job[t].rec]
                 /\ \A d \in Staged(t) : told'[job[t].rec][d] = 0
      <4>1. t # s /\ at[t] = "telling" /\ job'[t] = job[t]
        BY <2>2, <3>4
      <4>2. Staged(t)' = Staged(t)
        BY <4>1 DEF Staged
      <4>3. job[t].rec \in Recurrences
        BY <4>1 DEF WorkIsCurrent, Underway
      <4>4. job[t].rec = c => Staged(t) \cap Staged(s) = {}
        BY <2>1, <4>1 DEF Untold
      <4>5. Staged(t) \subseteq queued[job[t].rec] /\ \A d \in Staged(t) : told[job[t].rec][d] = 0
        BY <4>1 DEF Untold
      <4>6. Staged(t) \subseteq Days
        BY <4>3, <4>5 DEF TypeOK
      <4>7. \A d \in Staged(t) : told'[job[t].rec][d] = 0
        BY <3>1, <4>3, <4>4, <4>5, <4>6
      <4> QED  BY <4>1, <4>2, <4>5, <4>7
    <3>5. ASSUME NEW t \in Schedulers, NEW u \in Schedulers \ {t}, at'[t] = "telling", at'[u] = "telling",
                 job[t].rec = job[u].rec
          PROVE  Staged(t) \cap Staged(u) = {}
      BY <2>2, <3>5 DEF Untold
    <3>6. Untold'
      BY <2>1, <3>4, <3>5 DEF Untold
    <3> QED  BY <3>3, <3>6
  <2> QED  BY <1>3, <2>3, <2>4 DEF Tell
<1>4. ASSUME NEW s \in Schedulers, ReadDue(s) \/ Examine(s) \/ Claim(s) \/ Fail(s) \/ EndTick(s) \/ Crash(s)
      PROVE  Untold' /\ ToldOnce'
  <2>1. UNCHANGED <<queued, told>>
    BY <1>4 DEF ReadDue, Examine, Claim, Fail, EndTick, Crash, svars
  <2>2. \A t \in Schedulers \ {s} : at'[t] = at[t] /\ job'[t] = job[t]
    BY <1>4 DEF ReadDue, Examine, Claim, Take, Fail, EndTick, Crash, Onward, TypeOK
  <2>3. at'[s] # "telling"
    BY <1>4 DEF ReadDue, Examine, Claim, Take, Fail, EndTick, Crash, Onward, TypeOK
  <2> QED  BY <1>1, <2>1, <2>2, <2>3
<1>5. ASSUME NEW c \in Recurrences, Change(c) PROVE Untold' /\ ToldOnce'
  BY <1>1, <1>5 DEF Change, Create, Update, Delete, NoScheduler
<1>6. ASSUME NEW c \in Recurrences, NEW z \in Zones, Move(c, z) PROVE Untold' /\ ToldOnce'
  BY <1>1, <1>6 DEF Move, SetTimezone, NoScheduler
<1>7. CASE Clock \/ UNCHANGED vars
  BY <1>1, <1>7 DEF Clock, Advance, NoScheduler, vars
<1> QED  BY <1>2, <1>3, <1>4, <1>5, <1>6, <1>7 DEF Next, Step

(* Nobody is written to about a day that is not staged, or twice about one *)
(* (runDueRecurrences tells what it collected, after the commit).          *)
THEOREM NobodyIsToldTwice == Spec => []ToldOnce
<1>1. Init => Untold /\ ToldOnce
  BY DEF Init, Untold, ToldOnce
<1>2. (TypeOK /\ WorkIsCurrent) /\ (Untold /\ ToldOnce) /\ [Next]_vars => (Untold /\ ToldOnce)'
  BY ToldStep
<1> QED  BY <1>1, <1>2, Working, PTL DEF Spec

-----------------------------------------------------------------------------
(* The calendar.  Months follow one another without a gap, ...              *)

LEMMA Twelve ==
  ASSUME NEW q \in Int, NEW r \in 0 .. 11
  PROVE  (12 * q + r) \div 12 = q /\ (12 * q + r) % 12 = r
OBVIOUS

LEMMA MonthParts ==
  ASSUME NEW m \in Nat
  PROVE  m % 12 \in 0 .. 11 /\ m \div 12 \in Nat /\ m = 12 * (m \div 12) + (m % 12)
<1>1. m % 12 \in 0 .. 11
  OBVIOUS
<1>2. m \div 12 \in Nat
  OBVIOUS
<1>3. m = 12 * (m \div 12) + (m % 12)
  OBVIOUS
<1> QED  BY <1>1, <1>2, <1>3

LEMMA NextMonth ==
  ASSUME NEW m \in Nat
  PROVE  /\ m % 12 < 11 => (m + 1) % 12 = (m % 12) + 1 /\ (m + 1) \div 12 = m \div 12
         /\ m % 12 = 11 => (m + 1) % 12 = 0 /\ (m + 1) \div 12 = m \div 12 + 1
<1> DEFINE q == m \div 12
<1> DEFINE r == m % 12
<1>1. r \in 0 .. 11 /\ q \in Nat /\ m = 12 * q + r
  BY MonthParts
<1> HIDE DEF q, r
<1>2. CASE r < 11
  <2>1. r + 1 \in 0 .. 11 /\ m + 1 = 12 * q + (r + 1) /\ q \in Int
    BY <1>1, <1>2
  <2>2. (m + 1) \div 12 = q /\ (m + 1) % 12 = r + 1
    BY <2>1, Twelve
  <2> QED  BY <1>2, <2>2 DEF q, r
<1>3. CASE r = 11
  <2>1. 0 \in 0 .. 11 /\ m + 1 = 12 * (q + 1) + 0 /\ q + 1 \in Int
    BY <1>1, <1>3
  <2>2. (m + 1) \div 12 = q + 1 /\ (m + 1) % 12 = 0
    BY <2>1, Twelve
  <2> QED  BY <1>3, <2>2 DEF q, r
<1> QED  BY <1>1, <1>2, <1>3 DEF r

LEMMA LeapStep ==
  ASSUME NEW y \in Nat \ {0}
  PROVE  LeapDaysTo(y) = LeapDaysTo(y - 1) + (IF LeapYear(y) THEN 1 ELSE 0)
         /\ LeapDaysTo(y) \in Int /\ LeapDaysTo(y - 1) \in Int
BY DEF LeapDaysTo, LeapYear

LEMMA MonthsFollow ==
  ASSUME NEW m \in Nat
  PROVE  /\ FirstOfMonth(m) \in Int
         /\ DaysInMonth(m) \in 28 .. 31
         /\ FirstOfMonth(m + 1) = FirstOfMonth(m) + DaysInMonth(m)
<1> DEFINE y == BaseYear + m \div 12
<1>1. /\ m % 12 \in 0 .. 11 /\ m \div 12 \in Nat
      /\ m % 12 < 11 => (m + 1) % 12 = (m % 12) + 1 /\ (m + 1) \div 12 = m \div 12
      /\ m % 12 = 11 => (m + 1) % 12 = 0 /\ (m + 1) \div 12 = m \div 12 + 1
  BY MonthParts, NextMonth
<1>2. y \in Nat \ {0} /\ BaseYear \in Nat \ {0}
  BY <1>1, CalendarAssumption
<1>3. /\ LeapDaysTo(y) = LeapDaysTo(y - 1) + (IF LeapYear(y) THEN 1 ELSE 0)
      /\ LeapDaysTo(y) \in Int /\ LeapDaysTo(y - 1) \in Int /\ LeapDaysTo(BaseYear - 1) \in Int
  BY <1>2, LeapStep
<1>4. /\ DaysBefore[1] = 0 /\ DaysBefore[2] = 31 /\ DaysBefore[3] = 59 /\ DaysBefore[4] = 90
      /\ DaysBefore[5] = 120 /\ DaysBefore[6] = 151 /\ DaysBefore[7] = 181 /\ DaysBefore[8] = 212
      /\ DaysBefore[9] = 243 /\ DaysBefore[10] = 273 /\ DaysBefore[11] = 304 /\ DaysBefore[12] = 334
  BY DEF DaysBefore
<1> DEFINE leap == IF LeapYear(y) THEN 1 ELSE 0
<1> DEFINE base == 365 * (m \div 12) + LeapDaysTo(y - 1) - LeapDaysTo(BaseYear - 1)
<1>5. base \in Int /\ leap \in {0, 1}
  BY <1>1, <1>3
<1>6. FirstOfMonth(m) = 1 + base + DaysBefore[(m % 12) + 1] + (IF m % 12 > 1 THEN leap ELSE 0)
  <2>1. \A k \in Int : 1 + 365 * (m \div 12) + k + (LeapDaysTo(y - 1) - LeapDaysTo(BaseYear - 1) + (IF LeapYear(y) /\ m % 12 > 1 THEN 1 ELSE 0))
                       = 1 + base + k + (IF m % 12 > 1 THEN leap ELSE 0)
    BY <1>1, <1>3
  <2>2. DaysBefore[(m % 12) + 1] \in Int
    BY <1>1, <1>4
  <2> QED  BY <2>1, <2>2 DEF FirstOfMonth
<1>7. DaysInMonth(m) = IF m % 12 = 1 THEN 28 + leap
                       ELSE IF m % 12 \in {3, 5, 8, 10} THEN 30 ELSE 31
  BY <1>1 DEF DaysInMonth
<1>8. CASE m % 12 < 11
  <2>1. FirstOfMonth(m + 1) =
          1 + base + DaysBefore[(m % 12) + 2] + (IF m % 12 > 0 THEN leap ELSE 0)
    <3>1. \A k \in Int : 1 + 365 * (m \div 12) + k + (LeapDaysTo(y - 1) - LeapDaysTo(BaseYear - 1) + (IF LeapYear(y) /\ m % 12 > 0 THEN 1 ELSE 0))
                         = 1 + base + k + (IF m % 12 > 0 THEN leap ELSE 0)
      BY <1>1, <1>3
    <3>2. DaysBefore[(m % 12) + 2] \in Int
      BY <1>1, <1>4, <1>8
    <3>3. ((m % 12) + 1) + 1 = (m % 12) + 2 /\ ((m % 12) + 1 > 1 <=> m % 12 > 0)
      BY <1>1
    <3> QED  BY <1>1, <1>8, <3>1, <3>2, <3>3 DEF FirstOfMonth
  <2> HIDE DEF base, leap
  <2> QED  BY <1>1, <1>4, <1>5, <1>6, <1>7, <1>8, <2>1
<1>9. CASE m % 12 = 11
  <2>1. FirstOfMonth(m + 1) = 1 + base + 365 + leap
    BY <1>1, <1>2, <1>3, <1>4, <1>9 DEF FirstOfMonth
  <2> HIDE DEF base, leap
  <2> QED  BY <1>1, <1>4, <1>5, <1>6, <1>7, <1>9, <2>1
<1> QED  BY <1>1, <1>8, <1>9

-----------------------------------------------------------------------------
(* ... so every day is in one of them, and later days in later ones.       *)

LEMMA Times ==
  ASSUME NEW i \in Nat, NEW n \in Int, NEW k \in Int, n < k
  PROVE  n * i \in Int /\ k * i \in Int /\ n * i + i <= k * i
<1> DEFINE j == k - n - 1
<1>1. j \in Nat /\ k = n + 1 + j
  OBVIOUS
<1>2. n * i \in Int /\ j * i \in Nat
  BY <1>1
<1>3. (n + 1 + j) * i = n * i + i + j * i
  BY <1>1
<1> HIDE DEF j
<1> QED  BY <1>1, <1>2, <1>3

LEMMA FirstMonth == FirstOfMonth(0) = 1
<1>1. 0 \div 12 = 0 /\ 0 % 12 = 0
  OBVIOUS
<1>2. DaysBefore[1] = 0
  BY DEF DaysBefore
<1>3. BaseYear \in Nat \ {0}
  BY CalendarAssumption
<1>4. LeapDaysTo(BaseYear - 1) \in Int
  BY <1>3, LeapStep
<1> QED  BY <1>1, <1>2, <1>3, <1>4 DEF FirstOfMonth

LEMMA MonthsApart ==
  ASSUME NEW m \in Nat, NEW d \in Nat
  PROVE  /\ FirstOfMonth(m + d) \in Int /\ FirstOfMonth(m) \in Int
         /\ FirstOfMonth(m) + 28 * d <= FirstOfMonth(m + d)
         /\ FirstOfMonth(m + d) <= FirstOfMonth(m) + 31 * d
<1> DEFINE Within(x) == /\ FirstOfMonth(m) + 28 * x <= FirstOfMonth(m + x)
                        /\ FirstOfMonth(m + x) <= FirstOfMonth(m) + 31 * x
<1> DEFINE Bad == {x \in Nat : ~ Within(x)}
<1>1. \A x \in Nat : FirstOfMonth(m + x) \in Int
  BY MonthsFollow
<1>2. FirstOfMonth(m) \in Int
  BY MonthsFollow
<1>3. SUFFICES ASSUME Bad # {} PROVE FALSE
  BY <1>1, <1>2
<1>4. PICK x \in Bad : \A y \in Bad : x <= y
  <2>1. Bad \subseteq Nat
    OBVIOUS
  <2> HIDE DEF Bad
  <2> QED  BY <1>3, <2>1, LeastNatural
<1>5. x # 0
  BY <1>2, <1>4
<1>6. x - 1 \in Nat /\ Within(x - 1)
  BY <1>4, <1>5
<1>7. FirstOfMonth(m + x) = FirstOfMonth(m + (x - 1)) + DaysInMonth(m + (x - 1))
  <2>1. m + (x - 1) \in Nat /\ (m + (x - 1)) + 1 = m + x
    BY <1>6, <1>4
  <2> QED  BY <2>1, MonthsFollow
<1>8. DaysInMonth(m + (x - 1)) \in 28 .. 31
  BY <1>6, MonthsFollow
<1>9. Within(x)
  BY <1>1, <1>2, <1>4, <1>6, <1>7, <1>8
<1> QED  BY <1>4, <1>9

LEMMA LaterMonth ==
  ASSUME NEW m \in Nat, NEW k \in Nat, m < k
  PROVE  FirstOfMonth(m + 1) <= FirstOfMonth(k)
<1> DEFINE d == k - (m + 1)
<1>1. m + 1 \in Nat /\ d \in Nat /\ (m + 1) + d = k
  OBVIOUS
<1> HIDE DEF d
<1>2. /\ FirstOfMonth(m + 1) + 28 * d <= FirstOfMonth((m + 1) + d)
      /\ FirstOfMonth(m + 1) \in Int /\ FirstOfMonth((m + 1) + d) \in Int
  BY <1>1, MonthsApart
<1>3. FirstOfMonth((m + 1) + d) = FirstOfMonth(k)
  BY ONLY <1>1
<1> QED  BY <1>1, <1>2, <1>3

LEMMA MonthIsOne ==
  ASSUME NEW m \in Nat, NEW k \in Nat, NEW day \in Int,
         FirstOfMonth(m) <= day, day < FirstOfMonth(m + 1),
         FirstOfMonth(k) <= day, day < FirstOfMonth(k + 1)
  PROVE  m = k
<1>1. FirstOfMonth(m) \in Int /\ FirstOfMonth(m + 1) \in Int
      /\ FirstOfMonth(k) \in Int /\ FirstOfMonth(k + 1) \in Int
  BY MonthsFollow
<1>2. ~ m < k
  BY <1>1, LaterMonth
<1>3. ~ k < m
  BY <1>1, LaterMonth
<1> QED  BY <1>2, <1>3

LEMMA MonthExists ==
  ASSUME NEW day \in Nat \ {0}
  PROVE  \E m \in (day - 1) \div 31 .. day \div 28 :
           FirstOfMonth(m) <= day /\ day < FirstOfMonth(m + 1)
<1> DEFINE Beginning == {m \in Nat : day < FirstOfMonth(m)}
<1>1. Beginning # {}
  <2>1. FirstOfMonth(0) + 28 * day <= FirstOfMonth(0 + day) /\ FirstOfMonth(0 + day) \in Int
    BY MonthsApart
  <2>2. day \in Beginning
    BY <2>1, FirstMonth
  <2> QED  BY <2>2
<1>2. PICK x \in Beginning : \A y \in Beginning : x <= y
  <2>1. Beginning \subseteq Nat
    OBVIOUS
  <2> HIDE DEF Beginning
  <2> QED  BY <1>1, <2>1, LeastNatural
<1>3. x # 0
  BY <1>2, FirstMonth
<1> DEFINE m == x - 1
<1>4. m \in Nat /\ m + 1 = x /\ m \notin Beginning
  BY <1>2, <1>3
<1>5. FirstOfMonth(m) \in Int /\ FirstOfMonth(m + 1) \in Int
  BY <1>4, MonthsFollow
<1>6. FirstOfMonth(m) <= day /\ day < FirstOfMonth(m + 1)
  <2> HIDE DEF m
  <2> QED  BY <1>2, <1>4, <1>5
<1>7. 1 + 28 * m <= FirstOfMonth(m) /\ FirstOfMonth(m + 1) <= 1 + 31 * (m + 1)
  <2> HIDE DEF m
  <2>1. 0 + m = m /\ 0 + (m + 1) = m + 1 /\ m + 1 \in Nat
    BY <1>4
  <2> QED  BY <1>4, <2>1, MonthsApart, FirstMonth
<1>8. 28 * m <= day /\ day - 1 < 31 * (m + 1)
  <2> HIDE DEF m
  <2> QED  BY <1>4, <1>5, <1>6, <1>7
<1> HIDE DEF m
<1>9. m \in (day - 1) \div 31 .. day \div 28
  BY <1>4, <1>8
<1> QED  BY <1>6, <1>9

LEMMA MonthOfDay ==
  ASSUME NEW day \in Nat \ {0}
  PROVE  /\ MonthOf(day) \in Nat
         /\ FirstOfMonth(MonthOf(day)) <= day
         /\ day < FirstOfMonth(MonthOf(day) + 1)
<1>1. /\ MonthOf(day) \in (day - 1) \div 31 .. day \div 28
      /\ FirstOfMonth(MonthOf(day)) <= day
      /\ day < FirstOfMonth(MonthOf(day) + 1)
  BY MonthExists DEF MonthOf
<1> QED  BY <1>1

LEMMA InItsMonth ==
  ASSUME NEW m \in Nat, NEW day \in Int, FirstOfMonth(m) <= day, day < FirstOfMonth(m + 1)
  PROVE  day \in Nat \ {0} /\ MonthOf(day) = m
<1>1. FirstOfMonth(m) \in Int /\ 1 + 28 * m <= FirstOfMonth(m)
  <2>1. 0 + m = m
    OBVIOUS
  <2> QED  BY <2>1, MonthsApart, FirstMonth
<1>2. day \in Nat \ {0}
  BY <1>1
<1> QED  BY <1>2, MonthOfDay, MonthIsOne

LEMMA MonthsInOrder ==
  ASSUME NEW a \in Nat \ {0}, NEW b \in Nat \ {0}
  PROVE  /\ a <= b => MonthOf(a) <= MonthOf(b)
         /\ MonthOf(a) < MonthOf(b) => a < b
<1>1. MonthOf(a) \in Nat /\ FirstOfMonth(MonthOf(a)) <= a /\ a < FirstOfMonth(MonthOf(a) + 1)
  BY MonthOfDay
<1>2. MonthOf(b) \in Nat /\ FirstOfMonth(MonthOf(b)) <= b /\ b < FirstOfMonth(MonthOf(b) + 1)
  BY MonthOfDay
<1>3. FirstOfMonth(MonthOf(a)) \in Int /\ FirstOfMonth(MonthOf(a) + 1) \in Int
      /\ FirstOfMonth(MonthOf(b)) \in Int /\ FirstOfMonth(MonthOf(b) + 1) \in Int
  BY <1>1, <1>2, MonthsFollow
<1>4. ASSUME MonthOf(a) < MonthOf(b) PROVE a < b
  BY <1>1, <1>2, <1>3, <1>4, LaterMonth
<1>5. ASSUME a <= b PROVE MonthOf(a) <= MonthOf(b)
  <2>1. ~ MonthOf(b) < MonthOf(a)
    BY <1>1, <1>2, <1>3, <1>5, LaterMonth
  <2> QED  BY <2>1, <1>1, <1>2
<1> QED  BY <1>4, <1>5

-----------------------------------------------------------------------------
(* The days of the week, and what a rule names in a month.                 *)

LEMMA Weekdays ==
  ASSUME NEW a \in Int, NEW b \in Int
  PROVE  /\ WeekdayOf(a) \in 0 .. 6
         /\ (WeekdayOf(a) = WeekdayOf(b) <=> (a - b) % 7 = 0)
BY CalendarAssumption DEF WeekdayOf

(* The day of the week w within a week that starts, or ends, on this day.  *)
LEMMA WeekdayFrom ==
  ASSUME NEW first \in Int, NEW w \in 0 .. 6
  PROVE  LET d == (w - WeekdayOf(first)) % 7
         IN  d \in 0 .. 6 /\ WeekdayOf(first + d) = w
BY CalendarAssumption DEF WeekdayOf

LEMMA WeekdayTo ==
  ASSUME NEW last \in Int, NEW w \in 0 .. 6
  PROVE  LET d == (WeekdayOf(last) - w) % 7
         IN  d \in 0 .. 6 /\ WeekdayOf(last - d) = w
BY CalendarAssumption DEF WeekdayOf

LEMMA SameWeek ==
  ASSUME NEW a \in Int, NEW b \in Int, WeekdayOf(a) = WeekdayOf(b), a - b < 7, b - a < 7
  PROVE  a = b
BY Weekdays

LEMMA PositionFromStart ==
  ASSUME NEW m \in Nat, NEW position \in Positions, position[1] # -1
  PROVE  LET x == WeekdayOfMonth(m, position)
         IN  /\ x \in Int /\ FirstOfMonth(m) <= x /\ x < FirstOfMonth(m + 1)
             /\ WeekdayOf(x) = position[2]
             /\ (x - FirstOfMonth(m)) \div 7 + 1 = position[1]
             /\ \A y \in Int : /\ WeekdayOf(y) = position[2]
                               /\ (y - FirstOfMonth(m)) \div 7 + 1 = position[1]
                               => y = x
<1> DEFINE first == FirstOfMonth(m)
<1> DEFINE ordinal == position[1]
<1> DEFINE w == position[2]
<1> DEFINE d == (w - WeekdayOf(first)) % 7
<1> DEFINE x == first + d + (ordinal - 1) * 7
<1>1. ordinal \in 1 .. 4 /\ w \in 0 .. 6
  BY DEF Positions
<1>2. first \in Int /\ FirstOfMonth(m + 1) \in Int /\ first + 28 <= FirstOfMonth(m + 1)
  BY MonthsFollow
<1>3. WeekdayOfMonth(m, position) = x
  BY <1>1 DEF WeekdayOfMonth
<1>4. d \in 0 .. 6 /\ WeekdayOf(first + d) = w
  BY <1>1, <1>2, WeekdayFrom
<1> HIDE DEF d, first, ordinal, w
<1>5. x \in Int /\ first <= x /\ x < FirstOfMonth(m + 1)
  BY <1>1, <1>2, <1>4
<1>6. WeekdayOf(x) = w
  <2>1. (x - (first + d)) % 7 = 0 /\ first + d \in Int
    BY <1>1, <1>2, <1>4
  <2> QED  BY <1>4, <1>5, <2>1, Weekdays
<1>7. (x - first) \div 7 + 1 = ordinal
  BY <1>1, <1>2, <1>4
<1>8. ASSUME NEW y \in Int, WeekdayOf(y) = w, (y - first) \div 7 + 1 = ordinal
      PROVE  y = x
  <2>1. (x - first) \div 7 = (y - first) \div 7
    BY <1>1, <1>2, <1>5, <1>7, <1>8
  <2>2. x - y < 7 /\ y - x < 7
    <3> HIDE DEF x
    <3> QED  BY <1>2, <1>5, <1>8, <2>1
  <2> HIDE DEF x
  <2> QED  BY <1>5, <1>6, <1>8, <2>2, SameWeek
<1> HIDE DEF x
<1> QED  BY <1>3, <1>5, <1>6, <1>7, <1>8 DEF first, ordinal, w

LEMMA PositionFromEnd ==
  ASSUME NEW m \in Nat, NEW position \in Positions, position[1] = -1
  PROVE  LET x == WeekdayOfMonth(m, position)
             after == FirstOfMonth(m + 1)
         IN  /\ x \in Int /\ FirstOfMonth(m) <= x /\ x < after
             /\ WeekdayOf(x) = position[2]
             /\ after - 1 - x < 7
             /\ \A y \in Int : /\ WeekdayOf(y) = position[2]
                               /\ y < after /\ after - 1 - y < 7
                               => y = x
<1> DEFINE last == FirstOfMonth(m + 1) - 1
<1> DEFINE w == position[2]
<1> DEFINE d == (WeekdayOf(last) - w) % 7
<1> DEFINE x == last - d
<1>1. w \in 0 .. 6
  BY DEF Positions
<1>2. last \in Int /\ FirstOfMonth(m) \in Int /\ FirstOfMonth(m) + 27 <= last
  BY MonthsFollow
<1>3. WeekdayOfMonth(m, position) = x
  BY DEF WeekdayOfMonth
<1>4. d \in 0 .. 6 /\ WeekdayOf(x) = w
  BY <1>1, <1>2, WeekdayTo
<1>5. FirstOfMonth(m + 1) = last + 1
  <2>1. FirstOfMonth(m + 1) \in Int
    BY MonthsFollow
  <2> QED  BY <2>1
<1> HIDE DEF d, last, w
<1>6. x \in Int /\ FirstOfMonth(m) <= x /\ x < last + 1 /\ last + 1 - 1 - x < 7
  BY <1>2, <1>4
<1>7. ASSUME NEW y \in Int, WeekdayOf(y) = w, y < last + 1, last + 1 - 1 - y < 7
      PROVE  y = x
  <2>1. x - y < 7 /\ y - x < 7
    BY <1>2, <1>4, <1>7
  <2> HIDE DEF x
  <2> QED  BY <1>4, <1>6, <1>7, <2>1, SameWeek
<1> HIDE DEF x
<1> DEFINE after == FirstOfMonth(m + 1)
<1>8. /\ after - 1 - x < 7 /\ x < after
      /\ \A y \in Int : WeekdayOf(y) = w /\ y < after /\ after - 1 - y < 7 => y = x
  BY <1>2, <1>5, <1>6, <1>7
<1> HIDE DEF after
<1> QED  BY <1>3, <1>4, <1>6, <1>8 DEF w, after

(* What a monthly or yearly rule names in a month is a day of that month,  *)
(* and the only one that bears the name.                                   *)
LEMMA DayOfMonthIn ==
  ASSUME NEW m \in Nat, NEW day \in Int, FirstOfMonth(m) <= day, day < FirstOfMonth(m + 1)
  PROVE  /\ DayOfMonth(day) = day - FirstOfMonth(m) + 1
         /\ DayOfMonth(day) \in 1 .. DaysInMonth(m)
         /\ DaysInMonth(MonthOf(day)) - DayOfMonth(day) = FirstOfMonth(m + 1) - 1 - day
<1>1. MonthOf(day) = m
  BY InItsMonth
<1>2. /\ FirstOfMonth(m) \in Int /\ DaysInMonth(m) \in Int
      /\ FirstOfMonth(m + 1) = FirstOfMonth(m) + DaysInMonth(m)
  BY MonthsFollow
<1> QED  BY <1>1, <1>2 DEF DayOfMonth

LEMMA AnchorDay ==
  ASSUME NEW rule, RuleFits(rule)
  PROVE  /\ DayOfMonth(rule.anchor) \in 1 .. 31 /\ rule.anchor \in Nat \ {0}
         /\ MonthOf(rule.anchor) \in Nat
<1>1. rule.anchor \in Nat \ {0}
  BY DEF RuleFits
<1>2. /\ MonthOf(rule.anchor) \in Nat /\ FirstOfMonth(MonthOf(rule.anchor)) <= rule.anchor
      /\ rule.anchor < FirstOfMonth(MonthOf(rule.anchor) + 1)
  BY <1>1, MonthOfDay
<1>3. DayOfMonth(rule.anchor) \in 1 .. DaysInMonth(MonthOf(rule.anchor))
  BY <1>1, <1>2, DayOfMonthIn
<1>4. DaysInMonth(MonthOf(rule.anchor)) \in 28 .. 31
  BY <1>2, MonthsFollow
<1> QED  BY <1>1, <1>2, <1>3, <1>4

LEMMA PositionIs ==
  ASSUME NEW rule, RuleFits(rule)
  PROVE  /\ rule.position = NoPosition => rule.position[1] = 0
         /\ rule.position # NoPosition =>
              /\ rule.position \in Positions
              /\ rule.position[1] # 0 /\ rule.position[2] \in 0 .. 6
BY DEF RuleFits, Positions, NoPosition

LEMMA NamedInMonth ==
  ASSUME NEW rule, RuleFits(rule), NEW m \in Nat
  PROVE  LET named == InMonth(rule, m)
         IN  /\ named.date \in Int
             /\ FirstOfMonth(m) <= named.date /\ named.date < FirstOfMonth(m + 1)
             /\ named.clamped \in BOOLEAN
             /\ named.clamped <=> /\ rule.position = NoPosition
                                  /\ DayOfMonth(named.date) # DayOfMonth(rule.anchor)
             /\ \A y \in Int : FirstOfMonth(m) <= y /\ y < FirstOfMonth(m + 1) =>
                                 (NamesInMonth(rule, y) <=> y = named.date)
<1> DEFINE named == InMonth(rule, m)
<1> DEFINE first == FirstOfMonth(m)
<1> DEFINE length == DaysInMonth(m)
<1> DEFINE wanted == DayOfMonth(rule.anchor)
<1>1. first \in Int /\ length \in 28 .. 31 /\ FirstOfMonth(m + 1) = first + length
  BY MonthsFollow
<1>2. wanted \in 1 .. 31
  BY AnchorDay
<1>3. \A y \in Int : first <= y /\ y < first + length =>
        /\ DayOfMonth(y) = y - first + 1
        /\ DaysInMonth(MonthOf(y)) - DayOfMonth(y) = first + length - 1 - y
  BY <1>1, DayOfMonthIn
<1>4. CASE rule.position = NoPosition
  <2>1. /\ named.date = first + (IF wanted > length THEN length ELSE wanted) - 1
        /\ named.clamped = (wanted > length)
    BY <1>4 DEF InMonth
  <2>2. rule.position[1] = 0
    BY <1>4, PositionIs
  <2> HIDE DEF named, first, length, wanted
  <2>3. /\ named.date \in Int /\ first <= named.date /\ named.date < first + length
        /\ named.clamped \in BOOLEAN
    BY <1>1, <1>2, <2>1
  <2>4. DayOfMonth(named.date) = named.date - first + 1
    BY <1>3, <2>3
  <2>5. named.clamped <=> DayOfMonth(named.date) # wanted
    <3>1. wanted > length <=> named.date - first + 1 # wanted
      BY <1>1, <1>2, <2>1
    <3> QED  BY <2>1, <2>4, <3>1
  <2>6. ASSUME NEW y \in Int, first <= y, y < first + length
        PROVE  NamesInMonth(rule, y) <=> y = named.date
    <3>1. NamesInMonth(rule, y) <=> \/ y - first + 1 = wanted
                                    \/ first + length - 1 - y = 0 /\ y - first + 1 < wanted
      BY <1>3, <2>2, <2>6 DEF NamesInMonth, wanted
    <3> QED  BY <1>1, <1>2, <2>1, <2>6, <3>1
  <2> QED  BY <1>1, <1>4, <2>3, <2>5, <2>6 DEF named, first, length, wanted
<1>5. CASE rule.position # NoPosition
  <2>1. named.date = WeekdayOfMonth(m, rule.position) /\ named.clamped = FALSE
    BY <1>5 DEF InMonth
  <2>2. rule.position \in Positions /\ rule.position[1] # 0 /\ rule.position[2] \in 0 .. 6
    BY <1>5, PositionIs
  <2>3. CASE rule.position[1] = -1
    <3>1. /\ named.date \in Int /\ first <= named.date /\ named.date < first + length
          /\ WeekdayOf(named.date) = rule.position[2]
          /\ first + length - 1 - named.date < 7
          /\ \A y \in Int : /\ WeekdayOf(y) = rule.position[2]
                            /\ y < first + length /\ first + length - 1 - y < 7
                            => y = named.date
      BY <1>1, <2>1, <2>2, <2>3, PositionFromEnd
    <3> HIDE DEF named, first, length, wanted
    <3>2. ASSUME NEW y \in Int, first <= y, y < first + length
          PROVE  NamesInMonth(rule, y) <=> y = named.date
      <4>1. NamesInMonth(rule, y) <=>
              WeekdayOf(y) = rule.position[2] /\ first + length - 1 - y < 7
        BY <1>3, <2>3, <3>2 DEF NamesInMonth
      <4> QED  BY <3>1, <3>2, <4>1
    <3> QED  BY <1>1, <1>5, <2>1, <3>1, <3>2 DEF named, first, length
  <2>4. CASE rule.position[1] # -1
    <3>1. /\ named.date \in Int /\ first <= named.date /\ named.date < first + length
          /\ WeekdayOf(named.date) = rule.position[2]
          /\ (named.date - first) \div 7 + 1 = rule.position[1]
          /\ \A y \in Int : /\ WeekdayOf(y) = rule.position[2]
                            /\ (y - first) \div 7 + 1 = rule.position[1]
                            => y = named.date
      BY <1>1, <2>1, <2>2, <2>4, PositionFromStart
    <3> HIDE DEF named, first, length, wanted
    <3>2. ASSUME NEW y \in Int, first <= y, y < first + length
          PROVE  NamesInMonth(rule, y) <=> y = named.date
      <4>1. (y - first + 1) - 1 = y - first
        BY <1>1, <3>2
      <4>2. NamesInMonth(rule, y) <=>
              WeekdayOf(y) = rule.position[2] /\ (y - first) \div 7 + 1 = rule.position[1]
        BY <1>3, <2>2, <2>4, <3>2, <4>1 DEF NamesInMonth
      <4> QED  BY <3>1, <3>2, <4>2
    <3> QED  BY <1>1, <1>5, <2>1, <3>1, <3>2 DEF named, first, length
  <2> QED  BY <2>3, <2>4
<1> QED  BY <1>4, <1>5

-----------------------------------------------------------------------------
(* The sequence of a rule.                                                 *)

LEMMA Division ==
  ASSUME NEW a \in Int, NEW b \in Nat \ {0}
  PROVE  a \div b \in Int /\ a % b \in 0 .. b - 1 /\ a = (a \div b) * b + (a % b)
<1>1. a \div b \in Int /\ a % b \in 0 .. b - 1
  OBVIOUS
<1>2. a = b * (a \div b) + (a % b)
  OBVIOUS
<1>3. b * (a \div b) = (a \div b) * b
  BY <1>1
<1> QED  BY <1>1, <1>2, <1>3

LEMMA Multiples ==
  ASSUME NEW n \in Int, NEW b \in Nat \ {0}
  PROVE  (n * b) % b = 0 /\ (n * b) \div b = n
<1> DEFINE a == n * b
<1> DEFINE q == a \div b
<1> DEFINE r == a % b
<1>1. a \in Int
  OBVIOUS
<1>2. q \in Int /\ r \in 0 .. b - 1 /\ a = q * b + r
  <2> HIDE DEF a
  <2> QED  BY <1>1, Division
<1> HIDE DEF q, r
<1>3. ~ n < q
  <2>1. ASSUME n < q PROVE n * b + b <= q * b /\ q * b \in Int
    BY <1>2, <2>1, Times
  <2> QED  BY <1>1, <1>2, <2>1
<1>4. ~ q < n
  <2>1. ASSUME q < n PROVE q * b + b <= n * b /\ q * b \in Int
    BY <1>2, <2>1, Times
  <2> QED  BY <1>1, <1>2, <2>1
<1>5. q = n
  BY <1>2, <1>3, <1>4
<1>6. r = 0
  <2>1. n * b = n * b + r
    BY <1>2, <1>5
  <2> QED  BY <1>1, <1>2, <2>1
<1> QED  BY <1>5, <1>6 DEF q, r

LEMMA Ceiling ==
  ASSUME NEW a \in Int, NEW b \in Nat \ {0}
  PROVE  /\ Ceil(a, b) \in Int
         /\ (Ceil(a, b) - 1) * b < a /\ a <= Ceil(a, b) * b
         /\ Ceil(a, b) * b \in Int /\ (Ceil(a, b) - 1) * b \in Int
<1> DEFINE q == (-a) \div b
<1> DEFINE r == (-a) % b
<1>1. q \in Int /\ r \in 0 .. b - 1 /\ -a = q * b + r
  <2>1. -a \in Int
    OBVIOUS
  <2> QED  BY <2>1, Division
<1>2. Ceil(a, b) = -q
  BY DEF Ceil
<1> HIDE DEF q, r
<1>3. q * b \in Int /\ (-q) * b = -(q * b) /\ (-q - 1) * b = -(q * b) - b
  BY <1>1
<1> QED  BY <1>1, <1>2, <1>3

-----------------------------------------------------------------------------
LEMMA DaysOrWeeks ==
  ASSUME NEW rule, RuleFits(rule), NEW n \in Int
  PROVE  /\ n * rule.interval \in Int
         /\ n * (rule.interval * 7) = n * rule.interval * 7
         /\ n * (rule.interval * 12) = n * rule.interval * 12
         /\ rule.interval * 7 \in Nat \ {0} /\ rule.interval * 12 \in Nat \ {0}
<1>1. rule.interval \in Nat \ {0}
  BY DEF RuleFits
<1>2. \A i \in Nat \ {0} : /\ n * i \in Int /\ n * (i * 7) = n * i * 7
                           /\ n * (i * 12) = n * i * 12
                           /\ i * 7 \in Nat \ {0} /\ i * 12 \in Nat \ {0}
  OBVIOUS
<1> QED  BY <1>1, <1>2

(* The months a monthly or yearly rule steps through, or its days.         *)
StepOf(rule) == IF rule.frequency \in {"weekly"} THEN rule.interval * 7
                ELSE IF rule.frequency \in {"daily", "monthly"} THEN rule.interval
                ELSE rule.interval * 12

LEMMA StepCounts ==
  ASSUME NEW rule, RuleFits(rule)
  PROVE  StepOf(rule) \in Nat \ {0}
<1>1. 1 \in Int /\ rule.interval \in Nat \ {0}
  BY DEF RuleFits
<1> QED  BY <1>1, DaysOrWeeks DEF StepOf

LEMMA SequenceOfDays ==
  ASSUME NEW rule, RuleFits(rule), rule.frequency \in {"daily", "weekly"}, NEW n \in Nat
  PROVE  SequenceDate(rule, n) = [date |-> rule.anchor + n * StepOf(rule), clamped |-> FALSE]
<1>1. CASE rule.frequency = "daily"
  <2>1. StepOf(rule) = rule.interval
    BY <1>1 DEF StepOf
  <2> QED  BY <1>1, <2>1 DEF SequenceDate
<1>2. CASE rule.frequency = "weekly"
  <2>1. n * StepOf(rule) = n * rule.interval * 7
    BY <1>2, DaysOrWeeks DEF StepOf
  <2> QED  BY <1>2, <2>1 DEF SequenceDate
<1> QED  BY <1>1, <1>2

LEMMA SequenceOfMonths ==
  ASSUME NEW rule, RuleFits(rule), rule.frequency \in {"monthly", "yearly"}, NEW n \in Nat
  PROVE  /\ MonthOf(rule.anchor) + n * StepOf(rule) \in Nat
         /\ SequenceDate(rule, n) = InMonth(rule, MonthOf(rule.anchor) + n * StepOf(rule))
<1>1. SequenceDate(rule, n) = InMonth(rule, MonthOf(rule.anchor) + n * StepOf(rule))
  BY DaysOrWeeks DEF SequenceDate, StepOf
<1>2. MonthOf(rule.anchor) \in Nat /\ StepOf(rule) \in Nat \ {0}
  BY AnchorDay, StepCounts
<1>3. \A s \in Nat : n * s \in Nat
  OBVIOUS
<1> QED  BY <1>1, <1>2, <1>3

LEMMA SequenceDates ==
  ASSUME NEW rule, RuleFits(rule), rule.frequency \in Frequencies, NEW n \in Nat
  PROVE  LET step == SequenceDate(rule, n)
         IN  /\ step.date \in Nat \ {0} /\ step.clamped \in BOOLEAN
             /\ rule.frequency \in {"daily", "weekly"} => rule.anchor <= step.date
             /\ rule.frequency \in {"monthly", "yearly"} =>
                  MonthOf(step.date) = MonthOf(rule.anchor) + n * StepOf(rule)
             /\ step.clamped <=> /\ rule.position = NoPosition
                                 /\ rule.frequency \in {"monthly", "yearly"}
                                 /\ DayOfMonth(step.date) # DayOfMonth(rule.anchor)
<1>1. CASE rule.frequency \in {"daily", "weekly"}
  <2>1. rule.anchor \in Nat \ {0} /\ StepOf(rule) \in Nat \ {0}
    BY AnchorDay, StepCounts
  <2>2. \A s \in Nat : n * s \in Nat
    OBVIOUS
  <2>3. rule.anchor + n * StepOf(rule) \in Nat \ {0}
        /\ rule.anchor <= rule.anchor + n * StepOf(rule)
    BY <2>1, <2>2
  <2>4. /\ SequenceDate(rule, n).date = rule.anchor + n * StepOf(rule)
        /\ SequenceDate(rule, n).clamped = FALSE
    BY <1>1, SequenceOfDays
  <2>5. rule.frequency \notin {"monthly", "yearly"}
    BY <1>1
  <2> QED  BY <1>1, <2>3, <2>4, <2>5
<1>2. CASE rule.frequency \in {"monthly", "yearly"}
  <2> DEFINE m == MonthOf(rule.anchor) + n * StepOf(rule)
  <2>1. m \in Nat /\ SequenceDate(rule, n) = InMonth(rule, m)
    BY <1>2, SequenceOfMonths
  <2> DEFINE step == InMonth(rule, m)
  <2>2. /\ step.date \in Int
        /\ FirstOfMonth(m) <= step.date /\ step.date < FirstOfMonth(m + 1)
        /\ step.clamped \in BOOLEAN
        /\ step.clamped <=> /\ rule.position = NoPosition
                            /\ DayOfMonth(step.date) # DayOfMonth(rule.anchor)
    <3> HIDE DEF m
    <3> QED  BY <2>1, NamedInMonth
  <2>3. step.date \in Nat \ {0} /\ MonthOf(step.date) = m
    <3> HIDE DEF m
    <3> QED  BY <2>1, <2>2, InItsMonth
  <2> HIDE DEF step
  <2> QED  BY <1>2, <2>1, <2>2, <2>3 DEF step
<1> QED  BY <1>1, <1>2 DEF Frequencies

(* The sequence strictly increases.                                        *)
LEMMA SequenceIncreases ==
  ASSUME NEW rule, RuleFits(rule), rule.frequency \in Frequencies,
         NEW n \in Nat, NEW k \in Nat, n < k
  PROVE  SequenceDate(rule, n).date < SequenceDate(rule, k).date
<1>1. StepOf(rule) \in Nat \ {0}
  BY StepCounts
<1>2. /\ n * StepOf(rule) \in Int /\ k * StepOf(rule) \in Int
      /\ n * StepOf(rule) + StepOf(rule) <= k * StepOf(rule)
  BY <1>1, Times
<1>3. rule.anchor \in Nat \ {0} /\ MonthOf(rule.anchor) \in Nat
  BY AnchorDay
<1>4. CASE rule.frequency \in {"daily", "weekly"}
  <2>1. /\ SequenceDate(rule, n).date = rule.anchor + n * StepOf(rule)
        /\ SequenceDate(rule, k).date = rule.anchor + k * StepOf(rule)
    BY <1>4, SequenceOfDays
  <2> QED  BY <1>1, <1>2, <1>3, <2>1
<1>5. CASE rule.frequency \in {"monthly", "yearly"}
  <2>1. /\ MonthOf(SequenceDate(rule, n).date) = MonthOf(rule.anchor) + n * StepOf(rule)
        /\ MonthOf(SequenceDate(rule, k).date) = MonthOf(rule.anchor) + k * StepOf(rule)
        /\ SequenceDate(rule, n).date \in Nat \ {0} /\ SequenceDate(rule, k).date \in Nat \ {0}
    BY <1>5, SequenceDates
  <2>2. MonthOf(SequenceDate(rule, n).date) < MonthOf(SequenceDate(rule, k).date)
    BY <1>1, <1>2, <1>3, <2>1
  <2> QED  BY <2>1, <2>2, MonthsInOrder
<1> QED  BY <1>4, <1>5 DEF Frequencies

LEMMA EveryStep ==
  ASSUME NEW rule, RuleFits(rule), NEW periods \in Int
  PROVE  EveryInterval(rule, periods) <=> \E n \in Nat : periods = n * rule.interval
<1>1. rule.interval \in Nat \ {0}
  BY DEF RuleFits
<1>2. ASSUME EveryInterval(rule, periods) PROVE \E n \in Nat : periods = n * rule.interval
  <2> DEFINE n == periods \div rule.interval
  <2>1. n \in Int /\ periods = n * rule.interval + 0 /\ periods >= 0
    BY <1>1, <1>2, Division DEF EveryInterval
  <2> HIDE DEF n
  <2>2. n * rule.interval \in Int
    BY <1>1, <2>1
  <2>3. ~ n < 0
    <3>1. ASSUME n < 0 PROVE n * rule.interval + rule.interval <= 0 * rule.interval
      BY <1>1, <2>1, <3>1, Times
    <3>2. 0 * rule.interval = 0
      BY <1>1
    <3> QED  BY <1>1, <2>1, <2>2, <3>1, <3>2
  <2>4. n \in Nat
    BY <2>1, <2>3
  <2> QED  BY <2>1, <2>2, <2>4
<1>3. ASSUME NEW n \in Nat, periods = n * rule.interval PROVE EveryInterval(rule, periods)
  <2>1. periods % rule.interval = 0
    BY <1>1, <1>3, Multiples
  <2>2. \A i \in Nat : n * i >= 0
    OBVIOUS
  <2> QED  BY <1>1, <1>3, <2>1, <2>2 DEF EveryInterval
<1> QED  BY <1>2, <1>3

-----------------------------------------------------------------------------
(* The days it names, and the first of them after another.                 *)

LEMMA NamedOnce ==
  ASSUME NEW rule, RuleFits(rule), NEW m \in Nat, NEW day \in Nat \ {0}
  PROVE  InMonth(rule, m).date = day <=> NamesInMonth(rule, day) /\ MonthOf(day) = m
<1>1. /\ MonthOf(day) \in Nat /\ FirstOfMonth(MonthOf(day)) <= day
      /\ day < FirstOfMonth(MonthOf(day) + 1)
  BY MonthOfDay
<1>2. ASSUME MonthOf(day) = m, NamesInMonth(rule, day) PROVE InMonth(rule, m).date = day
  BY <1>1, <1>2, NamedInMonth
<1>3. ASSUME InMonth(rule, m).date = day PROVE NamesInMonth(rule, day) /\ MonthOf(day) = m
  <2>1. FirstOfMonth(m) <= day /\ day < FirstOfMonth(m + 1)
    BY <1>3, NamedInMonth
  <2>2. NamesInMonth(rule, day)
    BY <1>3, <2>1, NamedInMonth
  <2> QED  BY <2>1, <2>2, InItsMonth
<1> QED  BY <1>2, <1>3

LEMMA WholeYears ==
  ASSUME NEW a \in Nat, NEW b \in Nat, NEW k \in Int
  PROVE  a - b = 12 * k <=> (a % 12 = b % 12 /\ a \div 12 - b \div 12 = k)
OBVIOUS

LEMMA WholeWeeks ==
  ASSUME NEW a \in Int, NEW k \in Int
  PROVE  a = 7 * k <=> (a % 7 = 0 /\ a \div 7 = k)
OBVIOUS

(* The sequence that is counted from the anchor is the days the rule       *)
(* names, each once.                                                       *)
THEOREM NamesTheSequence ==
  ASSUME NEW rule, RuleFits(rule), rule.frequency \in Frequencies, NEW day \in Nat \ {0}
  PROVE  Names(rule, day) <=> \E n \in Nat : SequenceDate(rule, n).date = day
<1>1. /\ rule.anchor \in Nat \ {0} /\ MonthOf(rule.anchor) \in Nat
      /\ MonthOf(day) \in Nat
  BY AnchorDay, MonthOfDay
<1>2. \A n \in Nat : n * rule.interval \in Int
  BY DaysOrWeeks
<1>3. CASE rule.frequency = "daily"
  <2>1. Names(rule, day) <=> \E n \in Nat : day - rule.anchor = n * rule.interval
    BY <1>1, <1>3, EveryStep DEF Names
  <2>2. \A n \in Nat : SequenceDate(rule, n).date = rule.anchor + n * rule.interval
    BY <1>3 DEF SequenceDate
  <2> QED  BY <1>1, <1>2, <2>1, <2>2
<1>4. CASE rule.frequency = "weekly"
  <2> DEFINE weeks == (day - rule.anchor) \div 7
  <2>1. weeks \in Int
    BY <1>1
  <2>2. EveryInterval(rule, weeks) <=> \E n \in Nat : weeks = n * rule.interval
    BY <2>1, EveryStep
  <2>3. Names(rule, day) <=> /\ (day - rule.anchor) % 7 = 0
                             /\ \E n \in Nat : weeks = n * rule.interval
    BY <1>4, <2>2 DEF Names
  <2>4. ASSUME NEW n \in Nat
        PROVE  SequenceDate(rule, n).date = day
                 <=> (day - rule.anchor) % 7 = 0 /\ weeks = n * rule.interval
    <3>1. SequenceDate(rule, n).date = rule.anchor + n * rule.interval * 7
      BY <1>4 DEF SequenceDate
    <3>2. SequenceDate(rule, n).date = day <=> day - rule.anchor = 7 * (n * rule.interval)
      BY <1>1, <1>2, <3>1
    <3> QED  BY <1>1, <1>2, <3>2, WholeWeeks
  <2> HIDE DEF weeks
  <2> QED  BY <2>3, <2>4
<1>5. CASE rule.frequency = "monthly"
  <2>1. EveryInterval(rule, MonthOf(day) - MonthOf(rule.anchor))
          <=> \E n \in Nat : MonthOf(day) - MonthOf(rule.anchor) = n * rule.interval
    BY <1>1, EveryStep
  <2>2. Names(rule, day) <=>
          /\ NamesInMonth(rule, day)
          /\ \E n \in Nat : MonthOf(day) - MonthOf(rule.anchor) = n * rule.interval
    BY <1>5, <2>1 DEF Names
  <2>3. ASSUME NEW n \in Nat
        PROVE  SequenceDate(rule, n).date = day
                 <=> NamesInMonth(rule, day) /\ MonthOf(day) - MonthOf(rule.anchor) = n * rule.interval
    <3> DEFINE m == MonthOf(rule.anchor) + n * StepOf(rule)
    <3>1. m \in Nat /\ SequenceDate(rule, n) = InMonth(rule, m)
      BY <1>5, SequenceOfMonths
    <3>2. StepOf(rule) = rule.interval
      BY <1>5 DEF StepOf
    <3>3. MonthOf(day) = m <=> MonthOf(day) - MonthOf(rule.anchor) = n * rule.interval
      BY <1>1, <1>2, <3>2
    <3> HIDE DEF m
    <3> QED  BY <3>1, <3>3, NamedOnce
  <2> QED  BY <2>2, <2>3
<1>6. CASE rule.frequency = "yearly"
  <2> DEFINE years == YearOf(day) - YearOf(rule.anchor)
  <2>1. years \in Int /\ years = MonthOf(day) \div 12 - MonthOf(rule.anchor) \div 12
    BY <1>1 DEF YearOf
  <2>2. EveryInterval(rule, years) <=> \E n \in Nat : years = n * rule.interval
    BY <2>1, EveryStep
  <2>3. Names(rule, day) <=>
          /\ NamesInMonth(rule, day)
          /\ MonthOf(day) % 12 = MonthOf(rule.anchor) % 12
          /\ \E n \in Nat : years = n * rule.interval
    BY <1>6, <2>2 DEF Names
  <2>4. ASSUME NEW n \in Nat
        PROVE  SequenceDate(rule, n).date = day
                 <=> /\ NamesInMonth(rule, day)
                     /\ MonthOf(day) % 12 = MonthOf(rule.anchor) % 12
                     /\ years = n * rule.interval
    <3> DEFINE m == MonthOf(rule.anchor) + n * StepOf(rule)
    <3>1. m \in Nat /\ SequenceDate(rule, n) = InMonth(rule, m)
      BY <1>6, SequenceOfMonths
    <3>2. n * StepOf(rule) = n * rule.interval * 12
      BY <1>6, DaysOrWeeks DEF StepOf
    <3>3. MonthOf(day) = m <=> MonthOf(day) - MonthOf(rule.anchor) = 12 * (n * rule.interval)
      BY <1>1, <1>2, <3>2
    <3>4. MonthOf(day) = m <=> /\ MonthOf(day) % 12 = MonthOf(rule.anchor) % 12
                               /\ years = n * rule.interval
      BY <1>1, <1>2, <2>1, <3>3, WholeYears
    <3> HIDE DEF m
    <3> QED  BY <3>1, <3>4, NamedOnce
  <2> HIDE DEF years
  <2> QED  BY <2>3, <2>4
<1> QED  BY <1>3, <1>4, <1>5, <1>6 DEF Frequencies

-----------------------------------------------------------------------------
(* The guess is right to within one either way: ...                        *)
GuessIsNear(rule, after, guess) ==
  /\ guess \in Int
  /\ \A k \in Nat : k < guess => SequenceDate(rule, k).date <= after
  /\ \A n \in Nat : n > guess => SequenceDate(rule, n).date > after

LEMMA GuessInDays ==
  ASSUME NEW rule, RuleFits(rule), rule.frequency \in {"daily", "weekly"},
         NEW after \in Nat \ {0}
  PROVE  GuessIsNear(rule, after, Guess(rule, after))
<1> DEFINE s == StepOf(rule)
<1> DEFINE guess == Guess(rule, after)
<1>1. s \in Nat \ {0} /\ rule.anchor \in Nat \ {0}
  BY StepCounts, AnchorDay
<1>2. guess = Ceil(after - rule.anchor + 1, s)
  BY DEF Guess, StepOf
<1>3. /\ guess \in Int /\ (guess - 1) * s < after - rule.anchor + 1
      /\ after - rule.anchor + 1 <= guess * s
      /\ guess * s \in Int /\ (guess - 1) * s \in Int
  <2>1. after - rule.anchor + 1 \in Int
    BY <1>1
  <2> HIDE DEF s, guess
  <2> QED  BY <1>1, <1>2, <2>1, Ceiling
<1>4. \A n \in Nat : SequenceDate(rule, n).date = rule.anchor + n * s
  BY SequenceOfDays
<1> HIDE DEF s, guess
<1>5. ASSUME NEW k \in Nat, k < guess PROVE SequenceDate(rule, k).date <= after
  <2>1. k * s \in Int /\ k * s + s <= guess * s
    BY <1>1, <1>3, <1>5, Times
  <2>2. (guess - 1) * s = guess * s - s
    BY <1>1, <1>3
  <2>3. SequenceDate(rule, k).date = rule.anchor + k * s
    BY <1>4
  <2>4. rule.anchor + k * s <= after
    BY <1>1, <1>3, <2>1, <2>2
  <2> QED  BY <2>3, <2>4
<1>6. ASSUME NEW n \in Nat, n > guess PROVE SequenceDate(rule, n).date > after
  <2>1. n * s \in Int /\ guess * s + s <= n * s
    BY <1>1, <1>3, <1>6, Times
  <2>2. SequenceDate(rule, n).date = rule.anchor + n * s
    BY <1>4
  <2>3. rule.anchor + n * s > after
    BY <1>1, <1>3, <2>1
  <2> QED  BY <2>2, <2>3
<1> QED  BY <1>3, <1>5, <1>6 DEF GuessIsNear, guess

LEMMA GuessInMonths ==
  ASSUME NEW rule, RuleFits(rule), rule.frequency \in {"monthly", "yearly"},
         NEW after \in Nat \ {0}
  PROVE  GuessIsNear(rule, after, Guess(rule, after))
<1> DEFINE i == rule.interval
<1> DEFINE guess == Guess(rule, after)
<1> DEFINE begin == MonthOf(rule.anchor)
<1> DEFINE target == MonthOf(after)
<1>1. i \in Nat \ {0} /\ begin \in Nat /\ target \in Nat
  BY AnchorDay, MonthOfDay DEF RuleFits
<1>2. \A n \in Nat : /\ SequenceDate(rule, n).date \in Nat \ {0}
                     /\ MonthOf(SequenceDate(rule, n).date) = begin + n * StepOf(rule)
  BY SequenceDates DEF Frequencies
<1>3. guess \in Int
      /\ (\A k \in Nat : k < guess => begin + k * StepOf(rule) < target)
      /\ (\A n \in Nat : n > guess => begin + n * StepOf(rule) > target)
  <2>1. CASE rule.frequency = "monthly"
    <3>1. StepOf(rule) = i /\ guess = Ceil(target - begin, i)
      BY <2>1 DEF StepOf, Guess
    <3> HIDE DEF i, guess, begin, target
    <3>2. /\ guess \in Int /\ (guess - 1) * i < target - begin /\ target - begin <= guess * i
          /\ guess * i \in Int /\ (guess - 1) * i \in Int
      <4>1. target - begin \in Int
        BY <1>1
      <4> QED  BY <1>1, <3>1, <4>1, Ceiling
    <3>3. (guess - 1) * i = guess * i - i
      BY <1>1, <3>2
    <3>4. ASSUME NEW k \in Nat, k < guess PROVE begin + k * i < target
      <4>1. k * i \in Int /\ k * i + i <= guess * i
        BY <1>1, <3>2, <3>4, Times
      <4> QED  BY <1>1, <3>2, <3>3, <4>1
    <3>5. ASSUME NEW n \in Nat, n > guess PROVE begin + n * i > target
      <4>1. n * i \in Int /\ guess * i + i <= n * i
        BY <1>1, <3>2, <3>5, Times
      <4> QED  BY <1>1, <3>2, <4>1
    <3> QED  BY <3>1, <3>2, <3>4, <3>5
  <2>2. CASE rule.frequency = "yearly"
    <3> DEFINE from == YearOf(rule.anchor)
    <3> DEFINE to == YearOf(after)
    <3>1. StepOf(rule) = i * 12 /\ guess = Ceil(to - from, i)
      BY <2>2 DEF StepOf, Guess
    <3>2. /\ from \in Int /\ to \in Int
          /\ 12 * from <= begin /\ begin < 12 * from + 12
          /\ 12 * to <= target /\ target < 12 * to + 12
      BY <1>1 DEF YearOf
    <3> HIDE DEF i, guess, begin, target, from, to
    <3>3. /\ guess \in Int /\ (guess - 1) * i < to - from /\ to - from <= guess * i
          /\ guess * i \in Int /\ (guess - 1) * i \in Int
      <4>1. to - from \in Int
        BY <3>2
      <4> QED  BY <1>1, <3>1, <4>1, Ceiling
    <3>4. (guess - 1) * i = guess * i - i
      BY <1>1, <3>3
    <3>5. \A n \in Nat : n * (i * 12) = (n * i) * 12 /\ n * i \in Int
      BY <1>1
    <3>6. ASSUME NEW k \in Nat, k < guess PROVE begin + k * (i * 12) < target
      <4>1. k * i \in Int /\ k * i + i <= guess * i
        BY <1>1, <3>3, <3>6, Times
      <4> QED  BY <1>1, <3>2, <3>3, <3>4, <3>5, <4>1
    <3>7. ASSUME NEW n \in Nat, n > guess PROVE begin + n * (i * 12) > target
      <4>1. n * i \in Int /\ guess * i + i <= n * i
        BY <1>1, <3>3, <3>7, Times
      <4> QED  BY <1>1, <3>2, <3>3, <3>5, <4>1
    <3> QED  BY <3>1, <3>3, <3>6, <3>7
  <2> QED  BY <2>1, <2>2
<1>4. ASSUME NEW k \in Nat, k < guess PROVE SequenceDate(rule, k).date <= after
  <2>1. MonthOf(SequenceDate(rule, k).date) < MonthOf(after)
    BY <1>2, <1>3, <1>4
  <2> QED  BY <1>2, <2>1, MonthsInOrder
<1>5. ASSUME NEW n \in Nat, n > guess PROVE SequenceDate(rule, n).date > after
  <2>1. MonthOf(after) < MonthOf(SequenceDate(rule, n).date)
    BY <1>1, <1>2, <1>3, <1>5
  <2> QED  BY <1>2, <2>1, MonthsInOrder
<1> QED  BY <1>3, <1>4, <1>5 DEF GuessIsNear

(* ... so that backing off two and stepping forward three finds the first  *)
(* occurrence after any day, exactly.                                      *)
THEOREM FirstIndexIsFirst ==
  ASSUME NEW rule, RuleFits(rule), rule.frequency \in Frequencies, NEW after \in Nat \ {0}
  PROVE  LET first == FirstIndexAfter(rule, after)
         IN  /\ first \in Nat
             /\ SequenceDate(rule, first).date > after
             /\ \A k \in Nat : k < first => SequenceDate(rule, k).date <= after
<1> DEFINE guess == Guess(rule, after)
<1> DEFINE start == BackOff(guess, 2)
<1> DEFINE Past(n) == SequenceDate(rule, n).date > after
<1>1. GuessIsNear(rule, after, guess)
  BY GuessInDays, GuessInMonths DEF Frequencies
<1>2. /\ guess \in Int
      /\ \A k \in Nat : k < guess => SequenceDate(rule, k).date <= after
      /\ \A n \in Nat : n > guess => SequenceDate(rule, n).date > after
  BY <1>1 DEF GuessIsNear
<1> HIDE DEF guess
<1>3. /\ start \in Nat /\ start + 3 > guess
      /\ \A k \in Nat : k < start => k < guess
  BY <1>2 DEF BackOff
<1> HIDE DEF start
<1>4. \A k \in Nat : SequenceDate(rule, k).date \in Nat
  BY SequenceDates
<1> DEFINE Found == {n \in Nat : n >= start /\ Past(n)}
<1>5. start + 3 \in Found
  BY <1>2, <1>3
<1>6. PICK n \in Found : \A k \in Found : n <= k
  <2>1. Found \subseteq Nat
    OBVIOUS
  <2> HIDE DEF Found
  <2> QED  BY <1>5, <2>1, LeastNatural
<1>7. /\ n \in start .. start + 3 /\ Past(n)
      /\ \A earlier \in start .. n - 1 : SequenceDate(rule, earlier).date <= after
  <2>1. n \in start .. start + 3
    BY <1>3, <1>5, <1>6
  <2>2. ASSUME NEW earlier \in start .. n - 1 PROVE SequenceDate(rule, earlier).date <= after
    <3>1. earlier \in Nat /\ earlier >= start /\ earlier < n
      BY <1>3, <2>1, <2>2
    <3>2. ~ Past(earlier)
      BY <1>6, <3>1
    <3> QED  BY <1>4, <3>1, <3>2
  <2> QED  BY <1>6, <2>1, <2>2
<1> DEFINE first == FirstIndexAfter(rule, after)
<1>8. /\ first \in start .. start + 3 /\ Past(first)
      /\ \A earlier \in start .. first - 1 : SequenceDate(rule, earlier).date <= after
  <2>1. first = CHOOSE x \in start .. start + 3 :
                  /\ Past(x)
                  /\ \A earlier \in start .. x - 1 : SequenceDate(rule, earlier).date <= after
    BY DEF FirstIndexAfter, SeekFrom, start, guess
  <2> HIDE DEF first, Found
  <2> QED  BY <1>7, <2>1
<1> HIDE DEF first
<1>9. ASSUME NEW k \in Nat, k < first PROVE SequenceDate(rule, k).date <= after
  <2>1. CASE k < start
    BY <1>2, <1>3, <1>9, <2>1
  <2>2. CASE k >= start
    BY <1>3, <1>8, <1>9, <2>2
  <2> QED  BY <1>3, <1>9, <2>1, <2>2
<1>10. first \in Nat
  BY <1>3, <1>8
<1> QED  BY <1>8, <1>9, <1>10 DEF first

-----------------------------------------------------------------------------
(* The reminders: which day carries one, and in which order they go.       *)

Repeats(rule) == RuleFits(rule) /\ rule.frequency \in Frequencies

LEMMA PostedOrPassed ==
  ASSUME NEW rule, Repeats(rule), NEW n \in Nat, SequenceDate(rule, n).date > 2
  PROVE  LET so == OccurrenceAt(rule, n)
         IN  /\ so.occurrence = SequenceDate(rule, n).date
             /\ so.posted = NoDate <=> PassedBy(rule, so.occurrence)
             /\ so.posted # NoDate =>
                  /\ so.posted = SentOn(rule, so.occurrence)
                  /\ so.posted \in Nat
                  /\ so.posted <= so.occurrence + 2 /\ so.occurrence <= so.posted + 2
<1> DEFINE step == SequenceDate(rule, n)
<1> DEFINE day == step.date
<1> DEFINE plain == [date |-> day, clamped |-> FALSE]
<1> DEFINE posted == PostedDateFor(rule, step)
<1>1. /\ day \in Nat \ {0} /\ day > 2 /\ step.clamped \in BOOLEAN
      /\ step.clamped <=> /\ rule.position = NoPosition
                          /\ rule.frequency \in {"monthly", "yearly"}
                          /\ DayOfMonth(day) # DayOfMonth(rule.anchor)
  BY SequenceDates DEF Repeats
<1>2. OccurrenceAt(rule, n).occurrence = day /\ OccurrenceAt(rule, n).posted = posted
  BY DEF OccurrenceAt, Occurrence
<1>3. plain.date = day /\ plain.clamped = FALSE
  OBVIOUS
<1>4. SentOn(rule, day) = PostedDateFor(rule, plain)
  BY DEF SentOn, Repeats, Frequencies
<1> HIDE DEF step, plain
<1>5. CASE step.clamped /\ rule.monthPolicy = "skip"
  <2>1. posted = NoDate
    BY <1>5 DEF PostedDateFor
  <2>2. PassedBy(rule, day)
    BY <1>1, <1>5 DEF PassedBy
  <2> HIDE DEF posted, day
  <2> QED  BY <1>2, <2>1, <2>2 DEF day, step
<1>6. CASE ~ (step.clamped /\ rule.monthPolicy = "skip")
  <2>1. PassedBy(rule, day) <=> rule.weekendPolicy = "skip" /\ WeekdayOf(day) \in Weekend
    BY <1>1, <1>6 DEF PassedBy
  <2>2. posted = PostedDateFor(rule, plain)
    BY <1>3, <1>6 DEF PostedDateFor
  <2>3. posted = IF WeekdayOf(day) \notin Weekend \/ rule.weekendPolicy = "allow" THEN day
                 ELSE IF rule.weekendPolicy = "skip" THEN NoDate
                 ELSE IF rule.weekendPolicy = "previous_business_day"
                      THEN day - (IF WeekdayOf(day) = 6 THEN 1 ELSE 2)
                 ELSE day + (IF WeekdayOf(day) = 6 THEN 2 ELSE 1)
    BY <1>6 DEF PostedDateFor
  <2> HIDE DEF posted, day
  <2>4. posted = NoDate <=> PassedBy(rule, day)
    BY <1>1, <2>1, <2>3 DEF NoDate
  <2>5. posted # NoDate => posted \in Nat /\ posted <= day + 2 /\ day <= posted + 2
    BY <1>1, <2>3 DEF NoDate
  <2> QED  BY <1>2, <1>4, <2>2, <2>4, <2>5 DEF day, step
<1> QED  BY <1>5, <1>6

(* The earlier of two days a rule owes goes no later.                      *)
LEMMA SentInOrder ==
  ASSUME NEW rule, NEW d \in Nat, NEW e \in Nat, d <= e,
         rule.frequency # "once" => ~ PassedBy(rule, d) /\ ~ PassedBy(rule, e)
  PROVE  SentOn(rule, d) \in Int /\ SentOn(rule, e) \in Int /\ SentOn(rule, d) <= SentOn(rule, e)
<1> DEFINE Shift(day) == IF WeekdayOf(day) \notin Weekend \/ rule.weekendPolicy = "allow" THEN 0
                         ELSE IF rule.weekendPolicy = "previous_business_day"
                              THEN -(IF WeekdayOf(day) = 6 THEN 1 ELSE 2)
                         ELSE (IF WeekdayOf(day) = 6 THEN 2 ELSE 1)
<1>1. CASE rule.frequency = "once"
  BY <1>1 DEF SentOn
<1>2. CASE rule.frequency # "once"
  <2>1. ASSUME NEW day \in {d, e} PROVE SentOn(rule, day) = day + Shift(day)
    <3>1. day \in Nat /\ (WeekdayOf(day) \in Weekend => rule.weekendPolicy # "skip")
      BY <1>2, <2>1 DEF PassedBy
    <3> QED  BY <1>2, <3>1 DEF SentOn, PostedDateFor
  <2>2. d + Shift(d) \in Int /\ e + Shift(e) \in Int /\ d + Shift(d) <= e + Shift(e)
    <3>1. WeekdayOf(d) \in 0 .. 6 /\ WeekdayOf(e) \in 0 .. 6
      BY Weekdays
    <3>2. e = d => WeekdayOf(e) = WeekdayOf(d)
      OBVIOUS
    <3>3. e = d + 1 => WeekdayOf(e) = (WeekdayOf(d) + 1) % 7
      BY CalendarAssumption DEF WeekdayOf
    <3>4. e = d + 2 => WeekdayOf(e) = (WeekdayOf(d) + 2) % 7
      BY CalendarAssumption DEF WeekdayOf
    <3>5. e = d + 3 => WeekdayOf(e) = (WeekdayOf(d) + 3) % 7
      BY CalendarAssumption DEF WeekdayOf
    <3> QED  BY <3>1, <3>2, <3>3, <3>4, <3>5 DEF Weekend
  <2> HIDE DEF Shift
  <2> QED  BY <2>1, <2>2
<1> QED  BY <1>1, <1>2

-----------------------------------------------------------------------------
(* What is known of the reminder that comes after a watermark.             *)
Cursors(rule) == {NoDate} \cup {day \in Nat : day >= rule.anchor}

NextOwed(rule, cursor, so) ==
  /\ so.occurrence \in Nat /\ so.occurrence >= rule.anchor
  /\ so.occurrence > After(rule, cursor) /\ so.occurrence > cursor
  /\ IsOwed(rule, so.occurrence)
  /\ so.posted = SentOn(rule, so.occurrence) /\ so.posted \in Nat \ {NoDate}
  /\ so.posted <= so.occurrence + 2 /\ so.occurrence <= so.posted + 2
  /\ \A day \in Nat : day > After(rule, cursor) /\ IsOwed(rule, day) => so.occurrence <= day

LEMMA CursorBounds ==
  ASSUME NEW rule, RuleFits(rule), NEW cursor \in Cursors(rule)
  PROVE  /\ After(rule, cursor) \in Nat \ {0} /\ cursor \in Nat /\ cursor <= After(rule, cursor)
         /\ rule.anchor - 1 <= After(rule, cursor) /\ rule.anchor \in Nat /\ rule.anchor > 2
BY DEF RuleFits, Cursors, After, NoDate

(* The days a rule owes after a watermark are the occurrences from the     *)
(* first index on that carry a date.                                       *)
LEMMA OwedIsPosted ==
  ASSUME NEW rule, Repeats(rule), NEW cursor \in Cursors(rule)
  PROVE  LET after == After(rule, cursor)
             first == FirstIndexAfter(rule, after)
         IN  /\ first \in Nat
             /\ \A k \in Nat : k >= first =>
                  LET so == OccurrenceAt(rule, k)
                  IN  /\ so.occurrence = SequenceDate(rule, k).date
                      /\ so.occurrence \in Nat /\ so.occurrence > after
                      /\ Names(rule, so.occurrence)
                      /\ IsOwed(rule, so.occurrence) <=> so.posted # NoDate
                      /\ so.posted = NoDate <=> PassedBy(rule, so.occurrence)
                      /\ so.posted # NoDate =>
                           /\ so.posted = SentOn(rule, so.occurrence)
                           /\ so.posted \in Nat
                           /\ so.posted <= so.occurrence + 2 /\ so.occurrence <= so.posted + 2
             /\ \A day \in Nat : day > after /\ IsOwed(rule, day) =>
                  \E k \in Nat : /\ k >= first /\ SequenceDate(rule, k).date = day
                                 /\ OccurrenceAt(rule, k).occurrence = day
                                 /\ OccurrenceAt(rule, k).posted # NoDate
<1> DEFINE after == After(rule, cursor)
<1> DEFINE first == FirstIndexAfter(rule, after)
<1> DEFINE date(k) == SequenceDate(rule, k).date
<1>1. RuleFits(rule) /\ rule.frequency \in Frequencies /\ rule.frequency # "once"
  BY DEF Repeats, Frequencies
<1>2. after \in Nat \ {0} /\ rule.anchor - 1 <= after /\ rule.anchor \in Nat /\ rule.anchor > 2
  BY <1>1, CursorBounds
<1> HIDE DEF after
<1>3. first \in Nat /\ date(first) > after /\ \A k \in Nat : k < first => date(k) <= after
  BY <1>1, <1>2, FirstIndexIsFirst
<1> HIDE DEF first
<1>4. \A k \in Nat : date(k) \in Nat \ {0}
  BY <1>1, SequenceDates
<1>5. ASSUME NEW k \in Nat, k >= first PROVE date(k) > after /\ date(k) > 2 /\ date(k) >= rule.anchor
  <2>1. date(k) > after
    <3>1. CASE k = first
      BY <1>3, <3>1
    <3>2. CASE k # first
      <4>1. date(first) < date(k)
        BY <1>1, <1>3, <1>5, <3>2, SequenceIncreases
      <4> QED  BY <1>2, <1>3, <1>4, <4>1
    <3> QED  BY <3>1, <3>2
  <2> QED  BY <1>2, <1>4, <2>1
<1>6. ASSUME NEW k \in Nat, k >= first
      PROVE  LET so == OccurrenceAt(rule, k)
             IN  /\ so.occurrence = date(k)
                 /\ so.occurrence \in Nat /\ so.occurrence > after
                 /\ Names(rule, so.occurrence)
                 /\ IsOwed(rule, so.occurrence) <=> so.posted # NoDate
                 /\ so.posted = NoDate <=> PassedBy(rule, so.occurrence)
                 /\ so.posted # NoDate =>
                      /\ so.posted = SentOn(rule, so.occurrence)
                      /\ so.posted \in Nat
                      /\ so.posted <= so.occurrence + 2 /\ so.occurrence <= so.posted + 2
  <2> DEFINE so == OccurrenceAt(rule, k)
  <2>1. /\ so.occurrence = date(k)
        /\ so.posted = NoDate <=> PassedBy(rule, so.occurrence)
        /\ so.posted # NoDate =>
             /\ so.posted = SentOn(rule, so.occurrence)
             /\ so.posted \in Nat
             /\ so.posted <= so.occurrence + 2 /\ so.occurrence <= so.posted + 2
    BY <1>5, <1>6, PostedOrPassed
  <2>2. Names(rule, date(k))
    BY <1>1, <1>4, NamesTheSequence
  <2> HIDE DEF so
  <2>3. IsOwed(rule, so.occurrence) <=> so.posted # NoDate
    BY <1>1, <1>5, <1>6, <2>1, <2>2 DEF IsOwed
  <2> QED  BY <1>4, <1>5, <1>6, <2>1, <2>2, <2>3 DEF so
<1>7. ASSUME NEW day \in Nat, day > after, IsOwed(rule, day)
      PROVE  \E k \in Nat : /\ k >= first /\ date(k) = day
                            /\ OccurrenceAt(rule, k).occurrence = day
                            /\ OccurrenceAt(rule, k).posted # NoDate
  <2>1. day \in Nat \ {0} /\ Names(rule, day)
    BY <1>1, <1>2, <1>7 DEF IsOwed
  <2>2. PICK k \in Nat : date(k) = day
    BY <1>1, <2>1, NamesTheSequence
  <2>3. k >= first
    BY <1>2, <1>3, <1>7, <2>2
  <2> QED  BY <1>6, <1>7, <2>2, <2>3
<1> QED  BY <1>3, <1>6, <1>7 DEF after, first

-----------------------------------------------------------------------------
(* The reminder after a watermark.                                         *)

LEMMA AtLeastAsMany ==
  ASSUME NEW S, IsFiniteSet(S), NEW a \in Int, NEW n \in Nat, NEW f \in [a .. a + n - 1 -> S],
         \A i \in a .. a + n - 1, j \in a .. a + n - 1 : i < j => f[i] # f[j]
  PROVE  Cardinality(S) >= n
<1> DEFINE I == a .. a + n - 1
<1>1. IsFiniteSet(I) /\ Cardinality(I) = n
  <2>1. a + n - 1 \in Int
    OBVIOUS
  <2>2. IsFiniteSet(I) /\ Cardinality(I) = IF a > a + n - 1 THEN 0 ELSE (a + n - 1) - a + 1
    BY <2>1, FS_Interval
  <2> QED  BY <2>2
<1>2. Cardinality(S) \in Nat
  BY FS_CardinalityType
<1>3. ASSUME Cardinality(S) < n PROVE FALSE
  <2>1. \E i, j \in I : i # j /\ f[i] = f[j]
    <3> HIDE DEF I
    <3>1. f \in [I -> S]
      BY DEF I
    <3> QED  BY <1>1, <1>3, <3>1, FS_PigeonHole
  <2>2. \A i, j \in I : i < j \/ j < i \/ i = j
    OBVIOUS
  <2> QED  BY <2>1, <2>2
<1> QED  BY <1>2, <1>3

LEMMA FirstPostedIs ==
  ASSUME NEW rule, NEW n \in Nat
  PROVE  LET so == FirstPosted(rule, n)
         IN  \/ /\ so = Nothing
                /\ \A k \in n .. n + Lookahead - 1 : OccurrenceAt(rule, k).posted = NoDate
             \/ \E k \in Nat : /\ k >= n /\ so = OccurrenceAt(rule, k) /\ so.posted # NoDate
                               /\ \A j \in n .. k - 1 : OccurrenceAt(rule, j).posted = NoDate
<1> DEFINE posted == {k \in n .. n + Lookahead - 1 : OccurrenceAt(rule, k).posted # NoDate}
<1> DEFINE least == CHOOSE k \in posted : \A other \in posted : k <= other
<1>1. Lookahead \in Nat \ {0}
  BY RemindersAssumption
<1>2. CASE posted = {}
  <2>1. FirstPosted(rule, n) = Nothing
    BY <1>2 DEF FirstPosted
  <2> QED  BY <1>2, <2>1
<1>3. CASE posted # {}
  <2>1. \E k \in posted : \A other \in posted : k <= other
    <3>1. posted \subseteq Nat
      BY <1>1
    <3> HIDE DEF posted
    <3> QED  BY <1>3, <3>1, LeastNatural
  <2>2. least \in posted /\ \A other \in posted : least <= other
    BY <2>1
  <2>3. FirstPosted(rule, n) = OccurrenceAt(rule, least)
    BY <1>3 DEF FirstPosted
  <2> HIDE DEF least
  <2>4. least \in Nat /\ least >= n /\ least <= n + Lookahead - 1
        /\ OccurrenceAt(rule, least).posted # NoDate
    BY <1>1, <2>2
  <2>5. ASSUME NEW j \in n .. least - 1 PROVE OccurrenceAt(rule, j).posted = NoDate
    <3>1. j \in n .. n + Lookahead - 1 /\ ~ least <= j
      BY <1>1, <2>4, <2>5
    <3>2. j \notin posted
      BY <2>2, <3>1
    <3> QED  BY <3>1, <3>2
  <2> QED  BY <2>3, <2>4, <2>5
<1> QED  BY <1>2, <1>3

AskedFor(rule) == RuleFits(rule) /\ rule.frequency \in Frequencies \cup {"once"}

LEMMA RemindsTheNext ==
  ASSUME NEW rule, AskedFor(rule), NEW cursor \in Cursors(rule), Reminds(rule, cursor) # Nothing
  PROVE  NextOwed(rule, cursor, Reminds(rule, cursor))
<1> DEFINE so == Reminds(rule, cursor)
<1> DEFINE after == After(rule, cursor)
<1>1. /\ after \in Nat \ {0} /\ cursor \in Nat /\ cursor <= after
      /\ rule.anchor - 1 <= after /\ rule.anchor \in Nat /\ rule.anchor > 2
  BY CursorBounds DEF AskedFor
<1>2. CASE rule.frequency = "once"
  <2>1. cursor = NoDate /\ so.occurrence = rule.anchor /\ so.posted = rule.anchor
    BY <1>2 DEF Reminds
  <2>2. after = rule.anchor - 1
    BY <2>1 DEF After
  <2>3. \A day \in Nat : IsOwed(rule, day) <=> day = rule.anchor
    BY <1>2 DEF IsOwed
  <2>4. SentOn(rule, rule.anchor) = rule.anchor
    BY <1>2 DEF SentOn
  <2> HIDE DEF so
  <2> QED  BY <1>1, <2>1, <2>2, <2>3, <2>4 DEF NextOwed, NoDate, so
<1>3. CASE rule.frequency # "once"
  <2> DEFINE first == FirstIndexAfter(rule, after)
  <2>1. Repeats(rule)
    BY <1>3 DEF AskedFor, Repeats
  <2>2. /\ first \in Nat
        /\ \A k \in Nat : k >= first =>
             LET x == OccurrenceAt(rule, k)
             IN  /\ x.occurrence = SequenceDate(rule, k).date
                 /\ x.occurrence \in Nat /\ x.occurrence > after
                 /\ IsOwed(rule, x.occurrence) <=> x.posted # NoDate
                 /\ x.posted # NoDate =>
                      /\ x.posted = SentOn(rule, x.occurrence)
                      /\ x.posted \in Nat
                      /\ x.posted <= x.occurrence + 2 /\ x.occurrence <= x.posted + 2
        /\ \A day \in Nat : day > after /\ IsOwed(rule, day) =>
             \E k \in Nat : /\ k >= first /\ SequenceDate(rule, k).date = day
                            /\ OccurrenceAt(rule, k).posted # NoDate
    BY <2>1, OwedIsPosted
  <2>3. so = FirstPosted(rule, first)
    BY <1>3 DEF Reminds
  <2> HIDE DEF so, after, first
  <2>4. PICK k \in Nat : /\ k >= first /\ so = OccurrenceAt(rule, k) /\ so.posted # NoDate
                         /\ \A j \in first .. k - 1 : OccurrenceAt(rule, j).posted = NoDate
    <3>1. so # Nothing
      BY DEF so
    <3> QED  BY <2>2, <2>3, <3>1, FirstPostedIs
  <2>5. ASSUME NEW day \in Nat, day > after, IsOwed(rule, day) PROVE so.occurrence <= day
    <3>1. PICK j \in Nat : /\ j >= first /\ SequenceDate(rule, j).date = day
                           /\ OccurrenceAt(rule, j).posted # NoDate
      BY <2>2, <2>5
    <3>2. j \notin first .. k - 1
      BY <2>4, <3>1
    <3>3. k <= j
      BY <2>2, <2>4, <3>1, <3>2
    <3>4. so.occurrence = SequenceDate(rule, k).date /\ so.occurrence \in Nat
      BY <2>2, <2>4
    <3>5. k < j => SequenceDate(rule, k).date < SequenceDate(rule, j).date
      BY <2>1, SequenceIncreases DEF Repeats
    <3> QED  BY <3>1, <3>3, <3>4, <3>5
  <2>6. /\ so.occurrence \in Nat /\ so.occurrence > after /\ IsOwed(rule, so.occurrence)
        /\ so.posted = SentOn(rule, so.occurrence) /\ so.posted \in Nat \ {NoDate}
        /\ so.posted <= so.occurrence + 2 /\ so.occurrence <= so.posted + 2
    BY <2>2, <2>4
  <2>7. so.occurrence >= rule.anchor /\ so.occurrence > cursor
    BY <1>1, <2>6
  <2> QED  BY <2>5, <2>6, <2>7 DEF NextOwed, so, after
<1> QED  BY <1>2, <1>3

(* Where the look ahead finds nothing, no day is owed that matters yet.    *)
LEMMA NothingIsLeft ==
  ASSUME NEW ask \in UNION Wishes, NEW today \in ClockDays, NEW cursor \in Cursors(ask.rule),
         Reminds(ask.rule, cursor) = Nothing,
         NEW day \in Nat, After(ask.rule, cursor) < day, day <= today + 2
  PROVE  ~ IsOwed(ask.rule, day)
<1> DEFINE rule == ask.rule
<1> DEFINE after == After(rule, cursor)
<1> SUFFICES ASSUME IsOwed(rule, day) PROVE FALSE
  OBVIOUS
<1>1. AskedFor(rule) /\ Lookahead \in Nat \ {0} /\ today \in Nat
  BY RemindersAssumption DEF AskedFor
<1>2. /\ after \in Nat \ {0} /\ cursor \in Nat /\ cursor <= after
      /\ rule.anchor - 1 <= after /\ rule.anchor \in Nat /\ rule.anchor > 2
  BY <1>1, CursorBounds DEF AskedFor
<1>3. CASE rule.frequency = "once"
  <2>1. day = rule.anchor
    BY <1>3 DEF IsOwed
  <2>2. cursor # NoDate
    <3>1. Reminds(rule, NoDate).posted = rule.anchor
      BY <1>3 DEF Reminds
    <3> QED  BY <1>2, <3>1 DEF Nothing, NoDate
  <2>3. after = cursor /\ cursor >= rule.anchor
    BY <2>2 DEF After, Cursors
  <2> QED  BY <1>2, <2>1, <2>3
<1>4. CASE rule.frequency # "once"
  <2> DEFINE first == FirstIndexAfter(rule, after)
  <2> DEFINE date(k) == SequenceDate(rule, k).date
  <2> DEFINE Carries(k) == OccurrenceAt(rule, k).posted # NoDate
  <2>1. Repeats(rule)
    BY <1>1, <1>4 DEF AskedFor, Repeats
  <2>2. /\ first \in Nat
        /\ \A k \in Nat : k >= first =>
             /\ date(k) \in Nat /\ date(k) > after /\ Names(rule, date(k))
             /\ IsOwed(rule, date(k)) <=> Carries(k)
        /\ \A d \in Nat : d > after /\ IsOwed(rule, d) =>
             \E k \in Nat : k >= first /\ date(k) = d /\ Carries(k)
    BY <2>1, OwedIsPosted
  <2>3. Reminds(rule, cursor) = FirstPosted(rule, first)
    BY <1>4 DEF Reminds
  <2>4. \A k \in Nat, j \in Nat : k < j => date(k) < date(j)
    BY <2>1, SequenceIncreases DEF Repeats
  <2> HIDE DEF after, first
  <2>5. \A k \in first .. first + Lookahead - 1 : ~ Carries(k)
    BY <2>2, <2>3, FirstPostedIs DEF Nothing, NoDate
  <2> HIDE DEF date, Carries
  <2> DEFINE Later == {k \in Nat : k >= first /\ Carries(k)}
  <2>6. PICK i \in Nat : i >= first /\ date(i) = day /\ Carries(i)
    BY <1>2, <2>2 DEF after
  <2>7. PICK j \in Later : \A k \in Later : j <= k
    <3>1. Later \subseteq Nat /\ i \in Later
      BY <2>6
    <3> HIDE DEF Later
    <3> QED  BY <3>1, LeastNatural
  <2>8. j \in Nat /\ first + Lookahead <= j /\ j <= i
    BY <1>1, <2>2, <2>5, <2>6, <2>7
  <2> DEFINE y == date(j)
  <2>9. y \in Nat /\ y > after /\ IsOwed(rule, y) /\ y <= day
    BY <2>2, <2>4, <2>6, <2>7, <2>8
  <2> DEFINE S == PassedSince(rule, y)
  <2> DEFINE f == [k \in first .. first + Lookahead - 1 |-> date(k)]
  <2>10. ASSUME NEW k \in first .. first + Lookahead - 1 PROVE date(k) \in S
    <3>1. k \in Nat /\ k >= first /\ k < j
      BY <1>1, <2>2, <2>8
    <3>2. /\ date(k) \in Nat /\ date(k) > after /\ Names(rule, date(k)) /\ date(k) < y
      BY <2>2, <2>4, <2>8, <3>1
    <3>3. date(k) \in rule.anchor .. y - 1
      <4> HIDE DEF y
      <4> QED  BY <1>2, <2>9, <3>2 DEF after
    <3>4. ASSUME NEW between \in date(k) .. y - 1 PROVE ~ IsOwed(rule, between)
      <4>1. between \in Nat /\ between > after /\ between < y
        <5> HIDE DEF y
        <5> QED  BY <1>2, <2>9, <3>2, <3>4 DEF after
      <4>2. SUFFICES ASSUME IsOwed(rule, between) PROVE FALSE
        OBVIOUS
      <4>3. PICK n \in Nat : n >= first /\ date(n) = between /\ Carries(n)
        BY <2>2, <4>1, <4>2
      <4>4. j <= n
        BY <2>7, <4>3
      <4> QED  BY <2>4, <2>8, <2>9, <4>1, <4>3, <4>4
    <3> QED  BY <3>2, <3>3, <3>4 DEF PassedSince
  <2>11. IsFiniteSet(S)
    <3>1. IsFiniteSet(rule.anchor .. y - 1)
      <4> DEFINE last == y - 1
      <4>1. last \in Int /\ rule.anchor \in Int
        BY <1>2, <2>9
      <4> HIDE DEF last
      <4>2. IsFiniteSet(rule.anchor .. last)
        BY <4>1, FS_Interval
      <4> QED  BY <4>2 DEF last
    <3>2. S \subseteq rule.anchor .. y - 1
      BY DEF PassedSince
    <3> QED  BY <3>1, <3>2, FS_Subset
  <2>12. Cardinality(S) >= Lookahead
    <3>1. f \in [first .. first + Lookahead - 1 -> S]
      BY <2>10
    <3>2. ASSUME NEW k \in first .. first + Lookahead - 1, NEW n \in first .. first + Lookahead - 1,
                 k < n
          PROVE  f[k] # f[n]
      <4>1. k \in Nat /\ n \in Nat /\ k >= first /\ n >= first
        BY <2>2
      <4>2. date(k) \in Nat /\ date(n) \in Nat /\ date(k) < date(n)
        BY <2>2, <2>4, <3>2, <4>1
      <4> QED  BY <4>2
    <3>3. first \in Int /\ Lookahead \in Nat
      BY <1>1, <2>2
    <3> HIDE DEF f, S
    <3>4. \A k \in first .. first + Lookahead - 1, n \in first .. first + Lookahead - 1 :
            k < n => f[k] # f[n]
      BY <3>2
    <3> QED  BY <2>11, <3>1, <3>3, <3>4, AtLeastAsMany
  <2>13. Cardinality(S) < Lookahead
    <3>1. y \in rule.anchor .. today + 2
      <4> HIDE DEF y
      <4> QED  BY <1>1, <1>2, <2>9 DEF after
    <3> HIDE DEF y
    <3> QED  BY <1>4, <2>9, <3>1, LookaheadAssumption
  <2>14. Cardinality(S) \in Nat
    BY <2>11, FS_CardinalityType
  <2> QED  BY <1>1, <2>12, <2>13, <2>14
<1> QED  BY <1>3, <1>4

-----------------------------------------------------------------------------
(* A backlog, claimed in one step.                                         *)

(* The catching up of a claim, one occurrence at a time.                   *)
Catches(f, r, n) ==
  f = [k \in 0 .. n |->
         IF k = 0 THEN [occurrence |-> r.last, posted |-> NoDate]
         ELSE Caught(f[k - 1], Reminds(r.ask.rule, f[k - 1].occurrence), r.ask.at)]

LEMMA SomethingCatches == ASSUME NEW r, NEW n \in Nat PROVE \E f : Catches(f, r, n)
<1> DEFINE start == [occurrence |-> r.last, posted |-> NoDate]
<1> DEFINE Next1(x) == Caught(x, Reminds(r.ask.rule, x.occurrence), r.ask.at)
<1> DEFINE Bad == {k \in Nat : ~ \E f : Catches(f, r, k)}
<1> SUFFICES ASSUME Bad # {} PROVE FALSE
  OBVIOUS
<1>1. PICK k \in Bad : \A j \in Bad : k <= j
  <2>1. Bad \subseteq Nat
    OBVIOUS
  <2> HIDE DEF Bad
  <2> QED  BY <2>1, LeastNatural
<1>2. CASE k = 0
  <2> DEFINE f == [i \in 0 .. k |-> start]
  <2>1. Catches(f, r, k)
    BY <1>2 DEF Catches
  <2> QED  BY <1>1, <2>1
<1>3. CASE k # 0
  <2>1. k - 1 \in Nat /\ k - 1 \notin Bad
    BY <1>1, <1>3
  <2>2. PICK h : Catches(h, r, k - 1)
    BY <2>1
  <2> DEFINE f == [i \in 0 .. k |-> IF i = 0 THEN start ELSE Next1(h[i - 1])]
  <2>3. \A i \in 0 .. (k - 1) : h[i] = IF i = 0 THEN start ELSE Next1(h[i - 1])
    BY <2>2 DEF Catches
  <2>4. \A i \in 0 .. (k - 1) : f[i] = h[i]
    <3> HIDE DEF start, Next1
    <3> QED  BY <1>1, <2>3
  <2>5. f = [i \in 0 .. k |-> IF i = 0 THEN start ELSE Next1(f[i - 1])]
    <3>1. \A i \in 0 .. k : i # 0 => i - 1 \in 0 .. (k - 1)
      BY <1>1
    <3> HIDE DEF start, Next1
    <3>2. \A i \in 0 .. k : i # 0 => f[i - 1] = h[i - 1]
      <4> HIDE DEF f
      <4> QED  BY <2>4, <3>1
    <3>3. \A i \in 0 .. k : (IF i = 0 THEN start ELSE Next1(h[i - 1]))
                          = (IF i = 0 THEN start ELSE Next1(f[i - 1]))
      <4> HIDE DEF f
      <4> QED  BY <3>2
    <3> QED  BY <3>3
  <2>6. Catches(f, r, k)
    <3> HIDE DEF f
    <3> QED  BY <2>5 DEF Catches
  <2> QED  BY <1>1, <2>6
<1> QED  BY <1>2, <1>3

(* One step moves to the next day owed when it has come round, or rests.   *)
MovesOn(r, x, y) ==
  /\ Reminds(r.ask.rule, x.occurrence) # Nothing
  /\ y = Reminds(r.ask.rule, x.occurrence) /\ Due(y.posted, r.ask.at)
Rests(r, x) ==
  \/ Reminds(r.ask.rule, x.occurrence) = Nothing
  \/ ~ Due(Reminds(r.ask.rule, x.occurrence).posted, r.ask.at)

LEMMA BacklogSteps ==
  ASSUME NEW r
  PROVE  \E f : /\ Backlog(r) = f[CatchUpLimit]
                /\ f[0].occurrence = r.last /\ f[0].posted = NoDate
                /\ \A k \in 1 .. CatchUpLimit :
                     \/ MovesOn(r, f[k - 1], f[k])
                     \/ f[k] = f[k - 1] /\ Rests(r, f[k - 1])
<1> DEFINE f == CHOOSE f : Catches(f, r, CatchUpLimit)
<1>1. CatchUpLimit \in Nat \ {0}
  BY RemindersAssumption
<1>2. Backlog(r) = f[CatchUpLimit]
  BY DEF Backlog, Catches
<1>3. Catches(f, r, CatchUpLimit)
  BY <1>1, SomethingCatches
<1> HIDE DEF f
<1>4. f[0] = [occurrence |-> r.last, posted |-> NoDate]
  BY <1>1, <1>3 DEF Catches
<1>5. \A k \in 1 .. CatchUpLimit :
        f[k] = Caught(f[k - 1], Reminds(r.ask.rule, f[k - 1].occurrence), r.ask.at)
  BY <1>1, <1>3 DEF Catches
<1>6. ASSUME NEW k \in 1 .. CatchUpLimit
      PROVE  \/ MovesOn(r, f[k - 1], f[k])
             \/ f[k] = f[k - 1] /\ Rests(r, f[k - 1])
  BY <1>5 DEF Caught, MovesOn, Rests
<1> QED  BY <1>2, <1>4, <1>6

(* What a claim takes up has come round, and is later than its watermark.  *)
Comes(r, x) ==
  /\ x.occurrence \in Nat /\ x.occurrence >= r.ask.rule.anchor /\ x.occurrence > r.last
  /\ IsOwed(r.ask.rule, x.occurrence)
  /\ x.posted = SentOn(r.ask.rule, x.occurrence) /\ x.posted \in Nat \ {NoDate}
  /\ x.occurrence <= x.posted + 2
  /\ Due(x.posted, r.ask.at)

Watermarked(r) == AskedFor(r.ask.rule) /\ r.last \in Cursors(r.ask.rule)

LEMMA MoveComes ==
  ASSUME NEW r, Watermarked(r), NEW x, NEW y, MovesOn(r, x, y),
         x.occurrence = r.last \/ Comes(r, x)
  PROVE  Comes(r, y) /\ y.occurrence > x.occurrence /\ x.occurrence \in Nat
<1>1. AskedFor(r.ask.rule) /\ r.last \in Cursors(r.ask.rule) /\ r.last \in Nat
  BY DEF Watermarked, Cursors, NoDate
<1>2. x.occurrence \in Cursors(r.ask.rule) /\ x.occurrence >= r.last /\ x.occurrence \in Nat
  BY <1>1 DEF Comes, Cursors, NoDate
<1>3. NextOwed(r.ask.rule, x.occurrence, y) /\ Due(y.posted, r.ask.at)
  BY <1>1, <1>2, RemindsTheNext DEF MovesOn
<1> QED  BY <1>1, <1>2, <1>3 DEF NextOwed, Comes

LEMMA BacklogComes ==
  ASSUME NEW r, Watermarked(r)
  PROVE  \E f :
           /\ Backlog(r) = f[CatchUpLimit]
           /\ f[0].occurrence = r.last /\ f[0].posted = NoDate
           /\ \A k \in 0 .. CatchUpLimit : f[k] = f[0] \/ Comes(r, f[k])
           /\ \A k \in 1 .. CatchUpLimit :
                \/ MovesOn(r, f[k - 1], f[k]) /\ Comes(r, f[k])
                     /\ f[k].occurrence > f[k - 1].occurrence
                \/ f[k] = f[k - 1] /\ Rests(r, f[k - 1])
<1> DEFINE C == CatchUpLimit
<1>1. C \in Nat \ {0}
  BY RemindersAssumption
<1>2. PICK f : /\ Backlog(r) = f[C]
               /\ f[0].occurrence = r.last /\ f[0].posted = NoDate
               /\ \A k \in 1 .. C : \/ MovesOn(r, f[k - 1], f[k])
                                    \/ f[k] = f[k - 1] /\ Rests(r, f[k - 1])
  BY BacklogSteps
<1> DEFINE Bad == {k \in 0 .. C : ~ (f[k] = f[0] \/ Comes(r, f[k]))}
<1>3. Bad = {}
  <2> SUFFICES ASSUME Bad # {} PROVE FALSE
    OBVIOUS
  <2>1. PICK k \in Bad : \A j \in Bad : k <= j
    <3>1. Bad \subseteq Nat
      BY <1>1
    <3> HIDE DEF Bad
    <3> QED  BY <3>1, LeastNatural
  <2>2. k \in 1 .. C /\ k - 1 \in 0 .. C /\ k - 1 \notin Bad
    BY <1>1, <2>1
  <2>3. f[k - 1].occurrence = r.last \/ Comes(r, f[k - 1])
    BY <1>2, <2>2
  <2>4. MovesOn(r, f[k - 1], f[k])
    BY <1>2, <2>1, <2>2
  <2> QED  BY <2>1, <2>3, <2>4, MoveComes
<1>4. ASSUME NEW k \in 1 .. C, MovesOn(r, f[k - 1], f[k])
      PROVE  Comes(r, f[k]) /\ f[k].occurrence > f[k - 1].occurrence
  <2>1. k - 1 \in 0 .. C
    BY <1>1
  <2>2. f[k - 1].occurrence = r.last \/ Comes(r, f[k - 1])
    BY <1>2, <1>3, <2>1
  <2> QED  BY <1>4, <2>2, MoveComes
<1>5. \A k \in 0 .. C : f[k] = f[0] \/ Comes(r, f[k])
  BY <1>3
<1> QED  BY <1>2, <1>4, <1>5

-----------------------------------------------------------------------------
(* The days of a claim: as many as it may move past, or it left none.      *)
ComeRound(r, last) ==
  {day \in r.last + 1 .. last : IsOwed(r.ask.rule, day) /\ Due(SentOn(r.ask.rule, day), r.ask.at)}

LEMMA BacklogClaims ==
  ASSUME NEW r, Watermarked(r), Backlog(r).posted # NoDate
  PROVE  /\ Comes(r, Backlog(r))
         /\ \/ Rests(r, Backlog(r))
            \/ /\ IsFiniteSet(ComeRound(r, Backlog(r).occurrence))
               /\ Cardinality(ComeRound(r, Backlog(r).occurrence)) >= CatchUpLimit
<1> DEFINE C == CatchUpLimit
<1> DEFINE last == Backlog(r).occurrence
<1> DEFINE S == ComeRound(r, last)
<1>1. C \in Nat \ {0}
  BY RemindersAssumption
<1>2. PICK f : /\ Backlog(r) = f[C]
               /\ f[0].occurrence = r.last /\ f[0].posted = NoDate
               /\ \A k \in 0 .. C : f[k] = f[0] \/ Comes(r, f[k])
               /\ \A k \in 1 .. C :
                    \/ MovesOn(r, f[k - 1], f[k]) /\ Comes(r, f[k])
                         /\ f[k].occurrence > f[k - 1].occurrence
                    \/ f[k] = f[k - 1] /\ Rests(r, f[k - 1])
  BY BacklogComes
<1>3. Comes(r, f[C])
  <2>1. C \in 0 .. C
    BY <1>1
  <2> QED  BY <1>2, <2>1
<1>4. CASE \E n \in 1 .. C : f[n] = f[n - 1] /\ Rests(r, f[n - 1])
  <2>1. PICK n \in 1 .. C : f[n] = f[n - 1] /\ Rests(r, f[n - 1])
    BY <1>4
  <2> DEFINE Bad == {k \in n .. C : f[k] # f[n]}
  <2>2. Bad = {}
    <3> SUFFICES ASSUME Bad # {} PROVE FALSE
      OBVIOUS
    <3>1. PICK k \in Bad : \A j \in Bad : k <= j
      <4>1. Bad \subseteq Nat
        BY <1>1
      <4> HIDE DEF Bad
      <4> QED  BY <4>1, LeastNatural
    <3>2. k # n /\ k \in 1 .. C /\ k - 1 \in n .. C /\ k - 1 \notin Bad
      BY <1>1, <3>1
    <3>3. f[k - 1] = f[n]
      BY <3>2
    <3>4. ~ MovesOn(r, f[k - 1], f[k])
      BY <2>1, <3>3 DEF MovesOn, Rests
    <3>5. f[k] = f[k - 1]
      BY <1>2, <3>2, <3>4
    <3> QED  BY <3>1, <3>3, <3>5
  <2>3. C \in n .. C
    BY <1>1
  <2>4. f[C] = f[n]
    BY <2>2, <2>3
  <2> QED  BY <1>2, <1>3, <2>1, <2>4
<1>5. CASE ~ \E n \in 1 .. C : f[n] = f[n - 1] /\ Rests(r, f[n - 1])
  <2>1. \A n \in 1 .. C : Comes(r, f[n]) /\ f[n].occurrence > f[n - 1].occurrence
    BY <1>2, <1>5
  <2>2. r.last \in Nat
    BY DEF Watermarked, Cursors, NoDate
  <2>3. \A n \in 0 .. C : f[n].occurrence \in Nat
    BY <1>2, <2>2 DEF Comes
  <2> DEFINE Behind == {k \in 1 .. C : \E n \in 0 .. k - 1 : f[n].occurrence >= f[k].occurrence}
  <2>4. Behind = {}
    <3> SUFFICES ASSUME Behind # {} PROVE FALSE
      OBVIOUS
    <3>1. PICK k \in Behind : \A j \in Behind : k <= j
      <4>1. Behind \subseteq Nat
        BY <1>1
      <4> HIDE DEF Behind
      <4> QED  BY <4>1, LeastNatural
    <3>2. PICK n \in 0 .. k - 1 : f[n].occurrence >= f[k].occurrence
      BY <3>1
    <3>3. k - 1 \in 0 .. C /\ k - 1 \notin Behind
      BY <1>1, <3>1
    <3>4. f[k].occurrence > f[k - 1].occurrence /\ k \in 1 .. C /\ k \in 0 .. C /\ n \in 0 .. C
      BY <1>1, <2>1, <3>1
    <3>5. n # k - 1
      BY <2>3, <3>2, <3>3, <3>4
    <3>6. k - 1 \in 1 .. C /\ n \in 0 .. (k - 1) - 1
      BY <1>1, <3>3, <3>5
    <3>7. ~ f[n].occurrence >= f[k - 1].occurrence
      BY <3>3, <3>6
    <3> QED  BY <2>3, <3>2, <3>3, <3>4, <3>7
  <2>5. \A k \in 1 .. C, n \in 0 .. C : n < k => f[n].occurrence < f[k].occurrence
    <3>1. SUFFICES ASSUME NEW k \in 1 .. C, NEW n \in 0 .. C, n < k
                   PROVE  f[n].occurrence < f[k].occurrence
      OBVIOUS
    <3>2. n \in 0 .. k - 1 /\ k \in 0 .. C
      BY <1>1, <3>1
    <3>3. ~ f[n].occurrence >= f[k].occurrence
      BY <2>4, <3>2
    <3> QED  BY <2>3, <3>2, <3>3
  <2>6. last = f[C].occurrence /\ last \in Nat
    BY <1>2, <1>3 DEF Comes
  <2> HIDE DEF last
  <2>7. IsFiniteSet(S)
    <3> DEFINE start == r.last + 1
    <3>3. start \in Int /\ last \in Int
      BY <2>2, <2>6
    <3> HIDE DEF start
    <3>4. IsFiniteSet(start .. last)
      BY <3>3, FS_Interval
    <3>1. IsFiniteSet(r.last + 1 .. last)
      BY <3>4 DEF start
    <3>2. S \subseteq r.last + 1 .. last
      BY DEF ComeRound
    <3> QED  BY <3>1, <3>2, FS_Subset
  <2> DEFINE g == [k \in 1 .. 1 + C - 1 |-> f[k].occurrence]
  <2>8. 1 .. 1 + C - 1 = 1 .. C
    BY <1>1
  <2>9. ASSUME NEW k \in 1 .. C PROVE f[k].occurrence \in S
    <3>1. Comes(r, f[k]) /\ f[k].occurrence <= last
      <4>1. k = C \/ k < C
        BY <1>1
      <4>2. C \in 1 .. C /\ k \in 0 .. C
        BY <1>1
      <4> QED  BY <2>1, <2>3, <2>5, <2>6, <4>1, <4>2
    <3> QED  BY <2>2, <2>6, <3>1 DEF Comes, ComeRound
  <2>10. g \in [1 .. 1 + C - 1 -> S]
    <3> HIDE DEF S
    <3> QED  BY <2>8, <2>9
  <2>11. \A i \in 1 .. 1 + C - 1, j \in 1 .. 1 + C - 1 : i < j => g[i] # g[j]
    <3>1. SUFFICES ASSUME NEW i \in 1 .. 1 + C - 1, NEW j \in 1 .. 1 + C - 1, i < j
                   PROVE  g[i] # g[j]
      OBVIOUS
    <3>2. i \in 1 .. C /\ j \in 1 .. C /\ i \in 0 .. C /\ j \in 0 .. C
      BY <1>1
    <3>3. f[i].occurrence < f[j].occurrence /\ f[i].occurrence \in Nat /\ f[j].occurrence \in Nat
      BY <2>3, <2>5, <3>1, <3>2
    <3>4. f[i].occurrence # f[j].occurrence
      BY <3>3
    <3> QED  BY <3>4
  <2>12. Cardinality(S) >= C
    <3>1. 1 \in Int /\ C \in Nat
      BY <1>1
    <3> HIDE DEF g, S, C
    <3> QED  BY <2>7, <2>10, <2>11, <3>1, AtLeastAsMany
  <2> QED  BY <1>2, <1>3, <2>7, <2>12 DEF last
<1> QED  BY <1>4, <1>5

(* Where the catching up rests, nothing more has come round.               *)
LEMMA NothingMoreCameRound ==
  ASSUME NEW r, Watermarked(r), r.ask \in UNION Wishes, clock.day \in ClockDays,
         NEW x, Comes(r, x), Rests(r, x),
         NEW day \in Nat, day > x.occurrence, day <= clock.day + 2, IsOwed(r.ask.rule, day)
  PROVE  ~ Due(SentOn(r.ask.rule, day), r.ask.at)
<1> DEFINE rule == r.ask.rule
<1> DEFINE y == Reminds(rule, x.occurrence)
<1>1. AskedFor(rule)
  BY DEF Watermarked
<1>2. /\ x.occurrence \in Cursors(rule) /\ x.occurrence \in Nat
      /\ After(rule, x.occurrence) = x.occurrence
  <2>1. x.occurrence \in Nat /\ x.occurrence >= rule.anchor /\ rule.anchor \in Nat \ {0, 1, 2}
    BY <1>1 DEF Comes, AskedFor, RuleFits
  <2> QED  BY <2>1 DEF Cursors, After, NoDate
<1>3. y # Nothing
  <2>1. ASSUME y = Nothing PROVE FALSE
    BY <1>2, <2>1, NothingIsLeft
  <2> QED  BY <2>1
<1>4. NextOwed(rule, x.occurrence, y)
  BY <1>1, <1>2, <1>3, RemindsTheNext
<1>5. ~ Due(y.posted, r.ask.at)
  BY <1>3 DEF Rests
<1> HIDE DEF y
<1>6. y.occurrence \in Nat /\ y.occurrence <= day /\ IsOwed(rule, y.occurrence)
      /\ y.posted = SentOn(rule, y.occurrence)
  BY <1>2, <1>4 DEF NextOwed
<1>7. rule.frequency # "once" => ~ PassedBy(rule, y.occurrence) /\ ~ PassedBy(rule, day)
  BY <1>6 DEF IsOwed
<1>8. SentOn(rule, y.occurrence) \in Int /\ SentOn(rule, day) \in Int
      /\ SentOn(rule, y.occurrence) <= SentOn(rule, day)
  BY <1>6, <1>7, SentInOrder
<1>9. clock.day \in Nat
  BY RemindersAssumption
<1> QED  BY <1>5, <1>6, <1>8, <1>9 DEF Due

-----------------------------------------------------------------------------
ReminderRows == [id : 1 .. SaveLimit, ask : UNION Wishes, last : Nat, next : Nat]

(* A stored row looks for the day its schedule owes after its watermark.   *)
RowFits(r) ==
  /\ r \in ReminderRows /\ r.id <= saves
  /\ r.last \in Cursors(r.ask.rule)
  /\ r.next = Reminds(r.ask.rule, r.last).posted

RemindersInv ==
  /\ wishes \in Wishes /\ saves \in 0 .. SaveLimit
  /\ clock \in [day : ClockDays, hour : Int]
  /\ pass \in [Replicas -> [at : {"idle", "listed", "claimed"}, id : Nat]]
  /\ \A w \in Replicas : pass[w].at = "listed" => pass[w].id # 0
  /\ reminder # NoReminder => RowFits(reminder) /\ reminded = reminder.last
  /\ saving # NotSaving =>
       /\ saving \in [at : {"locked"}, ask : wishes, read : {reminder}]
       /\ saves >= 1

LEMMA FirstReminder ==
  ASSUME NEW rule, AskedFor(rule)
  PROVE  NoDate \in Cursors(rule) /\ Reminds(rule, NoDate).posted \in Nat
<1>1. NoDate \in Cursors(rule)
  BY DEF Cursors
<1>2. CASE Reminds(rule, NoDate) = Nothing
  BY <1>1, <1>2 DEF Nothing, NoDate
<1>3. CASE Reminds(rule, NoDate) # Nothing
  BY <1>1, <1>3, RemindsTheNext DEF NextOwed
<1> QED  BY <1>1, <1>2, <1>3

LEMMA RemindersStart == RemindersInit => RemindersInv
<1> SUFFICES ASSUME RemindersInit PROVE RemindersInv
  OBVIOUS
<1>1. clock \in [day : ClockDays, hour : Int]
  <2>1. \E day \in ClockDays : \A other \in ClockDays : day <= other
    BY RemindersAssumption, LeastNatural
  <2> QED  BY <2>1 DEF RemindersInit
<1>2. saves \in 0 .. SaveLimit
  BY RemindersAssumption DEF RemindersInit
<1> QED  BY <1>1, <1>2 DEF RemindersInit, RemindersInv, Resting

-----------------------------------------------------------------------------
(* Each step keeps what is known of the row, the save and the passes.      *)

LEMMA RowIsWatermarked ==
  ASSUME NEW r, RowFits(r)
  PROVE  r \in ReminderRows /\ r.ask \in UNION Wishes /\ Watermarked(r) /\ AskedFor(r.ask.rule)
BY RemindersAssumption DEF RowFits, ReminderRows, Watermarked, AskedFor

LEMMA LockedSave ==
  ASSUME RemindersInv, NEW ask \in wishes, SaveLocks(ask) PROVE RemindersInv'
<1>1. saves' = saves + 1 /\ saves' \in 0 .. SaveLimit /\ saves' >= 1
  BY RemindersAssumption DEF RemindersInv, SaveLocks
<1>2. saving' \in [at : {"locked"}, ask : wishes, read : {reminder}]
  BY DEF SaveLocks
<1>3. reminder # NoReminder => RowFits(reminder)'
  BY <1>1 DEF RemindersInv, SaveLocks, RowFits, ReminderRows
<1> QED  BY <1>1, <1>2, <1>3 DEF RemindersInv, SaveLocks

LEMMA WrittenSave == ASSUME RemindersInv, SaveWrites PROVE RemindersInv'
<1> DEFINE unchanged == saving.read.id # 0 /\ saving.read.ask = saving.ask
<1>1. /\ saving # NotSaving /\ saving.ask \in wishes /\ saving.read = reminder
      /\ saves \in 1 .. SaveLimit /\ saves' = saves
  BY DEF RemindersInv, SaveWrites
<1>2. /\ wishes \in Wishes /\ wishes' = wishes
      /\ saving.ask \in UNION Wishes
  BY <1>1 DEF RemindersInv, SaveWrites
<1>3. AskedFor(saving.ask.rule)
  BY <1>2, RemindersAssumption DEF AskedFor
<1>4. reminder' =
       [id |-> saves, ask |-> saving.ask,
        last |-> IF unchanged THEN saving.read.last ELSE NoDate,
        next |-> IF unchanged THEN saving.read.next ELSE Reminds(saving.ask.rule, NoDate).posted]
  BY DEF SaveWrites
<1>5. reminded' = IF unchanged THEN reminded ELSE NoDate
  BY DEF SaveWrites
<1>6. RowFits(reminder)' /\ reminded' = reminder'.last
  <2>1. CASE unchanged
    <3>1. reminder # NoReminder
      BY <1>1, <2>1 DEF NoReminder
    <3>2. RowFits(reminder) /\ reminded = reminder.last
      BY <3>1 DEF RemindersInv
    <3>3. reminder' = [id |-> saves, ask |-> reminder.ask, last |-> reminder.last,
                       next |-> reminder.next]
      BY <1>1, <1>4, <2>1
    <3> QED  BY <1>1, <1>5, <2>1, <3>2, <3>3 DEF RowFits, ReminderRows
  <2>2. CASE ~ unchanged
    <3>1. NoDate \in Cursors(saving.ask.rule) /\ Reminds(saving.ask.rule, NoDate).posted \in Nat
      BY <1>3, FirstReminder
    <3>2. reminder' = [id |-> saves, ask |-> saving.ask, last |-> NoDate,
                       next |-> Reminds(saving.ask.rule, NoDate).posted]
      BY <1>4, <2>2
    <3>3. NoDate \in Nat
      BY DEF NoDate
    <3> HIDE DEF unchanged
    <3> QED  BY <1>1, <1>2, <1>5, <2>2, <3>1, <3>2, <3>3 DEF RowFits, ReminderRows
  <2> QED  BY <2>1, <2>2
<1>7. saving' = NotSaving
  BY DEF SaveWrites
<1> QED  BY <1>1, <1>2, <1>6, <1>7 DEF RemindersInv, SaveWrites

LEMMA RemovedReminder == ASSUME RemindersInv, RemoveNotification PROVE RemindersInv'
<1>1. saving = NotSaving
  BY DEF RemoveNotification, RemindersInv
<1> QED  BY <1>1 DEF RemindersInv, RemoveNotification

(* Only the row moves in these; what was known of it stays.                *)
LEMMA SameRow ==
  ASSUME RemindersInv, UNCHANGED <<reminder, saving, wishes, saves, reminded>>
  PROVE  /\ (reminder # NoReminder => RowFits(reminder) /\ reminded = reminder.last)'
         /\ (saving # NotSaving =>
               /\ saving \in [at : {"locked"}, ask : wishes, read : {reminder}]
               /\ saves >= 1)'
BY DEF RemindersInv, RowFits

LEMMA ListedPass ==
  ASSUME RemindersInv, NEW w \in Replicas, ReadDueReminders(w) PROVE RemindersInv'
<1>1. UNCHANGED <<reminder, saving, clock, mailOn, wishes, saves, reminded>>
  BY DEF ReadDueReminders
<1>2. reminder # NoReminder /\ reminder.id \in 1 .. SaveLimit
  BY RowIsWatermarked DEF ReadDueReminders, RemindersInv, ReminderRows
<1>3. SaveLimit \in Nat
  BY RemindersAssumption
<1>4. pass' = [pass EXCEPT ![w] = [at |-> "listed", id |-> reminder.id]]
  BY DEF ReadDueReminders
<1>5. /\ pass' \in [Replicas -> [at : {"idle", "listed", "claimed"}, id : Nat]]
      /\ \A v \in Replicas : pass'[v].at = "listed" => pass'[v].id # 0
  BY <1>2, <1>3, <1>4 DEF RemindersInv
<1> QED  BY <1>1, <1>5, SameRow DEF RemindersInv

LEMMA EndedPass ==
  ASSUME RemindersInv, NEW w \in Replicas, PassEnds(w) PROVE RemindersInv'
<1>1. UNCHANGED <<reminder, saving, clock, mailOn, wishes, saves, reminded>>
  BY DEF PassEnds
<1>2. pass' = [pass EXCEPT ![w] = Resting]
  BY DEF PassEnds
<1>3. /\ pass' \in [Replicas -> [at : {"idle", "listed", "claimed"}, id : Nat]]
      /\ \A v \in Replicas : pass'[v].at = "listed" => pass'[v].id # 0
  BY <1>2 DEF RemindersInv, Resting
<1> QED  BY <1>1, <1>3, SameRow DEF RemindersInv

LEMMA PassedTime == ASSUME RemindersInv, TimePasses PROVE RemindersInv'
<1>1. UNCHANGED <<reminder, saving, pass, mailOn, wishes, saves, reminded>>
  BY DEF TimePasses
<1>2. clock' \in [day : ClockDays, hour : Int]
  BY DEF TimePasses, RemindersInv
<1> QED  BY <1>1, <1>2, SameRow DEF RemindersInv

LEMMA Reconfigured == ASSUME RemindersInv, Reconfigure PROVE RemindersInv'
<1>1. UNCHANGED <<reminder, saving, clock, wishes, saves, reminded>>
  BY DEF Reconfigure
<1>2. pass' = [v \in Replicas |-> Resting]
  BY DEF Reconfigure
<1>3. /\ pass' \in [Replicas -> [at : {"idle", "listed", "claimed"}, id : Nat]]
      /\ \A v \in Replicas : pass'[v].at = "listed" => pass'[v].id # 0
  BY <1>2 DEF Resting
<1> QED  BY <1>1, <1>3, SameRow DEF RemindersInv

(* A claim is of a stored row nobody holds, and moves its watermark to     *)
(* what the catching up arrived at.                                        *)
LEMMA ClaimMoves ==
  ASSUME RemindersInv, NEW w \in Replicas, ClaimReminder(w)
  PROVE  /\ reminder # NoReminder /\ RowFits(reminder) /\ reminded = reminder.last
         /\ saving = NotSaving
         /\ Backlog(reminder).posted # NoDate /\ Comes(reminder, Backlog(reminder))
         /\ reminded' = Backlog(reminder).occurrence
         /\ reminder' = [reminder EXCEPT !.last = Backlog(reminder).occurrence,
                           !.next = Reminds(reminder.ask.rule, Backlog(reminder).occurrence).posted]
<1>1. reminder # NoReminder
  BY DEF ClaimReminder, RemindersInv, NoReminder
<1>2. RowFits(reminder) /\ reminded = reminder.last
  BY <1>1 DEF RemindersInv
<1>3. saving = NotSaving
  BY DEF ClaimReminder, RemindersInv
<1>4. /\ Backlog(reminder).posted # NoDate
      /\ reminded' = Backlog(reminder).occurrence
      /\ reminder' = [reminder EXCEPT !.last = Backlog(reminder).occurrence,
                        !.next = Reminds(reminder.ask.rule, Backlog(reminder).occurrence).posted]
  BY DEF ClaimReminder, TakesUp
<1>5. Comes(reminder, Backlog(reminder))
  BY <1>2, <1>4, RowIsWatermarked, BacklogClaims
<1> QED  BY <1>1, <1>2, <1>3, <1>4, <1>5

LEMMA ClaimedPass ==
  ASSUME RemindersInv, NEW w \in Replicas, ClaimReminder(w) PROVE RemindersInv'
<1> DEFINE last == Backlog(reminder).occurrence
<1> DEFINE rule == reminder.ask.rule
<1>1. /\ reminder # NoReminder /\ RowFits(reminder) /\ saving = NotSaving
      /\ Comes(reminder, Backlog(reminder)) /\ reminded' = last
      /\ reminder' = [reminder EXCEPT !.last = last, !.next = Reminds(rule, last).posted]
  BY ClaimMoves
<1>2. reminder \in ReminderRows /\ AskedFor(rule)
  BY <1>1, RowIsWatermarked
<1>3. last \in Nat /\ last \in Cursors(rule)
  BY <1>1 DEF Comes, Cursors
<1> HIDE DEF last
<1>4. Reminds(rule, last).posted \in Nat
  <2>1. CASE Reminds(rule, last) = Nothing
    BY <2>1 DEF Nothing, NoDate
  <2>2. CASE Reminds(rule, last) # Nothing
    BY <1>2, <1>3, <2>2, RemindsTheNext DEF NextOwed
  <2> QED  BY <2>1, <2>2
<1>5. UNCHANGED <<saving, clock, mailOn, wishes, saves>>
  BY DEF ClaimReminder
<1>6. /\ reminder' \in ReminderRows /\ reminder'.id = reminder.id /\ reminder'.ask = reminder.ask
      /\ reminder'.last = last /\ reminder'.next = Reminds(rule, last).posted
  BY <1>1, <1>2, <1>3, <1>4 DEF ReminderRows
<1>7. RowFits(reminder)'
  BY <1>1, <1>3, <1>5, <1>6 DEF RowFits
<1>8. pass' = [pass EXCEPT ![w] = [at |-> "claimed", id |-> 0]]
  BY DEF ClaimReminder, TakesUp
<1>9. /\ pass' \in [Replicas -> [at : {"idle", "listed", "claimed"}, id : Nat]]
      /\ \A v \in Replicas : pass'[v].at = "listed" => pass'[v].id # 0
  BY <1>8 DEF RemindersInv
<1> QED  BY <1>1, <1>5, <1>6, <1>7, <1>9 DEF RemindersInv

LEMMA RemindersStep == RemindersInv /\ [RemindersNext]_reminderVars => RemindersInv'
<1> SUFFICES ASSUME RemindersInv, [RemindersNext]_reminderVars PROVE RemindersInv'
  OBVIOUS
<1>1. CASE UNCHANGED reminderVars
  BY <1>1, SameRow DEF reminderVars, RemindersInv
<1>2. CASE \E ask \in wishes : SaveLocks(ask)
  BY <1>2, LockedSave
<1>3. CASE SaveWrites
  BY <1>3, WrittenSave
<1>4. CASE RemoveNotification
  BY <1>4, RemovedReminder
<1>5. ASSUME NEW w \in Replicas, ReadDueReminders(w) \/ ClaimReminder(w) \/ PassEnds(w)
      PROVE  RemindersInv'
  BY <1>5, ListedPass, ClaimedPass, EndedPass
<1>6. CASE TimePasses
  BY <1>6, PassedTime
<1>7. CASE Reconfigure
  BY <1>7, Reconfigured
<1> QED  BY <1>1, <1>2, <1>3, <1>4, <1>5, <1>6, <1>7 DEF RemindersNext

(* What is known of the reminder holds throughout: the row looks for the   *)
(* day its rule owes next, and a save that is under way holds it still.    *)
THEOREM RemindersHold == RemindersSpec => []RemindersInv
<1> QED  BY RemindersStart, RemindersStep, PTL DEF RemindersSpec

(* Every stored row has an id that a save gave it and a next day, and a    *)
(* pass is at one of its steps, however many replicas and saves there are. *)
THEOREM RemindersTypeCorrect == RemindersSpec => []RemindersTypeOK
<1>1. RemindersInv => RemindersTypeOK
  <2> SUFFICES ASSUME RemindersInv PROVE RemindersTypeOK
    OBVIOUS
  <2>1. reminder # NoReminder => reminder.id \in 1 .. saves /\ reminder.next >= NoDate
    <3>1. saves \in Nat /\ SaveLimit \in Nat
      BY RemindersAssumption DEF RemindersInv
    <3> QED  BY <3>1 DEF RemindersInv, RowFits, ReminderRows, NoDate
  <2> QED  BY <2>1 DEF RemindersInv, RemindersTypeOK
<1> QED  BY <1>1, RemindersHold, PTL

(* The day a row is looked for is the day the first reminder after its     *)
(* watermark goes, for every schedule, watermark and calendar, and one     *)
(* that is looked for no more owes nothing: no date arithmetic leaves a    *)
(* day out.                                                                *)
THEOREM NextIsAlwaysFirstOwed == RemindersSpec => []NextIsFirstOwed
<1>1. RemindersInv => NextIsFirstOwed
  <2> SUFFICES ASSUME RemindersInv, reminder.id # 0 PROVE NextIsFirstOwed
    BY DEF NextIsFirstOwed
  <2> DEFINE rule == reminder.ask.rule
  <2> DEFINE from == IF reminder.last = NoDate THEN rule.anchor - 1 ELSE reminder.last
  <2> DEFINE owed == {day \in from + 1 .. reminder.next + 2 : IsOwed(rule, day)}
  <2> DEFINE so == Reminds(rule, reminder.last)
  <2>1. RowFits(reminder)
    BY DEF RemindersInv, NoReminder
  <2>2. /\ reminder \in ReminderRows /\ AskedFor(rule)
        /\ reminder.last \in Cursors(rule) /\ reminder.next = so.posted
    BY <2>1, RowIsWatermarked DEF RowFits
  <2>3. from = After(rule, reminder.last)
    BY DEF After
  <2>4. from \in Nat \ {0}
    BY <2>2, <2>3, CursorBounds DEF AskedFor
  <2> HIDE DEF from
  <2>5. CASE reminder.next = NoDate
    <3>1. ASSUME rule.frequency = "once", reminder.last = NoDate PROVE FALSE
      <4>1. so.posted = rule.anchor
        BY <3>1 DEF Reminds
      <4>2. rule.anchor # NoDate
        BY <2>2 DEF AskedFor, RuleFits, NoDate
      <4> QED  BY <2>2, <2>5, <4>1, <4>2
    <3>2. ASSUME NEW day \in from + 1 .. clock.day + 2 PROVE ~ IsOwed(rule, day)
      <4>1. clock.day \in ClockDays /\ clock.day \in Nat
        BY RemindersAssumption DEF RemindersInv
      <4>2. reminder.ask \in UNION Wishes
        BY <2>2 DEF ReminderRows
      <4>3. so = Nothing
        BY <2>2, <2>5, RemindsTheNext DEF NextOwed
      <4>4. day \in Nat /\ from < day /\ day <= clock.day + 2
        BY <2>4, <4>1
      <4> QED  BY <2>2, <2>3, <4>1, <4>2, <4>3, <4>4, NothingIsLeft
    <3> QED  BY <2>5, <3>1, <3>2 DEF NextIsFirstOwed, from
  <2>6. CASE reminder.next # NoDate
    <3>1. so # Nothing
      BY <2>2, <2>6 DEF Nothing
    <3>2. NextOwed(rule, reminder.last, so)
      BY <2>2, <3>1, RemindsTheNext
    <3> HIDE DEF so
    <3>3. so.occurrence \in owed /\ reminder.next = SentOn(rule, so.occurrence)
      BY <2>2, <2>3, <2>4, <3>2 DEF NextOwed
    <3>4. \A day \in owed : so.occurrence <= day
      BY <2>3, <2>4, <3>2 DEF NextOwed
    <3>5. \E first \in owed : /\ reminder.next = SentOn(rule, first)
                              /\ \A day \in owed : first <= day
      BY <3>3, <3>4
    <3> HIDE DEF owed
    <3> QED  BY <2>6, <3>5 DEF NextIsFirstOwed, owed, from
  <2> QED  BY <2>5, <2>6
<1> QED  BY <1>1, RemindersHold, PTL

(* A claim is of days that have come round, each once and in order, and it *)
(* leaves none unless it moved past as many as it may: whatever is saved,  *)
(* removed or claimed by other replicas in between.                        *)
LEMMA ClaimsAreOwed ==
  ASSUME RemindersInv, NEW w \in Replicas, ClaimReminder(w)
  PROVE  LET rule == reminder.ask.rule
             round == {day \in reminded + 1 .. clock.day + 2 :
                         IsOwed(rule, day) /\ Due(SentOn(rule, day), reminder.ask.at)}
             left == {day \in round : day > reminded'}
         IN  /\ reminded' \in round
             /\ left # {} => Cardinality(round \ left) >= CatchUpLimit
<1> DEFINE rule == reminder.ask.rule
<1> DEFINE round == {day \in reminded + 1 .. clock.day + 2 :
                       IsOwed(rule, day) /\ Due(SentOn(rule, day), reminder.ask.at)}
<1> DEFINE left == {day \in round : day > reminded'}
<1> DEFINE x == Backlog(reminder)
<1>1. /\ RowFits(reminder) /\ reminded = reminder.last
      /\ x.posted # NoDate /\ Comes(reminder, x) /\ reminded' = x.occurrence
  BY ClaimMoves
<1>2. Watermarked(reminder) /\ reminder.ask \in UNION Wishes /\ reminder.last \in Nat
  BY <1>1, RowIsWatermarked DEF ReminderRows
<1>3. clock.day \in ClockDays /\ clock.day \in Nat
  BY RemindersAssumption DEF RemindersInv
<1>4. Rests(reminder, x) \/ /\ IsFiniteSet(ComeRound(reminder, x.occurrence))
                            /\ Cardinality(ComeRound(reminder, x.occurrence)) >= CatchUpLimit
  BY <1>1, <1>2, BacklogClaims
<1> HIDE DEF x
<1>5. x.occurrence \in Nat /\ x.occurrence > reminder.last /\ x.occurrence <= clock.day + 2
  BY <1>1, <1>3 DEF Comes, Due
<1>6. reminded' \in round
  BY <1>1, <1>2, <1>3, <1>5 DEF Comes
<1>7. ASSUME left # {} PROVE Cardinality(round \ left) >= CatchUpLimit
  <2>1. PICK day \in left : TRUE
    BY <1>7
  <2>2. /\ day \in Nat /\ day > x.occurrence /\ day <= clock.day + 2
        /\ IsOwed(rule, day) /\ Due(SentOn(rule, day), reminder.ask.at)
    BY <1>1, <1>2, <1>3, <1>5, <2>1
  <2>3. ~ Rests(reminder, x)
    BY <1>1, <1>2, <1>3, <2>2, NothingMoreCameRound
  <2>4. round \ left = ComeRound(reminder, x.occurrence)
    <3>1. round \ left = {d \in round : d <= x.occurrence}
      BY <1>1, <1>2, <1>3, <1>5
    <3>2. {d \in round : d <= x.occurrence} = ComeRound(reminder, x.occurrence)
      BY <1>1, <1>2, <1>3, <1>5 DEF ComeRound
    <3> QED  BY <3>1, <3>2
  <2> HIDE DEF round, left
  <2> QED  BY <1>4, <2>3, <2>4
<1> QED  BY <1>6, <1>7

(* A reminder is claimed once for each day it is owed, by any replica, and *)
(* whatever is saved, removed or reconfigured in between.                  *)
THEOREM EachDayIsClaimedOnce == RemindersSpec => ClaimedOnce
<1> DEFINE Claims ==
      \A w \in Replicas : pass[w].at = "listed" /\ pass'[w].at = "claimed" =>
        LET rule == reminder.ask.rule
            round == {day \in reminded + 1 .. clock.day + 2 :
                        IsOwed(rule, day) /\ Due(SentOn(rule, day), reminder.ask.at)}
            left == {day \in round : day > reminded'}
        IN  /\ reminded' \in round
            /\ left # {} => Cardinality(round \ left) >= CatchUpLimit
<1>1. RemindersInv /\ [RemindersNext]_reminderVars => [Claims]_reminderVars
  <2> SUFFICES ASSUME RemindersInv, RemindersNext,
                      NEW w \in Replicas, pass[w].at = "listed", pass'[w].at = "claimed"
               PROVE  ClaimReminder(w)
    BY ClaimsAreOwed
  <2>1. pass' # pass
    OBVIOUS
  <2>2. ASSUME NEW v \in Replicas, ReadDueReminders(v) \/ PassEnds(v) PROVE FALSE
    <3>1. pass \in [Replicas -> [at : {"idle", "listed", "claimed"}, id : Nat]]
      BY DEF RemindersInv
    <3> QED  BY <2>2, <3>1 DEF ReadDueReminders, PassEnds, Resting
  <2>3. ASSUME NEW v \in Replicas, ClaimReminder(v) PROVE v = w
    <3>1. pass \in [Replicas -> [at : {"idle", "listed", "claimed"}, id : Nat]]
      BY DEF RemindersInv
    <3> QED  BY <2>3, <3>1 DEF ClaimReminder, TakesUp
  <2>4. ~ Reconfigure
    BY DEF Reconfigure, Resting
  <2>5. \A ask : ~ SaveLocks(ask)
    BY <2>1 DEF SaveLocks
  <2>6. ~ SaveWrites /\ ~ RemoveNotification /\ ~ TimePasses
    BY <2>1 DEF SaveWrites, RemoveNotification, TimePasses
  <2> QED  BY <2>2, <2>3, <2>4, <2>5, <2>6 DEF RemindersNext
<1> HIDE DEF Claims
<1>2. RemindersSpec => [][Claims]_reminderVars
  BY <1>1, RemindersHold, PTL DEF RemindersSpec
<1> QED  BY <1>2 DEF ClaimedOnce, Claims
=============================================================================
