------------------------------ MODULE Schedule ------------------------------
(***************************************************************************)
(* What a recurrence promises: the days its rule names, from the day it    *)
(* was made, are settled one batch after another and never again; settling *)
(* a day puts one row in the staging queue, or none where a policy passes  *)
(* the day over or posts it before the recurrence existed.                 *)
(*                                                                         *)
(* Everything here happens at once.  RecurrenceSweep is how several        *)
(* schedulers, a person editing and a clock bring it about.                *)
(***************************************************************************)
EXTENDS Integers, FiniteSets

CONSTANTS Recurrences,  \* ids
          Rules,        \* the schedules a recurrence may have
          Occurs,       \* Occurs[rule]: the days the rule names
          Posted,       \* Posted[rule][day]: the day the row carries, or 0
          CatchUp,      \* RECURRENCE_CATCH_UP_LIMIT
          Zones,        \* how many days a timezone may be from UTC
          Watermarks,   \* what a file may bring as a watermark; 0 is none
          Notices,      \* bound: which of notify_on_create are set
          LastDay,      \* bound: the last day of the clock
          MaxVersion    \* bound: how often a recurrence is edited

Days == 1 .. LastDay + 1

ASSUME ScheduleAssumption ==
  /\ IsFiniteSet(Recurrences) /\ Rules # {}
  /\ LastDay \in Nat \ {0} /\ CatchUp \in Nat \ {0} /\ MaxVersion \in Nat \ {0}
  /\ Zones \subseteq {-1, 0, 1} /\ Zones # {}
  /\ Watermarks \subseteq 0 .. LastDay
  /\ Notices \subseteq BOOLEAN
  /\ Occurs \in [Rules -> SUBSET Days]
  /\ Posted \in [Rules -> [Days -> Nat]]

VARIABLES row,     \* row[c]: the recurrence's row
          queued,  \* queued[c]: the occurrences ever staged from it
          now,     \* the day it is in UTC
          zone     \* zone[c]: days its owner's timezone is from UTC
svars == <<row, queued, now, zone>>

-----------------------------------------------------------------------------
(* The schedule as date arithmetic.                                        *)

NoRow == [status |-> "none", version |-> 1, rule |-> CHOOSE r \in Rules : TRUE,
          from |-> 0, last |-> 0, next |-> 0, notify |-> FALSE]

Live(c) == row[c].status = "live"
Today(c) == now + zone[c]

(* Everything up to the cursor is settled; 0 is a watermark never set.     *)
Cursor(r) == IF r.last > r.from - 1 THEN r.last ELSE r.from - 1

Least(S) == CHOOSE d \in S : \A x \in S : d <= x
Latest(S) == CHOOSE d \in S : \A x \in S : x <= d
Beyond == LastDay + 2
NextAfter(rule, after) ==
  LET later == {d \in Occurs[rule] : d > after} IN IF later = {} THEN Beyond ELSE Least(later)

(* Mutants: an edit keeps the day the old rule named; a batch settles all  *)
(* the days it was asked about, its cap forgotten.                         *)
WithRuleOnly(r, rule) == [r EXCEPT !.rule = rule, !.version = @ + 1]
SettledThrough(r, through) ==
  [r EXCEPT !.last = through, !.next = NextAfter(r.rule, through)]

(* next is written with whatever it is worked out from, and nowhere else.  *)
Scheduled(r) == [r EXCEPT !.next = NextAfter(r.rule, Cursor(r))]
WithRule(r, rule) == Scheduled([r EXCEPT !.rule = rule, !.version = @ + 1])

(* What a row owes through a day, and the first of it up to the cap.       *)
Owed(r, through) == {d \in Occurs[r.rule] : Cursor(r) < d /\ d <= through}
Batch(r, through) == {d \in Owed(r, through) :
                        Cardinality({x \in Owed(r, through) : x < d}) < CatchUp}

(* Which of a batch become rows: neither passed over nor before the floor. *)
Proposes(r, d) == Posted[r.rule][d] # 0 /\ Posted[r.rule][d] >= r.from
RowsOf(r, through) == {d \in Batch(r, through) : Proposes(r, d)}
Settled(r, through) == Scheduled([r EXCEPT !.last = Latest(Batch(r, through))])

-----------------------------------------------------------------------------
(* A recurrence made here starts today; one that arrives in a file brings  *)
(* the watermark of the copy that sent it.                                 *)
Create(c, rule, last, notify) ==
  LET from == IF last >= Today(c) THEN last + 1 ELSE Today(c)
  IN  /\ row[c].status = "none"
      /\ row' = [row EXCEPT ![c] = Scheduled([status |-> "live", version |-> 1, rule |-> rule,
                                             from |-> from, last |-> last, next |-> 0,
                                             notify |-> notify])]
      /\ UNCHANGED <<queued, now, zone>>

(* An edit leaves from and last alone: it conjures no rows for days that   *)
(* were dealt with.  One that changes nothing writes nothing.              *)
Update(c, rule, notify) ==
  /\ Live(c)
  /\ <<rule, notify>> # <<row[c].rule, row[c].notify>>
  /\ row[c].version < MaxVersion
  /\ row' = [row EXCEPT ![c] = WithRule([row[c] EXCEPT !.notify = notify], rule)]
  /\ UNCHANGED <<queued, now, zone>>

(* What was proposed stays; the row does not.                              *)
Delete(c) ==
  /\ Live(c)
  /\ row' = [row EXCEPT ![c] = [NoRow EXCEPT !.status = "deleted"]]
  /\ UNCHANGED <<queued, now, zone>>

(* One batch is settled, through a day that has begun somewhere on earth.  *)
Propose(c, through) ==
  /\ Live(c)
  /\ through <= now + 1
  /\ Batch(row[c], through) # {}
  /\ row' = [row EXCEPT ![c] = Settled(row[c], through)]
  /\ queued' = [queued EXCEPT ![c] = @ \cup RowsOf(row[c], through)]
  /\ UNCHANGED <<now, zone>>

Advance ==
  /\ now < LastDay
  /\ now' = now + 1
  /\ UNCHANGED <<row, queued, zone>>

SetTimezone(c, z) ==
  /\ z # zone[c]
  /\ zone' = [zone EXCEPT ![c] = z]
  /\ UNCHANGED <<row, queued, now>>

SInit ==
  /\ row = [c \in Recurrences |-> NoRow]
  /\ queued = [c \in Recurrences |-> {}]
  /\ now = 1
  /\ zone \in [Recurrences -> Zones]

Person(c) ==
  \/ \E rule \in Rules, last \in Watermarks, notify \in Notices : Create(c, rule, last, notify)
  \/ \E rule \in Rules, notify \in Notices : Update(c, rule, notify)
  \/ Delete(c)

SNext ==
  \/ \E c \in Recurrences : Person(c)
  \/ \E c \in Recurrences, through \in 0 .. LastDay + 1 : Propose(c, through)
  \/ Advance
  \/ \E c \in Recurrences, z \in Zones : SetTimezone(c, z)

SSpec == SInit /\ [][SNext]_svars
=============================================================================
