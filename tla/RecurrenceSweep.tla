-------------------------- MODULE RecurrenceSweep --------------------------
(***************************************************************************)
(* How a recurrence's promise (Schedule) is kept: any number of schedulers *)
(* sweep the same due list, each row is worked in a transaction of its own *)
(* under its row lock, people edit and delete between, the clock and their *)
(* timezones move, transactions fail and processes stop half way.          *)
(***************************************************************************)
EXTENDS Schedule

CONSTANTS Schedulers,  \* processes with RECURRENCE_SCHEDULER on
          Free,        \* no process
          ClaimLimit,  \* RECURRENCE_CLAIM_LIMIT: the rows one tick reads
          Broken,      \* recurrences whose shape no longer parses
          MaxFaults    \* bound: crashes and transient failures

ASSUME SweepAssumption ==
  /\ Free \notin Schedulers
  /\ ClaimLimit \in Nat \ {0} /\ MaxFaults \in Nat
  /\ Broken \subseteq Recurrences

VARIABLES at,     \* at[s]: where the scheduler is
          due,    \* due[s]: what is left of the list it read
          job,    \* job[s]: the row it is on, through which day, as it read it
          held,   \* held[c]: who holds the row's lock
          told,   \* told[c][d]: the mails that named the occurrence
          faults
vars == <<row, queued, now, zone, at, due, job, held, told, faults>>

NoJob == [rec |-> Free, through |-> 0, row |-> NoRow]

Init ==
  /\ SInit
  /\ at = [s \in Schedulers |-> "asleep"]
  /\ due = [s \in Schedulers |-> {}]
  /\ job = [s \in Schedulers |-> NoJob]
  /\ held = [c \in Recurrences |-> Free]
  /\ told = [c \in Recurrences |-> [d \in Days |-> 0]]
  /\ faults = 0

-----------------------------------------------------------------------------
(* One tick.                                                               *)

(* The list is read without locks and over-selects by a day; the page is   *)
(* the most overdue of it.                                                 *)
Candidates == {c \in Recurrences : Live(c) /\ row[c].next <= now + 1}
Pages == {p \in SUBSET Candidates :
            /\ p = Candidates \/ Cardinality(p) = ClaimLimit
            /\ Cardinality(p) <= ClaimLimit
            /\ \A c \in p, d \in Candidates \ p : row[c].next <= row[d].next}

ReadDue(s) ==
  /\ at[s] = "asleep"
  /\ \E page \in Pages :
       due' = [due EXCEPT ![s] = {[rec |-> c, next |-> row[c].next, zone |-> zone[c]] : c \in page}]
  /\ at' = [at EXCEPT ![s] = "examining"]
  /\ UNCHANGED <<svars, job, held, told, faults>>

(* Whether the day has come is asked of the owner's date, by the clock now *)
(* and the timezone the list carried.                                      *)
Examine(s) ==
  /\ at[s] = "examining"
  /\ \E item \in due[s] :
       LET today == now + item.zone
       IN  /\ \A other \in due[s] : item.next <= other.next
           /\ due' = [due EXCEPT ![s] = @ \ {item}]
           /\ IF item.next > today
              THEN UNCHANGED <<at, job>>
              ELSE /\ at' = [at EXCEPT ![s] = "claiming"]
                   /\ job' = [job EXCEPT ![s] = [NoJob EXCEPT !.rec = item.rec, !.through = today]]
  /\ UNCHANGED <<svars, held, told, faults>>

(* On to the next row of the list.                                         *)
Onward(s) ==
  /\ at' = [at EXCEPT ![s] = "examining"]
  /\ job' = [job EXCEPT ![s] = NoJob]

Take(s, c) ==
  /\ held' = [held EXCEPT ![c] = s]
  /\ job' = [job EXCEPT ![s].row = row[c]]
  /\ at' = [at EXCEPT ![s] = "working"]

(* Mutant: SELECT without FOR UPDATE.                                      *)
ClaimUnlocked(s) ==
  /\ at[s] = "claiming"
  /\ LET c == job[s].rec
     IN  IF Live(c) /\ Batch(row[c], job[s].through) # {}
         THEN Take(s, c)
         ELSE Onward(s) /\ UNCHANGED held
  /\ UNCHANGED <<svars, due, told, faults>>

(* FOR UPDATE SKIP LOCKED: claimed elsewhere, gone, or nothing due after   *)
(* all are each the end of the row for this tick.                          *)
Claim(s) ==
  /\ at[s] = "claiming"
  /\ LET c == job[s].rec
     IN  IF held[c] = Free /\ Live(c) /\ Batch(row[c], job[s].through) # {}
         THEN Take(s, c)
         ELSE Onward(s) /\ UNCHANGED held
  /\ UNCHANGED <<svars, due, told, faults>>

Release(s) == held' = [held EXCEPT ![job[s].rec] = Free]
Staged(s) == RowsOf(job[s].row, job[s].through)

(* The unique index on (recurrence, occurrence) refuses a day staged twice,*)
(* whatever became of the row that took it.                                *)
Collides(s) == Staged(s) \cap queued[job[s].rec] # {}

(* The rows and the watermark, in one transaction.  The update writes the  *)
(* two columns it works out from the row it locked, and no others.         *)
Commit(s) ==
  /\ at[s] = "working"
  /\ job[s].rec \notin Broken
  /\ ~Collides(s)
  /\ LET c == job[s].rec
         after == Settled(job[s].row, job[s].through)
     IN  /\ row' = [row EXCEPT ![c].last = after.last, ![c].next = after.next]
         /\ queued' = [queued EXCEPT ![c] = @ \cup Staged(s)]
  /\ Release(s)
  /\ IF job[s].row.notify /\ Staged(s) # {}
     THEN at' = [at EXCEPT ![s] = "telling"] /\ UNCHANGED job
     ELSE Onward(s)
  /\ UNCHANGED <<now, zone, due, told, faults>>

Fails(s) ==
  \/ job[s].rec \in Broken \/ Collides(s)
  \/ faults < MaxFaults
Counted(s) == faults' = IF job[s].rec \in Broken \/ Collides(s) THEN faults ELSE faults + 1

(* Mutants: what a rollback took back is announced; the error ends the tick.*)
FailAnnounced(s) ==
  /\ at[s] = "working"
  /\ Fails(s) /\ Counted(s)
  /\ Release(s)
  /\ at' = [at EXCEPT ![s] = IF job[s].row.notify /\ Staged(s) # {} THEN "telling" ELSE "examining"]
  /\ UNCHANGED <<svars, due, job, told>>
FailEndsTick(s) ==
  /\ at[s] = "working"
  /\ Fails(s) /\ Counted(s)
  /\ Release(s)
  /\ at' = [at EXCEPT ![s] = "asleep"]
  /\ job' = [job EXCEPT ![s] = NoJob]
  /\ due' = [due EXCEPT ![s] = {}]
  /\ UNCHANGED <<svars, told>>

(* Anything that throws rolls the row's transaction back, watermark and    *)
(* all, and costs the sweep that one row.                                  *)
Fail(s) ==
  /\ at[s] = "working"
  /\ Fails(s) /\ Counted(s)
  /\ Release(s)
  /\ Onward(s)
  /\ UNCHANGED <<svars, due, told>>

(* After the commit, once: a relay that refuses is not asked again.        *)
Tell(s) ==
  /\ at[s] = "telling"
  /\ \/ told' = [told EXCEPT ![job[s].rec] =
                   [d \in Days |-> IF d \in Staged(s) THEN @[d] + 1 ELSE @[d]]]
     \/ UNCHANGED told
  /\ Onward(s)
  /\ UNCHANGED <<svars, due, held, faults>>

EndTick(s) ==
  /\ at[s] = "examining"
  /\ due[s] = {}
  /\ at' = [at EXCEPT ![s] = "asleep"]
  /\ UNCHANGED <<svars, due, job, held, told, faults>>

(* The process stops or dies; the database ends its transaction.           *)
Crash(s) ==
  /\ at[s] # "asleep"
  /\ faults < MaxFaults
  /\ faults' = faults + 1
  /\ at' = [at EXCEPT ![s] = "asleep"]
  /\ due' = [due EXCEPT ![s] = {}]
  /\ job' = [job EXCEPT ![s] = NoJob]
  /\ IF at[s] = "working" THEN Release(s) ELSE UNCHANGED held
  /\ UNCHANGED <<svars, told>>

-----------------------------------------------------------------------------
(* Everybody else.  An edit and a delete take the row's lock and wait.     *)

NoScheduler == UNCHANGED <<at, due, job, held, told, faults>>

(* Mutant: the row is read without its lock.                               *)
ChangeUnlocked(c) == Person(c) /\ NoScheduler

Change(c) ==
  /\ \/ \E rule \in Rules, last \in Watermarks, notify \in Notices : Create(c, rule, last, notify)
     \/ held[c] = Free /\ \E rule \in Rules, notify \in Notices : Update(c, rule, notify)
     \/ held[c] = Free /\ Delete(c)
  /\ NoScheduler

Clock == Advance /\ NoScheduler
Move(c, z) == SetTimezone(c, z) /\ NoScheduler

Step(s) == \/ ReadDue(s) \/ Examine(s) \/ Claim(s) \/ Commit(s) \/ Fail(s) \/ Tell(s) \/ EndTick(s)

Next ==
  \/ \E s \in Schedulers : Step(s) \/ Crash(s)
  \/ \E c \in Recurrences : Change(c)
  \/ \E c \in Recurrences, z \in Zones : Move(c, z)
  \/ Clock

Spec == Init /\ [][Next]_vars

(* The loop arms the next tick whatever the last one came to, a lock is    *)
(* skipped and never waited for, and the database ends every transaction:  *)
(* a scheduler that can take a step does.  A stopped one is started again. *)
FairSpec == Spec /\ \A s \in Schedulers : WF_vars(Step(s))

-----------------------------------------------------------------------------
(* Types.  Rows hold whole days, a lock is one scheduler's at most.        *)
Row == [status : {"none", "live", "deleted"}, version : 1 .. MaxVersion, rule : Rules,
        from : 0 .. LastDay + 1, last : 0 .. LastDay + 1, next : 0 .. Beyond, notify : BOOLEAN]
Item == [rec : Recurrences, next : 1 .. Beyond, zone : Zones]
TypeOK ==
  /\ row \in [Recurrences -> Row]
  /\ \A c \in Recurrences : Live(c) => row[c].next \in 1 .. Beyond
  /\ queued \in [Recurrences -> SUBSET Days]
  /\ now \in 1 .. LastDay /\ zone \in [Recurrences -> Zones]
  /\ at \in [Schedulers -> {"asleep", "examining", "claiming", "working", "telling"}]
  /\ due \in [Schedulers -> SUBSET Item]
  /\ job \in [Schedulers -> [rec : Recurrences \cup {Free}, through : 0 .. LastDay + 1, row : Row]]
  /\ held \in [Recurrences -> Schedulers \cup {Free}]
  /\ told \in [Recurrences -> [Days -> Nat]]
  /\ faults \in 0 .. MaxFaults

(* The column the due list is read by always agrees with the rule and the  *)
(* watermark it is worked out from, through edits and ticks alike.         *)
NextIsDue == \A c \in Recurrences : Live(c) => row[c].next = NextAfter(row[c].rule, Cursor(row[c]))

(* No transaction ever meets the unique index: with the row locked, what   *)
(* is beyond its watermark was never staged.                               *)
NoCollision == \A s \in Schedulers : at[s] = "working" => ~Collides(s)

(* Of a rule nobody has changed, every day up to the watermark was staged  *)
(* but those a policy passes over, and no other: a capped batch, a crash   *)
(* and a failed tick lose none.                                            *)
SettledInFull ==
  \A c \in Recurrences :
    Live(c) /\ row[c].version = 1 =>
      queued[c] = {d \in Occurs[row[c].rule] : row[c].from <= d /\ d <= row[c].last /\ Proposes(row[c], d)}

(* Nobody is written to about a day that is not staged, or twice about one.*)
ToldOnce == \A c \in Recurrences, d \in Days :
              told[c][d] <= 1 /\ (told[c][d] = 1 => d \in queued[c])

(* However the schedulers divide the work, fail and stop, all that a       *)
(* recurrence, its owner and the queue ever see of it is one atomic        *)
(* proposal after another.                                                 *)
KeepsThePromise == SSpec

(* A recurrence that is a day late or more, and whose shape parses, is     *)
(* brought up to date, whoever else throws in every tick.                  *)
Late(c) == Live(c) /\ row[c].next < now
LateCatchesUp == \A c \in Recurrences \ Broken : Late(c) ~> ~Late(c)
=============================================================================
