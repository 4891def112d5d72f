--------------------------- MODULE BillingProofs ----------------------------
(***************************************************************************)
(* What Billing keeps, for any number of presses, readers, subscriptions   *)
(* and customers, and however often something breaks off.                  *)
(*                                                                         *)
(* The argument runs along the billing lock.  Whoever is between its       *)
(* decision and its commit holds it (LockHeld); whatever is there to be    *)
(* paid and was not made by an attempt that broke off is in the books, or  *)
(* is what the holder of the lock has just made (Recorded); so a decision  *)
(* to make another one finds none that is nobody's fault (Counted).  What  *)
(* a job has seen as ended has ended, so the books never run ahead of      *)
(* Stripe: the last part shows that every step is one of SubscriptionBooks.*)
(***************************************************************************)
EXTENDS Billing, FiniteSetTheorems, WellFoundedInduction, TLAPS

Steps == {"idle", "customer", "ask", "make", "map", "litter", "winner", "lock", "replace",
          "abandon", "create", "release", "upgrade", "schedule", "unschedule", "switch",
          "reschedule", "flag", "answer", "store", "finish", "serve", "read", "write", "close",
          "drop", "erase"}
LockedSteps == {"replace", "abandon", "create", "release", "upgrade", "schedule", "switch",
                "reschedule", "answer", "store"}
(* Steps of a press that asked for a plan, ...                             *)
PlanSteps == LockedSteps \cup {"customer", "ask", "make", "map", "litter", "winner", "lock",
                               "close"}
(* ... and steps about a subscription, and about a customer.               *)
SubSteps == (LockedSteps \ {"create"}) \cup {"unschedule", "flag", "serve", "read", "write"}
CustSteps == {"ask", "map", "litter", "lock", "replace", "abandon", "create", "close", "drop"}

Clocked == Subs \cup Jobs
Events == (Subs \cup Customers) \X Nat
CustomerRecords == [standing : {"none", "present", "deleted"},
                    by : (Keys \X (Customers \cup {None})) \cup {None}]
(* What Stripe has answered under a key was live when it did.              *)
Answered == {x \in Snapshots : Lives(x)}
SubRecords == [status : {"none", "incomplete", "active", "past_due", "canceled"}, plan : Plans,
               next : Plans \cup {None}, ending : BOOLEAN, version : Nat,
               owner : Customers \cup {None}, by : (Keys \X {"create", "replace"}) \cup {None},
               answer : [Keys -> Answered \cup {None}]]
JobRecords == [at : Steps, sub : Subs \cup {None}, old : Subs \cup {None},
               cust : Customers \cup {None}, seen : Snapshots \cup {None},
               event : Events \cup {None}]
CastRecords == [jobs : SUBSET Jobs,
                ask : [Presses -> [key : Keys, want : Plans \cup {"end", "keep"}]]]
Stamps == [Clocked -> 0 .. Cardinality(Clocked)]

StripeTyped == /\ customer \in [Customers -> CustomerRecords]
               /\ sub \in [Subs -> SubRecords]
               /\ due \subseteq Events
TablesTyped == /\ person \in BOOLEAN
               /\ mapping \in Customers \cup {None}
               /\ row \in [Subs -> Snapshots \cup {None}]
               /\ claimed \subseteq Events
               /\ orphans \subseteq Subs
JobsTyped == /\ lock \in Jobs \cup {None}
             /\ stamp \in Stamps
             /\ job \in [Jobs -> JobRecords]
             /\ cast \in CastRecords
Typed == StripeTyped /\ TablesTyped /\ JobsTyped

-----------------------------------------------------------------------------
MadeSub(s) == sub[s].status # "none"
MadeCustomer(c) == customer[c].standing # "none"
Deleted(c) == customer[c].standing = "deleted"

LockHeld == \A j \in Jobs : job[j].at \in LockedSteps <=> lock = j

(* An event is of something that was made, and of a version it has had.    *)
Happened(e) ==
  \/ e[1] \in Subs /\ MadeSub(e[1]) /\ e[2] <= sub[e[1]].version
  \/ e[1] \in Customers /\ e[2] = 0 /\ Deleted(e[1])

(* What a job is about has been made; ...                                  *)
IsAboutMade(j) ==
  /\ job[j].sub # None => MadeSub(job[j].sub)
  /\ job[j].old # None => MadeSub(job[j].old)
  /\ job[j].cust # None => MadeCustomer(job[j].cust)
  /\ job[j].at \in SubSteps => job[j].sub # None
  /\ job[j].at \in CustSteps => job[j].cust # None
  /\ job[j].at = "close" => Deleted(job[j].cust)
(* ... the customer a press was told of is this person's until Stripe      *)
(* deletes it, and what it changes stays in the books; ...                 *)
IsUpToDate(j) ==
  /\ job[j].at \in {"ask", "lock", "replace", "abandon", "create"} =>
       job[j].cust = mapping \/ Deleted(job[j].cust)
  /\ job[j].at \in {"replace", "abandon", "upgrade", "switch"} => row[job[j].sub] # None
(* ... what it has seen as ended has ended; ...                            *)
SawTrue(j) ==
  /\ job[j].at \in {"answer", "store"} =>
       job[j].seen \in Snapshots /\ Lives(job[j].seen)
  /\ job[j].at \in {"read", "write"} =>
       /\ job[j].seen \in Snapshots
       /\ job[j].seen.status # "none"
       /\ job[j].seen.status = "canceled" => sub[Target(j)].status = "canceled"
(* ... and an event is read for as long as it is with the job.             *)
IsOfItsEvent(j) ==
  job[j].event # None =>
    /\ j \in Readers /\ Happened(job[j].event)
    /\ \/ /\ job[j].event[1] \in Subs /\ job[j].at \in {"serve", "read", "write"}
          /\ job[j].sub = job[j].event[1] /\ job[j].old = None
       \/ job[j].event[1] \in Customers /\ job[j].at = "close"
JobOK(j) ==
  /\ IsAboutMade(j)
  /\ person => IsUpToDate(j)
  /\ SawTrue(j)
  /\ IsOfItsEvent(j)
  /\ job[j].at \in {"store", "write"} => stamp[j] > 0
  /\ j \in Presses /\ job[j].at \in PlanSteps => Want(j) \in Plans
JobsOK == \A j \in Jobs : JobOK(j)

EventsOK == (\A e \in due \cup claimed : Happened(e)) /\ claimed \cap due = {}

StripeOK ==
  /\ \A s \in Subs : /\ sub[s].by = None <=> ~MadeSub(s)
                     /\ Lives(sub[s]) => sub[s].owner \in Customers
                     /\ ~Lives(sub[s]) => sub[s].next = None
                     /\ ~MadeSub(s) => sub[s].version = 0
  /\ \A c \in Customers : customer[c].by = None <=> ~MadeCustomer(c)

Mapped ==
  /\ mapping # None => MadeCustomer(mapping)
  /\ person => \A s \in Subs : Lives(sub[s]) =>
       sub[s].owner = mapping /\ customer[sub[s].owner].standing = "present"

RowsOK ==
  /\ \A s \in Subs : row[s] # None =>
       /\ MadeSub(s) /\ row[s].status # "none"
       /\ row[s].status = "canceled" => sub[s].status = "canceled"
  /\ ~person => \A s \in Subs : row[s] = None

Stamped == /\ \A s \in Subs : row[s] # None <=> stamp[s] > 0
           /\ \A j \in Jobs : stamp[j] > 0 => j \in cast.jobs

OrphansMade == \A s \in orphans : MadeSub(s)

Making(j, s) == job[j].at \in {"answer", "store"} /\ job[j].sub = s
Recorded == \A s \in Subs : Lives(sub[s]) /\ s \notin orphans =>
              \/ s \in LiveRows
              \/ row[s] = None /\ \E j \in Jobs : Making(j, s)

(* What can be paid and is not the work of a broken attempt, and the       *)
(* orphans that were found and are over.                                   *)
Payable == {s \in Subs : Lives(sub[s])}
Proper == Payable \ orphans
Spent == {s \in orphans : ~Lives(sub[s]) /\ row[s] # None}
Counted ==
  /\ Cardinality(Proper) <= 1 + Cardinality(Spent)
  /\ \A j \in Jobs : job[j].at = "create" => Cardinality(Proper) <= Cardinality(Spent)
  /\ \A j \in Jobs, s \in Subs : Making(j, s) /\ row[s] = None =>
       Cardinality(Proper \ {s}) <= Cardinality(Spent)

Basics == /\ Typed /\ LockHeld /\ JobsOK /\ EventsOK /\ StripeOK /\ Mapped /\ RowsOK
          /\ Stamped /\ OrphansMade /\ ClaimedIsRecorded
BillingInv == Basics /\ (person => Recorded /\ Counted)

-----------------------------------------------------------------------------
(* Stamps, and the row read last.                                          *)

LEMMA ClockedAreFinite == IsFiniteSet(Clocked) /\ Cardinality(Clocked) \in Nat
<1>1. IsFiniteSet(Clocked)
  BY BillingAssumption, FS_Union DEF Clocked
<1> QED  BY <1>1, FS_CardinalityType

(* Counting the moments from the oldest forgets nothing and stamps nothing.*)
LEMMA InOrderIs ==
  ASSUME NEW f \in [Clocked -> Nat]
  PROVE  /\ InOrder(f) \in Stamps
         /\ \A x \in Clocked : InOrder(f)[x] > 0 <=> f[x] > 0
<1> DEFINE Moments == {f[y] : y \in Clocked}
<1>1. IsFiniteSet(Moments) /\ Cardinality(Moments) <= Cardinality(Clocked)
  <2>1. f \in Surjection(Clocked, Moments)
    BY DEF Surjection
  <2> QED  BY <2>1, ClockedAreFinite, FS_Surjection
<1>2. ASSUME NEW x \in Clocked
      PROVE  /\ Cardinality(Moments \cap 1 .. f[x]) \in 0 .. Cardinality(Clocked)
             /\ Cardinality(Moments \cap 1 .. f[x]) > 0 <=> f[x] > 0
  <2> DEFINE M == Moments \cap 1 .. f[x]
  <2>1. IsFiniteSet(M) /\ Cardinality(M) <= Cardinality(Moments)
    BY <1>1, FS_Subset
  <2>2. Cardinality(M) \in Nat /\ Cardinality(Moments) \in Nat /\ Cardinality(Clocked) \in Nat
    BY <1>1, <2>1, ClockedAreFinite, FS_CardinalityType
  <2>3. Cardinality(M) = 0 <=> M = {}
    BY <2>1, FS_EmptySet
  <2>4. M = {} <=> ~(f[x] > 0)
    OBVIOUS
  <2> QED  BY <1>1, <2>1, <2>2, <2>3, <2>4
<1>3. DOMAIN f = Clocked /\ InOrder(f) = [x \in Clocked |-> Cardinality(Moments \cap 1 .. f[x])]
  BY DEF InOrder
<1> QED  BY <1>2, <1>3 DEF Stamps

LEMMA StampsAreNat ==
  ASSUME stamp \in Stamps
  PROVE  /\ stamp \in [Clocked -> Nat] /\ DOMAIN stamp = Clocked
         /\ Cardinality(Clocked) + 1 \in Nat
BY ClockedAreFinite DEF Stamps

LEMMA WithoutIs ==
  ASSUME stamp \in Stamps, NEW j \in Jobs
  PROVE  /\ Without(j) \in Stamps
         /\ \A x \in Clocked : Without(j)[x] > 0 <=> x # j /\ stamp[x] > 0
<1>1. [stamp EXCEPT ![j] = 0] \in [Clocked -> Nat]
  BY StampsAreNat
<1>2. \A x \in Clocked : [stamp EXCEPT ![j] = 0][x] > 0 <=> x # j /\ stamp[x] > 0
  BY StampsAreNat
<1> QED  BY <1>1, <1>2, InOrderIs DEF Without

LEMMA StampedLastIs ==
  ASSUME stamp \in Stamps, NEW j \in Jobs
  PROVE  /\ StampedLast(j) \in Stamps
         /\ \A x \in Clocked : StampedLast(j)[x] > 0 <=> x = j \/ stamp[x] > 0
<1> DEFINE f == [stamp EXCEPT ![j] = Cardinality(Clocked) + 1]
<1>1. f \in [Clocked -> Nat]
  BY StampsAreNat
<1>2. \A x \in Clocked : f[x] > 0 <=> x = j \/ stamp[x] > 0
  BY StampsAreNat, ClockedAreFinite DEF Clocked
<1>3. StampedLast(j) = InOrder(f)
  BY StampsAreNat DEF StampedLast
<1> QED  BY <1>1, <1>2, <1>3, InOrderIs

LEMMA TakesStampIs ==
  ASSUME stamp \in Stamps, NEW j \in Jobs, NEW S \in SUBSET Subs, S # {} => stamp[j] > 0
  PROVE  /\ TakesStamp(S, j) \in Stamps
         /\ \A x \in Clocked : TakesStamp(S, j)[x] > 0 <=> x # j /\ (x \in S \/ stamp[x] > 0)
<1> DEFINE f == [x \in Clocked |-> IF x = j THEN 0 ELSE stamp[IF x \in S THEN j ELSE x]]
<1>1. f \in [Clocked -> Nat]
  BY StampsAreNat DEF Clocked
<1>2. \A x \in Clocked : f[x] > 0 <=> x # j /\ (x \in S \/ stamp[x] > 0)
  BY StampsAreNat DEF Clocked
<1>3. TakesStamp(S, j) = InOrder(f)
  BY StampsAreNat DEF TakesStamp
<1> QED  BY <1>1, <1>2, <1>3, InOrderIs

LEMMA CurrentIs ==
  ASSUME stamp \in Stamps, LiveRows # {}
  PROVE  Current \in LiveRows
<1> DEFINE N == Cardinality(Clocked)
           Ages == {N - stamp[s] : s \in LiveRows}
<1>1. \A s \in LiveRows : s \in Subs /\ stamp[s] \in 0 .. N
  BY DEF LiveRows, Stamps, Clocked
<1>2. Ages \in SUBSET Nat /\ Ages # {}
  BY <1>1, ClockedAreFinite
<1>3. PICK a \in Ages : \A b \in Ages : ~ (<<b, a>> \in OpToRel(<, Nat))
  BY <1>2, NatLessThanWellFounded, WFMin
<1>4. \A b \in Ages : ~ (b < a)
  BY <1>2, <1>3 DEF OpToRel
<1>5. PICK s \in LiveRows : a = N - stamp[s]
  OBVIOUS
<1>6. \A t \in LiveRows : stamp[t] <= stamp[s]
  <2>1. SUFFICES ASSUME NEW t \in LiveRows PROVE stamp[t] <= stamp[s]
    OBVIOUS
  <2>2. ~ (N - stamp[t] < N - stamp[s])
    BY <1>4, <1>5
  <2> QED  BY <2>2, <1>1, ClockedAreFinite
<1> QED  BY <1>6 DEF Current

LEMMA CurrentIsStored ==
  ASSUME Typed, RowsOK, Current # None
  PROVE  Current \in LiveRows /\ Current \in Subs /\ row[Current] \in Snapshots
         /\ MadeSub(Current)
<1>1. LiveRows # {}
  BY DEF Current
<1>2. Current \in LiveRows
  BY <1>1, CurrentIs DEF Typed, JobsTyped
<1> QED  BY <1>2 DEF LiveRows, RowsOK, Typed, TablesTyped

LEMMA NoCurrent == ASSUME Typed, Current = None PROVE LiveRows = {}
<1>1. None \notin LiveRows
  BY BillingAssumption DEF LiveRows
<1> QED  BY <1>1, CurrentIs DEF Typed, JobsTyped

-----------------------------------------------------------------------------
(* How a job goes on.                                                      *)

(* Only p moves, and this is where it gets to.                             *)
Moved(p, at, s, old, cust, seen, event) ==
  /\ job' \in [Jobs -> JobRecords]
  /\ job'[p].at = at /\ job'[p].sub = s /\ job'[p].old = old /\ job'[p].cust = cust
  /\ job'[p].seen = seen /\ job'[p].event = event
  /\ \A k \in Jobs : k # p => job'[k] = job[k]

LEMMA BecomesIs ==
  ASSUME Typed, NEW p \in Jobs, NEW r \in JobRecords, job' = [job EXCEPT ![p] = r]
  PROVE  Moved(p, r.at, r.sub, r.old, r.cust, r.seen, r.event)
BY DEF Typed, JobsTyped, Moved

LEMMA GoesIs ==
  ASSUME Typed, NEW p \in Jobs, NEW step \in Steps, Goes(p, step)
  PROVE  Moved(p, step, job[p].sub, job[p].old, job[p].cust, job[p].seen, job[p].event)
BY DEF Typed, JobsTyped, JobRecords, Moved, Goes

(* A job that keeps what it was told.                                      *)
LEMMA KeepsSubIs ==
  ASSUME Typed, NEW p \in Jobs, NEW step \in Steps, NEW v \in Subs \cup {None},
         Keeps(p, step, "sub", v)
  PROVE  Moved(p, step, v, job[p].old, job[p].cust, job[p].seen, job[p].event)
BY DEF Typed, JobsTyped, JobRecords, Moved, Keeps

LEMMA KeepsOldIs ==
  ASSUME Typed, NEW p \in Jobs, NEW step \in Steps, NEW v \in Subs \cup {None},
         Keeps(p, step, "old", v)
  PROVE  Moved(p, step, job[p].sub, v, job[p].cust, job[p].seen, job[p].event)
BY DEF Typed, JobsTyped, JobRecords, Moved, Keeps

LEMMA KeepsCustIs ==
  ASSUME Typed, NEW p \in Jobs, NEW step \in Steps, NEW v \in Customers \cup {None},
         Keeps(p, step, "cust", v)
  PROVE  Moved(p, step, job[p].sub, job[p].old, v, job[p].seen, job[p].event)
BY DEF Typed, JobsTyped, JobRecords, Moved, Keeps

LEMMA KeepsSeenIs ==
  ASSUME Typed, NEW p \in Jobs, NEW step \in Steps, NEW v \in Snapshots \cup {None},
         Keeps(p, step, "seen", v)
  PROVE  Moved(p, step, job[p].sub, job[p].old, job[p].cust, v, job[p].event)
BY DEF Typed, JobsTyped, JobRecords, Moved, Keeps

(* A job that begins, or that is over.                                     *)
LEMMA IdleIs ==
  /\ Idle \in JobRecords
  /\ Idle.at = "idle" /\ Idle.sub = None /\ Idle.old = None /\ Idle.cust = None
  /\ Idle.seen = None /\ Idle.event = None
BY DEF Idle, JobRecords, Steps

LEMMA IdlesIs ==
  ASSUME Typed, NEW p \in Jobs, job' = [job EXCEPT ![p] = Idle]
  PROVE  Moved(p, "idle", None, None, None, None, None)
BY IdleIs, BecomesIs

LEMMA ReadsIs ==
  ASSUME Typed, NEW j \in Jobs, NEW step \in Steps, NEW s \in Subs, NEW e \in Events \cup {None},
         \/ job' = [job EXCEPT ![j] = [Idle EXCEPT !.at = step, !.sub = s, !.event = e]]
         \/ e = None /\ job' = [job EXCEPT ![j] = [Idle EXCEPT !.at = step, !.sub = s]]
  PROVE  Moved(j, step, s, None, None, None, e)
<1> HIDE DEF Idle
<1>1. CASE job' = [job EXCEPT ![j] = [Idle EXCEPT !.at = step, !.sub = s, !.event = e]]
  <2> DEFINE r == [Idle EXCEPT !.at = step, !.sub = s, !.event = e]
  <2>1. /\ r \in JobRecords /\ r.at = step /\ r.sub = s /\ r.old = None /\ r.cust = None
        /\ r.seen = None /\ r.event = e
    BY IdleIs DEF JobRecords
  <2>2. job' = [job EXCEPT ![j] = r]
    BY <1>1
  <2> HIDE DEF r
  <2>3. Moved(j, r.at, r.sub, r.old, r.cust, r.seen, r.event)
    BY <2>1, <2>2, BecomesIs
  <2> QED  BY <2>1, <2>3
<1>2. CASE e = None /\ job' = [job EXCEPT ![j] = [Idle EXCEPT !.at = step, !.sub = s]]
  <2> DEFINE r == [Idle EXCEPT !.at = step, !.sub = s]
  <2>1. /\ r \in JobRecords /\ r.at = step /\ r.sub = s /\ r.old = None /\ r.cust = None
        /\ r.seen = None /\ r.event = e
    BY <1>2, IdleIs DEF JobRecords
  <2>2. job' = [job EXCEPT ![j] = r]
    BY <1>2
  <2> HIDE DEF r
  <2>3. Moved(j, r.at, r.sub, r.old, r.cust, r.seen, r.event)
    BY <2>1, <2>2, BecomesIs
  <2> QED  BY <2>1, <2>3
<1> QED  BY <1>1, <1>2

-----------------------------------------------------------------------------
(* What one step leaves standing.                                          *)

(* Nothing comes undone: what was made stays made, what is over stays      *)
(* over, and while the person is there rows stay rows and a customer is    *)
(* theirs until it is deleted.                                             *)
Onward ==
  /\ cast' = cast
  /\ \A s \in Subs : MadeSub(s) => sub'[s].status # "none" /\ sub[s].version <= sub'[s].version
  /\ \A s \in Subs : sub[s].status = "canceled" => sub'[s].status = "canceled"
  /\ \A c \in Customers : MadeCustomer(c) => customer'[c].standing # "none"
  /\ \A c \in Customers : Deleted(c) => customer'[c].standing = "deleted"
  /\ person' => person
  /\ person' => \A s \in Subs : row[s] # None => row'[s] # None
  /\ person' => \A c \in Customers : c = mapping =>
       c = mapping' \/ customer'[c].standing = "deleted"

LEMMA HappenedStays ==
  ASSUME Typed, Typed', Onward, NEW e \in Events, Happened(e)
  PROVE  Happened(e)'
BY DEF Typed, StripeTyped, SubRecords, Events, Onward, Happened, MadeSub, Deleted

LEMMA JobStays ==
  ASSUME Typed, Typed', Onward, NEW j \in Jobs, JobOK(j), job'[j] = job[j],
         stamp[j] > 0 => stamp'[j] > 0
  PROVE  JobOK(j)'
<1>1. job[j] \in JobRecords /\ job' [j] = job[j]
  BY DEF Typed, JobsTyped
<1>2. IsAboutMade(j)'
  BY <1>1 DEF JobOK, IsAboutMade, Onward, MadeSub, MadeCustomer, Deleted, JobRecords, CustSteps
<1>3. person' => IsUpToDate(j)'
  <2> SUFFICES ASSUME person' PROVE IsUpToDate(j)'
    OBVIOUS
  <2>1. person /\ IsUpToDate(j) /\ IsAboutMade(j)
    BY DEF Onward, JobOK
  <2>2. job[j].at \in {"ask", "lock", "replace", "abandon", "create"} => job[j].cust \in Customers
    BY <1>1, <2>1 DEF IsAboutMade, CustSteps, JobRecords
  <2>3. job[j].at \in {"replace", "abandon", "upgrade", "switch"} => job[j].sub \in Subs
    BY <1>1, <2>1 DEF IsAboutMade, SubSteps, LockedSteps, JobRecords
  <2> QED  BY <1>1, <2>1, <2>2, <2>3 DEF IsUpToDate, Onward, Deleted
<1>4. SawTrue(j)'
  <2>1. IsAboutMade(j) /\ SawTrue(j) /\ Target(j)' = Target(j)
    BY <1>1 DEF JobOK, Target
  <2>2. job[j].at \in {"read", "write"} => Target(j) \in Subs
    BY <1>1, <2>1 DEF IsAboutMade, SubSteps, JobRecords, Target
  <2> QED  BY <1>1, <2>1, <2>2 DEF SawTrue, Onward
<1>5. IsOfItsEvent(j)'
  <2>1. job[j].event # None => Happened(job[j].event)'
    BY <1>1, HappenedStays DEF JobOK, IsOfItsEvent, JobRecords
  <2> QED  BY <1>1, <2>1 DEF JobOK, IsOfItsEvent
<1>6. Want(j)' = Want(j)
  BY DEF Onward, Want
<1> QED  BY <1>1, <1>2, <1>3, <1>4, <1>5, <1>6 DEF JobOK

LEMMA JobsStay ==
  ASSUME Typed, Typed', Onward, JobsOK, NEW p \in Jobs, JobOK(p)',
         \A k \in Jobs : k # p => job'[k] = job[k],
         \A k \in Jobs : k # p /\ stamp[k] > 0 => stamp'[k] > 0
  PROVE  JobsOK'
BY JobStays DEF JobsOK

LEMMA EventsStay ==
  ASSUME Typed, Typed', Onward, EventsOK, claimed' \cap due' = {},
         \A e \in due' \cup claimed' : e \in due \cup claimed \/ Happened(e)'
  PROVE  EventsOK'
<1>1. \A e \in due \cup claimed : e \in Events /\ Happened(e)
  BY DEF EventsOK, Typed, StripeTyped, TablesTyped
<1>2. \A e \in due \cup claimed : Happened(e)'
  BY <1>1, HappenedStays
<1> QED  BY <1>2 DEF EventsOK

LEMMA SubsAreFinite ==
  ASSUME NEW S \in SUBSET Subs
  PROVE  IsFiniteSet(S) /\ Cardinality(S) \in Nat
BY BillingAssumption, FS_Subset, FS_CardinalityType

LEMMA FewerSubs ==
  ASSUME NEW T \in SUBSET Subs, NEW S \in SUBSET T
  PROVE  Cardinality(S) <= Cardinality(T)
BY SubsAreFinite, FS_Subset

LEMMA CountsStay ==
  ASSUME Typed, Typed', Counted, Payable' \subseteq Payable, orphans \subseteq orphans',
         \A s \in Subs : row[s] # None => row'[s] # None,
         \A j \in Jobs : job'[j].at = "create" => job[j].at = "create",
         \A j \in Jobs, s \in Subs : Making(j, s)' /\ row'[s] = None => Making(j, s)
  PROVE  Counted'
<1>1. Proper' \subseteq Proper /\ Spent \subseteq Spent'
  <2>1. Spent \subseteq Spent'
    BY DEF Payable, Spent, Typed, TablesTyped
  <2> QED  BY <2>1 DEF Proper
<1>2. Proper \in SUBSET Subs /\ Spent' \in SUBSET Subs
  BY DEF Proper, Payable, Spent, Typed, TablesTyped
<1>3. /\ Cardinality(Proper') <= Cardinality(Proper) /\ Cardinality(Spent) <= Cardinality(Spent')
      /\ \A s : Cardinality(Proper' \ {s}) <= Cardinality(Proper \ {s})
  BY <1>1, <1>2, FewerSubs
<1>4. /\ Cardinality(Proper') \in Nat /\ Cardinality(Proper) \in Nat
      /\ Cardinality(Spent') \in Nat /\ Cardinality(Spent) \in Nat
      /\ \A s : Cardinality(Proper' \ {s}) \in Nat /\ Cardinality(Proper \ {s}) \in Nat
  BY <1>1, <1>2, SubsAreFinite
<1>5. Cardinality(Proper') <= 1 + Cardinality(Spent')
  BY <1>3, <1>4 DEF Counted
<1>6. ASSUME NEW j \in Jobs, job'[j].at = "create"
      PROVE  Cardinality(Proper') <= Cardinality(Spent')
  <2>1. Cardinality(Proper) <= Cardinality(Spent)
    BY <1>6 DEF Counted
  <2> QED  BY <1>3, <1>4, <2>1
<1>7. ASSUME NEW j \in Jobs, NEW s \in Subs, Making(j, s)', row'[s] = None
      PROVE  Cardinality(Proper' \ {s}) <= Cardinality(Spent')
  <2>1. Cardinality(Proper \ {s}) <= Cardinality(Spent)
    BY <1>7 DEF Counted
  <2>2. Cardinality(Proper' \ {s}) <= Cardinality(Proper \ {s})
    BY <1>3
  <2>3. Cardinality(Proper' \ {s}) \in Nat /\ Cardinality(Proper \ {s}) \in Nat
    BY <1>4
  <2> QED  BY <1>3, <1>4, <2>1, <2>2, <2>3
<1> QED  BY <1>5, <1>6, <1>7 DEF Counted

LEMMA RecordedStays ==
  ASSUME Recorded, Payable' \subseteq Payable, orphans \subseteq orphans',
         \A s \in Payable' : s \in LiveRows => s \in LiveRows',
         \A s \in Payable', j \in Jobs : Making(j, s) /\ row[s] = None =>
           \/ s \in LiveRows' \/ s \in orphans'
           \/ row'[s] = None /\ \E k \in Jobs : Making(k, s)'
  PROVE  Recorded'
<1> SUFFICES ASSUME NEW s \in Subs, Lives(sub[s])', s \notin orphans'
             PROVE  \/ s \in LiveRows'
                    \/ row'[s] = None /\ \E j \in Jobs : Making(j, s)'
  BY DEF Recorded
<1>1. s \in Payable' /\ s \in Payable /\ s \notin orphans
  BY DEF Payable
<1>2. s \in LiveRows \/ (row[s] = None /\ \E j \in Jobs : Making(j, s))
  BY <1>1 DEF Recorded, Payable
<1> QED  BY <1>1, <1>2

(* How a job passes the lock and its stamp on.                             *)
LockMoves(p) ==
  \/ lock' = lock /\ (job'[p].at \in LockedSteps <=> job[p].at \in LockedSteps)
  \/ lock' = Unlocked(p) /\ job'[p].at \notin LockedSteps
  \/ Free /\ lock' = p /\ job'[p].at \in LockedSteps

(* Rows may take it over, those that are rows.                             *)
StampMoves(p) ==
  \/ stamp' = stamp
  \/ p \in cast.jobs /\ stamp' \in {Without(p), StampedLast(p)}
  \/ \E S \in SUBSET Subs : /\ \A s \in S : row[s] # None /\ stamp[p] > 0
                            /\ stamp' = TakesStamp(S, p)

LEMMA LockStays ==
  ASSUME Typed, LockHeld, NEW p \in Jobs, LockMoves(p),
         \A k \in Jobs : k # p => job'[k] = job[k]
  PROVE  LockHeld' /\ lock' \in Jobs \cup {None}
<1>1. None \notin Jobs /\ lock \in Jobs \cup {None}
  BY BillingAssumption DEF Typed, JobsTyped
<1> QED  BY <1>1 DEF LockHeld, LockMoves, Unlocked, Free

LEMMA StampStays ==
  ASSUME Typed, Stamped, NEW p \in Jobs, StampMoves(p), UNCHANGED <<row, cast>>
  PROVE  /\ stamp' \in Stamps /\ Stamped'
         /\ \A k \in Jobs : k # p /\ stamp[k] > 0 => stamp'[k] > 0
         /\ stamp' = StampedLast(p) => stamp'[p] > 0
<1>1. stamp \in Stamps /\ Subs \cap Jobs = {}
  BY BillingAssumption DEF Typed, JobsTyped
<1>2. stamp' = StampedLast(p) => stamp'[p] > 0
  BY <1>1, StampedLastIs DEF Clocked
<1>3. /\ stamp' \in Stamps
      /\ \A s \in Subs : stamp'[s] > 0 <=> stamp[s] > 0
      /\ \A k \in Jobs : k # p => (stamp'[k] > 0 <=> stamp[k] > 0)
      /\ stamp'[p] > 0 => stamp[p] > 0 \/ p \in cast.jobs
  <2>1. CASE stamp' = stamp
    BY <1>1, <2>1
  <2>2. CASE p \in cast.jobs /\ stamp' \in {Without(p), StampedLast(p)}
    <3>1. \A x \in Clocked : Without(p)[x] > 0 <=> x # p /\ stamp[x] > 0
      BY <1>1, WithoutIs
    <3>2. \A x \in Clocked : StampedLast(p)[x] > 0 <=> x = p \/ stamp[x] > 0
      BY <1>1, StampedLastIs
    <3>3. Without(p) \in Stamps /\ StampedLast(p) \in Stamps
      BY <1>1, WithoutIs, StampedLastIs
    <3> QED  BY <1>1, <2>2, <3>1, <3>2, <3>3 DEF Clocked
  <2>3. ASSUME NEW S \in SUBSET Subs, \A s \in S : row[s] # None /\ stamp[p] > 0,
               stamp' = TakesStamp(S, p)
        PROVE  <1>3!1 /\ <1>3!2 /\ <1>3!3 /\ <1>3!4
    <3>1. /\ stamp' \in Stamps
          /\ \A x \in Clocked : stamp'[x] > 0 <=> x # p /\ (x \in S \/ stamp[x] > 0)
      BY <1>1, <2>3, TakesStampIs
    <3>2. \A s \in S : stamp[s] > 0
      BY <2>3 DEF Stamped
    <3> QED  BY <1>1, <3>1, <3>2 DEF Clocked
  <2> QED  BY <2>1, <2>2, <2>3 DEF StampMoves
<1>4. Stamped'
  BY <1>3 DEF Stamped
<1> QED  BY <1>2, <1>3, <1>4

(* A step of p that leaves the tables alone.                               *)
Quiet(p) ==
  /\ UNCHANGED <<person, mapping, row, claimed, orphans, cast>>
  /\ job' \in [Jobs -> JobRecords] /\ \A k \in Jobs : k # p => job'[k] = job[k]
  /\ LockMoves(p) /\ StampMoves(p)

(* What Stripe may do meanwhile.                                           *)
StripeMovesOn ==
  /\ StripeTyped' /\ StripeOK'
  /\ \A s \in Subs : MadeSub(s) => sub'[s].status # "none" /\ sub[s].version <= sub'[s].version
  /\ \A s \in Subs : sub[s].status = "canceled" => sub'[s].status = "canceled"
  /\ \A c \in Customers : MadeCustomer(c) => customer'[c].standing # "none"
  /\ \A c \in Customers : Deleted(c) => customer'[c].standing = "deleted"
  /\ \A s \in Payable' :
       \/ /\ s \in Payable /\ sub'[s].owner = sub[s].owner
          /\ customer'[sub[s].owner].standing = customer[sub[s].owner].standing
       \/ person => sub'[s].owner = mapping /\ customer'[sub'[s].owner].standing = "present"
  /\ \A e \in due' : e \in due \/ (e \notin claimed /\ Happened(e)')

LEMMA QuietBasics ==
  ASSUME Basics, NEW p \in Jobs, Quiet(p), StripeMovesOn, JobOK(p)'
  PROVE  Basics'
<1>1. /\ Typed /\ LockHeld /\ JobsOK /\ EventsOK /\ StripeOK /\ Mapped /\ RowsOK /\ Stamped
      /\ OrphansMade /\ ClaimedIsRecorded
  BY DEF Basics
<1>2. LockHeld' /\ lock' \in Jobs \cup {None}
  BY <1>1, LockStays DEF Quiet
<1>3. /\ stamp' \in Stamps /\ Stamped'
      /\ \A k \in Jobs : k # p /\ stamp[k] > 0 => stamp'[k] > 0
  BY <1>1, StampStays DEF Quiet
<1>4. Typed'
  BY <1>1, <1>2, <1>3 DEF Typed, TablesTyped, JobsTyped, StripeMovesOn, Quiet
<1>5. Onward
  BY DEF Onward, StripeMovesOn, Quiet
<1>6. JobsOK'
  BY <1>1, <1>3, <1>4, <1>5, JobsStay DEF Quiet
<1>7. EventsOK'
  <2>1. claimed' \cap due' = {}
    BY <1>1 DEF EventsOK, StripeMovesOn, Quiet
  <2>2. \A e \in due' \cup claimed' : e \in due \cup claimed \/ Happened(e)'
    BY DEF StripeMovesOn, Quiet
  <2> QED  BY <1>1, <1>4, <1>5, <2>1, <2>2, EventsStay
<1>8. StripeOK'
  BY DEF StripeMovesOn
<1>9. Mapped'
  <2>1. mapping' = mapping /\ person' = person
    BY DEF Quiet
  <2>2. mapping # None => mapping \in Customers /\ MadeCustomer(mapping)
    BY <1>1 DEF Typed, TablesTyped, Mapped
  <2>3. mapping' # None => MadeCustomer(mapping)'
    BY <2>1, <2>2 DEF StripeMovesOn, MadeCustomer
  <2>4. ASSUME person', NEW s \in Subs, Lives(sub'[s])
        PROVE  sub'[s].owner = mapping' /\ customer'[sub'[s].owner].standing = "present"
    <3>1. s \in Payable'
      BY <2>4 DEF Payable
    <3>2. s \in Payable => sub[s].owner = mapping /\ customer[sub[s].owner].standing = "present"
      BY <1>1, <2>1, <2>4 DEF Payable, Mapped
    <3> QED  BY <2>1, <2>4, <3>1, <3>2 DEF StripeMovesOn
  <2> QED  BY <2>3, <2>4 DEF Mapped
<1>10. RowsOK'
  BY <1>1 DEF RowsOK, StripeMovesOn, Quiet, MadeSub
<1>11. OrphansMade'
  BY <1>1 DEF OrphansMade, StripeMovesOn, Quiet, MadeSub, Typed, TablesTyped
<1>12. ClaimedIsRecorded'
  BY <1>1 DEF ClaimedIsRecorded, Quiet
<1> QED
  BY <1>2, <1>3, <1>4, <1>6, <1>7, <1>8, <1>9, <1>10, <1>11, <1>12 DEF Basics

LEMMA QuietStep ==
  ASSUME BillingInv, NEW p \in Jobs, Quiet(p), StripeMovesOn, JobOK(p)',
         Payable' \subseteq Payable, job'[p].at = "create" => job[p].at = "create",
         \A s \in Subs : Making(p, s) => Making(p, s)',
         person => \A s \in Subs : Making(p, s)' /\ row[s] = None => Making(p, s)
  PROVE  BillingInv'
<1>1. Basics /\ Basics' /\ Typed /\ Typed'
  <2>1. Basics /\ Basics'
    BY QuietBasics DEF BillingInv
  <2> QED  BY <2>1 DEF Basics
<1>2. ASSUME person' PROVE Recorded' /\ Counted'
  <2>1. Recorded /\ Counted
    BY <1>2 DEF BillingInv, Quiet
  <2>2. Payable' \subseteq Payable /\ orphans' = orphans /\ row' = row /\ LiveRows' = LiveRows
    BY DEF Quiet, LiveRows
  <2>3. \A j \in Jobs, s \in Subs : Making(j, s) => Making(j, s)'
    BY DEF Quiet, Making
  <2>4. \A j \in Jobs, s \in Subs : Making(j, s)' /\ row'[s] = None => Making(j, s)
    BY <1>2 DEF Quiet, Making
  <2>5. \A j \in Jobs : job'[j].at = "create" => job[j].at = "create"
    BY DEF Quiet
  <2>6. Counted'
    BY <1>1, <2>1, <2>2, <2>4, <2>5, CountsStay
  <2>7. \A s \in Payable', j \in Jobs : Making(j, s) /\ row[s] = None =>
          row'[s] = None /\ \E k \in Jobs : Making(k, s)'
    BY <2>2, <2>3 DEF Payable
  <2>8. Recorded'
    BY <2>1, <2>2, <2>7, RecordedStays
  <2> QED  BY <2>6, <2>8
<1> QED  BY <1>1, <1>2 DEF BillingInv

LEMMA StripeStandsStill ==
  ASSUME BillingInv, UNCHANGED <<customer, sub>>, due' \subseteq due
  PROVE  StripeMovesOn
<1>1. StripeTyped' /\ StripeOK'
  BY DEF BillingInv, Basics, Typed, StripeTyped, StripeOK, MadeSub, MadeCustomer
<1>2. \A s \in Subs : sub[s].version \in Nat
  BY DEF BillingInv, Basics, Typed, StripeTyped, SubRecords
<1>3. Payable' = Payable
  BY DEF Payable
<1> QED  BY <1>1, <1>2, <1>3 DEF StripeMovesOn, MadeSub, MadeCustomer, Deleted

-----------------------------------------------------------------------------
(* Steps that neither Stripe nor the tables notice.                        *)

(* What a job may be, as things stand.                                     *)
Fits(p, at, s, old, cust, seen, event) ==
  /\ s # None => MadeSub(s)
  /\ old # None => MadeSub(old)
  /\ cust # None => MadeCustomer(cust)
  /\ at \in SubSteps => s # None
  /\ at \in CustSteps => cust # None
  /\ at = "close" => Deleted(cust)
  /\ person /\ at \in {"ask", "lock", "replace", "abandon", "create"} =>
       cust = mapping \/ Deleted(cust)
  /\ person /\ at \in {"replace", "abandon", "upgrade", "switch"} => row[s] # None
  /\ at \in {"answer", "store"} => seen \in Snapshots /\ Lives(seen)
  /\ at \in {"read", "write"} =>
       /\ seen \in Snapshots /\ seen.status # "none"
       /\ seen.status = "canceled" => sub[IF old = None THEN s ELSE old].status = "canceled"
  /\ event # None =>
       /\ p \in Readers /\ Happened(event)
       /\ \/ /\ event[1] \in Subs /\ at \in {"serve", "read", "write"}
             /\ s = event[1] /\ old = None
          \/ event[1] \in Customers /\ at = "close"
  /\ p \in Presses /\ at \in PlanSteps => Want(p) \in Plans

LEMMA FitsIsOK ==
  ASSUME Typed, StripeMovesOn, NEW p \in Jobs,
         NEW at, NEW s, NEW old, NEW cust, NEW seen, NEW event,
         Fits(p, at, s, old, cust, seen, event), Moved(p, at, s, old, cust, seen, event),
         UNCHANGED <<person, mapping, row, cast>>,
         at \in {"store", "write"} => stamp'[p] > 0
  PROVE  JobOK(p)'
<1>1. /\ job'[p].at = at /\ job'[p].sub = s /\ job'[p].old = old /\ job'[p].cust = cust
      /\ job'[p].seen = seen /\ job'[p].event = event
      /\ at \in Steps /\ s \in Subs \cup {None} /\ old \in Subs \cup {None}
      /\ cust \in Customers \cup {None} /\ event \in Events \cup {None}
  BY DEF Moved, JobRecords
<1>2. IsAboutMade(p)'
  BY <1>1 DEF Fits, IsAboutMade, MadeSub, MadeCustomer, Deleted, StripeMovesOn, CustSteps
<1>3. person' => IsUpToDate(p)'
  BY <1>1 DEF Fits, IsUpToDate, Deleted, StripeMovesOn, CustSteps
<1>4. SawTrue(p)'
  <2>1. at \in {"read", "write"} => (IF old = None THEN s ELSE old) \in Subs
    BY <1>1 DEF Fits, SubSteps
  <2> QED  BY <1>1, <2>1 DEF Fits, SawTrue, Target, StripeMovesOn
<1>5. IsOfItsEvent(p)'
  <2>1. event # None => Happened(event)'
    BY <1>1 DEF Fits, Happened, MadeSub, Deleted, StripeMovesOn, Events, Typed, StripeTyped,
                SubRecords
  <2> QED  BY <1>1, <2>1 DEF Fits, IsOfItsEvent
<1>6. p \in Presses /\ job'[p].at \in PlanSteps => Want(p)' \in Plans
  BY <1>1 DEF Fits, Want
<1> QED  BY <1>1, <1>2, <1>3, <1>4, <1>5, <1>6 DEF JobOK

LEMMA OnlyAJob ==
  ASSUME BillingInv, NEW p \in Jobs, NEW at, NEW s, NEW old, NEW cust, NEW seen, NEW event,
         Fits(p, at, s, old, cust, seen, event), Moved(p, at, s, old, cust, seen, event),
         UNCHANGED <<customer, sub, person, mapping, row, claimed, orphans, cast>>,
         due' \subseteq due, LockMoves(p), StampMoves(p), at # "create",
         at = "store" => job[p].at = "answer" /\ s = job[p].sub /\ stamp' = StampedLast(p),
         at = "write" => stamp' = StampedLast(p),
         at # "answer", job[p].at = "answer" => at = "store", job[p].at # "store"
  PROVE  BillingInv'
<1>1. Typed /\ Stamped
  BY DEF BillingInv, Basics
<1>2. at \in {"store", "write"} => stamp'[p] > 0
  BY <1>1, StampStays
<1>3. JobOK(p)'
  BY <1>1, <1>2, FitsIsOK, StripeStandsStill
<1>4. \A x \in Subs : Making(p, x)' <=> Making(p, x)
  BY DEF Moved, Making
<1>5. Quiet(p)
  BY <1>4 DEF Quiet, Moved
<1>6. Payable' = Payable /\ (job'[p].at = "create" => job[p].at = "create")
  BY DEF Payable, Moved
<1> QED  BY <1>3, <1>4, <1>5, <1>6, StripeStandsStill, QuietStep

(* What a job is, as far as it goes.                                       *)
LEMMA JobFits ==
  ASSUME BillingInv, NEW p \in Jobs
  PROVE  /\ job[p] \in JobRecords
         /\ Fits(p, job[p].at, job[p].sub, job[p].old, job[p].cust, job[p].seen, job[p].event)
<1>1. Typed /\ JobOK(p)
  BY DEF BillingInv, Basics, JobsOK
<1>2. job[p] \in JobRecords
  BY <1>1 DEF Typed, JobsTyped
<1>3. person => IsUpToDate(p)
  BY <1>1 DEF JobOK
<1> QED
  BY <1>1, <1>2, <1>3 DEF JobOK, Fits, IsAboutMade, IsUpToDate, SawTrue, IsOfItsEvent, Target

LEMMA PressesAreJobs == Presses \subseteq Jobs /\ Readers \subseteq Jobs /\ Sweeper \in Jobs /\ Leaver \in Jobs
BY DEF Jobs

LEMMA AtIs ==
  ASSUME BillingInv, NEW p \in Jobs, NEW step, At(p, step)
  PROVE  p \in cast.jobs /\ job[p].at = step
BY DEF At

LEMMA ReadCustomerKeeps == ASSUME BillingInv, NEW p \in Presses, ReadCustomer(p) PROVE BillingInv'
<1>1. p \in Jobs /\ Typed /\ job[p].at = "customer"
  BY PressesAreJobs DEF BillingInv, Basics, ReadCustomer, At
<1> DEFINE step == IF mapping = None THEN "make" ELSE "ask"
<1>2. mapping \in Customers \cup {None} /\ step \in Steps
  BY <1>1 DEF Typed, TablesTyped, Steps
<1>3. Moved(p, step, job[p].sub, job[p].old, mapping, job[p].seen, job[p].event)
  BY <1>1, <1>2, KeepsCustIs DEF ReadCustomer
<1>4. Fits(p, step, job[p].sub, job[p].old, mapping, job[p].seen, job[p].event)
  <2>1. mapping # None => MadeCustomer(mapping)
    BY DEF BillingInv, Basics, Mapped
  <2> QED  BY <1>1, <2>1, JobFits DEF Fits, SubSteps, CustSteps, LockedSteps, PlanSteps
<1>5. LockMoves(p) /\ StampMoves(p)
  BY <1>1, <1>3 DEF LockMoves, StampMoves, Moved, ReadCustomer, LockedSteps
<1> QED  BY <1>1, <1>3, <1>4, <1>5, OnlyAJob DEF ReadCustomer, stripeVars, tables

LEMMA AskCustomerKeeps == ASSUME BillingInv, NEW p \in Presses, AskCustomer(p) PROVE BillingInv'
<1>1. p \in Jobs /\ Typed /\ job[p].at = "ask" /\ p \in cast.jobs
  BY PressesAreJobs DEF BillingInv, Basics, AskCustomer, At
<1>2. PICK step \in {"lock", "close"} : /\ Goes(p, step)
                                        /\ step = "close" => customer[job[p].cust].standing # "present"
                                        /\ stamp' \in {stamp, StampedLast(p)}
  BY DEF AskCustomer
<1>3. Moved(p, step, job[p].sub, job[p].old, job[p].cust, job[p].seen, job[p].event)
  BY <1>1, <1>2, GoesIs DEF Steps
<1>4. Fits(p, step, job[p].sub, job[p].old, job[p].cust, job[p].seen, job[p].event)
  <2>1. job[p].cust \in Customers /\ MadeCustomer(job[p].cust)
    BY <1>1, JobFits DEF Fits, CustSteps, JobRecords
  <2>2. step = "close" => Deleted(job[p].cust)
    BY <1>1, <1>2, <2>1 DEF MadeCustomer, Deleted, Typed, StripeTyped, CustomerRecords
  <2> QED  BY <1>1, <1>2, <2>1, <2>2, JobFits DEF Fits, SubSteps, CustSteps, LockedSteps, PlanSteps
<1>5. LockMoves(p) /\ StampMoves(p)
  BY <1>1, <1>2, <1>3 DEF LockMoves, StampMoves, Moved, AskCustomer, LockedSteps
<1> QED  BY <1>1, <1>3, <1>4, <1>5, OnlyAJob DEF AskCustomer, stripeVars, tables

LEMMA TakeWinnerKeeps == ASSUME BillingInv, NEW p \in Presses, TakeWinner(p) PROVE BillingInv'
<1>1. p \in Jobs /\ Typed /\ job[p].at = "winner"
  BY PressesAreJobs DEF BillingInv, Basics, TakeWinner, At
<1>2. mapping \in Customers /\ MadeCustomer(mapping)
  BY <1>1 DEF BillingInv, Basics, Typed, TablesTyped, Mapped, TakeWinner
<1>3. Moved(p, "lock", job[p].sub, job[p].old, mapping, job[p].seen, job[p].event)
  BY <1>1, <1>2, KeepsCustIs DEF TakeWinner, Steps
<1>4. Fits(p, "lock", job[p].sub, job[p].old, mapping, job[p].seen, job[p].event)
  <2>1. mapping # None
    BY DEF TakeWinner
  <2> QED  BY <1>1, <1>2, <2>1, JobFits DEF Fits, SubSteps, CustSteps, LockedSteps, PlanSteps
<1>5. LockMoves(p) /\ StampMoves(p)
  BY <1>1, <1>3 DEF LockMoves, StampMoves, Moved, TakeWinner, LockedSteps
<1> QED  BY <1>1, <1>3, <1>4, <1>5, OnlyAJob DEF TakeWinner, stripeVars, tables

(* A job that gives up, or is done.                                        *)
LEMMA EndsQuietly ==
  ASSUME BillingInv, NEW p \in Jobs, job' = [job EXCEPT ![p] = Idle],
         job[p].at \notin {"answer", "store"},
         UNCHANGED <<customer, sub, person, mapping, row, claimed, orphans, cast>>,
         due' \subseteq due, lock' = Unlocked(p) \/ (lock' = lock /\ job[p].at \notin LockedSteps),
         StampMoves(p)
  PROVE  BillingInv'
<1>1. Typed
  BY DEF BillingInv, Basics
<1>2. Moved(p, "idle", None, None, None, None, None)
  BY <1>1, IdlesIs
<1>3. Fits(p, "idle", None, None, None, None, None)
  BY DEF Fits, SubSteps, CustSteps, LockedSteps, PlanSteps
<1>4. LockMoves(p)
  BY <1>2 DEF LockMoves, Moved, LockedSteps
<1> QED  BY <1>1, <1>2, <1>3, <1>4, OnlyAJob

LEMMA AskSettlingKeeps == ASSUME BillingInv, NEW p \in Presses, AskSettling(p) PROVE BillingInv'
<1>1. p \in Jobs /\ Typed /\ job[p].at = "replace" /\ p \in cast.jobs
  BY PressesAreJobs DEF BillingInv, Basics, AskSettling, At
<1>2. CASE Over(p)
  BY <1>1, <1>2, EndsQuietly DEF Over, AskSettling, stripeVars, tables, StampMoves
<1>3. CASE Goes(p, "abandon") /\ UNCHANGED <<lock, stamp>>
  <2>1. Moved(p, "abandon", job[p].sub, job[p].old, job[p].cust, job[p].seen, job[p].event)
    BY <1>1, <1>3, GoesIs DEF Steps
  <2>2. Fits(p, "abandon", job[p].sub, job[p].old, job[p].cust, job[p].seen, job[p].event)
    BY <1>1, JobFits DEF Fits, SubSteps, CustSteps, LockedSteps, PlanSteps
  <2>3. LockMoves(p) /\ StampMoves(p)
    BY <1>1, <1>3, <2>1 DEF LockMoves, StampMoves, Moved, LockedSteps
  <2> QED  BY <1>1, <2>1, <2>2, <2>3, OnlyAJob DEF AskSettling, stripeVars, tables
<1> QED  BY <1>2, <1>3 DEF AskSettling

LEMMA AnswerKeeps == ASSUME BillingInv, NEW p \in Presses, Answer(p) PROVE BillingInv'
<1>1. p \in Jobs /\ Typed /\ job[p].at = "answer" /\ p \in cast.jobs
  BY PressesAreJobs DEF BillingInv, Basics, Answer, At
<1>2. Moved(p, "store", job[p].sub, job[p].old, job[p].cust, job[p].seen, job[p].event)
  BY <1>1, GoesIs DEF Answer, Steps
<1>3. Fits(p, "store", job[p].sub, job[p].old, job[p].cust, job[p].seen, job[p].event)
  BY <1>1, JobFits DEF Fits, SubSteps, CustSteps, LockedSteps, PlanSteps
<1>4. LockMoves(p) /\ StampMoves(p)
  BY <1>1, <1>2 DEF LockMoves, StampMoves, Moved, Answer, LockedSteps
<1> QED  BY <1>1, <1>2, <1>3, <1>4, OnlyAJob DEF Answer, stripeVars, tables

LEMMA FinishKeeps == ASSUME BillingInv, NEW p \in Presses, Finish(p) PROVE BillingInv'
<1>1. p \in Jobs /\ job[p].at = "finish"
  BY PressesAreJobs DEF Finish, At
<1> QED  BY <1>1, EndsQuietly DEF Finish, stripeVars, LockedSteps, StampMoves

LEMMA SnapshotIs ==
  ASSUME Typed, NEW s \in Subs
  PROVE  Snapshot(s) \in Snapshots /\ Snapshot(s).status = sub[s].status
BY DEF Typed, StripeTyped, SubRecords, Snapshot, SnapshotOf, Snapshots

LEMMA ServeKeeps == ASSUME BillingInv, NEW j \in Jobs, Serve(j) PROVE BillingInv'
<1>1. Typed /\ job[j].at = "serve" /\ job[j] \in JobRecords
  BY JobFits DEF BillingInv, Basics, Serve, At
<1>2. Fits(j, "serve", job[j].sub, job[j].old, job[j].cust, job[j].seen, job[j].event)
  BY <1>1, JobFits
<1>3. Target(j) \in Subs /\ MadeSub(Target(j))
  BY <1>1, <1>2 DEF Target, Fits, JobRecords, SubSteps
<1> DEFINE seen == Snapshot(Target(j))
<1>4. seen \in Snapshots /\ seen.status = sub[Target(j)].status
  BY <1>1, <1>3, SnapshotIs
<1> HIDE DEF seen
<1>5. Moved(j, "read", job[j].sub, job[j].old, job[j].cust, seen, job[j].event)
  BY <1>1, <1>4, KeepsSeenIs DEF Serve, Steps, seen
<1>6. Fits(j, "read", job[j].sub, job[j].old, job[j].cust, seen, job[j].event)
  BY <1>2, <1>3, <1>4 DEF Fits, SubSteps, CustSteps, LockedSteps, PlanSteps, Target, MadeSub
<1>7. LockMoves(j) /\ StampMoves(j)
  BY <1>1, <1>5 DEF LockMoves, StampMoves, Moved, Serve, LockedSteps
<1> QED  BY <1>1, <1>5, <1>6, <1>7, OnlyAJob DEF Serve, stripeVars, tables

LEMMA StampKeeps == ASSUME BillingInv, NEW j \in Jobs, Stamp(j) PROVE BillingInv'
<1>1. Typed /\ job[j].at = "read" /\ j \in cast.jobs
  BY DEF BillingInv, Basics, Stamp, At
<1>2. Moved(j, "write", job[j].sub, job[j].old, job[j].cust, job[j].seen, job[j].event)
  BY <1>1, GoesIs DEF Stamp, Steps
<1>3. Fits(j, "write", job[j].sub, job[j].old, job[j].cust, job[j].seen, job[j].event)
  BY <1>1, JobFits DEF Fits, SubSteps, CustSteps, LockedSteps, PlanSteps
<1>4. LockMoves(j) /\ StampMoves(j)
  BY <1>1, <1>2 DEF LockMoves, StampMoves, Moved, Stamp, LockedSteps
<1> QED  BY <1>1, <1>2, <1>3, <1>4, OnlyAJob DEF Stamp, stripeVars, tables

LEMMA PressKeeps == ASSUME BillingInv, NEW p \in Presses, Press(p) PROVE BillingInv'
<1>1. p \in Jobs /\ Typed /\ job[p].at = "idle"
  BY PressesAreJobs DEF BillingInv, Basics, Press, At
<1>2. Fits(p, "idle", job[p].sub, job[p].old, job[p].cust, job[p].seen, job[p].event)
  BY <1>1, JobFits
<1>3. CASE Want(p) \in Plans /\ Goes(p, "customer")
  <2>1. Moved(p, "customer", job[p].sub, job[p].old, job[p].cust, job[p].seen, job[p].event)
    BY <1>1, <1>3, GoesIs DEF Steps
  <2>2. Fits(p, "customer", job[p].sub, job[p].old, job[p].cust, job[p].seen, job[p].event)
    BY <1>2, <1>3 DEF Fits, SubSteps, CustSteps, LockedSteps
  <2>3. LockMoves(p) /\ StampMoves(p)
    BY <1>1, <2>1 DEF LockMoves, StampMoves, Moved, Press, LockedSteps
  <2> QED  BY <1>1, <2>1, <2>2, <2>3, OnlyAJob DEF Press, stripeVars
<1>4. CASE Current # None /\ job' = [job EXCEPT ![p].at = "unschedule", ![p].sub = Current]
  <2> DEFINE cur == Current
  <2>1. cur \in Subs /\ MadeSub(cur) /\ cur # None
    BY <1>4, CurrentIsStored DEF BillingInv, Basics
  <2>2. job' = [job EXCEPT ![p].at = "unschedule", ![p].sub = cur]
    BY <1>4
  <2> HIDE DEF cur
  <2>3. Moved(p, "unschedule", cur, job[p].old, job[p].cust, job[p].seen, job[p].event)
    <3> DEFINE r == [job[p] EXCEPT !.at = "unschedule", !.sub = cur]
    <3>1. job \in [Jobs -> JobRecords] /\ job[p] \in JobRecords
      BY <1>1 DEF Typed, JobsTyped
    <3>2. /\ r \in JobRecords /\ r.at = "unschedule" /\ r.sub = cur /\ r.old = job[p].old
          /\ r.cust = job[p].cust /\ r.seen = job[p].seen /\ r.event = job[p].event
      BY <2>1, <3>1 DEF JobRecords, Steps
    <3>3. job' = [job EXCEPT ![p] = r]
      BY <2>2, <3>1
    <3> HIDE DEF r
    <3> QED  BY <1>1, <3>2, <3>3, BecomesIs
  <2>4. Fits(p, "unschedule", cur, job[p].old, job[p].cust, job[p].seen, job[p].event)
    BY <1>2, <2>1 DEF Fits, SubSteps, CustSteps, LockedSteps, PlanSteps
  <2>5. LockMoves(p) /\ StampMoves(p)
    BY <1>1, <2>3 DEF LockMoves, StampMoves, Moved, Press, LockedSteps
  <2> QED  BY <1>1, <2>3, <2>4, <2>5, OnlyAJob DEF Press, stripeVars
<1> QED  BY <1>3, <1>4 DEF Press

LEMMA BeginsReading ==
  ASSUME BillingInv, NEW j \in Jobs, NEW s \in Subs, MadeSub(s), NEW e \in Events \cup {None},
         At(j, "idle"), e # None => j \in Readers /\ Happened(e) /\ e[1] = s,
         \/ job' = [job EXCEPT ![j] = [Idle EXCEPT !.at = "serve", !.sub = s, !.event = e]]
         \/ e = None /\ job' = [job EXCEPT ![j] = [Idle EXCEPT !.at = "serve", !.sub = s]],
         UNCHANGED <<customer, sub, person, mapping, row, claimed, orphans, cast, lock>>,
         due' \subseteq due, StampMoves(j)
  PROVE  BillingInv'
<1>1. Typed /\ job[j].at = "idle"
  BY DEF BillingInv, Basics, At
<1>2. Moved(j, "serve", s, None, None, None, e)
  BY <1>1, ReadsIs DEF Steps
<1>3. Fits(j, "serve", s, None, None, None, e)
  <2>1. s # None
    BY BillingAssumption
  <2> QED  BY <2>1 DEF Fits, SubSteps, CustSteps, LockedSteps, PlanSteps
<1>4. LockMoves(j)
  BY <1>1, <1>2 DEF LockMoves, Moved, LockedSteps
<1> QED  BY <1>1, <1>2, <1>3, <1>4, OnlyAJob

LEMMA RereadKeeps == ASSUME BillingInv, NEW r \in Readers, Reread(r) PROVE BillingInv'
<1> DEFINE cur == Current
<1>1. r \in Jobs /\ cur \in Subs /\ MadeSub(cur)
  BY PressesAreJobs, CurrentIsStored DEF BillingInv, Basics, Reread
<1>2. job' = [job EXCEPT ![r] = [Idle EXCEPT !.at = "serve", !.sub = cur]]
  BY DEF Reread
<1> HIDE DEF cur
<1> QED  BY <1>1, <1>2, BeginsReading DEF Reread, stripeVars, tables, StampMoves

LEMMA NewerIsStamped ==
  ASSUME Typed, NEW j \in Jobs, NEW s \in Subs, Newer(j, s)
  PROVE  stamp[j] > 0
<1>1. stamp[j] \in Nat /\ stamp[s] \in Nat
  BY DEF Typed, JobsTyped, Stamps, Clocked
<1> QED  BY <1>1 DEF Newer

LEMMA OldestIs ==
  ASSUME Typed, NEW S \in SUBSET Subs, S # {}
  PROVE  \E s \in S : \A t \in S : stamp[s] <= stamp[t]
<1> DEFINE Ages == {stamp[s] : s \in S}
<1>1. \A s \in S : stamp[s] \in Nat
  BY DEF Typed, JobsTyped, Stamps, Clocked
<1>2. Ages \in SUBSET Nat /\ Ages # {}
  BY <1>1
<1>3. PICK a \in Ages : \A b \in Ages : ~ (<<b, a>> \in OpToRel(<, Nat))
  BY <1>2, NatLessThanWellFounded, WFMin
<1>4. \A b \in Ages : ~ (b < a)
  BY <1>2, <1>3 DEF OpToRel
<1>5. PICK s \in S : a = stamp[s]
  OBVIOUS
<1>6. \A t \in S : stamp[s] <= stamp[t]
  BY <1>1, <1>4, <1>5
<1> QED  BY <1>6

LEMMA SweepKeeps == ASSUME BillingInv, Sweep PROVE BillingInv'
<1> DEFINE left == LiveRows \cap stale
           oldest == CHOOSE s \in left : \A t \in left : stamp[s] <= stamp[t]
<1>1. Typed /\ RowsOK /\ Sweeper \in Jobs
  BY PressesAreJobs DEF BillingInv, Basics
<1>2. left \in SUBSET Subs /\ left # {}
  BY DEF LiveRows, Sweep
<1>3. oldest \in left
  <2>1. \E s \in left : \A t \in left : stamp[s] <= stamp[t]
    BY <1>1, <1>2, OldestIs
  <2> QED  BY <2>1
<1>4. oldest \in Subs /\ MadeSub(oldest)
  BY <1>1, <1>3 DEF LiveRows, RowsOK
<1>5. job' = [job EXCEPT ![Sweeper] = [Idle EXCEPT !.at = "serve", !.sub = oldest]]
  BY DEF Sweep
<1> HIDE DEF oldest
<1>6. StampMoves(Sweeper)
  BY DEF Sweep, At, StampMoves
<1> QED  BY <1>1, <1>4, <1>5, <1>6, BeginsReading DEF Sweep, stripeVars, tables

LEMMA DeferKeeps == ASSUME BillingInv, Defer PROVE BillingInv'
<1> DEFINE s == job[Sweeper].sub
           moved == IF row[s] # None /\ Newer(Sweeper, s) THEN {s} ELSE {}
<1>1. Typed /\ Sweeper \in Jobs /\ job[Sweeper].at \in {"serve", "read"}
  BY PressesAreJobs DEF BillingInv, Basics, Defer, At
<1>2. s \in Subs
  BY <1>1, JobFits DEF Fits, JobRecords, SubSteps
<1>3. StampMoves(Sweeper)
  <2>1. moved \in SUBSET Subs /\ \A x \in moved : row[x] # None /\ stamp[Sweeper] > 0
    BY <1>1, <1>2, NewerIsStamped
  <2>2. stamp' = TakesStamp(moved, Sweeper)
    BY DEF Defer
  <2> QED  BY <2>1, <2>2 DEF StampMoves
<1> QED  BY <1>1, <1>3, EndsQuietly DEF Defer, stripeVars, tables, LockedSteps

LEMMA NoJobMoves ==
  ASSUME BillingInv, due' \subseteq due,
         UNCHANGED <<customer, sub, person, mapping, row, claimed, lock, stamp, job, cast, orphans>>
  PROVE  BillingInv'
<1> DEFINE p == Sweeper
<1>1. p \in Jobs /\ job[p] \in JobRecords /\ Typed /\ JobOK(p)
  BY PressesAreJobs, JobFits DEF BillingInv, Basics, JobsOK
<1>2. Moved(p, job[p].at, job[p].sub, job[p].old, job[p].cust, job[p].seen, job[p].event)
  BY <1>1 DEF Moved, Typed, JobsTyped
<1>3. JobOK(p)'
  BY <1>1, <1>2, JobFits, FitsIsOK, StripeStandsStill DEF JobOK
<1>4. Quiet(p)
  BY <1>2 DEF Quiet, Moved, LockMoves, StampMoves
<1>5. Payable' = Payable /\ \A x \in Subs : Making(p, x)' <=> Making(p, x)
  BY DEF Payable, Making
<1> QED  BY <1>1, <1>3, <1>4, <1>5, StripeStandsStill, QuietStep

LEMMA HoursPassKeeps == ASSUME BillingInv, HoursPass PROVE BillingInv'
BY NoJobMoves DEF HoursPass, stripeVars, tables

LEMMA DeliverKeeps ==
  ASSUME BillingInv, NEW r \in Readers, NEW e \in due, Deliver(r, e)
  PROVE  BillingInv'
<1>1. /\ r \in Jobs /\ r \in cast.jobs /\ job[r].at = "idle" /\ Typed
      /\ Happened(e) /\ e \in Events /\ Subs \cap Customers = {}
  BY PressesAreJobs, BillingAssumption
  DEF BillingInv, Basics, EventsOK, Typed, StripeTyped, Deliver, At
<1>2. CASE e[1] \in Customers
  <2>1. Deleted(e[1]) /\ e[1] # None
    BY <1>1, <1>2, BillingAssumption DEF Happened
  <2> DEFINE q == [Idle EXCEPT !.at = "close", !.cust = e[1], !.event = e]
  <2>2. /\ q \in JobRecords /\ q.at = "close" /\ q.sub = None /\ q.old = None /\ q.cust = e[1]
        /\ q.seen = None /\ q.event = e
    BY <1>1, <1>2, IdleIs DEF JobRecords, Steps
  <2>3. job' = [job EXCEPT ![r] = q]
    BY <1>2 DEF Deliver
  <2> HIDE DEF q
  <2>4. Moved(r, "close", None, None, e[1], None, e)
    BY <1>1, <2>2, <2>3, BecomesIs
  <2>5. Fits(r, "close", None, None, e[1], None, e)
    <3>1. r \notin Presses
      BY BillingAssumption
    <3> QED
      BY <1>1, <1>2, <2>1, <3>1 DEF Fits, SubSteps, LockedSteps, Deleted, MadeCustomer
  <2>6. LockMoves(r) /\ StampMoves(r)
    BY <1>1, <1>2, <2>4 DEF LockMoves, StampMoves, Moved, LockedSteps, Deliver
  <2> QED
    BY <1>1, <1>2, <2>4, <2>5, <2>6, OnlyAJob DEF Deliver, tables
<1>3. CASE e[1] \notin Customers
  <2>1. e[1] \in Subs /\ MadeSub(e[1])
    BY <1>1, <1>3 DEF Happened
  <2>2. CASE mapping = sub[e[1]].owner
    <3>1. job' = [job EXCEPT ![r] = [Idle EXCEPT !.at = "serve", !.sub = e[1], !.event = e]]
      BY <1>3, <2>2 DEF Deliver
    <3>2. UNCHANGED <<due, stamp, customer, sub, person, mapping, row, claimed, orphans, cast, lock>>
      BY <1>3, <2>2 DEF Deliver, tables
    <3>3. At(r, "idle")
      BY DEF Deliver
    <3> QED  BY <1>1, <2>1, <3>1, <3>2, <3>3, BeginsReading DEF StampMoves
  <2>3. CASE mapping # sub[e[1]].owner
    BY <1>3, <2>3, NoJobMoves DEF Deliver, tables
  <2> QED  BY <2>2, <2>3
<1> QED  BY <1>2, <1>3

LEMMA LeaveKeeps == ASSUME BillingInv, Leave PROVE BillingInv'
<1>1. /\ Leaver \in Jobs /\ Leaver \notin Presses /\ Typed /\ job[Leaver].at = "idle"
  BY PressesAreJobs, BillingAssumption DEF BillingInv, Basics, Leave, At
<1>2. mapping \in Customers \cup {None} /\ (mapping # None => MadeCustomer(mapping))
  BY DEF BillingInv, Basics, Typed, TablesTyped, Mapped
<1>3. PICK step \in {"erase", "drop"}, c \in Customers \cup {None} :
        /\ Moved(Leaver, step, job[Leaver].sub, job[Leaver].old, c, job[Leaver].seen,
                 job[Leaver].event)
        /\ c \in {job[Leaver].cust, mapping} /\ (step = "drop" => c # None)
  <2>1. CASE mapping = None
    <3>1. Goes(Leaver, "erase") /\ job[Leaver].cust \in Customers \cup {None}
      BY <1>1, <2>1 DEF Leave, Typed, JobsTyped, JobRecords
    <3>2. Moved(Leaver, "erase", job[Leaver].sub, job[Leaver].old, job[Leaver].cust,
                job[Leaver].seen, job[Leaver].event)
      BY <1>1, <3>1, GoesIs DEF Steps
    <3> QED  BY <3>1, <3>2
  <2>2. CASE mapping # None
    <3>1. Keeps(Leaver, "drop", "cust", mapping)
      BY <2>2 DEF Leave
    <3>2. Moved(Leaver, "drop", job[Leaver].sub, job[Leaver].old, mapping,
                job[Leaver].seen, job[Leaver].event)
      BY <1>1, <1>2, <3>1, KeepsCustIs DEF Steps
    <3> QED  BY <1>2, <2>2, <3>2
  <2> QED  BY <2>1, <2>2
<1>4. Fits(Leaver, step, job[Leaver].sub, job[Leaver].old, c, job[Leaver].seen, job[Leaver].event)
  BY <1>1, <1>2, <1>3, JobFits DEF Fits, SubSteps, CustSteps, LockedSteps
<1>5. LockMoves(Leaver) /\ StampMoves(Leaver)
  BY <1>1, <1>3 DEF LockMoves, StampMoves, Moved, LockedSteps, Leave
<1> QED  BY <1>1, <1>3, <1>4, <1>5, OnlyAJob DEF Leave, stripeVars, tables

LEMMA ActionIs ==
  ASSUME NEW x, NEW want
  PROVE  /\ Action(x, want) \in {"create", "resume", "replace", "release", "none", "ending",
                                 "upgrade", "schedule"}
         /\ Action(x, want) = "create" <=> x = None
BY DEF Action

(* Whoever decides while the lock is free finds, if there is no live row,  *)
(* nothing that is there to be paid and nobody's fault.                    *)
LEMMA NoneIsProper ==
  ASSUME BillingInv, person, Free, LiveRows = {}
  PROVE  Proper = {}
<1>1. Recorded /\ LockHeld
  BY DEF BillingInv, Basics
<1>2. \A j \in Jobs, s \in Subs : ~Making(j, s)
  BY <1>1, BillingAssumption DEF Making, LockHeld, LockedSteps, Free
<1> QED  BY <1>1, <1>2 DEF Recorded, Proper, Payable

LEMMA DecideKeeps == ASSUME BillingInv, NEW p \in Presses, Decide(p) PROVE BillingInv'
<1> DEFINE cur == Current
           action == Action(IF cur = None THEN None ELSE row[cur], Want(p))
<1>1. /\ p \in Jobs /\ Typed /\ job[p].at = "lock" /\ Free
      /\ Fits(p, "lock", job[p].sub, job[p].old, job[p].cust, job[p].seen, job[p].event)
  BY PressesAreJobs, JobFits DEF BillingInv, Basics, Decide, At
<1>2. UNCHANGED <<customer, sub, due, person, mapping, row, claimed, stamp, cast, orphans>>
  BY DEF Decide, stripeVars, tables
<1>3. /\ action = "ending" => job' = [job EXCEPT ![p] = Idle] /\ UNCHANGED lock
      /\ action \in {"none", "resume"} => Goes(p, "finish") /\ UNCHANGED lock
      /\ action \in {"create", "replace", "release", "upgrade", "schedule"} =>
           lock' = p /\ Keeps(p, action, "sub", cur)
  <2>1. CASE action = "ending"
    BY <2>1 DEF Decide
  <2>2. CASE action \in {"none", "resume"}
    BY <2>2 DEF Decide
  <2>3. CASE action \in {"create", "replace", "release", "upgrade", "schedule"}
    BY <2>3 DEF Decide
  <2> QED  BY <2>1, <2>2, <2>3
<1>4. /\ cur # None => cur \in Subs /\ MadeSub(cur) /\ row[cur] # None
      /\ cur = None => LiveRows = {}
  BY <1>1, CurrentIsStored, NoCurrent DEF BillingInv, Basics, LiveRows
<1>5. /\ action \in {"create", "resume", "replace", "release", "none", "ending", "upgrade",
                     "schedule"}
      /\ action = "create" <=> cur = None
  BY <1>4, ActionIs
<1> HIDE DEF cur, action
<1>6. CASE action = "ending"
  BY <1>1, <1>2, <1>3, <1>6, EndsQuietly DEF LockedSteps, StampMoves
<1>7. CASE action \in {"none", "resume"}
  <2>1. Moved(p, "finish", job[p].sub, job[p].old, job[p].cust, job[p].seen, job[p].event)
    BY <1>1, <1>3, <1>7, GoesIs DEF Steps
  <2>2. Fits(p, "finish", job[p].sub, job[p].old, job[p].cust, job[p].seen, job[p].event)
    BY <1>1 DEF Fits, SubSteps, CustSteps, LockedSteps, PlanSteps
  <2>3. LockMoves(p) /\ StampMoves(p)
    BY <1>1, <1>2, <1>3, <1>7, <2>1 DEF LockMoves, StampMoves, Moved, LockedSteps
  <2> QED  BY <1>1, <1>2, <2>1, <2>2, <2>3, OnlyAJob
<1>8. CASE action \in {"replace", "release", "upgrade", "schedule"}
  <2>1. cur \in Subs /\ MadeSub(cur) /\ row[cur] # None /\ cur # None
    BY <1>4, <1>5, <1>8
  <2>2. Moved(p, action, cur, job[p].old, job[p].cust, job[p].seen, job[p].event)
    BY <1>1, <1>3, <1>8, <2>1, KeepsSubIs DEF Steps
  <2>3. Fits(p, action, cur, job[p].old, job[p].cust, job[p].seen, job[p].event)
    BY <1>1, <1>8, <2>1 DEF Fits, SubSteps, CustSteps, LockedSteps, PlanSteps
  <2>4. LockMoves(p) /\ StampMoves(p)
    BY <1>1, <1>2, <1>3, <1>8, <2>2 DEF LockMoves, StampMoves, Moved, LockedSteps
  <2> QED  BY <1>1, <1>2, <1>8, <2>2, <2>3, <2>4, OnlyAJob
<1>9. CASE action = "create"
  <2>1. Moved(p, "create", None, job[p].old, job[p].cust, job[p].seen, job[p].event)
    BY <1>1, <1>3, <1>5, <1>9, KeepsSubIs DEF Steps
  <2>2. Fits(p, "create", None, job[p].old, job[p].cust, job[p].seen, job[p].event)
    BY <1>1 DEF Fits, SubSteps, CustSteps, LockedSteps, PlanSteps
  <2>3. JobOK(p)'
    BY <1>1, <1>2, <2>1, <2>2, FitsIsOK, StripeStandsStill
  <2>4. Quiet(p)
    BY <1>1, <1>2, <1>3, <1>9, <2>1 DEF Quiet, LockMoves, StampMoves, Moved, LockedSteps
  <2>5. Basics'
    BY <1>1, <1>2, <2>3, <2>4, StripeStandsStill, QuietBasics DEF BillingInv
  <2>6. ASSUME person' PROVE Recorded' /\ Counted'
    <3>1. Proper = {}
      BY <1>1, <1>2, <1>4, <1>5, <1>9, <2>6, NoneIsProper
    <3>2. Proper' = {} /\ Payable' \subseteq orphans' /\ Spent' \in SUBSET Subs
      BY <1>1, <1>2, <3>1 DEF Proper, Payable, Spent, Typed, TablesTyped
    <3>3. Cardinality({}) = 0 /\ Cardinality(Spent') \in Nat /\ \A s : {} \ {s} = {}
      BY <3>2, SubsAreFinite, FS_EmptySet
    <3>4. Counted'
      BY <3>2, <3>3 DEF Counted
    <3> QED  BY <3>2, <3>4 DEF Recorded, Payable
  <2> QED  BY <2>5, <2>6 DEF BillingInv
<1> QED  BY <1>5, <1>6, <1>7, <1>8, <1>9

(* An attempt that breaks off leaves an orphan, if it had made one.        *)
LEMMA BreaksOff ==
  ASSUME BillingInv, NEW j \in Jobs, j \in cast.jobs, Over(j), orphans' = orphans \cup Loses(j),
         UNCHANGED <<customer, sub, due, person, mapping, row, claimed, cast>>
  PROVE  BillingInv'
<1>1. /\ Basics /\ Typed /\ LockHeld /\ Stamped /\ JobsOK /\ RowsOK /\ OrphansMade
      /\ job[j] \in JobRecords
  BY JobFits DEF BillingInv, Basics
<1>2. Moved(j, "idle", None, None, None, None, None)
  BY <1>1, IdlesIs DEF Over
<1>3. LockMoves(j) /\ StampMoves(j)
  BY <1>2 DEF LockMoves, StampMoves, Moved, Over, LockedSteps
<1>4. LockHeld' /\ lock' \in Jobs \cup {None}
  BY <1>1, <1>2, <1>3, LockStays DEF Moved
<1>5. /\ stamp' \in Stamps /\ Stamped'
      /\ \A k \in Jobs : k # j /\ stamp[k] > 0 => stamp'[k] > 0
  BY <1>1, <1>3, StampStays
<1>6. \A s \in Loses(j) : s \in Subs /\ MadeSub(s)
  BY <1>1, JobFits, BillingAssumption DEF Loses, Fits
<1>7. Typed'
  BY <1>1, <1>2, <1>4, <1>5, <1>6
  DEF Typed, StripeTyped, TablesTyped, JobsTyped, Moved, SubRecords
<1>8. Fits(j, "idle", None, None, None, None, None)
  BY DEF Fits, SubSteps, CustSteps, LockedSteps, PlanSteps
<1>9. JobOK(j)'
  BY <1>1, <1>2, <1>8, FitsIsOK, StripeStandsStill
<1>10. Onward
  <2>1. \A s \in Subs : sub[s].version \in Nat
    BY <1>1 DEF Typed, StripeTyped, SubRecords
  <2> QED  BY <2>1 DEF Onward, MadeSub, MadeCustomer, Deleted
<1>11. JobsOK'
  BY <1>1, <1>2, <1>5, <1>7, <1>9, <1>10, JobsStay DEF Moved
<1>12. EventsOK'
  BY <1>1 DEF Basics, EventsOK, Happened, MadeSub, Deleted
<1>13. StripeOK' /\ Mapped' /\ RowsOK' /\ ClaimedIsRecorded'
  BY <1>1 DEF Basics, StripeOK, Mapped, RowsOK, ClaimedIsRecorded, MadeSub, MadeCustomer
<1>14. OrphansMade'
  BY <1>1, <1>6 DEF OrphansMade, MadeSub
<1>15. ASSUME person' PROVE Recorded' /\ Counted'
  <2>1. Recorded /\ Counted
    BY <1>15 DEF BillingInv
  <2>2. Payable' = Payable /\ LiveRows' = LiveRows /\ orphans \subseteq orphans'
    BY DEF Payable, LiveRows
  <2>3. \A k \in Jobs, s \in Subs : Making(k, s)' => Making(k, s)
    BY <1>2 DEF Making, Moved
  <2>4. \A k \in Jobs : job'[k].at = "create" => job[k].at = "create"
    BY <1>2 DEF Moved
  <2>5. Counted'
    BY <1>1, <1>7, <2>1, <2>2, <2>3, <2>4, CountsStay
  <2>6. \A s \in Payable', k \in Jobs : Making(k, s) /\ row[s] = None =>
          \/ s \in orphans'
          \/ row'[s] = None /\ \E l \in Jobs : Making(l, s)'
    <3> SUFFICES ASSUME NEW s \in Payable', NEW k \in Jobs, Making(k, s), row[s] = None
                 PROVE  s \in orphans' \/ (row'[s] = None /\ \E l \in Jobs : Making(l, s)')
      OBVIOUS
    <3>1. CASE k = j
      BY <3>1 DEF Making, Loses, Payable
    <3>2. CASE k # j
      BY <1>2, <3>2 DEF Making, Moved
    <3> QED  BY <3>1, <3>2
  <2>7. Recorded'
    BY <2>1, <2>2, <2>6, RecordedStays
  <2> QED  BY <2>5, <2>7
<1> QED
  BY <1>4, <1>5, <1>7, <1>11, <1>12, <1>13, <1>14, <1>15 DEF BillingInv, Basics

LEMMA RefusedKeeps == ASSUME BillingInv, NEW p \in Presses, Refused(p) PROVE BillingInv'
BY PressesAreJobs, BreaksOff DEF Refused, stripeVars, tables

LEMMA BreakKeeps == ASSUME BillingInv, NEW j \in Jobs, Break(j) PROVE BillingInv'
BY BreaksOff DEF Break, stripeVars, tables

-----------------------------------------------------------------------------
(* Steps that Stripe takes, or takes for a job.                            *)

LEMMA BecomesMovesOn ==
  ASSUME BillingInv, NEW s \in Subs, NEW x \in SubRecords, Becomes(s, x), UNCHANGED customer,
         MadeSub(s), x.owner = sub[s].owner, x.by = sub[s].by, x.version = sub[s].version,
         x.status # "none", Lives(x) => Lives(sub[s]), ~Lives(x) => x.next = None
  PROVE  StripeMovesOn /\ Payable' \subseteq Payable
<1>1. Typed /\ StripeOK /\ EventsOK /\ sub \in [Subs -> SubRecords] /\ Subs \cap Customers = {}
  BY BillingAssumption DEF BillingInv, Basics, Typed, StripeTyped
<1> DEFINE y == [x EXCEPT !.version = @ + 1]
<1>2. /\ y \in SubRecords /\ y.version = sub[s].version + 1 /\ y.status = x.status
      /\ y.owner = x.owner /\ y.by = x.by /\ y.next = x.next
  BY DEF SubRecords
<1>3. sub' = [sub EXCEPT ![s] = y] /\ due' = due \cup {<<s, sub[s].version + 1>>}
  BY DEF Becomes
<1> HIDE DEF y
<1>4. /\ sub' \in [Subs -> SubRecords] /\ sub'[s] = y
      /\ \A t \in Subs : t # s => sub'[t] = sub[t]
      /\ \A t \in Subs : sub[t].version \in Nat
  BY <1>1, <1>2, <1>3 DEF SubRecords
<1>5. StripeTyped'
  BY <1>1, <1>3, <1>4 DEF Typed, StripeTyped, Events, SubRecords
<1>6. Lives(y) <=> Lives(x)
  BY <1>2 DEF Lives
<1>7. StripeOK'
  BY <1>1, <1>2, <1>4, <1>6 DEF StripeOK, MadeSub, MadeCustomer
<1>8. x.status = "canceled" \/ Lives(x)
  BY DEF SubRecords, Lives
<1>9. Payable' \subseteq Payable
  BY <1>4, <1>6 DEF Payable
<1>10. \A t \in Subs : /\ sub'[t].owner = sub[t].owner
                       /\ MadeSub(t) => sub'[t].status # "none" /\ sub[t].version <= sub'[t].version
                       /\ sub[t].status = "canceled" => sub'[t].status = "canceled"
  <2>1. sub[s].status = "canceled" => x.status = "canceled"
    BY <1>8 DEF Lives
  <2> QED  BY <1>1, <1>2, <1>4, <2>1 DEF MadeSub
<1>11. \A e \in due' : e \in due \/ (e \notin claimed /\ Happened(e)')
  <2> SUFFICES ASSUME NEW e, e = <<s, sub[s].version + 1>>
               PROVE  e \notin claimed /\ Happened(e)'
    BY <1>3
  <2>1. e \notin claimed
    BY <1>1, <1>4 DEF EventsOK, Happened
  <2>2. e[1] = s /\ e[2] = sub'[s].version /\ sub'[s].status # "none" /\ sub'[s].version \in Nat
    BY <1>2, <1>4 DEF SubRecords
  <2> QED  BY <2>1, <2>2 DEF Happened, MadeSub
<1> QED
  BY <1>5, <1>7, <1>9, <1>10, <1>11 DEF StripeMovesOn, MadeCustomer, Deleted, Payable

(* Stripe's answer, and a job that goes on with it.                        *)
LEMMA StripeAndAJob ==
  ASSUME BillingInv, NEW p \in Jobs, NEW at, NEW s, NEW old, NEW cust, NEW seen, NEW event,
         Fits(p, at, s, old, cust, seen, event), Moved(p, at, s, old, cust, seen, event),
         StripeMovesOn, Payable' \subseteq Payable,
         UNCHANGED <<person, mapping, row, claimed, orphans, cast>>,
         LockMoves(p), StampMoves(p), at \notin {"create", "store", "write"},
         at = "answer" /\ person => row[s] # None, job[p].at \notin {"answer", "store"}
  PROVE  BillingInv'
<1>1. Typed
  BY DEF BillingInv, Basics
<1>2. JobOK(p)'
  BY <1>1, FitsIsOK
<1>3. \A x \in Subs : ~Making(p, x) /\ (person /\ Making(p, x)' => row[x] # None)
  BY DEF Moved, Making
<1>4. Quiet(p)
  BY DEF Quiet, Moved
<1>5. job'[p].at # "create"
  BY DEF Moved
<1> QED  BY <1>2, <1>3, <1>4, <1>5, QuietStep

LEMMA KeyIs == ASSUME BillingInv, NEW p \in Presses PROVE Key(p) \in Keys
BY DEF Key, BillingInv, Basics, Typed, JobsTyped, CastRecords

(* What an asking job does with the subscription it is about.              *)
LEMMA AsksOfStripe ==
  ASSUME BillingInv, NEW p \in Jobs, job[p].at \in SubSteps
  PROVE  /\ job[p].sub \in Subs /\ MadeSub(job[p].sub) /\ sub[job[p].sub] \in SubRecords
         /\ sub[job[p].sub].next # None => Lives(sub[job[p].sub])
<1>1. Fits(p, job[p].at, job[p].sub, job[p].old, job[p].cust, job[p].seen, job[p].event)
      /\ job[p] \in JobRecords
  BY JobFits
<1>2. job[p].sub \in Subs /\ MadeSub(job[p].sub)
  BY <1>1 DEF Fits, JobRecords
<1> QED  BY <1>2 DEF BillingInv, Basics, Typed, StripeTyped, StripeOK

(* A keyed update of s to x: the answer of then, or s stays what it was    *)
(* but for the answer, or it becomes x.                                    *)
LEMMA UpdatesIs ==
  ASSUME BillingInv, NEW s \in Subs, NEW k \in Keys, NEW x \in SubRecords, Updates(s, k, x),
         x.status = sub[s].status, x.owner = sub[s].owner, x.by = sub[s].by,
         x.version = sub[s].version
  PROVE  \/ UNCHANGED <<sub, due>> /\ sub'[s].answer[k] \in Answered
         \/ /\ Lives(sub[s]) /\ sub'[s].answer[k] \in Answered
            /\ \E y \in SubRecords :
                 /\ y.status = sub[s].status /\ y.owner = sub[s].owner /\ y.by = sub[s].by
                 /\ y.version = sub[s].version
                 /\ \/ Becomes(s, y)
                    \/ /\ sub' = [sub EXCEPT ![s] = y] /\ UNCHANGED due
                       /\ SnapshotOf(y) = SnapshotOf(sub[s]) /\ y.next = sub[s].next
<1> DEFINE y == [x EXCEPT !.answer = [@ EXCEPT ![k] = SnapshotOf(x)]]
<1>1. sub \in [Subs -> SubRecords] /\ sub[s] \in SubRecords
  BY DEF BillingInv, Basics, Typed, StripeTyped
<1>2. CASE sub[s].answer[k] # None
  <2>1. UNCHANGED <<sub, due>>
    BY <1>2 DEF Updates
  <2>2. sub[s].answer \in [Keys -> Answered \cup {None}]
    BY <1>1 DEF SubRecords
  <2> QED  BY <1>2, <2>1, <2>2
<1>3. CASE sub[s].answer[k] = None
  <2>1. /\ Lives(sub[s])
        /\ \/ Becomes(s, y)
           \/ x = sub[s] /\ sub' = [sub EXCEPT ![s] = y] /\ UNCHANGED due
    BY <1>3 DEF Updates, Updatable
  <2>2. SnapshotOf(x) \in Answered
    BY <2>1 DEF SubRecords, Answered, Snapshots, SnapshotOf, Lives
  <2>3. x.answer \in [Keys -> Answered \cup {None}]
    BY DEF SubRecords
  <2> DEFINE answer == [x.answer EXCEPT ![k] = SnapshotOf(x)]
  <2>4. answer \in [Keys -> Answered \cup {None}] /\ answer[k] \in Answered
    BY <2>2, <2>3
  <2>5. y = [x EXCEPT !.answer = answer]
    OBVIOUS
  <2> HIDE DEF answer, y
  <2>6. /\ y \in SubRecords /\ y.answer = answer /\ y.status = x.status /\ y.plan = x.plan
        /\ y.next = x.next /\ y.ending = x.ending /\ y.version = x.version
        /\ y.owner = x.owner /\ y.by = x.by
    BY <2>4, <2>5 DEF SubRecords
  <2>7. SnapshotOf(y) = SnapshotOf(x)
    BY <2>6 DEF SnapshotOf
  <2>8. sub'[s].answer = y.answer
    <3>1. CASE sub' = [sub EXCEPT ![s] = y]
      BY <1>1, <3>1
    <3>2. CASE Becomes(s, y)
      <4>1. sub'[s] = [y EXCEPT !.version = @ + 1]
        BY <1>1, <3>2 DEF Becomes
      <4> QED  BY <2>6, <4>1 DEF SubRecords
    <3> QED  BY <2>1, <3>1, <3>2
  <2>9. sub'[s].answer[k] \in Answered
    BY <2>4, <2>6, <2>8
  <2>10. Becomes(s, y) \/ (/\ sub' = [sub EXCEPT ![s] = y] /\ UNCHANGED due
                          /\ SnapshotOf(y) = SnapshotOf(sub[s]) /\ y.next = sub[s].next)
    BY <2>1, <2>6, <2>7
  <2>11. /\ y.status = sub[s].status /\ y.owner = sub[s].owner /\ y.by = sub[s].by
         /\ y.version = sub[s].version
    BY <2>6
  <2> QED  BY <2>1, <2>6, <2>9, <2>10, <2>11
<1> QED  BY <1>2, <1>3

(* An answer that is written down and nothing else.                        *)
LEMMA AnswersMovesOn ==
  ASSUME BillingInv, NEW s \in Subs, NEW y \in SubRecords, sub' = [sub EXCEPT ![s] = y],
         UNCHANGED <<customer, due>>, y.status = sub[s].status, y.owner = sub[s].owner,
         y.by = sub[s].by, y.version = sub[s].version, y.next = sub[s].next
  PROVE  StripeMovesOn /\ Payable' \subseteq Payable
<1>1. Typed /\ StripeOK /\ sub \in [Subs -> SubRecords]
  BY DEF BillingInv, Basics, Typed, StripeTyped
<1>2. /\ sub' \in [Subs -> SubRecords]
      /\ \A t \in Subs : /\ sub'[t].status = sub[t].status /\ sub'[t].owner = sub[t].owner
                         /\ sub'[t].by = sub[t].by /\ sub'[t].version = sub[t].version
                         /\ sub'[t].next = sub[t].next /\ sub[t].version \in Nat
  BY <1>1 DEF SubRecords
<1>3. StripeTyped'
  BY <1>1, <1>2 DEF Typed, StripeTyped
<1>4. StripeOK'
  BY <1>1, <1>2 DEF StripeOK, MadeSub, MadeCustomer, Lives
<1>5. Payable' = Payable
  BY <1>2 DEF Payable, Lives
<1> QED  BY <1>2, <1>3, <1>4, <1>5 DEF StripeMovesOn, MadeSub, MadeCustomer, Deleted, Payable

LEMMA UpdatesMovesOn ==
  ASSUME BillingInv, NEW s \in Subs, NEW k \in Keys, NEW x \in SubRecords, Updates(s, k, x),
         UNCHANGED customer, MadeSub(s), x.status = sub[s].status, x.owner = sub[s].owner,
         x.by = sub[s].by, x.version = sub[s].version
  PROVE  StripeMovesOn /\ Payable' \subseteq Payable /\ sub'[s].answer[k] \in Answered
<1>1. sub'[s].answer[k] \in Answered
  BY UpdatesIs
<1>2. CASE UNCHANGED <<sub, due>>
  BY <1>1, <1>2, StripeStandsStill DEF Payable
<1>3. ASSUME Lives(sub[s]), NEW y \in SubRecords, y.status = sub[s].status,
             y.owner = sub[s].owner, y.by = sub[s].by, y.version = sub[s].version,
             \/ Becomes(s, y)
             \/ /\ sub' = [sub EXCEPT ![s] = y] /\ UNCHANGED due
                /\ SnapshotOf(y) = SnapshotOf(sub[s]) /\ y.next = sub[s].next
      PROVE  StripeMovesOn /\ Payable' \subseteq Payable
  <2>1. Lives(y) /\ y.status # "none"
    BY <1>3 DEF Lives
  <2>2. CASE Becomes(s, y)
    BY <1>3, <2>1, <2>2, BecomesMovesOn
  <2>3. CASE sub' = [sub EXCEPT ![s] = y] /\ UNCHANGED due /\ y.next = sub[s].next
    BY <1>3, <2>3, AnswersMovesOn
  <2> QED  BY <1>3, <2>2, <2>3
<1> QED  BY <1>1, <1>2, <1>3, UpdatesIs

LEMMA ReleaseKeeps == ASSUME BillingInv, NEW p \in Presses, Release(p) PROVE BillingInv'
<1> DEFINE s == job[p].sub
           step == AfterRelease[job[p].at]
<1>1. /\ p \in Jobs /\ Typed
      /\ \/ job[p].at = "release" /\ step = "serve"
         \/ job[p].at = "upgrade" /\ step = "switch"
         \/ job[p].at = "schedule" /\ step = "reschedule"
         \/ job[p].at = "unschedule" /\ step = "flag"
  BY PressesAreJobs DEF BillingInv, Basics, Release, AfterRelease
<1>2. /\ s \in Subs /\ MadeSub(s) /\ sub[s] \in SubRecords /\ (sub[s].next # None => Lives(sub[s]))
  BY <1>1, AsksOfStripe DEF SubSteps, LockedSteps
<1>3. StripeMovesOn /\ Payable' \subseteq Payable
  <2>1. CASE UNCHANGED <<sub, due>>
    BY <2>1, StripeStandsStill DEF Release, Payable
  <2>2. CASE sub[s].next # None /\ Becomes(s, [sub[s] EXCEPT !.next = None])
    <3> DEFINE x == [sub[s] EXCEPT !.next = None]
    <3>1. /\ x \in SubRecords /\ x.owner = sub[s].owner /\ x.by = sub[s].by
          /\ x.version = sub[s].version /\ x.status = sub[s].status /\ x.next = None
      BY <1>2 DEF SubRecords
    <3>2. Becomes(s, x)
      BY <2>2
    <3> HIDE DEF x
    <3>3. x.status # "none" /\ (Lives(x) => Lives(sub[s]))
      BY <1>2, <3>1 DEF MadeSub, Lives
    <3> QED  BY <1>2, <3>1, <3>2, <3>3, BecomesMovesOn DEF Release
  <2> QED  BY <2>1, <2>2 DEF Release
<1>4. Moved(p, step, s, job[p].old, job[p].cust, job[p].seen, job[p].event)
  <2>1. step \in Steps /\ Goes(p, step)
    BY <1>1 DEF Steps, Release
  <2> HIDE DEF step
  <2> QED  BY <1>1, <2>1, GoesIs
<1>5. Fits(p, step, s, job[p].old, job[p].cust, job[p].seen, job[p].event)
  BY <1>1, <1>2, JobFits DEF Fits, SubSteps, CustSteps, LockedSteps, PlanSteps
<1>6. LockMoves(p) /\ StampMoves(p)
  BY <1>1, <1>4 DEF LockMoves, StampMoves, Moved, LockedSteps, Release
<1>7. /\ step \notin {"create", "store", "write", "answer"}
      /\ job[p].at \notin {"answer", "store"}
  BY <1>1
<1> HIDE DEF s, step
<1> QED  BY <1>1, <1>3, <1>4, <1>5, <1>6, <1>7, StripeAndAJob DEF Release, tables

LEMMA SwitchKeeps == ASSUME BillingInv, NEW p \in Presses, Switch(p) PROVE BillingInv'
<1> DEFINE s == job[p].sub
           x == [sub[s] EXCEPT !.plan = Want(p)]
           seen == sub'[s].answer[Key(p)]
<1>1. /\ p \in Jobs /\ Typed /\ job[p].at = "switch" /\ Key(p) \in Keys
      /\ Fits(p, "switch", s, job[p].old, job[p].cust, job[p].seen, job[p].event)
  BY PressesAreJobs, JobFits, KeyIs DEF BillingInv, Basics, Switch, At
<1>2. s \in Subs /\ MadeSub(s) /\ sub[s] \in SubRecords
  BY <1>1, AsksOfStripe DEF SubSteps, LockedSteps
<1>3. Want(p) \in Plans
  BY <1>1 DEF Fits, PlanSteps, LockedSteps
<1>4. /\ x \in SubRecords /\ x.status = sub[s].status /\ x.owner = sub[s].owner
      /\ x.by = sub[s].by /\ x.version = sub[s].version
  BY <1>2, <1>3 DEF SubRecords
<1>5. Updates(s, Key(p), x) /\ Keeps(p, "answer", "seen", seen) /\ UNCHANGED customer
  BY DEF Switch
<1> HIDE DEF s, x
<1>6. StripeMovesOn /\ Payable' \subseteq Payable /\ seen \in Answered
  BY <1>1, <1>2, <1>4, <1>5, UpdatesMovesOn
<1>7. seen \in Snapshots /\ Lives(seen)
  BY <1>6 DEF Answered
<1> HIDE DEF seen
<1>8. Moved(p, "answer", s, job[p].old, job[p].cust, seen, job[p].event)
  BY <1>1, <1>5, <1>7, KeepsSeenIs DEF Steps, s
<1>9. Fits(p, "answer", s, job[p].old, job[p].cust, seen, job[p].event)
  BY <1>1, <1>2, <1>3, <1>7 DEF Fits, SubSteps, CustSteps, LockedSteps, PlanSteps
<1>10. LockMoves(p) /\ StampMoves(p)
  BY <1>1, <1>8 DEF LockMoves, StampMoves, Moved, LockedSteps, Switch
<1>11. person => row[s] # None
  BY <1>1 DEF Fits
<1> QED  BY <1>1, <1>6, <1>8, <1>9, <1>10, <1>11, StripeAndAJob DEF Switch, tables

LEMMA RescheduleKeeps == ASSUME BillingInv, NEW p \in Presses, Reschedule(p) PROVE BillingInv'
<1> DEFINE s == job[p].sub
<1>1. /\ p \in Jobs /\ Typed /\ job[p].at = "reschedule" /\ Lives(sub[s])
      /\ Fits(p, "reschedule", s, job[p].old, job[p].cust, job[p].seen, job[p].event)
  BY PressesAreJobs, JobFits DEF BillingInv, Basics, Reschedule, At
<1>2. s \in Subs /\ MadeSub(s) /\ sub[s] \in SubRecords
  BY <1>1, AsksOfStripe DEF SubSteps, LockedSteps
<1>3. Want(p) \in Plans
  BY <1>1 DEF Fits, PlanSteps, LockedSteps
<1>4. StripeMovesOn /\ Payable' \subseteq Payable
  <2> DEFINE x == [sub[s] EXCEPT !.next = Want(p)]
  <2>1. /\ x \in SubRecords /\ x.owner = sub[s].owner /\ x.by = sub[s].by
        /\ x.version = sub[s].version /\ x.status = sub[s].status
    BY <1>2, <1>3 DEF SubRecords
  <2>2. Becomes(s, x)
    BY DEF Reschedule
  <2> HIDE DEF x
  <2>3. x.status # "none" /\ Lives(x)
    BY <1>1, <1>2, <2>1 DEF MadeSub, Lives
  <2> QED  BY <1>1, <1>2, <2>1, <2>2, <2>3, BecomesMovesOn DEF Reschedule
<1>5. Moved(p, "serve", s, job[p].old, job[p].cust, job[p].seen, job[p].event)
  BY <1>1, GoesIs DEF Reschedule, Steps
<1>6. Fits(p, "serve", s, job[p].old, job[p].cust, job[p].seen, job[p].event)
  BY <1>1, <1>2 DEF Fits, SubSteps, CustSteps, LockedSteps, PlanSteps
<1>7. LockMoves(p) /\ StampMoves(p)
  BY <1>1, <1>5 DEF LockMoves, StampMoves, Moved, LockedSteps, Reschedule
<1> HIDE DEF s
<1> QED  BY <1>1, <1>4, <1>5, <1>6, <1>7, StripeAndAJob DEF Reschedule, tables

LEMMA FlagKeeps == ASSUME BillingInv, NEW p \in Presses, Flag(p) PROVE BillingInv'
<1> DEFINE s == job[p].sub
           ends == Want(p) = "end"
           x == [sub[s] EXCEPT !.ending = ends]
<1>1. /\ p \in Jobs /\ Typed /\ job[p].at = "flag" /\ Key(p) \in Keys
      /\ Fits(p, "flag", s, job[p].old, job[p].cust, job[p].seen, job[p].event)
  BY PressesAreJobs, JobFits, KeyIs DEF BillingInv, Basics, Flag, At
<1>2. s \in Subs /\ MadeSub(s) /\ sub[s] \in SubRecords /\ ends \in BOOLEAN
  BY <1>1, AsksOfStripe DEF SubSteps, LockedSteps
<1>3. Updates(s, Key(p), x) /\ UNCHANGED customer
  BY DEF Flag
<1> HIDE DEF ends
<1>4. /\ x \in SubRecords /\ x.status = sub[s].status /\ x.owner = sub[s].owner
      /\ x.by = sub[s].by /\ x.version = sub[s].version
  BY <1>2 DEF SubRecords
<1>5. Moved(p, "serve", s, job[p].old, job[p].cust, job[p].seen, job[p].event)
  BY <1>1, GoesIs DEF Flag, Steps
<1> HIDE DEF s, x
<1>6. StripeMovesOn /\ Payable' \subseteq Payable
  BY <1>1, <1>2, <1>3, <1>4, UpdatesMovesOn
<1>7. Fits(p, "serve", s, job[p].old, job[p].cust, job[p].seen, job[p].event)
  BY <1>1, <1>2 DEF Fits, SubSteps, CustSteps, LockedSteps, PlanSteps
<1>8. LockMoves(p) /\ StampMoves(p)
  BY <1>1, <1>5 DEF LockMoves, StampMoves, Moved, LockedSteps, Flag
<1> QED  BY <1>1, <1>5, <1>6, <1>7, <1>8, StripeAndAJob DEF Flag, tables

(* Stripe moves and no job does.                                           *)
LEMMA StripeAlone ==
  ASSUME BillingInv, StripeMovesOn, Payable' \subseteq Payable,
         UNCHANGED <<person, mapping, row, claimed, lock, stamp, job, cast, orphans>>
  PROVE  BillingInv'
<1> DEFINE p == Sweeper
<1>1. p \in Jobs /\ job[p] \in JobRecords /\ Typed /\ JobOK(p)
  BY PressesAreJobs, JobFits DEF BillingInv, Basics, JobsOK
<1>2. Moved(p, job[p].at, job[p].sub, job[p].old, job[p].cust, job[p].seen, job[p].event)
  BY <1>1 DEF Moved, Typed, JobsTyped
<1>3. JobOK(p)'
  BY <1>1, <1>2, JobFits, FitsIsOK DEF JobOK
<1>4. Quiet(p)
  BY <1>2 DEF Quiet, Moved, LockMoves, StampMoves
<1>5. \A x \in Subs : Making(p, x)' <=> Making(p, x)
  BY DEF Making
<1> QED  BY <1>1, <1>3, <1>4, <1>5, QuietStep

LEMMA MoveKeeps == ASSUME BillingInv, NEW s \in Subs, Move(s) PROVE BillingInv'
<1>1. sub[s] \in SubRecords /\ Lives(sub[s]) /\ MadeSub(s)
  BY DEF BillingInv, Basics, Typed, StripeTyped, Move, MadeSub, Lives
<1>2. PICK x \in SubRecords :
        /\ Becomes(s, x) /\ x.owner = sub[s].owner /\ x.by = sub[s].by
        /\ x.version = sub[s].version /\ x.status # "none" /\ (~Lives(x) => x.next = None)
  <2>1. CASE Becomes(s, [sub[s] EXCEPT !.status = "active"])
    <3> DEFINE x == [sub[s] EXCEPT !.status = "active"]
    <3>1. /\ x \in SubRecords /\ x.owner = sub[s].owner /\ x.by = sub[s].by
          /\ x.version = sub[s].version /\ x.status = "active"
      BY <1>1 DEF SubRecords
    <3>2. Becomes(s, x)
      BY <2>1
    <3> HIDE DEF x
    <3> QED  BY <3>1, <3>2 DEF Lives
  <2>2. ASSUME NEW status \in {"active", "past_due"},
               Becomes(s, [sub[s] EXCEPT !.status = status, !.next = None,
                             !.plan = IF sub[s].next = None THEN @ ELSE sub[s].next])
        PROVE  \E x \in SubRecords :
        /\ Becomes(s, x) /\ x.owner = sub[s].owner /\ x.by = sub[s].by
        /\ x.version = sub[s].version /\ x.status # "none" /\ (~Lives(x) => x.next = None)
    <3> DEFINE x == [sub[s] EXCEPT !.status = status, !.next = None,
                             !.plan = IF sub[s].next = None THEN @ ELSE sub[s].next]
    <3>1. /\ x \in SubRecords /\ x.owner = sub[s].owner /\ x.by = sub[s].by
          /\ x.version = sub[s].version /\ x.status = status
      BY <1>1 DEF SubRecords
    <3>2. Becomes(s, x)
      BY <2>2
    <3> HIDE DEF x
    <3> QED  BY <3>1, <3>2 DEF Lives
  <2>3. CASE Becomes(s, Canceled(sub[s]))
    <3> DEFINE x == Canceled(sub[s])
    <3>1. /\ x \in SubRecords /\ x.owner = sub[s].owner /\ x.by = sub[s].by
          /\ x.version = sub[s].version /\ x.status = "canceled" /\ x.next = None
      BY <1>1 DEF SubRecords, Canceled
    <3>2. Becomes(s, x)
      BY <2>3
    <3> HIDE DEF x
    <3> QED  BY <3>1, <3>2
  <2> QED  BY <2>1, <2>2, <2>3 DEF Move
<1>3. StripeMovesOn /\ Payable' \subseteq Payable
  BY <1>1, <1>2, BecomesMovesOn DEF Move
<1> QED  BY <1>3, StripeAlone DEF Move

LEMMA CustomerGoes ==
  ASSUME BillingInv, NEW c \in Customers, MadeCustomer(c), DeletesCustomer(c)
  PROVE  /\ StripeMovesOn /\ Payable' \subseteq Payable
         /\ customer'[c].standing = "deleted"
<1>1. /\ Typed /\ StripeOK /\ EventsOK /\ Mapped
      /\ sub \in [Subs -> SubRecords] /\ Subs \cap Customers = {}
      /\ customer \in [Customers -> CustomerRecords] /\ due \subseteq Events
  BY BillingAssumption DEF BillingInv, Basics, Typed, StripeTyped
<1> DEFINE here == customer[c].standing = "present"
           gone == IF here THEN {s \in Subs : sub[s].owner = c /\ Lives(sub[s])} ELSE {}
           y(s) == [Canceled(sub[s]) EXCEPT !.version = @ + 1]
<1>2. /\ gone \subseteq Subs /\ \A s \in gone : Lives(sub[s]) /\ sub[s].owner = c /\ here
      /\ \A s \in Subs \ gone : Lives(sub[s]) => sub[s].owner # c \/ ~here
  OBVIOUS
<1>3. \A s \in Subs : /\ y(s) \in SubRecords /\ y(s).version = sub[s].version + 1
                      /\ y(s).status = "canceled" /\ y(s).next = None
                      /\ y(s).owner = sub[s].owner /\ y(s).by = sub[s].by
                      /\ sub[s].version \in Nat
  <2> SUFFICES ASSUME NEW s \in Subs
               PROVE  /\ y(s) \in SubRecords /\ y(s).version = sub[s].version + 1
                      /\ y(s).status = "canceled" /\ y(s).next = None
                      /\ y(s).owner = sub[s].owner /\ y(s).by = sub[s].by
                      /\ sub[s].version \in Nat
    OBVIOUS
  <2>1. sub[s] \in SubRecords
    BY <1>1
  <2> DEFINE x == Canceled(sub[s])
  <2>2. /\ x \in SubRecords /\ x.owner = sub[s].owner /\ x.by = sub[s].by
        /\ x.version = sub[s].version /\ x.status = "canceled" /\ x.next = None
        /\ x.version \in Nat /\ y(s) = [x EXCEPT !.version = @ + 1]
    BY <2>1 DEF SubRecords, Canceled
  <2> HIDE DEF x, y
  <2> QED  BY <2>2 DEF SubRecords
<1>4. /\ customer' = [customer EXCEPT ![c].standing = "deleted"]
      /\ sub' = [s \in Subs |-> IF s \in gone THEN y(s) ELSE sub[s]]
      /\ due' = due \cup {<<s, sub[s].version + 1>> : s \in gone}
                    \cup (IF here THEN {<<c, 0>>} ELSE {})
  BY DEF DeletesCustomer
<1> HIDE DEF here, gone, y
<1>5. /\ customer' \in [Customers -> CustomerRecords]
      /\ customer'[c].standing = "deleted" /\ customer'[c].by = customer[c].by
      /\ \A d \in Customers : d # c => customer'[d] = customer[d]
  BY <1>1, <1>4 DEF CustomerRecords
<1>6. /\ sub' \in [Subs -> SubRecords]
      /\ \A s \in gone : sub'[s] = y(s)
      /\ \A s \in Subs : s \notin gone => sub'[s] = sub[s]
  BY <1>1, <1>2, <1>3, <1>4
<1>7. due' \subseteq Events
  BY <1>1, <1>2, <1>3, <1>4 DEF Events
<1>8. StripeTyped'
  BY <1>5, <1>6, <1>7 DEF StripeTyped
<1>9. \A s \in gone : ~Lives(y(s)) /\ MadeSub(s)
  BY <1>2, <1>3 DEF Lives, MadeSub
<1>10. StripeOK'
  <2>1. ASSUME NEW s \in Subs
        PROVE  /\ sub'[s].by = None <=> sub'[s].status = "none"
               /\ Lives(sub'[s]) => sub'[s].owner \in Customers
               /\ ~Lives(sub'[s]) => sub'[s].next = None
               /\ sub'[s].status = "none" => sub'[s].version = 0
    <3>1. CASE s \in gone
      BY <1>1, <1>3, <1>6, <1>9, <3>1 DEF StripeOK, MadeSub
    <3>2. CASE s \notin gone
      BY <1>1, <1>6, <3>2 DEF StripeOK, MadeSub
    <3> QED  BY <3>1, <3>2
  <2>2. \A d \in Customers : customer'[d].by = None <=> customer'[d].standing = "none"
    BY <1>1, <1>5 DEF StripeOK, MadeCustomer
  <2> QED  BY <2>1, <2>2 DEF StripeOK, MadeSub, MadeCustomer
<1>11. \A s \in Subs : /\ MadeSub(s) => sub'[s].status # "none" /\ sub[s].version <= sub'[s].version
                       /\ sub[s].status = "canceled" => sub'[s].status = "canceled"
  BY <1>2, <1>3, <1>6 DEF MadeSub, Lives
<1>12. \A d \in Customers : /\ MadeCustomer(d) => customer'[d].standing # "none"
                            /\ Deleted(d) => customer'[d].standing = "deleted"
  BY <1>5 DEF MadeCustomer, Deleted
<1>13. \A s \in Payable' : /\ s \in Payable /\ sub'[s].owner = sub[s].owner
                           /\ customer'[sub[s].owner].standing = customer[sub[s].owner].standing
  <2> SUFFICES ASSUME NEW s \in Subs, Lives(sub'[s])
               PROVE  /\ Lives(sub[s]) /\ sub'[s].owner = sub[s].owner
                      /\ customer'[sub[s].owner].standing = customer[sub[s].owner].standing
    BY DEF Payable
  <2>1. s \notin gone /\ sub'[s] = sub[s]
    BY <1>6, <1>9
  <2>2. sub[s].owner \in Customers
    BY <1>1, <2>1 DEF StripeOK
  <2>3. sub[s].owner = c => Deleted(c)
    BY <1>1, <1>2, <2>1 DEF here, Deleted, MadeCustomer, CustomerRecords
  <2> QED  BY <1>5, <2>1, <2>2, <2>3 DEF Deleted
<1>14. \A e \in due' : e \in due \/ (e \notin claimed /\ Happened(e)')
  <2>1. ASSUME NEW s \in gone, NEW e, e = <<s, sub[s].version + 1>>
        PROVE  e \notin claimed /\ Happened(e)'
    <3>1. e \notin claimed
      BY <1>1, <1>2, <1>3, <2>1 DEF EventsOK, Happened
    <3>2. e[1] = s /\ s \in Subs /\ e[2] = sub'[s].version /\ sub'[s].status # "none"
          /\ sub'[s].version \in Nat
      BY <1>2, <1>3, <1>6, <2>1
    <3> QED  BY <3>1, <3>2 DEF Happened, MadeSub
  <2>2. ASSUME NEW e, e = <<c, 0>>, here
        PROVE  e \notin claimed /\ Happened(e)'
    <3>1. ~Happened(e)
      BY <1>1, <2>2 DEF Happened, here, Deleted
    <3> QED  BY <1>1, <1>5, <2>2, <3>1 DEF EventsOK, Happened, Deleted
  <2> QED  BY <1>4, <2>1, <2>2
<1> QED
  BY <1>5, <1>8, <1>10, <1>11, <1>12, <1>13, <1>14 DEF StripeMovesOn

LEMMA DropLitterKeeps == ASSUME BillingInv, NEW p \in Presses, DropLitter(p) PROVE BillingInv'
<1> DEFINE c == job[p].cust
<1>1. /\ p \in Jobs /\ Typed /\ job[p].at = "litter" /\ job[p] \in JobRecords
      /\ Fits(p, "litter", job[p].sub, job[p].old, c, job[p].seen, job[p].event)
  BY PressesAreJobs, JobFits DEF BillingInv, Basics, DropLitter, At
<1>2. c \in Customers /\ MadeCustomer(c)
  BY <1>1 DEF Fits, CustSteps, JobRecords
<1>3. StripeMovesOn /\ Payable' \subseteq Payable
  BY <1>2, CustomerGoes DEF DropLitter
<1>4. Moved(p, "winner", job[p].sub, job[p].old, c, job[p].seen, job[p].event)
  BY <1>1, GoesIs DEF DropLitter, Steps
<1>5. Fits(p, "winner", job[p].sub, job[p].old, c, job[p].seen, job[p].event)
  BY <1>1 DEF Fits, SubSteps, CustSteps, LockedSteps, PlanSteps
<1>6. LockMoves(p) /\ StampMoves(p)
  BY <1>1, <1>4 DEF LockMoves, StampMoves, Moved, LockedSteps, DropLitter
<1> HIDE DEF c
<1> QED  BY <1>1, <1>3, <1>4, <1>5, <1>6, StripeAndAJob DEF DropLitter, tables

LEMMA DropCustomerKeeps == ASSUME BillingInv, DropCustomer PROVE BillingInv'
<1> DEFINE p == Leaver
           c == job[p].cust
<1>1. /\ p \in Jobs /\ p \in cast.jobs /\ Typed /\ job[p].at = "drop" /\ job[p] \in JobRecords
      /\ Fits(p, "drop", job[p].sub, job[p].old, c, job[p].seen, job[p].event)
      /\ p \notin Presses
  BY PressesAreJobs, JobFits, BillingAssumption DEF BillingInv, Basics, DropCustomer, At
<1>2. c \in Customers /\ c # None /\ MadeCustomer(c)
  BY <1>1 DEF Fits, CustSteps, JobRecords
<1>3. StripeMovesOn /\ Payable' \subseteq Payable /\ customer'[c].standing = "deleted"
  BY <1>2, CustomerGoes DEF DropCustomer
<1>4. Moved(p, "close", job[p].sub, job[p].old, c, job[p].seen, job[p].event)
  BY <1>1, GoesIs DEF DropCustomer, Steps
<1>5. stamp' = StampedLast(p) /\ lock' = lock /\ p # None
  BY BillingAssumption, <1>1 DEF DropCustomer
<1>6. LockMoves(p) /\ StampMoves(p)
  BY <1>1, <1>4, <1>5 DEF LockMoves, StampMoves, Moved, LockedSteps
<1>7. UNCHANGED <<person, mapping, row, claimed, orphans, cast>>
  BY DEF DropCustomer, tables
<1>8. JobOK(p)'
  <2>1. /\ job'[p].at = "close" /\ job'[p].sub = job[p].sub /\ job'[p].old = job[p].old
        /\ job'[p].cust = c /\ job'[p].event = job[p].event /\ job[p].event = None
    BY <1>1, <1>4 DEF Moved, Fits
  <2>2. job[p].sub \in Subs \cup {None} /\ job[p].old \in Subs \cup {None}
    BY <1>1 DEF JobRecords
  <2>3. IsAboutMade(p)'
    <3>1. /\ job[p].sub # None => MadeSub(job[p].sub)
          /\ job[p].old # None => MadeSub(job[p].old)
      BY <1>1 DEF Fits
    <3>2. /\ job[p].sub # None => sub'[job[p].sub].status # "none"
          /\ job[p].old # None => sub'[job[p].old].status # "none"
      BY <1>3, <2>2, <3>1 DEF StripeMovesOn
    <3> QED
      BY <1>2, <1>3, <2>1, <3>2
      DEF IsAboutMade, MadeSub, MadeCustomer, Deleted, SubSteps, LockedSteps
  <2> QED  BY <1>1, <2>1, <2>3 DEF JobOK, IsUpToDate, SawTrue, IsOfItsEvent
<1>9. Quiet(p)
  BY <1>4, <1>6, <1>7 DEF Quiet, Moved
<1>10. /\ job'[p].at # "create"
       /\ \A s \in Subs : Making(p, s)' <=> Making(p, s)
  BY <1>1, <1>4 DEF Moved, Making
<1> HIDE DEF p
<1> QED  BY <1>1, <1>3, <1>8, <1>9, <1>10, QuietStep

-----------------------------------------------------------------------------
(* What a press makes at Stripe, and what it abandons there.               *)

LEMMA FirstOfIs == ASSUME NEW S, S # {} PROVE FirstOf(S) \in S
BY DEF FirstOf

LEMMA MakeCustomerKeeps == ASSUME BillingInv, NEW p \in Presses, MakeCustomer(p) PROVE BillingInv'
<1> DEFINE by == <<Key(p), job[p].cust>>
<1>1. /\ p \in Jobs /\ Typed /\ job[p].at = "make" /\ job[p] \in JobRecords
      /\ Fits(p, "make", job[p].sub, job[p].old, job[p].cust, job[p].seen, job[p].event)
      /\ customer \in [Customers -> CustomerRecords] /\ StripeOK /\ Mapped
  BY PressesAreJobs, JobFits DEF BillingInv, Basics, MakeCustomer, At, Typed, StripeTyped
<1>2. by \in Keys \X (Customers \cup {None}) /\ by # None
  <2>1. Key(p) \in Keys /\ job[p].cust \in Customers \cup {None}
    BY <1>1 DEF Key, Typed, JobsTyped, CastRecords, JobRecords
  <2> QED  BY <2>1, BillingAssumption
<1> HIDE DEF by
<1>3. UNCHANGED <<sub, due, person, mapping, row, claimed, orphans, cast, lock, stamp>>
  BY DEF MakeCustomer, tables
<1>4. CASE MadeBy(customer, by) # {}
  <2> DEFINE c == FirstOf(MadeBy(customer, by))
  <2>1. c \in MadeBy(customer, by)
    BY <1>4, FirstOfIs
  <2>2. c \in Customers /\ customer[c].by = by /\ MadeCustomer(c) /\ c # None
    BY <1>1, <1>2, <2>1, BillingAssumption DEF MadeBy, StripeOK
  <2>3. Keeps(p, "map", "cust", c) /\ UNCHANGED customer
    BY <1>4 DEF MakeCustomer, by
  <2> HIDE DEF c
  <2>4. Moved(p, "map", job[p].sub, job[p].old, c, job[p].seen, job[p].event)
    BY <1>1, <2>2, <2>3, KeepsCustIs DEF Steps
  <2>5. Fits(p, "map", job[p].sub, job[p].old, c, job[p].seen, job[p].event)
    BY <1>1, <2>2 DEF Fits, SubSteps, CustSteps, LockedSteps, PlanSteps
  <2>6. LockMoves(p) /\ StampMoves(p)
    BY <1>1, <1>3, <2>4 DEF LockMoves, StampMoves, Moved, LockedSteps
  <2> QED  BY <1>1, <1>3, <2>3, <2>4, <2>5, <2>6, OnlyAJob
<1>5. CASE MadeBy(customer, by) = {}
  <2> DEFINE c == FirstOf(Unused(customer))
  <2>1. c \in Unused(customer)
    BY <1>2, <1>5, FirstOfIs DEF MakeCustomer, by
  <2>2. c \in Customers /\ customer[c].by = None /\ ~MadeCustomer(c) /\ c # None
    BY <1>1, <2>1, BillingAssumption DEF Unused, MadeBy, StripeOK
  <2>3. /\ customer' = [customer EXCEPT ![c] = [standing |-> "present", by |-> by]]
        /\ Keeps(p, "map", "cust", c)
    BY <1>5 DEF MakeCustomer, by
  <2> HIDE DEF c
  <2>4. /\ customer' \in [Customers -> CustomerRecords]
        /\ customer'[c].standing = "present" /\ customer'[c].by = by
        /\ \A d \in Customers : d # c => customer'[d] = customer[d]
    BY <1>1, <1>2, <2>2, <2>3 DEF CustomerRecords
  <2>5. Moved(p, "map", job[p].sub, job[p].old, c, job[p].seen, job[p].event)
    BY <1>1, <2>2, <2>3, KeepsCustIs DEF Steps
  <2>6. StripeMovesOn /\ Payable' = Payable
    <3>1. StripeTyped'
      BY <1>1, <1>3, <2>4 DEF Typed, StripeTyped
    <3>2. StripeOK'
      BY <1>1, <1>2, <1>3, <2>2, <2>4 DEF StripeOK, MadeSub, MadeCustomer
    <3>3. Payable' = Payable /\ \A s \in Subs : sub[s].version \in Nat
      BY <1>1, <1>3 DEF Payable, Typed, StripeTyped, SubRecords
    <3>4. ASSUME NEW s \in Payable
          PROVE  \/ customer'[sub[s].owner].standing = customer[sub[s].owner].standing
                 \/ person => sub[s].owner = mapping /\ customer'[sub[s].owner].standing = "present"
      <4>1. sub[s].owner \in Customers /\ s \in Subs /\ Lives(sub[s])
        BY <1>1 DEF Payable, StripeOK
      <4>2. person => customer[sub[s].owner].standing = "present"
        BY <1>1, <4>1 DEF Mapped
      <4> QED  BY <2>2, <2>4, <4>1, <4>2 DEF MadeCustomer
    <3>5. /\ \A d \in Customers : MadeCustomer(d) => customer'[d].standing # "none"
          /\ \A d \in Customers : Deleted(d) => customer'[d].standing = "deleted"
      BY <2>2, <2>4 DEF MadeCustomer, Deleted
    <3> QED  BY <1>3, <3>1, <3>2, <3>3, <3>4, <3>5 DEF StripeMovesOn, MadeSub
  <2>7. Quiet(p)
    BY <1>1, <1>3, <2>5 DEF Quiet, Moved, LockMoves, StampMoves, LockedSteps
  <2>8. JobOK(p)'
    <3>1. /\ job'[p].at = "map" /\ job'[p].sub = job[p].sub /\ job'[p].old = job[p].old
          /\ job'[p].cust = c /\ job'[p].event = job[p].event /\ job[p].event = None
          /\ Want(p)' = Want(p) /\ Want(p) \in Plans
      BY <1>1, <1>3, <2>5 DEF Moved, Fits, Want, PlanSteps
    <3>2. /\ job[p].sub # None => sub'[job[p].sub].status # "none"
          /\ job[p].old # None => sub'[job[p].old].status # "none"
      BY <1>1, <1>3 DEF Fits, MadeSub
    <3>3. IsAboutMade(p)'
      BY <2>2, <2>4, <3>1, <3>2 DEF IsAboutMade, MadeSub, MadeCustomer, SubSteps, LockedSteps
    <3> QED  BY <3>1, <3>3 DEF JobOK, IsUpToDate, SawTrue, IsOfItsEvent
  <2>9. job'[p].at # "create" /\ \A s \in Subs : Making(p, s)' <=> Making(p, s)
    BY <1>1, <2>5 DEF Moved, Making
  <2> QED  BY <1>1, <2>6, <2>7, <2>8, <2>9, QuietStep
<1> QED  BY <1>4, <1>5

(* No other job makes anything while p is in its locked section.           *)
LEMMA OnlyTheHolder ==
  ASSUME BillingInv, NEW p \in Jobs, job[p].at \in LockedSteps, NEW k \in Jobs, k # p
  PROVE  job[k].at # "create" /\ \A s \in Subs : ~Making(k, s)
BY DEF BillingInv, Basics, LockHeld, Making, LockedSteps

LEMMA AbandonKeeps == ASSUME BillingInv, NEW p \in Presses, Abandon(p) PROVE BillingInv'
<1> DEFINE s == job[p].sub
<1>1. /\ p \in Jobs /\ Typed /\ job[p].at = "abandon" /\ Lives(sub[s]) /\ Basics
      /\ Fits(p, "abandon", s, job[p].old, job[p].cust, job[p].seen, job[p].event)
  BY PressesAreJobs, JobFits DEF BillingInv, Basics, Abandon, At
<1>2. s \in Subs /\ MadeSub(s) /\ sub[s] \in SubRecords /\ s # None
  BY <1>1, AsksOfStripe, BillingAssumption DEF SubSteps, LockedSteps
<1> DEFINE x == Canceled(sub[s])
<1>3. /\ x \in SubRecords /\ x.owner = sub[s].owner /\ x.by = sub[s].by
      /\ x.version = sub[s].version /\ x.status = "canceled" /\ x.next = None
  BY <1>2 DEF SubRecords, Canceled
<1>4. Becomes(s, x)
  BY DEF Abandon
<1>5. /\ Keeps(p, "create", "old", s)
      /\ UNCHANGED <<customer, person, mapping, row, claimed, orphans, cast, lock, stamp>>
  BY DEF Abandon, tables
<1> HIDE DEF x, s
<1>6. StripeMovesOn /\ Payable' \subseteq Payable
  BY <1>1, <1>2, <1>3, <1>4, <1>5, BecomesMovesOn DEF Lives
<1>7. Moved(p, "create", s, s, job[p].cust, job[p].seen, job[p].event)
  BY <1>1, <1>2, <1>5, KeepsOldIs DEF Steps, s
<1>8. Fits(p, "create", s, s, job[p].cust, job[p].seen, job[p].event)
  BY <1>1, <1>2 DEF Fits, SubSteps, CustSteps, LockedSteps, PlanSteps
<1>9. JobOK(p)'
  BY <1>1, <1>5, <1>6, <1>7, <1>8, FitsIsOK
<1>10. Quiet(p)
  BY <1>1, <1>5, <1>7 DEF Quiet, Moved, LockMoves, StampMoves, LockedSteps
<1>11. Basics'
  BY <1>1, <1>6, <1>9, <1>10, QuietBasics
<1>12. Payable' = Payable \ {s} /\ \A t \in Subs : t # s => sub'[t] = sub[t]
  BY <1>1, <1>2, <1>3, <1>4 DEF Payable, Becomes, Lives, Typed, StripeTyped, SubRecords
<1>13. \A k \in Jobs, t \in Subs : ~Making(k, t)' /\ ~Making(k, t)
  BY <1>1, <1>7, OnlyTheHolder DEF Making, Moved, LockedSteps
<1>14. ASSUME person' PROVE Recorded' /\ Counted'
  <2>1. Recorded /\ Counted /\ row[s] # None
    BY <1>1, <1>5, <1>14 DEF BillingInv, Fits
  <2>2. Recorded'
    <3>1. LiveRows' = LiveRows /\ Payable' \subseteq Subs
      BY <1>5 DEF LiveRows, Payable
    <3> QED  BY <1>5, <1>6, <1>13, <2>1, <3>1, RecordedStays
  <2>3. /\ Proper \in SUBSET Subs /\ Spent \in SUBSET Subs
        /\ Proper' = Proper \ {s}
        /\ Spent' = IF s \in orphans THEN Spent \cup {s} ELSE Spent
    BY <1>1, <1>2, <1>5, <1>12, <2>1 DEF Proper, Payable, Spent, Typed, TablesTyped
  <2>4. IsFiniteSet(Proper) /\ IsFiniteSet(Spent)
        /\ Cardinality(Proper) \in Nat /\ Cardinality(Spent) \in Nat
    BY <2>3, SubsAreFinite
  <2>5. Cardinality(Proper) <= 1 + Cardinality(Spent)
    BY <2>1 DEF Counted
  <2>6. Cardinality(Proper') <= Cardinality(Spent') /\ Cardinality(Spent') \in Nat
        /\ Cardinality(Proper') \in Nat
    <3>1. CASE s \in orphans
      <4>1. s \notin Proper /\ s \notin Spent
        BY <1>1, <3>1 DEF Proper, Spent
      <4>2. Proper' = Proper
        BY <2>3, <4>1
      <4>3. Spent' = Spent \cup {s} /\ Cardinality(Spent') = Cardinality(Spent) + 1
        BY <2>3, <2>4, <3>1, <4>1, FS_AddElement
      <4> QED  BY <2>4, <2>5, <4>2, <4>3
    <3>2. CASE s \notin orphans
      <4>1. s \in Proper
        BY <1>1, <1>2, <3>2 DEF Proper, Payable
      <4>2. Cardinality(Proper') = Cardinality(Proper) - 1 /\ Spent' = Spent
        BY <2>3, <2>4, <3>2, <4>1, FS_RemoveElement
      <4>3. Cardinality(Proper') \in Nat
        BY <2>3, SubsAreFinite
      <4> QED  BY <2>4, <2>5, <4>2, <4>3
    <3> QED  BY <3>1, <3>2
  <2>7. Counted'
    BY <1>13, <2>6 DEF Counted
  <2> QED  BY <2>2, <2>7
<1> QED  BY <1>11, <1>14 DEF BillingInv

LEMMA CreateSubscriptionKeeps ==
  ASSUME BillingInv, NEW p \in Presses, CreateSubscription(p)
  PROVE  BillingInv'
<1> DEFINE by == <<Key(p), IF job[p].old = None THEN "create" ELSE "replace">>
           made == [status |-> "incomplete", plan |-> Want(p), next |-> None, ending |-> FALSE]
           Answers(s) == job' = [job EXCEPT ![p].at = "answer", ![p].sub = s, ![p].seen = made]
           x == [status |-> "incomplete", plan |-> Want(p), next |-> None, ending |-> FALSE,
                 version |-> 0, owner |-> job[p].cust, by |-> by, answer |-> NoAnswers]
<1>1. /\ p \in Jobs /\ Typed /\ job[p].at = "create" /\ job[p] \in JobRecords /\ Basics
      /\ Fits(p, "create", job[p].sub, job[p].old, job[p].cust, job[p].seen, job[p].event)
      /\ sub \in [Subs -> SubRecords] /\ StripeOK /\ Mapped
  BY PressesAreJobs, JobFits
  DEF BillingInv, Basics, CreateSubscription, At, Typed, StripeTyped
<1>2. by \in Keys \X {"create", "replace"} /\ by # None
  <2>1. Key(p) \in Keys
    BY <1>1 DEF Key, Typed, JobsTyped, CastRecords
  <2> QED  BY <2>1, BillingAssumption
<1>3. Want(p) \in Plans
  BY <1>1 DEF Fits, PlanSteps, LockedSteps
<1>4. made \in Snapshots /\ Lives(made)
  BY <1>3 DEF Snapshots, Lives
<1>5. UNCHANGED <<customer, person, mapping, row, claimed, orphans, cast, lock, stamp>>
  BY DEF CreateSubscription, tables
<1>6. \/ /\ MadeBy(sub, by) # {}
         /\ Answers(FirstOf(MadeBy(sub, by))) /\ UNCHANGED <<sub, due>>
      \/ /\ MadeBy(sub, by) = {}
         /\ customer[job[p].cust].standing = "present"
         /\ Unused(sub) # {}
         /\ Becomes(FirstOf(Unused(sub)), x)
         /\ Answers(FirstOf(Unused(sub)))
  BY DEF CreateSubscription
<1>7. ASSUME NEW s \in Subs, Answers(s)
      PROVE  Moved(p, "answer", s, job[p].old, job[p].cust, made, job[p].event)
  <2> HIDE DEF made
  <2> QED  BY <1>1, <1>4, <1>7 DEF Typed, JobsTyped, JobRecords, Moved, Steps
<1> HIDE DEF by, made, x
<1>8. \A k \in Jobs, t \in Subs : ~Making(k, t)
  BY <1>1, OnlyTheHolder DEF Making, LockedSteps
<1>9. ASSUME NEW s \in Subs, Moved(p, "answer", s, job[p].old, job[p].cust, made, job[p].event)
      PROVE  /\ \A k \in Jobs, t \in Subs : Making(k, t)' => t = s
             /\ \A k \in Jobs : job'[k].at # "create"
             /\ \E k \in Jobs : Making(k, s)'
             /\ Quiet(p)
  <2>1. \A k \in Jobs, t \in Subs : Making(k, t)' => t = s
    BY <1>8, <1>9 DEF Making, Moved
  <2>2. \A k \in Jobs : job'[k].at # "create"
    BY <1>1, <1>9, OnlyTheHolder DEF Moved, LockedSteps
  <2>3. Making(p, s)'
    BY <1>9 DEF Making, Moved
  <2>4. Quiet(p)
    BY <1>1, <1>5, <1>9 DEF Quiet, Moved, LockMoves, StampMoves, LockedSteps
  <2> QED  BY <1>1, <2>1, <2>2, <2>3, <2>4
<1>10. /\ Proper \in SUBSET Subs /\ Spent \in SUBSET Subs
       /\ IsFiniteSet(Proper) /\ Cardinality(Proper) \in Nat /\ Cardinality(Spent) \in Nat
  <2>1. Proper \in SUBSET Subs /\ Spent \in SUBSET Subs
    BY <1>1 DEF Proper, Payable, Spent, Typed, TablesTyped
  <2> QED  BY <2>1, SubsAreFinite
<1>11. CASE /\ MadeBy(sub, by) # {}
            /\ Answers(FirstOf(MadeBy(sub, by))) /\ UNCHANGED <<sub, due>>
  <2> DEFINE s == FirstOf(MadeBy(sub, by))
  <2>1. s \in MadeBy(sub, by)
    BY <1>11, FirstOfIs
  <2>2. s \in Subs /\ MadeSub(s) /\ s # None
    BY <1>1, <1>2, <2>1, BillingAssumption DEF MadeBy, StripeOK
  <2>3. Answers(s)
    BY <1>11
  <2> HIDE DEF s
  <2>4. Moved(p, "answer", s, job[p].old, job[p].cust, made, job[p].event)
    BY <1>7, <2>2, <2>3
  <2>5. Fits(p, "answer", s, job[p].old, job[p].cust, made, job[p].event)
    BY <1>1, <1>4, <2>2 DEF Fits, SubSteps, CustSteps, LockedSteps, PlanSteps
  <2>6. StripeMovesOn /\ Payable' = Payable /\ Proper' = Proper /\ Spent' = Spent
    BY <1>5, <1>11, StripeStandsStill DEF Payable, Proper, Spent
  <2>7. JobOK(p)' /\ Basics'
    <3>1. JobOK(p)'
      BY <1>1, <1>5, <2>4, <2>5, <2>6, FitsIsOK
    <3> QED  BY <1>1, <1>9, <2>2, <2>4, <2>6, <3>1, QuietBasics
  <2>8. ASSUME person' PROVE Recorded' /\ Counted'
    <3>1. Recorded /\ Counted
      BY <1>5, <2>8 DEF BillingInv
    <3>2. Cardinality(Proper) <= Cardinality(Spent)
      BY <1>1, <3>1 DEF Counted
    <3>3. \A t : Cardinality(Proper \ {t}) <= Cardinality(Proper) /\ Cardinality(Proper \ {t}) \in Nat
      BY <1>10, FewerSubs, SubsAreFinite
    <3>4. Cardinality(Proper) <= 1 + Cardinality(Spent)
      BY <1>10, <3>2
    <3>5. \A t : Cardinality(Proper \ {t}) <= Cardinality(Spent)
      BY <1>10, <3>2, <3>3
    <3>6. Counted'
      BY <1>9, <2>2, <2>4, <2>6, <3>4, <3>5 DEF Counted
    <3>7. LiveRows' = LiveRows /\ Payable \subseteq Subs
      BY <1>5 DEF LiveRows, Payable
    <3>8. Recorded'
      BY <1>5, <1>8, <2>6, <3>1, <3>7, RecordedStays
    <3> QED  BY <3>6, <3>8
  <2> QED  BY <2>7, <2>8 DEF BillingInv
<1>12. CASE /\ customer[job[p].cust].standing = "present"
            /\ Unused(sub) # {}
            /\ Becomes(FirstOf(Unused(sub)), x)
            /\ Answers(FirstOf(Unused(sub)))
  <2> DEFINE s == FirstOf(Unused(sub))
  <2>1. s \in Unused(sub)
    BY <1>12, FirstOfIs
  <2>2. s \in Subs /\ ~MadeSub(s) /\ s # None /\ sub[s].version = 0
    BY <1>1, <2>1, BillingAssumption DEF Unused, MadeBy, StripeOK
  <2>3. Answers(s) /\ Becomes(s, x)
    BY <1>12
  <2> HIDE DEF s
  <2>4. Moved(p, "answer", s, job[p].old, job[p].cust, made, job[p].event)
    BY <1>7, <2>2, <2>3
  <2>5. job[p].cust \in Customers /\ (person => job[p].cust = mapping)
    BY <1>1, <1>12 DEF Fits, CustSteps, JobRecords, Deleted
  <2> DEFINE y == [x EXCEPT !.version = @ + 1]
  <2>6. /\ y \in SubRecords /\ y.version = 1 /\ y.status = "incomplete"
        /\ y.owner = job[p].cust /\ y.by = by
    <3>1. /\ x \in SubRecords /\ x.version = 0 /\ x.status = "incomplete"
          /\ x.owner = job[p].cust /\ x.by = by
      <4>1. NoAnswers \in [Keys -> Answered \cup {None}]
        BY DEF NoAnswers
      <4> QED  BY <1>2, <1>3, <2>5, <4>1 DEF SubRecords, x
    <3> QED  BY <3>1 DEF SubRecords
  <2>7. sub' = [sub EXCEPT ![s] = y] /\ due' = due \cup {<<s, 1>>}
    BY <2>2, <2>3 DEF Becomes
  <2> HIDE DEF y
  <2>8. /\ sub' \in [Subs -> SubRecords] /\ sub'[s] = y /\ Lives(y)
        /\ \A t \in Subs : t # s => sub'[t] = sub[t]
        /\ \A t \in Subs : sub[t].version \in Nat
    BY <1>1, <2>2, <2>6, <2>7 DEF SubRecords, Lives
  <2>9. StripeTyped'
    BY <1>1, <1>5, <2>2, <2>7, <2>8 DEF Typed, StripeTyped, Events
  <2>10. StripeOK'
    BY <1>1, <1>2, <1>5, <2>5, <2>6, <2>8 DEF StripeOK, MadeSub, MadeCustomer
  <2>11. s \notin Payable /\ Payable' = Payable \cup {s}
    BY <2>2, <2>8 DEF Payable, MadeSub, Lives
  <2>12. \A e \in due' : e \in due \/ (e \notin claimed /\ Happened(e)')
    <3>1. ASSUME NEW e, e = <<s, 1>> PROVE e \notin claimed /\ Happened(e)'
      <4>1. ~Happened(e)
        BY <2>2, <3>1, BillingAssumption DEF Happened
      <4> QED
        BY <1>1, <2>2, <2>6, <2>8, <3>1, <4>1 DEF Basics, EventsOK, Happened, MadeSub
    <3> QED  BY <2>7, <3>1
  <2>13. StripeMovesOn
    <3>1. \A t \in Subs : /\ MadeSub(t) => sub'[t].status # "none" /\ sub[t].version <= sub'[t].version
                          /\ sub[t].status = "canceled" => sub'[t].status = "canceled"
      BY <2>2, <2>8 DEF MadeSub
    <3>2. ASSUME NEW t \in Payable'
          PROVE  \/ /\ t \in Payable /\ sub'[t].owner = sub[t].owner
                    /\ customer'[sub[t].owner].standing = customer[sub[t].owner].standing
                 \/ person => sub'[t].owner = mapping /\ customer'[sub'[t].owner].standing = "present"
      <4>1. CASE t = s
        BY <1>5, <1>12, <2>5, <2>6, <2>8, <4>1
      <4>2. CASE t # s
        BY <1>5, <2>8, <2>11, <4>2 DEF Payable
      <4> QED  BY <4>1, <4>2
    <3> QED
      BY <1>5, <2>9, <2>10, <2>12, <3>1, <3>2 DEF StripeMovesOn, MadeCustomer, Deleted
  <2>14. JobOK(p)'
    <3>1. /\ job'[p].at = "answer" /\ job'[p].sub = s /\ job'[p].old = job[p].old
          /\ job'[p].cust = job[p].cust /\ job'[p].event = job[p].event /\ job'[p].seen = made
          /\ job[p].event = None /\ Want(p)' = Want(p)
      BY <1>1, <1>5, <2>4 DEF Moved, Fits, Want
    <3>2. job[p].old # None => sub'[job[p].old].status # "none"
      BY <1>1, <2>8, <2>13 DEF Fits, JobRecords, StripeMovesOn
    <3>3. job[p].cust # None => customer'[job[p].cust].standing # "none"
      BY <1>5, <1>12
    <3>4. IsAboutMade(p)'
      BY <2>2, <2>6, <2>8, <3>1, <3>2, <3>3
      DEF IsAboutMade, MadeSub, MadeCustomer, CustSteps
    <3> QED
      BY <1>3, <1>4, <3>1, <3>4 DEF JobOK, IsUpToDate, SawTrue, IsOfItsEvent
  <2>15. Basics'
    BY <1>1, <1>9, <2>2, <2>4, <2>13, <2>14, QuietBasics
  <2>16. ASSUME person' PROVE Recorded' /\ Counted'
    <3>1. Recorded /\ Counted
      BY <1>5, <2>16 DEF BillingInv
    <3>2. Cardinality(Proper) <= Cardinality(Spent)
      BY <1>1, <3>1 DEF Counted
    <3>3. row[s] = None /\ s \notin orphans
      BY <1>1, <2>2 DEF Basics, RowsOK, OrphansMade
    <3>4. /\ s \notin Proper /\ Proper' = Proper \cup {s} /\ Proper' \ {s} = Proper
      BY <1>5, <2>11, <3>3 DEF Proper
    <3>5. Spent' = Spent
      BY <1>1, <1>5, <2>8, <3>3 DEF Spent, Typed, TablesTyped
    <3>6. Cardinality(Proper') = Cardinality(Proper) + 1
      BY <1>10, <3>4, FS_AddElement
    <3>7. Cardinality(Proper') <= 1 + Cardinality(Spent')
      BY <1>10, <3>2, <3>5, <3>6
    <3>8. Counted'
      BY <1>9, <2>2, <2>4, <3>2, <3>4, <3>5, <3>7 DEF Counted
    <3>9. Recorded'
      <4> SUFFICES ASSUME NEW t \in Subs, Lives(sub'[t]), t \notin orphans'
                   PROVE  \/ t \in LiveRows'
                          \/ row'[t] = None /\ \E k \in Jobs : Making(k, t)'
        BY DEF Recorded
      <4>1. CASE t = s
        BY <1>5, <1>9, <2>2, <2>4, <3>3, <4>1
      <4>2. CASE t # s
        <5>1. t \in LiveRows
          BY <1>5, <1>8, <2>8, <3>1, <4>2 DEF Recorded
        <5> QED  BY <1>5, <5>1 DEF LiveRows
      <4> QED  BY <4>1, <4>2
    <3> QED  BY <3>8, <3>9
  <2> QED  BY <2>15, <2>16 DEF BillingInv
<1> QED  BY <1>6, <1>11, <1>12

-----------------------------------------------------------------------------
(* Steps that write the tables, while Stripe stands still.                 *)

(* What such a step must see to.                                           *)
Writes(p) ==
  /\ UNCHANGED <<customer, sub, cast>> /\ due' \subseteq due /\ TablesTyped'
  /\ job' \in [Jobs -> JobRecords] /\ \A k \in Jobs : k # p => job'[k] = job[k]
  /\ stamp' \in Stamps /\ \A k \in Jobs : k # p /\ stamp[k] > 0 => stamp'[k] > 0
  /\ person' => person
  /\ person' => \A s \in Subs : row[s] # None => row'[s] # None
  /\ person' => \A c \in Customers : c = mapping => c = mapping' \/ Deleted(c)
  /\ claimed' \cap due' = {} /\ \A e \in claimed' : e \in claimed \/ Happened(e)

LEMMA WritesBasics ==
  ASSUME Basics, NEW p \in Jobs, Writes(p), LockMoves(p), JobOK(p)',
         Mapped', RowsOK', Stamped', OrphansMade', ClaimedIsRecorded'
  PROVE  Basics'
<1>1. Typed /\ LockHeld /\ JobsOK /\ EventsOK /\ StripeOK
  BY DEF Basics
<1>2. LockHeld' /\ lock' \in Jobs \cup {None}
  BY <1>1, LockStays DEF Writes
<1>3. StripeTyped' /\ StripeOK'
  BY <1>1 DEF Typed, StripeTyped, StripeOK, MadeSub, MadeCustomer, Writes
<1>4. Typed'
  BY <1>1, <1>2, <1>3 DEF Typed, JobsTyped, Writes
<1>5. Onward
  <2>1. \A s \in Subs : sub[s].version \in Nat
    BY <1>1 DEF Typed, StripeTyped, SubRecords
  <2> QED  BY <2>1 DEF Onward, Writes, MadeSub, MadeCustomer, Deleted
<1>6. JobsOK'
  BY <1>1, <1>4, <1>5, JobsStay DEF Writes
<1>7. EventsOK'
  <2>1. \A e \in claimed : Happened(e)
    BY <1>1 DEF EventsOK
  <2>2. \A e : Happened(e)' <=> Happened(e)
    BY DEF Happened, MadeSub, Deleted, Writes
  <2> QED  BY <1>1, <2>2 DEF EventsOK, Writes
<1> QED  BY <1>2, <1>3, <1>4, <1>6, <1>7 DEF Basics

LEMMA MapCustomerKeeps == ASSUME BillingInv, NEW p \in Presses, MapCustomer(p) PROVE BillingInv'
<1> DEFINE c == job[p].cust
           step == IF mapping = None THEN "lock" ELSE "litter"
<1>1. /\ p \in Jobs /\ Typed /\ job[p].at = "map" /\ job[p] \in JobRecords /\ Basics
      /\ Fits(p, "map", job[p].sub, job[p].old, c, job[p].seen, job[p].event)
      /\ Mapped /\ RowsOK /\ Stamped /\ OrphansMade /\ ClaimedIsRecorded
      /\ mapping \in Customers \cup {None}
  BY PressesAreJobs, JobFits
  DEF BillingInv, Basics, MapCustomer, At, Typed, TablesTyped
<1>2. c \in Customers /\ c # None /\ MadeCustomer(c)
  BY <1>1 DEF Fits, CustSteps, JobRecords
<1>3. UNCHANGED <<customer, sub, due, person, row, claimed, lock, stamp, cast, orphans>>
  BY DEF MapCustomer, stripeVars
<1>4. mapping' = IF mapping = None THEN c ELSE mapping
  BY DEF MapCustomer
<1>5. step \in {"lock", "litter"} /\ Goes(p, step) /\ (step = "lock" => mapping' = c)
  BY <1>4 DEF MapCustomer
<1> HIDE DEF c, step
<1>6. Moved(p, step, job[p].sub, job[p].old, c, job[p].seen, job[p].event)
  BY <1>1, <1>5, GoesIs DEF Steps, c
<1>7. LockMoves(p)
  BY <1>1, <1>3, <1>5, <1>6 DEF LockMoves, Moved, LockedSteps
<1>8. Writes(p)
  <2>1. TablesTyped'
    BY <1>1, <1>2, <1>3, <1>4 DEF Typed, TablesTyped
  <2>2. claimed' \cap due' = {} /\ stamp' \in Stamps
    BY <1>1, <1>3 DEF Basics, EventsOK, Typed, JobsTyped
  <2> QED  BY <1>1, <1>3, <1>4, <1>6, <2>1, <2>2, BillingAssumption DEF Writes, Moved
<1>9. JobOK(p)'
  <2>1. /\ job'[p].at = step /\ job'[p].sub = job[p].sub /\ job'[p].old = job[p].old
        /\ job'[p].cust = c /\ job'[p].event = None /\ Want(p)' = Want(p) /\ Want(p) \in Plans
    BY <1>1, <1>3, <1>6 DEF Moved, Fits, Want, PlanSteps
  <2>2. IsAboutMade(p)'
    BY <1>1, <1>2, <1>3, <1>5, <2>1
    DEF IsAboutMade, Fits, MadeSub, MadeCustomer, SubSteps, LockedSteps
  <2> QED  BY <1>5, <2>1, <2>2 DEF JobOK, IsUpToDate, SawTrue, IsOfItsEvent
<1>10. Mapped'
  <2>1. mapping' # None => MadeCustomer(mapping)'
    BY <1>1, <1>2, <1>3, <1>4 DEF Mapped, MadeCustomer
  <2>2. ASSUME person', NEW s \in Subs, Lives(sub'[s])
        PROVE  sub'[s].owner = mapping' /\ customer'[sub'[s].owner].standing = "present"
    <3>1. sub[s].owner = mapping /\ customer[sub[s].owner].standing = "present"
      BY <1>1, <1>3, <2>2 DEF Mapped
    <3>2. sub[s].owner \in Customers
      BY <1>1, <1>3, <2>2 DEF Basics, StripeOK
    <3>3. mapping # None
      BY <3>1, <3>2, BillingAssumption
    <3> QED  BY <1>3, <1>4, <3>1, <3>3
  <2> QED  BY <2>1, <2>2 DEF Mapped
<1>11. RowsOK' /\ Stamped' /\ OrphansMade' /\ ClaimedIsRecorded'
  BY <1>1, <1>3, BillingAssumption DEF RowsOK, Stamped, OrphansMade, ClaimedIsRecorded, MadeSub
<1>12. Basics'
  BY <1>1, <1>7, <1>8, <1>9, <1>10, <1>11, WritesBasics
<1>13. ASSUME person' PROVE Recorded' /\ Counted'
  <2>1. Recorded /\ Counted /\ Typed'
    BY <1>3, <1>12, <1>13 DEF BillingInv, Basics
  <2>2. Payable' = Payable /\ LiveRows' = LiveRows /\ Payable \subseteq Subs
    BY <1>3 DEF Payable, LiveRows
  <2>3. \A k \in Jobs, s \in Subs : Making(k, s)' <=> Making(k, s)
    BY <1>1, <1>5, <1>6 DEF Making, Moved
  <2>4. \A k \in Jobs : job'[k].at = "create" => job[k].at = "create"
    BY <1>5, <1>6 DEF Moved
  <2>5. Counted'
    BY <1>1, <1>3, <2>1, <2>2, <2>3, <2>4, CountsStay
  <2>6. \A s \in Payable', k \in Jobs : Making(k, s) /\ row[s] = None =>
          row'[s] = None /\ \E l \in Jobs : Making(l, s)'
    BY <1>3, <2>2, <2>3
  <2>7. Recorded'
    BY <1>3, <2>1, <2>2, <2>6, RecordedStays
  <2> QED  BY <2>5, <2>7
<1> QED  BY <1>12, <1>13 DEF BillingInv

(* What is stored once j has told what it saw of s.                        *)
LEMMA ReconcileIs ==
  ASSUME Typed, Stamped, NEW j \in Jobs, NEW s \in Subs, job[j].seen \in Snapshots,
         stamp[j] > 0, UNCHANGED cast, Reconcile(j, s)
  PROVE  /\ row'[s] # None /\ row'[s] \in {row[s], job[j].seen}
         /\ \A t \in Subs : t # s => row'[t] = row[t]
         /\ row' \in [Subs -> Snapshots \cup {None}]
         /\ stamp' \in Stamps /\ Stamped'
         /\ \A k \in Jobs : k # j /\ stamp[k] > 0 => stamp'[k] > 0
<1>1. /\ row \in [Subs -> Snapshots \cup {None}] /\ stamp \in Stamps
      /\ None \notin Snapshots /\ Subs \cap Jobs = {}
  BY BillingAssumption DEF Typed, TablesTyped, JobsTyped
<1>2. CASE Newer(j, s)
  <2>1. row' = [row EXCEPT ![s] = job[j].seen] /\ stamp' = TakesStamp({s}, j)
    BY <1>2 DEF Reconcile
  <2>2. /\ stamp' \in Stamps
        /\ \A x \in Clocked : stamp'[x] > 0 <=> x # j /\ (x = s \/ stamp[x] > 0)
    BY <1>1, <2>1, TakesStampIs
  <2>3. Stamped'
    BY <1>1, <2>1, <2>2 DEF Stamped, Clocked
  <2> QED  BY <1>1, <2>1, <2>2, <2>3 DEF Clocked
<1>3. CASE ~Newer(j, s)
  <2>1. row' = row /\ stamp' = Without(j)
    BY <1>3 DEF Reconcile
  <2>2. /\ stamp' \in Stamps
        /\ \A x \in Clocked : stamp'[x] > 0 <=> x # j /\ stamp[x] > 0
    BY <1>1, <2>1, WithoutIs
  <2>3. Stamped'
    BY <1>1, <2>1, <2>2 DEF Stamped, Clocked
  <2>4. row[s] # None
    <3>1. stamp[s] \in Nat /\ stamp[j] \in Nat
      BY <1>1, StampsAreNat DEF Clocked
    <3> QED  BY <1>3, <3>1 DEF Stamped, Newer
  <2> QED  BY <1>1, <2>1, <2>2, <2>3, <2>4 DEF Clocked
<1> QED  BY <1>2, <1>3

LEMMA StoreMadeKeeps == ASSUME BillingInv, NEW p \in Presses, StoreMade(p) PROVE BillingInv'
<1> DEFINE s == job[p].sub
<1>1. /\ p \in Jobs /\ p # None /\ Typed /\ job[p].at = "store" /\ person
      /\ job[p] \in JobRecords /\ Basics
      /\ Fits(p, "store", s, job[p].old, job[p].cust, job[p].seen, job[p].event)
      /\ Mapped /\ RowsOK /\ Stamped /\ OrphansMade /\ ClaimedIsRecorded /\ stamp[p] > 0
      /\ lock = p
  BY PressesAreJobs, JobFits, BillingAssumption
  DEF BillingInv, Basics, StoreMade, At, JobsOK, JobOK, LockHeld, LockedSteps
<1>2. s \in Subs /\ MadeSub(s) /\ job[p].seen \in Snapshots /\ Lives(job[p].seen)
      /\ job[p].event = None
  BY <1>1 DEF Fits, SubSteps, LockedSteps, JobRecords
<1>3. /\ UNCHANGED <<customer, sub, due, person, mapping, claimed, cast>> /\ lock' = None
      /\ orphans' = IF row[s] = None THEN orphans \ {s} ELSE orphans
  BY DEF StoreMade, stripeVars
<1>4. /\ row'[s] # None /\ row'[s] \in {row[s], job[p].seen}
      /\ \A t \in Subs : t # s => row'[t] = row[t]
      /\ row' \in [Subs -> Snapshots \cup {None}]
      /\ stamp' \in Stamps /\ Stamped'
      /\ \A k \in Jobs : k # p /\ stamp[k] > 0 => stamp'[k] > 0
  <2>1. Reconcile(p, s)
    BY DEF StoreMade
  <2> HIDE DEF s
  <2> QED  BY <1>1, <1>2, <1>3, <2>1, ReconcileIs
<1>5. Moved(p, "serve", s, job[p].old, job[p].cust, None, job[p].event)
  BY <1>1, KeepsSeenIs DEF StoreMade, Steps
<1> HIDE DEF s
<1>6. LockMoves(p)
  BY <1>1, <1>3, <1>5 DEF LockMoves, Moved, Unlocked, LockedSteps
<1>7. Writes(p)
  <2>1. TablesTyped'
    BY <1>1, <1>3, <1>4 DEF Typed, TablesTyped
  <2>2. claimed' \cap due' = {} /\ \A t \in Subs : row[t] # None => row'[t] # None
    BY <1>1, <1>3, <1>4 DEF Basics, EventsOK
  <2> QED  BY <1>3, <1>4, <1>5, <2>1, <2>2 DEF Writes, Moved
<1>8. JobOK(p)'
  <2>1. /\ job'[p].at = "serve" /\ job'[p].sub = s /\ job'[p].old = job[p].old
        /\ job'[p].cust = job[p].cust /\ job'[p].event = None
    BY <1>2, <1>5 DEF Moved
  <2>2. IsAboutMade(p)'
    BY <1>1, <1>2, <1>3, <2>1
    DEF IsAboutMade, Fits, MadeSub, MadeCustomer, SubSteps, LockedSteps, CustSteps
  <2> QED
    BY <2>1, <2>2 DEF JobOK, IsUpToDate, SawTrue, IsOfItsEvent, PlanSteps, LockedSteps
<1>9. Mapped' /\ OrphansMade'
  BY <1>1, <1>3 DEF Mapped, OrphansMade, MadeSub, MadeCustomer
<1>10. RowsOK'
  <2>1. job[p].seen.status # "none" /\ job[p].seen.status # "canceled"
    BY <1>2 DEF Lives
  <2> QED  BY <1>1, <1>2, <1>3, <1>4, <2>1 DEF RowsOK, MadeSub
<1>11. ClaimedIsRecorded'
  BY <1>1, <1>3, <1>4 DEF ClaimedIsRecorded
<1>12. Basics'
  BY <1>1, <1>4, <1>6, <1>7, <1>8, <1>9, <1>10, <1>11, WritesBasics
<1>13. \A k \in Jobs : job'[k].at # "create" /\ \A t \in Subs : ~Making(k, t)'
  <2>1. p \in Jobs /\ job[p].at \in LockedSteps
    BY <1>1 DEF LockedSteps
  <2> QED  BY <1>5, <2>1, OnlyTheHolder DEF Making, Moved
<1>14. Recorded /\ Counted
  BY <1>1 DEF BillingInv
<1>15. Recorded'
  <2> SUFFICES ASSUME NEW t \in Subs, Lives(sub'[t]), t \notin orphans'
               PROVE  t \in LiveRows'
    BY DEF Recorded
  <2>1. CASE t = s
    <3>1. row'[s].status # "canceled"
      BY <1>1, <1>2, <1>3, <1>4, <2>1 DEF RowsOK, Lives
    <3> QED  BY <1>2, <1>4, <2>1, <3>1 DEF LiveRows
  <2>2. CASE t # s
    <3>1. t \notin orphans /\ Lives(sub[t])
      BY <1>3, <2>2
    <3>2. \A k \in Jobs : ~Making(k, t)
      <4>1. ~Making(p, t)
        BY <2>2 DEF Making, s
      <4>2. p \in Jobs /\ job[p].at \in LockedSteps
        BY <1>1 DEF LockedSteps
      <4> QED  BY <4>1, <4>2, OnlyTheHolder
    <3>3. t \in LiveRows
      BY <1>14, <3>1, <3>2 DEF Recorded
    <3> QED  BY <1>4, <2>2, <3>3 DEF LiveRows
  <2> QED  BY <2>1, <2>2
<1>16. Counted'
  <2>1. /\ Proper \in SUBSET Subs /\ Spent \in SUBSET Subs /\ Proper' \in SUBSET Subs
        /\ IsFiniteSet(Proper) /\ IsFiniteSet(Proper')
        /\ Cardinality(Proper) \in Nat /\ Cardinality(Spent) \in Nat
        /\ Cardinality(Proper') \in Nat
    <3>1. Proper \in SUBSET Subs /\ Spent \in SUBSET Subs /\ Proper' \in SUBSET Subs
      BY <1>1 DEF Proper, Payable, Spent, Typed, TablesTyped
    <3> QED  BY <3>1, SubsAreFinite
  <2>2. Spent' = Spent
    BY <1>1, <1>3, <1>4 DEF Spent, Typed, TablesTyped
  <2>3. Cardinality(Proper') <= 1 + Cardinality(Spent)
    <3>1. CASE row[s] = None
      <4>1. Making(p, s)
        BY <1>1 DEF Making, s
      <4>2. Cardinality(Proper \ {s}) <= Cardinality(Spent)
        BY <1>1, <1>2, <1>14, <3>1, <4>1 DEF Counted
      <4>3. Proper' \subseteq (Proper \ {s}) \cup {s}
        BY <1>3 DEF Proper, Payable
      <4>4. /\ Proper \ {s} \in SUBSET Subs /\ (Proper \ {s}) \cup {s} \in SUBSET Subs
            /\ IsFiniteSet(Proper \ {s}) /\ Cardinality(Proper \ {s}) \in Nat
        BY <1>2, <2>1, SubsAreFinite
      <4>5. Cardinality((Proper \ {s}) \cup {s}) = Cardinality(Proper \ {s}) + 1
        BY <4>4, FS_AddElement
      <4>6. Cardinality(Proper') <= Cardinality((Proper \ {s}) \cup {s})
        BY <4>3, <4>4, FewerSubs
      <4> QED  BY <2>1, <4>2, <4>4, <4>5, <4>6
    <3>2. CASE row[s] # None
      <4>1. Proper' = Proper
        BY <1>3, <3>2 DEF Proper, Payable
      <4> QED  BY <1>14, <2>1, <4>1 DEF Counted
    <3> QED  BY <3>1, <3>2
  <2> QED  BY <1>13, <2>2, <2>3 DEF Counted
<1> QED  BY <1>12, <1>15, <1>16 DEF BillingInv

(* While nobody holds the lock nothing is being made.                      *)
LEMMA NothingInMaking ==
  ASSUME BillingInv, Free, NEW k \in Jobs
  PROVE  job[k].at \notin LockedSteps /\ \A s \in Subs : ~Making(k, s)
<1>1. job[k].at \notin LockedSteps
  BY BillingAssumption DEF BillingInv, Basics, LockHeld, Free
<1> QED  BY <1>1 DEF Making, LockedSteps

(* A write of the tables with the lock free, after which what is there to  *)
(* be paid is still in the books.                                          *)
LEMMA WritesOnLedger ==
  ASSUME BillingInv, Basics', Free, person, UNCHANGED <<sub, orphans>>,
         \A s \in Subs : row[s] # None => row'[s] # None,
         \A s \in Subs : Lives(sub[s]) /\ s \in LiveRows => s \in LiveRows',
         \A k \in Jobs : job'[k].at \notin LockedSteps
  PROVE  Recorded' /\ Counted'
<1>1. Recorded /\ Counted /\ Typed /\ Typed'
  BY DEF BillingInv, Basics
<1>2. \A k \in Jobs, s \in Subs : ~Making(k, s) /\ ~Making(k, s)'
  BY NothingInMaking DEF Making, LockedSteps
<1>3. \A k \in Jobs : job'[k].at # "create"
  BY DEF LockedSteps
<1>4. Payable' = Payable /\ Payable \subseteq Subs /\ \A s \in Payable : Lives(sub[s])
  BY DEF Payable
<1>5. Counted'
  BY <1>1, <1>2, <1>3, <1>4, CountsStay
<1>6. Recorded'
  BY <1>1, <1>2, <1>4, RecordedStays
<1> QED  BY <1>5, <1>6

LEMMA ClaimsIs ==
  ASSUME BillingInv, NEW j \in Jobs, Claims(j)
  PROVE  /\ due' \subseteq due /\ claimed' \subseteq Events /\ claimed' \cap due' = {}
         /\ \A e \in claimed' : e \in claimed \/ Happened(e)
         /\ \A e \in claimed' : e \in claimed \/ (e = job[j].event /\ e # None)
<1>1. /\ claimed \cap due = {} /\ claimed \subseteq Events /\ job[j].event \in Events \cup {None}
      /\ job[j].event # None => Happened(job[j].event)
  BY JobFits DEF BillingInv, Basics, EventsOK, Typed, TablesTyped, JobRecords, Fits
<1> QED  BY <1>1 DEF Claims

LEMMA WriteKeeps == ASSUME BillingInv, NEW j \in Jobs, Write(j) PROVE BillingInv'
<1>1. /\ Typed /\ job[j].at = "write" /\ job[j] \in JobRecords /\ Basics /\ j \in cast.jobs
      /\ Fits(j, "write", job[j].sub, job[j].old, job[j].cust, job[j].seen, job[j].event)
      /\ Mapped /\ RowsOK /\ Stamped /\ OrphansMade /\ ClaimedIsRecorded /\ stamp[j] > 0
      /\ Free
  BY JobFits DEF BillingInv, Basics, Write, At, JobsOK, JobOK
<1>2. CASE ~(person /\ job[j].event \notin claimed)
  <2>1. Over(j) /\ due' \subseteq due /\ UNCHANGED <<customer, sub, person, mapping, row, claimed,
                                                     orphans, cast>>
    BY <1>2 DEF Write
  <2> QED  BY <1>1, <2>1, EndsQuietly DEF Over, StampMoves
<1>3. CASE person /\ job[j].event \notin claimed
  <2> DEFINE s == Target(j)
  <2>1. /\ UNCHANGED <<customer, sub, person, mapping, orphans, cast, lock>>
        /\ Reconcile(j, s) /\ Claims(j) /\ job' = [job EXCEPT ![j] = AfterWrite(j)]
    BY <1>3 DEF Write
  <2>2. /\ s \in Subs /\ MadeSub(s) /\ job[j].seen \in Snapshots /\ job[j].seen.status # "none"
        /\ job[j].seen.status = "canceled" => sub[s].status = "canceled"
        /\ job[j].event # None => job[j].event[1] = s \/ job[j].event[1] \notin Subs
        /\ job[j].sub \in Subs /\ MadeSub(job[j].sub) /\ job[j].sub # None
    BY <1>1, BillingAssumption DEF Fits, SubSteps, JobRecords, Target
  <2> HIDE DEF s
  <2>3. /\ row'[s] # None /\ row'[s] \in {row[s], job[j].seen}
        /\ \A t \in Subs : t # s => row'[t] = row[t]
        /\ row' \in [Subs -> Snapshots \cup {None}]
        /\ stamp' \in Stamps /\ Stamped'
        /\ \A k \in Jobs : k # j /\ stamp[k] > 0 => stamp'[k] > 0
    BY <1>1, <2>1, <2>2, ReconcileIs
  <2>4. /\ due' \subseteq due /\ claimed' \subseteq Events /\ claimed' \cap due' = {}
        /\ \A e \in claimed' : e \in claimed \/ Happened(e)
        /\ \A e \in claimed' : e \in claimed \/ (e = job[j].event /\ e # None)
    BY <2>1, ClaimsIs
  <2>5. \/ Moved(j, "idle", None, None, None, None, None)
        \/ Moved(j, "finish", None, None, None, None, None)
        \/ Moved(j, "serve", job[j].sub, None, None, None, None)
    <3>1. CASE AfterWrite(j) = Idle
      BY <1>1, <2>1, <3>1, IdlesIs
    <3>2. CASE AfterWrite(j) = [Idle EXCEPT !.at = "finish"]
      <4> DEFINE q == [Idle EXCEPT !.at = "finish"]
      <4>1. /\ q \in JobRecords /\ q.at = "finish" /\ q.sub = None /\ q.old = None
            /\ q.cust = None /\ q.seen = None /\ q.event = None
        BY IdleIs DEF JobRecords, Steps
      <4> HIDE DEF q
      <4>2. job' = [job EXCEPT ![j] = q]
        BY <2>1, <3>2 DEF q
      <4>3. Moved(j, q.at, q.sub, q.old, q.cust, q.seen, q.event)
        BY <1>1, <4>1, <4>2, BecomesIs
      <4> QED  BY <4>1, <4>3
    <3>3. CASE AfterWrite(j) = [Idle EXCEPT !.at = "serve", !.sub = job[j].sub]
      <4>1. job' = [job EXCEPT ![j] = [Idle EXCEPT !.at = "serve", !.sub = job[j].sub]]
        BY <2>1, <3>3
      <4> QED  BY <1>1, <2>2, <4>1, ReadsIs DEF Steps
    <3> QED  BY <3>1, <3>2, <3>3 DEF AfterWrite
  <2>6. /\ job' \in [Jobs -> JobRecords] /\ \A k \in Jobs : k # j => job'[k] = job[k]
        /\ job'[j].at \in {"idle", "finish", "serve"} /\ job'[j].old = None
        /\ job'[j].cust = None /\ job'[j].event = None
        /\ job'[j].sub \in {None, job[j].sub} /\ (job'[j].at = "serve" => job'[j].sub # None)
    BY <2>2, <2>5 DEF Moved
  <2>7. LockMoves(j)
    BY <1>1, <2>1, <2>6 DEF LockMoves, LockedSteps
  <2>8. Writes(j)
    <3>1. TablesTyped'
      BY <1>1, <2>1, <2>3, <2>4 DEF Typed, TablesTyped
    <3>2. \A t \in Subs : row[t] # None => row'[t] # None
      BY <2>3
    <3> QED  BY <2>1, <2>3, <2>4, <2>6, <3>1, <3>2 DEF Writes
  <2>9. JobOK(j)'
    <3>1. IsAboutMade(j)'
      BY <2>1, <2>2, <2>6 DEF IsAboutMade, MadeSub, SubSteps, CustSteps, LockedSteps
    <3> QED
      BY <2>6, <3>1 DEF JobOK, IsUpToDate, SawTrue, IsOfItsEvent, PlanSteps, LockedSteps
  <2>10. Mapped' /\ OrphansMade'
    BY <1>1, <2>1 DEF Mapped, OrphansMade, MadeSub, MadeCustomer
  <2>11. RowsOK'
    BY <1>1, <1>3, <2>1, <2>2, <2>3 DEF RowsOK, MadeSub
  <2>12. ClaimedIsRecorded'
    BY <1>1, <1>3, <2>2, <2>3, <2>4 DEF ClaimedIsRecorded
  <2>13. Basics'
    BY <1>1, <2>3, <2>7, <2>8, <2>9, <2>10, <2>11, <2>12, WritesBasics
  <2>14. \A t \in Subs : Lives(sub[t]) /\ t \in LiveRows => t \in LiveRows'
    <3>1. Lives(sub[s]) => job[j].seen.status # "canceled"
      BY <2>2 DEF Lives
    <3> QED  BY <1>1, <2>3, <3>1 DEF LiveRows
  <2>15. \A t \in Subs : row[t] # None => row'[t] # None
    BY <2>3
  <2>16. \A k \in Jobs : job'[k].at \notin LockedSteps
    BY <1>1, <2>6, NothingInMaking DEF LockedSteps
  <2>17. Recorded' /\ Counted'
    BY <1>1, <1>3, <2>1, <2>13, <2>14, <2>15, <2>16, WritesOnLedger
  <2> QED  BY <2>13, <2>17 DEF BillingInv
<1> QED  BY <1>2, <1>3

LEMMA CloseKeeps == ASSUME BillingInv, NEW j \in Jobs, Close(j) PROVE BillingInv'
<1> DEFINE c == job[j].cust
           closed == IF mapping = c THEN {s \in LiveRows : Newer(j, s)} ELSE {}
           after == CASE j \in Presses -> [job[j] EXCEPT !.at = "make"]
                      [] j = Leaver -> [Idle EXCEPT !.at = "erase"]
                      [] OTHER -> Idle
<1>1. /\ Typed /\ job[j].at = "close" /\ job[j] \in JobRecords /\ Basics /\ j \in cast.jobs
      /\ Fits(j, "close", job[j].sub, job[j].old, c, job[j].seen, job[j].event)
      /\ Mapped /\ RowsOK /\ Stamped /\ OrphansMade /\ ClaimedIsRecorded /\ Free
      /\ row \in [Subs -> Snapshots \cup {None}] /\ stamp \in Stamps
  BY JobFits DEF BillingInv, Basics, Close, At, Typed, TablesTyped, JobsTyped
<1>2. c \in Customers /\ Deleted(c)
  BY <1>1 DEF Fits, CustSteps, JobRecords
<1>3. /\ UNCHANGED <<customer, sub, person, orphans, cast, lock>>
      /\ job' = [job EXCEPT ![j] = after]
  BY DEF Close
<1>4. /\ job' \in [Jobs -> JobRecords] /\ \A k \in Jobs : k # j => job'[k] = job[k]
      /\ job'[j].at \in {"idle", "erase", "make"}
      /\ job'[j].sub \in {None, job[j].sub} /\ job'[j].old \in {None, job[j].old}
      /\ job'[j].cust \in {None, c} /\ job'[j].event = None
  <2>1. job[j].event = None \/ j \in Readers
    BY <1>1 DEF Fits
  <2>2. CASE j \in Presses
    <3>1. j \notin Readers /\ job' = [job EXCEPT ![j] = [job[j] EXCEPT !.at = "make"]]
      BY <1>3, <2>2, BillingAssumption
    <3> DEFINE q == [job[j] EXCEPT !.at = "make"]
    <3>2. /\ q \in JobRecords /\ q.at = "make" /\ q.sub = job[j].sub /\ q.old = job[j].old
          /\ q.cust = c /\ q.event = None
      BY <1>1, <2>1, <3>1 DEF JobRecords, Steps
    <3>3. job' = [job EXCEPT ![j] = q]
      BY <3>1
    <3> HIDE DEF q
    <3> QED  BY <1>1, <3>2, <3>3 DEF Typed, JobsTyped
  <2>3. CASE j = Leaver
    <3>1. job' = [job EXCEPT ![j] = [Idle EXCEPT !.at = "erase"]]
      BY <1>3, <2>3, BillingAssumption
    <3> DEFINE q == [Idle EXCEPT !.at = "erase"]
    <3>2. /\ q \in JobRecords /\ q.at = "erase" /\ q.sub = None /\ q.old = None
          /\ q.cust = None /\ q.event = None
      BY IdleIs DEF JobRecords, Steps
    <3>3. job' = [job EXCEPT ![j] = q]
      BY <3>1
    <3> HIDE DEF q
    <3> QED  BY <1>1, <3>2, <3>3 DEF Typed, JobsTyped
  <2>4. CASE j \notin Presses /\ j # Leaver
    <3>1. job' = [job EXCEPT ![j] = Idle]
      BY <1>3, <2>4
    <3> QED  BY <1>1, <3>1, IdleIs DEF Typed, JobsTyped
  <2> QED  BY <2>2, <2>3, <2>4
<1>5. closed \in SUBSET Subs /\ \A s \in closed : s \in LiveRows /\ stamp[j] > 0
  BY <1>1, NewerIsStamped DEF LiveRows
(* What is closed is over: its customer is this person's, and deleted.     *)
<1>6. \A s \in closed : sub[s].status = "canceled" /\ row[s] # None
  <2> SUFFICES ASSUME NEW s \in closed PROVE sub[s].status = "canceled" /\ row[s] # None
    OBVIOUS
  <2>1. s \in Subs /\ row[s] # None /\ mapping = c /\ person
    BY <1>1, <1>5 DEF LiveRows, RowsOK
  <2>2. MadeSub(s) /\ ~Lives(sub[s])
    BY <1>1, <1>2, <2>1 DEF RowsOK, Mapped, Deleted
  <2> QED  BY <1>1, <2>1, <2>2 DEF MadeSub, Lives, Typed, StripeTyped, SubRecords
<1>7. \/ /\ due' \subseteq due /\ stamp' = Without(j) /\ UNCHANGED <<mapping, row, claimed>>
      \/ /\ mapping' = IF mapping = c THEN None ELSE mapping
         /\ row' = [s \in Subs |-> IF s \in closed
                                   THEN [row[s] EXCEPT !.status = "canceled", !.ending = FALSE]
                                   ELSE row[s]]
         /\ stamp' = TakesStamp(closed, j)
         /\ Claims(j)
  BY DEF Close
<1> HIDE DEF c, closed, after
<1>8. /\ due' \subseteq due /\ claimed' \subseteq Events /\ claimed' \cap due' = {}
      /\ \A e \in claimed' : e \in claimed \/ Happened(e)
      /\ \A e \in claimed' : e \in claimed \/ e[1] \notin Subs
  <2>1. job[j].event # None => job[j].event[1] \notin Subs
    BY <1>1, BillingAssumption DEF Fits
  <2>2. CASE Claims(j)
    BY <2>1, <2>2, ClaimsIs
  <2>3. CASE due' \subseteq due /\ UNCHANGED claimed
    BY <1>1, <2>3 DEF Basics, EventsOK, Typed, TablesTyped
  <2> QED  BY <1>7, <2>2, <2>3
<1>9. /\ row' \in [Subs -> Snapshots \cup {None}]
      /\ \A s \in Subs : /\ row'[s] = None <=> row[s] = None
                         /\ row'[s] = row[s] \/ (row'[s].status = "canceled" /\ s \in closed)
  <2> DEFINE over(s) == [row[s] EXCEPT !.status = "canceled", !.ending = FALSE]
  <2>1. \A s \in closed : over(s) \in Snapshots /\ over(s).status = "canceled"
    <3> SUFFICES ASSUME NEW s \in closed
                 PROVE  over(s) \in Snapshots /\ over(s).status = "canceled"
      OBVIOUS
    <3>1. row[s] \in Snapshots
      BY <1>1, <1>5, <1>6
    <3> QED  BY <3>1 DEF Snapshots
  <2>2. None \notin Snapshots
    BY BillingAssumption
  <2>3. row' = row \/ row' = [s \in Subs |-> IF s \in closed THEN over(s) ELSE row[s]]
    BY <1>7
  <2> HIDE DEF over
  <2>4. CASE row' = row
    BY <1>1, <2>4
  <2>5. CASE row' = [s \in Subs |-> IF s \in closed THEN over(s) ELSE row[s]]
    BY <1>1, <1>5, <1>6, <2>1, <2>2, <2>5
  <2> QED  BY <2>3, <2>4, <2>5
<1>10. /\ stamp' \in Stamps /\ Stamped'
       /\ \A k \in Jobs : k # j /\ stamp[k] > 0 => stamp'[k] > 0
  <2>1. /\ stamp' \in Stamps
        /\ \A x \in Clocked : stamp'[x] > 0 <=> x # j /\ stamp[x] > 0
    <3>1. CASE stamp' = Without(j)
      BY <1>1, <3>1, WithoutIs
    <3>2. CASE stamp' = TakesStamp(closed, j)
      <4>1. \A x \in closed : stamp[x] > 0
        BY <1>1, <1>5, <1>6 DEF Stamped
      <4> QED  BY <1>1, <1>5, <3>2, <4>1, TakesStampIs
    <3> QED  BY <1>7, <3>1, <3>2
  <2>2. Subs \cap Jobs = {}
    BY BillingAssumption
  <2> QED  BY <1>1, <1>3, <1>9, <2>1, <2>2 DEF Stamped, Clocked
<1>11. /\ mapping' \in {mapping, None} /\ (mapping' # mapping => mapping = c)
  BY <1>7
<1>12. LockMoves(j)
  BY <1>1, <1>3, <1>4 DEF LockMoves, LockedSteps
<1>13. Writes(j)
  <2>1. TablesTyped'
    BY <1>1, <1>3, <1>8, <1>9, <1>11 DEF Typed, TablesTyped
  <2> QED  BY <1>2, <1>3, <1>4, <1>8, <1>9, <1>10, <1>11, <2>1 DEF Writes
<1>14. JobOK(j)'
  <2>1. IsAboutMade(j)'
    BY <1>1, <1>2, <1>3, <1>4
    DEF IsAboutMade, Fits, MadeSub, MadeCustomer, Deleted, SubSteps, CustSteps, LockedSteps
  <2>2. j \in Presses => Want(j)' = Want(j) /\ Want(j) \in Plans
    BY <1>1, <1>3 DEF Fits, Want, PlanSteps
  <2> QED  BY <1>4, <2>1, <2>2 DEF JobOK, IsUpToDate, SawTrue, IsOfItsEvent
<1>15. Mapped'
  <2>1. mapping' # None => MadeCustomer(mapping)'
    BY <1>1, <1>3, <1>11 DEF Mapped, MadeCustomer
  <2>2. ASSUME person', NEW s \in Subs, Lives(sub'[s])
        PROVE  sub'[s].owner = mapping' /\ customer'[sub'[s].owner].standing = "present"
    <3>1. sub[s].owner = mapping /\ customer[sub[s].owner].standing = "present"
      BY <1>1, <1>3, <2>2 DEF Mapped
    <3>2. mapping # c
      BY <1>2, <3>1 DEF Deleted
    <3> QED  BY <1>3, <1>11, <3>1, <3>2
  <2> QED  BY <2>1, <2>2 DEF Mapped
<1>16. RowsOK' /\ OrphansMade' /\ ClaimedIsRecorded'
  BY <1>1, <1>3, <1>6, <1>8, <1>9 DEF RowsOK, OrphansMade, ClaimedIsRecorded, MadeSub
<1>17. Basics'
  BY <1>1, <1>10, <1>12, <1>13, <1>14, <1>15, <1>16, WritesBasics
<1>18. ASSUME person' PROVE Recorded' /\ Counted'
  <2>1. \A s \in Subs : Lives(sub[s]) /\ s \in LiveRows => s \in LiveRows'
    BY <1>6, <1>9 DEF Lives, LiveRows
  <2>2. \A s \in Subs : row[s] # None => row'[s] # None
    BY <1>9
  <2>3. \A k \in Jobs : job'[k].at \notin LockedSteps
    BY <1>1, <1>4, NothingInMaking DEF LockedSteps
  <2> QED  BY <1>1, <1>3, <1>17, <1>18, <2>1, <2>2, <2>3, WritesOnLedger
<1> QED  BY <1>17, <1>18 DEF BillingInv

LEMMA EraseKeeps == ASSUME BillingInv, Erase PROVE BillingInv'
<1> DEFINE p == Leaver
           f == [x \in Clocked |-> IF x \in Subs THEN 0 ELSE stamp[x]]
<1>1. /\ p \in Jobs /\ Typed /\ job[p].at = "erase" /\ Basics
      /\ Mapped /\ RowsOK /\ Stamped /\ OrphansMade /\ stamp \in Stamps
  BY PressesAreJobs DEF BillingInv, Basics, Erase, At, Typed, JobsTyped
<1>2. /\ UNCHANGED <<customer, sub, due, claimed, lock, cast, orphans>>
      /\ person' = FALSE /\ mapping' = None /\ row' = [s \in Subs |-> None]
      /\ job' = [job EXCEPT ![p] = Idle]
  BY DEF Erase, stripeVars
<1>3. Moved(p, "idle", None, None, None, None, None)
  BY <1>1, <1>2, IdlesIs
<1>4. /\ stamp' \in Stamps
      /\ \A x \in Clocked : stamp'[x] > 0 <=> x \notin Subs /\ stamp[x] > 0
  <2>1. DOMAIN stamp = Clocked /\ f \in [Clocked -> Nat]
    BY <1>1, StampsAreNat
  <2>2. stamp' = InOrder(f)
    BY <2>1 DEF Erase
  <2>3. \A x \in Clocked : f[x] > 0 <=> x \notin Subs /\ stamp[x] > 0
    OBVIOUS
  <2> HIDE DEF f
  <2> QED  BY <2>1, <2>2, <2>3, InOrderIs
<1>5. Subs \cap Jobs = {}
  BY BillingAssumption
<1> HIDE DEF p
<1>6. LockMoves(p)
  BY <1>1, <1>2, <1>3 DEF LockMoves, Moved, LockedSteps
<1>7. Writes(p)
  <2>1. TablesTyped'
    BY <1>1, <1>2 DEF Typed, TablesTyped
  <2>2. claimed' \cap due' = {}
    BY <1>1, <1>2 DEF Basics, EventsOK
  <2> QED  BY <1>2, <1>3, <1>4, <1>5, <2>1, <2>2 DEF Writes, Moved, Clocked
<1>8. JobOK(p)'
  BY <1>3 DEF Moved, JobOK, IsAboutMade, IsUpToDate, SawTrue, IsOfItsEvent, SubSteps, CustSteps,
              LockedSteps, PlanSteps
<1>9. Mapped' /\ RowsOK' /\ OrphansMade' /\ ClaimedIsRecorded'
  BY <1>1, <1>2 DEF Mapped, RowsOK, OrphansMade, ClaimedIsRecorded, MadeSub
<1>10. Stamped'
  BY <1>1, <1>2, <1>4, <1>5 DEF Stamped, Clocked
<1>11. Basics'
  BY <1>1, <1>6, <1>7, <1>8, <1>9, <1>10, WritesBasics
<1> QED  BY <1>2, <1>11 DEF BillingInv

-----------------------------------------------------------------------------
(* The invariant holds.                                                    *)

LEMMA BillingInvInit == ASSUME BillingInit PROVE BillingInv
<1>1. /\ customer = [c \in Customers |-> NoCustomer] /\ sub = [s \in Subs |-> NoSub] /\ due = {}
      /\ person = TRUE /\ mapping = None /\ row = [s \in Subs |-> None] /\ claimed = {}
      /\ lock = None /\ stamp = [x \in Clocked |-> 0] /\ job = [j \in Jobs |-> Idle]
      /\ orphans = {}
  BY DEF BillingInit, Clocked
<1>2. cast \in CastRecords
  <2>1. PICK c \in Casts : cast = [jobs |-> c.jobs, ask |-> c.ask]
    BY DEF BillingInit
  <2>2. c.jobs \subseteq Jobs /\ c.ask \in [Presses -> [key : Keys, want : Plans \cup {"end", "keep"}]]
    BY BillingAssumption
  <2> QED  BY <2>1, <2>2 DEF CastRecords
<1>3. NoCustomer \in CustomerRecords /\ NoCustomer.standing = "none" /\ NoCustomer.by = None
  BY DEF NoCustomer, CustomerRecords
<1>4. /\ NoSub \in SubRecords /\ NoSub.status = "none" /\ NoSub.by = None /\ NoSub.next = None
      /\ NoSub.version = 0
  <2>1. NoAnswers \in [Keys -> Answered \cup {None}]
    BY DEF NoAnswers
  <2> QED  BY <2>1 DEF NoSub, SubRecords, Plans
<1>5. Idle \in JobRecords /\ Idle.at = "idle" /\ Idle.sub = None /\ Idle.old = None
      /\ Idle.cust = None /\ Idle.seen = None /\ Idle.event = None
  BY IdleIs
<1> HIDE DEF NoCustomer, NoSub, Idle
<1>6. Typed
  <2>1. stamp \in Stamps
    BY <1>1, ClockedAreFinite DEF Stamps
  <2>2. customer \in [Customers -> CustomerRecords] /\ sub \in [Subs -> SubRecords]
    BY <1>1, <1>3, <1>4
  <2>3. job \in [Jobs -> JobRecords]
    BY <1>1, <1>5
  <2> QED
    BY <1>1, <1>2, <2>1, <2>2, <2>3 DEF Typed, StripeTyped, TablesTyped, JobsTyped
<1>7. \A s \in Subs : ~MadeSub(s) /\ ~Lives(sub[s]) /\ row[s] = None
  BY <1>1, <1>4 DEF MadeSub, Lives
<1>8. LockHeld
  BY <1>1, <1>5, BillingAssumption DEF LockHeld, LockedSteps
<1>9. JobsOK
  <2> SUFFICES ASSUME NEW j \in Jobs PROVE JobOK(j)
    BY DEF JobsOK
  <2>1. job[j].at = "idle" /\ job[j].sub = None /\ job[j].old = None /\ job[j].cust = None
        /\ job[j].event = None
    BY <1>1, <1>5
  <2> QED
    BY <2>1 DEF JobOK, IsAboutMade, IsUpToDate, SawTrue, IsOfItsEvent, SubSteps, CustSteps,
                LockedSteps, PlanSteps
<1>10. EventsOK /\ OrphansMade /\ ClaimedIsRecorded
  BY <1>1 DEF EventsOK, OrphansMade, ClaimedIsRecorded
<1>11. StripeOK /\ Mapped /\ RowsOK
  BY <1>1, <1>3, <1>4, <1>7 DEF StripeOK, Mapped, RowsOK, MadeSub, MadeCustomer
<1>12. Stamped
  BY <1>1 DEF Stamped, Clocked
<1>13. Recorded /\ Counted
  <2>1. Proper = {} /\ Spent = {} /\ Cardinality({}) = 0
    BY <1>1, <1>7, FS_EmptySet DEF Proper, Payable, Spent
  <2>2. \A s : {} \ {s} = {}
    OBVIOUS
  <2>3. Counted
    BY <2>1, <2>2 DEF Counted
  <2> QED  BY <1>7, <2>3 DEF Recorded
<1> QED
  BY <1>6, <1>8, <1>9, <1>10, <1>11, <1>12, <1>13 DEF BillingInv, Basics

LEMMA PressStepKeeps == ASSUME BillingInv, NEW p \in Presses, PressStep(p) PROVE BillingInv'
BY ReadCustomerKeeps, AskCustomerKeeps, MakeCustomerKeeps, MapCustomerKeeps, DropLitterKeeps,
   TakeWinnerKeeps, DecideKeeps, AskSettlingKeeps, AbandonKeeps, CreateSubscriptionKeeps,
   ReleaseKeeps, SwitchKeeps, RescheduleKeeps, FlagKeeps, AnswerKeeps, StoreMadeKeeps,
   FinishKeeps, RefusedKeeps
DEF PressStep

LEMMA BillingInvNext == ASSUME BillingInv, [BillingNext]_billingVars PROVE BillingInv'
<1>1. CASE UNCHANGED billingVars
  BY <1>1, NoJobMoves DEF billingVars
<1>2. ASSUME NEW j \in Jobs, Step(j) PROVE BillingInv'
  BY <1>2, PressStepKeeps, ServeKeeps, StampKeeps, WriteKeeps, CloseKeeps, DropCustomerKeeps,
     EraseKeeps
  DEF Step
<1>3. ASSUME NEW j \in Jobs, Break(j) PROVE BillingInv'
  BY <1>3, BreakKeeps
<1>4. CASE Begin
  BY <1>4, PressKeeps, RereadKeeps, DeliverKeeps, SweepKeeps, LeaveKeeps DEF Begin
<1>5. ASSUME NEW s \in Subs, Move(s) PROVE BillingInv'
  BY <1>5, MoveKeeps
<1>6. CASE HoursPass \/ Defer
  BY <1>6, HoursPassKeeps, DeferKeeps
<1> QED  BY <1>1, <1>2, <1>3, <1>4, <1>5, <1>6 DEF BillingNext

(* Whatever presses, deliveries, sweeps and the deletion do, in whatever   *)
(* order, and whatever breaks off: who is between a decision and its       *)
(* commit holds the billing lock, and what Stripe would charge for is in   *)
(* the books, in the making, or the work of an attempt that broke off.     *)
THEOREM BillingInvHolds == BillingSpec => []BillingInv
<1>1. BillingInit => BillingInv
  BY BillingInvInit
<1>2. BillingInv /\ [BillingNext]_billingVars => BillingInv'
  BY BillingInvNext
<1> QED  BY <1>1, <1>2, PTL DEF BillingSpec

(* Every variable has its type, and the lock and the stamps belong to what *)
(* they are said to belong to.                                             *)
THEOREM BillingTypeCorrect == BillingSpec => []BillingTypeOK
<1>1. BillingInv => BillingTypeOK
  <2> SUFFICES ASSUME BillingInv PROVE BillingTypeOK
    OBVIOUS
  <2>1. Typed /\ Stamped /\ EventsOK /\ LockHeld
    BY DEF BillingInv, Basics
  <2>2. lock # None => lock \in Jobs /\ job[lock].at \in LockedSteps
    BY <2>1 DEF Typed, JobsTyped, LockHeld
  <2> QED
    BY <2>1, <2>2 DEF BillingTypeOK, Typed, TablesTyped, Stamped, EventsOK, LockedSteps
<1> QED  BY <1>1, BillingInvHolds, PTL

(* However presses, retries and deliveries overlap there is one            *)
(* subscription to pay, and one more at most for every attempt that broke  *)
(* off after Stripe had made it and before it was stored.                  *)
THEOREM AtMostOneToPay == BillingSpec => []OneToPay
<1>1. BillingInv => OneToPay
  <2> SUFFICES ASSUME BillingInv, person
               PROVE  Cardinality(Payable) <= 1 + Cardinality(orphans)
    BY DEF OneToPay, Payable
  <2> DEFINE Lost == Payable \cap orphans
  <2>1. /\ Proper \in SUBSET Subs /\ Spent \in SUBSET Subs /\ Lost \in SUBSET Subs
        /\ Payable \in SUBSET Subs /\ orphans \in SUBSET Subs
    BY DEF BillingInv, Basics, Typed, TablesTyped, Proper, Payable, Spent
  <2>2. Payable = Proper \cup Lost /\ Proper \cap Lost = {}
    BY DEF Proper
  <2>3. Spent \cup Lost \subseteq orphans /\ Spent \cap Lost = {}
    BY DEF Spent, Payable
  <2>4. /\ IsFiniteSet(Proper) /\ IsFiniteSet(Spent) /\ IsFiniteSet(Lost)
        /\ Cardinality(Proper) \in Nat /\ Cardinality(Spent) \in Nat
        /\ Cardinality(Lost) \in Nat /\ Cardinality(orphans) \in Nat
        /\ Cardinality(Payable) \in Nat /\ Cardinality(Spent \cup Lost) \in Nat
        /\ Cardinality({}) = 0
    <3> HIDE DEF Lost
    <3> QED  BY <2>1, SubsAreFinite, FS_EmptySet
  <2> HIDE DEF Lost
  <2>5. Cardinality(Payable) = Cardinality(Proper) + Cardinality(Lost)
    <3>1. Cardinality(Proper \cup Lost) = Cardinality(Proper) + Cardinality(Lost)
                                          - Cardinality(Proper \cap Lost)
      BY <2>4, FS_Union
    <3> QED  BY <2>2, <2>4, <3>1
  <2>6. Cardinality(Spent \cup Lost) = Cardinality(Spent) + Cardinality(Lost)
    <3>1. Cardinality(Spent \cup Lost) = Cardinality(Spent) + Cardinality(Lost)
                                         - Cardinality(Spent \cap Lost)
      BY <2>4, FS_Union
    <3> QED  BY <2>3, <2>4, <3>1
  <2>7. Cardinality(Spent \cup Lost) <= Cardinality(orphans)
    BY <2>1, <2>3, FewerSubs
  <2>8. Cardinality(Proper) <= 1 + Cardinality(Spent)
    BY DEF BillingInv, Counted
  <2> QED  BY <2>4, <2>5, <2>6, <2>7, <2>8
<1> QED  BY <1>1, BillingInvHolds, PTL

(* No delivery is claimed and forgotten: a claimed event of a subscription *)
(* is of one that is in the books.                                         *)
THEOREM ClaimsAreRecorded == BillingSpec => []ClaimedIsRecorded
<1>1. BillingInv => ClaimedIsRecorded
  BY DEF BillingInv, Basics
<1> QED  BY <1>1, BillingInvHolds, PTL

-----------------------------------------------------------------------------
(* Every step is one of the books', or leaves them alone.                  *)

Terms == [status : {"incomplete", "active", "past_due"}, plan : Plans,
          next : Plans \cup {None}, ending : BOOLEAN]
Truth == [s \in Subs |-> Said(Snapshot(s))]
Book == [s \in Subs |-> Said(row[s])]
OneOfTheBooks == Books!BooksNext \/ (Truth' = Truth /\ Book' = Book)

LEMMA SaidIs ==
  /\ \A x \in Snapshots : /\ x.status = "none" => Said(x) = Bare("none")
                          /\ x.status = "canceled" => Said(x) = Bare("canceled")
                          /\ Lives(x) => Said(x) \in Terms
                          /\ Said(x).status = x.status
  /\ Said(None) = Bare("none")
  /\ Bare("none").status = "none" /\ Bare("canceled").status = "canceled"
<1>1. ASSUME NEW x \in Snapshots
      PROVE  /\ x.status = "none" => Said(x) = Bare("none")
             /\ x.status = "canceled" => Said(x) = Bare("canceled")
             /\ Lives(x) => Said(x) \in Terms
             /\ Said(x).status = x.status
  <2>1. x # None
    BY BillingAssumption
  <2> QED  BY <2>1 DEF Said, Bare, Lives, Terms, Snapshots
<1>2. Said(None) = Bare("none")
  BY DEF Said
<1> QED  BY <1>1, <1>2 DEF Bare

(* Said of what Stripe has, by how it stands.                              *)
LEMMA TruthIs ==
  ASSUME Typed, NEW s \in Subs
  PROVE  /\ sub[s].status = "none" => Said(Snapshot(s)) = Bare("none")
         /\ sub[s].status = "canceled" => Said(Snapshot(s)) = Bare("canceled")
         /\ Lives(sub[s]) => Said(Snapshot(s)) \in Terms
         /\ Said(Snapshot(s)).status = sub[s].status
<1>1. Snapshot(s) \in Snapshots /\ Snapshot(s).status = sub[s].status
  BY SnapshotIs
<1>2. Lives(Snapshot(s)) <=> Lives(sub[s])
  BY <1>1 DEF Lives
<1> QED  BY <1>1, <1>2, SaidIs

LEMMA TruthChanges ==
  ASSUME Typed, Typed', NEW s \in Subs, UNCHANGED row, \A t \in Subs : t # s => sub'[t] = sub[t],
         sub[s].status # "canceled", sub'[s].status # "none"
  PROVE  OneOfTheBooks
<1>1. /\ Said(Snapshot(s)') = Bare("canceled") \/ Said(Snapshot(s)') \in Terms
      /\ Said(Snapshot(s)) # Bare("canceled")
  <2>1. Said(Snapshot(s)) # Bare("canceled")
    BY TruthIs, SaidIs
  <2>2. Snapshot(s)' \in Snapshots /\ Snapshot(s)'.status = sub'[s].status
    BY SnapshotIs DEF Typed, StripeTyped, SubRecords, Snapshot, SnapshotOf, Snapshots
  <2>3. Snapshot(s)'.status = "canceled" \/ Lives(Snapshot(s)')
    BY <2>2 DEF Snapshots, Lives
  <2> QED  BY <2>1, <2>2, <2>3, SaidIs
<1>2. \A t \in Subs : t # s => Snapshot(t)' = Snapshot(t)
  BY DEF Snapshot, SnapshotOf
<1>3. Truth' = [Truth EXCEPT ![s] = Said(Snapshot(s)')]
  BY <1>2 DEF Truth, Said
<1>4. Book' = Book
  BY DEF Book, Said
<1>5. Books!Change(s)
  BY <1>1, <1>3, <1>4 DEF Books!Change, Truth, Book, Terms
<1> QED  BY <1>5 DEF OneOfTheBooks, Books!BooksNext

LEMMA BooksRest == ASSUME UNCHANGED <<sub, row>> PROVE OneOfTheBooks
BY DEF OneOfTheBooks, Truth, Book, Snapshot, SnapshotOf, Said

LEMMA BecomesIsTold ==
  ASSUME BillingInv, BillingInv', NEW s \in Subs, NEW x, Becomes(s, x), UNCHANGED row,
         [x EXCEPT !.version = @ + 1].status # "none", sub[s].status # "canceled"
  PROVE  OneOfTheBooks
<1>1. Typed /\ Typed' /\ sub \in [Subs -> SubRecords]
  BY DEF BillingInv, Basics, Typed, StripeTyped
<1> DEFINE y == [x EXCEPT !.version = @ + 1]
<1>2. sub' = [sub EXCEPT ![s] = y] /\ y.status # "none"
  BY DEF Becomes
<1> HIDE DEF y
<1>3. sub'[s].status # "none" /\ \A t \in Subs : t # s => sub'[t] = sub[t]
  BY <1>1, <1>2
<1> QED  BY <1>1, <1>3, TruthChanges

LEMMA CustomerGoneIsTold ==
  ASSUME BillingInv, BillingInv', NEW c, DeletesCustomer(c), UNCHANGED row
  PROVE  OneOfTheBooks
<1> DEFINE gone == IF customer[c].standing = "present"
                   THEN {s \in Subs : sub[s].owner = c /\ Lives(sub[s])} ELSE {}
           y(s) == [Canceled(sub[s]) EXCEPT !.version = @ + 1]
<1>1. Typed /\ Typed' /\ sub \in [Subs -> SubRecords]
  BY DEF BillingInv, Basics, Typed, StripeTyped
<1>2. gone \in SUBSET Subs
  OBVIOUS
<1>3. \A s \in Subs : y(s).status = "canceled"
  BY <1>1 DEF SubRecords, Canceled
<1>4. sub' = [s \in Subs |-> IF s \in gone THEN y(s) ELSE sub[s]]
  BY DEF DeletesCustomer
<1> HIDE DEF gone, y
<1>5. /\ \A s \in gone : sub'[s].status = "canceled"
      /\ \A s \in Subs : s \notin gone => sub'[s] = sub[s]
  BY <1>2, <1>3, <1>4
<1>6. \A s \in Subs : Snapshot(s)' \in Snapshots /\ Snapshot(s)'.status = sub'[s].status
  BY <1>1 DEF Typed, StripeTyped, SubRecords, Snapshot, SnapshotOf, Snapshots
<1>7. \A s \in gone : Said(Snapshot(s)') = Bare("canceled")
  BY <1>2, <1>5, <1>6, SaidIs
<1>8. \A s \in Subs : s \notin gone => Snapshot(s)' = Snapshot(s)
  BY <1>5 DEF Snapshot, SnapshotOf
<1>9. Truth' = [s \in Subs |-> IF s \in gone THEN Bare("canceled") ELSE Truth[s]]
  BY <1>2, <1>7, <1>8 DEF Truth, Said
<1>10. Books!EndSome(gone)
  BY <1>9 DEF Books!EndSome, Truth, Book, Said
<1> QED  BY <1>2, <1>10 DEF OneOfTheBooks, Books!BooksNext

(* What is stored of s is something Stripe has said, and no end it has not *)
(* seen.                                                                   *)
LEMMA StoredIsTold ==
  ASSUME BillingInv, BillingInv', NEW s \in Subs, MadeSub(s), UNCHANGED sub, row'[s] # None,
         \A t \in Subs : t # s => row'[t] = row[t]
  PROVE  OneOfTheBooks
<1>1. /\ Typed /\ Typed' /\ RowsOK' /\ row \in [Subs -> Snapshots \cup {None}]
      /\ row' \in [Subs -> Snapshots \cup {None}]
  BY DEF BillingInv, Basics, Typed, TablesTyped
<1>2. /\ row'[s] \in Snapshots /\ row'[s].status # "none"
      /\ row'[s].status = "canceled" => sub[s].status = "canceled"
  BY <1>1 DEF RowsOK
<1>3. Lives(row'[s]) \/ row'[s].status = "canceled"
  BY <1>2 DEF Snapshots, Lives
<1>4. /\ Said(row'[s]) \in Terms \/ Said(row'[s]) = Bare("canceled")
      /\ Said(row'[s]) = Bare("canceled") => Said(Snapshot(s)) = Bare("canceled")
  BY <1>1, <1>2, <1>3, SaidIs, TruthIs
<1>5. Said(Snapshot(s)) # Bare("none")
  BY <1>1, SaidIs, TruthIs DEF MadeSub
<1>6. Book' = [Book EXCEPT ![s] = Said(row'[s])] /\ Truth' = Truth
  BY <1>1 DEF Book, Truth, Said, Snapshot, SnapshotOf
<1>7. Books!Record(s)
  BY <1>4, <1>5, <1>6 DEF Books!Record, Truth, Book, Terms
<1> QED  BY <1>7 DEF OneOfTheBooks, Books!BooksNext

LEMMA CloseIsTold == ASSUME BillingInv, BillingInv', NEW j \in Jobs, Close(j) PROVE OneOfTheBooks
<1>1. /\ Typed /\ Typed' /\ RowsOK' /\ row \in [Subs -> Snapshots \cup {None}]
      /\ row' \in [Subs -> Snapshots \cup {None}] /\ UNCHANGED sub
  BY DEF BillingInv, Basics, Typed, TablesTyped, Close
<1> DEFINE over(s) == [row[s] EXCEPT !.status = "canceled", !.ending = FALSE]
<1>2. PICK S \in SUBSET LiveRows : row' = [s \in Subs |-> IF s \in S THEN over(s) ELSE row[s]]
  <2> DEFINE closed == IF mapping = job[j].cust THEN {s \in LiveRows : Newer(j, s)} ELSE {}
  <2>1. row' = row \/ row' = [s \in Subs |-> IF s \in closed THEN over(s) ELSE row[s]]
    BY DEF Close
  <2>2. closed \in SUBSET LiveRows /\ {} \in SUBSET LiveRows
    OBVIOUS
  <2> HIDE DEF closed, over
  <2>3. row = [s \in Subs |-> IF s \in {} THEN over(s) ELSE row[s]]
    BY <1>1
  <2> QED  BY <2>1, <2>2, <2>3
<1>3. \A s \in S : s \in Subs /\ row[s] \in Snapshots
  BY <1>1, BillingAssumption DEF LiveRows
<1>4. \A s \in S : over(s) \in Snapshots /\ over(s).status = "canceled"
  <2> SUFFICES ASSUME NEW s \in S PROVE over(s) \in Snapshots /\ over(s).status = "canceled"
    OBVIOUS
  <2>1. row[s] \in Snapshots
    BY <1>3
  <2> QED  BY <2>1 DEF Snapshots
<1> HIDE DEF over
<1>5. \A s \in S : /\ row'[s] \in Snapshots /\ row'[s].status = "canceled" /\ row'[s] # None
                   /\ Said(row'[s]) = Bare("canceled")
  BY <1>2, <1>3, <1>4, SaidIs, BillingAssumption
<1>6. \A s \in S : Said(Snapshot(s)) = Bare("canceled")
  <2> SUFFICES ASSUME NEW s \in S PROVE Said(Snapshot(s)) = Bare("canceled")
    OBVIOUS
  <2>1. s \in Subs /\ sub[s].status = "canceled"
    BY <1>1, <1>3, <1>5 DEF RowsOK
  <2> QED  BY <1>1, <2>1, TruthIs
<1>7. \A s \in Subs : s \notin S => row'[s] = row[s]
  BY <1>2
<1>8. /\ Book' = [s \in Subs |-> IF s \in S THEN Bare("canceled") ELSE Book[s]]
      /\ Truth' = Truth
  BY <1>1, <1>5, <1>7 DEF Book, Truth, Said, Snapshot, SnapshotOf
<1>9. Books!RecordEnds(S)
  BY <1>3, <1>6, <1>8 DEF Books!RecordEnds, Truth, Book
<1> QED  BY <1>3, <1>9 DEF OneOfTheBooks, Books!BooksNext

LEMMA EraseIsTold == ASSUME BillingInv, Erase PROVE OneOfTheBooks
<1>1. row' = [s \in Subs |-> None] /\ sub' = sub
  BY DEF Erase, stripeVars
<1>2. Book' = [s \in Subs |-> Bare("none")] /\ Truth' = Truth
  BY <1>1, SaidIs DEF Book, Truth, Said, Snapshot, SnapshotOf
<1>3. Books!Forget
  BY <1>2 DEF Books!Forget, Truth, Book
<1> QED  BY <1>3 DEF OneOfTheBooks, Books!BooksNext

LEMMA UpdatesIsTold ==
  ASSUME BillingInv, BillingInv', NEW s \in Subs, NEW k \in Keys, NEW x \in SubRecords,
         Updates(s, k, x), UNCHANGED row, x.status = sub[s].status, x.owner = sub[s].owner,
         x.by = sub[s].by, x.version = sub[s].version
  PROVE  OneOfTheBooks
<1>1. CASE UNCHANGED sub
  BY <1>1, BooksRest
<1>2. ASSUME Lives(sub[s]), NEW y \in SubRecords, y.status = sub[s].status,
             \/ Becomes(s, y)
             \/ sub' = [sub EXCEPT ![s] = y] /\ SnapshotOf(y) = SnapshotOf(sub[s])
      PROVE  OneOfTheBooks
  <2>1. CASE Becomes(s, y)
    <3>1. sub[s].status \notin {"none", "canceled"}
      BY <1>2 DEF Lives
    <3>2. [y EXCEPT !.version = @ + 1].status = sub[s].status
      BY <1>2 DEF SubRecords
    <3> QED  BY <2>1, <3>1, <3>2, BecomesIsTold
  <2>2. CASE sub' = [sub EXCEPT ![s] = y] /\ SnapshotOf(y) = SnapshotOf(sub[s])
    <3>1. sub \in [Subs -> SubRecords]
      BY DEF BillingInv, Basics, Typed, StripeTyped
    <3>2. \A t \in Subs : SnapshotOf(sub'[t]) = SnapshotOf(sub[t])
      BY <2>2, <3>1
    <3>3. Truth' = Truth /\ Book' = Book
      BY <3>2 DEF Truth, Book, Snapshot, SnapshotOf, Said
    <3> QED  BY <3>3 DEF OneOfTheBooks
  <2> QED  BY <1>2, <2>1, <2>2
<1> QED  BY <1>1, <1>2, UpdatesIs

LEMMA UpdatedIsTold ==
  ASSUME BillingInv, BillingInv', NEW p \in Presses, Switch(p) \/ Flag(p)
  PROVE  OneOfTheBooks
<1> DEFINE s == job[p].sub
<1>1. p \in Jobs /\ Key(p) \in Keys /\ UNCHANGED row
  BY PressesAreJobs, KeyIs DEF Switch, Flag, tables
<1>2. job[p].at \in SubSteps
  BY DEF Switch, Flag, At, SubSteps, LockedSteps
<1>3. s \in Subs /\ sub[s] \in SubRecords
  BY <1>1, <1>2, AsksOfStripe
<1>4. ASSUME Switch(p) PROVE OneOfTheBooks
  <2> DEFINE x == [sub[s] EXCEPT !.plan = Want(p)]
  <2>1. Want(p) \in Plans
    BY <1>1, <1>4, JobFits DEF Fits, PlanSteps, LockedSteps, Switch, At
  <2>2. /\ x \in SubRecords /\ x.status = sub[s].status /\ x.owner = sub[s].owner
        /\ x.by = sub[s].by /\ x.version = sub[s].version
    BY <1>3, <2>1 DEF SubRecords
  <2>3. Updates(s, Key(p), x)
    BY <1>4 DEF Switch
  <2> HIDE DEF s, x
  <2> QED  BY <1>1, <1>3, <2>2, <2>3, UpdatesIsTold
<1>5. ASSUME Flag(p) PROVE OneOfTheBooks
  <2> DEFINE ends == Want(p) = "end"
             x == [sub[s] EXCEPT !.ending = ends]
  <2>1. Updates(s, Key(p), x) /\ ends \in BOOLEAN
    BY <1>5 DEF Flag
  <2> HIDE DEF ends
  <2>2. /\ x \in SubRecords /\ x.status = sub[s].status /\ x.owner = sub[s].owner
        /\ x.by = sub[s].by /\ x.version = sub[s].version
    BY <1>3, <2>1 DEF SubRecords
  <2> HIDE DEF s, x
  <2> QED  BY <1>1, <1>3, <2>1, <2>2, UpdatesIsTold
<1> QED  BY <1>4, <1>5

(* What a press has Stripe do.                                             *)
LEMMA AskedIsTold ==
  ASSUME BillingInv, BillingInv', NEW p \in Presses,
         Abandon(p) \/ Release(p) \/ Switch(p) \/ Reschedule(p) \/ Flag(p)
  PROVE  OneOfTheBooks
<1> DEFINE s == job[p].sub
<1>1. p \in Jobs
  BY PressesAreJobs
<1>2. job[p].at \in SubSteps
  BY DEF Abandon, Release, Switch, Reschedule, Flag, AfterRelease, At, SubSteps, LockedSteps
<1>3. /\ s \in Subs /\ MadeSub(s) /\ sub[s] \in SubRecords /\ (sub[s].next # None => Lives(sub[s]))
  BY <1>1, <1>2, AsksOfStripe
<1>4. UNCHANGED row
  BY DEF Abandon, Release, Switch, Reschedule, Flag, tables
<1>5. CASE UNCHANGED sub
  BY <1>4, <1>5, BooksRest
<1>6. CASE Lives(sub[s]) /\ Becomes(s, Canceled(sub[s]))
  <2> DEFINE x == Canceled(sub[s])
  <2>1. x \in SubRecords /\ x.status = "canceled" /\ sub[s].status # "canceled" /\ Becomes(s, x)
    BY <1>3, <1>6 DEF SubRecords, Canceled, Lives
  <2> HIDE DEF x
  <2>2. [x EXCEPT !.version = @ + 1].status # "none"
    BY <2>1 DEF SubRecords
  <2> QED  BY <1>3, <1>4, <2>1, <2>2, BecomesIsTold
<1>7. ASSUME Lives(sub[s]),
             NEW x \in {[sub[s] EXCEPT !.next = None], [sub[s] EXCEPT !.next = Want(p)]},
             Becomes(s, x)
      PROVE  OneOfTheBooks
  <2>1. sub[s].status \notin {"none", "canceled"}
    BY <1>7 DEF Lives
  <2>2. [x EXCEPT !.version = @ + 1].status = sub[s].status
    BY <1>3, <1>7 DEF SubRecords
  <2> QED  BY <1>3, <1>4, <1>7, <2>1, <2>2, BecomesIsTold
<1>8. \/ UNCHANGED sub
      \/ Lives(sub[s]) /\ Becomes(s, Canceled(sub[s]))
      \/ Lives(sub[s]) /\ Becomes(s, [sub[s] EXCEPT !.next = None])
      \/ Lives(sub[s]) /\ Becomes(s, [sub[s] EXCEPT !.next = Want(p)])
      \/ Switch(p) \/ Flag(p)
  BY <1>3 DEF Abandon, Release, Reschedule
<1>9. CASE Switch(p) \/ Flag(p)
  BY <1>9, UpdatedIsTold
<1> QED  BY <1>5, <1>6, <1>7, <1>8, <1>9

LEMMA CreatedIsTold ==
  ASSUME BillingInv, BillingInv', NEW p \in Presses, CreateSubscription(p)
  PROVE  OneOfTheBooks
<1> DEFINE by == <<Key(p), IF job[p].old = None THEN "create" ELSE "replace">>
           s == FirstOf(Unused(sub))
           x == [status |-> "incomplete", plan |-> Want(p), next |-> None, ending |-> FALSE,
                 version |-> 0, owner |-> job[p].cust, by |-> by, answer |-> NoAnswers]
<1>1. UNCHANGED sub \/ (Unused(sub) # {} /\ Becomes(s, x))
  BY DEF CreateSubscription
<1>2. UNCHANGED row
  BY DEF CreateSubscription, tables
<1>3. CASE Unused(sub) # {} /\ Becomes(s, x)
  <2>1. s \in Unused(sub)
    BY <1>3, FirstOfIs
  <2>2. s \in Subs /\ sub[s].status = "none"
    BY <2>1 DEF Unused, MadeBy, BillingInv, Basics, Typed, StripeTyped, StripeOK, MadeSub
  <2>3. [x EXCEPT !.version = @ + 1].status # "none"
    OBVIOUS
  <2> HIDE DEF s, x
  <2> QED  BY <1>2, <1>3, <2>2, <2>3, BecomesIsTold
<1> QED  BY <1>1, <1>2, <1>3, BooksRest

LEMMA MoveIsTold ==
  ASSUME BillingInv, BillingInv', NEW s \in Subs, Move(s)
  PROVE  OneOfTheBooks
<1>1. sub[s] \in SubRecords /\ Lives(sub[s]) /\ UNCHANGED row
  BY DEF BillingInv, Basics, Typed, StripeTyped, Move
<1>2. sub[s].status # "canceled"
  BY <1>1 DEF Lives
<1>3. ASSUME NEW x, Becomes(s, x), [x EXCEPT !.version = @ + 1].status # "none"
      PROVE  OneOfTheBooks
  BY <1>1, <1>2, <1>3, BecomesIsTold
<1>4. CASE Becomes(s, [sub[s] EXCEPT !.status = "active"])
  <2> DEFINE x == [sub[s] EXCEPT !.status = "active"]
  <2>1. [x EXCEPT !.version = @ + 1].status # "none"
    BY <1>1 DEF SubRecords
  <2> QED  BY <1>3, <1>4, <2>1
<1>5. ASSUME NEW status \in {"active", "past_due"},
             Becomes(s, [sub[s] EXCEPT !.status = status, !.next = None,
                           !.plan = IF sub[s].next = None THEN @ ELSE sub[s].next])
      PROVE  OneOfTheBooks
  <2> DEFINE x == [sub[s] EXCEPT !.status = status, !.next = None,
                           !.plan = IF sub[s].next = None THEN @ ELSE sub[s].next]
  <2>1. [x EXCEPT !.version = @ + 1].status # "none"
    BY <1>1 DEF SubRecords
  <2>2. Becomes(s, x)
    BY <1>5
  <2> HIDE DEF x
  <2> QED  BY <1>3, <2>1, <2>2
<1>6. CASE Becomes(s, Canceled(sub[s]))
  <2> DEFINE x == Canceled(sub[s])
  <2>1. [x EXCEPT !.version = @ + 1].status # "none"
    BY <1>1 DEF SubRecords, Canceled
  <2> QED  BY <1>3, <1>6, <2>1
<1> QED  BY <1>4, <1>5, <1>6 DEF Move

LEMMA StoreMadeIsTold ==
  ASSUME BillingInv, BillingInv', NEW p \in Presses, StoreMade(p)
  PROVE  OneOfTheBooks
<1> DEFINE s == job[p].sub
<1>1. p \in Jobs /\ job[p].at = "store" /\ UNCHANGED sub
  BY PressesAreJobs DEF StoreMade, At, stripeVars
<1>2. s \in Subs /\ MadeSub(s)
  BY <1>1, AsksOfStripe DEF SubSteps, LockedSteps
<1>3. \/ UNCHANGED row
      \/ row' = [row EXCEPT ![s] = job[p].seen]
  BY DEF StoreMade, Reconcile
<1>4. /\ row \in [Subs -> Snapshots \cup {None}] /\ job[p].seen \in Snapshots
      /\ None \notin Snapshots
  BY <1>1, JobFits, BillingAssumption DEF BillingInv, Basics, Typed, TablesTyped, Fits
<1> HIDE DEF s
<1>5. CASE row' = [row EXCEPT ![s] = job[p].seen]
  <2>1. row'[s] # None /\ \A t \in Subs : t # s => row'[t] = row[t]
    BY <1>2, <1>4, <1>5
  <2> QED  BY <1>1, <1>2, <2>1, StoredIsTold
<1> QED  BY <1>1, <1>3, <1>5, BooksRest

LEMMA WriteIsTold ==
  ASSUME BillingInv, BillingInv', NEW j \in Jobs, Write(j)
  PROVE  OneOfTheBooks
<1> DEFINE s == Target(j)
<1>1. job[j].at = "write" /\ UNCHANGED sub
  BY DEF Write, At
<1>2. /\ Fits(j, "write", job[j].sub, job[j].old, job[j].cust, job[j].seen, job[j].event)
      /\ job[j] \in JobRecords
  BY <1>1, JobFits
<1>3. s \in Subs /\ MadeSub(s)
  BY <1>2, BillingAssumption DEF Fits, SubSteps, JobRecords, Target
<1>4. \/ UNCHANGED row
      \/ row' = [row EXCEPT ![s] = job[j].seen]
  BY DEF Write, Reconcile
<1>5. /\ row \in [Subs -> Snapshots \cup {None}] /\ job[j].seen \in Snapshots
      /\ None \notin Snapshots
  BY <1>2, BillingAssumption DEF BillingInv, Basics, Typed, TablesTyped, Fits
<1> HIDE DEF s
<1>6. CASE row' = [row EXCEPT ![s] = job[j].seen]
  <2>1. row'[s] # None /\ \A t \in Subs : t # s => row'[t] = row[t]
    BY <1>3, <1>5, <1>6
  <2> QED  BY <1>1, <1>3, <2>1, StoredIsTold
<1> QED  BY <1>1, <1>4, <1>6, BooksRest

LEMMA PressStepIsTold ==
  ASSUME BillingInv, BillingInv', NEW p \in Presses, PressStep(p)
  PROVE  OneOfTheBooks
<1>1. CASE \/ Abandon(p) \/ Release(p) \/ Switch(p) \/ Reschedule(p) \/ Flag(p)
  BY <1>1, AskedIsTold
<1>2. CASE CreateSubscription(p) \/ StoreMade(p)
  BY <1>2, CreatedIsTold, StoreMadeIsTold
<1>3. CASE DropLitter(p)
  BY <1>3, CustomerGoneIsTold DEF DropLitter, tables
<1>4. CASE \/ ReadCustomer(p) \/ AskCustomer(p) \/ MakeCustomer(p) \/ MapCustomer(p)
           \/ TakeWinner(p) \/ Decide(p) \/ AskSettling(p) \/ Answer(p) \/ Finish(p)
           \/ Refused(p)
  <2>1. UNCHANGED <<sub, row>>
    BY <1>4 DEF ReadCustomer, AskCustomer, MakeCustomer, MapCustomer, TakeWinner, Decide,
                AskSettling, Answer, Finish, Refused, stripeVars, tables
  <2> QED  BY <2>1, BooksRest
<1> QED  BY <1>1, <1>2, <1>3, <1>4 DEF PressStep

LEMMA NextIsTold ==
  ASSUME BillingInv, BillingInv', [BillingNext]_billingVars
  PROVE  [Books!BooksNext]_(Books!bookVars)
<1> SUFFICES OneOfTheBooks
  BY DEF OneOfTheBooks, Books!bookVars, Truth, Book
<1>1. CASE UNCHANGED billingVars
  BY <1>1, BooksRest DEF billingVars
<1>2. ASSUME NEW j \in Jobs, Step(j) PROVE OneOfTheBooks
  <2>1. CASE j \in Presses /\ PressStep(j)
    BY <2>1, PressStepIsTold
  <2>2. CASE Serve(j) \/ Stamp(j)
    <3>1. UNCHANGED <<sub, row>>
      BY <2>2 DEF Serve, Stamp, stripeVars, tables
    <3> QED  BY <3>1, BooksRest
  <2>3. CASE Write(j) \/ Close(j)
    BY <2>3, WriteIsTold, CloseIsTold
  <2>4. CASE DropCustomer
    BY <2>4, CustomerGoneIsTold DEF DropCustomer, tables
  <2>5. CASE Erase
    BY <2>5, EraseIsTold
  <2> QED  BY <1>2, <2>1, <2>2, <2>3, <2>4, <2>5 DEF Step
<1>3. CASE (\E j \in Jobs : Break(j)) \/ Begin \/ HoursPass \/ Defer
  <2>1. UNCHANGED <<sub, row>>
    BY <1>3 DEF Break, Begin, Press, Reread, Deliver, Sweep, Leave, HoursPass, Defer, stripeVars,
                tables
  <2> QED  BY <2>1, BooksRest
<1>4. ASSUME NEW s \in Subs, Move(s) PROVE OneOfTheBooks
  BY <1>4, MoveIsTold
<1> QED  BY <1>1, <1>2, <1>3, <1>4 DEF BillingNext

(* The books never say that a subscription has ended while Stripe charges  *)
(* for it, whatever is delivered late, twice, out of order or never: every *)
(* step of Billing is one of SubscriptionBooks, or does not show there.    *)
THEOREM BooksNeverRunAhead ==
  BillingSpec => Books!BooksInit /\ [][Books!BooksNext]_(Books!bookVars)
<1>1. BillingInit => Books!BooksInit
  <2> SUFFICES ASSUME BillingInit PROVE Books!BooksInit
    OBVIOUS
  <2>1. Typed
    BY BillingInvInit DEF BillingInv, Basics
  <2>2. \A s \in Subs : sub[s].status = "none" /\ row[s] = None
    BY DEF BillingInit, NoSub
  <2>3. \A s \in Subs : Said(Snapshot(s)) = Bare("none") /\ Said(row[s]) = Bare("none")
    BY <2>1, <2>2, TruthIs, SaidIs
  <2> QED  BY <2>3 DEF Books!BooksInit
<1>2. BillingInv /\ BillingInv' /\ [BillingNext]_billingVars => [Books!BooksNext]_(Books!bookVars)
  BY NextIsTold
<1> QED  BY <1>1, <1>2, BillingInvHolds, PTL DEF BillingSpec
=============================================================================
