------------------------------ MODULE Billing -------------------------------
(***************************************************************************)
(* One person's subscription: what Stripe holds, what the billing tables   *)
(* say of it, and the requests, deliveries and sweeps that keep the two    *)
(* together (src/server/services/billing.ts), up to the deletion of the    *)
(* person (src/server/services/account-deletion.ts).                       *)
(*                                                                         *)
(* A job is one run of one of those functions.  Its field `at' names the   *)
(* step it takes next.  A step is one committed transaction, or one call   *)
(* of Stripe: between two steps anything else may happen, and a job may    *)
(* break off (a call that fails, an answer that is lost, a process that    *)
(* dies), which releases what its open transaction held.                   *)
(*                                                                         *)
(* A snapshot is trusted by the moment it was stamped, syncedAt.  Only the *)
(* order of those moments matters, so `stamp' counts them from the oldest  *)
(* that a row or a job in flight still holds.                              *)
(***************************************************************************)
EXTENDS Integers, FiniteSets

CONSTANTS Presses,    \* requests about the plan, each at most once at a time
          Keys,       \* idempotency keys
          Readers,    \* deliveries and plan-tab loads under way at once
          Sweeper,    \* the reconciliation sweep of the one scheduler
          Leaver,     \* the deletion of the person
          Casts,      \* who takes part in a run and asks for what, how often
                      \* Stripe changes something by itself and how often
                      \* something breaks off
          Subs, Customers,   \* ids Stripe may hand out
          None

Plans == {"monthly", "yearly"}
Jobs == Presses \cup Readers \cup {Sweeper, Leaver}
Snapshots == [status : {"none", "incomplete", "active", "past_due", "canceled"}, plan : Plans,
              next : Plans \cup {None}, ending : BOOLEAN]

ASSUME BillingAssumption ==
  /\ IsFiniteSet(Subs) /\ IsFiniteSet(Jobs)
  /\ Subs \cap Customers = {} /\ Subs \cap Jobs = {}
  /\ Presses \cap Readers = {} /\ Sweeper # Leaver
  /\ {Sweeper, Leaver} \cap (Presses \cup Readers) = {}
  /\ None \notin Subs \cup Customers \cup Jobs \cup Plans \cup Snapshots
  /\ None \notin Keys \X {"create", "replace"} /\ None \notin Keys \X (Customers \cup {None})
  /\ \A c \in Casts : /\ c.jobs \subseteq Jobs
                      /\ c.ask \in [Presses -> [key : Keys, want : Plans \cup {"end", "keep"}]]
                      /\ c.moves \in Nat /\ c.faults \in Nat

VARIABLES customer,   \* Stripe: customer[c], and the key it was made with
          sub,        \* Stripe: sub[s]
          due,        \* Stripe: the events it still has to deliver
          moves,      \* how often it will still change something by itself
          person,     \* TRUE until the person is deleted
          mapping,    \* billing_customer: the customer of this person
          row,        \* row[s]: billing_subscription, or None
          claimed,    \* billing_webhook_event
          op,         \* op[k]: billing_operation
          lock,       \* who holds the person's billing lock
          stamp,      \* stamp[x]: when what the row or the job x holds was read
          job,        \* job[j]: how far j is
          cast,       \* the jobs that take part, and what they ask
          stale,      \* rows last read more than twelve hours ago
          orphans,    \* subscriptions made by an attempt that broke off
          faults      \* how often something may still break off
stripeVars == <<customer, sub, due, moves>>
tables == <<mapping, row, claimed, op>>
billingVars == <<customer, sub, due, moves, person, mapping, row, claimed, op, lock, stamp, job,
                 cast, stale, orphans, faults>>

-----------------------------------------------------------------------------
(* Stripe.                                                                 *)

NoCustomer == [standing |-> "none", by |-> None]
NoAnswers == [k \in Keys |-> None]
NoSub == [status |-> "none", plan |-> "monthly", next |-> None, ending |-> FALSE,
          version |-> 0, owner |-> None, by |-> None, answer |-> NoAnswers]

Lives(x) == x.status \in {"incomplete", "active", "past_due"}
Owes(x) == x.status \in {"incomplete", "past_due"}

(* What a read answers.                                                    *)
SnapshotOf(x) == [status |-> x.status, plan |-> x.plan, next |-> x.next, ending |-> x.ending]
Snapshot(s) == SnapshotOf(sub[s])

(* s becomes x: a new version, and an event that tells of it.              *)
Becomes(s, x) ==
  /\ sub' = [sub EXCEPT ![s] = [x EXCEPT !.version = @ + 1]]
  /\ due' = due \cup {<<s, sub[s].version + 1>>}

Canceled(x) == [x EXCEPT !.status = "canceled", !.next = None, !.ending = FALSE]

(* An update of s to x under the key k.  A key Stripe has answered changes *)
(* nothing more and is answered as it was then, sub[s].answer[k]; one it   *)
(* answered about another subscription is refused.                         *)
Updatable(s, k) ==
  \/ sub[s].answer[k] # None
  \/ Lives(sub[s]) /\ \A t \in Subs : sub[t].answer[k] = None
Updates(s, k, x) ==
  LET answered == [x EXCEPT !.answer = [@ EXCEPT ![k] = SnapshotOf(x)]]
  IN  /\ Updatable(s, k)
      /\ IF sub[s].answer[k] # None THEN UNCHANGED <<sub, due>>
         ELSE IF x = sub[s] THEN sub' = [sub EXCEPT ![s] = answered] /\ UNCHANGED due
         ELSE Becomes(s, answered)

(* Deleting a customer ends at once everything it owns.                    *)
DeletesCustomer(c) ==
  LET gone == IF customer[c].standing = "present"
              THEN {s \in Subs : sub[s].owner = c /\ Lives(sub[s])} ELSE {}
  IN  /\ customer' = [customer EXCEPT ![c].standing = "deleted"]
      /\ sub' = [s \in Subs |->
                   IF s \in gone THEN [Canceled(sub[s]) EXCEPT !.version = @ + 1] ELSE sub[s]]
      /\ due' = due \cup {<<s, sub[s].version + 1>> : s \in gone}
                    \cup (IF customer[c].standing = "present" THEN {<<c, 0>>} ELSE {})

(* What Stripe and the person's card do without being asked.               *)
Move(s) ==
  /\ moves > 0
  /\ Lives(sub[s])
  /\ \/ Owes(sub[s]) /\ Becomes(s, [sub[s] EXCEPT !.status = "active"])
     \/ sub[s].status = "active" /\ ~sub[s].ending
          /\ \E status \in {"active", "past_due"} :
               /\ status = "active" => sub[s].next # None
               /\ Becomes(s, [sub[s] EXCEPT !.status = status, !.next = None,
                                !.plan = IF sub[s].next = None THEN @ ELSE sub[s].next])
     \/ (Owes(sub[s]) \/ sub[s].ending) /\ Becomes(s, Canceled(sub[s]))
  /\ moves' = moves - 1
  /\ UNCHANGED <<customer, person, mapping, row, claimed, op, lock, stamp, job, cast, stale, orphans, faults>>

-----------------------------------------------------------------------------
(* Jobs, the lock and the stamps.                                          *)

Idle == [at |-> "idle", sub |-> None, old |-> None, cust |-> None, seen |-> None, event |-> None]
At(j, step) == j \in cast.jobs /\ job[j].at = step
Goes(j, step) == job' = [job EXCEPT ![j].at = step]
Keeps(j, step, field, value) ==
  job' = [job EXCEPT ![j] = [@ EXCEPT !.at = step, ![field] = value]]

Free == lock = None
Unlocked(j) == IF lock = j THEN None ELSE lock

(* The moments of f counted from the oldest; zero is never.                *)
InOrder(f) == [x \in DOMAIN f |-> Cardinality({f[y] : y \in DOMAIN f} \cap 1 .. f[x])]

(* j was stamped after what is stored of s, or nothing is stored of it.    *)
Newer(j, s) == stamp[s] < stamp[j]
Without(j) == InOrder([stamp EXCEPT ![j] = 0])
StampedLast(j) == InOrder([stamp EXCEPT ![j] = Cardinality(DOMAIN stamp) + 1])
(* The rows S take over the stamp of j.                                    *)
TakesStamp(S, j) ==
  InOrder([x \in DOMAIN stamp |-> IF x = j THEN 0 ELSE stamp[IF x \in S THEN j ELSE x]])

(* (Mutant: only what entitles to the plan is live.)                       *)
EntitledRows == {s \in Subs : row[s] # None /\ row[s].status \in {"active", "past_due"}}

LiveRows == {s \in Subs : row[s] # None /\ row[s].status # "canceled"}
(* The live row read last: liveSubscription.                               *)
Current == IF LiveRows = {} THEN None
           ELSE CHOOSE s \in LiveRows : \A t \in LiveRows : stamp[t] <= stamp[s]

(* What j has seen of s is stored unless something read later is.          *)
Reconcile(j, s) ==
  IF Newer(j, s)
  THEN /\ row' = [row EXCEPT ![s] = job[j].seen]
       /\ stamp' = TakesStamp({s}, j)
       /\ stale' = stale \ {s}
  ELSE /\ UNCHANGED <<row, stale>>
       /\ stamp' = Without(j)

(* j is over; its open transaction, if any, is rolled back.                *)
Over(j) ==
  /\ job' = [job EXCEPT ![j] = Idle]
  /\ lock' = Unlocked(j)
  /\ stamp' = Without(j)

-----------------------------------------------------------------------------
(* A press: setSubscription and setSubscriptionCancellation.               *)

Want(p) == cast.ask[p].want
Key(p) == cast.ask[p].key

(* The attempt is written down before Stripe is called.  A key that has    *)
(* succeeded replays its answer, which changes nothing.                    *)
Press(p) ==
  /\ At(p, "idle") /\ person
  /\ op[Key(p)] # "succeeded"
  /\ IF Want(p) \in Plans THEN Goes(p, "customer")
     ELSE Current # None /\ job' = [job EXCEPT ![p].at = "unschedule", ![p].sub = Current]
  /\ op' = [op EXCEPT ![Key(p)] = "open"]
  /\ UNCHANGED <<stripeVars, person, mapping, row, claimed, lock, stamp, cast, stale, orphans, faults>>

(* ensureBillingCustomer: the stored customer is asked about, ...          *)
ReadCustomer(p) ==
  /\ At(p, "customer")
  /\ Keeps(p, IF mapping = None THEN "make" ELSE "ask", "cust", mapping)
  /\ UNCHANGED <<stripeVars, person, tables, lock, stamp, cast, stale, orphans, faults>>

AskCustomer(p) ==
  /\ At(p, "ask")
  /\ IF customer[job[p].cust].standing = "present"
     THEN Goes(p, "lock") /\ UNCHANGED stamp
     ELSE Goes(p, "close") /\ stamp' = StampedLast(p)
  /\ UNCHANGED <<stripeVars, person, tables, lock, cast, stale, orphans, faults>>

(* ... and where there is none, or none any more, one is made, under a key *)
(* derived from the attempt: a repeated key is answered as it was before.  *)
MadeBy(made, by) == {x \in DOMAIN made : made[x].by = by}
FirstOf(S) == CHOOSE x \in S : TRUE
Unused(made) == MadeBy(made, None)

MakeCustomer(p) ==
  LET by == <<Key(p), job[p].cust>> IN
  /\ At(p, "make") /\ person
  /\ IF MadeBy(customer, by) # {}
     THEN Keeps(p, "map", "cust", FirstOf(MadeBy(customer, by))) /\ UNCHANGED customer
     ELSE /\ Unused(customer) # {}
          /\ LET c == FirstOf(Unused(customer)) IN
             /\ customer' = [customer EXCEPT ![c] = [standing |-> "present", by |-> by]]
             /\ Keeps(p, "map", "cust", c)
  /\ UNCHANGED <<sub, due, moves, person, tables, lock, stamp, cast, stale, orphans, faults>>

MapCustomer(p) ==
  /\ At(p, "map") /\ person
  /\ mapping' = IF mapping = None THEN job[p].cust ELSE mapping
  /\ Goes(p, IF mapping = None THEN "lock" ELSE "litter")
  /\ UNCHANGED <<stripeVars, person, row, claimed, op, lock, stamp, cast, stale, orphans, faults>>

(* The loser of that insert deletes what it made and takes the winner's.   *)
DropLitter(p) ==
  /\ At(p, "litter")
  /\ DeletesCustomer(job[p].cust)
  /\ Goes(p, "winner")
  /\ UNCHANGED <<moves, person, tables, lock, stamp, cast, stale, orphans, faults>>

TakeWinner(p) ==
  /\ At(p, "winner") /\ mapping # None
  /\ Keeps(p, "lock", "cust", mapping)
  /\ UNCHANGED <<stripeVars, person, tables, lock, stamp, cast, stale, orphans, faults>>

(* What asking for a plan means, given the current row.                    *)
Action(x, want) ==
  IF x = None THEN "create"
  ELSE IF Owes(x) /\ x.plan = want THEN "resume"
  ELSE IF x.status = "incomplete" THEN "replace"
  ELSE IF x.plan = want /\ x.next # None THEN "release"
  ELSE IF want \in {x.plan, x.next} THEN "none"
  ELSE IF x.ending THEN "ending"
  ELSE IF x.plan = "monthly" /\ ~Owes(x) THEN "upgrade"
  ELSE "schedule"

(* The decision is made, and acted on, under the person's billing lock.    *)
Decide(p) ==
  LET cur == Current
      action == Action(IF cur = None THEN None ELSE row[cur], Want(p))
  IN
  /\ At(p, "lock") /\ Free
  /\ CASE action = "ending" -> job' = [job EXCEPT ![p] = Idle] /\ UNCHANGED lock
       [] action \in {"none", "resume"} -> Goes(p, "finish") /\ UNCHANGED lock
       [] action \in {"create", "replace", "release", "upgrade", "schedule"} ->
            lock' = p /\ Keeps(p, action, "sub", cur)
  /\ UNCHANGED <<stripeVars, person, tables, stamp, cast, stale, orphans, faults>>

(* The unpaid subscription somebody changed their mind about is abandoned, *)
(* unless Stripe says it has been paid after all.                          *)
AskSettling(p) ==
  /\ At(p, "replace")
  /\ IF sub[job[p].sub].status \in {"incomplete", "canceled"}
     THEN Goes(p, "abandon") /\ UNCHANGED <<lock, stamp>>
     ELSE Over(p)
  /\ UNCHANGED <<stripeVars, person, tables, cast, stale, orphans, faults>>

Abandon(p) ==
  /\ At(p, "abandon") /\ Lives(sub[job[p].sub])
  /\ Becomes(job[p].sub, Canceled(sub[job[p].sub]))
  /\ Keeps(p, "create", "old", job[p].sub)
  /\ UNCHANGED <<customer, moves, person, tables, lock, stamp, cast, stale, orphans, faults>>

(* A subscription is made for a customer Stripe still has.  A key already  *)
(* spent is answered with what was answered then.                          *)
CreateSubscription(p) ==
  LET by == <<Key(p), IF job[p].old = None THEN "create" ELSE "replace">>
      made == [status |-> "incomplete", plan |-> Want(p), next |-> None, ending |-> FALSE]
      Answers(s) == job' = [job EXCEPT ![p].at = "answer", ![p].sub = s, ![p].seen = made]
  IN
  /\ At(p, "create")
  /\ IF MadeBy(sub, by) # {} THEN Answers(FirstOf(MadeBy(sub, by))) /\ UNCHANGED <<sub, due>>
     ELSE /\ customer[job[p].cust].standing = "present"
          /\ Unused(sub) # {}
          /\ LET s == FirstOf(Unused(sub)) IN
             /\ Becomes(s, [status |-> "incomplete", plan |-> Want(p), next |-> None,
                            ending |-> FALSE, version |-> 0, owner |-> job[p].cust, by |-> by,
                            answer |-> NoAnswers])
             /\ Answers(s)
  /\ UNCHANGED <<customer, moves, person, tables, lock, stamp, cast, stale, orphans, faults>>

(* A pending change of interval is let go before anything else is asked.   *)
AfterRelease == [release |-> "serve", upgrade |-> "switch", schedule |-> "reschedule",
                 unschedule |-> "flag"]

Release(p) ==
  LET s == job[p].sub IN
  /\ job[p].at \in DOMAIN AfterRelease
  /\ IF sub[s].next = None \/ Want(p) = "keep" THEN UNCHANGED <<sub, due>>
     ELSE Becomes(s, [sub[s] EXCEPT !.next = None])
  /\ Goes(p, AfterRelease[job[p].at])
  /\ lock' = IF job[p].at = "release" THEN Unlocked(p) ELSE lock
  /\ UNCHANGED <<customer, moves, person, tables, stamp, cast, stale, orphans, faults>>

(* Annual takes effect now, ...                                            *)
Switch(p) ==
  LET s == job[p].sub IN
  /\ At(p, "switch")
  /\ Updates(s, Key(p), [sub[s] EXCEPT !.plan = Want(p)])
  /\ Keeps(p, "answer", "seen", sub'[s].answer[Key(p)])
  /\ UNCHANGED <<customer, moves, person, tables, lock, stamp, cast, stale, orphans, faults>>

(* ... everything else waits for the renewal, ...                          *)
Reschedule(p) ==
  LET s == job[p].sub IN
  /\ At(p, "reschedule") /\ Lives(sub[s])
  /\ Becomes(s, [sub[s] EXCEPT !.next = Want(p)])
  /\ Goes(p, "serve")
  /\ lock' = Unlocked(p)
  /\ UNCHANGED <<customer, moves, person, tables, stamp, cast, stale, orphans, faults>>

(* ... and a cancellation is for the end of the period, or taken back.     *)
Flag(p) ==
  LET s == job[p].sub IN
  /\ At(p, "flag")
  /\ Updates(s, Key(p), [sub[s] EXCEPT !.ending = (Want(p) = "end")])
  /\ Goes(p, "serve")
  /\ UNCHANGED <<customer, moves, person, tables, lock, stamp, cast, stale, orphans, faults>>

(* A snapshot is stamped when the answer arrives, ...                      *)
Answer(p) ==
  /\ At(p, "answer")
  /\ stamp' = StampedLast(p)
  /\ Goes(p, "store")
  /\ UNCHANGED <<stripeVars, person, tables, lock, cast, stale, orphans, faults>>

(* (Mutant: the press lets go of the lock and leaves what it made to the   *)
(* read that follows.)                                                     *)
StoreMadeLater(p) ==
  /\ At(p, "store") /\ person
  /\ stamp' = Without(p)
  /\ lock' = None
  /\ Keeps(p, "serve", "seen", None)
  /\ UNCHANGED <<stripeVars, person, tables, cast, stale, orphans, faults>>

(* (Mutant: it stores what it made and keeps the lock for the read.)       *)
StoreMadeHolding(p) ==
  /\ At(p, "store") /\ person
  /\ Reconcile(p, job[p].sub)
  /\ Keeps(p, "serve", "seen", None)
  /\ UNCHANGED <<stripeVars, person, mapping, claimed, op, lock, cast, orphans, faults>>

(* ... and what a press made is stored before it lets go of the lock.      *)
StoreMade(p) ==
  /\ At(p, "store") /\ person
  /\ Reconcile(p, job[p].sub)
  /\ lock' = None
  /\ Keeps(p, "serve", "seen", None)
  /\ orphans' = IF row[job[p].sub] = None THEN orphans \ {job[p].sub} ELSE orphans
  /\ UNCHANGED <<stripeVars, person, mapping, claimed, op, cast, faults>>

Finish(p) ==
  /\ At(p, "finish")
  /\ op' = IF person THEN [op EXCEPT ![Key(p)] = "succeeded"] ELSE op
  /\ job' = [job EXCEPT ![p] = Idle]
  /\ UNCHANGED <<stripeVars, person, mapping, row, claimed, lock, stamp, cast, stale, orphans, faults>>

-----------------------------------------------------------------------------
(* Reading Stripe and storing what it said.                                *)

(* An abandoned subscription is read before the one that replaced it.      *)
Target(j) == IF job[j].old = None THEN job[j].sub ELSE job[j].old

(* Stripe answers with what is true when it is asked; the snapshot is      *)
(* stamped when the answer has arrived.                                    *)
Serve(j) ==
  /\ At(j, "serve")
  /\ Keeps(j, "read", "seen", Snapshot(Target(j)))
  /\ UNCHANGED <<stripeVars, person, tables, lock, stamp, cast, stale, orphans, faults>>

(* (Mutant: the event is claimed before the write it stands for.)          *)
StampClaiming(j) ==
  /\ At(j, "read")
  /\ stamp' = StampedLast(j)
  /\ Goes(j, "write")
  /\ claimed' = claimed \cup ({job[j].event} \ {None})
  /\ due' = due \ {job[j].event}
  /\ UNCHANGED <<customer, sub, moves, person, mapping, row, op, lock, cast, stale, orphans, faults>>

Stamp(j) ==
  /\ At(j, "read")
  /\ stamp' = StampedLast(j)
  /\ Goes(j, "write")
  /\ UNCHANGED <<stripeVars, person, tables, lock, cast, stale, orphans, faults>>

(* A job with an event is done with it once it commits.                    *)
Claims(j) ==
  /\ claimed' = IF job[j].event = None THEN claimed ELSE claimed \cup {job[j].event}
  /\ due' = due \ {job[j].event}

AfterWrite(j) ==
  IF j \notin Presses THEN Idle
  ELSE IF job[j].old = None THEN [Idle EXCEPT !.at = "finish"]
  ELSE [Idle EXCEPT !.at = "serve", !.sub = job[j].sub]

(* applyStripeDelivery, resync, and the sweep's own reconcileSubscription. *)
Write(j) ==
  /\ At(j, "write") /\ Free
  /\ IF person /\ job[j].event \notin claimed
     THEN /\ Reconcile(j, Target(j))
          /\ Claims(j)
          /\ job' = [job EXCEPT ![j] = AfterWrite(j)]
     ELSE /\ Over(j)
          /\ due' = due \ {job[j].event}
          /\ UNCHANGED <<row, claimed, stale>>
  /\ UNCHANGED <<customer, sub, moves, person, mapping, op, lock, cast, orphans, faults>>

(* closeStripeCustomer: the mapping of a customer Stripe has deleted goes, *)
(* and with it every live row nothing has read since.                      *)
Close(j) ==
  LET c == job[j].cust
      closed == IF mapping = c THEN {s \in LiveRows : Newer(j, s)} ELSE {}
      after == CASE j \in Presses -> [job[j] EXCEPT !.at = "make"]
                 [] j = Leaver -> [Idle EXCEPT !.at = "erase"]
                 [] OTHER -> Idle
  IN
  /\ At(j, "close") /\ Free
  /\ job' = [job EXCEPT ![j] = after]
  /\ IF job[j].event \in claimed
     THEN due' = due \ {job[j].event} /\ stamp' = Without(j) /\ UNCHANGED <<mapping, row, claimed, stale>>
     ELSE /\ mapping' = IF mapping = c THEN None ELSE mapping
          /\ row' = [s \in Subs |-> IF s \in closed
                                    THEN [row[s] EXCEPT !.status = "canceled", !.ending = FALSE]
                                    ELSE row[s]]
          /\ stamp' = TakesStamp(closed, j)
          /\ stale' = stale \ closed
          /\ Claims(j)
  /\ UNCHANGED <<customer, sub, moves, person, op, lock, cast, orphans, faults>>

(* The webhook route: a deleted customer is closed; an event about a       *)
(* subscription is read for whoever its customer is mapped to, and for     *)
(* nobody it is acknowledged and not claimed.                              *)
Deliver(r, e) ==
  /\ At(r, "idle") /\ e \in due
  /\ IF e[1] \in Customers
     THEN /\ job' = [job EXCEPT ![r] = [Idle EXCEPT !.at = "close", !.cust = e[1], !.event = e]]
          /\ stamp' = StampedLast(r)
          /\ UNCHANGED due
     ELSE IF mapping = sub[e[1]].owner
     THEN /\ job' = [job EXCEPT ![r] = [Idle EXCEPT !.at = "serve", !.sub = e[1], !.event = e]]
          /\ UNCHANGED <<due, stamp>>
     ELSE due' = due \ {e} /\ UNCHANGED <<job, stamp>>
  /\ UNCHANGED <<customer, sub, moves, person, tables, lock, cast, stale, orphans, faults>>

(* The plan tab reads a subscription that owes again: getBillingStatus.    *)
Reread(r) ==
  /\ At(r, "idle") /\ person
  /\ Current # None /\ Owes(row[Current])
  /\ job' = [job EXCEPT ![r] = [Idle EXCEPT !.at = "serve", !.sub = Current]]
  /\ UNCHANGED <<stripeVars, person, tables, lock, stamp, cast, stale, orphans, faults>>

(* runBillingReconciliation: the live row read longest ago is read again.  *)
Sweep ==
  LET left == LiveRows \cap stale
      oldest == CHOOSE s \in left : \A t \in left : stamp[s] <= stamp[t]
  IN
  /\ At(Sweeper, "idle") /\ left # {}
  /\ job' = [job EXCEPT ![Sweeper] = [Idle EXCEPT !.at = "serve", !.sub = oldest]]
  /\ stamp' = StampedLast(Sweeper)
  /\ UNCHANGED <<stripeVars, person, tables, lock, cast, stale, orphans, faults>>

(* Twelve hours go by, which no job takes.                                 *)
HoursPass ==
  /\ Sweeper \in cast.jobs /\ \A j \in cast.jobs : job[j].at = "idle"
  /\ ~(LiveRows \subseteq stale)
  /\ stale' = LiveRows
  /\ UNCHANGED <<stripeVars, person, tables, lock, stamp, job, cast, orphans, faults>>

(* A row Stripe did not answer about goes to the back, stamped as read     *)
(* when the attempt began, and without the lock: deferSubscriptionRead.    *)
Defer ==
  LET s == job[Sweeper].sub
      moved == IF row[s] # None /\ Newer(Sweeper, s) THEN {s} ELSE {}
  IN
  /\ faults > 0
  /\ \E step \in {"serve", "read"} : At(Sweeper, step)
  /\ stamp' = TakesStamp(moved, Sweeper)
  /\ stale' = stale \ moved
  /\ job' = [job EXCEPT ![Sweeper] = Idle]
  /\ faults' = faults - 1
  /\ UNCHANGED <<stripeVars, person, tables, lock, cast, orphans>>

-----------------------------------------------------------------------------
(* deleteOwnAccount.                                                       *)

Leave ==
  /\ At(Leaver, "idle") /\ person
  /\ IF mapping = None THEN Goes(Leaver, "erase") ELSE Keeps(Leaver, "drop", "cust", mapping)
  /\ UNCHANGED <<stripeVars, person, tables, lock, stamp, cast, stale, orphans, faults>>

(* A customer that is gone already is what this was asking for.            *)
DropCustomer ==
  /\ At(Leaver, "drop")
  /\ DeletesCustomer(job[Leaver].cust)
  /\ stamp' = StampedLast(Leaver)
  /\ Goes(Leaver, "close")
  /\ UNCHANGED <<moves, person, tables, lock, cast, stale, orphans, faults>>

(* The person's row goes, and every billing row with it.                   *)
Erase ==
  /\ At(Leaver, "erase")
  /\ person' = FALSE
  /\ mapping' = None
  /\ row' = [s \in Subs |-> None]
  /\ op' = [k \in Keys |-> "none"]
  /\ stamp' = InOrder([x \in DOMAIN stamp |-> IF x \in Subs THEN 0 ELSE stamp[x]])
  /\ stale' = {}
  /\ job' = [job EXCEPT ![Leaver] = Idle]
  /\ UNCHANGED <<stripeVars, claimed, lock, cast, orphans, faults>>

-----------------------------------------------------------------------------
(* Attempts that end early.                                                *)

(* What j made at Stripe and had not stored.                               *)
Loses(j) == {s \in Subs : job[j].at \in {"answer", "store"} /\ job[j].sub = s /\ row[s] = None}

(* An error: the person or the mapping is gone, Stripe refuses, or the     *)
(* instance has no id left to hand out.                                    *)
Refused(p) ==
  /\ p \in cast.jobs
  /\ \/ job[p].at \in {"make", "map", "store"} /\ ~person
     \/ job[p].at = "winner" /\ mapping = None
     \/ job[p].at \in {"abandon", "reschedule"} /\ ~Lives(sub[job[p].sub])
     \/ job[p].at \in {"switch", "flag"} /\ ~Updatable(job[p].sub, Key(p))
     \/ job[p].at = "make" /\ Unused(customer) = {}
     \/ job[p].at = "create" /\ (customer[job[p].cust].standing = "deleted" \/ Unused(sub) = {})
  /\ Over(p)
  /\ orphans' = orphans \cup Loses(p)
  /\ UNCHANGED <<stripeVars, person, tables, cast, stale, faults>>

(* A call that fails, an answer that is lost, a process that dies.         *)
Break(j) ==
  /\ faults > 0
  /\ j \in cast.jobs /\ job[j].at # "idle"
  /\ Over(j)
  /\ orphans' = orphans \cup Loses(j)
  /\ faults' = faults - 1
  /\ UNCHANGED <<stripeVars, person, tables, cast, stale>>

-----------------------------------------------------------------------------
BillingInit ==
  /\ customer = [c \in Customers |-> NoCustomer]
  /\ sub = [s \in Subs |-> NoSub]
  /\ due = {}
  /\ person = TRUE /\ mapping = None
  /\ row = [s \in Subs |-> None]
  /\ claimed = {}
  /\ op = [k \in Keys |-> "none"]
  /\ lock = None /\ stamp = [x \in Subs \cup Jobs |-> 0]
  /\ job = [j \in Jobs |-> Idle]
  /\ \E c \in Casts : cast = [jobs |-> c.jobs, ask |-> c.ask] /\ moves = c.moves /\ faults = c.faults
  /\ stale = {} /\ orphans = {}

PressStep(p) ==
  \/ ReadCustomer(p) \/ AskCustomer(p) \/ MakeCustomer(p) \/ MapCustomer(p)
  \/ DropLitter(p) \/ TakeWinner(p) \/ Decide(p) \/ AskSettling(p) \/ Abandon(p)
  \/ CreateSubscription(p) \/ Release(p) \/ Switch(p) \/ Reschedule(p) \/ Flag(p)
  \/ Answer(p) \/ StoreMade(p) \/ Finish(p) \/ Refused(p)

(* What a job that has begun does next.                                    *)
Step(j) ==
  \/ j \in Presses /\ PressStep(j)
  \/ Serve(j) \/ Stamp(j) \/ Write(j) \/ Close(j)
  \/ j = Leaver /\ (DropCustomer \/ Erase)

(* What begins.                                                            *)
Begin ==
  \/ \E p \in Presses : Press(p)
  \/ \E r \in Readers : Reread(r) \/ (\E e \in due : Deliver(r, e))
  \/ Sweep
  \/ Leave

BillingNext ==
  \/ \E j \in Jobs : Step(j) \/ Break(j)
  \/ Begin
  \/ \E s \in Subs : Move(s)
  \/ HoursPass \/ Defer

(* A job that has begun runs on, and gets the lock in its turn; time goes  *)
(* by and the sweep runs on every tick.  Nobody has to press.              *)
BillingFairness ==
  /\ \A j \in Jobs : SF_billingVars(Step(j))
  /\ SF_billingVars(HoursPass)
  /\ WF_billingVars(Sweep)

BillingSpec == BillingInit /\ [][BillingNext]_billingVars /\ BillingFairness
-----------------------------------------------------------------------------
(* Properties.                                                             *)

(* Every variable has its type, the lock belongs to a job that is inside   *)
(* its locked section, and what is stored, and only that, has a stamp.     *)
BillingTypeOK ==
  /\ mapping \in Customers \cup {None}
  /\ \A s \in Subs : row[s] # None <=> stamp[s] > 0
  /\ \A j \in Jobs : stamp[j] > 0 => j \in cast.jobs
  /\ lock # None => job[lock].at \in {"replace", "abandon", "create", "release", "upgrade",
                                     "schedule", "switch", "reschedule", "answer", "store"}
  /\ orphans \subseteq Subs /\ claimed \cap due = {}

(* However presses, retries and deliveries overlap, one subscription is    *)
(* there to be paid, and at most one more for every attempt that broke off *)
(* between Stripe's answer and its own commit and was not taken up again:  *)
(* setSubscription decides, creates and stores under one lock.             *)
OneToPay == person => Cardinality({s \in Subs : Lives(sub[s])}) <= 1 + Cardinality(orphans)

(* No event is claimed and forgotten: while the person is there, a claimed *)
(* event of a subscription is of one that is recorded.                     *)
ClaimedIsRecorded == person => \A e \in claimed : e[1] \in Subs => row[e[1]] # None

(* What is said of x, apart from what no longer counts once it is over.    *)
Bare(status) == [status |-> status, plan |-> None, next |-> None, ending |-> FALSE]
Said(x) == IF x = None \/ x.status \in {"none", "canceled"}
           THEN Bare(IF x = None THEN "none" ELSE x.status)
           ELSE [status |-> x.status, plan |-> x.plan, next |-> x.next, ending |-> x.ending]

(* The books stand for what Stripe holds.                                  *)
Books == INSTANCE SubscriptionBooks WITH
  Terms <- [status : {"incomplete", "active", "past_due"}, plan : Plans,
            next : Plans \cup {None}, ending : BOOLEAN],
  Unknown <- Bare("none"), Ended <- Bare("canceled"),
  truth <- [s \in Subs |-> Said(Snapshot(s))],
  book <- [s \in Subs |-> Said(row[s])]

(* Whatever is delivered late, twice, out of order or never, and whatever  *)
(* breaks off: nobody is recorded as ended while Stripe charges them, and  *)
(* what is recorded comes to agree with Stripe.                            *)
BooksFollowStripe == Books!BooksSpec

(* Nobody is still being charged once their account is destroyed:          *)
(* closeBillingForDeletion, of every subscription of the person.           *)
NobodyGoneIsCharged == ~person => \A s \in Subs : sub[s].status \notin {"active", "past_due"}
=============================================================================
