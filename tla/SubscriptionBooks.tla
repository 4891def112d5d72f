------------------------- MODULE SubscriptionBooks --------------------------
(***************************************************************************)
(* What the billing tables promise about one person's subscriptions, said  *)
(* without Stripe calls, deliveries, stamps or locks.                      *)
(*                                                                         *)
(* Stripe is the authority.  The books may lag behind it and may for a     *)
(* while say something older than they said before, but they never say a   *)
(* subscription has ended while Stripe is still charging for it, and a     *)
(* subscription they know of is not left wrong for good.                   *)
(***************************************************************************)
CONSTANTS Subs,      \* subscriptions
          Terms,     \* what can be said of one that has not ended
          Unknown,   \* nothing is recorded
          Ended      \* it is over, and nothing is charged any more

VARIABLES truth,     \* truth[s]: what Stripe would answer about s
          book       \* book[s]: what this deployment has recorded
bookVars == <<truth, book>>

BooksInit ==
  /\ truth = [s \in Subs |-> Unknown]
  /\ book = [s \in Subs |-> Unknown]

(* Stripe's side.  An ended subscription stays ended.                      *)
Change(s) ==
  /\ truth[s] # Ended
  /\ \E t \in Terms \cup {Ended} : truth' = [truth EXCEPT ![s] = t]
  /\ UNCHANGED book

(* Deleting a customer ends whatever it owns at once.                      *)
EndSome(S) ==
  /\ truth' = [s \in Subs |-> IF s \in S THEN Ended ELSE truth[s]]
  /\ UNCHANGED book

Record(s) ==
  /\ truth[s] # Unknown
  /\ \E t \in Terms \cup {Ended} :
       /\ t = Ended => truth[s] = Ended
       /\ book' = [book EXCEPT ![s] = t]
  /\ UNCHANGED truth

(* Closing a customer ends every record of theirs that is over.            *)
RecordEnds(S) ==
  /\ \A s \in S : truth[s] = Ended
  /\ book' = [s \in Subs |-> IF s \in S THEN Ended ELSE book[s]]
  /\ UNCHANGED truth

(* The person is deleted and their records go with them.                   *)
Forget ==
  /\ book' = [s \in Subs |-> Unknown]
  /\ UNCHANGED truth

BooksNext ==
  \/ \E s \in Subs : Change(s) \/ Record(s)
  \/ \E S \in SUBSET Subs : EndSome(S) \/ RecordEnds(S)
  \/ Forget

(* Bringing a record up to date, which must not be put off for ever.       *)
CatchUp(s) ==
  /\ book[s] \notin {Unknown, truth[s]}
  /\ book' = [book EXCEPT ![s] = truth[s]]
  /\ UNCHANGED truth

BooksSpec ==
  BooksInit /\ [][BooksNext]_bookVars /\ \A s \in Subs : WF_bookVars(CatchUp(s))
=============================================================================
