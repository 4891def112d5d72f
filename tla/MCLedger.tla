------------------------------ MODULE MCLedger ------------------------------
(* Values of Ledger's constants for TLC.                                     *)
EXTENDS Ledger, TLC

CONSTANTS a1, a2

Deposit(to, amount, day, refund) ==
  [type |-> "deposit", from |-> Nobody, to |-> to, sent |-> amount, received |-> amount,
   day |-> day, refund |-> refund]
Withdrawal(from, amount, day, refund) ==
  [type |-> "withdrawal", from |-> from, to |-> Nobody, sent |-> amount, received |-> amount,
   day |-> day, refund |-> refund]
Transfer(from, to, sent, received, day) ==
  [type |-> "transfer", from |-> from, to |-> to, sent |-> sent, received |-> received,
   day |-> day, refund |-> FALSE]

TwoAccounts == {a1, a2}

(* One currency: money in before, and between accounts after, an archive.    *)
PlainDrafts == {Deposit(a1, 2, 1, FALSE), Withdrawal(a2, 1, 3, TRUE), Transfer(a1, a2, 1, 1, 2)}
PlainPatches == {[day |-> 3, account |-> Nobody, type |-> ""],
                 [day |-> 0, account |-> a2, type |-> ""],
                 [day |-> 0, account |-> Nobody, type |-> "withdrawal"]}

(* Two currencies: the same transfer is a conversion or not, by account.     *)
MixedDrafts == {Deposit(a1, 1, 1, FALSE), Transfer(a1, a2, 1, 1, 1), Transfer(a1, a2, 1, 2, 1)}
MovePatches == {[day |-> 0, account |-> a2, type |-> ""]}

(* Both: a refund after a transfer, which a mass edit turns into money in,   *)
(* on an earlier day and on the other account.                               *)
RefundDrafts == {Withdrawal(a2, 1, 2, TRUE), Transfer(a1, a2, 1, 1, 1)}
RetypePatches == {[day |-> 1, account |-> a1, type |-> "deposit"]}

(* The timezone moves the archive days of accounts closed before it, which   *)
(* MCLedger_timezone.cfg shows; otherwise it is moved while nothing is       *)
(* archived.  Balances open on the first day, and a2's is always nothing.    *)
ZoneStays == zone' = zone \/ \A a \in Accounts : account'[a].status # "archived"
OpeningsOf(a) == IF a = a1 THEN Openings ELSE {0}

SteadyNext ==
  \/ EntryStep \/ Advance
  \/ \E a \in Accounts, c \in Currencies : \E o \in OpeningsOf(a) :
       \/ \E s \in {"live", "archived"} : CreateAccount(a, c, o, 1, s)
       \/ UpdateAccount(a, c, o, 1)
  \/ \E a \in Accounts, s \in {"live", "archived"} : SetAccountArchived(a, s)
  \/ \E a \in Accounts : DeleteAccount(a) \/ ReconcileArchived(a)
  \/ \E z \in Zones : SetTimezone(z) /\ ZoneStays

SteadySpec == Init /\ [][SteadyNext]_vars

Swappable == Permutations(Entries)
=============================================================================
