--------------------------- MODULE MCLedgerWrites ---------------------------
(* Values of LedgerWrites' constants for TLC.                              *)
EXTENDS LedgerWrites, TLC

CONSTANTS a1, a2, e1, e2, e3, r1, r2, r3

Deposit(to, amount) ==
  [type |-> "deposit", from |-> Nobody, to |-> to, sent |-> amount, received |-> amount,
   day |-> 1, refund |-> FALSE]
Transfer(from, to, amount) ==
  [type |-> "transfer", from |-> from, to |-> to, sent |-> amount, received |-> amount,
   day |-> 1, refund |-> FALSE]

TwoAccounts == {a1, a2}
(* A file brought the first two, the third is typed by hand.               *)
ThreeEntries == {e1, e2, e3}
FromFiles == {e1, e2}
ThreeRequests == {r1, r2, r3}
SmallDrafts == {Deposit(a1, 1), Transfer(a1, a2, 1)}
MovePatches == {[day |-> 0, account |-> a2, type |-> ""]}
Ranks == (a1 :> 1) @@ (a2 :> 2) @@ (e1 :> 3) @@ (e2 :> 4) @@ (e3 :> 5)

(* One request edits, one voids or creates, one works on the accounts.     *)
Edits ==
  [op : {"update"}, entries : {{e1}}, draft : SmallDrafts, allow : {FALSE}]
    \cup [op : {"restore"}, entries : {{e1}}, allow : {FALSE}]
    \cup [op : {"editMany"}, entries : {{e1, e2}, {e1, e3}, {e1}}, patch : MovePatches, allow : {FALSE}]
Others ==
  [op : {"delete"}, entries : {{e1}}]
    \cup [op : {"deleteMany"}, entries : {{e1, e2}, {e1}}]
    \cup [op : {"create"}, entries : {{e2}, {e3}}, draft : SmallDrafts, allow : {TRUE}]
OnAccounts ==
  [op : {"archive"}, account : TwoAccounts]
    \cup [op : {"unarchive", "remove", "reconcile"}, account : {a2}]
    \cup [op : {"opening"}, account : {a2}, opening : {2}, day : {1}]
Served == (r1 :> Edits) @@ (r2 :> Others) @@ (r3 :> OnAccounts)
=============================================================================
