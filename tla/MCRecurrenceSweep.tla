-------------------------- MODULE MCRecurrenceSweep --------------------------
(* Small instances of RecurrenceSweep.                                       *)
EXTENDS RecurrenceSweep, TLC

(* Every day, with the second carried back over the weekend to the first     *)
(* and the third passed over; and every other day.                           *)
TwoRules == {"daily", "odd"}
TwoOccurs == [r \in TwoRules |-> IF r = "daily" THEN 1 .. LastDay + 1
                                 ELSE {d \in 1 .. LastDay + 1 : d % 2 = 1}]
TwoPosted == [r \in TwoRules |-> [d \in Days |-> CASE r = "odd" -> d
                                                   [] d = 2 -> 1
                                                   [] d = 3 -> 0
                                                   [] OTHER -> d]]
AnyZone == {-1, 0, 1}
DailyRule == {"daily"}
DailyOccurs == [r \in DailyRule |-> 1 .. LastDay + 1]
DailyPosted == [r \in DailyRule |-> [d \in Days |-> d]]

Interchangeable == Permutations(Schedulers)
=============================================================================
