------------------------------ MODULE MCBilling -------------------------------
(* Small instances of Billing.  The sweep always runs.                       *)
EXTENDS Billing, TLC

CONSTANTS p1, p2, k1, k2, r1, sweeper, leaver

Asks(want1, want2) ==
  p1 :> [key |-> k1, want |-> want1] @@ p2 :> [key |-> k2, want |-> want2]

Cast(jobs, ask, changes, breaks) ==
  [jobs |-> jobs, ask |-> ask, moves |-> changes, faults |-> breaks]

Buying == Asks("monthly", "yearly")

MCCasts ==
  {Cast({p1, p2, sweeper}, Buying, 1, 0),
   Cast({p1, p2, sweeper}, Buying, 0, 1),
   Cast({p1, r1, sweeper}, Buying, 1, 1),
   Cast({p1, p2, sweeper}, Asks("monthly", "end"), 2, 1),
   Cast({p1, p2, sweeper}, Asks("monthly", "keep"), 0, 0),
   Cast({p1, leaver, sweeper}, Buying, 1, 1),
   Cast({p1, leaver, r1, sweeper}, Buying, 0, 0),
   Cast({p1, p2, leaver, sweeper}, Buying, 0, 0)}

(* Somebody buys, pays and leaves, and nothing breaks off.                   *)
LeavingCasts == {Cast({p1, leaver, sweeper}, Buying, 1, 0)}
=============================================================================
