---------------------------- MODULE MCIdempotency ----------------------------
(* Small instances of Idempotency.                                           *)
EXTENDS Idempotency, TLC

Interchangeable == Permutations(Callers) \cup Permutations(Requests)
=============================================================================
