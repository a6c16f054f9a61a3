------------------------------ MODULE MCFetch ------------------------------
(* Model-checking instance of Fetch: sets of model values. *)
EXTENDS Fetch

CONSTANTS r1, r2

TwoRequests == {r1, r2}
=============================================================================
