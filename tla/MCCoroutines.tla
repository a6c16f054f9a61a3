---------------------------- MODULE MCCoroutines ----------------------------
(* Model-checking instance of Coroutines. *)
EXTENDS Coroutines
=============================================================================
