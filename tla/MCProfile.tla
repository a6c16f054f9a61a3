----------------------------- MODULE MCProfile -----------------------------
(* Model-checking instance of Profile: sets of model values. *)
EXTENDS Profile, TLC

CONSTANTS c1, c2, u1, u2, n1, n2, n3, a1, a2

TwoUsers    == {u1, u2}
TwoNames    == {n1, n2}
ThreeNames  == {n1, n2, n3}
TwoAccounts == {a1, a2}
TwoCommands == {c1, c2}
OneStat     == {1}
TwoStats    == {1, 2}

\* Commands, users, names and accounts are interchangeable in every property.
Symmetry == Permutations(Commands) \cup Permutations(Names)
            \cup Permutations(Accounts) \cup Permutations(Users)
=============================================================================
