--------------------------- MODULE MCRegistration ---------------------------
(* Model-checking instance of Registration: sets of model values. *)
EXTENDS Registration, TLC

CONSTANTS c1, c2, u1, n1, a1, a2, s1

OneUser     == {u1}
OneName     == {n1}
OneAccount  == {a1}
TwoAccounts == {a1, a2}
TwoCommands == {c1, c2}
OneStat     == {s1}

\* Commands, names and accounts are interchangeable in every safety property.
Symmetry == Permutations(Commands) \cup Permutations(Names)
            \cup Permutations(Accounts) \cup Permutations(Users)
=============================================================================
