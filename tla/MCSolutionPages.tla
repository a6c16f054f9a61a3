--------------------------- MODULE MCSolutionPages ---------------------------
(* Model-checking instance of SolutionPages: sets of model values. *)
EXTENDS SolutionPages, TLC

CONSTANTS u1, u2, m1, m2, h1, h2

TwoUsers    == {u1, u2}
TwoMessages == {m1, m2}
TwoPresses  == {h1, h2}

\* Users, messages and presses are interchangeable in every property.
Symmetry == Permutations(Users) \cup Permutations(Messages)
            \cup Permutations(Presses)
=============================================================================
