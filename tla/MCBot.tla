-------------------------------- MODULE MCBot --------------------------------
(* Model-checking instance of Bot. *)
EXTENDS Bot

CONSTANTS e1, e2, i1

MCReadies      == {e1, e2}
MCInteractions == {i1}
MCMaxStarts    == 2
==============================================================================
