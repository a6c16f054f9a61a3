------------------------------- MODULE Pager -------------------------------
(***************************************************************************)
(* What the solution pages promise: each user reads one list of solutions  *)
(* at one position of it.  A position is only promised while the user's    *)
(* interactions come one at a time (`orderly`); once two of them overlap   *)
(* anything may be on show, until a fresh list restores order.  A restart  *)
(* of the bot empties every list.  SolutionPages implements it.            *)
(***************************************************************************)
EXTENDS Integers

CONSTANTS Users, Lists, NoList

VARIABLES list, page, orderly

vars == <<list, page, orderly>>

\* An empty list still has a first page, without a solution on it.
Positions(l) == IF l.size = 0 THEN {0} ELSE 0 .. l.size - 1

Fresh ==
  /\ list = [u \in Users |-> NoList]
  /\ page = [u \in Users |-> 0]
  /\ orderly = [u \in Users |-> TRUE]

Init == Fresh

Open(u) ==
  /\ \E l \in Lists : list' = [list EXCEPT ![u] = l]
  /\ page' = [page EXCEPT ![u] = 0]
  /\ UNCHANGED orderly

Turn(u) ==
  /\ orderly[u]
  /\ \E p \in {page[u] - 1, page[u] + 1} \cap Positions(list[u]) :
       page' = [page EXCEPT ![u] = p]
  /\ UNCHANGED <<list, orderly>>

Restore(u) ==
  /\ orderly' = [orderly EXCEPT ![u] = TRUE]
  /\ page' = [page EXCEPT ![u] = 0]
  /\ UNCHANGED list

\* Two interactions of u overlap: u alone is affected.
Disorder(u) ==
  /\ ~orderly'[u]
  /\ \A v \in Users \ {u} : /\ list'[v] = list[v]
                            /\ page'[v] = page[v]
                            /\ orderly'[v] = orderly[v]

Restart == Fresh'

Next ==
  \/ \E u \in Users : Open(u) \/ Turn(u) \/ Restore(u) \/ Disorder(u)
  \/ Restart

Spec == Init /\ [][Next]_vars

=============================================================================
