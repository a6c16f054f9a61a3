------------------------------ MODULE Registry ------------------------------
(***************************************************************************)
(* What /register promises, without coroutines, requests or statements: a  *)
(* user is linked to at most one LeetCode account, once, for good, and     *)
(* only to an account whose bio carried the tag of a name the user bore.   *)
(* Registration implements it.                                             *)
(***************************************************************************)
CONSTANTS Users, Names, Accounts

VARIABLES
  registry,    \* <<user, account>> links
  published,   \* <<account, name>> tags that some bio ever carried
  named        \* <<user, name>> pairs that were ever true

vars == <<registry, published, named>>

Init ==
  /\ registry = {}
  /\ published = {}
  /\ named \subseteq Users \X Names

Verified(u, a) ==
  \E n \in Names : <<a, n>> \in published /\ <<u, n>> \in named

Register(u, a) ==
  /\ \A b \in Accounts : <<u, b>> \notin registry
  /\ Verified(u, a)
  /\ registry' = registry \cup {<<u, a>>}
  /\ UNCHANGED <<published, named>>

\* Names and bios change outside the bot.
Publish ==
  /\ published \subseteq published'
  /\ named \subseteq named'
  /\ UNCHANGED registry

Next ==
  \/ \E u \in Users, a \in Accounts : Register(u, a)
  \/ Publish

Spec == Init /\ [][Next]_vars

=============================================================================
