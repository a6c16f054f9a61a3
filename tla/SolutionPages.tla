--------------------------- MODULE SolutionPages ---------------------------
(***************************************************************************)
(* The solution pages: the language menu, the Solution button and the      *)
(* fetch behind it, the arrow buttons, and the three maps they share       *)
(* without a lock, userLanguageMap, userSolutionPages and                  *)
(* solutionCurrentPage.                                                    *)
(*                                                                         *)
(* Each press of a button runs on a pool thread of its own.  A press of    *)
(* Solution opens a message (a Discord response); its HTTP completion      *)
(* writes the list and then the page.  A press of an arrow reads the page  *)
(* and the size, writes the page and renders it.  The program does not     *)
(* order the accesses of two threads, so the compiler may keep the page it *)
(* read in a register or load it again: both are steps here.               *)
(*                                                                         *)
(* Calls to Discord that nobody awaits are in flight until Discord takes   *)
(* them, in any order.                                                     *)
(***************************************************************************)
EXTENDS Integers, FiniteSets

CONSTANTS
  Users,
  Messages,      \* responses to presses of a Solution button
  NoMessage,     \* no such response
  Presses,       \* threads that handle presses of an arrow
  MaxSize,       \* solutions in one answer of LeetCode (`first: 5`)
  MaxDrift,      \* bound on how far off its list a page is turned, for TLC
  MaxRestarts    \* bound on restarts, for TLC

ASSUME PagesAssumption ==
  /\ NoMessage \notin Messages
  /\ MaxSize \in Nat
  /\ MaxDrift \in Nat
  /\ MaxRestarts \in Nat

\* A list of solutions: the fetch it came from and how many there are.
List   == [from : Messages, size : 0 .. MaxSize]
NoList == [from |-> NoMessage, size |-> 0]

\* What a message may say.
Blank     == [is |-> "blank",    list |-> NoList, page |-> 0]
Thinking  == [is |-> "thinking", list |-> NoList, page |-> 0]
Failed    == [is |-> "failed",   list |-> NoList, page |-> 0]
Page(l, p) == [is |-> "page", list |-> l, page |-> p]

VARIABLES
  chosen,    \* has userLanguageMap an entry for the user?
  pages,     \* userSolutionPages
  current,   \* solutionCurrentPage
  user,      \* who presses the Solution button that opens a message ...
  found,     \* ... and how many solutions LeetCode has for it
  fetch,     \* its fetch: idle, asked, reset (list written, page not), over
  thinking,  \* event.thinking() is in flight
  edit,      \* event.edit_original_response(..) in flight, Blank if none
  shown,     \* Discord: what the message says
  clicker, on,         \* who presses an arrow, and on which message
  press,     \* its thread: idle, load, store, render, reply
  step,      \* which way it turns the page, 0 if it does not
  saw,       \* the page the thread has in a register
  reply,     \* what it sends to Discord, Blank if nothing
  orderly,   \* history: since the user's last list, its accesses came in turn
  restarts

maps    == <<chosen, pages, current>>
asked   == <<user, found, clicker, on>>
fetches == <<fetch, thinking, edit>>
arrows  == <<press, step, saw, reply>>
vars == <<maps, asked, fetches, shown, arrows, orderly, restarts>>

Says == [is : {"blank", "thinking", "failed", "page"},
         list : List \cup {NoList}, page : Int]

TypeOK ==
  /\ chosen \in [Users -> BOOLEAN]
  /\ pages \in [Users -> List \cup {NoList}]
  /\ current \in [Users -> Int]
  /\ user \in [Messages -> Users]
  /\ found \in [Messages -> 0 .. MaxSize]
  /\ fetch \in [Messages -> {"idle", "asked", "reset", "over"}]
  /\ thinking \in [Messages -> BOOLEAN]
  /\ edit \in [Messages -> Says]
  /\ shown \in [Messages -> Says]
  /\ clicker \in [Presses -> Users]
  /\ on \in [Presses -> Messages]
  /\ press \in [Presses -> {"idle", "load", "store", "render", "reply"}]
  /\ step \in [Presses -> {-1, 0, 1}]
  /\ saw \in [Presses -> Int]
  /\ reply \in [Presses -> Says]
  /\ orderly \in [Users -> BOOLEAN]
  /\ restarts \in 0 .. MaxRestarts

Init ==
  /\ chosen = [u \in Users |-> FALSE]
  /\ pages = [u \in Users |-> NoList]
  /\ current = [u \in Users |-> 0]
  /\ user \in [Messages -> Users]
  /\ found \in [Messages -> 0 .. MaxSize]
  /\ fetch = [m \in Messages |-> "idle"]
  /\ thinking = [m \in Messages |-> FALSE]
  /\ edit = [m \in Messages |-> Blank]
  /\ shown = [m \in Messages |-> Blank]
  /\ clicker \in [Presses -> Users]
  /\ on \in [Presses -> Messages]
  /\ press = [h \in Presses |-> "idle"]
  /\ step = [h \in Presses |-> 0]
  /\ saw = [h \in Presses |-> 0]
  /\ reply = [h \in Presses |-> Blank]
  /\ orderly = [u \in Users |-> TRUE]
  /\ restarts = 0

\* The id in the arrows of a message is that of the user it was made for.
Owner(h) == user[on[h]]

\* Who is between the first and the last of its accesses to the maps of u.
Resetting(u) == {m \in Messages : user[m] = u /\ fetch[m] = "reset"}
Turning(u) ==
  {h \in Presses : Owner(h) = u /\ press[h] \in {"load", "store", "render"}}
Busy(u) == Resetting(u) \cup Turning(u) # {}

\* A first access to the maps of u: one too many, if another is under way.
Enter(u) == orderly' = [orderly EXCEPT ![u] = @ /\ ~Busy(u)]

-----------------------------------------------------------------------------
(* The language menu and the Solution button. *)

ChooseLanguage(u) ==
  /\ chosen' = [chosen EXCEPT ![u] = TRUE]
  /\ UNCHANGED <<pages, current, asked, fetches, shown, arrows, orderly, restarts>>

\* Without a language only an ephemeral reply is sent.
PressSolution(m) ==
  /\ fetch[m] = "idle"
  /\ chosen[user[m]]
  /\ fetch' = [fetch EXCEPT ![m] = "asked"]
  /\ thinking' = [thinking EXCEPT ![m] = TRUE]
  /\ UNCHANGED <<maps, asked, edit, shown, arrows, orderly, restarts>>

\* No data, no solutions, not JSON, another status, or out of retries.
FetchFails(m) ==
  /\ fetch[m] = "asked"
  /\ fetch' = [fetch EXCEPT ![m] = "over"]
  /\ edit' = [edit EXCEPT ![m] = Failed]
  /\ UNCHANGED <<maps, asked, thinking, shown, arrows, orderly, restarts>>

\* Mutant of ListOf: one solution more than the answer has.
LongList(m) == [from |-> m, size |-> found[m] + 1]

\* The list its fetch found; it is empty when every solution lacks its post.
ListOf(m) == [from |-> m, size |-> found[m]]

\* userSolutionPages[userId] = solutionVector
StoreList(m) ==
  /\ fetch[m] = "asked"
  /\ fetch' = [fetch EXCEPT ![m] = "reset"]
  /\ pages' = [pages EXCEPT ![user[m]] = ListOf(m)]
  /\ Enter(user[m])
  /\ UNCHANGED <<chosen, current, asked, thinking, edit, shown, arrows, restarts>>

\* Mutant of ResetPage: the page of the last list is kept.
KeepPage(m) ==
  /\ fetch[m] = "reset"
  /\ fetch' = [fetch EXCEPT ![m] = "over"]
  /\ edit' = [edit EXCEPT ![m] = Page(ListOf(m), 0)]
  /\ orderly' = [orderly EXCEPT ![user[m]] =
                   Turning(user[m]) = {} /\ Resetting(user[m]) = {m}]
  /\ UNCHANGED <<chosen, pages, current, asked, thinking, shown, arrows, restarts>>

\* solutionCurrentPage[userId] = 0, and the first page goes to Discord.
ResetPage(m) ==
  /\ fetch[m] = "reset"
  /\ fetch' = [fetch EXCEPT ![m] = "over"]
  /\ current' = [current EXCEPT ![user[m]] = 0]
  /\ edit' = [edit EXCEPT ![m] = Page(ListOf(m), 0)]
  /\ orderly' = [orderly EXCEPT ![user[m]] =
                   Turning(user[m]) = {} /\ Resetting(user[m]) = {m}]
  /\ UNCHANGED <<chosen, pages, asked, thinking, shown, arrows, restarts>>

-----------------------------------------------------------------------------
(* The arrows. *)

\* Mutants of MayTurn: `<=` for `<`, and `>=` for `>`.
MayTurnPastEnd(d, p, n) == (d = -1 /\ p > 0) \/ (d = 1 /\ p + 1 >= 0 /\ p + 1 <= n)
MayTurnPastStart(d, p, n) == (d = -1 /\ p >= 0) \/ (d = 1 /\ p + 1 >= 0 /\ p + 1 < n)

\* `currentPage > 0`, or `(currentPage + 1) * 1 < solutions.size()`, where the
\* comparison is unsigned: a negative left side is huge.
MayTurn(d, p, n) ==
  \/ d = -1 /\ p > 0
  \/ d = 1 /\ p + 1 >= 0 /\ p + 1 < n

\* Mutant of PressArrow: anyone may press.
PressAnyArrow(h) ==
  /\ press[h] = "idle"
  /\ shown[on[h]].is = "page"
  /\ saw' = [saw EXCEPT ![h] = current[Owner(h)]]
  /\ Enter(Owner(h))
  /\ \E d \in {-1, 1} :
       /\ MayTurn(d, current[Owner(h)], pages[Owner(h)].size)
       /\ press' = [press EXCEPT ![h] = "load"]
       /\ step' = [step EXCEPT ![h] = d]
  /\ UNCHANGED <<maps, asked, fetches, shown, reply, restarts>>

\* A press of the left or the right arrow of a message that shows a page.  A
\* stranger gets an ephemeral reply.
PressArrow(h) ==
  /\ press[h] = "idle"
  /\ shown[on[h]].is = "page"
  /\ clicker[h] = Owner(h)
  /\ current[Owner(h)] <= MaxSize + MaxDrift
  /\ saw' = [saw EXCEPT ![h] = current[Owner(h)]]
  /\ Enter(Owner(h))
  /\ \E d \in {-1, 1} :
       \/ /\ MayTurn(d, current[Owner(h)], pages[Owner(h)].size)
          /\ press' = [press EXCEPT ![h] = "load"]
          /\ step' = [step EXCEPT ![h] = d]
       \/ /\ ~MayTurn(d, current[Owner(h)], pages[Owner(h)].size)
          /\ press' = [press EXCEPT ![h] = "render"]
          /\ UNCHANGED step
  /\ UNCHANGED <<maps, asked, fetches, shown, reply, restarts>>

\* The page as it was checked, or as it is now.
Load(h) ==
  /\ press[h] = "load"
  /\ press' = [press EXCEPT ![h] = "store"]
  /\ \E p \in {saw[h], current[Owner(h)]} : saw' = [saw EXCEPT ![h] = p]
  /\ UNCHANGED <<maps, asked, fetches, shown, step, reply, orderly, restarts>>

\* currentPage-- or currentPage++
Store(h) ==
  /\ press[h] = "store"
  /\ press' = [press EXCEPT ![h] = "render"]
  /\ saw' = [saw EXCEPT ![h] = saw[h] + step[h]]
  /\ current' = [current EXCEPT ![Owner(h)] = saw[h] + step[h]]
  /\ step' = [step EXCEPT ![h] = 0]
  /\ UNCHANGED <<chosen, pages, asked, fetches, shown, reply, orderly, restarts>>

\* build_solutions_page(solutions, currentPage)
Render(h) ==
  /\ press[h] = "render"
  /\ press' = [press EXCEPT ![h] = "reply"]
  /\ \E p \in {saw[h], current[Owner(h)]} :
       reply' = [reply EXCEPT ![h] = Page(pages[Owner(h)], p)]
  /\ saw' = [saw EXCEPT ![h] = 0]
  /\ UNCHANGED <<maps, asked, fetches, shown, step, orderly, restarts>>

\* Discord takes the ir_update_message.
TakeReply(h) ==
  /\ press[h] = "reply"
  /\ press' = [press EXCEPT ![h] = "idle"]
  /\ shown' = [shown EXCEPT ![on[h]] = reply[h]]
  /\ reply' = [reply EXCEPT ![h] = Blank]
  /\ UNCHANGED <<maps, asked, fetches, step, saw, orderly, restarts>>

-----------------------------------------------------------------------------
(* Discord and the process. *)

TakeThinking(m) ==
  /\ thinking[m]
  /\ thinking' = [thinking EXCEPT ![m] = FALSE]
  /\ shown' = [shown EXCEPT ![m] = Thinking]
  /\ UNCHANGED <<maps, asked, fetch, edit, arrows, orderly, restarts>>

\* There is nothing to edit before the response to the interaction: an edit that
\* overtakes the thinking() is refused, and lost.
TakeEdit(m) ==
  /\ edit[m] # Blank
  /\ edit' = [edit EXCEPT ![m] = Blank]
  /\ shown' = [shown EXCEPT ![m] = IF @ = Blank THEN Blank ELSE edit[m]]
  /\ UNCHANGED <<maps, asked, fetch, thinking, arrows, orderly, restarts>>

\* The process dies, perhaps of a race on the maps, and is started again: the
\* maps are empty, the messages keep what they show.
Restart ==
  /\ restarts < MaxRestarts
  /\ restarts' = restarts + 1
  /\ chosen' = [u \in Users |-> FALSE]
  /\ pages' = [u \in Users |-> NoList]
  /\ current' = [u \in Users |-> 0]
  /\ fetch' = [m \in Messages |-> IF fetch[m] = "idle" THEN "idle" ELSE "over"]
  /\ thinking' = [m \in Messages |-> FALSE]
  /\ edit' = [m \in Messages |-> Blank]
  /\ press' = [h \in Presses |-> "idle"]
  /\ step' = [h \in Presses |-> 0]
  /\ saw' = [h \in Presses |-> 0]
  /\ reply' = [h \in Presses |-> Blank]
  /\ orderly' = [u \in Users |-> TRUE]
  /\ UNCHANGED <<asked, shown>>

Fetching(m) ==
  \/ PressSolution(m) \/ FetchFails(m) \/ StoreList(m) \/ ResetPage(m)
  \/ TakeThinking(m) \/ TakeEdit(m)

Arrow(h) ==
  PressArrow(h) \/ Load(h) \/ Store(h) \/ Render(h) \/ TakeReply(h)

Next ==
  \/ \E u \in Users : ChooseLanguage(u)
  \/ \E m \in Messages : Fetching(m)
  \/ \E h \in Presses : Arrow(h)
  \/ Restart

Spec == Init /\ [][Next]_vars

-----------------------------------------------------------------------------
(* Properties. *)

\* The page an abstract reader is on: a list just stored is opened at its start.
Position == [u \in Users |-> IF Resetting(u) # {} THEN 0 ELSE current[u]]

Reader == INSTANCE Pager WITH
  Lists <- List, list <- pages, page <- Position

\* Whatever the threads do, a user whose accesses came in turn since the last
\* list reads it page by page, from the first, and never off its ends; and one
\* whose accesses overlapped does so again after a fresh list.
ImplementsPager == Reader!Spec

\* solutionCurrentPage of an orderly user is an index of userSolutionPages.
PageInBounds ==
  \A u \in Users :
    orderly[u] /\ Resetting(u) = {} => current[u] \in Reader!Positions(pages[u])

\* What an arrow renders for an orderly user is a page of the user's newest list,
\* never one off its ends (solutions[-1], or "Page 3 / 1").
RendersInBounds ==
  [][\A h \in Presses :
       reply[h] = Blank /\ reply'[h] # Blank /\ orderly[Owner(h)] =>
         /\ reply'[h].list = pages[Owner(h)]
         /\ reply'[h].page \in Reader!Positions(pages[Owner(h)])]_vars

\* Nobody turns another user's page: a page changes by a press of its own user,
\* by the user's own fetch, or by a restart, though the id that picks the maps
\* comes from the button and not from who pressed it.
TurnedByOwner ==
  [][\A u \in Users : current'[u] # current[u] =>
       \/ \E h \in Presses : press[h] = "store" /\ clicker[h] = u
       \/ Resetting(u) # {}
       \/ restarts' # restarts]_vars

-----------------------------------------------------------------------------
(* The inductive invariant behind them. *)

\* An orderly user has one access under way at most.
OneAccess(u) ==
  /\ \A m, n \in Resetting(u) : m = n
  /\ \A h, k \in Turning(u) : h = k
  /\ Resetting(u) = {} \/ Turning(u) = {}

\* What the thread that turns the user's page has read and checked still holds.
FreshRead(u) ==
  \A h \in Turning(u) :
    /\ saw[h] = current[u]
    /\ press[h] \in {"load", "store"} =>
         step[h] # 0 /\ saw[h] + step[h] \in Reader!Positions(pages[u])

OrderInv ==
  /\ PageInBounds
  /\ \A u \in Users : orderly[u] => OneAccess(u) /\ FreshRead(u)

Inv == TypeOK /\ OrderInv

=============================================================================
