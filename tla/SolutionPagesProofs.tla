------------------------ MODULE SolutionPagesProofs ------------------------
(***************************************************************************)
(* SolutionPages, for any number of users, messages, threads, solutions    *)
(* and restarts.                                                           *)
(***************************************************************************)
EXTENDS SolutionPages, TLAPS

-----------------------------------------------------------------------------
(* Types. *)

LEMMA TypeInit == Init => TypeOK
<1>1. Blank \in Says
  BY DEF Blank, Says
<1>2. QED
  BY <1>1, PagesAssumption DEF Init, TypeOK

\* A size is a number, and a first page is always a position.
LEMMA Sizes ==
  ASSUME TypeOK, NEW u \in Users
  PROVE  /\ pages[u].size \in Nat
         /\ Reader!Positions(pages[u]) \subseteq Nat
         /\ 0 \in Reader!Positions(pages[u])
<1>1. pages[u] \in List \cup {NoList}
  BY DEF TypeOK
<1>2. pages[u].size \in Nat
  BY <1>1, PagesAssumption DEF List, NoList
<1>3. QED
  BY <1>2 DEF Reader!Positions

LEMMA TypeStep == TypeOK /\ [Next]_vars => TypeOK'
<1> SUFFICES ASSUME TypeOK, [Next]_vars PROVE TypeOK'
  OBVIOUS
<1> USE PagesAssumption DEF TypeOK
<1>a. /\ Blank \in Says /\ Thinking \in Says /\ Failed \in Says
      /\ \A l \in List \cup {NoList} : \A p \in Int : Page(l, p) \in Says
  BY DEF Blank, Thinking, Failed, Page, Says
<1>b. \A m \in Messages : ListOf(m) \in List
  BY DEF ListOf, List
<1>c. \A h \in Presses : Owner(h) \in Users
  BY DEF Owner
<1>1. ASSUME NEW u \in Users, ChooseLanguage(u) PROVE TypeOK'
  BY <1>1 DEF ChooseLanguage, asked, fetches, arrows
<1>2. ASSUME NEW m \in Messages, PressSolution(m) PROVE TypeOK'
  BY <1>2 DEF PressSolution, maps, asked, arrows
<1>3. ASSUME NEW m \in Messages, FetchFails(m) PROVE TypeOK'
  BY <1>a, <1>3 DEF FetchFails, maps, asked, arrows
<1>4. ASSUME NEW m \in Messages, StoreList(m) PROVE TypeOK'
  BY <1>b, <1>4 DEF StoreList, Enter, Busy, asked, arrows
<1>5. ASSUME NEW m \in Messages, ResetPage(m) PROVE TypeOK'
  BY <1>a, <1>b, <1>5 DEF ResetPage, asked, arrows
<1>6. ASSUME NEW h \in Presses, PressArrow(h) PROVE TypeOK'
  <2>1. /\ press' \in [Presses -> {"idle", "load", "store", "render", "reply"}]
        /\ step' \in [Presses -> {-1, 0, 1}]
    BY <1>6 DEF PressArrow
  <2>2. saw' \in [Presses -> Int] /\ orderly' \in [Users -> BOOLEAN]
    BY <1>c, <1>6 DEF PressArrow, Enter, Busy
  <2>3. QED
    BY <1>6, <2>1, <2>2 DEF PressArrow, maps, asked, fetches
<1>7. ASSUME NEW h \in Presses, Load(h) PROVE TypeOK'
  BY <1>c, <1>7 DEF Load, maps, asked, fetches
<1>8. ASSUME NEW h \in Presses, Store(h) PROVE TypeOK'
  BY <1>c, <1>8 DEF Store, asked, fetches
<1>9. ASSUME NEW h \in Presses, Render(h) PROVE TypeOK'
  <2>1. \A p \in {saw[h], current[Owner(h)]} : Page(pages[Owner(h)], p) \in Says
    BY <1>a, <1>c
  <2>2. reply' \in [Presses -> Says]
    BY <1>9, <2>1 DEF Render
  <2>3. QED
    BY <1>9, <2>2 DEF Render, maps, asked, fetches
<1>10. ASSUME NEW h \in Presses, TakeReply(h) PROVE TypeOK'
  BY <1>a, <1>10 DEF TakeReply, maps, asked, fetches
<1>11. ASSUME NEW m \in Messages, TakeThinking(m) PROVE TypeOK'
  BY <1>a, <1>11 DEF TakeThinking, maps, asked, arrows
<1>12. ASSUME NEW m \in Messages, TakeEdit(m) PROVE TypeOK'
  BY <1>a, <1>12 DEF TakeEdit, maps, asked, arrows
<1>13. CASE Restart
  BY <1>a, <1>13 DEF Restart, asked
<1>14. CASE UNCHANGED vars
  BY <1>14 DEF vars, maps, asked, fetches, arrows
<1>15. QED
  BY <1>1, <1>2, <1>3, <1>4, <1>5, <1>6, <1>7, <1>8, <1>9, <1>10, <1>11,
     <1>12, <1>13, <1>14 DEF Next, Fetching, Arrow

\* Every reachable state of SolutionPages is well typed.
THEOREM TypeCorrect == Spec => []TypeOK
BY TypeInit, TypeStep, PTL DEF Spec

-----------------------------------------------------------------------------
(* Order.  Each access of a thread that starts while another one is under     *)
(* way ends the user's order; until then what a thread has read holds.        *)

\* Who is at work on the maps of u depends on three variables only.
LEMMA AtWork ==
  ASSUME UNCHANGED <<asked, fetch, press>>, NEW u \in Users
  PROVE  Resetting(u)' = Resetting(u) /\ Turning(u)' = Turning(u)
BY DEF asked, Resetting, Turning, Owner

LEMMA OrderUnmoved ==
  ASSUME OrderInv, UNCHANGED <<maps, asked, fetch, press, step, saw, orderly>>
  PROVE  OrderInv'
BY AtWork DEF OrderInv, PageInBounds, OneAccess, FreshRead, maps

\* OrderInv, user by user.
CurrentOK(u) ==
  orderly[u] /\ Resetting(u) = {} => current[u] \in Reader!Positions(pages[u])
OrderlyOK(u) == orderly[u] => OneAccess(u) /\ FreshRead(u)

LEMMA PerUser == OrderInv <=> \A u \in Users : CurrentOK(u) /\ OrderlyOK(u)
BY DEF OrderInv, PageInBounds, CurrentOK, OrderlyOK

LEMMA PerUserPrime ==
  OrderInv' <=> \A u \in Users : CurrentOK(u)' /\ OrderlyOK(u)'
BY DEF OrderInv, PageInBounds, CurrentOK, OrderlyOK

LEMMA OrderStep == TypeOK /\ OrderInv /\ [Next]_vars => OrderInv'
<1> SUFFICES ASSUME TypeOK, OrderInv, [Next]_vars PROVE OrderInv'
  OBVIOUS
<1>1. ASSUME NEW u \in Users, ChooseLanguage(u) PROVE OrderInv'
  <2>1. UNCHANGED <<pages, current, asked, fetch, press, step, saw, orderly>>
    BY <1>1 DEF ChooseLanguage, fetches, arrows
  <2>2. QED
    BY <2>1, AtWork DEF OrderInv, PageInBounds, OneAccess, FreshRead
<1>2. ASSUME NEW m \in Messages, PressSolution(m) \/ FetchFails(m)
      PROVE  OrderInv'
  <2>1. UNCHANGED <<maps, asked, press, step, saw, orderly>>
    BY <1>2 DEF PressSolution, FetchFails, arrows
  <2>2. \A u \in Users : Resetting(u)' = Resetting(u)
    BY <1>2 DEF PressSolution, FetchFails, asked, Resetting, TypeOK
  <2>3. \A u \in Users : Turning(u)' = Turning(u)
    BY <2>1 DEF asked, Turning, Owner
  <2>4. QED
    BY <2>1, <2>2, <2>3 DEF OrderInv, PageInBounds, OneAccess, FreshRead, maps
<1>3. ASSUME NEW m \in Messages, StoreList(m) PROVE OrderInv'
  <2>0. PICK u \in Users : u = user[m]
    BY DEF TypeOK
  <2>1. UNCHANGED <<current, asked, press, step, saw>>
    BY <1>3 DEF StoreList, arrows
  <2>2. \A v \in Users : Turning(v)' = Turning(v)
    BY <2>1 DEF asked, Turning, Owner
  <2>3. /\ Resetting(u)' = Resetting(u) \cup {m}
        /\ \A v \in Users \ {u} : Resetting(v)' = Resetting(v)
    BY <1>3, <2>0, <2>1 DEF StoreList, asked, Resetting, TypeOK
  <2>4. \A v \in Users \ {u} : pages'[v] = pages[v] /\ orderly'[v] = orderly[v]
    BY <1>3, <2>0 DEF StoreList, Enter, TypeOK
  <2>5. orderly'[u] => Resetting(u) = {} /\ Turning(u) = {}
    BY <1>3, <2>0 DEF StoreList, Enter, Busy, TypeOK
  <2>6. CurrentOK(u)' /\ OrderlyOK(u)'
    BY <2>2, <2>3, <2>5 DEF CurrentOK, OrderlyOK, OneAccess, FreshRead
  <2>7. ASSUME NEW v \in Users \ {u} PROVE CurrentOK(v)' /\ OrderlyOK(v)'
    BY <2>1, <2>2, <2>3, <2>4, PerUser
       DEF CurrentOK, OrderlyOK, OneAccess, FreshRead
  <2>8. QED
    BY <2>6, <2>7, PerUserPrime
<1>4. ASSUME NEW m \in Messages, ResetPage(m) PROVE OrderInv'
  <2>0. PICK u \in Users : u = user[m]
    BY DEF TypeOK
  <2>1. UNCHANGED <<pages, asked, press, step, saw>>
    BY <1>4 DEF ResetPage, arrows
  <2>2. \A v \in Users : Turning(v)' = Turning(v)
    BY <2>1 DEF asked, Turning, Owner
  <2>3. /\ Resetting(u)' = Resetting(u) \ {m}
        /\ \A v \in Users \ {u} : Resetting(v)' = Resetting(v)
    BY <1>4, <2>0, <2>1 DEF ResetPage, asked, Resetting, TypeOK
  <2>4. \A v \in Users \ {u} :
          current'[v] = current[v] /\ orderly'[v] = orderly[v]
    BY <1>4, <2>0 DEF ResetPage, TypeOK
  <2>5. /\ current'[u] = 0
        /\ orderly'[u] => Resetting(u) = {m} /\ Turning(u) = {}
    BY <1>4, <2>0 DEF ResetPage, TypeOK
  <2>6. CurrentOK(u)' /\ OrderlyOK(u)'
    BY <2>1, <2>2, <2>3, <2>5, Sizes
       DEF CurrentOK, OrderlyOK, OneAccess, FreshRead
  <2>7. ASSUME NEW v \in Users \ {u} PROVE CurrentOK(v)' /\ OrderlyOK(v)'
    BY <2>1, <2>2, <2>3, <2>4, PerUser
       DEF CurrentOK, OrderlyOK, OneAccess, FreshRead
  <2>8. QED
    BY <2>6, <2>7, PerUserPrime
<1>5. ASSUME NEW h \in Presses, PressArrow(h) PROVE OrderInv'
  <2>0. PICK u \in Users : u = Owner(h)
    BY DEF Owner, TypeOK
  <2>1. UNCHANGED <<maps, asked, fetch>>
    BY <1>5 DEF PressArrow, fetches
  <2>2. \A v \in Users : Resetting(v)' = Resetting(v)
    BY <2>1 DEF asked, Resetting
  <2>3. /\ Turning(u)' = Turning(u) \cup {h}
        /\ \A v \in Users \ {u} : Turning(v)' = Turning(v) /\ h \notin Turning(v)
    BY <1>5, <2>0, <2>1 DEF PressArrow, asked, Turning, Owner, TypeOK
  <2>4. \A v \in Users \ {u} : orderly'[v] = orderly[v]
    BY <1>5, <2>0 DEF PressArrow, Enter, TypeOK
  <2>5. orderly'[u] => orderly[u] /\ Resetting(u) = {} /\ Turning(u) = {}
    BY <1>5, <2>0 DEF PressArrow, Enter, Busy, TypeOK
  <2>6. \A k \in Presses \ {h} :
          /\ saw'[k] = saw[k] /\ press'[k] = press[k] /\ step'[k] = step[k]
    BY <1>5 DEF PressArrow, TypeOK
  <2>7. saw'[h] = current[u]
    BY <1>5, <2>0 DEF PressArrow, TypeOK
  <2>8. ASSUME orderly'[u], press'[h] \in {"load", "store"}
        PROVE  /\ step'[h] # 0
               /\ saw'[h] + step'[h] \in Reader!Positions(pages[u])
    <3>1. \E d \in {-1, 1} : MayTurn(d, current[u], pages[u].size) /\ step'[h] = d
      BY <1>5, <2>0, <2>8 DEF PressArrow, TypeOK
    <3>2. current[u] \in Reader!Positions(pages[u])
      BY <2>5, <2>8 DEF OrderInv, PageInBounds
    <3>3. pages[u].size \in Nat
      BY Sizes
    <3>4. QED
      BY <2>7, <3>1, <3>2, <3>3 DEF MayTurn, Reader!Positions
  <2>9. CurrentOK(u)'
    BY <2>1, <2>2, <2>5, PerUser DEF CurrentOK, maps
  <2>10. OrderlyOK(u)'
    BY <2>1, <2>2, <2>3, <2>5, <2>7, <2>8
       DEF OrderlyOK, OneAccess, FreshRead, maps
  <2>11. ASSUME NEW v \in Users \ {u} PROVE CurrentOK(v)' /\ OrderlyOK(v)'
    <3>1. Turning(v) \subseteq Presses
      BY DEF Turning
    <3>2. QED
      BY <2>1, <2>2, <2>3, <2>4, <2>6, <3>1, PerUser
         DEF CurrentOK, OrderlyOK, OneAccess, FreshRead, maps
  <2>12. QED
    BY <2>9, <2>10, <2>11, PerUserPrime
<1>6. ASSUME NEW h \in Presses, Load(h) PROVE OrderInv'
  <2>1. UNCHANGED <<maps, asked, fetch, step, orderly>>
    BY <1>6 DEF Load, fetches
  <2>2. \A u \in Users : /\ Resetting(u)' = Resetting(u)
                         /\ Turning(u)' = Turning(u)
    BY <1>6, <2>1 DEF Load, asked, Resetting, Turning, Owner, TypeOK
  <2>3. \A k \in Presses :
          /\ saw'[k] \in {saw[k], current[Owner(k)]}
          /\ press'[k] \in {"load", "store"} => press[k] \in {"load", "store"}
    BY <1>6 DEF Load, TypeOK
  <2>4. \A u \in Users : orderly[u] => FreshRead(u)'
    BY <2>1, <2>2, <2>3 DEF OrderInv, FreshRead, Turning, maps
  <2>5. QED
    BY <2>1, <2>2, <2>4 DEF OrderInv, PageInBounds, OneAccess, maps
<1>7. ASSUME NEW h \in Presses, Store(h) PROVE OrderInv'
  <2>0. PICK u \in Users : u = Owner(h)
    BY DEF Owner, TypeOK
  <2>1. UNCHANGED <<pages, asked, fetch, orderly>>
    BY <1>7 DEF Store, fetches
  <2>2. \A v \in Users : /\ Resetting(v)' = Resetting(v)
                         /\ Turning(v)' = Turning(v)
    BY <1>7, <2>1 DEF Store, asked, Resetting, Turning, Owner, TypeOK
  <2>3. /\ \A v \in Users \ {u} : current'[v] = current[v]
        /\ \A k \in Presses \ {h} : /\ saw'[k] = saw[k]
                                    /\ press'[k] = press[k]
                                    /\ step'[k] = step[k]
    BY <1>7, <2>0 DEF Store, TypeOK
  <2>4. /\ press[h] = "store" /\ press'[h] = "render"
        /\ current'[u] = saw[h] + step[h]
        /\ saw'[h] = saw[h] + step[h]
    BY <1>7, <2>0 DEF Store, TypeOK
  <2>5. h \in Turning(u) /\ \A v \in Users \ {u} : h \notin Turning(v)
    BY <2>0, <2>4 DEF Turning
  <2>6. ASSUME orderly[u]
        PROVE  /\ Turning(u) = {h}
               /\ saw[h] + step[h] \in Reader!Positions(pages[u])
    BY <2>4, <2>5, <2>6 DEF OrderInv, OneAccess, FreshRead
  <2>7. CurrentOK(u)' /\ OrderlyOK(u)'
    BY <2>1, <2>2, <2>4, <2>6, PerUser DEF CurrentOK, OrderlyOK, OneAccess, FreshRead
  <2>8. ASSUME NEW v \in Users \ {u} PROVE CurrentOK(v)' /\ OrderlyOK(v)'
    <3>1. Turning(v) \subseteq Presses
      BY DEF Turning
    <3>2. QED
      BY <2>1, <2>2, <2>3, <2>5, <3>1, PerUser
         DEF CurrentOK, OrderlyOK, OneAccess, FreshRead
  <2>9. QED
    BY <2>7, <2>8, PerUserPrime
<1>8. ASSUME NEW h \in Presses, Render(h) \/ TakeReply(h) PROVE OrderInv'
  <2>1. UNCHANGED <<maps, asked, fetch, step, orderly>>
    BY <1>8 DEF Render, TakeReply, fetches
  <2>2. \A u \in Users : Resetting(u)' = Resetting(u)
    BY <2>1 DEF asked, Resetting
  <2>3. \A u \in Users : Turning(u)' \subseteq Turning(u)
    BY <1>8, <2>1 DEF Render, TakeReply, asked, Turning, Owner, TypeOK
  <2>4. \A u \in Users : \A k \in Turning(u)' :
          saw'[k] = saw[k] /\ press'[k] = press[k]
    BY <1>8 DEF Render, TakeReply, Turning, TypeOK
  <2>5. QED
    BY <2>1, <2>2, <2>3, <2>4
       DEF OrderInv, PageInBounds, OneAccess, FreshRead, maps
<1>9. ASSUME NEW m \in Messages, TakeThinking(m) \/ TakeEdit(m) PROVE OrderInv'
  <2>1. UNCHANGED <<maps, asked, fetch, press, step, saw, orderly>>
    BY <1>9 DEF TakeThinking, TakeEdit, arrows
  <2>2. QED
    BY <2>1, OrderUnmoved
<1>10. CASE Restart
  <2>1. \A u \in Users : Resetting(u)' = {} /\ Turning(u)' = {}
    BY <1>10 DEF Restart, Resetting, Turning, TypeOK
  <2>2. \A u \in Users : current'[u] = 0 /\ pages'[u] = NoList
    BY <1>10 DEF Restart
  <2>3. 0 \in Reader!Positions(NoList)
    BY DEF Reader!Positions, NoList
  <2>4. QED
    BY <2>1, <2>2, <2>3 DEF OrderInv, PageInBounds, OneAccess, FreshRead
<1>11. CASE UNCHANGED vars
  BY <1>11, OrderUnmoved DEF vars, fetches, arrows
<1>12. QED
  BY <1>1, <1>2, <1>3, <1>4, <1>5, <1>6, <1>7, <1>8, <1>9, <1>10, <1>11
     DEF Next, Fetching, Arrow

LEMMA OrderInit == Init => OrderInv
<1> SUFFICES ASSUME Init PROVE OrderInv
  OBVIOUS
<1>1. \A u \in Users : Resetting(u) = {} /\ Turning(u) = {}
  BY DEF Init, Resetting, Turning
<1>2. 0 \in Reader!Positions(NoList)
  BY DEF Reader!Positions, NoList
<1>3. \A u \in Users : current[u] = 0 /\ pages[u] = NoList
  BY DEF Init
<1>4. QED
  BY <1>1, <1>2, <1>3 DEF OrderInv, PageInBounds, OneAccess, FreshRead

\* While a user's accesses come in turn, one at most is under way, and what it has
\* read of the page and the list is still so when it writes; whatever comes, the
\* maps hold what their types say.
THEOREM InvHolds == Spec => []Inv
<1> USE DEF Inv
<1>1. TypeOK /\ OrderInv /\ [Next]_vars => (TypeOK /\ OrderInv)'
  BY TypeStep, OrderStep
<1>2. QED
  BY TypeInit, OrderInit, <1>1, PTL DEF Spec

\* A user whose accesses came in turn since the last list has a page that is an
\* index of that list, however many other users, messages and restarts there are.
THEOREM PagesStayInBounds == Spec => []PageInBounds
<1>1. Inv => PageInBounds
  BY DEF Inv, OrderInv
<1>2. QED
  BY InvHolds, <1>1, PTL

-----------------------------------------------------------------------------
(* What the steps may do. *)

\* Only Render starts a reply.
LEMMA WhoReplies ==
  ASSUME TypeOK, [Next]_vars, NEW h \in Presses, reply'[h] # reply[h]
  PROVE  Render(h) \/ reply'[h] = Blank
<1>1. ASSUME NEW k \in Presses, Arrow(k) PROVE Render(h) \/ reply'[h] = Blank
  BY <1>1 DEF Arrow, PressArrow, Load, Store, Render, TakeReply, TypeOK
<1>2. ASSUME NEW m \in Messages, Fetching(m) PROVE UNCHANGED reply
  BY <1>2 DEF Fetching, PressSolution, FetchFails, StoreList, ResetPage,
              TakeThinking, TakeEdit, arrows
<1>3. QED
  BY <1>1, <1>2 DEF Next, ChooseLanguage, Restart, vars, arrows

\* Whatever other threads do, what is rendered for an orderly user is a page of
\* the newest list.
THEOREM RendersStayInBounds == Spec => RendersInBounds
<1> DEFINE Goal(h) ==
      reply[h] = Blank /\ reply'[h] # Blank /\ orderly[Owner(h)] =>
        /\ reply'[h].list = pages[Owner(h)]
        /\ reply'[h].page \in Reader!Positions(pages[Owner(h)])
<1>1. TypeOK /\ OrderInv /\ [Next]_vars => [\A h \in Presses : Goal(h)]_vars
  <2> SUFFICES ASSUME TypeOK, OrderInv, [Next]_vars, NEW h \in Presses,
                      reply[h] = Blank, reply'[h] # Blank, orderly[Owner(h)]
               PROVE  /\ reply'[h].list = pages[Owner(h)]
                      /\ reply'[h].page \in Reader!Positions(pages[Owner(h)])
    OBVIOUS
  <2>0. PICK u \in Users : u = Owner(h)
    BY DEF Owner, TypeOK
  <2>1. Render(h)
    BY WhoReplies
  <2>2. h \in Turning(u)
    BY <2>0, <2>1 DEF Render, Turning
  <2>3. saw[h] = current[u] /\ Resetting(u) = {}
    BY <2>0, <2>2 DEF OrderInv, OneAccess, FreshRead
  <2>4. current[u] \in Reader!Positions(pages[u])
    BY <2>0, <2>3 DEF OrderInv, PageInBounds
  <2>5. reply'[h] = Page(pages[u], current[u])
    BY <2>0, <2>1, <2>3 DEF Render, TypeOK
  <2>6. QED
    BY <2>0, <2>4, <2>5 DEF Page
<1>2. QED
  BY InvHolds, <1>1, PTL DEF Spec, Inv, RendersInBounds

\* A thread past the check of who pressed the button works for its own user.
OwnPress == \A h \in Presses : press[h] # "idle" => clicker[h] = Owner(h)

LEMMA OwnPressStep == TypeOK /\ OwnPress /\ [Next]_vars => OwnPress'
<1> SUFFICES ASSUME TypeOK, OwnPress, [Next]_vars PROVE OwnPress'
  OBVIOUS
<1>1. UNCHANGED asked
  BY DEF Next, ChooseLanguage, Fetching, PressSolution, FetchFails, StoreList,
         ResetPage, TakeThinking, TakeEdit, Arrow, PressArrow, Load, Store,
         Render, TakeReply, Restart, vars
<1>2. \A h \in Presses : Owner(h)' = Owner(h) /\ clicker'[h] = clicker[h]
  BY <1>1 DEF asked, Owner
<1>3. ASSUME NEW k \in Presses, Arrow(k)
      PROVE  \A h \in Presses :
               press'[h] # "idle" => press[h] # "idle" \/ clicker[h] = Owner(h)
  BY <1>3 DEF Arrow, PressArrow, Load, Store, Render, TakeReply, TypeOK
<1>4. ASSUME NEW m \in Messages, Fetching(m) PROVE UNCHANGED press
  BY <1>4 DEF Fetching, PressSolution, FetchFails, StoreList, ResetPage,
              TakeThinking, TakeEdit, arrows
<1>5. QED
  BY <1>2, <1>3, <1>4 DEF OwnPress, Next, ChooseLanguage, Restart, vars, arrows

\* No press of another user, at any point of any handler, moves a user's page.
THEOREM OnlyOwnersTurn == Spec => TurnedByOwner
<1> DEFINE Goal(u) ==
      current'[u] # current[u] =>
        \/ \E h \in Presses : press[h] = "store" /\ clicker[h] = u
        \/ Resetting(u) # {}
        \/ restarts' # restarts
<1>1. Init => OwnPress
  BY DEF Init, OwnPress
<1>2. TypeOK /\ OwnPress /\ [Next]_vars => [\A u \in Users : Goal(u)]_vars
  <2> SUFFICES ASSUME TypeOK, OwnPress, [Next]_vars,
                      NEW u \in Users, current'[u] # current[u]
               PROVE  \/ \E h \in Presses : press[h] = "store" /\ clicker[h] = u
                      \/ Resetting(u) # {}
                      \/ restarts' # restarts
    OBVIOUS
  <2>1. ASSUME NEW h \in Presses, Arrow(h)
        PROVE  press[h] = "store" /\ clicker[h] = u
    <3>1. Store(h)
      BY <2>1 DEF Arrow, PressArrow, Load, Render, TakeReply, maps
    <3>2. QED
      BY <3>1 DEF Store, OwnPress, TypeOK
  <2>2. ASSUME NEW m \in Messages, Fetching(m) PROVE m \in Resetting(u)
    <3>1. ResetPage(m)
      BY <2>2 DEF Fetching, PressSolution, FetchFails, StoreList, TakeThinking,
                  TakeEdit, maps
    <3>2. QED
      BY <3>1 DEF ResetPage, Resetting, TypeOK
  <2>3. CASE Restart
    BY <2>3, PagesAssumption DEF Restart, TypeOK
  <2>4. QED
    BY <2>1, <2>2, <2>3 DEF Next, ChooseLanguage, vars, maps
<1>3. TypeOK /\ OwnPress /\ [Next]_vars => OwnPress'
  BY OwnPressStep
<1>4. QED
  BY TypeCorrect, <1>1, <1>2, <1>3, PTL DEF Spec, TurnedByOwner

-----------------------------------------------------------------------------
(* Refinement. *)

\* A step that leaves the lists, the pages and the order as they are, and only
\* its own user at work, is a stutter for the reader.
LEMMA ReaderStutters ==
  ASSUME UNCHANGED <<pages, current, orderly>>,
         \A u \in Users : Resetting(u)' = Resetting(u)
  PROVE  UNCHANGED Reader!vars
BY DEF Reader!vars, Position

LEMMA ReaderStep ==
  TypeOK /\ OrderInv /\ [Next]_vars => [Reader!Next]_(Reader!vars)
<1> SUFFICES ASSUME TypeOK, OrderInv, [Next]_vars
             PROVE  Reader!Next \/ UNCHANGED Reader!vars
  OBVIOUS
<1>1. ASSUME UNCHANGED <<pages, current, asked, fetch, orderly>>
      PROVE  UNCHANGED Reader!vars
  BY <1>1, ReaderStutters DEF Resetting, asked
<1>2. ASSUME NEW m \in Messages, PressSolution(m) \/ FetchFails(m)
      PROVE  UNCHANGED Reader!vars
  <2>1. \A u \in Users : Resetting(u)' = Resetting(u)
    BY <1>2 DEF PressSolution, FetchFails, asked, Resetting, TypeOK
  <2>2. QED
    BY <1>2, <2>1, ReaderStutters DEF PressSolution, FetchFails, maps
<1>3. ASSUME NEW m \in Messages, StoreList(m) PROVE Reader!Next
  <2>0. PICK u \in Users : u = user[m]
    BY DEF TypeOK
  <2>1. /\ Resetting(u)' = Resetting(u) \cup {m}
        /\ \A v \in Users \ {u} : Resetting(v)' = Resetting(v)
    BY <1>3, <2>0 DEF StoreList, asked, Resetting, TypeOK
  <2>2. \A v \in Users \ {u} : Position'[v] = Position[v]
    BY <1>3, <2>1 DEF StoreList, Position
  <2>3. Position'[u] = 0
    BY <2>1 DEF Position
  <2>4. pages' = [pages EXCEPT ![u] = ListOf(m)] /\ ListOf(m) \in List
    BY <1>3, <2>0 DEF StoreList, ListOf, List, TypeOK
  <2>5. /\ orderly'[u] => orderly[u]
        /\ \A v \in Users \ {u} : orderly'[v] = orderly[v]
    BY <1>3, <2>0 DEF StoreList, Enter, TypeOK
  <2>6. CASE orderly'[u]
    <3>1. orderly' = orderly
      BY <1>3, <2>0, <2>6 DEF StoreList, Enter, TypeOK
    <3>2. Position' = [Position EXCEPT ![u] = 0]
      BY <2>2, <2>3 DEF Position
    <3>3. Reader!Open(u)
      BY <2>4, <3>1, <3>2 DEF Reader!Open
    <3>4. QED
      BY <3>3 DEF Reader!Next
  <2>7. CASE ~orderly'[u]
    <3>1. Reader!Disorder(u)
      BY <2>2, <2>4, <2>5, <2>7 DEF Reader!Disorder, TypeOK
    <3>2. QED
      BY <3>1 DEF Reader!Next
  <2>8. QED
    BY <2>6, <2>7
<1>4. ASSUME NEW m \in Messages, ResetPage(m) PROVE Reader!Next
  <2>0. PICK u \in Users : u = user[m]
    BY DEF TypeOK
  <2>1. /\ Resetting(u)' = Resetting(u) \ {m}
        /\ \A v \in Users \ {u} : Resetting(v)' = Resetting(v)
    BY <1>4, <2>0 DEF ResetPage, asked, Resetting, TypeOK
  <2>2. \A v \in Users \ {u} : Position'[v] = Position[v]
    BY <1>4, <2>0, <2>1 DEF ResetPage, Position, TypeOK
  <2>3. Position'[u] = 0
    BY <1>4, <2>0 DEF ResetPage, Position, TypeOK
  <2>4. UNCHANGED pages /\ \A v \in Users \ {u} : orderly'[v] = orderly[v]
    BY <1>4, <2>0 DEF ResetPage, TypeOK
  <2>5. CASE orderly'[u]
    <3>1. orderly' = [orderly EXCEPT ![u] = TRUE]
      BY <1>4, <2>0, <2>5 DEF ResetPage, TypeOK
    <3>2. Position' = [Position EXCEPT ![u] = 0]
      BY <2>2, <2>3 DEF Position
    <3>3. Reader!Restore(u)
      BY <2>4, <3>1, <3>2 DEF Reader!Restore
    <3>4. QED
      BY <3>3 DEF Reader!Next
  <2>6. CASE ~orderly'[u]
    <3>1. Reader!Disorder(u)
      BY <2>2, <2>4, <2>6 DEF Reader!Disorder
    <3>2. QED
      BY <3>1 DEF Reader!Next
  <2>7. QED
    BY <2>5, <2>6
<1>5. ASSUME NEW h \in Presses, PressArrow(h)
      PROVE  Reader!Next \/ UNCHANGED Reader!vars
  <2>0. PICK u \in Users : u = Owner(h)
    BY DEF Owner, TypeOK
  <2>1. UNCHANGED <<pages, Position>>
    BY <1>5 DEF PressArrow, maps, asked, fetches, Resetting, Position
  <2>2. CASE orderly'[u] = orderly[u]
    <3>1. orderly' = orderly
      BY <1>5, <2>0, <2>2 DEF PressArrow, Enter, TypeOK
    <3>2. QED
      BY <2>1, <3>1 DEF Reader!vars
  <2>3. CASE orderly'[u] # orderly[u]
    <3>1. ~orderly'[u] /\ \A v \in Users \ {u} : orderly'[v] = orderly[v]
      BY <1>5, <2>0, <2>3 DEF PressArrow, Enter, TypeOK
    <3>2. Reader!Disorder(u)
      BY <2>1, <3>1 DEF Reader!Disorder
    <3>3. QED
      BY <3>2 DEF Reader!Next
  <2>4. QED
    BY <2>2, <2>3
<1>6. ASSUME NEW h \in Presses, Store(h) PROVE Reader!Next
  <2>0. PICK u \in Users : u = Owner(h)
    BY DEF Owner, TypeOK
  <2>1. UNCHANGED <<pages, orderly>> /\ \A v \in Users : Resetting(v)' = Resetting(v)
    BY <1>6 DEF Store, asked, fetches, Resetting
  <2>2. current' = [current EXCEPT ![u] = saw[h] + step[h]]
    BY <1>6, <2>0 DEF Store
  <2>3. \A v \in Users \ {u} : Position'[v] = Position[v]
    BY <2>1, <2>2 DEF Position, TypeOK
  <2>4. CASE orderly[u]
    <3>1. h \in Turning(u) /\ press[h] = "store"
      BY <1>6, <2>0 DEF Store, Turning
    <3>2. /\ Resetting(u) = {}
          /\ saw[h] = current[u]
          /\ saw[h] + step[h] \in Reader!Positions(pages[u])
          /\ step[h] # 0
      BY <2>4, <3>1 DEF OrderInv, OneAccess, FreshRead
    <3>3. step[h] \in {-1, 1} /\ current[u] \in Int
      BY <3>2 DEF TypeOK
    <3>4. Position[u] = current[u] /\ Position'[u] = current[u] + step[h]
      BY <2>1, <2>2, <3>2 DEF Position, TypeOK
    <3>5. Position' = [Position EXCEPT ![u] = current[u] + step[h]]
      BY <2>3, <3>4 DEF Position
    <3>6. current[u] + step[h] \in
            {Position[u] - 1, Position[u] + 1} \cap Reader!Positions(pages[u])
      BY <3>2, <3>3, <3>4
    <3>7. Reader!Turn(u)
      BY <2>1, <2>4, <3>5, <3>6 DEF Reader!Turn
    <3>8. QED
      BY <3>7 DEF Reader!Next
  <2>5. CASE ~orderly[u]
    <3>1. Reader!Disorder(u)
      BY <2>1, <2>3, <2>5 DEF Reader!Disorder
    <3>2. QED
      BY <3>1 DEF Reader!Next
  <2>6. QED
    BY <2>4, <2>5
<1>7. CASE Restart
  <2>1. \A u \in Users : Resetting(u)' = {}
    BY <1>7 DEF Restart, Resetting, TypeOK
  <2>2. Position' = [u \in Users |-> 0]
    BY <1>7, <2>1 DEF Restart, Position
  <2>3. Reader!Restart
    BY <1>7, <2>2 DEF Restart, Reader!Restart, Reader!Fresh
  <2>4. QED
    BY <2>3 DEF Reader!Next
<1>8. ASSUME NEW u \in Users, ChooseLanguage(u)
      PROVE  UNCHANGED <<pages, current, asked, fetch, orderly>>
  BY <1>8 DEF ChooseLanguage, fetches
<1>9. ASSUME NEW m \in Messages, TakeThinking(m) \/ TakeEdit(m)
      PROVE  UNCHANGED <<pages, current, asked, fetch, orderly>>
  BY <1>9 DEF TakeThinking, TakeEdit, maps
<1>10. ASSUME NEW h \in Presses, Load(h) \/ Render(h) \/ TakeReply(h)
       PROVE  UNCHANGED <<pages, current, asked, fetch, orderly>>
  BY <1>10 DEF Load, Render, TakeReply, maps, fetches
<1>11. CASE UNCHANGED vars
  BY <1>1, <1>11 DEF vars, maps, fetches
<1>12. QED
  BY <1>1, <1>2, <1>3, <1>4, <1>5, <1>6, <1>7, <1>8, <1>9, <1>10, <1>11
     DEF Next, Fetching, Arrow

\* The three unlocked maps, the fetches and the arrow threads are to each user a
\* pager: orderly reading is exact, and disorder is repaired by the next list.
THEOREM Refinement == Spec => ImplementsPager
<1>1. Init => Reader!Init
  <2> SUFFICES ASSUME Init PROVE Reader!Init
    OBVIOUS
  <2>1. \A u \in Users : Resetting(u) = {}
    BY DEF Init, Resetting
  <2>2. Position = [u \in Users |-> 0]
    BY <2>1 DEF Init, Position
  <2>3. QED
    BY <2>2 DEF Init, Reader!Init, Reader!Fresh
<1>2. TypeOK /\ OrderInv /\ [Next]_vars => [Reader!Next]_(Reader!vars)
  BY ReaderStep
<1>3. QED
  BY InvHolds, <1>1, <1>2, PTL DEF Spec, Inv, ImplementsPager, Reader!Spec

=============================================================================
