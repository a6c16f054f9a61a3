--------------------------- MODULE ProfileProofs ---------------------------
(***************************************************************************)
(* Profile, for any number of users, names, accounts, commands, statistics *)
(* and crashes.                                                            *)
(***************************************************************************)
EXTENDS Profile, TLAPS

-----------------------------------------------------------------------------
(* The invariant holds at the start. *)

LEMMA InvInit == Init => Inv
<1> SUFFICES ASSUME Init PROVE Inv
  OBVIOUS
<1>1. users = {} /\ DBTypeOK
  BY DEF Init, DBInit, DBTypeOK
<1>2. TypeOK
  <2>1. /\ username \in [Users -> Names]
        /\ solved \in [Accounts -> Stats]
        /\ user \in [Commands -> Users]
        /\ subcommand \in [Commands -> {"profile", "updateprofile"}]
    BY DEF Init
  <2>2. Says("none") \in Answers
    BY DEF Says, Answers, Texts
  <2>3. /\ pc \in [Commands -> Active \cup {"idle", "done", "lost"}]
        /\ name \in [Commands -> Names]
        /\ account \in [Commands -> Accounts \cup {NoAccount}]
        /\ http \in [Commands -> InFlight \cup {"none", "over"}]
        /\ got \in [Commands -> Stats \cup {NoStats}]
        /\ late \in [Commands -> SUBSET Answers]
        /\ crashes \in 0 .. MaxCrashes
    BY <2>1, ProfileAssumption DEF Init
  <2>4. QED
    BY <1>1, <2>1, <2>2, <2>3 DEF Init, TypeOK
<1>3. RowInv /\ StatsGenuine
  BY <1>1 DEF RowInv, StatsGenuine
<1>4. AccountInv /\ GotInv
  BY DEF Init, AccountInv, GotInv
<1>5. FreshInv
  BY DEF Init, FreshInv, Running, Active, InFlight
<1>6. OwnInv
  BY <1>1 DEF Init, OwnInv, Own, Says
<1>7. QED
  BY <1>2, <1>3, <1>4, <1>5, <1>6 DEF Inv, IInv

-----------------------------------------------------------------------------
(* Types.  What an UPDATE writes is a row because the exchange knows its    *)
(* account and its response has statistics.                                 *)

LEMMA UpdatedRow ==
  ASSUME IInv, NEW c \in Commands, http[c] = "update",
         NEW r \in users
  PROVE  /\ Updated(r, name[c], account[c], got[c]) \in Row
         /\ Updated(r, name[c], account[c], got[c]).row = r.row
         /\ Updated(r, name[c], account[c], got[c]).discord_id = r.discord_id
         /\ Updated(r, name[c], account[c], got[c]).discord_username = name[c]
         /\ Updated(r, name[c], account[c], got[c]).leetcode_username = account[c]
         /\ Updated(r, name[c], account[c], got[c]).stats = got[c]
<1>1. r \in Row /\ name[c] \in Names
  BY DEF IInv, TypeOK, DBTypeOK
<1>2. account[c] \in Accounts
  BY DEF IInv, TypeOK, AccountInv
<1>3. got[c] \in Stats
  BY DEF IInv, GotInv
<1>4. QED
  BY <1>1, <1>2, <1>3 DEF Row, Updated

\* The embed of an exchange is an answer.
LEMMA ProfileAnswer ==
  ASSUME NEW u \in Users, NEW s \in Stats \cup {NoStats}
  PROVE  Profile(u, s) \in Answers
BY DEF Profile, Answers

LEMMA TextAnswer ==
  ASSUME NEW t \in Texts
  PROVE  Says(t) \in Answers /\ Says(t).is # "profile"
BY DEF Says, Answers, Texts

LEMMA TypeStep == IInv /\ [Next]_vars => TypeOK'
<1> SUFFICES ASSUME IInv, [Next]_vars PROVE TypeOK'
  OBVIOUS
<1>0. TypeOK
  BY DEF IInv
<1> USE <1>0, TextAnswer DEF TypeOK, DBTypeOK, Active, InFlight, Texts
<1>1. ASSUME NEW c \in Commands, Issue(c) PROVE TypeOK'
  BY <1>1 DEF Issue, Step, dbVars, envVars, reqVars, netVars
<1>2. ASSUME NEW c \in Commands, Begin(c) PROVE TypeOK'
  BY <1>2 DEF Begin, Step, dbVars, envVars, reqVars, netVars
<1>3. ASSUME NEW c \in Commands, Lookup(c) PROVE TypeOK'
  BY <1>3 DEF Lookup, Step, dbVars, envVars, reqVars, netVars
<1>4. ASSUME NEW c \in Commands, Select(c) PROVE TypeOK'
  <2>1. PICK registered \in LeetcodeUsername(user[c]) :
          \/ /\ registered = NoAccount
             /\ ReplyWith(c, "select", Says("unregistered"))
             /\ UNCHANGED account
          \/ /\ registered # NoAccount
             /\ account' = [account EXCEPT ![c] = registered]
             /\ \/ subcommand[c] = "profile" /\ Step(c, "select", "announce")
                \/ subcommand[c] = "updateprofile" /\ Step(c, "select", "fetch")
             /\ UNCHANGED answer
    BY <1>4 DEF Select
  <2>2. registered \in Accounts \cup {NoAccount}
    BY <2>1 DEF LeetcodeUsername, RowsOf, Row
  <2>3. account' \in [Commands -> Accounts \cup {NoAccount}]
    BY <2>1, <2>2
  <2>4. /\ pc' \in [Commands -> Active \cup {"idle", "done", "lost"}]
        /\ answer' \in [Commands -> Answers]
    BY <2>1 DEF ReplyWith, Step
  <2>5. QED
    BY <1>4, <2>3, <2>4 DEF Select, dbVars, envVars, reqVars, netVars
<1>5. ASSUME NEW c \in Commands, Announce(c) PROVE TypeOK'
  BY <1>5 DEF Announce, Step, dbVars, envVars, reqVars, netVars
<1>6. ASSUME NEW c \in Commands, Exists(c) PROVE TypeOK'
  BY <1>6 DEF Exists, Step, dbVars, envVars, reqVars, netVars
<1>7. ASSUME NEW c \in Commands, Load(c) PROVE TypeOK'
  <2>1. ASSUME NEW r \in RowsNamed(name[c])
        PROVE  Profile(r.discord_id, r.stats) \in Answers
    BY ProfileAnswer DEF RowsNamed, Row
  <2>2. /\ pc' \in [Commands -> Active \cup {"idle", "done", "lost"}]
        /\ answer' \in [Commands -> Answers]
    BY <1>7, <2>1 DEF Load, LeetcodeProfile, ReplyWith, Step
  <2>3. QED
    BY <1>7, <2>2 DEF Load, dbVars, envVars, reqVars, netVars
<1>8. ASSUME NEW c \in Commands, Fetch(c) PROVE TypeOK'
  BY <1>8 DEF Fetch, Step, dbVars, envVars, reqVars
<1>9. ASSUME NEW c \in Commands, Reply(c) PROVE TypeOK'
  BY <1>9 DEF Reply, Edit, Step, dbVars, envVars, reqVars, netVars
<1>10. ASSUME NEW c \in Commands, HttpProfile(c) PROVE TypeOK'
  <2>1. account[c] \in Accounts
    BY <1>10 DEF HttpProfile, Exchange, IInv, AccountInv
  <2>2. QED
    BY <1>10, <2>1 DEF HttpProfile, Exchange, dbVars, envVars, reqVars, coVars
<1>11. ASSUME NEW c \in Commands, HttpFailed(c) PROVE TypeOK'
  BY <1>11 DEF HttpFailed, Exchange, Post, dbVars, envVars, reqVars, coVars
<1>12. ASSUME NEW c \in Commands, HttpRateLimited(c) \/ Retry(c) PROVE TypeOK'
  BY <1>12 DEF HttpRateLimited, Retry, Exchange, dbVars, envVars, reqVars, coVars
<1>13. ASSUME NEW c \in Commands PROVE Failure(c) \subseteq Answers
  BY <1>13, ProfileAnswer DEF Failure
<1>14. ASSUME NEW c \in Commands, UpdateCheck(c) PROVE TypeOK'
  BY <1>13, <1>14 DEF UpdateCheck, Exchange, Post, dbVars, envVars, reqVars, coVars
<1>15. ASSUME NEW c \in Commands, Update(c) PROVE TypeOK'
  <2>1. users' \subseteq Row /\ connected' \in BOOLEAN
    BY <1>15, UpdatedRow DEF Update, Exchange, UpdateRows, RowsOf, dbVars
  <2>2. {Profile(user[c], got[c])} \subseteq Answers
    BY ProfileAnswer
  <2>3. late' \in [Commands -> SUBSET Answers]
    BY <1>13, <1>15, <2>2 DEF Update, Post
  <2>4. QED
    BY <1>15, <2>1, <2>3 DEF Update, Exchange, envVars, reqVars, coVars
<1>16. ASSUME NEW c \in Commands, LateEdit(c) PROVE TypeOK'
  BY <1>16 DEF LateEdit, Edit, dbVars, envVars, reqVars, coVars
<1>17. ASSUME Start PROVE TypeOK'
  BY <1>17 DEF Start, Connect, envVars, reqVars, coVars, netVars
<1>18. ASSUME Crash PROVE TypeOK'
  <2>1. crashes' \in 0 .. MaxCrashes
    BY <1>18, ProfileAssumption DEF Crash
  <2>2. /\ pc' \in [Commands -> Active \cup {"idle", "done", "lost"}]
        /\ http' \in [Commands -> InFlight \cup {"none", "over"}]
        /\ late' \in [Commands -> SUBSET Answers]
    BY <1>18 DEF Crash
  <2>3. users' \subseteq Row /\ connected' \in BOOLEAN
    BY <1>18 DEF Crash, Disconnect
  <2>4. QED
    BY <1>18, <2>1, <2>2, <2>3 DEF Crash, envVars, reqVars
<1>19. ASSUME NEW u \in Users, NEW a \in Accounts, Register(u, a) PROVE TypeOK'
  <2>1. [row |-> u, discord_id |-> u, discord_username |-> username[u],
         leetcode_username |-> a, stats |-> NoStats] \in Row
    BY ProfileAssumption DEF Row
  <2>2. QED
    BY <1>19, <2>1 DEF Register, InsertRow, envVars, reqVars, coVars, netVars
<1>20. ASSUME NEW u \in Users, NEW n \in Names, Rename(u, n) PROVE TypeOK'
  BY <1>20 DEF Rename, dbVars, reqVars, coVars, netVars
<1>21. ASSUME NEW a \in Accounts, NEW s \in Stats, Solve(a, s) PROVE TypeOK'
  BY <1>21 DEF Solve, dbVars, reqVars, coVars, netVars
<1>22. CASE UNCHANGED vars
  BY <1>22 DEF vars, dbVars, envVars, reqVars, coVars, netVars
<1>23. QED
  BY <1>1, <1>2, <1>3, <1>4, <1>5, <1>6, <1>7, <1>8, <1>9, <1>10, <1>11, <1>12,
     <1>14, <1>15, <1>16, <1>17, <1>18, <1>19, <1>20, <1>21, <1>22
  DEF Next, Coroutine, Completion, Environment

-----------------------------------------------------------------------------
(* What a step does to the table.  Only an UPDATE and a registration write  *)
(* it.                                                                      *)

LEMMA UsersStep ==
  ASSUME [Next]_vars
  PROVE  \/ users' = users
         \/ \E c \in Commands : /\ Update(c) /\ http[c] = "update"
                                /\ UpdateRows(user[c], name[c], account[c], got[c])
         \/ \E u \in Users, a \in Accounts : Register(u, a)
<1>1. ASSUME NEW c \in Commands, Issue(c) \/ Coroutine(c) \/ LateEdit(c)
      PROVE  users' = users
  BY <1>1 DEF Issue, Coroutine, Begin, Lookup, Select, Announce, Exists, Load,
              Fetch, Reply, LateEdit, dbVars
<1>2. ASSUME NEW c \in Commands, Completion(c), ~Update(c)
      PROVE  users' = users
  BY <1>2 DEF Completion, HttpProfile, HttpFailed, HttpRateLimited, Retry,
              UpdateCheck, dbVars
<1>3. ASSUME NEW c \in Commands, Update(c)
      PROVE  \/ users' = users
             \/ /\ http[c] = "update"
                /\ UpdateRows(user[c], name[c], account[c], got[c])
  BY <1>3 DEF Update, Exchange, dbVars
<1>4. Start \/ Crash => users' = users
  BY DEF Start, Connect, Crash, Disconnect
<1>5. ASSUME Environment
      PROVE  \/ users' = users
             \/ \E u \in Users, a \in Accounts : Register(u, a)
  BY <1>5 DEF Environment, Rename, Solve, dbVars
<1>6. UNCHANGED vars => users' = users
  BY DEF vars, dbVars
<1>7. QED
  BY <1>1, <1>2, <1>3, <1>4, <1>5, <1>6 DEF Next

\* What UPDATE makes of the table, row by row.
LEMMA UpdateEffect ==
  ASSUME IInv, NEW c \in Commands, http[c] = "update",
         UpdateRows(user[c], name[c], account[c], got[c])
  PROVE  /\ \A s \in users' :
              \E r \in users : /\ s.row = r.row
                               /\ s.discord_id = r.discord_id
                               /\ IF r.discord_id = user[c]
                                  THEN /\ s.discord_username = name[c]
                                       /\ s.leetcode_username = account[c]
                                       /\ s.stats = got[c]
                                       /\ s = Updated(r, name[c], account[c], got[c])
                                  ELSE s = r
         /\ \A r \in users :
              IF r.discord_id = user[c]
              THEN Updated(r, name[c], account[c], got[c]) \in users'
              ELSE r \in users'
BY UpdatedRow DEF UpdateRows, RowsOf

\* A registration adds one row, of a user who had none.
LEMMA RegisterEffect ==
  ASSUME IInv, NEW u \in Users, NEW a \in Accounts, Register(u, a)
  PROVE  /\ \A r \in users : r.discord_id # u
         /\ users \subseteq users'
         /\ \A s \in users' : \/ s \in users
                              \/ /\ s.row = u
                                 /\ s.discord_id = u
                                 /\ s.discord_username = username[u]
                                 /\ s.leetcode_username = a
                                 /\ s.stats = NoStats
         /\ \A s, t \in users' \ users : s = t
BY DEF Register, InsertRow, RowsOf

LEMMA RowStep == IInv /\ [Next]_vars => RowInv'
<1> SUFFICES ASSUME IInv, [Next]_vars PROVE RowInv'
  OBVIOUS
<1>0. RowInv
  BY DEF IInv
<1>1. CASE users' = users
  BY <1>0, <1>1 DEF RowInv
<1>2. ASSUME NEW c \in Commands, http[c] = "update",
             UpdateRows(user[c], name[c], account[c], got[c])
      PROVE  RowInv'
  <2>1. \A s \in users' :
          \E r \in users : /\ s.row = r.row
                           /\ s.discord_id = r.discord_id
                           /\ IF r.discord_id = user[c]
                              THEN s = Updated(r, name[c], account[c], got[c])
                              ELSE s = r
    BY <1>2, UpdateEffect
  <2>2. \A s \in users' : s.row = s.discord_id
    BY <1>0, <2>1 DEF RowInv
  <2>3. ASSUME NEW s \in users', NEW t \in users', s.discord_id = t.discord_id
        PROVE  s = t
    <3>1. PICK q \in users :
            /\ s.discord_id = q.discord_id
            /\ IF q.discord_id = user[c]
               THEN s = Updated(q, name[c], account[c], got[c])
               ELSE s = q
      BY <2>1
    <3>2. PICK r \in users :
            /\ t.discord_id = r.discord_id
            /\ IF r.discord_id = user[c]
               THEN t = Updated(r, name[c], account[c], got[c])
               ELSE t = r
      BY <2>1
    <3>3. q = r
      BY <1>0, <2>3, <3>1, <3>2 DEF RowInv
    <3>4. QED
      BY <3>1, <3>2, <3>3
  <2>4. QED
    BY <2>2, <2>3 DEF RowInv
<1>3. ASSUME NEW u \in Users, NEW a \in Accounts, Register(u, a) PROVE RowInv'
  <2>1. /\ \A r \in users : r.discord_id # u
        /\ \A s \in users' : s \in users \/ (s.row = u /\ s.discord_id = u)
        /\ \A s, t \in users' \ users : s = t
    BY <1>3, RegisterEffect
  <2>2. QED
    BY <1>0, <2>1 DEF RowInv
<1>4. QED
  BY <1>1, <1>2, <1>3, UsersStep

\* A step never takes a link away or makes another of it: an UPDATE writes the
\* account its user is linked to.
LEMMA LinkStep ==
  ASSUME IInv, [Next]_vars, NEW r \in users
  PROVE  \E s \in users' : /\ s.row = r.row
                           /\ s.discord_id = r.discord_id
                           /\ s.leetcode_username = r.leetcode_username
<1>1. CASE users' = users
  BY <1>1
<1>2. ASSUME NEW c \in Commands, http[c] = "update",
             UpdateRows(user[c], name[c], account[c], got[c])
      PROVE  \E s \in users' : /\ s.row = r.row
                               /\ s.discord_id = r.discord_id
                               /\ s.leetcode_username = r.leetcode_username
  <2>1. CASE r.discord_id # user[c]
    BY <1>2, <2>1, UpdateEffect
  <2>2. CASE r.discord_id = user[c]
    <3>1. account[c] # NoAccount
      BY <1>2 DEF IInv, AccountInv
    <3>2. PICK q \in RowsOf(user[c]) : q.leetcode_username = account[c]
      BY <3>1 DEF IInv, AccountInv
    <3>3. q = r
      BY <2>2 DEF RowsOf, IInv, RowInv
    <3>4. Updated(r, name[c], account[c], got[c]) \in users'
      BY <1>2, <2>2, UpdateEffect
    <3>5. QED
      BY <1>2, <3>2, <3>3, <3>4, UpdatedRow
  <2>3. QED
    BY <2>1, <2>2
<1>3. ASSUME NEW u \in Users, NEW a \in Accounts, Register(u, a)
      PROVE  r \in users'
  BY <1>3, RegisterEffect
<1>4. QED
  BY <1>1, <1>2, <1>3, UsersStep

-----------------------------------------------------------------------------
(* What a step does to the accounts the commands know.                      *)

LEMMA UserStep == [Next]_vars => user' = user
BY DEF Next, vars, reqVars, Issue, Coroutine, Begin, Lookup, Select, Announce,
   Exists, Load, Fetch, Reply, Completion, HttpProfile, HttpFailed,
   HttpRateLimited, Retry, UpdateCheck, Update, LateEdit, Start, Crash,
   Environment, Register, Rename, Solve

LEMMA AccountStep == IInv /\ [Next]_vars => AccountInv'
<1> SUFFICES ASSUME IInv, [Next]_vars PROVE AccountInv'
  OBVIOUS
<1>0. TypeOK /\ AccountInv
  BY DEF IInv
<1>1. user' = user
  BY UserStep
<1>2. ASSUME NEW d \in Commands, account'[d] = account[d], account[d] # NoAccount
      PROVE  \E r \in RowsOf(user[d])' : r.leetcode_username = account'[d]
  <2>1. PICK r \in RowsOf(user[d]) : r.leetcode_username = account[d]
    BY <1>0, <1>2 DEF AccountInv
  <2>2. PICK s \in users' : /\ s.discord_id = r.discord_id
                            /\ s.leetcode_username = r.leetcode_username
    BY <2>1, LinkStep DEF RowsOf
  <2>3. QED
    BY <1>1, <1>2, <2>1, <2>2 DEF RowsOf
<1> DEFINE Known(d) ==
      /\ pc[d] \in {"idle", "begin", "lookup", "select"} => http[d] = "none"
      /\ pc[d] \in {"announce", "exists", "load", "fetch"} \/ http[d] # "none" =>
           account[d] # NoAccount
<1>3. ASSUME account' = account, \A d \in Commands : Known(d)'
      PROVE  AccountInv'
  BY <1>2, <1>3 DEF AccountInv
<1>4. \A d \in Commands : Known(d)
  BY <1>0 DEF AccountInv
<1>5. ASSUME NEW c \in Commands,
             \/ Issue(c) \/ Begin(c) \/ Lookup(c) \/ Announce(c) \/ Exists(c)
             \/ Load(c) \/ Fetch(c) \/ Reply(c)
      PROVE  AccountInv'
  <2>1. account' = account
    BY <1>5 DEF Issue, Begin, Lookup, Announce, Exists, Load, Fetch, Reply
  <2>2. CASE Issue(c) \/ Begin(c) \/ Lookup(c)
    <3>1. \A d \in Commands : Known(d)'
      BY <1>0, <1>4, <2>1, <2>2 DEF Issue, Begin, Lookup, Step, ReplyWith,
         netVars, TypeOK
    <3>2. QED
      BY <1>3, <2>1, <3>1
  <2>3. CASE Announce(c) \/ Exists(c) \/ Load(c)
    <3>1. \A d \in Commands : Known(d)'
      BY <1>0, <1>4, <2>1, <2>3 DEF Announce, Exists, Load, Step, ReplyWith,
         netVars, TypeOK
    <3>2. QED
      BY <1>3, <2>1, <3>1
  <2>4. CASE Fetch(c) \/ Reply(c)
    <3>1. \A d \in Commands : Known(d)'
      BY <1>0, <1>4, <2>1, <2>4 DEF Fetch, Reply, Step, netVars, TypeOK
    <3>2. QED
      BY <1>3, <2>1, <3>1
  <2>5. QED
    BY <1>5, <2>2, <2>3, <2>4
<1>6. ASSUME NEW c \in Commands, Select(c) PROVE AccountInv'
  <2>1. /\ http' = http
        /\ users' = users
        /\ \A d \in Commands \ {c} : pc'[d] = pc[d] /\ account'[d] = account[d]
    BY <1>0, <1>6 DEF Select, netVars, dbVars, ReplyWith, Step, TypeOK
  <2>2. pc[c] = "select"
    BY <1>6 DEF Select, ReplyWith, Step
  <2>3. \/ pc'[c] = "reply" /\ account'[c] = account[c]
        \/ /\ pc'[c] \in {"announce", "fetch"}
           /\ account'[c] # NoAccount
           /\ \E r \in RowsOf(user[c]) : r.leetcode_username = account'[c]
    BY <1>0, <1>6 DEF Select, LeetcodeUsername, ReplyWith, Step, TypeOK
  <2>4. \A d \in Commands : Known(d)'
    BY <1>4, <2>1, <2>2, <2>3
  <2>5. ASSUME NEW d \in Commands, account'[d] # NoAccount
        PROVE  \E r \in RowsOf(user[d])' : r.leetcode_username = account'[d]
    <3>1. CASE account'[d] = account[d]
      BY <1>2, <2>5, <3>1
    <3>2. CASE account'[d] # account[d]
      BY <1>1, <2>1, <2>3, <3>2 DEF RowsOf
    <3>3. QED
      BY <3>1, <3>2
  <2>6. QED
    BY <2>4, <2>5 DEF AccountInv
<1>7. ASSUME NEW c \in Commands, Completion(c) \/ LateEdit(c)
      PROVE  AccountInv'
  <2>1. account' = account /\ pc' = pc
    BY <1>7 DEF Completion, HttpProfile, HttpFailed, HttpRateLimited, Retry,
       UpdateCheck, Update, LateEdit, coVars
  <2>2. \A d \in Commands : http[d] = "none" <=> http'[d] = "none"
    BY <1>0, <1>7 DEF Completion, HttpProfile, HttpFailed, HttpRateLimited, Retry,
       UpdateCheck, Update, LateEdit, Exchange, TypeOK
  <2>3. QED
    BY <1>3, <1>4, <2>1, <2>2
<1>8. ASSUME Crash PROVE AccountInv'
  <2>1. account' = account
    BY <1>8 DEF Crash
  <2>2. \A d \in Commands : Known(d)'
    BY <1>4, <1>8, <2>1 DEF Crash
  <2>3. QED
    BY <1>3, <2>1, <2>2
<1>9. ASSUME Start \/ Environment \/ UNCHANGED vars PROVE AccountInv'
  <2>1. account' = account /\ pc' = pc /\ http' = http
    BY <1>9 DEF Start, Environment, Register, Rename, Solve, coVars, netVars, vars
  <2>2. QED
    BY <1>3, <1>4, <2>1
<1>10. QED
  BY <1>5, <1>6, <1>7, <1>8, <1>9 DEF Next, Coroutine

-----------------------------------------------------------------------------
(* Statistics.  A response is at most what the account has solved when it   *)
(* is served, and accounts only solve more.                                 *)

LEMMA SolvedStep ==
  ASSUME IInv, [Next]_vars, NEW a \in Accounts
  PROVE  solved[a] \in Nat /\ solved'[a] \in Nat /\ solved[a] <= solved'[a]
<1>1. solved \in [Accounts -> Stats] /\ solved[a] \in Nat
  BY ProfileAssumption DEF IInv, TypeOK
<1>2. solved' = solved \/ \E b \in Accounts, s \in Stats : Solve(b, s)
  BY DEF Next, vars, envVars, Issue, Coroutine, Begin, Lookup, Select, Announce,
     Exists, Load, Fetch, Reply, Completion, HttpProfile, HttpFailed,
     HttpRateLimited, Retry, UpdateCheck, Update, LateEdit, Start, Crash,
     Environment, Register, Rename
<1>3. ASSUME NEW b \in Accounts, NEW s \in Stats, Solve(b, s)
      PROVE  solved'[a] \in Nat /\ solved[a] <= solved'[a]
  <2>1. s \in Nat /\ solved[b] \in Nat /\ s > solved[b]
    BY <1>1, <1>3, ProfileAssumption DEF Solve
  <2>2. solved'[a] = IF a = b THEN s ELSE solved[a]
    BY <1>1, <1>3 DEF Solve
  <2>3. QED
    BY <1>1, <2>1, <2>2
<1>4. QED
  BY <1>1, <1>2, <1>3

LEMMA GotStep == IInv /\ [Next]_vars => GotInv'
<1> SUFFICES ASSUME IInv, [Next]_vars PROVE GotInv'
  OBVIOUS
<1>0. TypeOK /\ GotInv /\ AccountInv
  BY DEF IInv
<1>1. ASSUME NEW d \in Commands, http'[d] \in {"check", "update"},
             http[d] \in {"check", "update"}, got'[d] = got[d],
             account'[d] = account[d]
      PROVE  got'[d] \in Stats /\ got'[d] <= solved'[account'[d]]
  <2>1. account[d] \in Accounts
    BY <1>0, <1>1 DEF AccountInv, TypeOK
  <2>2. got[d] \in Nat /\ got[d] <= solved[account[d]] /\ got[d] \in Stats
    BY <1>0, <1>1, ProfileAssumption DEF GotInv
  <2>3. QED
    BY <1>1, <2>1, <2>2, SolvedStep
<1>2. ASSUME NEW c \in Commands, HttpProfile(c) PROVE GotInv'
  <2>1. account[c] \in Accounts /\ account' = account
    BY <1>0, <1>2 DEF AccountInv, TypeOK, HttpProfile, Exchange, coVars
  <2>2. got'[c] = solved[account[c]] /\ got'[c] \in Stats
    BY <1>0, <1>2, <2>1 DEF HttpProfile, TypeOK
  <2>3. got'[c] <= solved'[account'[c]]
    BY <2>1, <2>2, SolvedStep
  <2>4. \A d \in Commands \ {c} : got'[d] = got[d] /\ http'[d] = http[d]
    BY <1>0, <1>2 DEF HttpProfile, Exchange, TypeOK
  <2>5. QED
    BY <1>1, <2>1, <2>2, <2>3, <2>4 DEF GotInv
<1>3. ASSUME \A d \in Commands : /\ got'[d] = got[d]
                                 /\ account'[d] = account[d] \/ http'[d] = "none"
                                 /\ http'[d] \in {"check", "update"} =>
                                      http[d] \in {"check", "update"}
      PROVE  GotInv'
  BY <1>1, <1>3 DEF GotInv
<1>4. ASSUME NEW c \in Commands,
             \/ Issue(c) \/ Coroutine(c) \/ LateEdit(c)
             \/ Completion(c) /\ ~HttpProfile(c)
      PROVE  GotInv'
  <2>1. got' = got
    BY <1>4 DEF Issue, Coroutine, Begin, Lookup, Select, Announce, Exists, Load,
       Fetch, Reply, LateEdit, Completion, HttpFailed, HttpRateLimited, Retry,
       UpdateCheck, Update, netVars
  <2>2. \A d \in Commands : http'[d] \in {"check", "update"} =>
                              http[d] \in {"check", "update"}
    BY <1>0, <1>4 DEF Issue, Coroutine, Begin, Lookup, Select, Announce, Exists,
       Load, Fetch, Reply, LateEdit, Completion, HttpFailed, HttpRateLimited,
       Retry, UpdateCheck, Update, Exchange, netVars, TypeOK
  <2>3. \A d \in Commands : account'[d] = account[d] \/ http'[d] = "none"
    <3>1. CASE Select(c)
      <4>1. http' = http /\ http[c] = "none"
        BY <1>0, <3>1 DEF Select, ReplyWith, Step, netVars, AccountInv
      <4>2. \A d \in Commands \ {c} : account'[d] = account[d]
        BY <1>0, <3>1 DEF Select, TypeOK
      <4>3. QED
        BY <4>1, <4>2
    <3>2. CASE ~Select(c)
      BY <1>4, <3>2 DEF Issue, Coroutine, Begin, Lookup, Announce, Exists, Load,
         Fetch, Reply, LateEdit, Completion, HttpFailed, HttpRateLimited, Retry,
         UpdateCheck, Update, coVars
    <3>3. QED
      BY <3>1, <3>2
  <2>4. QED
    BY <1>3, <2>1, <2>2, <2>3
<1>5. ASSUME Start \/ Crash \/ Environment \/ UNCHANGED vars PROVE GotInv'
  <2>1. got' = got /\ account' = account
    BY <1>5 DEF Start, Crash, Environment, Register, Rename, Solve, coVars,
       netVars, vars
  <2>2. \A d \in Commands : http'[d] \in {"check", "update"} =>
                              http[d] \in {"check", "update"}
    BY <1>5 DEF Start, Crash, Environment, Register, Rename, Solve, netVars, vars
  <2>3. QED
    BY <1>3, <2>1, <2>2
<1>6. QED
  BY <1>2, <1>4, <1>5 DEF Next

LEMMA GenuineStep == IInv /\ [Next]_vars => StatsGenuine'
<1> SUFFICES ASSUME IInv, [Next]_vars,
                    NEW s \in users', s.stats # NoStats
             PROVE  s.stats <= solved'[s.leetcode_username]
  BY DEF StatsGenuine
<1>1. CASE s \in users
  <2>1. s.leetcode_username \in Accounts /\ s.stats \in Nat
        /\ s.stats <= solved[s.leetcode_username]
    BY <1>1, ProfileAssumption DEF IInv, TypeOK, DBTypeOK, Row, StatsGenuine
  <2>2. QED
    BY <2>1, SolvedStep
<1>2. ASSUME NEW c \in Commands, http[c] = "update", s \notin users,
             UpdateRows(user[c], name[c], account[c], got[c])
      PROVE  s.stats <= solved'[s.leetcode_username]
  <2>1. s.leetcode_username = account[c] /\ s.stats = got[c]
    BY <1>2, UpdateEffect
  <2>2. account[c] \in Accounts
    BY <1>2 DEF IInv, AccountInv, TypeOK
  <2>3. got[c] \in Nat /\ got[c] <= solved[account[c]]
    BY <1>2, ProfileAssumption DEF IInv, GotInv
  <2>4. QED
    BY <2>1, <2>2, <2>3, SolvedStep
<1>3. ASSUME NEW u \in Users, NEW a \in Accounts, Register(u, a), s \notin users
      PROVE  FALSE
  BY <1>3, RegisterEffect
<1>4. QED
  BY <1>1, <1>2, <1>3, UsersStep

LEMMA IInvStep == IInv /\ [Next]_vars => IInv'
BY TypeStep, RowStep, AccountStep, GotStep, GenuineStep DEF IInv

LEMMA IInvInvariant == Spec => []IInv
<1>1. Init => IInv
  BY InvInit DEF Inv
<1>2. QED
  BY <1>1, IInvStep, PTL DEF Spec

-----------------------------------------------------------------------------
(* Without overlap: one running command per user, and no staler response    *)
(* than the row it will be written to.                                      *)

\* A command starts to run only by being issued.
LEMMA RunningStep ==
  ASSUME IInv, [Next]_vars, NEW d \in Commands, Running(d)'
  PROVE  \/ Running(d)
         \/ Issue(d) /\ pc' = [pc EXCEPT ![d] = "begin"] /\ http' = http
<1> USE DEF Running, Active, InFlight
<1>0. TypeOK
  BY DEF IInv
<1>1. ASSUME NEW c \in Commands, Issue(c)
      PROVE  Running(d) \/ (c = d /\ pc' = [pc EXCEPT ![d] = "begin"] /\ http' = http)
  BY <1>0, <1>1 DEF Issue, Step, netVars, TypeOK
<1>2. ASSUME NEW c \in Commands, Coroutine(c) PROVE Running(d)
  BY <1>0, <1>2 DEF Coroutine, Begin, Lookup, Select, Announce, Exists, Load,
     Fetch, Reply, Step, ReplyWith, netVars, TypeOK
<1>3. ASSUME NEW c \in Commands, Completion(c) \/ LateEdit(c) PROVE Running(d)
  BY <1>0, <1>3 DEF Completion, HttpProfile, HttpFailed, HttpRateLimited, Retry,
     UpdateCheck, Update, Exchange, LateEdit, coVars, TypeOK
<1>4. Start \/ Environment \/ UNCHANGED vars => Running(d)
  BY DEF Start, Environment, Register, Rename, Solve, coVars, netVars, vars
<1>5. Crash => Running(d)
  BY <1>0 DEF Crash, TypeOK
<1>6. QED
  BY <1>1, <1>2, <1>3, <1>4, <1>5 DEF Next

\* A response that waits to be written was served just now, or waited before.
LEMMA WaitingStep ==
  ASSUME IInv, [Next]_vars, NEW d \in Commands, http'[d] \in {"check", "update"}
  PROVE  \/ HttpProfile(d)
         \/ http[d] \in {"check", "update"} /\ got'[d] = got[d]
<1>0. TypeOK
  BY DEF IInv
<1>1. ASSUME NEW c \in Commands, HttpProfile(c), c # d
      PROVE  http'[d] = http[d] /\ got'[d] = got[d]
  BY <1>0, <1>1 DEF HttpProfile, Exchange, TypeOK
<1>2. ASSUME NEW c \in Commands,
             \/ Issue(c) \/ Coroutine(c) \/ LateEdit(c)
             \/ Completion(c) /\ ~HttpProfile(c)
      PROVE  http[d] \in {"check", "update"} /\ got'[d] = got[d]
  BY <1>0, <1>2 DEF Issue, Coroutine, Begin, Lookup, Select, Announce, Exists,
     Load, Fetch, Reply, LateEdit, Completion, HttpFailed, HttpRateLimited,
     Retry, UpdateCheck, Update, Exchange, netVars, TypeOK
<1>3. Start \/ Crash \/ Environment \/ UNCHANGED vars =>
        http[d] \in {"check", "update"} /\ got'[d] = got[d]
  BY DEF Start, Crash, Environment, Register, Rename, Solve, netVars, vars
<1>4. QED
  BY <1>1, <1>2, <1>3 DEF Next

LEMMA FreshStep == IInv /\ FreshInv /\ [Next]_vars => FreshInv'
<1> SUFFICES ASSUME IInv, FreshInv, [Next]_vars, ~Overlap PROVE FreshInv'
  BY DEF FreshInv
<1>0. TypeOK /\ RowInv /\ AccountInv /\ GotInv /\ StatsGenuine /\ user' = user
  BY UserStep DEF IInv
<1>1. ASSUME NEW c \in Commands, NEW d \in Commands,
             user[c] = user[d], Running(c), Running(d)
      PROVE  c = d
  BY <1>1 DEF FreshInv
<1>2. ASSUME NEW c \in Commands, NEW d \in Commands,
             user[c] = user[d], Running(c)', Running(d)'
      PROVE  c = d
  <2>1. CASE Running(c) /\ Running(d)
    BY <1>1, <1>2, <2>1
  <2>2. ASSUME NEW x \in Commands, NEW y \in Commands, user[x] = user[y],
               Running(y)', Issue(x), pc' = [pc EXCEPT ![x] = "begin"],
               http' = http
        PROVE  x = y
    <3>1. ~Running(y)
      BY <2>2 DEF Issue
    <3>2. y # x => (Running(y)' <=> Running(y))
      BY <1>0, <2>2 DEF Running, TypeOK
    <3>3. QED
      BY <2>2, <3>1, <3>2
  <2>3. QED
    BY <1>2, <2>1, <2>2, RunningStep
<1>3. ASSUME NEW d \in Commands, http'[d] \in {"check", "update"},
             NEW s \in users', s.discord_id = user[d], s.stats # NoStats
      PROVE  s.stats <= got'[d]
  <2>1. CASE HttpProfile(d)
    <3>1. users' = users /\ http[d] = "sent" /\ got'[d] = solved[account[d]]
      BY <1>0, <2>1 DEF HttpProfile, Exchange, dbVars, TypeOK
    <3>2. PICK r \in RowsOf(user[d]) : r.leetcode_username = account[d]
      BY <1>0, <3>1 DEF AccountInv
    <3>3. r = s
      BY <1>0, <1>3, <3>1, <3>2 DEF RowInv, RowsOf
    <3>4. QED
      BY <1>0, <1>3, <3>1, <3>2, <3>3 DEF StatsGenuine
  <2>2. CASE http[d] \in {"check", "update"} /\ got'[d] = got[d]
    <3>1. s \in users => s.stats <= got'[d]
      BY <1>3, <2>2 DEF FreshInv, RowsOf
    <3>2. ASSUME NEW c \in Commands, Update(c), http[c] = "update", s \notin users,
                 UpdateRows(user[c], name[c], account[c], got[c])
          PROVE  FALSE
      <4>1. s.discord_id = user[c]
        BY <3>2, UpdateEffect
      <4>2. c = d
        BY <1>1, <1>3, <2>2, <3>2, <4>1 DEF Running, InFlight
      <4>3. http'[c] = "over"
        BY <1>0, <3>2 DEF Update, Exchange, TypeOK
      <4>4. QED
        BY <1>3, <4>2, <4>3
    <3>3. ASSUME NEW u \in Users, NEW a \in Accounts, Register(u, a)
          PROVE  s \in users
      BY <1>3, <3>3, RegisterEffect
    <3>4. QED
      BY <3>1, <3>2, <3>3, UsersStep
  <2>3. QED
    BY <1>3, <2>1, <2>2, WaitingStep
<1>4. QED
  BY <1>0, <1>2, <1>3 DEF FreshInv, RowsOf

-----------------------------------------------------------------------------
(* Without renames: the row a name finds is the row of the user who bears   *)
(* it.                                                                      *)

LEMMA OwnStep == IInv /\ OwnInv /\ [Next]_vars => OwnInv'
<1> SUFFICES ASSUME IInv, OwnInv, [Next]_vars, ~Renames PROVE OwnInv'
  BY DEF OwnInv
<1>0. /\ TypeOK /\ RowInv /\ AccountInv /\ GotInv
      /\ user' = user
  BY UserStep DEF IInv
<1>1. /\ Distinct(username)
      /\ \A r \in users : r.discord_username = username[r.discord_id]
      /\ \A c \in Commands :
           /\ name[c] = username[user[c]]
           /\ pc[c] = "load" => \A r \in RowsOf(user[c]) : r.stats # NoStats
           /\ Own(c, answer[c])
           /\ Own(c, shown[c])
           /\ \A ans \in late[c] : Own(c, ans)
  BY DEF OwnInv
<1>2. username' = username
  BY DEF Next, vars, envVars, Issue, Coroutine, Begin, Lookup, Select, Announce,
     Exists, Load, Fetch, Reply, Completion, HttpProfile, HttpFailed,
     HttpRateLimited, Retry, UpdateCheck, Update, LateEdit, Start, Crash,
     Environment, Register, Rename, Solve
<1>3. ASSUME NEW s \in users'
      PROVE  s.discord_username = username'[s.discord_id]
  <2>1. ASSUME NEW c \in Commands, http[c] = "update",
               UpdateRows(user[c], name[c], account[c], got[c])
        PROVE  s \in users \/ (s.discord_id = user[c] /\ s.discord_username = name[c])
    BY <2>1, UpdateEffect
  <2>2. ASSUME NEW u \in Users, NEW a \in Accounts, Register(u, a)
        PROVE  s \in users \/ (s.discord_id = u /\ s.discord_username = username[u])
    BY <2>2, RegisterEffect
  <2>3. QED
    BY <1>1, <1>2, <2>1, <2>2, UsersStep
<1>4. ASSUME NEW d \in Commands PROVE name'[d] = username'[user'[d]]
  <2>1. name' = name \/ Lookup(d) \/ \E c \in Commands \ {d} : Lookup(c)
    BY DEF Next, vars, coVars, Issue, Coroutine, Begin, Select, Announce, Exists,
       Load, Fetch, Reply, Completion, HttpProfile, HttpFailed, HttpRateLimited,
       Retry, UpdateCheck, Update, LateEdit, Start, Crash, Environment, Register,
       Rename, Solve
  <2>2. QED
    BY <1>0, <1>1, <1>2, <2>1 DEF Lookup, TypeOK
\* Which row a command loads.
<1>5. ASSUME NEW c \in Commands, NEW r \in RowsNamed(name[c])
      PROVE  r \in RowsOf(user[c])
  BY <1>0, <1>1, <1>5 DEF RowsNamed, RowsOf, Distinct, TypeOK, DBTypeOK, Row
<1>6. ASSUME NEW d \in Commands, Exists(d), pc'[d] = "load"
      PROVE  \A r \in RowsOf(user[d]) : r.stats # NoStats
  <2>1. pc[d] = "exists" /\ TRUE \in StatsExist(name[d])
    BY <1>0, <1>6 DEF Exists, Step, TypeOK
  <2>2. PICK q \in RowsOf(user[d]) : q.leetcode_username = account[d]
    BY <1>0, <2>1 DEF AccountInv
  <2>3. q \in RowsNamed(name[d])
    BY <1>1, <2>2 DEF RowsNamed, RowsOf
  <2>4. PICK r \in RowsNamed(name[d]) : r.stats # NoStats
    BY <2>1, <2>3 DEF StatsExist
  <2>5. QED
    BY <1>0, <1>5, <2>4 DEF RowInv, RowsOf
<1>7. ASSUME NEW d \in Commands, pc'[d] = "load"
      PROVE  \A s \in users' : s.discord_id = user'[d] => s.stats # NoStats
  <2>1. pc[d] = "load" \/ (Exists(d) /\ users' = users)
    <3>1. ASSUME NEW c \in Commands, Issue(c) \/ Coroutine(c)
          PROVE  pc[d] = "load" \/ (Exists(d) /\ users' = users)
      BY <1>0, <1>7, <3>1 DEF Issue, Coroutine, Begin, Lookup, Select, Announce,
         Exists, Load, Fetch, Reply, Step, ReplyWith, dbVars, TypeOK
    <3>2. ASSUME NEW c \in Commands, Completion(c) \/ LateEdit(c)
          PROVE  pc' = pc
      BY <3>2 DEF Completion, HttpProfile, HttpFailed, HttpRateLimited, Retry,
         UpdateCheck, Update, LateEdit, coVars
    <3>3. Start \/ Environment \/ UNCHANGED vars => pc' = pc
      BY DEF Start, Environment, Register, Rename, Solve, coVars, vars
    <3>4. Crash => pc[d] = "load"
      BY <1>0, <1>7 DEF Crash, TypeOK
    <3>5. QED
      BY <1>7, <3>1, <3>2, <3>3, <3>4 DEF Next
  <2>2. CASE Exists(d) /\ users' = users
    BY <1>0, <1>6, <1>7, <2>2 DEF RowsOf
  <2>3. CASE pc[d] = "load"
    <3>1. \A r \in users : r.discord_id = user[d] => r.stats # NoStats
      BY <1>1, <2>3 DEF RowsOf
    <3>2. PICK q \in users : q.discord_id = user[d]
      BY <1>0, <2>3 DEF AccountInv, RowsOf
    <3>3. ASSUME NEW c \in Commands, http[c] = "update", NEW s \in users',
                 UpdateRows(user[c], name[c], account[c], got[c])
          PROVE  s \in users \/ s.stats # NoStats
      BY <1>0, <3>3, UpdateEffect, DBAssumption DEF GotInv
    <3>4. ASSUME NEW u \in Users, NEW a \in Accounts, Register(u, a),
                 NEW s \in users'
          PROVE  s \in users \/ s.discord_id # user[d]
      BY <3>2, <3>4, RegisterEffect
    <3>5. QED
      BY <1>0, <3>1, <3>3, <3>4, UsersStep
  <2>4. QED
    BY <2>1, <2>2, <2>3
\* Which answers a command may give.
<1>8. ASSUME NEW c \in Commands, NEW t \in Texts PROVE Own(c, Says(t))
  BY TextAnswer DEF Own
<1>9. ASSUME NEW c \in Commands, http[c] \in {"check", "update"}
      PROVE  /\ Own(c, Profile(user[c], got[c]))
             /\ \A ans \in Failure(c) : Own(c, ans)
  <2>1. got[c] # NoStats
    BY <1>0, <1>9, DBAssumption DEF GotInv
  <2>2. Own(c, Profile(user[c], got[c]))
    BY <2>1 DEF Own, Profile
  <2>3. "update_failed" \in Texts
    BY DEF Texts
  <2>4. QED
    BY <1>8, <2>2, <2>3 DEF Failure
<1>10. ASSUME NEW c \in Commands, pc[c] = "load", NEW r \in RowsNamed(name[c])
       PROVE  Own(c, Profile(r.discord_id, r.stats))
  BY <1>1, <1>5, <1>10 DEF Own, Profile, RowsOf
<1>11. ASSUME NEW d \in Commands PROVE Own(d, answer'[d])
  <2>1. \/ answer'[d] = answer[d]
        \/ \E t \in Texts : answer'[d] = Says(t)
        \/ /\ pc[d] = "load"
           /\ \E r \in RowsNamed(name[d]) :
                answer'[d] = Profile(r.discord_id, r.stats)
    <3>1. ASSUME NEW c \in Commands, Select(c)
          PROVE  answer'[d] = answer[d] \/ \E t \in Texts : answer'[d] = Says(t)
      BY <1>0, <3>1 DEF Select, ReplyWith, Texts, TypeOK
    <3>2. ASSUME NEW c \in Commands, Load(c)
          PROVE  \/ answer'[d] = answer[d]
                 \/ \E t \in Texts : answer'[d] = Says(t)
                 \/ /\ pc[d] = "load"
                    /\ \E r \in RowsNamed(name[d]) :
                         answer'[d] = Profile(r.discord_id, r.stats)
      BY <1>0, <3>2 DEF Load, LeetcodeProfile, ReplyWith, Step, Texts, TypeOK
    <3>3. \/ answer' = answer
          \/ \E c \in Commands : Select(c) \/ Load(c)
      BY DEF Next, vars, coVars, Issue, Coroutine, Begin, Lookup, Announce, Exists,
         Fetch, Reply, Completion, HttpProfile, HttpFailed, HttpRateLimited,
         Retry, UpdateCheck, Update, LateEdit, Start, Crash, Environment,
         Register, Rename, Solve
    <3>4. QED
      BY <3>1, <3>2, <3>3
  <2>2. QED
    BY <1>1, <1>8, <1>10, <2>1
<1>12. ASSUME NEW d \in Commands PROVE Own(d, shown'[d])
  <2>1. \/ shown'[d] = shown[d]
        \/ shown'[d] = answer[d]
        \/ \E t \in Texts : shown'[d] = Says(t)
        \/ shown'[d] \in late[d]
    <3>1. ASSUME NEW c \in Commands, Begin(c)
          PROVE  shown'[d] = shown[d] \/ \E t \in Texts : shown'[d] = Says(t)
      BY <1>0, <3>1 DEF Begin, Texts, TypeOK
    <3>2. ASSUME NEW c \in Commands, Reply(c) \/ LateEdit(c)
          PROVE  \/ shown'[d] = shown[d]
                 \/ shown'[d] = answer[d]
                 \/ shown'[d] \in late[d]
      BY <1>0, <3>2 DEF Reply, LateEdit, Edit, TypeOK
    <3>3. \/ shown' = shown
          \/ \E c \in Commands : Begin(c) \/ Reply(c) \/ LateEdit(c)
      BY DEF Next, vars, Issue, Coroutine, Lookup, Select, Announce, Exists, Load, Fetch,
         Completion, HttpProfile, HttpFailed, HttpRateLimited, Retry, UpdateCheck,
         Update, Start, Crash, Environment, Register, Rename, Solve
    <3>4. QED
      BY <3>1, <3>2, <3>3
  <2>2. QED
    BY <1>1, <1>8, <2>1
<1>13. ASSUME NEW d \in Commands, NEW ans \in late'[d] PROVE Own(d, ans)
  <2>1. ASSUME NEW c \in Commands, HttpFailed(c) PROVE Own(d, ans)
    <3>1. ans \in late[d] \/ ans = Says("fetch_failed")
      BY <1>0, <1>13, <2>1 DEF HttpFailed, Post, TypeOK
    <3>2. "fetch_failed" \in Texts
      BY DEF Texts
    <3>3. QED
      BY <1>1, <1>8, <3>1, <3>2
  <2>2. ASSUME NEW c \in Commands, UpdateCheck(c) \/ Update(c) PROVE Own(d, ans)
    <3>1. http[c] \in {"check", "update"}
      BY <2>2 DEF UpdateCheck, Update, Exchange
    <3>2. \/ ans \in late[d]
          \/ c = d /\ (ans = Profile(user[c], got[c]) \/ ans \in Failure(c))
      BY <1>0, <1>13, <2>2 DEF UpdateCheck, Update, Post, TypeOK
    <3>3. QED
      BY <1>1, <1>9, <3>1, <3>2
  <2>3. ASSUME NEW c \in Commands, LateEdit(c) PROVE ans \in late[d]
    BY <1>0, <1>13, <2>3 DEF LateEdit, TypeOK
  <2>4. Crash => FALSE
    BY <1>13 DEF Crash
  <2>5. \/ late' = late
        \/ Crash
        \/ \E c \in Commands :
             HttpFailed(c) \/ UpdateCheck(c) \/ Update(c) \/ LateEdit(c)
    BY DEF Next, vars, netVars, Issue, Coroutine, Begin, Lookup, Select, Announce,
       Exists, Load, Fetch, Reply, Completion, HttpProfile, HttpRateLimited,
       Retry, Start, Environment, Register, Rename, Solve
  <2>6. QED
    BY <1>1, <1>13, <2>1, <2>2, <2>3, <2>4, <2>5
<1>14. QED
  BY <1>0, <1>1, <1>2, <1>3, <1>4, <1>7, <1>11, <1>12, <1>13
  DEF OwnInv, Own, RowsOf, Distinct

\* The inductive invariant: links, rows and pending requests agree, a fetch that
\* runs alone is as fresh as the row it will write, and an answer is the caller's.
THEOREM InvInvariant == Spec => []Inv
<1>1. Inv /\ [Next]_vars => Inv'
  BY IInvStep, FreshStep, OwnStep DEF Inv
<1>2. QED
  BY <1>1, InvInit, PTL DEF Spec

-----------------------------------------------------------------------------
(* Theorems for every user, overlap, rename, crash and retry.               *)

\* Every variable keeps its type: an UPDATE always writes a row, with an account
\* and the statistics of a response.
THEOREM TypeCorrect == Spec => []TypeOK
<1>1. IInv => TypeOK
  BY DEF IInv
<1>2. QED
  BY <1>1, IInvInvariant, PTL

\* The statistics in a row are statistics of the account it is linked to, at
\* some earlier moment: whatever fetches overlap, no UPDATE mixes two accounts.
THEOREM StatsAreGenuine == Spec => []StatsGenuine
<1>1. IInv => StatsGenuine
  BY DEF IInv
<1>2. QED
  BY <1>1, IInvInvariant, PTL

\* updateProfile never relinks, adds or loses a user.
THEOREM LinksAreStable == Spec => LinksStand
<1>1. ASSUME IInv, [Next]_vars
      PROVE  [\A r \in users : \E s \in users' :
                /\ s.row = r.row
                /\ s.discord_id = r.discord_id
                /\ s.leetcode_username = r.leetcode_username]_users
  BY <1>1, LinkStep
<1>2. QED
  BY <1>1, IInvInvariant, PTL DEF Spec, LinksStand

\* Where the commands of a user do not overlap, no UPDATE puts older statistics
\* over newer ones: nothing writes the row between a response and its UPDATE.
THEOREM StatsOnlyGrow == Spec => StatsNeverGoBack
<1>1. ASSUME Inv, [Next]_vars, ~Overlap, NEW r \in users, NEW s \in users',
             r.row = s.row, r.stats # NoStats
      PROVE  s.stats # NoStats /\ r.stats <= s.stats
  <2>0. IInv /\ RowInv /\ FreshInv /\ RowInv' /\ r.stats \in Nat
    BY <1>1, RowStep, ProfileAssumption DEF Inv, IInv, TypeOK, DBTypeOK, Row
  <2>1. r.discord_id = s.discord_id
    BY <1>1, <2>0 DEF RowInv
  <2>2. CASE s \in users
    BY <1>1, <2>0, <2>1, <2>2 DEF RowInv
  <2>3. ASSUME NEW c \in Commands, http[c] = "update", s \notin users,
               UpdateRows(user[c], name[c], account[c], got[c])
        PROVE  s.stats # NoStats /\ r.stats <= s.stats
    <3>1. s.discord_id = user[c] /\ s.stats = got[c]
      BY <2>0, <2>3, UpdateEffect
    <3>2. got[c] # NoStats
      BY <2>0, <2>3, DBAssumption DEF IInv, GotInv
    <3>3. r.stats <= got[c]
      BY <1>1, <2>0, <2>1, <2>3, <3>1 DEF FreshInv, RowsOf
    <3>4. QED
      BY <3>1, <3>2, <3>3
  <2>4. ASSUME NEW u \in Users, NEW a \in Accounts, Register(u, a), s \notin users
        PROVE  FALSE
    BY <2>0, <2>1, <2>4, RegisterEffect
  <2>5. QED
    BY <1>1, <2>2, <2>3, <2>4, UsersStep
<1>2. ASSUME Inv, [Next]_vars
      PROVE  [~Overlap => \A r \in users, s \in users' :
               r.row = s.row /\ r.stats # NoStats => /\ s.stats # NoStats
                                                     /\ r.stats <= s.stats]_users
  BY <1>1, <1>2
<1>3. QED
  BY <1>2, InvInvariant, PTL DEF Spec, StatsNeverGoBack

\* Where nobody renames, a profile is shown to the user whose row it is.
THEOREM OwnProfileShown == Spec => []ShowsOwnProfile
<1>1. Inv => ShowsOwnProfile
  BY DEF Inv, OwnInv, Own, ShowsOwnProfile
<1>2. QED
  BY <1>1, InvInvariant, PTL

=============================================================================
