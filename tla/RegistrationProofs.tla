------------------------- MODULE RegistrationProofs -------------------------
(***************************************************************************)
(* Registration, for any number of users, names, accounts, commands and    *)
(* crashes.                                                                *)
(***************************************************************************)
EXTENDS Registration, TLAPS

-----------------------------------------------------------------------------
(* Types and requests.  retry_count stays in its type only because a retry  *)
(* thread is started below the limit, and a row its name because the lookup *)
(* found one, so the three are one induction.                               *)

LEMMA BaseInit == Init => BaseInv
<1> SUFFICES ASSUME Init PROVE BaseInv
  OBVIOUS
<1>1. TypeOK
  <2>1. DBTypeOK
    BY DEF Init, DBInit, DBTypeOK
  <2>1a. retry \in [Commands -> 0 .. MaxRetries]
    BY DEF Init, MaxRetries
  <2>2. promise \in [Commands -> [is : {"unset", "nullopt", "desc"},
                                  tags : SUBSET Names]]
    BY DEF Init, Unset
  <2>3. /\ username \in [Users -> Names \cup {NoName}]
        /\ aboutMe \in [Accounts -> SUBSET Names]
        /\ named \subseteq Users \X Names
        /\ published \subseteq Accounts \X Names
    BY DEF Init, NamePairs
  <2>4. /\ pc \in [Commands -> Active \cup {"idle", "done", "lost"}]
        /\ name \in [Commands -> Names \cup {NoName}]
        /\ answer \in [Commands -> Final \cup {"none", "refused"}]
        /\ http \in [Commands -> {"none", "sent", "backoff", "over"}]
        /\ shown \in [Commands -> Final \cup {"none", "pending"}]
        /\ late \in [Commands -> BOOLEAN]
        /\ crashes \in 0 .. MaxCrashes
        /\ requests \in [Commands -> Nat]
    BY RegAssumption DEF Init
  <2>5. QED
    BY <2>1, <2>1a, <2>2, <2>3, <2>4 DEF Init, TypeOK
<1>2. NameInv /\ RequestInv
  BY DEF Init, NameInv, RequestInv
<1>3. QED
  BY <1>1, <1>2 DEF BaseInv

\* Every step of the bot and of its environment keeps the types.
LEMMA TypeStep == BaseInv /\ [Next]_vars => TypeOK'
<1> SUFFICES ASSUME TypeOK, NameInv, RequestInv, [Next]_vars PROVE TypeOK'
  BY DEF BaseInv
<1> USE DBAssumption, RegAssumption DEF TypeOK, DBTypeOK, Active, Final
<1>1. ASSUME NEW c \in Commands, Issue(c) PROVE TypeOK'
  BY <1>1 DEF Issue, Step, dbVars, envVars, reqVars, netVars
<1>2. ASSUME NEW c \in Commands, Begin(c) PROVE TypeOK'
  BY <1>2 DEF Begin, Step, dbVars, envVars, reqVars, netVars
<1>3. ASSUME NEW c \in Commands, Dispatch(c) PROVE TypeOK'
  BY <1>3 DEF Dispatch, Step, ReplyWith, dbVars, envVars, reqVars, netVars
<1>4. ASSUME NEW c \in Commands, Lookup(c) PROVE TypeOK'
  <2>1. name' \in [Commands -> Names \cup {NoName}]
    BY <1>4 DEF Lookup
  <2>2. /\ pc' \in [Commands -> Active \cup {"idle", "done", "lost"}]
        /\ answer' \in [Commands -> Final \cup {"none", "refused"}]
    BY <1>4 DEF Lookup, Step, ReplyWith
  <2>3. QED
    BY <1>4, <2>1, <2>2 DEF Lookup, dbVars, envVars, reqVars, netVars
<1>5. ASSUME NEW c \in Commands, Select(c) PROVE TypeOK'
  BY <1>5 DEF Select, Step, ReplyWith, dbVars, envVars, reqVars, netVars
<1>6. ASSUME NEW c \in Commands, Fetch(c) PROVE TypeOK'
  BY <1>6 DEF Fetch, Step, dbVars, envVars, reqVars, MaxRetries
<1>7. ASSUME NEW c \in Commands, Resume(c) PROVE TypeOK'
  BY <1>7 DEF Resume, Step, ReplyWith, dbVars, envVars, reqVars, netVars
<1>8. ASSUME NEW c \in Commands, Count(c) PROVE TypeOK'
  BY <1>8 DEF Count, Step, ReplyWith, dbVars, envVars, reqVars, netVars
<1>9. ASSUME NEW c \in Commands, Insert(c) PROVE TypeOK'
  <2>1. pc[c] = "insert" /\ UNCHANGED connected
    BY <1>9 DEF Insert, InsertRow, Step, ReplyWith, dbVars
  <2>2. name[c] \in Names => RowFor(c) \in Row
    BY DEF RowFor, Row
  <2>3. users' \subseteq Row
    BY <1>9, <2>1, <2>2 DEF Insert, InsertRow, dbVars, NameInv
  <2>4. /\ pc' \in [Commands -> Active \cup {"idle", "done", "lost"}]
        /\ answer' \in [Commands -> Final \cup {"none", "refused"}]
    BY <1>9 DEF Insert, Step, ReplyWith
  <2>5. QED
    BY <1>9, <2>1, <2>3, <2>4 DEF Insert, envVars, reqVars, netVars
<1>10. ASSUME NEW c \in Commands, Reply(c) PROVE TypeOK'
  <2>1. /\ pc' \in [Commands -> Active \cup {"idle", "done", "lost"}]
        /\ answer' \in [Commands -> Final \cup {"none", "refused"}]
    BY <1>10 DEF Reply, Step
  <2>2. shown' \in [Commands -> Final \cup {"none", "pending"}]
    <3>1. CASE Edit(c, answer[c])
      <4>1. answer[c] \in Final
        BY <1>10 DEF Reply, Step, NameInv
      <4>2. QED
        BY <3>1, <4>1 DEF Edit
    <3>2. QED
      BY <1>10, <3>1 DEF Reply
  <2>3. QED
    BY <1>10, <2>1, <2>2 DEF Reply, dbVars, envVars, reqVars, netVars
<1>11. ASSUME NEW c \in Commands, Completion(c) PROVE TypeOK'
  <2> DEFINE Promises == [is : {"unset", "nullopt", "desc"},
                          tags : SUBSET Names]
  <2>1. NoDesc \in Promises /\ Desc(aboutMe[account[c]]) \in Promises
    BY DEF NoDesc, Desc
  <2>2. ASSUME NEW v \in Promises, Callback(c, v)
        PROVE  promise' \in [Commands -> Promises]
    BY <2>2 DEF Callback
  <2>3. promise' \in [Commands -> Promises]
    BY <1>11, <2>1, <2>2
       DEF Completion, HttpBio, HttpFailed, HttpNotFound, HttpRateLimited
  <2>4. /\ http' \in [Commands -> {"none", "sent", "backoff", "over"}]
        /\ late' \in [Commands -> BOOLEAN]
    BY <1>11 DEF Completion, HttpBio, HttpFailed, HttpNotFound, HttpRateLimited
  <2>5. UNCHANGED <<dbVars, envVars, reqVars, retry, requests, pc, name, answer,
                    shown, crashes>>
    BY <1>11 DEF Completion, HttpBio, HttpFailed, HttpNotFound, HttpRateLimited
  <2>6. QED
    BY <2>3, <2>4, <2>5 DEF dbVars, envVars, reqVars
<1>12. ASSUME NEW c \in Commands, Retry(c) PROVE TypeOK'
  <2>1. retry[c] \in 0 .. 2 /\ requests[c] \in Nat
    BY <1>12 DEF Retry, RequestInv, MayRetry, MaxRetries
  <2>2. /\ http' \in [Commands -> {"none", "sent", "backoff", "over"}]
        /\ retry' \in [Commands -> 0 .. MaxRetries]
        /\ requests' \in [Commands -> Nat]
    BY <1>12, <2>1 DEF Retry, MaxRetries
  <2>3. QED
    BY <1>12, <2>2 DEF Retry, dbVars, envVars, reqVars
<1>13. ASSUME NEW c \in Commands, LateEdit(c) PROVE TypeOK'
  BY <1>13 DEF LateEdit, Edit, dbVars, envVars, reqVars, netVars
<1>14. CASE Start
  BY <1>14 DEF Start, Connect, envVars, reqVars, netVars
<1>15. CASE Crash
  <2>1. crashes' \in 0 .. MaxCrashes
    BY <1>15 DEF Crash
  <2>2. /\ pc' \in [Commands -> Active \cup {"idle", "done", "lost"}]
        /\ http' \in [Commands -> {"none", "sent", "backoff", "over"}]
        /\ late' \in [Commands -> BOOLEAN]
    BY <1>15 DEF Crash
  <2>3. QED
    BY <1>15, <2>1, <2>2 DEF Crash, Disconnect, envVars, reqVars
<1>16. CASE Environment
  <2>1. ASSUME NEW u \in Users, NEW n \in Names \cup {NoName}, Rename(u, n)
        PROVE  TypeOK'
    <3>1. username' \in [Users -> Names \cup {NoName}]
      BY <2>1 DEF Rename
    <3>2. named' \subseteq Users \X Names
      BY <2>1 DEF Rename, NamePairs
    <3>3. QED
      BY <2>1, <3>1, <3>2 DEF Rename, dbVars, reqVars, netVars
  <2>2. ASSUME NEW a \in Accounts, NEW tags \in SUBSET Names, EditBio(a, tags)
        PROVE  TypeOK'
    <3>1. aboutMe' \in [Accounts -> SUBSET Names]
      BY <2>2 DEF EditBio
    <3>2. published' \subseteq Accounts \X Names
      BY <2>2 DEF EditBio
    <3>3. QED
      BY <2>2, <3>1, <3>2 DEF EditBio, dbVars, reqVars, netVars
  <2>3. QED
    BY <1>16, <2>1, <2>2 DEF Environment
<1>17. CASE UNCHANGED vars
  BY <1>17 DEF vars, dbVars, envVars, reqVars, netVars
<1>18. QED
  BY <1>1, <1>2, <1>3, <1>4, <1>5, <1>6, <1>7, <1>8, <1>9, <1>10, <1>11,
     <1>12, <1>13, <1>14, <1>15, <1>16, <1>17 DEF Next, Coroutine

\* Lookup alone writes the name, and never an empty one on its way to Select.
LEMMA NameStep == BaseInv /\ [Next]_vars => NameInv'
<1> SUFFICES ASSUME TypeOK, NameInv, [Next]_vars PROVE NameInv'
  BY DEF BaseInv
<1> USE DEF TypeOK, NameInv, Active, Final
<1>1. ASSUME NEW c \in Commands,
             Issue(c) \/ Coroutine(c), UNCHANGED name
      PROVE  NameInv'
  BY <1>1 DEF Coroutine, Issue, Begin, Dispatch, Lookup, Select, Fetch, Resume,
              Count, Insert, Reply, Step, ReplyWith
<1>2. ASSUME NEW c \in Commands, Lookup(c) PROVE NameInv'
  <2>1. /\ pc[c] = "lookup" /\ pc'[c] \in {"reply", "select"}
        /\ pc'[c] = "select" => name'[c] \in Names
        /\ pc'[c] = "reply" => answer'[c] \in Final
    BY <1>2 DEF Lookup, Step, ReplyWith
  <2>2. \A d \in Commands : c # d =>
          pc'[d] = pc[d] /\ name'[d] = name[d] /\ answer'[d] = answer[d]
    BY <1>2 DEF Lookup, Step, ReplyWith
  <2>3. QED
    BY <2>1, <2>2
<1>3. ASSUME NEW c \in Commands, Issue(c) \/ Coroutine(c)
      PROVE  Lookup(c) \/ UNCHANGED name
  BY <1>3 DEF Coroutine, Issue, Begin, Dispatch, Select, Fetch, Resume, Count,
              Insert, Reply
<1>4. ASSUME NEW c \in Commands, Completion(c) \/ Retry(c) \/ LateEdit(c)
      PROVE  NameInv'
  BY <1>4 DEF Completion, HttpBio, HttpFailed, HttpNotFound, HttpRateLimited,
              Retry, LateEdit
<1>5. CASE Crash
  BY <1>5 DEF Crash
<1>6. CASE Start \/ Environment \/ UNCHANGED vars
  BY <1>6 DEF Start, Environment, Rename, EditBio, vars
<1>7. QED
  BY <1>1, <1>2, <1>3, <1>4, <1>5, <1>6 DEF Next

\* A request is sent by Fetch, once, or by Retry, which raises retry_count.
LEMMA RequestStep == BaseInv /\ [Next]_vars => RequestInv'
<1> SUFFICES ASSUME TypeOK, RequestInv, [Next]_vars PROVE RequestInv'
  BY DEF BaseInv
<1> USE DEF TypeOK, RequestInv, MayRetry, MaxRetries, Active
<1>1. ASSUME NEW c \in Commands,
             Issue(c) \/ Coroutine(c), UNCHANGED netVars
      PROVE  RequestInv'
  BY <1>1 DEF Coroutine, Issue, Begin, Dispatch, Lookup, Select, Fetch, Resume,
              Count, Insert, Reply, Step, ReplyWith, netVars
<1>2. ASSUME NEW c \in Commands, Fetch(c) PROVE RequestInv'
  BY <1>2 DEF Fetch, Step
<1>3. ASSUME NEW c \in Commands, Completion(c) PROVE RequestInv'
  BY <1>3 DEF Completion, HttpBio, HttpFailed, HttpNotFound, HttpRateLimited
<1>4. ASSUME NEW c \in Commands, Retry(c) PROVE RequestInv'
  BY <1>4 DEF Retry
<1>5. CASE Crash
  BY <1>5 DEF Crash
<1>6. CASE \/ \E c \in Commands : LateEdit(c)
           \/ Start \/ Environment \/ UNCHANGED vars
  BY <1>6 DEF LateEdit, Start, Environment, Rename, EditBio, vars, netVars
<1>7. ASSUME NEW c \in Commands, Issue(c) \/ Coroutine(c)
      PROVE  Fetch(c) \/ UNCHANGED netVars
  BY <1>7 DEF Coroutine, Issue, Begin, Dispatch, Lookup, Select, Resume, Count,
              Insert, Reply
<1>8. QED
  BY <1>1, <1>2, <1>3, <1>4, <1>5, <1>6, <1>7 DEF Next

\* Every state is well typed, and a command's name and requests are what its
\* place in the coroutine and retry_count tell.
THEOREM TypeCorrect == Spec => []BaseInv
<1>1. BaseInv /\ [Next]_vars => BaseInv'
  BY TypeStep, NameStep, RequestStep DEF BaseInv
<1>2. QED
  BY BaseInit, <1>1, PTL DEF Spec

\* fetchLeetCodeDescription sends one request and at most three retries, however
\* LeetCode answers: passing retry_count + 1 by value bounds the exchange.
THEOREM RequestsAreBounded == Spec => []RequestsBounded
<1>1. BaseInv => RequestsBounded
  BY DEF BaseInv, TypeOK, RequestInv, RequestsBounded, MaxRetries
<1>2. QED
  BY TypeCorrect, <1>1, PTL

-----------------------------------------------------------------------------
(* Verification.  Between the lookup, the completion and the INSERT a user   *)
(* may be renamed and a bio rewritten, so what the coroutine holds is old:   *)
(* it is the histories, which only grow, that vouch for it.                 *)

\* The steps of the coroutines and of the HTTP exchanges leave the outside world
\* alone.
LEMMA WorldStep ==
  ASSUME NEW c \in Commands,
         Issue(c) \/ Coroutine(c) \/ Completion(c) \/ Retry(c) \/ LateEdit(c)
  PROVE  UNCHANGED <<envVars, reqVars>>
BY DEF Issue, Coroutine, Begin, Dispatch, Lookup, Select, Fetch, Resume, Count,
       Insert, Reply, Completion, HttpBio, HttpFailed, HttpNotFound,
       HttpRateLimited, Retry, LateEdit

LEMMA HistoriesGrow ==
  [Next]_vars => /\ published \subseteq published'
                 /\ named \subseteq named'
                 /\ UNCHANGED reqVars
<1> SUFFICES ASSUME [Next]_vars
             PROVE  /\ published \subseteq published'
                    /\ named \subseteq named'
                    /\ UNCHANGED reqVars
  OBVIOUS
<1>1. ASSUME NEW c \in Commands,
             Issue(c) \/ Coroutine(c) \/ Completion(c) \/ Retry(c) \/ LateEdit(c)
      PROVE  UNCHANGED <<envVars, reqVars>>
  BY <1>1, WorldStep
<1>2. CASE Start \/ Crash \/ UNCHANGED vars
  BY <1>2 DEF Start, Crash, vars, envVars
<1>3. CASE Environment
  BY <1>3 DEF Environment, Rename, EditBio
<1>4. QED
  BY <1>1, <1>2, <1>3 DEF Next, envVars

LEMMA HistoryStep == TypeOK /\ HistoryInv /\ [Next]_vars => HistoryInv'
<1> SUFFICES ASSUME TypeOK, HistoryInv, [Next]_vars PROVE HistoryInv'
  OBVIOUS
<1> USE DEF HistoryInv
<1>1. ASSUME NEW c \in Commands,
             Issue(c) \/ Coroutine(c) \/ Completion(c) \/ Retry(c) \/ LateEdit(c)
      PROVE  HistoryInv'
  BY <1>1, WorldStep DEF envVars
<1>2. CASE Start \/ Crash \/ UNCHANGED vars
  BY <1>2 DEF Start, Crash, vars, envVars
<1>3. ASSUME NEW u \in Users, NEW n \in Names \cup {NoName}, Rename(u, n)
      PROVE  HistoryInv'
  <2>1. \A v \in Users : username'[v] # NoName =>
                           <<v, username'[v]>> \in NamePairs(username')
    <3>1. username' \in [Users -> Names \cup {NoName}]
      BY <1>3 DEF Rename, TypeOK
    <3>2. QED
      BY <3>1 DEF NamePairs
  <2>2. \A b \in Accounts : \A m \in aboutMe'[b] : <<b, m>> \in published'
    BY <1>3 DEF Rename
  <2>3. NamePairs(username') \subseteq named'
    BY <1>3 DEF Rename
  <2>4. QED
    BY <2>1, <2>2, <2>3
<1>4. ASSUME NEW a \in Accounts, NEW tags \in SUBSET Names, EditBio(a, tags)
      PROVE  HistoryInv'
  <2>1. \A b \in Accounts : \A n \in aboutMe'[b] : <<b, n>> \in published'
    BY <1>4 DEF EditBio, TypeOK
  <2>2. QED
    BY <1>4, <2>1 DEF EditBio
<1>5. QED
  BY <1>1, <1>2, <1>3, <1>4 DEF Next, Environment

\* The name is the one the user bore at the lookup, the tags in the promise are
\* those of the bio the completion saw.
LEMMA KnowledgeStep ==
  BaseInv /\ HistoryInv /\ KnowledgeInv /\ [Next]_vars => KnowledgeInv'
<1> SUFFICES ASSUME TypeOK, RequestInv, HistoryInv, KnowledgeInv, [Next]_vars
             PROVE  KnowledgeInv'
  BY DEF BaseInv
<1> USE DEF KnowledgeInv, HasVerification, TypeOK, Active
<1>0. /\ published \subseteq published'
      /\ named \subseteq named'
      /\ UNCHANGED <<user, account>>
  BY HistoriesGrow DEF reqVars
<1>1. ASSUME NEW c \in Commands, Lookup(c) PROVE KnowledgeInv'
  <2>1. UNCHANGED promise
    BY <1>1 DEF Lookup, netVars
  <2>2. \A d \in Commands : name'[d] # NoName => <<user[d], name'[d]>> \in named
    BY <1>1 DEF Lookup, HistoryInv
  <2>3. \A d \in Commands : pc'[d] \in {"count", "insert"} =>
                              pc[d] = pc'[d] /\ name'[d] = name[d]
    BY <1>1 DEF Lookup, Step, ReplyWith
  <2>4. QED
    BY <1>0, <2>1, <2>2, <2>3
<1>2. ASSUME NEW c \in Commands, Resume(c) PROVE KnowledgeInv'
  BY <1>0, <1>2 DEF Resume, Step, ReplyWith, netVars
<1>3. ASSUME NEW c \in Commands,
             Issue(c) \/ Coroutine(c), ~Lookup(c), ~Resume(c)
      PROVE  KnowledgeInv'
  <2>1. UNCHANGED <<name, promise>>
    BY <1>3 DEF Issue, Coroutine, Begin, Dispatch, Select, Fetch, Count, Insert,
                Reply, netVars
  <2>2. \A d \in Commands : pc'[d] \in {"count", "insert"} =>
                              pc[d] \in {"count", "insert"}
    BY <1>3 DEF Issue, Coroutine, Begin, Dispatch, Select, Fetch, Count, Insert,
                Reply, Step, ReplyWith
  <2>3. QED
    BY <1>0, <2>1, <2>2
<1>4. ASSUME NEW c \in Commands, Completion(c) PROVE KnowledgeInv'
  <2>1. UNCHANGED <<pc, name>>
    BY <1>4 DEF Completion, HttpBio, HttpFailed, HttpNotFound, HttpRateLimited
  <2>2. \A d \in Commands : \/ promise'[d] = promise[d]
                            \/ /\ promise[d] = Unset
                               /\ promise'[d] = NoDesc
                            \/ /\ promise[d] = Unset
                               /\ promise'[d] = Desc(aboutMe[account[d]])
    BY <1>4 DEF Completion, HttpBio, HttpFailed, HttpNotFound, HttpRateLimited,
                Callback
  <2>3. \A d \in Commands : /\ promise[d].tags \subseteq promise'[d].tags
                            /\ \A n \in promise'[d].tags :
                                  <<account[d], n>> \in published
    <3> SUFFICES ASSUME NEW d \in Commands
                 PROVE  /\ promise[d].tags \subseteq promise'[d].tags
                        /\ \A n \in promise'[d].tags :
                              <<account[d], n>> \in published
      OBVIOUS
    <3>1. CASE promise'[d] = promise[d]
      BY <3>1
    <3>2. CASE promise[d] = Unset /\ promise'[d] = NoDesc
      BY <3>2 DEF Unset, NoDesc
    <3>3. CASE promise[d] = Unset /\ promise'[d] = Desc(aboutMe[account[d]])
      <4>1. promise[d].tags = {} /\ promise'[d].tags = aboutMe[account[d]]
        BY <3>3 DEF Unset, Desc
      <4>2. account[d] \in Accounts
        OBVIOUS
      <4>3. QED
        BY <4>1, <4>2 DEF HistoryInv
    <3>4. QED
      BY <2>2, <3>1, <3>2, <3>3
  <2>4. QED
    BY <1>0, <2>1, <2>3
<1>5. ASSUME NEW c \in Commands, Retry(c) \/ LateEdit(c) PROVE KnowledgeInv'
  BY <1>0, <1>5 DEF Retry, LateEdit, netVars
<1>6. CASE Crash
  BY <1>0, <1>6 DEF Crash
<1>7. CASE Start \/ Environment \/ UNCHANGED vars
  BY <1>0, <1>7 DEF Start, Environment, Rename, EditBio, netVars, vars
<1>8. QED
  BY <1>1, <1>2, <1>3, <1>4, <1>5, <1>6, <1>7 DEF Next, Coroutine

\* The table grows by Insert alone, and by its own row alone.
LEMMA TableStep ==
  [Next]_vars =>
    \/ UNCHANGED users
    \/ \E c \in Commands : Insert(c) /\ InsertRow(RowFor(c))
BY DEF Next, Issue, Coroutine, Begin, Dispatch, Lookup, Select, Fetch, Resume,
       Count, Insert, Reply, Completion, HttpBio, HttpFailed, HttpNotFound,
       HttpRateLimited, Retry, LateEdit, Start, Connect, Crash, Disconnect,
       Environment, Rename, EditBio, vars, dbVars

LEMMA VerifiedStep ==
  BaseInv /\ KnowledgeInv /\ RegistrationVerified /\ [Next]_vars
    => RegistrationVerified'
<1> SUFFICES ASSUME TypeOK, NameInv, KnowledgeInv, RegistrationVerified, [Next]_vars
             PROVE  RegistrationVerified'
  BY DEF BaseInv
<1> USE DEF RegistrationVerified
<1>1. published \subseteq published' /\ named \subseteq named'
  BY HistoriesGrow
<1>2. CASE UNCHANGED users
  BY <1>1, <1>2
<1>3. ASSUME NEW c \in Commands, Insert(c), InsertRow(RowFor(c))
      PROVE  RegistrationVerified'
  <2>1. pc[c] = "insert"
    BY <1>3 DEF Insert, Step, ReplyWith
  <2>2. /\ <<account[c], name[c]>> \in published
        /\ <<user[c], name[c]>> \in named
    BY <2>1, RegAssumption DEF KnowledgeInv, HasVerification, NameInv
  <2>3. users' = users \cup {RowFor(c)}
    BY <1>3 DEF InsertRow
  <2>4. ASSUME NEW r \in users'
        PROVE  /\ <<r.leetcode_username, r.discord_username>> \in published'
               /\ <<r.discord_id, r.discord_username>> \in named'
    <3>1. CASE r \in users
      BY <1>1, <3>1
    <3>2. CASE r = RowFor(c)
      <4>1. /\ r.leetcode_username = account[c]
            /\ r.discord_username = name[c]
            /\ r.discord_id = user[c]
        BY <3>2 DEF RowFor
      <4>2. QED
        BY <1>1, <2>2, <4>1
    <3>3. QED
      BY <2>3, <3>1, <3>2
  <2>5. QED
    BY <2>4
<1>4. QED
  BY <1>2, <1>3, TableStep

VerifiedInv == HistoryInv /\ KnowledgeInv /\ RegistrationVerified

LEMMA VerifiedInit == Init => VerifiedInv
<1> SUFFICES ASSUME Init PROVE VerifiedInv
  OBVIOUS
<1>1. HistoryInv
  BY DEF Init, HistoryInv, NamePairs
<1>2. KnowledgeInv
  BY DEF Init, KnowledgeInv, Unset
<1>3. RegistrationVerified
  BY DEF Init, DBInit, RegistrationVerified
<1>4. QED
  BY <1>1, <1>2, <1>3 DEF VerifiedInv

\* No interleaving of commands, renames, edited bios, retries and crashes makes a
\* row for an account whose owner never published a name of the user.
THEOREM RegistrationIsVerified == Spec => []RegistrationVerified
<1>1. BaseInv /\ VerifiedInv /\ [Next]_vars => VerifiedInv'
  BY HistoryStep, KnowledgeStep, VerifiedStep DEF VerifiedInv, BaseInv
<1>2. VerifiedInv => RegistrationVerified
  BY DEF VerifiedInv
<1>3. QED
  BY VerifiedInit, TypeCorrect, <1>1, <1>2, PTL DEF Spec

-----------------------------------------------------------------------------
(* Answers. *)

\* Rows are never deleted or rewritten, so a row a command has stays.
LEMMA RowStays ==
  ASSUME [Next]_vars, NEW c \in Commands
  PROVE  HasRow(c) => HasRow(c)'
<1>1. users \subseteq users'
  BY TableStep DEF InsertRow
<1>2. UNCHANGED <<user, account>>
  BY HistoriesGrow DEF reqVars
<1>3. QED
  BY <1>1, <1>2 DEF HasRow

\* "already" is answered only on a row that was read, "success" only on a row
\* that was inserted, and Reply shows what was answered.
LEMMA AnswerStep == TypeOK /\ AnswerInv /\ [Next]_vars => AnswerInv'
<1> SUFFICES ASSUME TypeOK, AnswerInv, [Next]_vars, NEW c \in Commands
             PROVE  /\ answer'[c] \in {"success", "already"} => HasRow(c)'
                    /\ shown'[c] \in {"success", "already"} => HasRow(c)'
  BY DEF AnswerInv
<1> USE DEF TypeOK
<1>1. HasRow(c) => HasRow(c)'
  BY RowStays
<1>2. /\ answer[c] \in {"success", "already"} => HasRow(c)
      /\ shown[c] \in {"success", "already"} => HasRow(c)
  BY DEF AnswerInv
<1>3. ASSUME NEW d \in Commands, Select(d)
      PROVE  answer'[c] \in {"success", "already"} => HasRow(c)'
  <2>1. ASSUME account[d] \in LeetcodeUsername(user[d]) PROVE HasRow(d)
    <3>1. account[d] # NoAccount
      BY DBAssumption
    <3>2. QED
      BY <2>1, <3>1 DEF LeetcodeUsername, RowsOf, HasRow
  <2>2. \/ answer'[c] = answer[c]
        \/ c = d /\ account[d] \in LeetcodeUsername(user[d])
    BY <1>3 DEF Select, ReplyWith
  <2>3. QED
    BY <1>1, <1>2, <2>1, <2>2
<1>4. ASSUME NEW d \in Commands, Insert(d)
      PROVE  answer'[c] \in {"success", "already"} => HasRow(c)'
  <2>1. ASSUME InsertRow(RowFor(c)), UNCHANGED <<user, account>> PROVE HasRow(c)'
    <3>1. RowFor(c) \in users'
      BY <2>1 DEF InsertRow
    <3>2. /\ RowFor(c).discord_id = user'[c]
          /\ RowFor(c).leetcode_username = account'[c]
      BY <2>1 DEF RowFor
    <3>3. QED
      BY <3>1, <3>2 DEF HasRow
  <2>2. \/ answer'[c] = answer[c]
        \/ answer'[c] = "failed"
        \/ c = d /\ InsertRow(RowFor(d))
    BY <1>4 DEF Insert, ReplyWith
  <2>3. UNCHANGED <<user, account>>
    BY HistoriesGrow DEF reqVars
  <2>4. QED
    BY <1>1, <1>2, <2>1, <2>2, <2>3
<1>5. ASSUME NEW d \in Commands,
             Issue(d) \/ Coroutine(d) \/ Completion(d) \/ Retry(d) \/ LateEdit(d),
             ~Select(d), ~Insert(d)
      PROVE  \/ answer'[c] = answer[c]
             \/ answer'[c] \notin {"success", "already"}
  BY <1>5 DEF Issue, Coroutine, Begin, Dispatch, Lookup, Fetch, Resume, Count,
              Reply, ReplyWith, Completion, HttpBio, HttpFailed, HttpNotFound,
              HttpRateLimited, Retry, LateEdit
<1>6. ASSUME NEW d \in Commands,
             Issue(d) \/ Coroutine(d) \/ Completion(d) \/ Retry(d) \/ LateEdit(d)
      PROVE  \/ shown'[c] = shown[c]
             \/ shown'[c] = answer[c]
             \/ shown'[c] \notin {"success", "already"}
  BY <1>6 DEF Issue, Coroutine, Begin, Dispatch, Lookup, Select, Fetch, Resume,
              Count, Insert, Reply, Edit, Completion, HttpBio, HttpFailed,
              HttpNotFound, HttpRateLimited, Retry, LateEdit
<1>7. CASE Start \/ Crash \/ Environment \/ UNCHANGED vars
  <2>1. UNCHANGED <<answer, shown>>
    BY <1>7 DEF Start, Crash, Environment, Rename, EditBio, vars
  <2>2. QED
    BY <1>1, <1>2, <2>1
<1>8. QED
  BY <1>1, <1>2, <1>3, <1>4, <1>5, <1>6, <1>7 DEF Next

\* A user told "Registered successfully!" or "already been registered" has a row
\* for that account, and keeps it, whatever fails, races or restarts.
THEOREM AnswersAreTruthful == Spec => []AnswersTruthful
<1>1. Init => AnswerInv
  BY DEF Init, AnswerInv
<1>2. BaseInv /\ AnswerInv /\ [Next]_vars => AnswerInv'
  BY AnswerStep DEF BaseInv
<1>3. AnswerInv => AnswersTruthful
  BY DEF AnswerInv, AnswersTruthful, HasRow
<1>4. QED
  BY TypeCorrect, <1>1, <1>2, <1>3, PTL DEF Spec

-----------------------------------------------------------------------------
(* Success stands. *)

\* A step of command d leaves the others alone, and the promise is fulfilled once.
LEMMA StandStep == BaseInv /\ StandInv /\ [Next]_vars => StandInv'
<1> SUFFICES ASSUME TypeOK, RequestInv, StandInv, [Next]_vars PROVE StandInv'
  BY DEF BaseInv
<1> USE DEF TypeOK, Active
<1>1. ASSUME NEW d \in Commands, Issue(d) \/ Begin(d) \/ Dispatch(d)
      PROVE  StandInv'
  BY <1>1 DEF Issue, Begin, Dispatch, Step, ReplyWith, StandInv, netVars
<1>2. ASSUME NEW d \in Commands, Lookup(d) PROVE StandInv'
  BY <1>2 DEF Lookup, Step, ReplyWith, StandInv, netVars
<1>3. ASSUME NEW d \in Commands, Select(d) PROVE StandInv'
  BY <1>3 DEF Select, Step, ReplyWith, StandInv, netVars
<1>4. ASSUME NEW d \in Commands, Fetch(d) PROVE StandInv'
  BY <1>4 DEF Fetch, Step, StandInv
<1>5. ASSUME NEW d \in Commands, Resume(d) PROVE StandInv'
  BY <1>5 DEF Resume, Step, ReplyWith, StandInv, netVars
<1>6. ASSUME NEW d \in Commands, Count(d) PROVE StandInv'
  BY <1>6 DEF Count, Step, ReplyWith, StandInv, netVars
<1>7. ASSUME NEW d \in Commands, Insert(d) PROVE StandInv'
  BY <1>7 DEF Insert, Step, ReplyWith, StandInv, netVars
<1>8. ASSUME NEW d \in Commands, Reply(d) PROVE StandInv'
  BY <1>8 DEF Reply, Edit, Step, StandInv, netVars
<1>9. ASSUME NEW d \in Commands, Completion(d) PROVE StandInv'
  <2>1. http[d] = "sent" /\ promise[d] = Unset /\ UNCHANGED <<pc, answer, shown>>
    BY <1>9 DEF Completion, HttpBio, HttpFailed, HttpNotFound, HttpRateLimited,
                StandInv
  <2>2. /\ pc[d] \notin {"idle", "begin", "dispatch", "lookup", "select", "fetch"}
        /\ pc[d] \notin {"count", "insert"} /\ answer[d] # "success"
    BY <2>1 DEF StandInv, RequestInv
  <2>3. /\ \A c \in Commands : c # d =>
             http'[c] = http[c] /\ promise'[c] = promise[c] /\ late'[c] = late[c]
        /\ http'[d] \in {"over", "backoff"}
        /\ http'[d] = "backoff" => promise'[d] = promise[d]
    BY <1>9, <2>1 DEF Completion, HttpBio, HttpFailed, HttpNotFound,
                      HttpRateLimited, Callback
  <2>4. late'[d] => promise'[d] = NoDesc
    <3>1. ~late[d]
      BY <2>1 DEF StandInv, Unset, NoDesc
    <3>2. late' = late \/ promise'[d] = NoDesc
      BY <1>9, <2>1 DEF Completion, HttpBio, HttpFailed, HttpNotFound,
                        HttpRateLimited, Callback
    <3>3. QED
      BY <3>1, <3>2
  <2>5. QED
    BY <2>1, <2>2, <2>3, <2>4 DEF StandInv
<1>10. ASSUME NEW d \in Commands, Retry(d) PROVE StandInv'
  BY <1>10 DEF Retry, StandInv
<1>11. ASSUME NEW d \in Commands, LateEdit(d) PROVE StandInv'
  BY <1>11 DEF LateEdit, Edit, StandInv, netVars
<1>12. CASE Crash
  BY <1>12 DEF Crash, StandInv
<1>13. CASE Start \/ Environment \/ UNCHANGED vars
  BY <1>13 DEF Start, Environment, Rename, EditBio, StandInv, netVars, vars
<1>14. QED
  BY <1>1, <1>2, <1>3, <1>4, <1>5, <1>6, <1>7, <1>8, <1>9, <1>10, <1>11, <1>12,
     <1>13 DEF Next, Coroutine

\* "Registered successfully!" is the last a user sees of a command: neither the
\* edit that LeetCodeAPI.cpp:47 posts without waiting nor a crash takes it away.
THEOREM SuccessIsFinal == Spec => SuccessStands
<1>1. Init => StandInv
  BY DEF Init, StandInv
<1>2. BaseInv /\ StandInv /\ [Next]_vars =>
        [\A c \in Commands : shown[c] = "success" => shown'[c] = "success"]_shown
  <2> SUFFICES ASSUME BaseInv, StandInv, [Next]_vars, NEW c \in Commands,
                      shown[c] = "success"
               PROVE  shown'[c] = "success"
    OBVIOUS
  <2>1. pc[c] = "done" /\ ~late[c]
    BY DEF StandInv
  <2>2. ASSUME NEW d \in Commands, d # c,
               Begin(d) \/ Reply(d) \/ LateEdit(d)
        PROVE  shown'[c] = shown[c]
    BY <2>2 DEF Begin, Reply, LateEdit, Edit, BaseInv, TypeOK
  <2>3. ~Begin(c) /\ ~Reply(c) /\ ~LateEdit(c)
    <3>1. ~Begin(c) /\ ~Reply(c)
      BY <2>1 DEF Begin, Reply, Step
    <3>2. ~LateEdit(c)
      BY <2>1, Zenon DEF LateEdit
    <3>3. QED
      BY <3>1, <3>2
  <2>4. ASSUME NEW d \in Commands,
               Issue(d) \/ Coroutine(d) \/ Completion(d) \/ Retry(d) \/ LateEdit(d),
               ~(Begin(d) \/ Reply(d) \/ LateEdit(d))
        PROVE  shown' = shown
    BY <2>4 DEF Issue, Coroutine, Dispatch, Lookup, Select, Fetch, Resume, Count, Insert,
                Completion, HttpBio, HttpFailed, HttpNotFound, HttpRateLimited, Retry
  <2>5. CASE Start \/ Crash \/ Environment \/ UNCHANGED vars
    BY <2>5 DEF Start, Crash, Environment, Rename, EditBio, vars
  <2>6. QED
    BY <2>2, <2>3, <2>4, <2>5 DEF Next
<1>3. BaseInv /\ StandInv /\ [Next]_vars => StandInv'
  BY StandStep
<1>4. QED
  BY <1>1, <1>2, <1>3, TypeCorrect, PTL DEF Spec, SuccessStands

LEMMA FutureStep == TypeOK /\ FutureKept /\ [Next]_vars => FutureKept'
<1> SUFFICES ASSUME TypeOK, FutureKept, [Next]_vars, NEW c \in Commands,
                    pc'[c] = "await"
             PROVE  promise'[c] # Unset \/ http'[c] \in {"sent", "backoff"}
  BY DEF FutureKept
<1> DEFINE Kept == promise[c] # Unset \/ http[c] \in {"sent", "backoff"}
<1> USE DEF TypeOK
<1>0. pc[c] = "await" => Kept
  BY DEF FutureKept
<1>1. ASSUME NEW d \in Commands, Fetch(d) PROVE Kept'
  <2>1. CASE d = c
    BY <1>1, <2>1 DEF Fetch
  <2>2. CASE d # c
    BY <1>0, <1>1, <2>2 DEF Fetch, Step
  <2>3. QED
    BY <2>1, <2>2
<1>2. ASSUME NEW d \in Commands, Coroutine(d), ~Fetch(d) PROVE Kept'
  <2>1. UNCHANGED <<http, promise>>
    BY <1>2 DEF Coroutine, Begin, Dispatch, Lookup, Select, Resume, Count, Insert,
                Reply, netVars
  <2>2. pc[c] = "await"
    BY <1>2 DEF Coroutine, Begin, Dispatch, Lookup, Select, Resume, Count, Insert,
                Reply, Step, ReplyWith
  <2>3. QED
    BY <1>0, <2>1, <2>2
<1>3. ASSUME NEW d \in Commands, Completion(d) PROVE Kept'
  <2>1. pc[c] = "await" /\ Kept
    BY <1>0, <1>3 DEF Completion, HttpBio, HttpFailed, HttpNotFound, HttpRateLimited
  <2>2. CASE d = c
    BY <1>3, <2>1, <2>2
       DEF Completion, HttpBio, HttpFailed, HttpNotFound, HttpRateLimited, Callback,
           Unset, NoDesc, Desc
  <2>3. CASE d # c
    BY <1>3, <2>1, <2>3
       DEF Completion, HttpBio, HttpFailed, HttpNotFound, HttpRateLimited, Callback
  <2>4. QED
    BY <2>2, <2>3
<1>4. ASSUME NEW d \in Commands, Issue(d) \/ Retry(d) \/ LateEdit(d) PROVE Kept'
  BY <1>0, <1>4 DEF Issue, Retry, LateEdit, Step, netVars
<1>5. CASE Crash
  BY <1>5 DEF Crash, Active
<1>6. CASE Start \/ Environment \/ UNCHANGED vars
  BY <1>0, <1>6 DEF Start, Environment, Rename, EditBio, netVars, vars
<1>7. QED
  BY <1>1, <1>2, <1>3, <1>4, <1>5, <1>6 DEF Next

\* The inductive invariant: the types, what is known of names, histories and bios,
\* what a row and an answer rest on, and what an answer leaves to be done.
THEOREM InvariantHolds == Spec => []IInv
<1> DEFINE Rest == VerifiedInv /\ AnswerInv /\ StandInv /\ FutureKept
<1>1. Init => Rest
  BY VerifiedInit DEF Init, AnswerInv, StandInv, FutureKept
<1>2. BaseInv /\ Rest /\ [Next]_vars => Rest'
  BY HistoryStep, KnowledgeStep, VerifiedStep, AnswerStep, StandStep,
     FutureStep
  DEF VerifiedInv, BaseInv
<1>3. BaseInv /\ Rest => IInv
  BY DEF IInv, VerifiedInv
<1> HIDE DEF Rest
<1>4. QED
  BY TypeCorrect, <1>1, <1>2, <1>3, PTL DEF Spec

\* However LeetCode answers and however often it is asked again, no /register is
\* left waiting on a future that nobody will set (RegistryCommands.cpp 44-54).
THEOREM FutureIsKept == Spec => []FutureKept
<1>1. IInv => FutureKept
  BY DEF IInv
<1>2. QED
  BY <1>1, InvariantHolds, PTL

-----------------------------------------------------------------------------
(* One row per user.  registerUser's SELECT and INSERT are two statements, so *)
(* it takes either the schema or commands that do not overlap.               *)

Keyed == UniqueDiscordId \/ ~Overlap

LEMMA ExclusionStep ==
  TypeOK /\ ExclusionInv /\ [Next]_vars => ExclusionInv'
<1> SUFFICES ASSUME TypeOK, ~Overlap, ExclusionInv, [Next]_vars
             PROVE  ExclusionInv'
  BY DEF ExclusionInv
<1> USE DEF TypeOK, Active
<1>1. UNCHANGED user
  BY HistoriesGrow DEF reqVars
<1>2. \A c, d \in Commands :
        user[c] = user[d] /\ pc[c] \in Active /\ pc[d] \in Active => c = d
  BY DEF ExclusionInv
<1>3. \A c, d \in Commands :
        user[c] = user[d] /\ pc'[c] \in Active /\ pc'[d] \in Active => c = d
  <2>1. ASSUME NEW b \in Commands, Issue(b)
        PROVE  \A c, d \in Commands :
                 user[c] = user[d] /\ pc'[c] \in Active /\ pc'[d] \in Active
                   => c = d
    BY <1>2, <2>1 DEF Issue, Step
  <2>2. ASSUME NEW b \in Commands, Coroutine(b)
        PROVE  \A c \in Commands : pc'[c] \in Active => pc[c] \in Active
    BY <2>2 DEF Coroutine, Begin, Dispatch, Lookup, Select, Fetch, Resume,
                Count, Insert, Reply, Step, ReplyWith
  <2>3. ASSUME NEW b \in Commands, Completion(b) \/ Retry(b) \/ LateEdit(b)
        PROVE  UNCHANGED pc
    BY <2>3 DEF Completion, HttpBio, HttpFailed, HttpNotFound, HttpRateLimited,
                Retry, LateEdit
  <2>4. CASE Start \/ Crash \/ Environment \/ UNCHANGED vars
    BY <1>2, <2>4 DEF Start, Crash, Environment, Rename, EditBio, vars
  <2>5. QED
    BY <1>2, <2>1, <2>2, <2>3, <2>4 DEF Next
<1>4. ASSUME NEW c \in Commands, pc'[c] = "insert"
      PROVE  RowsOf(user[c])' = {}
  <2>1. \/ pc[c] = "insert"
        \/ pc[c] = "count" /\ CountIsZero(user[c]) /\ UNCHANGED users
    BY <1>4 DEF Next, Coroutine, Issue, Begin, Dispatch, Lookup, Select, Fetch,
                Resume, Count, Insert, Reply, Step, ReplyWith, Completion,
                HttpBio, HttpFailed, HttpNotFound, HttpRateLimited, Retry,
                LateEdit, Start, Crash, Environment, Rename, EditBio, vars, dbVars
  <2>2. RowsOf(user[c]) = {} /\ pc[c] \in Active
    BY <2>1 DEF CountIsZero, ExclusionInv
  <2>3. CASE UNCHANGED users
    BY <1>1, <2>2, <2>3 DEF RowsOf
  <2>4. ASSUME NEW d \in Commands, Insert(d), InsertRow(RowFor(d))
        PROVE  RowsOf(user[c])' = {}
    <3>1. pc[d] = "insert" /\ pc'[d] = "reply"
      BY <2>4 DEF Insert, Step, ReplyWith
    <3>2. user[d] # user[c]
      BY <1>2, <1>4, <2>2, <3>1
    <3>3. users' = users \cup {RowFor(d)} /\ RowFor(d).discord_id = user[d]
      BY <2>4 DEF InsertRow, RowFor
    <3>4. QED
      BY <1>1, <2>2, <3>2, <3>3 DEF RowsOf
  <2>5. QED
    BY <2>3, <2>4, TableStep
<1>5. QED
  BY <1>1, <1>3, <1>4 DEF ExclusionInv

\* Where users are kept apart, an INSERT finds no row of its user.
LEMMA InsertFindsNone ==
  ASSUME Keyed, ExclusionInv, NEW c \in Commands, Insert(c), InsertRow(RowFor(c))
  PROVE  RowsOf(user[c]) = {}
<1>1. CASE UniqueDiscordId
  BY <1>1 DEF InsertRow, RowFor
<1>2. CASE ~Overlap
  BY <1>2 DEF Insert, Step, ReplyWith, ExclusionInv
<1>3. QED
  BY <1>1, <1>2 DEF Keyed

LEMMA UniqueStep ==
  ASSUME Keyed
  PROVE  TypeOK /\ UniqueInv /\ [Next]_vars => UniqueInv'
<1> SUFFICES ASSUME TypeOK, UniqueInv, [Next]_vars PROVE OneRowPerUser'
  BY ExclusionStep DEF UniqueInv
<1>1. CASE UNCHANGED users
  BY <1>1 DEF UniqueInv, OneRowPerUser
<1>2. ASSUME NEW c \in Commands, Insert(c), InsertRow(RowFor(c))
      PROVE  OneRowPerUser'
  <2>1. RowsOf(user[c]) = {}
    BY <1>2, InsertFindsNone DEF UniqueInv
  <2>2. users' = users \cup {RowFor(c)} /\ RowFor(c).discord_id = user[c]
    BY <1>2 DEF InsertRow, RowFor
  <2>3. QED
    BY <2>1, <2>2 DEF UniqueInv, OneRowPerUser, RowsOf
<1>3. QED
  BY <1>1, <1>2, TableStep

\* Where a user's rows are kept apart by the schema, or a user's commands by Discord,
\* the INSERT of a command that counted none finds none.
THEOREM UniqueInvariant == ASSUME Keyed PROVE Spec => []UniqueInv
<1>1. Init => UniqueInv
  <2>1. Init => ExclusionInv
    BY DEF Init, ExclusionInv, Active
  <2>2. Init => OneRowPerUser
    BY DEF Init, DBInit, OneRowPerUser
  <2>3. QED
    BY <2>1, <2>2 DEF UniqueInv
<1>2. BaseInv /\ UniqueInv /\ [Next]_vars => UniqueInv'
  BY UniqueStep DEF BaseInv
<1>3. QED
  BY TypeCorrect, <1>1, <1>2, PTL DEF Spec

\* With a UNIQUE discord_id, or with commands of one user that do not overlap, a
\* user has at most one row.  With neither, two commands may both count no row
\* and both insert one.
THEOREM UsersAreUnique == ASSUME Keyed PROVE Spec => []OneRowPerUser
<1>1. UniqueInv => OneRowPerUser
  BY DEF UniqueInv
<1>2. QED
  BY UniqueInvariant, <1>1, PTL

-----------------------------------------------------------------------------
(* Refinement. *)

LEMMA AbstractStep ==
  ASSUME Keyed
  PROVE  /\ BaseInv /\ VerifiedInv /\ UniqueInv
         /\ [Next]_vars
         => [Abstract!Next]_(Abstract!vars)
<1> SUFFICES ASSUME BaseInv, VerifiedInv, UniqueInv, [Next]_vars
             PROVE  Abstract!Next
  OBVIOUS
<1>1. published \subseteq published' /\ named \subseteq named'
  BY HistoriesGrow
<1>2. CASE UNCHANGED users
  BY <1>1, <1>2 DEF Abstract!Next, Abstract!Publish, Links
<1>3. ASSUME NEW c \in Commands, Insert(c), InsertRow(RowFor(c))
      PROVE  Abstract!Next
  <2>1. user[c] \in Users /\ account[c] \in Accounts /\ name[c] \in Names
    <3>1. pc[c] = "insert"
      BY <1>3 DEF Insert, Step, ReplyWith
    <3>2. QED
      BY <3>1 DEF BaseInv, TypeOK, NameInv
  <2>2. \A b \in Accounts : <<user[c], b>> \notin Links
    <3>1. RowsOf(user[c]) = {}
      BY <1>3, InsertFindsNone DEF UniqueInv
    <3>2. QED
      BY <3>1 DEF RowsOf, Links
  <2>3. Abstract!Verified(user[c], account[c])
    <3>1. pc[c] = "insert"
      BY <1>3 DEF Insert, Step, ReplyWith
    <3>2. /\ <<account[c], name[c]>> \in published
          /\ <<user[c], name[c]>> \in named
      BY <2>1, <3>1, RegAssumption DEF VerifiedInv, KnowledgeInv, HasVerification
    <3>3. QED
      BY <2>1, <3>2 DEF Abstract!Verified
  <2>4. Links' = Links \cup {<<user[c], account[c]>>}
    <3>1. users' = users \cup {RowFor(c)}
      BY <1>3 DEF InsertRow
    <3>2. /\ RowFor(c).discord_id = user[c]
          /\ RowFor(c).leetcode_username = account[c]
      BY DEF RowFor
    <3>3. QED
      BY <3>1, <3>2 DEF Links
  <2>5. UNCHANGED <<published, named>>
    BY <1>3 DEF Insert, envVars
  <2>6. QED
    BY <2>1, <2>2, <2>3, <2>4, <2>5 DEF Abstract!Next, Abstract!Register
<1>4. QED
  BY <1>2, <1>3, TableStep

\* Registering, with its eleven steps, its retries and its crashes, is to the
\* users of the bot one atomic, verified, once-only link.
THEOREM Refinement == ASSUME Keyed PROVE Spec => ImplementsRegistry
<1>1. Init => Abstract!Init
  BY DEF Init, DBInit, NamePairs, Links, Abstract!Init
<1>2. BaseInv /\ VerifiedInv /\ UniqueInv /\ [Next]_vars
        => [Abstract!Next]_(Abstract!vars)
  BY AbstractStep
<1>3. Spec => []VerifiedInv
  <2>1. BaseInv /\ VerifiedInv /\ [Next]_vars => VerifiedInv'
    BY HistoryStep, KnowledgeStep, VerifiedStep DEF VerifiedInv, BaseInv
  <2>2. QED
    BY VerifiedInit, TypeCorrect, <2>1, PTL DEF Spec
<1>4. QED
  BY TypeCorrect, UniqueInvariant, <1>1, <1>2, <1>3, PTL
     DEF Spec, ImplementsRegistry, Abstract!Spec

=============================================================================
