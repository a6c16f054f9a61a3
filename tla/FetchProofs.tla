---------------------------- MODULE FetchProofs ----------------------------
(***************************************************************************)
(* Fetch, for any number of interactions and of threads.                   *)
(***************************************************************************)
EXTENDS Fetch, TLAPS

LEMMA FetchInit == Init => FetchInv
BY DEF Init, FetchInv, TypeOK, AnsweredOnce, NobodyForgotten, Awaited, Early

\* The invariant, interaction by interaction.
RequestOK(r) ==
  /\ posted[r] = IF at[r] \in {"replying", "over"} THEN 1 ELSE 0
  /\ at[r] = "thinking" => thinking[r]
  /\ at[r] = "replying" => edit[r] # "none"
  /\ Awaited(r)

LEMMA PerRequest == FetchInv <=> TypeOK /\ \A r \in Requests : RequestOK(r)
BY DEF FetchInv, AnsweredOnce, NobodyForgotten, RequestOK

\* What a job says when it posts or goes on: TypeOK after the step, and RequestOK
\* of the interaction it belongs to.  The others keep theirs.
LEMMA Others ==
  ASSUME TypeOK, FetchInv, NEW r \in Requests, TypeOK', RequestOK(r)', kind' = kind,
         \A q \in Requests \ {r} :
           /\ thinking'[q] = thinking[q] /\ at'[q] = at[q] /\ edit'[q] = edit[q]
           /\ posted'[q] = posted[q] /\ shown'[q] = shown[q]
  PROVE  FetchInv'
<1>1. ASSUME NEW q \in Requests \ {r} PROVE RequestOK(q)'
  BY <1>1, PerRequest DEF RequestOK, Awaited
<1>2. QED
  BY <1>1 DEF FetchInv, AnsweredOnce, NobodyForgotten, RequestOK

LEMMA FetchStep == FetchInv /\ [Next]_vars => FetchInv'
<1> SUFFICES ASSUME FetchInv, [Next]_vars PROVE FetchInv'
  OBVIOUS
<1>0. TypeOK /\ \A r \in Requests : RequestOK(r)
  BY PerRequest
<1>1. ASSUME NEW r \in Requests, Issue(r) PROVE FetchInv'
  <2>1. TypeOK' /\ RequestOK(r)'
    BY <1>0, <1>1 DEF Issue, Step, TypeOK, RequestOK, Awaited, Early, discord
  <2>2. QED
    BY <1>0, <1>1, <2>1, Others DEF Issue, Step, TypeOK, discord
<1>2. ASSUME NEW r \in Requests, Take(r) PROVE FetchInv'
  <2>0. \/ at[r] = "event" /\ Runs[at[r]] = "handler"
        \/ at[r] = "resume" /\ Runs[at[r]] = "coroutine"
        \/ at[r] = "arrived" /\ Runs[at[r]] = "completion"
    BY <1>2 DEF Take, Queued, Runs
  <2>1. \/ at[r] = "event" /\ at' = [at EXCEPT ![r] = "handler"]
        \/ at[r] = "resume" /\ at' = [at EXCEPT ![r] = "coroutine"]
        \/ at[r] = "arrived" /\ at' = [at EXCEPT ![r] = "completion"]
    BY <1>2, <2>0 DEF Take
  <2>2. TypeOK' /\ RequestOK(r)'
    BY <1>0, <1>2, <2>1 DEF Take, TypeOK, RequestOK, Awaited, Early, discord
  <2>3. QED
    BY <1>0, <1>2, <2>1, <2>2, Others DEF Take, TypeOK, discord
<1>3. ASSUME NEW r \in Requests, Begin(r) PROVE FetchInv'
  <2>1. TypeOK' /\ RequestOK(r)'
    BY <1>0, <1>3 DEF Begin, Step, Think, TypeOK, RequestOK, Awaited, Early
  <2>2. QED
    BY <1>0, <1>3, <2>1, Others DEF Begin, Step, Think, TypeOK
<1>4. ASSUME NEW r \in Requests, Describe(r) PROVE FetchInv'
  <2>1. TypeOK' /\ RequestOK(r)'
    BY <1>0, <1>4
       DEF Describe, Step, Think, TypeOK, RequestOK, Awaited, Early, Slash
  <2>2. QED
    BY <1>0, <1>4, <2>1, Others DEF Describe, Step, Think, TypeOK
<1>5. ASSUME NEW r \in Requests, LookupFails(r) \/ Fetch(r) PROVE FetchInv'
  <2>1. TypeOK' /\ RequestOK(r)'
    BY <1>0, <1>5
       DEF LookupFails, Fetch, Step, TypeOK, RequestOK, Awaited, Early, discord
  <2>2. QED
    BY <1>0, <1>5, <2>1, Others DEF LookupFails, Fetch, Step, TypeOK, discord
<1>6. ASSUME NEW r \in Requests, Reply(r) PROVE FetchInv'
  <2>1. TypeOK' /\ RequestOK(r)'
    BY <1>0, <1>6 DEF Reply, Step, Post, TypeOK, RequestOK, Awaited, Early
  <2>2. QED
    BY <1>0, <1>6, <2>1, Others DEF Reply, Step, Post, TypeOK
<1>7. ASSUME NEW r \in Requests, Arrive(r) \/ Retry(r) PROVE FetchInv'
  <2>1. TypeOK' /\ RequestOK(r)'
    BY <1>0, <1>7
       DEF Arrive, Retry, Step, TypeOK, RequestOK, Awaited, Early, discord
  <2>2. QED
    BY <1>0, <1>7, <2>1, Others DEF Arrive, Retry, Step, TypeOK, discord
<1>8. ASSUME NEW r \in Requests, Complete(r) PROVE FetchInv'
  <2>1. /\ Answer(r) \/ Fail(r) \/ Backoff(r)
        /\ UNCHANGED <<kind, thinking, shown>>
    BY <1>8
       DEF Complete, CompleteDailyQuestion, CompleteActivity, CompleteDescription
  <2>2. TypeOK' /\ RequestOK(r)'
    BY <1>0, <2>1
       DEF Answer, Fail, Backoff, Step, Post, TypeOK, RequestOK, Awaited, Early
  <2>3. QED
    BY <1>0, <2>1, <2>2, Others DEF Answer, Fail, Backoff, Step, Post, TypeOK
<1>9. ASSUME NEW r \in Requests, TakeThinking(r) PROVE FetchInv'
  <2>1. TypeOK' /\ RequestOK(r)'
    BY <1>0, <1>9 DEF TakeThinking, TypeOK, RequestOK, Awaited, Early
  <2>2. QED
    BY <1>0, <1>9, <2>1, Others DEF TakeThinking, TypeOK
<1>10. ASSUME NEW r \in Requests, TakeEdit(r) PROVE FetchInv'
  <2>1. TypeOK' /\ RequestOK(r)'
    BY <1>0, <1>10 DEF TakeEdit, TypeOK, RequestOK, Awaited, Early
  <2>2. QED
    BY <1>0, <1>10, <2>1, Others DEF TakeEdit, TypeOK
<1>11. ASSUME NEW r \in Requests, Expire(r) PROVE FetchInv'
  <2>1. TypeOK' /\ RequestOK(r)'
    BY <1>0, <1>11 DEF Expire, TypeOK, RequestOK, Awaited, Early
  <2>2. QED
    BY <1>0, <1>11, <2>1, Others DEF Expire, TypeOK
<1>12. ASSUME NEW r \in Requests, RetryCrashes(r) PROVE FetchInv'
  <2>1. TypeOK'
    BY <1>0, <1>12 DEF RetryCrashes, TypeOK, Early
  <2>2. \A q \in Requests : RequestOK(q)'
    BY <1>0, <1>12 DEF RetryCrashes, TypeOK, RequestOK, Awaited, Early
  <2>3. QED
    BY <2>1, <2>2 DEF FetchInv, AnsweredOnce, NobodyForgotten, RequestOK
<1>13. CASE UNCHANGED vars
  BY <1>13
     DEF vars, discord, FetchInv, TypeOK, AnsweredOnce, NobodyForgotten, Awaited
<1>14. QED
  BY <1>1, <1>2, <1>3, <1>4, <1>5, <1>6, <1>7, <1>8, <1>9, <1>10, <1>11,
     <1>12, <1>13 DEF Next, Handle

\* FetchInv holds of every reachable state.
THEOREM FetchInvariant == Spec => []FetchInv
BY FetchInit, FetchStep, PTL DEF Spec

\* Every reachable state of Fetch is well typed.
THEOREM TypeCorrect == Spec => []TypeOK
BY FetchInvariant, PTL DEF FetchInv

\* A handler and its completion post one answer between them, on every path and
\* however often the request is repeated (API: every return of the completions).
THEOREM OneAnswer == Spec => []AnsweredOnce
BY FetchInvariant, PTL DEF FetchInv

\* Whether Discord takes a call or refuses it, the coroutine that awaits it goes
\* on: no slash command hangs in co_thinking() or in its awaited edit.
THEOREM NobodyIsForgotten == Spec => []NobodyForgotten
BY FetchInvariant, PTL DEF FetchInv

\* Because co_thinking() is awaited before anything else, no edit of a slash
\* command reaches Discord before there is a response to edit.
THEOREM SlashAnswersLand == Spec => []SlashEditsLand
<1>1. FetchInv => SlashEditsLand
  <2> SUFFICES ASSUME FetchInv, NEW r \in Requests, kind[r] \in Slash
             PROVE  NoEarlyEdit(r)
    BY DEF SlashEditsLand
  <2>1. edit[r] # "none" => at[r] \in {"replying", "over"}
    BY DEF FetchInv, AnsweredOnce, Awaited, TypeOK
  <2>2. QED
    BY <2>1 DEF FetchInv, Awaited, Early, NoEarlyEdit
<1>2. QED
  BY <1>1, FetchInvariant, PTL
=============================================================================
