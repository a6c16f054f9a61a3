-------------------------- MODULE CoroutinesProofs --------------------------
(***************************************************************************)
(* Coroutines, for tasks nested to any depth and any number of calls.      *)
(***************************************************************************)
EXTENDS Coroutines, WellFoundedInduction, TLAPS

LEMMA Least ==
  ASSUME NEW S \in SUBSET Nat, S # {}
  PROVE  \E m \in S : \A k \in S : m <= k
<1> DEFINE R == OpToRel(<, Nat)
<1>1. IsWellFoundedOn(R, Nat)
  BY NatLessThanWellFounded
<1>2. \A x \in Nat, y \in Nat : <<y, x>> \in R <=> y < x
  BY DEF OpToRel
<1> HIDE DEF R
<1>3. PICK m \in S : \A k \in S : <<k, m>> \notin R
  BY <1>1, WFMin
<1>4. ASSUME NEW k \in S PROVE m <= k
  <2>1. k \in Nat /\ m \in Nat /\ ~ (k < m)
    BY <1>2, <1>3
  <2>2. QED
    BY <2>1
<1>5. QED
  BY <1>4

LEMMA CoroInit == Init => CoroInv
<1> SUFFICES ASSUME Init PROVE CoroInv
  OBVIOUS
<1> USE CoroutinesAssumption DEF Init, Frames, Tasks, Promises, Call
<1>1. TypeOK
  <2>1. at \in [Frames -> Points] /\ left \in 0 .. Calls
    BY DEF Points
  <2>2. QED
    BY <2>1 DEF TypeOK
<1>2. ASSUME NEW f \in Tasks PROVE Link(f) /\ Over(f)
  BY <1>2 DEF Link, Over, Awaking
<1>3. CallLink /\ Ends /\ OneAwake
  BY DEF CallLink, Ends, OneAwake, Awake
<1>4. QED
  BY <1>1, <1>2, <1>3 DEF CoroInv, CallResumesOnce, SoundUnlessOvertaken

-----------------------------------------------------------------------------
(* Types. *)

LEMMA TypeStep == TypeOK /\ [Next]_vars => TypeOK'
<1> SUFFICES ASSUME TypeOK, [Next]_vars PROVE TypeOK'
  OBVIOUS
<1> USE CoroutinesAssumption
    DEF TypeOK, Points, Faults, state_flags, Frames, Tasks, Promises, Call
<1>1. ASSUME NEW f \in Frames, StartTask(f) PROVE TypeOK'
  BY <1>1 DEF StartTask
<1>2. ASSUME NEW f \in Frames, await_ready(f) PROVE TypeOK'
  BY <1>2 DEF await_ready, Go
<1>3. ASSUME NEW f \in Frames, await_suspend(f) PROVE TypeOK'
  BY <1>3 DEF await_suspend, Go, GiveBack, Raise
<1>4. ASSUME NEW f \in Frames, await_resume(f) PROVE TypeOK'
  BY <1>4 DEF await_resume, Go
<1>5. ASSUME NEW f \in Frames, cleanup(f) PROVE TypeOK'
  BY <1>5 DEF cleanup, Go, Raise
<1>6. ASSUME NEW f \in Frames, cancel(f) PROVE TypeOK'
  BY <1>6 DEF cancel, Go
<1>7. ASSUME NEW f \in Frames, return_void(f) PROVE TypeOK'
  BY <1>7 DEF return_void, Go, Raise
<1>8. ASSUME NEW f \in Frames, final_suspend(f) PROVE TypeOK'
  <2>1. flags' \in [Promises -> SUBSET state_flags]
    BY <1>8 DEF final_suspend, Raise
  <2>2. at' \in [Frames -> Points] /\ fault' \in Faults \cup {"none"}
    <3>1. CASE ResumeAwaiter(f, "ended", "task resumes twice")
      BY <3>1 DEF ResumeAwaiter
    <3>2. CASE GiveBack(f, "final", "ended") /\ fault' = fault
      BY <3>2 DEF GiveBack
    <3>3. QED
      BY <1>8, <3>1, <3>2 DEF final_suspend
  <2>3. memory' \in [Tasks -> {"none", "live", "freed"}]
    BY <1>8 DEF final_suspend
  <2>4. QED
    BY <1>8, <2>1, <2>2, <2>3 DEF final_suspend
<1>9. CASE StartCall
  BY <1>9 DEF StartCall, Go
<1>10. CASE Leave \/ EndJob
  BY <1>10 DEF Leave, EndJob, Go
<1>11. CASE abandon
  BY <1>11 DEF abandon, Go, Raise
<1>12. CASE callback
  BY <1>12 DEF callback, ResumeAwaiter, Raise
<1>13. CASE UNCHANGED vars
  BY <1>13 DEF vars
<1>14. QED
  BY <1>1, <1>2, <1>3, <1>4, <1>5, <1>6, <1>7, <1>8, <1>9, <1>10, <1>11,
     <1>12, <1>13 DEF Next, Move

\* Every reachable state of Coroutines is well typed.
THEOREM TypeCorrect == Spec => []TypeOK
<1>1. Init => TypeOK
  BY CoroInit DEF CoroInv
<1>2. QED
  BY <1>1, TypeStep, PTL DEF Spec

-----------------------------------------------------------------------------
(* The links. *)

\* One flag of one promise is raised.
LEMMA Raised ==
  ASSUME TypeOK, NEW p \in Promises, NEW flag, Raise(p, flag), NEW q \in Promises
  PROVE  \A x : x \in flags'[q] <=> x \in flags[q] \/ (q = p /\ x = flag)
<1>1. q = p => flags'[q] = flags[q] \cup {flag}
  BY DEF Raise, TypeOK
<1>2. q # p => flags'[q] = flags[q]
  BY DEF Raise, TypeOK
<1>3. QED
  BY <1>1, <1>2

LEMMA LinkStep ==
  ASSUME TypeOK, \A f \in Tasks : Link(f), CallLink, [Next]_vars,
         fault = "none", fault' = "none", NEW g \in Tasks
  PROVE  Link(g)'
<1> USE CoroutinesAssumption DEF TypeOK, Frames, Tasks, Promises, Call
<1>0. Link(g) /\ g - 1 \in Frames /\ g \in Frames /\ (g > 1 => Link(g - 1))
  OBVIOUS
<1>1. ASSUME NEW f \in Frames, StartTask(f) PROVE Link(g)'
  BY <1>0, <1>1 DEF StartTask, Link
<1>2. ASSUME NEW f \in Frames, await_ready(f) PROVE Link(g)'
  BY <1>0, <1>2 DEF await_ready, Go, Link
<1>3. ASSUME NEW f \in Frames, await_suspend(f) PROVE Link(g)'
  <2>0. Raise(f + 1, "awaited") /\ f + 1 \in Promises /\ g \in Promises
    BY <1>3 DEF await_suspend
  <2>1. \A x : x \in flags'[g] <=> x \in flags[g] \/ (g = f + 1 /\ x = "awaited")
    BY <2>0, Raised
  <2>2. CASE "ready" \in flags[f + 1] /\ Go(f, "flag", "resume")
    BY <1>0, <1>3, <2>1, <2>2 DEF await_suspend, Go, Link
  <2>3. CASE "ready" \notin flags[f + 1] /\ GiveBack(f, "flag", "suspended")
    BY <1>0, <1>3, <2>1, <2>3 DEF await_suspend, GiveBack, Link
  <2>4. QED
    BY <1>3, <2>2, <2>3 DEF await_suspend
<1>4. ASSUME NEW f \in Frames, await_resume(f) PROVE Link(g)'
  BY <1>0, <1>4 DEF await_resume, Go, Link
<1>5. ASSUME NEW f \in Frames, cleanup(f) PROVE Link(g)'
  <2>0. Raise(f + 1, "broken") /\ f + 1 \in Promises /\ g \in Promises
    BY <1>5 DEF cleanup
  <2>1. \A x : x \in flags'[g] <=> x \in flags[g] \/ (g = f + 1 /\ x = "broken")
    BY <2>0, Raised
  <2>2. QED
    BY <1>0, <1>5, <2>1 DEF cleanup, Go, Link
<1>6. ASSUME NEW f \in Frames, cancel(f) PROVE Link(g)'
  BY <1>0, <1>6 DEF cancel, Go, Link
<1>7. ASSUME NEW f \in Frames, return_void(f) PROVE Link(g)'
  <2>0. Raise(f, "ready") /\ f \in Promises /\ g \in Promises
    BY <1>7 DEF return_void
  <2>1. \A x : x \in flags'[g] <=> x \in flags[g] \/ (g = f /\ x = "ready")
    BY <2>0, Raised
  <2>2. QED
    BY <1>0, <1>7, <2>1 DEF return_void, Go, Link
<1>8. ASSUME NEW f \in Frames, final_suspend(f) PROVE Link(g)'
  <2>a. Raise(f, "done") /\ f \in Tasks
    BY <1>8 DEF final_suspend
  <2>0. Raise(f, "done") /\ f \in Promises /\ g \in Promises
    BY <2>a
  <2>1. \A x : x \in flags'[g] <=> x \in flags[g] \/ (g = f /\ x = "done")
    BY <2>0, Raised
  <2>2. CASE "awaited" \in flags[f]
    <3>1. /\ at[f - 1] = "suspended" /\ at[f] = "final" /\ f \in Tasks
          /\ at' = [h \in Frames |->
                CASE h = f -> "ended" [] h = f - 1 -> "resume" [] OTHER -> at[h]]
          /\ memory' = memory
      BY <1>8, <2>2 DEF final_suspend, ResumeAwaiter
    <3>2. QED
      BY <1>0, <2>1, <2>2, <3>1 DEF Link
  <2>3. CASE "awaited" \notin flags[f]
    <3>1. /\ GiveBack(f, "final", "ended")
          /\ memory' = [memory EXCEPT ![f] =
                          IF "broken" \in flags[f] THEN "freed" ELSE @]
      BY <1>8, <2>3 DEF final_suspend
    <3>2. QED
      BY <1>0, <2>a, <2>1, <2>3, <3>1 DEF GiveBack, Link
  <2>4. QED
    BY <2>2, <2>3
<1>9. CASE StartCall
  BY <1>0, <1>9 DEF StartCall, Go, Link
<1>10. CASE Leave \/ EndJob
  BY <1>0, <1>10 DEF Leave, EndJob, Go, Link
<1>11. CASE abandon
  BY <1>0, <1>11 DEF abandon, Go, Raise, Link
<1>12. CASE callback
  <2>a. Raise(Call, "ready")
    BY <1>12 DEF callback
  <2>0. Raise(Call, "ready") /\ Call \in Promises /\ g \in Promises /\ g # Call
    BY <2>a
  <2>1. (\A x : x \in flags'[g] <=> x \in flags[g]) /\ memory' = memory
    BY <1>12, <2>0, Raised DEF callback
  <2>2. \/ at' = at
        \/ /\ at[Depth] = "suspended"
           /\ at' = [h \in Frames |-> IF h = Depth THEN "resume" ELSE at[h]]
    BY <1>12 DEF callback, ResumeAwaiter
  <2>3. QED
    BY <1>0, <2>1, <2>2 DEF Link
<1>13. CASE UNCHANGED vars
  BY <1>0, <1>13 DEF vars, Link
<1>14. QED
  BY <1>1, <1>2, <1>3, <1>4, <1>5, <1>6, <1>7, <1>8, <1>9, <1>10, <1>11,
     <1>12, <1>13 DEF Next, Move

LEMMA CallLinkStep ==
  ASSUME TypeOK, \A f \in Tasks : Link(f), CallLink, [Next]_vars,
         fault = "none", fault' = "none"
  PROVE  CallLink'
<1> USE CoroutinesAssumption DEF TypeOK, Frames, Tasks, Promises, Call
<1>0. CallLink /\ Depth \in Tasks /\ Depth \in Frames /\ Link(Depth)
  OBVIOUS
<1>1. ASSUME NEW f \in Frames, StartTask(f) PROVE CallLink'
  BY <1>0, <1>1 DEF StartTask, CallLink, Link
<1>2. ASSUME NEW f \in Frames, await_ready(f) PROVE CallLink'
  BY <1>0, <1>2 DEF await_ready, Go, CallLink
<1>3. ASSUME NEW f \in Frames, await_suspend(f) PROVE CallLink'
  <2>0. Raise(f + 1, "awaited") /\ f + 1 \in Promises /\ Call \in Promises
    BY <1>3 DEF await_suspend
  <2>1. \A x : x \in flags'[Call]
               <=> x \in flags[Call] \/ (Call = f + 1 /\ x = "awaited")
    BY <2>0, Raised
  <2>2. CASE "ready" \in flags[f + 1] /\ Go(f, "flag", "resume")
    BY <1>0, <1>3, <2>1, <2>2 DEF await_suspend, Go, CallLink
  <2>3. CASE "ready" \notin flags[f + 1] /\ GiveBack(f, "flag", "suspended")
    BY <1>0, <1>3, <2>1, <2>3 DEF await_suspend, GiveBack, CallLink
  <2>4. QED
    BY <1>3, <2>2, <2>3 DEF await_suspend
<1>4. ASSUME NEW f \in Frames, await_resume(f) PROVE CallLink'
  BY <1>0, <1>4 DEF await_resume, Go, CallLink
<1>5. ASSUME NEW f \in Frames, cleanup(f) PROVE CallLink'
  <2>0. Raise(f + 1, "broken") /\ f + 1 \in Promises /\ Call \in Promises
    BY <1>5 DEF cleanup
  <2>1. \A x : x \in flags'[Call]
               <=> x \in flags[Call] \/ (Call = f + 1 /\ x = "broken")
    BY <2>0, Raised
  <2>2. QED
    BY <1>0, <1>5, <2>1 DEF cleanup, Go, CallLink
<1>6. ASSUME NEW f \in Frames, cancel(f) PROVE CallLink'
  BY <1>0, <1>6 DEF cancel, Go, CallLink
<1>7. ASSUME NEW f \in Frames, return_void(f) PROVE CallLink'
  <2>0. Raise(f, "ready") /\ f \in Promises /\ Call \in Promises /\ f # Call
    BY <1>7 DEF return_void
  <2>1. \A x : x \in flags'[Call] <=> x \in flags[Call]
    BY <2>0, Raised
  <2>2. QED
    BY <1>0, <1>7, <2>1 DEF return_void, Go, CallLink
<1>8. ASSUME NEW f \in Frames, final_suspend(f) PROVE CallLink'
  <2>0. Raise(f, "done") /\ f \in Tasks /\ pending' = pending
    BY <1>8 DEF final_suspend
  <2>1. \A x : x \in flags'[Call] <=> x \in flags[Call]
    BY <2>0, Raised
  <2>2. CASE "awaited" \in flags[f]
    <3>1. /\ at[f - 1] = "suspended" /\ at[f] = "final"
          /\ at' = [h \in Frames |->
                CASE h = f -> "ended" [] h = f - 1 -> "resume" [] OTHER -> at[h]]
      BY <1>8, <2>2 DEF final_suspend, ResumeAwaiter
    <3>2. QED
      BY <1>0, <2>0, <2>1, <3>1 DEF CallLink
  <2>3. CASE "awaited" \notin flags[f]
    <3>1. GiveBack(f, "final", "ended")
      BY <1>8, <2>3 DEF final_suspend
    <3>2. at'[Depth] = at[Depth] \/ (at[Depth] = "final" /\ at'[Depth] = "ended")
      BY <2>0, <3>1 DEF GiveBack
    <3>3. QED
      BY <1>0, <2>0, <2>1, <3>2 DEF CallLink
  <2>4. QED
    BY <2>2, <2>3
<1>9. CASE StartCall
  BY <1>0, <1>9 DEF StartCall, Go, CallLink
<1>10. CASE Leave \/ EndJob
  BY <1>0, <1>10 DEF Leave, EndJob, Go, CallLink
<1>11. CASE abandon
  <2>1. Raise(Call, "broken") /\ Call \in Promises
    BY <1>11 DEF abandon
  <2>2. \A x : x \in flags'[Call] <=> x \in flags[Call] \/ x = "broken"
    BY <2>1, Raised
  <2>3. QED
    BY <1>0, <1>11, <2>2 DEF abandon, Go, CallLink
<1>12. CASE callback
  <2>0. Raise(Call, "ready") /\ pending /\ ~pending'
    BY Zenon, <1>12 DEF callback
  <2>1. Call \in Promises /\ Raise(Call, "ready") /\ pending /\ ~pending'
    BY <2>0
  <2>2. \A x : x \in flags'[Call] <=> x \in flags[Call] \/ x = "ready"
    BY <2>1, Raised
  <2>3. CASE "awaited" \in flags[Call]
    <3>1. /\ at[Depth] = "suspended"
          /\ at' = [h \in Frames |-> IF h = Depth THEN "resume" ELSE at[h]]
      BY <1>12, <2>3 DEF callback, ResumeAwaiter
    <3>2. QED
      BY <1>0, <2>1, <2>2, <3>1 DEF CallLink
  <2>4. CASE "awaited" \notin flags[Call]
    <3>1. at' = at
      BY <1>12, <2>4 DEF callback
    <3>2. QED
      BY <1>0, <2>1, <2>2, <2>4, <3>1 DEF CallLink
  <2>5. QED
    BY <2>3, <2>4
<1>13. CASE UNCHANGED vars
  BY <1>0, <1>13 DEF vars, CallLink
<1>14. QED
  BY <1>1, <1>2, <1>3, <1>4, <1>5, <1>6, <1>7, <1>8, <1>9, <1>10, <1>11,
     <1>12, <1>13 DEF Next, Move

LEMMA EndsStep ==
  ASSUME TypeOK, Ends, [Next]_vars
  PROVE  Ends'
<1> USE CoroutinesAssumption DEF TypeOK, Frames, Tasks, Ends
<1>1. ASSUME NEW f \in Frames, Move(f) PROVE Ends'
  <2>1. CASE StartTask(f)
    BY <2>1 DEF StartTask
  <2>2. CASE await_ready(f)
    <3>1. Go(f, "check", "resume") \/ Go(f, "check", "flag")
      BY <2>2 DEF await_ready
    <3>2. QED
      BY <3>1 DEF Go
  <2>3. CASE await_suspend(f)
    BY <2>3 DEF await_suspend, Go, GiveBack
  <2>4. CASE await_resume(f) \/ cleanup(f) \/ cancel(f) \/ return_void(f)
    <3>1. \E from \in Points, to \in Points \ {"unborn", "calling"} : Go(f, from, to)
      BY <2>4 DEF await_resume, cleanup, cancel, return_void, Points
    <3>2. QED
      BY <3>1 DEF Go
  <2>5. CASE final_suspend(f)
    <3>1. CASE ResumeAwaiter(f, "ended", "task resumes twice")
      <4>1. \A g \in Frames : at'[g] \in {at[g], "ended", "resume"}
        BY <3>1 DEF ResumeAwaiter
      <4>2. QED
        BY <4>1
    <3>2. CASE GiveBack(f, "final", "ended")
      BY <3>2 DEF GiveBack
    <3>3. QED
      BY <2>5, <3>1, <3>2 DEF final_suspend
  <2>6. QED
    BY <1>1, <2>1, <2>2, <2>3, <2>4, <2>5 DEF Move
<1>2. CASE StartCall \/ Leave \/ abandon \/ EndJob
  BY <1>2 DEF StartCall, Leave, abandon, EndJob, Go
<1>3. CASE callback
  <2>1. ResumeAwaiter(Call, "ended", "call resumes twice") \/ at' = at
    BY Zenon, <1>3 DEF callback
  <2>2. CASE ResumeAwaiter(Call, "ended", "call resumes twice")
    <3>1. \A g \in Frames : at'[g] \in {at[g], "ended", "resume"}
      BY <2>2 DEF ResumeAwaiter
    <3>2. QED
      BY <3>1
  <2>3. QED
    BY <2>1, <2>2
<1>4. CASE UNCHANGED vars
  BY <1>4 DEF vars
<1>5. QED
  BY <1>1, <1>2, <1>3, <1>4 DEF Next

-----------------------------------------------------------------------------
(* A frame goes on when the tasks under it have their values. *)

\* A value stays.
LEMMA ReadyStays ==
  ASSUME TypeOK, [Next]_vars, NEW g \in Tasks, "ready" \in flags[g]
  PROVE  "ready" \in flags'[g]
<1> USE CoroutinesAssumption DEF TypeOK, Frames, Tasks, Promises, Call
<1>1. ASSUME NEW p \in Promises, NEW flag, Raise(p, flag)
      PROVE  "ready" \in flags'[g]
  BY <1>1, Raised
<1>2. ASSUME NEW f \in Frames, Move(f) PROVE "ready" \in flags'[g]
  <2>1. CASE StartTask(f) \/ await_ready(f) \/ cancel(f)
    BY <2>1 DEF StartTask, await_ready, cancel
  <2>2. CASE await_suspend(f)
    BY <1>1, <2>2 DEF await_suspend
  <2>3. CASE await_resume(f)
    BY <2>3 DEF await_resume
  <2>4. CASE cleanup(f)
    BY <1>1, <2>4 DEF cleanup
  <2>5. CASE return_void(f)
    BY <1>1, <2>5 DEF return_void
  <2>6. CASE final_suspend(f)
    <3>1. Raise(f, "done") /\ f \in Tasks
      BY <2>6 DEF final_suspend
    <3>2. QED
      BY <1>1, <3>1
  <2>7. QED
    BY <1>2, <2>1, <2>2, <2>3, <2>4, <2>5, <2>6 DEF Move
<1>3. CASE StartCall
  BY <1>3 DEF StartCall
<1>4. CASE Leave \/ EndJob \/ UNCHANGED vars
  BY <1>4 DEF Leave, EndJob, vars
<1>5. CASE abandon
  BY <1>1, <1>5 DEF abandon
<1>6. CASE callback
  <2>1. Raise(Call, "ready")
    BY <1>6 DEF callback
  <2>2. QED
    BY <1>1, <2>1
<1>7. QED
  BY <1>2, <1>3, <1>4, <1>5, <1>6 DEF Next

\* A frame that awaits a task goes on when the task has its value.
LEMMA Awakens ==
  ASSUME TypeOK, [Next]_vars, fault' = "none", NEW g \in Tasks, Link(g),
         at'[g - 1] \in Awaking
  PROVE  at[g - 1] \in Awaking \/ "ready" \in flags[g]
<1> USE CoroutinesAssumption DEF TypeOK, Frames, Tasks, Promises, Call, Awaking
<1>1. ASSUME NEW f \in Frames, Move(f)
      PROVE  at[g - 1] \in Awaking \/ "ready" \in flags[g]
  <2>1. CASE StartTask(f)
    <3>1. at'[g - 1] \in {at[g - 1], "calling", "call"}
      BY <2>1 DEF StartTask
    <3>2. QED
      BY <3>1
  <2>2. CASE await_ready(f)
    <3>1. CASE f = g - 1
      BY <2>2, <3>1 DEF await_ready, Go
    <3>2. CASE f # g - 1
      BY <2>2, <3>2 DEF await_ready, Go
    <3>3. QED
      BY <3>1, <3>2
  <2>3. CASE await_suspend(f)
    <3>1. CASE "ready" \in flags[f + 1] /\ Go(f, "flag", "resume")
      <4>1. f = g - 1 \/ at'[g - 1] = at[g - 1]
        BY <3>1 DEF Go
      <4>2. QED
        BY <3>1, <4>1
    <3>2. CASE GiveBack(f, "flag", "suspended")
      <4>1. at'[g - 1] \in {at[g - 1], "suspended", "check"}
        BY <3>2 DEF GiveBack
      <4>2. QED
        BY <4>1
    <3>3. QED
      BY <2>3, <3>1, <3>2 DEF await_suspend
  <2>4. CASE await_resume(f) \/ cancel(f) \/ return_void(f)
    BY <2>4 DEF await_resume, cancel, return_void, Go
  <2>5. CASE cleanup(f)
    BY <2>5 DEF cleanup, Go
  <2>6. CASE final_suspend(f)
    <3>1. CASE ResumeAwaiter(f, "ended", "task resumes twice")
      <4>1. /\ f \in Tasks
            /\ at[f] = "final"
            /\ at' = [h \in Frames |->
                CASE h = f -> "ended" [] h = f - 1 -> "resume" [] OTHER -> at[h]]
        BY <2>6, <3>1 DEF final_suspend, ResumeAwaiter
      <4>2. QED
        BY <4>1 DEF Link
    <3>2. CASE GiveBack(f, "final", "ended")
      BY <3>2 DEF GiveBack
    <3>3. QED
      BY <2>6, <3>1, <3>2 DEF final_suspend
  <2>7. QED
    BY <1>1, <2>1, <2>2, <2>3, <2>4, <2>5, <2>6 DEF Move
<1>2. CASE StartCall \/ Leave \/ abandon
  BY <1>2 DEF StartCall, Leave, abandon, Go
<1>3. CASE EndJob
  BY <1>3 DEF EndJob, Go
<1>4. CASE callback
  <2>1. \A h \in Frames : h # Depth => at'[h] = at[h]
    BY <1>4 DEF callback, ResumeAwaiter
  <2>2. QED
    BY <2>1
<1>5. CASE UNCHANGED vars
  BY <1>5 DEF vars
<1>6. QED
  BY <1>1, <1>2, <1>3, <1>4, <1>5 DEF Next

LEMMA OverStep ==
  ASSUME TypeOK, \A f \in Tasks : Link(f) /\ Over(f), [Next]_vars,
         fault' = "none", NEW g \in Tasks
  PROVE  Over(g)'
<1> SUFFICES ASSUME at'[g - 1] \in Awaking, NEW h \in g .. Depth
             PROVE  "ready" \in flags'[h]
  BY DEF Over
<1> USE CoroutinesAssumption DEF Tasks, Frames
<1>1. CASE at[g - 1] \in Awaking
  <2>1. h \in Tasks /\ "ready" \in flags[h]
    BY <1>1 DEF Over
  <2>2. QED
    BY <2>1, ReadyStays
<1>2. CASE "ready" \in flags[g]
  <2>1. at[g] \in Awaking
    BY <1>2 DEF Link, Awaking
  <2>2. h \in Tasks /\ "ready" \in flags[h]
    <3>1. CASE h = g
      BY <1>2, <3>1
    <3>2. CASE h # g
      <4>1. g + 1 \in Tasks /\ h \in (g + 1) .. Depth /\ (g + 1) - 1 = g
        BY <3>2
      <4>2. QED
        BY <2>1, <4>1 DEF Over
    <3>3. QED
      BY <3>1, <3>2
  <2>3. QED
    BY <2>2, ReadyStays
<1>3. QED
  BY <1>1, <1>2, Awakens

-----------------------------------------------------------------------------
(* One frame at a time. *)

LEMMA OneAwakeStep ==
  ASSUME TypeOK, \A f \in Tasks : Link(f) /\ Over(f), [Next]_vars,
         fault = "none", fault' = "none", overtaken = FALSE, overtaken' = FALSE,
         OneAwake
  PROVE  OneAwake'
<1> USE CoroutinesAssumption DEF TypeOK, Frames, Tasks
<1>1. ASSUME NEW f \in Frames, Move(f) PROVE OneAwake'
  <2>1. CASE StartTask(f)
    <3>1. \A g \in Frames : Awake(g)' => g = f + 1
      BY <2>1 DEF StartTask, OneAwake, Awake
    <3>2. \A g \in Frames : at'[g] # "cancel"
      BY <2>1 DEF StartTask, OneAwake
    <3>3. QED
      BY <3>1, <3>2 DEF OneAwake
  <2>2. CASE await_ready(f) \/ await_resume(f) \/ return_void(f)
    BY <2>2 DEF await_ready, await_resume, return_void, Go, OneAwake, Awake
  <2>3. CASE await_suspend(f)
    <3>1. CASE Go(f, "flag", "resume")
      BY <3>1 DEF Go, OneAwake, Awake
    <3>2. CASE GiveBack(f, "flag", "suspended")
      <4>1. \A g \in Frames : Awake(g)' => g = f - 1
        BY <3>2 DEF GiveBack, OneAwake, Awake
      <4>2. \A g \in Frames : at'[g] # "cancel"
        BY <3>2 DEF GiveBack, OneAwake
      <4>3. QED
        BY <4>1, <4>2 DEF OneAwake
    <3>3. QED
      BY <2>3, <3>1, <3>2 DEF await_suspend
  <2>4. CASE cleanup(f)
    <3>1. f + 1 \in Tasks /\ at[f] = "drop" /\ (f + 1) - 1 = f
      BY <2>4 DEF cleanup, Go
    <3>2. "ready" \in flags[f + 1]
      BY <3>1 DEF Over, Awaking
    <3>3. at[f + 1] = "ended"
      BY <3>1, <3>2 DEF Link, OneAwake, Awake
    <3>4. Go(f, "drop", "value")
      BY <2>4, <3>1, <3>3 DEF cleanup, Link
    <3>5. QED
      BY <3>4 DEF Go, OneAwake, Awake
  <2>5. CASE cancel(f)
    BY <2>5 DEF cancel, Go, OneAwake
  <2>6. CASE final_suspend(f)
    <3>1. CASE ResumeAwaiter(f, "ended", "task resumes twice")
      <4>1. /\ at[f] = "final"
            /\ at' = [h \in Frames |->
                CASE h = f -> "ended" [] h = f - 1 -> "resume" [] OTHER -> at[h]]
        BY <2>6, <3>1 DEF final_suspend, ResumeAwaiter
      <4>2. \A g \in Frames : Awake(g)' => g = f - 1
        BY <4>1 DEF OneAwake, Awake
      <4>3. \A g \in Frames : at'[g] # "cancel"
        BY <4>1 DEF OneAwake
      <4>4. QED
        BY <4>2, <4>3 DEF OneAwake
    <3>2. CASE GiveBack(f, "final", "ended")
      <4>1. \A g \in Frames : Awake(g)' => g = f - 1
        BY <3>2 DEF GiveBack, OneAwake, Awake
      <4>2. \A g \in Frames : at'[g] # "cancel"
        BY <3>2 DEF GiveBack, OneAwake
      <4>3. QED
        BY <4>1, <4>2 DEF OneAwake
    <3>3. QED
      BY <2>6, <3>1, <3>2 DEF final_suspend
  <2>7. QED
    BY <1>1, <2>1, <2>2, <2>3, <2>4, <2>5, <2>6 DEF Move
<1>2. CASE StartCall \/ Leave \/ abandon
  BY <1>2 DEF StartCall, Leave, abandon, Go, OneAwake, Awake
<1>3. CASE EndJob
  BY <1>3 DEF EndJob, Go, OneAwake, Awake
<1>4. CASE callback
  <2>1. \A g \in Frames : g # Depth => at[g] = "suspended"
    <3>1. ~\E f \in 0 .. Depth - 1 : at[f] # "suspended"
      BY Zenon, <1>4 DEF callback
    <3>2. QED
      BY <3>1
  <2>2. \/ at' = at
        \/ at' = [h \in Frames |-> IF h = Depth THEN "resume" ELSE at[h]]
    BY <1>4 DEF callback, ResumeAwaiter, Call
  <2>3. CASE at' = at
    BY <2>3 DEF OneAwake, Awake
  <2>4. CASE at' = [h \in Frames |-> IF h = Depth THEN "resume" ELSE at[h]]
    BY <2>1, <2>4 DEF OneAwake, Awake
  <2>5. QED
    BY <2>2, <2>3, <2>4
<1>5. CASE UNCHANGED vars
  BY <1>5 DEF vars, OneAwake, Awake
<1>6. QED
  BY <1>1, <1>2, <1>3, <1>4, <1>5 DEF Next

\* Only an answer that overtook a caller lets a step fail, and it is never the
\* step that resumes a call.
LEMMA Fails ==
  ASSUME CoroInv, [Next]_vars, fault = "none", fault' # "none"
  PROVE  overtaken' = TRUE /\ fault' # "call resumes twice"
<1> USE CoroutinesAssumption DEF TypeOK, Frames, Tasks
<1>0. TypeOK /\ (\A f \in Tasks : Link(f)) /\ CallLink
      /\ (overtaken = FALSE => OneAwake)
  BY DEF CoroInv
<1>1. ASSUME NEW f \in Frames, Move(f)
      PROVE  overtaken' = TRUE /\ fault' # "call resumes twice"
  <2>1. CASE StartTask(f) \/ await_ready(f) \/ await_suspend(f) \/ await_resume(f)
               \/ cleanup(f) \/ return_void(f)
    BY <2>1 DEF StartTask, await_ready, await_suspend, await_resume, cleanup,
                return_void
  <2>2. CASE cancel(f)
    <3>1. at[f] = "cancel" /\ overtaken' = overtaken /\ fault' = "use after free"
      BY <2>2 DEF cancel, Go
    <3>2. QED
      BY <1>0, <3>1 DEF OneAwake
  <2>3. CASE final_suspend(f)
    <3>0. f \in Tasks /\ at[f] = "final" /\ overtaken' = overtaken
      BY Zenon, <2>3 DEF final_suspend
    <3>1. f \in Tasks /\ f - 1 \in Frames /\ f - 1 # f
          /\ at[f] = "final" /\ overtaken' = overtaken
      BY <3>0
    <3>2. "awaited" \in flags[f] /\ at[f - 1] # "suspended"
          /\ fault' = "task resumes twice"
      BY <2>3 DEF final_suspend, ResumeAwaiter
    <3>3. at[f - 1] = "resume"
      BY <1>0, <3>1, <3>2 DEF Link
    <3>4. QED
      BY <1>0, <3>1, <3>2, <3>3 DEF OneAwake, Awake
  <2>4. QED
    BY <1>1, <2>1, <2>2, <2>3 DEF Move
<1>2. CASE StartCall \/ Leave \/ abandon \/ EndJob \/ UNCHANGED vars
  BY <1>2 DEF StartCall, Leave, abandon, EndJob, vars
<1>3. CASE callback
  <2>0. pending /\ "awaited" \in flags[Call] /\ at[Call - 1] # "suspended"
    BY Zenon, <1>3 DEF callback, ResumeAwaiter
  <2>1. pending /\ "awaited" \in flags[Call] /\ at[Depth] # "suspended"
    BY <2>0 DEF Call
  <2>2. QED
    BY <1>0, <2>1 DEF CallLink
<1>4. QED
  BY <1>1, <1>2, <1>3 DEF Next

\* After a fault nothing is said.
LEMMA Stops ==
  ASSUME [Next]_vars, fault # "none"
  PROVE  UNCHANGED vars
BY DEF Next, Move, StartTask, await_ready, await_suspend, await_resume, cleanup,
       cancel, return_void, final_suspend, StartCall, Leave, abandon, EndJob,
       callback, Go, GiveBack, vars

LEMMA CoroStep == CoroInv /\ [Next]_vars => CoroInv'
<1> SUFFICES ASSUME CoroInv, [Next]_vars PROVE CoroInv'
  OBVIOUS
<1>1. TypeOK /\ TypeOK'
  BY TypeStep DEF CoroInv
<1>2. CASE fault # "none"
  <2>1. UNCHANGED vars
    BY <1>2, Stops
  <2>2. QED
    BY <1>1, <1>2, <2>1
       DEF CoroInv, CallResumesOnce, SoundUnlessOvertaken, vars
<1>3. CASE fault = "none" /\ fault' # "none"
  <2>1. overtaken' = TRUE /\ fault' # "call resumes twice"
    BY <1>3, Fails
  <2>2. QED
    BY <1>1, <1>3, <2>1 DEF CoroInv, CallResumesOnce, SoundUnlessOvertaken
<1>4. CASE fault = "none" /\ fault' = "none"
  <2>1. \A f \in Tasks : Link(f) /\ Over(f)
    BY <1>4 DEF CoroInv
  <2>2. CallLink /\ Ends /\ (~overtaken => OneAwake)
    BY <1>4 DEF CoroInv
  <2>3. \A f \in Tasks : Link(f)' /\ Over(f)'
    BY <1>1, <1>4, <2>1, <2>2, LinkStep, OverStep
  <2>4. CallLink' /\ Ends'
    BY <1>1, <1>4, <2>1, <2>2, CallLinkStep, EndsStep
  <2>5. ~overtaken' => OneAwake'
    <3>1. overtaken \in BOOLEAN /\ overtaken' \in BOOLEAN
      BY <1>1 DEF TypeOK
    <3>2. overtaken = TRUE => overtaken' = TRUE
      BY <3>1 DEF Next, Move, StartTask, await_ready, await_suspend, await_resume,
         cleanup, cancel, return_void, final_suspend, StartCall, Leave, abandon,
         EndJob, callback, vars
    <3>3. QED
      BY <1>1, <1>4, <2>1, <2>2, <3>1, <3>2, OneAwakeStep
  <2>6. QED
    BY <1>1, <1>4, <2>3, <2>4, <2>5
       DEF CoroInv, CallResumesOnce, SoundUnlessOvertaken
<1>5. QED
  BY <1>2, <1>3, <1>4

-----------------------------------------------------------------------------
(* The theorems. *)

\* CoroInv holds of every reachable state, however many frames an event has and
\* whenever Discord answers.
THEOREM CoroInvariant == Spec => []CoroInv
<1>1. QED
  BY CoroInit, CoroStep, PTL DEF Spec

\* An await of a call to Discord (coro/async.h) goes on once, at whatever moment
\* of the await the answer comes.
THEOREM CallsResumeOnce == Spec => []CallResumesOnce
<1>1. CoroInv => CallResumesOnce
  BY DEF CoroInv
<1>2. QED
  BY <1>1, CoroInvariant, PTL

\* When every answer finds the callers asleep, no task resumes its caller twice
\* and none is used after it was freed (coro/task.h).
THEOREM SoundWhenNotOvertaken == Spec => []SoundUnlessOvertaken
<1>1. CoroInv => SoundUnlessOvertaken
  BY DEF CoroInv
<1>2. QED
  BY <1>1, CoroInvariant, PTL

\* The promise of a task is never awaited and broken at once (coro/task.h calls
\* it a major bug).
THEOREM NeverAwaitedAndBroken == Spec => []NeverBoth
<1>1. CoroInv => NeverBoth
  BY DEF CoroInv, NeverBoth, Link
<1>2. QED
  BY <1>1, CoroInvariant, PTL

\* The event outlives the tasks that were given a reference to it
\* (event_router.h).
THEOREM EventIsKept == Spec => []EventKept
<1>1. CoroInv => EventKept
  <2> SUFFICES ASSUME CoroInv, fault = "none", at[0] = "ended", NEW f \in Tasks
               PROVE  "ready" \in flags[f]
    BY DEF EventKept
  <2>1. 1 \in Tasks /\ 1 - 1 = 0 /\ f \in 1 .. Depth
    BY CoroutinesAssumption DEF Tasks
  <2>2. Over(1)
    BY <2>1 DEF CoroInv
  <2>3. QED
    BY <2>1, <2>2 DEF Over, Awaking
<1>2. QED
  BY <1>1, CoroInvariant, PTL

-----------------------------------------------------------------------------
(* No wakeup is lost. *)

\* When nothing runs and Discord owes nothing, every frame has ended: the frames
\* are all there, the last one has ended, and so has each above one that has.
LEMMA AllEnded ==
  ASSUME CoroInv, fault = "none", ~pending, \A f \in Frames : ~Awake(f)
  PROVE  \A f \in Frames : at[f] = "ended"
<1> USE CoroutinesAssumption DEF Frames, Tasks
<1>1. /\ Depth \in Nat /\ Depth > 0
      /\ \A f \in Frames : at[f] \in {"unborn", "calling", "suspended", "ended"}
      /\ \A f \in Tasks : Link(f)
      /\ CallLink /\ Ends
  BY DEF CoroInv, Awake
<1>2. \A f \in Frames : at[f] # "unborn"
  <2> DEFINE Unborn == {f \in Frames : at[f] = "unborn"}
  <2> SUFFICES ASSUME Unborn # {} PROVE FALSE
    OBVIOUS
  <2>1. PICK f \in Unborn : \A g \in Unborn : f <= g
    <3>1. Unborn \in SUBSET Nat
      OBVIOUS
    <3>2. QED
      BY <3>1, Least
  <2>2. f \in Tasks /\ f - 1 \in Frames /\ f - 1 \notin Unborn
    BY <1>1, <2>1 DEF Ends
  <2>3. QED
    BY <1>1, <2>1, <2>2 DEF Link
<1>3. at[Depth] = "ended"
  BY <1>1, <1>2 DEF CallLink, Ends
<1>4. \A f \in Tasks : at[f] = "ended" => at[f - 1] = "ended"
  BY <1>1, <1>2 DEF Link
<1>5. QED
  <2> DEFINE Late == {d \in Nat : d <= Depth /\ at[Depth - d] # "ended"}
  <2>1. Late = {}
    <3> SUFFICES ASSUME Late # {} PROVE FALSE
      OBVIOUS
    <3>1. PICK d \in Late : \A e \in Late : d <= e
      <4>1. Late \in SUBSET Nat
        OBVIOUS
      <4>2. QED
        BY <4>1, Least
    <3>2. d # 0 /\ d - 1 \in Nat /\ d - 1 \notin Late
      BY <1>3, <3>1
    <3>3. Depth - d + 1 \in Tasks /\ at[Depth - d + 1] = "ended"
      BY <3>1, <3>2
    <3>4. QED
      BY <1>4, <3>1, <3>3
  <2>2. ASSUME NEW f \in Frames PROVE at[f] = "ended"
    <3>1. Depth - f \in Nat /\ Depth - f <= Depth /\ Depth - (Depth - f) = f
      OBVIOUS
    <3>2. Depth - f \notin Late
      BY <2>1
    <3>3. QED
      BY <3>1, <3>2
  <2>3. QED
    BY <2>2

\* No interleaving of a task with its caller, or of Discord's answer with either,
\* leaves a frame asleep that nobody will wake, or a frame that nobody frees
\* (coro/task.h, coro/async.h).
THEOREM WakeupsArrive == Spec => []NoWakeupLost
<1>1. CoroInv => NoWakeupLost
  <2> SUFFICES ASSUME CoroInv, fault = "none", ~pending,
                      \A f \in Frames : ~Awake(f)
               PROVE  at[0] = "ended" /\ \A f \in Tasks : memory[f] = "freed"
    BY DEF NoWakeupLost
  <2>1. \A f \in Frames : at[f] = "ended"
    BY AllEnded
  <2>2. ASSUME NEW f \in Tasks PROVE memory[f] = "freed"
    <3>1. Link(f) /\ f \in Frames /\ f - 1 \in Frames
      BY CoroutinesAssumption DEF CoroInv, Frames, Tasks
    <3>2. QED
      BY <2>1, <3>1 DEF Link
  <2>3. QED
    BY <2>1, <2>2, CoroutinesAssumption DEF Frames
<1>2. QED
  BY <1>1, CoroInvariant, PTL
=============================================================================
