------------------------------- MODULE Fetch -------------------------------
(***************************************************************************)
(* The interactions that show what LeetCode says and keep nothing: the     *)
(* subcommands dailyquestion and activity, the replies of the same         *)
(* coroutine to anything it does not know, and the Description button.     *)
(* They share one thing, the thread pool of D++.                           *)
(*                                                                         *)
(* A handler, a coroutine that goes on and the completion of a request are *)
(* jobs: each waits for a thread and keeps it until it returns or          *)
(* suspends.  A completion that was rate limited sleeps on its thread.     *)
(*                                                                         *)
(* A slash command awaits its thinking() before it goes on; the button     *)
(* posts it and goes on.  Discord refuses to edit a response that is not   *)
(* there, and gives an interaction up that nobody answers in three seconds.*)
(***************************************************************************)
EXTENDS Naturals, FiniteSets

CONSTANTS
  Requests,   \* interactions
  Threads     \* how many threads the pool has

ASSUME FetchAssumption ==
  /\ IsFiniteSet(Requests)
  /\ Threads \in Nat \ {0}

Slash == {"dailyquestion", "activity", "other"}
Kinds == Slash \cup {"description"}

VARIABLES
  kind,       \* what each interaction asks, fixed from the start
  at,         \* where it stands
  thinking,   \* event.thinking() is in flight
  edit,       \* event.edit_original_response(..) in flight, and how long it is
  posted,     \* how many answers were posted
  shown       \* Discord: what the response shows

discord == <<thinking, edit, posted, shown>>
vars == <<kind, at, discord>>

\* A job that waits for a thread, and the same job on its thread.
Runs == [event |-> "handler", resume |-> "coroutine", arrived |-> "completion"]
Queued == DOMAIN Runs
Early == {"idle", "event", "handler", "thinking"}

TypeOK ==
  /\ kind \in [Requests -> Kinds]
  /\ at \in [Requests -> Early \cup {"resume", "coroutine", "replying", "asked",
                "arrived", "completion", "asleep", "over", "lost"}]
  /\ thinking \in [Requests -> BOOLEAN]
  /\ edit \in [Requests -> {"none", "short", "long"}]
  /\ posted \in [Requests -> Nat]
  /\ shown \in [Requests -> {"nothing", "thinking", "answer", "expired"}]

Init ==
  /\ kind \in [Requests -> Kinds]
  /\ at = [r \in Requests |-> "idle"]
  /\ thinking = [r \in Requests |-> FALSE]
  /\ edit = [r \in Requests |-> "none"]
  /\ posted = [r \in Requests |-> 0]
  /\ shown = [r \in Requests |-> "nothing"]

-----------------------------------------------------------------------------
(* The pool. *)

Step(r, from, to) ==
  /\ at[r] = from
  /\ at' = [at EXCEPT ![r] = to]

\* Mutant of Busy: a fetcher waits for the answer on the thread that asked.
BusyWaiting ==
  {r \in Requests : at[r] \in {"handler", "coroutine", "completion", "asleep",
                               "asked", "arrived"}}

\* The jobs that keep a thread.
Busy ==
  {r \in Requests : at[r] \in {"handler", "coroutine", "completion", "asleep"}}

AllBusy == Cardinality(Busy) >= Threads

Issue(r) ==
  /\ Step(r, "idle", "event")
  /\ UNCHANGED <<kind, discord>>

\* A free thread takes any job: the queue does not keep the order of equals.
Take(r) ==
  /\ ~AllBusy
  /\ at[r] \in Queued
  /\ at' = [at EXCEPT ![r] = Runs[at[r]]]
  /\ UNCHANGED <<kind, discord>>

-----------------------------------------------------------------------------
(* The handlers. *)

Think(r) == thinking' = [thinking EXCEPT ![r] = TRUE]

Post(r, lengths) ==
  /\ \E n \in lengths : edit' = [edit EXCEPT ![r] = n]
  /\ posted' = [posted EXCEPT ![r] = @ + 1]

\* Mutant of Begin: the thinking() of the slash commands is not awaited.
BeginAtOnce(r) ==
  /\ kind[r] \in Slash
  /\ Step(r, "handler", "resume")
  /\ Think(r)
  /\ UNCHANGED <<kind, edit, posted, shown>>

\* co_await event.co_thinking(): the coroutine suspends.
Begin(r) ==
  /\ kind[r] \in Slash
  /\ Step(r, "handler", "thinking")
  /\ Think(r)
  /\ UNCHANGED <<kind, edit, posted, shown>>

\* event.thinking(), and the request at once.
Describe(r) ==
  /\ kind[r] = "description"
  /\ Step(r, "handler", "asked")
  /\ Think(r)
  /\ UNCHANGED <<kind, edit, posted, shown>>

\* dpp::find_guild_member may throw; no handler catches it.
LookupFails(r) ==
  /\ Step(r, "coroutine", "lost")
  /\ UNCHANGED <<kind, discord>>

\* An awaited edit: no subcommand, an unknown one, or nobody registered.
Reply(r) ==
  /\ Step(r, "coroutine", "replying")
  /\ Post(r, {"short"})
  /\ UNCHANGED <<kind, thinking, shown>>

\* fetchLeetCodeDailyQuestion(..) or fetchLeetCodeActivity(..), for a user who is
\* registered; the coroutine returns.
Fetch(r) ==
  /\ kind[r] # "other"
  /\ Step(r, "coroutine", "asked")
  /\ UNCHANGED <<kind, discord>>

-----------------------------------------------------------------------------
(* The completions. *)

\* LeetCode answers, or the request fails or times out.
Arrive(r) ==
  /\ Step(r, "asked", "arrived")
  /\ UNCHANGED <<kind, discord>>

\* Mutant of Answer: an exception while the answer is read ends the completion.
AnswerOrThrow(r) ==
  /\ Step(r, "completion", "over")
  /\ \/ Post(r, {"short"})
     \/ UNCHANGED <<edit, posted>>

\* Status 200: the answer, what it lacks, or what is wrong with it.
Answer(r) ==
  /\ Step(r, "completion", "over")
  /\ Post(r, {"short"})

\* Another status, or out of retries.  The edit carries the body, and D++ cuts it
\* at 4000 characters: it may be longer than Discord takes.
Fail(r) ==
  /\ Step(r, "completion", "over")
  /\ Post(r, {"short", "long"})

\* Mutant of Backoff: the failure is shown before the retry.
BackoffAloud(r) ==
  /\ Step(r, "completion", "asleep")
  /\ Post(r, {"short"})

\* 429 or 499, and retries left by a retry_count that went out of scope with the
\* call that took it: it may read anything.
Backoff(r) ==
  /\ Step(r, "completion", "asleep")
  /\ UNCHANGED <<edit, posted>>

CompleteDailyQuestion(r) ==
  /\ kind[r] = "dailyquestion"
  /\ Answer(r) \/ Fail(r) \/ Backoff(r)
  /\ UNCHANGED <<kind, thinking, shown>>

CompleteActivity(r) ==
  /\ kind[r] = "activity"
  /\ Answer(r) \/ Fail(r) \/ Backoff(r)
  /\ UNCHANGED <<kind, thinking, shown>>

CompleteDescription(r) ==
  /\ kind[r] = "description"
  /\ Answer(r) \/ Fail(r) \/ Backoff(r)
  /\ UNCHANGED <<kind, thinking, shown>>

\* The sleep is over: the fetcher is called again, and its thread is free.
Retry(r) ==
  /\ Step(r, "asleep", "asked")
  /\ UNCHANGED <<kind, discord>>

\* fetchLeetCodeActivity captures its parameter `bot` by reference, and calls
\* itself with what is left of it: the process may die, and is started again.
RetryCrashes(r) ==
  /\ kind[r] = "activity"
  /\ at[r] = "asleep"
  /\ at' = [q \in Requests |->
              CASE at[q] \in {"idle", "over"} -> at[q]
                [] at[q] = "replying" -> "over"
                [] OTHER -> "lost"]
  /\ thinking' = [q \in Requests |-> FALSE]
  /\ edit' = [q \in Requests |-> "none"]
  /\ UNCHANGED <<kind, posted, shown>>

-----------------------------------------------------------------------------
(* Discord. *)

\* Mutant of TakeThinking: a refused thinking() resumes nobody.
TakeThinkingOrStay(r) ==
  /\ thinking[r]
  /\ thinking' = [thinking EXCEPT ![r] = FALSE]
  /\ shown' = [shown EXCEPT ![r] = IF @ = "nothing" THEN "thinking" ELSE @]
  /\ at' = [at EXCEPT ![r] =
              IF @ = "thinking" /\ shown[r] = "nothing" THEN "resume" ELSE @]
  /\ UNCHANGED <<kind, edit, posted>>

\* A refused thinking() resumes the coroutine too, which does not look.
TakeThinking(r) ==
  /\ thinking[r]
  /\ thinking' = [thinking EXCEPT ![r] = FALSE]
  /\ shown' = [shown EXCEPT ![r] = IF @ = "nothing" THEN "thinking" ELSE @]
  /\ at' = [at EXCEPT ![r] = IF @ = "thinking" THEN "resume" ELSE @]
  /\ UNCHANGED <<kind, edit, posted>>

\* Refused if it is too long or there is no response; then it is lost.
TakeEdit(r) ==
  /\ edit[r] # "none"
  /\ edit' = [edit EXCEPT ![r] = "none"]
  /\ shown' = [shown EXCEPT ![r] =
                 IF @ = "thinking" /\ edit[r] = "short" THEN "answer" ELSE @]
  /\ at' = [at EXCEPT ![r] = IF @ = "replying" THEN "over" ELSE @]
  /\ UNCHANGED <<kind, thinking, posted>>

\* Three seconds without a response.
Expire(r) ==
  /\ at[r] # "idle"
  /\ shown[r] = "nothing"
  /\ shown' = [shown EXCEPT ![r] = "expired"]
  /\ UNCHANGED <<kind, at, thinking, edit, posted>>

Handle(r) == Begin(r) \/ Describe(r) \/ LookupFails(r) \/ Reply(r) \/ Fetch(r)

Complete(r) ==
  CompleteDailyQuestion(r) \/ CompleteActivity(r) \/ CompleteDescription(r)

Next ==
  \E r \in Requests :
    \/ Issue(r) \/ Take(r) \/ Handle(r)
    \/ Arrive(r) \/ Complete(r) \/ Retry(r) \/ RetryCrashes(r)
    \/ TakeThinking(r) \/ TakeEdit(r) \/ Expire(r)

Spec == Init /\ [][Next]_vars

FairSpec ==
  /\ Spec
  /\ \A r \in Requests :
       /\ WF_vars(Take(r)) /\ WF_vars(Handle(r)) /\ WF_vars(Arrive(r))
       /\ WF_vars(Complete(r)) /\ WF_vars(Retry(r))
       /\ WF_vars(TakeThinking(r)) /\ WF_vars(TakeEdit(r))

-----------------------------------------------------------------------------
(* Properties. *)

\* Every path of a handler and of its completion posts one answer, and a path
\* that retries posts none: no interaction is answered twice or forgotten.
AnsweredOnce ==
  \A r \in Requests :
    posted[r] = IF at[r] \in {"replying", "over"} THEN 1 ELSE 0

NoEarlyEdit(r) == edit[r] # "none" => shown[r] # "nothing"

\* The answer to a slash command never overtakes its thinking(): Discord has the
\* response, or has given the interaction up, before there is an edit of it.
SlashEditsLand == \A r \in Requests : kind[r] \in Slash => NoEarlyEdit(r)

\* The same of the Description button: "so discord waits for fetch".
DiscordWaitsForFetch == \A r \in Requests : NoEarlyEdit(r)

\* A coroutine never waits for a call that is not on its way to Discord: however
\* late, refused or given up it is, the answer is still to come.
NobodyForgotten ==
  \A r \in Requests : /\ at[r] = "thinking" => thinking[r]
                      /\ at[r] = "replying" => edit[r] # "none"

\* Completions that sleep on all threads of the pool give one back.
PoolRecovers == AllBusy ~> ~AllBusy

\* If LeetCode does not limit somebody for ever, every interaction is answered,
\* but for one whose member the cache does not know or whose process died.
Answered ==
  (\A q \in Requests : <>[](at[q] # "asleep")) =>
    \A r \in Requests : at[r] = "event" ~> posted[r] > 0 \/ at[r] = "lost"

-----------------------------------------------------------------------------
(* The inductive invariant behind the first three. *)

\* There is no edit before an answer was posted, and none of a slash command is
\* posted before it has awaited its thinking(): by then the response is settled.
Awaited(r) ==
  /\ posted[r] = 0 => edit[r] = "none"
  /\ kind[r] \in Slash /\ at[r] \notin Early \cup {"lost"} => shown[r] # "nothing"

FetchInv ==
  /\ TypeOK
  /\ AnsweredOnce
  /\ NobodyForgotten
  /\ \A r \in Requests : Awaited(r)

=============================================================================
