----------------------------- MODULE Coroutines -----------------------------
(***************************************************************************)
(* How D++ runs an event handler that is a coroutine.                      *)
(*                                                                         *)
(* The frames of one event: frame 0 is the job of the event router, which  *)
(* owns the event; frame f awaits frame f + 1, a dpp::task that starts on  *)
(* the thread of its caller; the last one, a command handler, awaits calls *)
(* to Discord one after the other, each a dpp::async.  The callback of a   *)
(* call comes on another thread, at any time after the call was made, and  *)
(* goes on with the handler there, while the frames that called it may     *)
(* still be on their way to await it.                                      *)
(*                                                                         *)
(* The two sides of an await meet in the atomic flags of a promise: one    *)
(* operation on them is one step.  A step that the library does not define *)
(* is a fault, and nothing is said of what follows.                        *)
(***************************************************************************)
EXTENDS Integers

CONSTANTS
  Depth,   \* tasks of an event: 3 from the lambda in main to a handler
  Calls    \* how often the handler calls Discord, at most

ASSUME CoroutinesAssumption ==
  /\ Depth \in Nat \ {0}
  /\ Calls \in Nat

Frames   == 0 .. Depth
Tasks    == 1 .. Depth
Call     == Depth + 1       \* the promise of the handler's current call
Promises == 1 .. Call       \* frame f awaits promise f + 1

VARIABLES
  at,         \* where each frame stands
  flags,      \* promise_base::state
  memory,     \* the frame of a task, its promise in it: none, live or freed
  left,       \* calls the handler has left to make
  pending,    \* Discord has not answered the current call
  overtaken,  \* history: an answer came while a caller was awake
  fault       \* what went wrong

vars == <<at, flags, memory, left, pending, overtaken, fault>>

Points == {"unborn", "call", "calling", "check", "flag", "suspended", "resume",
           "drop", "cancel", "value", "final", "ended"}
state_flags == {"awaited", "ready", "done", "broken"}
Faults == {"task resumes twice", "call resumes twice", "use after free"}

TypeOK ==
  /\ at \in [Frames -> Points]
  /\ flags \in [Promises -> SUBSET state_flags]
  /\ memory \in [Tasks -> {"none", "live", "freed"}]
  /\ left \in 0 .. Calls
  /\ pending \in BOOLEAN
  /\ overtaken \in BOOLEAN
  /\ fault \in Faults \cup {"none"}

Init ==
  /\ at = [f \in Frames |-> IF f = 0 THEN "call" ELSE "unborn"]
  /\ flags = [p \in Promises |-> {}]
  /\ memory = [f \in Tasks |-> "none"]
  /\ left = Calls
  /\ pending = FALSE
  /\ overtaken = FALSE
  /\ fault = "none"

-----------------------------------------------------------------------------
(* A frame moves; one that suspends or ends for the first time gives the      *)
(* thread back to its caller.                                                 *)

Go(f, from, to) ==
  /\ fault = "none"
  /\ at[f] = from
  /\ at' = [at EXCEPT ![f] = to]

GiveBack(f, from, to) ==
  /\ fault = "none"
  /\ at[f] = from
  /\ at' = [g \in Frames |->
              CASE g = f -> to
                [] g = f - 1 /\ at[g] = "calling" -> "check"
                [] OTHER -> at[g]]

\* The thread that ended f, or answered the call, goes on with the frame above it.
ResumeAwaiter(f, to, wrong) ==
  IF at[f - 1] = "suspended"
    THEN /\ at' = [g \in Frames |->
                     CASE g = f -> to [] g = f - 1 -> "resume" [] OTHER -> at[g]]
         /\ UNCHANGED fault
    ELSE /\ fault' = wrong
         /\ UNCHANGED at

Raise(p, flag) == flags' = [flags EXCEPT ![p] = @ \cup {flag}]

-----------------------------------------------------------------------------
(* Starting. *)

\* Mutant of StartTask: the router does not keep the tasks it starts.
StartTaskAndEnd(f) ==
  /\ f < Depth
  /\ fault = "none"
  /\ at[f] = "call"
  /\ at' = [at EXCEPT ![f] = IF f = 0 THEN "ended" ELSE "calling", ![f + 1] = "call"]
  /\ memory' = [memory EXCEPT ![f + 1] = "live"]
  /\ UNCHANGED <<flags, left, pending, overtaken, fault>>

\* handler(event): initial_suspend does not suspend, the task runs at once.
StartTask(f) ==
  /\ f < Depth
  /\ fault = "none"
  /\ at[f] = "call"
  /\ at' = [at EXCEPT ![f] = "calling", ![f + 1] = "call"]
  /\ memory' = [memory EXCEPT ![f + 1] = "live"]
  /\ UNCHANGED <<flags, left, pending, overtaken, fault>>

\* event.co_thinking() and the like: async's constructor makes the call.
StartCall ==
  /\ left > 0
  /\ Go(Depth, "call", "check")
  /\ flags' = [flags EXCEPT ![Call] = {}]
  /\ left' = left - 1
  /\ pending' = TRUE
  /\ UNCHANGED <<memory, overtaken, fault>>

\* co_return, or an exception.
Leave ==
  /\ Go(Depth, "call", "value")
  /\ UNCHANGED <<flags, memory, left, pending, overtaken, fault>>

-----------------------------------------------------------------------------
(* co_await. *)

await_ready(f) ==
  /\ Go(f, "check", IF "ready" \in flags[f + 1] THEN "resume" ELSE "flag")
  /\ UNCHANGED <<flags, memory, left, pending, overtaken, fault>>

\* Mutant of await_suspend: what was there is looked at a step too late.
await_suspend_late(f) ==
  /\ Raise(f + 1, "awaited")
  /\ Go(f, "flag", "check")
  /\ UNCHANGED <<memory, left, pending, overtaken, fault>>

\* Mutant of await_suspend: it suspends whether the value was there or not.
await_suspend_blindly(f) ==
  /\ Raise(f + 1, "awaited")
  /\ GiveBack(f, "flag", "suspended")
  /\ UNCHANGED <<memory, left, pending, overtaken, fault>>

\* fetch_or: suspend unless the value was there.
await_suspend(f) ==
  /\ Raise(f + 1, "awaited")
  /\ \/ "ready" \in flags[f + 1] /\ Go(f, "flag", "resume")
     \/ "ready" \notin flags[f + 1] /\ GiveBack(f, "flag", "suspended")
  /\ UNCHANGED <<memory, left, pending, overtaken, fault>>

\* Mutant of await_resume: fetch_and is forgotten.
await_resume_keeps(f) ==
  /\ Go(f, "resume", "drop")
  /\ UNCHANGED <<flags, memory, left, pending, overtaken, fault>>

\* fetch_and: the promise is awaited no more.
await_resume(f) ==
  /\ Go(f, "resume", "drop")
  /\ flags' = [flags EXCEPT ![f + 1] = @ \ {"awaited"}]
  /\ UNCHANGED <<memory, left, pending, overtaken, fault>>

\* ~task(): a task that is done is destroyed, and one that is not is left to
\* destroy itself, and told to cancel.
cleanup(f) ==
  /\ f < Depth
  /\ Raise(f + 1, "broken")
  /\ \/ /\ "done" \in flags[f + 1]
        /\ Go(f, "drop", "value")
        /\ memory' = [memory EXCEPT ![f + 1] = "freed"]
     \/ /\ "done" \notin flags[f + 1]
        /\ Go(f, "drop", "cancel")
        /\ UNCHANGED memory
  /\ UNCHANGED <<left, pending, overtaken, fault>>

\* handle.promise().cancelled, in the frame of the task.
cancel(f) ==
  /\ Go(f, "cancel", "value")
  /\ fault' = IF memory[f + 1] = "freed" THEN "use after free" ELSE "none"
  /\ UNCHANGED <<flags, memory, left, pending, overtaken>>

\* ~async()
abandon ==
  /\ Go(Depth, "drop", "call")
  /\ Raise(Call, "broken")
  /\ UNCHANGED <<memory, left, pending, overtaken, fault>>

-----------------------------------------------------------------------------
(* Ending. *)

\* Mutant of return_void: set_value<true>, which resumes the parent.
return_void_notify(f) ==
  /\ f \in Tasks
  /\ fault = "none"
  /\ at[f] = "value"
  /\ Raise(f, "ready")
  /\ IF "awaited" \in flags[f]
       THEN ResumeAwaiter(f, "final", "task resumes twice")
       ELSE Go(f, "value", "final") /\ UNCHANGED fault
  /\ UNCHANGED <<memory, left, pending, overtaken>>

\* set_value<false>, or set_exception<false>.
return_void(f) ==
  /\ f \in Tasks
  /\ Go(f, "value", "final")
  /\ Raise(f, "ready")
  /\ UNCHANGED <<memory, left, pending, overtaken, fault>>

\* Mutant of final_suspend: it destroys nothing.
final_suspend_leaks(f) ==
  /\ f \in Tasks
  /\ fault = "none"
  /\ at[f] = "final"
  /\ Raise(f, "done")
  /\ \/ /\ "awaited" \in flags[f]
        /\ ResumeAwaiter(f, "ended", "task resumes twice")
     \/ /\ "awaited" \notin flags[f]
        /\ GiveBack(f, "final", "ended")
        /\ UNCHANGED fault
  /\ UNCHANGED <<memory, left, pending, overtaken>>

\* Resume the parent, or free a frame that nobody refers to.
final_suspend(f) ==
  /\ f \in Tasks
  /\ fault = "none"
  /\ at[f] = "final"
  /\ Raise(f, "done")
  /\ \/ /\ "awaited" \in flags[f]
        /\ ResumeAwaiter(f, "ended", "task resumes twice")
        /\ UNCHANGED memory
     \/ /\ "awaited" \notin flags[f]
        /\ GiveBack(f, "final", "ended")
        /\ memory' = [memory EXCEPT ![f] =
                        IF "broken" \in flags[f] THEN "freed" ELSE @]
        /\ UNCHANGED fault
  /\ UNCHANGED <<left, pending, overtaken>>

\* The job ends, and the event with it.  That a job may instead rethrow what its
\* handler threw, to whoever resumed it, is left out.
EndJob ==
  /\ Go(0, "value", "ended")
  /\ UNCHANGED <<flags, memory, left, pending, overtaken, fault>>

\* Discord answers: set_value<true> of the call's promise.
callback ==
  /\ pending
  /\ fault = "none"
  /\ pending' = FALSE
  /\ Raise(Call, "ready")
  /\ overtaken' = (overtaken \/ \E f \in 0 .. Depth - 1 : at[f] # "suspended")
  /\ \/ "awaited" \in flags[Call] /\ ResumeAwaiter(Call, "ended", "call resumes twice")
     \/ "awaited" \notin flags[Call] /\ UNCHANGED <<at, fault>>
  /\ UNCHANGED <<memory, left>>

Move(f) ==
  \/ StartTask(f) \/ await_ready(f) \/ await_suspend(f) \/ await_resume(f)
  \/ cleanup(f) \/ cancel(f) \/ return_void(f) \/ final_suspend(f)

Next ==
  \/ \E f \in Frames : Move(f)
  \/ StartCall \/ Leave \/ abandon \/ EndJob \/ callback

Spec == Init /\ [][Next]_vars

\* The threads run what is runnable, and Discord answers.
FairSpec == Spec /\ WF_vars(Next)

-----------------------------------------------------------------------------
(* Properties. *)

\* An answer that comes while the callers are asleep never breaks a handler: each
\* frame goes on once when what it awaits has ended, and nothing is used that was
\* freed.
SoundUnlessOvertaken == ~overtaken => fault = "none"

\* However early an answer comes, the handler goes on once for each call.
CallResumesOnce == fault # "call resumes twice"

\* "these should never be set together"
NeverBoth == fault = "none" =>
  \A f \in Tasks : ~({"awaited", "broken"} \subseteq flags[f])

\* "keep the event object alive until all tasks finished": no task runs on when
\* the job, and the event in it, is gone.
EventKept == fault = "none" /\ at[0] = "ended" =>
  \A f \in Tasks : "ready" \in flags[f]

Awake(f) == at[f] \notin {"unborn", "calling", "suspended", "ended"}

\* No wakeup is lost: as long as a frame is left, one of them runs or Discord owes
\* it an answer, in whatever order values, flags and answers come.
NoWakeupLost == fault = "none" =>
  \/ pending
  \/ \E f \in Frames : Awake(f)
  \/ at[0] = "ended" /\ \A f \in Tasks : memory[f] = "freed"

\* Every event ends, and leaves no frame behind.
EventEnds ==
  <>(\/ fault # "none"
     \/ at[0] = "ended" /\ \A f \in Tasks : memory[f] = "freed")

-----------------------------------------------------------------------------
(* The inductive invariant behind the invariants above. *)

Awaking == {"resume", "drop", "cancel", "value", "final", "ended"}

\* Where the frame of a task, its promise and the frame that awaits it stand.
Link(f) ==
  /\ at[f] = "unborn" <=> at[f - 1] \in {"unborn", "call"}
  /\ "ready" \in flags[f] <=> at[f] \in {"final", "ended"}
  /\ "done" \in flags[f] <=> at[f] = "ended"
  /\ "broken" \in flags[f] <=> at[f - 1] \in {"cancel", "value", "final", "ended"}
  /\ "awaited" \in flags[f] => at[f - 1] \in {"suspended", "resume"}
  /\ at[f - 1] = "suspended" => "awaited" \in flags[f] /\ at[f] # "ended"
  /\ at[f - 1] = "calling" => at[f] \notin {"suspended", "ended"}
  /\ memory[f] = "freed" <=> {"broken", "done"} \subseteq flags[f]

\* A frame that has its value is above tasks that have theirs.
Over(f) == at[f - 1] \in Awaking => \A g \in f .. Depth : "ready" \in flags[g]

\* The call and the frame that awaits it.
CallLink ==
  /\ "awaited" \in flags[Call] => at[Depth] \in {"suspended", "resume"}
  /\ at[Depth] = "suspended" => "awaited" \in flags[Call] /\ pending
  /\ at[Depth] \in {"check", "flag"} => (pending <=> "ready" \notin flags[Call])
  /\ pending => at[Depth] \in {"check", "flag", "suspended"}

\* The first frame is there from the start, the last one calls no task.
Ends == at[0] # "unborn" /\ at[Depth] # "calling"

\* Until an answer overtakes a caller, one frame runs at a time.
OneAwake ==
  /\ \A f, g \in Frames : Awake(f) /\ Awake(g) => f = g
  /\ \A f \in Frames : at[f] # "cancel"

CoroInv ==
  /\ TypeOK
  /\ CallResumesOnce
  /\ SoundUnlessOvertaken
  /\ fault = "none" =>
       /\ \A f \in Tasks : Link(f) /\ Over(f)
       /\ CallLink
       /\ Ends
       /\ ~overtaken => OneAwake
=============================================================================
