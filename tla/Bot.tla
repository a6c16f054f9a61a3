-------------------------------- MODULE Bot ---------------------------------
(***************************************************************************)
(* The process: main, the registration of the commands with Discord, the   *)
(* dispatch of interactions to their handlers, and the two commands that   *)
(* need nothing else, /ping and /info.                                     *)
(*                                                                         *)
(* The handlers of Discord's events run on the threads of D++'s pool, so   *)
(* those of two ready events (of two shards, or of a new session) may      *)
(* overlap.  What the other handlers do is the matter of Registration,     *)
(* Profile, Fetch and SolutionPages: here they are where a dispatch ends.  *)
(***************************************************************************)
EXTENDS FiniteSets, Naturals

CONSTANTS
  Readies,       \* ready events of a process
  Interactions,
  MaxStarts      \* bound: how often somebody starts the bot

ASSUME BotAssumption == IsFiniteSet(Readies) /\ MaxStarts \in Nat

Commands == {"ping", "info", "register", "leetcode"}
Retired  == "retired"       \* a command that an earlier version created
Buttons  == {"solution_id", "description_id", "solution_prev_page",
             "solution_next_page"}
Handlers == {"reply", "handle_info_commands", "handle_registry_commands",
             "handle_leetcode_commands", "handle_solution_button_click",
             "handle_solutions_page_button", "handle_solution_dropdown"}

VARIABLES
  process,     \* main: "stopped", "running", or left with "error"
  connected,   \* the database, when main asked for it
  starts,
  called,      \* run_once's static flag
  phase,       \* each ready handler: "none", has read the flag "first" or
               \* "again", or is "past" it
  posters,     \* the ready handlers of this process that created the commands
  raced,       \* history: two of this process's ready handlers overlapped
  creating,    \* creations that Discord has not answered
  failed,      \* history: a creation failed since the process started
  registered,  \* the commands that Discord offers to users
  at,          \* each interaction, in the bot
  kind,        \* its command, the id of its button, or "menu"
  handled,     \* the handlers it was given to
  shown,       \* what its user sees
  refused      \* history: the interactions that Discord did not let answer

procVars  == <<process, connected, starts>>
readyVars == <<called, phase, posters, raced, creating, failed, registered>>
intVars   == <<at, kind, handled, shown, refused>>
vars      == <<procVars, readyVars, intVars>>

Phases == {"none", "first", "again", "past"}
Points == {"none", "queued", "reply", "thinking", "edit", "done", "lost"}

TypeOK ==
  /\ process \in {"stopped", "running", "error"}
  /\ connected \in BOOLEAN
  /\ starts \in 0 .. MaxStarts
  /\ called \in BOOLEAN
  /\ phase \in [Readies -> Phases]
  /\ posters \in SUBSET Readies
  /\ raced \in BOOLEAN
  /\ creating \in SUBSET Readies
  /\ failed \in BOOLEAN
  /\ registered \in SUBSET (Commands \cup {Retired})
  /\ at \in [Interactions -> Points]
  /\ kind \in [Interactions -> Commands \cup Buttons \cup {Retired, "menu", "none"}]
  /\ handled \in [Interactions -> SUBSET Handlers]
  /\ shown \in [Interactions -> {"nothing", "thinking", "answer"}]
  /\ refused \in SUBSET Interactions

Init ==
  /\ process = "stopped"
  /\ connected = FALSE
  /\ starts = 0
  /\ called = FALSE
  /\ phase = [e \in Readies |-> "none"]
  /\ posters = {}
  /\ raced = FALSE
  /\ creating = {}
  /\ failed = FALSE
  /\ registered \in {{}, Commands, {"ping", Retired}}   \* by an earlier bot
  /\ at = [i \in Interactions |-> "none"]
  /\ kind = [i \in Interactions |-> "none"]
  /\ handled = [i \in Interactions |-> {}]
  /\ shown = [i \in Interactions |-> "nothing"]
  /\ refused = {}

-----------------------------------------------------------------------------
(* Leeto.cpp *)

\* Credentials that are not there are empty, and do not connect either.
main ==
  /\ process # "running"
  /\ starts < MaxStarts
  /\ starts' = starts + 1
  /\ connected' \in BOOLEAN
  /\ process' = IF connected' THEN "running" ELSE "error"
  /\ called' = FALSE
  /\ phase' = [e \in Readies |-> "none"]
  /\ posters' = {}
  /\ raced' = FALSE
  /\ failed' = FALSE
  /\ UNCHANGED <<creating, registered, intVars>>

\* The process dies, with the interactions it has not finished.
Crash ==
  /\ process = "running"
  /\ process' = "stopped"
  /\ at' = [i \in Interactions |->
              IF at[i] \in {"none", "done"} THEN at[i] ELSE "lost"]
  /\ UNCHANGED <<connected, starts, readyVars, kind, handled, shown, refused>>

-----------------------------------------------------------------------------
(* run_once and register_slash_commands. *)

Reading(e) == phase[e] \in {"first", "again"}

\* Mutant of RunOnceWrite: what was read is forgotten.
RunOnceWriteAlways(e) ==
  /\ process = "running"
  /\ Reading(e)
  /\ called' = TRUE
  /\ phase' = [phase EXCEPT ![e] = "past"]
  /\ posters' = posters \cup {e}
  /\ creating' = creating \cup {e}
  /\ UNCHANGED <<procVars, raced, failed, registered, intVars>>

\* Mutant of RunOnceWrite: the flag is all that is done.
RunOnceWriteOnly(e) ==
  /\ process = "running"
  /\ Reading(e)
  /\ called' = TRUE
  /\ phase' = [phase EXCEPT ![e] = "past"]
  /\ UNCHANGED <<procVars, posters, raced, creating, failed, registered, intVars>>

\* !std::exchange(called, true), on a plain bool: it is read ..
RunOnceRead(e) ==
  /\ process = "running"
  /\ phase[e] = "none"
  /\ phase' = [phase EXCEPT ![e] = IF called THEN "again" ELSE "first"]
  /\ raced' = (raced \/ \E f \in Readies : Reading(f))
  /\ UNCHANGED <<procVars, called, posters, creating, failed, registered, intVars>>

\* .. and written; the first handler posts bot.global_bulk_command_create.
RunOnceWrite(e) ==
  /\ process = "running"
  /\ Reading(e)
  /\ called' = TRUE
  /\ phase' = [phase EXCEPT ![e] = "past"]
  /\ \/ phase[e] = "first" /\ posters' = posters \cup {e}
                           /\ creating' = creating \cup {e}
     \/ phase[e] = "again" /\ UNCHANGED <<posters, creating>>
  /\ UNCHANGED <<procVars, raced, failed, registered, intVars>>

\* Discord replaces the commands of the bot, or refuses; nobody looks at its answer.
Create(e) ==
  /\ e \in creating
  /\ creating' = creating \ {e}
  /\ \/ registered' = Commands /\ UNCHANGED failed
     \/ failed' = TRUE /\ UNCHANGED registered
  /\ UNCHANGED <<procVars, called, phase, posters, raced, intVars>>

-----------------------------------------------------------------------------
(* Interactions. *)

\* A user sends a command that Discord offers, or uses a button or the menu of a
\* message of the bot.
Issue(i) ==
  /\ process = "running"
  /\ at[i] = "none"
  /\ \E k \in registered \cup Buttons \cup {"menu"} : kind' = [kind EXCEPT ![i] = k]
  /\ at' = [at EXCEPT ![i] = "queued"]
  /\ UNCHANGED <<procVars, readyVars, handled, shown, refused>>

Given(i, point, to) ==
  /\ process = "running"
  /\ at[i] = "queued"
  /\ at' = [at EXCEPT ![i] = point]
  /\ handled' = [handled EXCEPT ![i] = @ \cup to]
  /\ UNCHANGED <<procVars, readyVars, kind, shown, refused>>

\* Mutant of handle_slash_commands: one name is not the one that is registered.
handle_slash_commands_typo(i) ==
  \/ kind[i] = "ping" /\ Given(i, "reply", {"reply"})
  \/ kind[i] = "information" /\ Given(i, "thinking", {"handle_info_commands"})
  \/ kind[i] = "register" /\ Given(i, "done", {"handle_registry_commands"})
  \/ kind[i] = "leetcode" /\ Given(i, "done", {"handle_leetcode_commands"})
  \/ kind[i] \in {"info", Retired} /\ Given(i, "done", {})

\* co_reply is posted at once, co_thinking by handle_info_commands.
handle_slash_commands(i) ==
  \/ kind[i] = "ping" /\ Given(i, "reply", {"reply"})
  \/ kind[i] = "info" /\ Given(i, "thinking", {"handle_info_commands"})
  \/ kind[i] = "register" /\ Given(i, "done", {"handle_registry_commands"})
  \/ kind[i] = "leetcode" /\ Given(i, "done", {"handle_leetcode_commands"})
  \/ kind[i] = Retired /\ Given(i, "done", {})

\* Both handlers are called, the second for its ids only.
on_button_click(i) ==
  /\ kind[i] \in Buttons
  /\ Given(i, "done",
       (IF kind[i] \in {"solution_id", "description_id"}
          THEN {"handle_solution_button_click"} ELSE {})
       \cup
       (IF kind[i] \in {"solution_prev_page", "solution_next_page"}
          THEN {"handle_solutions_page_button"} ELSE {}))

on_select_click(i) ==
  kind[i] = "menu" /\ Given(i, "done", {"handle_solution_dropdown"})

\* Discord answers a call of the coroutine, which goes on whatever the answer: one
\* that comes too late is refused, and so is what follows.
Answered(i, point, next, text) ==
  /\ process = "running"
  /\ at[i] = point
  /\ at' = [at EXCEPT ![i] = next]
  /\ \/ i \notin refused /\ shown' = [shown EXCEPT ![i] = text] /\ UNCHANGED refused
     \/ refused' = refused \cup {i} /\ UNCHANGED shown
  /\ UNCHANGED <<procVars, readyVars, kind, handled>>

\* Mutant of handle_info_commands: nothing follows co_thinking.
handle_info_commands_stops(i) == Answered(i, "thinking", "done", "thinking")

\* Mutant of handle_info_commands: the edit is awaited and not posted.
handle_info_commands_waits(i) == Answered(i, "thinking", "edit", "thinking")

Pong(i) == Answered(i, "reply", "done", "answer")

\* co_thinking, then an edit; "general" is the only subcommand Discord offers.
handle_info_commands(i) ==
  \/ Answered(i, "thinking", "edit", "thinking")
  \/ Answered(i, "edit", "done", "answer")

Ready(e) == RunOnceRead(e) \/ RunOnceWrite(e) \/ Create(e)

Interact(i) ==
  \/ handle_slash_commands(i) \/ on_button_click(i) \/ on_select_click(i)
  \/ Pong(i) \/ handle_info_commands(i)

Next ==
  \/ main \/ Crash
  \/ \E e \in Readies : Ready(e)
  \/ \E i \in Interactions : Issue(i) \/ Interact(i)

Spec == Init /\ [][Next]_vars

\* The pool runs its jobs, shards become ready, and Discord answers; nobody has to
\* start the bot or to use it.
FairSpec ==
  /\ Spec
  /\ \A e \in Readies : WF_vars(Ready(e))
  /\ \A i \in Interactions : WF_vars(Interact(i))

-----------------------------------------------------------------------------
(* Properties. *)

\* Ready handlers that do not overlap create the commands once in a process.
OnceUnlessRaced == ~raced => \A e, f \in posters : e = f

\* Every command that the bot registers, and every button and menu it posts, has
\* one handler and one only.
HandledOnce == \A i \in Interactions :
  at[i] \notin {"none", "queued", "lost"} /\ kind[i] # Retired =>
    \E h \in Handlers : handled[i] = {h}

\* /ping and /info answer whom Discord lets them answer.
AnswersWhoIsThere == \A i \in Interactions :
  at[i] = "done" /\ kind[i] \in {"ping", "info"} /\ i \notin refused =>
    shown[i] = "answer"

\* A process whose ready handlers have been through run_once is offered with its
\* commands, or waits for Discord's answer, or was refused: no overlap of handlers,
\* no restart and no answer to an earlier process loses the creation.
CommandsAsked ==
  (\E e \in Readies : phase[e] = "past") =>
    registered = Commands \/ failed \/ creating # {}

\* A bot that runs is offered by Discord with its commands, unless Discord refused
\* them: then nothing asks again.
CommandsOffered ==
  process = "running" ~> registered = Commands \/ failed \/ process # "running"

\* No interaction stays in the bot.
InteractionsEnd == \A i \in Interactions :
  at[i] = "queued" ~> at[i] \in {"done", "lost"}

-----------------------------------------------------------------------------
(* The inductive invariant behind OnceUnlessRaced and CommandsAsked. *)

BotInv ==
  /\ TypeOK
  /\ process = "running" => connected
  /\ posters # {} => called
  /\ \A e \in Readies : phase[e] \in {"again", "past"} => called
  /\ called => registered = Commands \/ failed \/ creating # {}
  /\ ~raced =>
       /\ \A e, f \in Readies : Reading(e) /\ Reading(f) => e = f
       /\ \A e \in Readies : phase[e] = "first" => ~called
       /\ OnceUnlessRaced
=============================================================================
